CONSTANTS
  HEAP_SIZE = 12
  MAX_MAPPINGS = 4
  WORD = 32
  Sizes = {0, 1, 2}
  MapLengths = {1}
  BUSES = 1
  DEVICES = 2
  FUNCTIONS = 2
  MAX_PCI_DEVICES = 2
  DEVICE_SIZE = 1
  PORT_SIZE = 1
SPECIFICATION DisksSpec
INVARIANT
  FillMatchesCount
