CONSTANTS
  BUSES = 2
  DEVICES = 2
  FUNCTIONS = 2
  MAX_PCI_DEVICES = 4
SPECIFICATION PciSpec
INVARIANTS
  ListSound
  ListCycles
PROPERTY
  ScanEnds
CHECK_DEADLOCK FALSE
