CONSTANTS
  HEAP_SIZE = 7
  MAX_MAPPINGS = 3
  MAX_PAGES = 3
  PAGE_SIZE = 4
  physical_memory = 8
  WORD = 16
  ADDRESSES = 32
  Sizes = {0, 1, 3}
  MapLengths = {1, 2}
  Clients = {"disk", "editor"}
SPECIFICATION MemorySpec
INVARIANTS
  BlocksSound
  MappingsSound
  PagesSound
PROPERTIES
  FailureTakesNothing
  NothingReused
