CONSTANTS
  CMD_SLOTS = 3
  SPIN_LIMIT = 2
  HEADER = 1
  ENTRIES = 2
  SECTORS = 1
  COUNT_T = 16
  ENTRY_T = 4
  Counts = {1}
SPECIFICATION AhciSpec
INVARIANT
  FreeSlotFound
