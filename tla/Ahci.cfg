CONSTANTS
  CMD_SLOTS = 3
  SPIN_LIMIT = 2
  HEADER = 1
  ENTRIES = 2
  SECTORS = 1
  COUNT_T = 16
  ENTRY_T = 4
  Counts = {0, 2, 3}
SPECIFICATION AhciSpec
INVARIANTS
  SlotIsFree
  TrueMeansDone
PROPERTIES
  RebaseOnlyWhenStopped
  CommandsKept
  RebaseReturns
  ReadReturns
