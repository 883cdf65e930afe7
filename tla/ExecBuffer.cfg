CONSTANTS
  HEAP_SIZE = 4
  MAX_MAPPINGS = 0
  WORD = 64
  Sizes = {}
  MapLengths = {}
  CODE_SIZE = 11
  MAX_VARS = 2
  INT_MAX = 1
  Names <- MCNames
  NumberOf <- MCNumbers
  LowTexts <- MCLowTexts
  Programs <- MCPrograms
SPECIFICATION ExecSpec
INVARIANTS
  MshTypeOK
  StringsOwned
  ReadsStayInside
  TextKept
  SuccessRunsOnce
PROPERTIES
  ImplementsRunner
  ExecutionEnds
CHECK_DEADLOCK FALSE
