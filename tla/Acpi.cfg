CONSTANTS
  PLACES = 2
  MAX_ENTRIES = 2
  Packages <- MCPackages
SPECIFICATION AcpiSpec
INVARIANTS
  AcpiTypeOK
  TakesFirstTable
  WritesDeclaredTypes
  SleepsOnlyEnabled
PROPERTIES
  PowersOff
CHECK_DEADLOCK FALSE
