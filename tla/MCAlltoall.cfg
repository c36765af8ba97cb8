SPECIFICATION Spec
CONSTANTS
  NumProcs = 3
  Bytes = 12
  Programs <- MCPrograms
INVARIANTS
  TypeOK ResultStable AbortsOnlyOnMisuse
PROPERTY Termination
CHECK_DEADLOCK FALSE
