\* A call that died is repeated: which direction do the files take?
CONSTANTS
  Files = {f1, f2, log}
  Logs = {log}
  PathExempt = FALSE
  Keys = {k1, k2}
  None = none
  SizeFails = FALSE
  MaxCalls = 2
SPECIFICATION Spec
INVARIANTS DecidedOnDatabase
CHECK_DEADLOCK FALSE
