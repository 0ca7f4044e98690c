\* execute() with a mutation and the default idempotent=True.
SPECIFICATION Spec
CONSTANTS
  Ops <- ExecuteOps
  MaxCalls = 1
INVARIANT NoWriteExecutedTwice
CHECK_DEADLOCK FALSE
