CONSTANTS
  Threads = {t1, t2}
  Keys = {k1, k2}
  Values = {1, 2}
  MaxRecords = 1
  MaxBytes = 2
  MaxInMemory = 2
  MaxTime = 1
  MaxCalls = 3
SPECIFICATION Spec
INVARIANT NeverOverAggressive
CHECK_DEADLOCK FALSE
