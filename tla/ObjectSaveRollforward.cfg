CONSTANTS
  Keys = {k1, k2}
  MaxChanges = 3
  MaxSaves = 3
SPECIFICATION Spec
INVARIANT ErrorsRollForward
CHECK_DEADLOCK FALSE
