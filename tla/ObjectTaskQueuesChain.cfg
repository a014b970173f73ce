CONSTANTS
  NumObjects = 3
  Instances <- Chain
  MaxSaves = 2
  MaxTasks = 4
SPECIFICATION Spec
INVARIANT EverySaveEnds
CHECK_DEADLOCK FALSE
