CONSTANTS
  NumObjects = 3
  Instances <- PassingInstances
  MaxSaves = 2
  MaxTasks = 5
  NumCommands = 3
  MaxAttempts = 0
  MaxNotifications = 0
  MaxPauses = 0
  Sizes = {1, 5}
  DiskCacheSize = 2
  EntrySize = 2
  BackandChoices = {TRUE, FALSE}
  MaxDisruptions = 1
SPECIFICATION AllSpec
INVARIANTS SameOrderInAllQueues OneSaveAtATime ChildrenSavedFirst EveryEnqueueReturns FlatSavesEnd NothingLost
PROPERTY DeliversInOrder
CHECK_DEADLOCK FALSE
