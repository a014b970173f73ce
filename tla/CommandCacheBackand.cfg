CONSTANTS
  NumCommands = 1
  MaxAttempts = 0
  MaxNotifications = 0
  MaxPauses = 0
  Sizes = {1}
  DiskCacheSize = 3
  EntrySize = 1
  BackandChoices = {TRUE}
  MaxDisruptions = 1
SPECIFICATION FairSpec
PROPERTY SentWhenOpened
CHECK_DEADLOCK FALSE
