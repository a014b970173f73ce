CONSTANTS
  NumCommands = 2
  MaxAttempts = 0
  MaxNotifications = 0
  MaxPauses = 0
  Saves = {1, 2}
  PinnedChoices = {FALSE}
  MaxDisruptions = 1
  Sizes = {1}
  DiskCacheSize = 3
  EntrySize = 1
  BackandChoices = {FALSE}
SPECIFICATION AllSpec
INVARIANTS AllTypeOK PinsKept AnsweredIsFinal PopsItsOwnSet
PROPERTY AllEventuallySent
CHECK_DEADLOCK FALSE
