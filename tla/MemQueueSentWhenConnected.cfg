CONSTANTS
  NumCommands = 1
  MaxAttempts = 1
  MaxNotifications = 1
  MaxPauses = 1
  MaxRemovals = 0
SPECIFICATION FairSpec
PROPERTY SentWhenConnected
CHECK_DEADLOCK FALSE
