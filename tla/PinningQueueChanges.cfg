CONSTANTS
  NumCommands = 1
  MaxAttempts = 0
  MaxNotifications = 0
  MaxPauses = 0
  Saves = {1}
  PinnedChoices = {TRUE}
  MaxDisruptions = 1
SPECIFICATION Spec
INVARIANT SentWithAllChanges
CHECK_DEADLOCK FALSE
