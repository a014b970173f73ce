CONSTANTS
  NumCommands = 2
  MaxAttempts = 1
  MaxNotifications = 1
  MaxPauses = 1
  MaxRemovals = 1
SPECIFICATION FairSpec
INVARIANTS TypeOK NoLostWakeup ResolvedIsFinal
PROPERTIES DeliversInOrder EventuallyFinished SetConnectedReturns
CHECK_DEADLOCK FALSE
