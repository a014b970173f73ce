CONSTANTS
  Processes = {"app", "ext", "other"}
  Workers = {"w1", "w2"}
  Files = {"f1", "f2"}
  Uses <- LockUses
  NoWait = NoWait
  MaxDepth = 1
  MaxAccesses = 2
  MaxAccidents = 1
  LocalIds = {l1, l2}
  ObjectIds = {o1, o2}
  NoId = NoId
  MaxRetains = 2
  MaxCounter = 3
  MaxTime = 3
  MaxCommands = 3
  MaxDisturbances = 1
  Listeners = {q1, q2}
  None = None
  MaxChanges = 2
  Threads = {t1, t2}
  Keys = {k1, k2}
  Values = {1, 2}
  MaxRecords = 1
  MaxBytes = 2
  MaxInMemory = 2
  MaxAges = 1
  MaxCalls = 3
SPECIFICATION AllSpec
INVARIANTS AllTypeOK ExclusiveUnlessOverlapped MemoryAgreesWithDisk OldestFirst AgreesWhenQuiet CoherentWhenQuiet
PROPERTY StuckOnlyInACycle
CHECK_DEADLOCK FALSE
