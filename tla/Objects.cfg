CONSTANTS
  LocalIds = {l1, l2}
  ObjectIds = {o1, o2, o3, o4, o5}
  NoId = NoId
  MaxRetains = 0
  MaxSaves = 3
  MaxCrashes = 1
  MaxLost = 1
  Elements = {x, y}
  Amounts <- FieldAmounts
  IntMax = 3
  MaxOperations = 3
  MaxFieldSaves = 2
  Keys = {k1, k2}
  MaxChanges = 3
  Users = {"a1", "a2", "b"}
  Account <- SharedAccount
  Lazy = {"z"}
  Nobody = "nobody"
  MaxCalls = 3
  MaxFailures = 1
  Runs = {r1}
  RetryAttempts = 3
  Chunks = 2
  Root = root
  Child = child
  Other = other
  Saved = {root}
  PinNames = {a, b}
  MaxUuids = 9
  MaxPinCalls = 3
  MaxLapses = 1
  Files = {"f1", "f2"}
  SharedUrl = "url"
  NewChoices <- MadeFromData
  DownloadAttempts = 2
  MaxTransfers = 2
  MaxClears = 1
SPECIFICATION AllSpec
INVARIANTS ObjectsTypeOK OneObjectPerLocalId FieldIsWhatIsSent EstimatedIsCurrent NoChangeLost PinsAreAsAsked StoreIsClosed CredentialsAreTheUsers LoggedOutStaysOut MemoryMatchesDisk OnlyOneIsCurrent DownloadedFileIsWhole RunsEnd AvailableDataIsWhole SharedDownloadsAreLive
CHECK_DEADLOCK FALSE
SYMMETRY Interchangeable
