CONSTANTS
  Root = root
  Child = child
  Other = other
  Saved = {root, other}
  PinNames = {a, b}
  MaxUuids = 9
  MaxPinCalls = 2
  MaxLapses = 1
SPECIFICATION StoreSpec
INVARIANT StoredRecursively
CHECK_DEADLOCK FALSE
