SPECIFICATION FairSpec
CONSTANTS
  Syncs = {s1, s2}
  BatchSize = 2
  None = None
  MaxUid = 3
  MaxUidValidity = 2
  MaxChanges = 2
INVARIANTS NoneSkipped RightIdentity
PROPERTIES CursorNeverBack EventuallyStored
CHECK_DEADLOCK FALSE
