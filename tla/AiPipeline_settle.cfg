SPECIFICATION FairSpec
CONSTANTS
  Subs <- OneSub
  Dues = {1}
  Actors = {s}
  None = None
  MaxDay = 0
  MaxChanges = 3
  Messages = {m1}
  ThreadCase <- TheCase
  Workers = {w1, w2}
PROPERTIES EventuallySettled
CHECK_DEADLOCK FALSE
