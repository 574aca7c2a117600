SPECIFICATION Spec
CONSTANTS
  Subs <- OneSub
  Dues = {1}
  Actors = {p, q}
  None = None
  MaxDay = 2
  MaxChanges = 2
  Engines = {e1, e2}
  ReminderDays = {0, 2}
  NoticeDays = {1}
  QuietDays = {1}
  Addresses = {a1, a2}
  Staff = {b}
  PageSize = 1
SYMMETRY Symmetric
INVARIANTS MilestonesInOrder RunsAreComplete
PROPERTIES ImplementsLifecycle
CHECK_DEADLOCK FALSE
