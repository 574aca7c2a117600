SPECIFICATION FairSpec
CONSTANTS
  Subs <- ThreeSubs
  Dues = {0}
  Actors = {}
  None = None
  MaxDay = 1
  MaxChanges = 2
  Engines = {e1}
  ReminderDays = {0}
  NoticeDays = {}
  QuietDays = {}
  Addresses = {a}
  Staff = {b}
  PageSize = 1
PROPERTIES EventuallyEnrolled
CHECK_DEADLOCK FALSE
