SPECIFICATION Spec
CONSTANTS
  Operators = {o1, o2}
  Staff = {o1, o2}
  Clerks = {o1, o2}
  Desks = {o1, o2}
  Importers = {o1, o2}
  Managers = {o1, o2}
  Recorders = {o1, o2}
  Admins = {o1, o2}
  Replies = {1}
  Senders = {s1, s2}
  Addresses = {a, b}
  Nobody = Nobody
  ReplyLease = 1
  Backoff <- ShortBackoff
  DeferDelay = 1
  MaxTries = 3
  ReplyBatch = 1
  Horizon = 4
  MaxTurns = 1
  Texts = {t}
  Blank = Blank
  Suggestion = Suggestion
  MaxSends = 2
  MaxLoads = 1
  Subs = {1}
  Starts = {1, 2}
  Intervals = {1, 2}
  MaxSaves = 2
  Channels = {1, 2, 3}
  MaxRequests = 3
  Customers = {c1, c2}
  Cards = {d}
  MaxClicks = 2
  MaxCases = 1
  Providers = {p, q}
  NoProvider = NoProvider
  Callers = {k}
  MaxWrites = 2
  Accounts = {x, y}
  Absent = Absent
  MaxChanges = 2
  MaxRecordings = 4
  Rows = {1}
  Dates = {1, 2}
  Sheet = 1
  Missing = Missing
  MaxUses = 3
  Lines <- MCLines
  Sellers = {o1, o2}
  Codes = {"JOD", "SAR"}
  Jod = "JOD"
  Quotes <- MCQuotes
  Services = {"hosting"}
  Offers = {"mail", "web"}
  Versions <- MCVersions
  Sold = {"hosted"}
  Deals <- MCDeals
  MaxEdits = 4
SYMMETRY Symmetric
INVARIANTS Paced ShownAsSent OneReplyEach TermFollowsInterval PrimaryInStep DeletionComplete SettingsCoherent HealthTold LiveAsConfirmed SilentMeansSound SoldAsPublished
PROPERTIES RepliesDelivered WorkKept CredentialsKept
CHECK_DEADLOCK FALSE
