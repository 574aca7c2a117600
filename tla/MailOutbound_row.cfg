SPECIFICATION FairSpec
CONSTANTS
  Rows <- OneRow
  Cases = {c1}
  CaseOf <- OneCase
  InternalRows = {}
  Workers = {w1, w2}
  Recipients = {a, b}
  Mailboxes = {m1, m2}
  None = None
  Lease = 1
  MaxSendAttempts = 2
  BatchSize = 1
  MaxTime = 2
  MaxChanges = 1
  PromptClaim = TRUE
INVARIANTS SoleOwner IdentityPinned AttemptsBounded CaseMailboxPinned
PROPERTIES FinalRowsStay ImplementsDelivery EventuallyResolved
CHECK_DEADLOCK FALSE
