SPECIFICATION Spec
CONSTANTS
  Rows <- OneRow
  Cases = {c1}
  CaseOf <- OneCase
  InternalRows = {}
  Workers = {w1, w2}
  Recipients = {a, b}
  Mailboxes = {m1}
  None = None
  Lease = 1
  MaxSendAttempts = 2
  BatchSize = 1
  MaxTime = 4
  MaxChanges = 1
  PromptClaim = FALSE
SYMMETRY WorkerSymmetry
INVARIANTS SoleOwner
CHECK_DEADLOCK FALSE
