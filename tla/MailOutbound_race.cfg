SPECIFICATION Spec
CONSTANTS
  Rows <- TwoRows
  Cases = {c1}
  CaseOf <- OneCase
  InternalRows = {2}
  Workers = {w1, w2}
  Recipients = {a}
  Mailboxes = {m1, m2}
  None = None
  Lease = 1
  MaxSendAttempts = 2
  BatchSize = 2
  MaxTime = 2
  MaxChanges = 2
  PromptClaim = TRUE
SYMMETRY WorkerSymmetry
INVARIANTS CaseMailboxPinned
CHECK_DEADLOCK FALSE
