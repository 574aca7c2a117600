SPECIFICATION InboundSpec
CONSTANTS
  Subs <- OneSub
  Dues = {1}
  Actors = {s}
  None = None
  MaxDay = 0
  MaxChanges = 3
  Messages = {m1, m2}
  ThreadCase <- TheCase
  Workers = {w1, w2}
  Mails <- MCMails
  Mailboxes = {"info", "sales"}
  Talks = {1, 2, 3, 4}
  People = {"p", "q", "r"}
  Matters = {"renewal"}
  ClientOf <- MCClientOf
  Books <- MCBooks
  Outgoing <- MCOutgoing
  Ingesters = {w1, w2}
  MaxEvents = 2
SYMMETRY Symmetric
INVARIANTS AiAcceptsOnce NothingFallsThrough KeptApart
PROPERTIES HumanHasLastWord OutcomesStand
CHECK_DEADLOCK FALSE
