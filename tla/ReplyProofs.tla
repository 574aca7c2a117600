----------------------------- MODULE ReplyProofs -----------------------------
(***************************************************************************)
(* Proofs about operator replies. ReplyOutbound: for any number of replies *)
(* and concurrent batches, whatever dies or stalls, a reply goes to the    *)
(* address its thread shows, its attempts keep their back-off, and it is   *)
(* resolved once as OutboxDelivery promises. The argument is about claims: *)
(* a claim is known by its row and the takeovers before it, at most one    *)
(* claim under way has the latest number, and what it knows of its row     *)
(* nobody changes. ReplyComposer: whatever answers are lost and however    *)
(* retries overlap, a composition becomes one reply. The argument is about *)
(* keys: the page listens to one request, and a key is used up before the  *)
(* next.                                                                   *)
(***************************************************************************)
EXTENDS ReplyOutbound, ReplyComposer, FiniteSetTheorems, WellFoundedInduction, TLAPS

-----------------------------------------------------------------------------
(* REPLYOUTBOUND                                                           *)


-----------------------------------------------------------------------------
(* The inductive invariant                                                 *)

\* Past its claim; not yet past its transmission.
Claimed == Stage \ {"idle", "claim"}
Unsent == Claimed \ {"record"}

\* The latest claim of its row: everything else was taken over.
Latest(j) == j.over = takeovers[j.row]

\* The latest claim holds the lease, the others are behind.
Ranked(j) ==
    IF Latest(j)
    THEN reply[j.row].status = "PROCESSING" /\ reply[j.row].lastAttemptAt = j.token
    ELSE j.over < takeovers[j.row] /\ j.token < reply[j.row].lastAttemptAt

\* What the latest claim read is still what its row holds.
Knows(j) ==
    /\ j.stage \in {"mailbox", "recipient", "defer", "cancel", "rebind", "mark"} =>
         j.tries = reply[j.row].attempts
    /\ j.stage \in {"mailbox", "recipient"} => j.seen = reply[j.row].recipient
    /\ j.stage = "mark" => j.to = reply[j.row].recipient
    /\ j.stage \in {"send", "record"} => reply[j.row].attempts = j.tries + 1

\* The back-off after attempt m is over at t.
Spaced(m, t) == m.try \in 1..MaxTries /\ t >= m.at + Backoff[m.try]

Mine(j) == {m \in mailed : m.row = j.row /\ m.over = j.over}

\* A claim comes after the back-off of every attempt of its own count.
InTime(j) ==
    /\ j.stage \in Unsent => \A m \in Mine(j) : Spaced(m, j.token)
    /\ j.stage \in Unsent \ {"load"} => \A m \in Mine(j) : m.try <= j.tries
    /\ j.stage = "record" =>
         \A m \in Mine(j) : Spaced(m, j.token) \/ (m.at = j.token /\ m.try = j.tries + 1)

\* A transmission is addressed as the thread shows it, and leaves its trace.
Addressed(j) ==
    /\ j.stage = "rebind" => j.to \in Addresses
    /\ j.stage = "send" => j.to = header[j.row] /\ reply[j.row].attempts >= j.tries + 1
    /\ j.stage = "record" =>
         /\ \E m \in mailed : m.row = j.row
         /\ j.outcome = "accepted" => j.row \in receipts
         /\ j.outcome # "none"

Orderly(j) ==
    /\ j.stage # "idle" => j.row \in Replies
    /\ j.stage \in Claimed =>
         Ranked(j) /\ (Latest(j) => Knows(j)) /\ InTime(j) /\ Addressed(j)

SenderInv == \A w \in Senders : Orderly(sender[w])

ClaimsDiffer ==
    \A v, w \in Senders :
        (v # w /\ sender[v].stage \in Claimed /\ sender[w].stage \in Claimed
         /\ sender[v].row = sender[w].row) => sender[v].over # sender[w].over

\* What was transmitted was counted, by its row and by its claim.
MailedInv ==
    \A m \in mailed :
        /\ m.row \in Replies /\ m.to \in Addresses
        /\ m.at \in Nat /\ m.try \in Nat \ {0} /\ m.over \in Nat
        /\ m.try <= reply[m.row].attempts
        /\ m.over <= takeovers[m.row]

\* A row that waits is not due before its back-off is over.
RowInv ==
    \A r \in Replies : reply[r].status = "QUEUED" =>
        /\ reply[r].lastAttemptAt <= reply[r].due
        /\ \A m \in mailed : m.row = r /\ m.over = takeovers[r] => Spaced(m, reply[r].due)

ReplyInv ==
    /\ ReplyTypeOK
    /\ SenderInv /\ ClaimsDiffer
    /\ MailedInv /\ RowInv
    /\ ShownAsSent /\ Paced

-----------------------------------------------------------------------------
(* Facts about one sender                                                  *)

LEMMA RestingSender == Resting \in Sender /\ Resting.stage = "idle"
  BY DEF Resting, Sender, Stage

LEMMA SenderFacts ==
  ASSUME ReplyInv, NEW w \in Senders
  PROVE  /\ sender \in [Senders -> Sender] /\ sender[w] \in Sender /\ Orderly(sender[w])
         /\ sender[w].token \in Nat /\ sender[w].tries \in Nat /\ sender[w].over \in Nat
         /\ sender[w].stage \in Claimed =>
              /\ sender[w].row \in Replies /\ Ranked(sender[w])
              /\ reply[sender[w].row] \in ReplyRow
              /\ takeovers[sender[w].row] \in Nat
              /\ reply[sender[w].row].lastAttemptAt \in Nat
  <1>1. sender \in [Senders -> Sender] /\ sender[w] \in Sender /\ Orderly(sender[w])
    BY DEF ReplyInv, ReplyTypeOK, SenderInv
  <1>2. sender[w].stage \in Claimed => sender[w].row \in Replies /\ Ranked(sender[w])
    BY <1>1 DEF Orderly, Claimed
  <1> QED
    BY <1>1, <1>2 DEF Sender, ReplyInv, ReplyTypeOK, ReplyRow

\* The lease is held by the latest claim of a row, and by no other.
LEMMA LeasedIsLatest ==
  ASSUME ReplyInv, NEW w \in Senders, sender[w].stage \in Claimed
  PROVE  Leased(w) <=> Latest(sender[w])
  BY SenderFacts DEF Leased, Ranked

LEMMA OthersBehind ==
  ASSUME ReplyInv, NEW w \in Senders, sender[w].stage \in Claimed, Latest(sender[w]),
         NEW v \in Senders, v # w, sender[v].stage \in Claimed, sender[v].row = sender[w].row
  PROVE  ~Latest(sender[v])
  BY DEF ReplyInv, ClaimsDiffer, Latest

LEMMA TurnFacts ==
  ASSUME ReplyInv, NEW w \in Senders, NEW j \in Sender, Turn(w, j)
  PROVE  /\ sender' \in [Senders -> Sender] /\ sender'[w] = j
         /\ \A v \in Senders : v # w => sender'[v] = sender[v]
  BY DEF Turn, ReplyInv, ReplyTypeOK

\* A sender that stands still keeps in order when the others only write rows
\* they hold the lease of.
LEMMA OtherStays ==
  ASSUME ReplyInv, NEW v \in Senders, sender'[v] = sender[v],
         NEW r \in Replies, r = sender[v].row, sender[v].stage \in Claimed,
         takeovers'[r] = takeovers[r], reply'[r].lastAttemptAt = reply[r].lastAttemptAt,
         Latest(sender[v]) => reply'[r] = reply[r],
         reply'[r].attempts \in Nat, reply'[r].attempts >= reply[r].attempts,
         sender[v].stage = "send" => header'[r] = header[r],
         mailed \subseteq mailed', receipts \subseteq receipts',
         \A m \in mailed' \ mailed : m.row # r \/ m.over # sender[v].over
  PROVE  Orderly(sender[v])'
  <1>1. /\ sender[v] \in Sender /\ Orderly(sender[v]) /\ sender[v].tries \in Nat
        /\ reply[r].attempts \in Nat
    BY SenderFacts DEF ReplyRow
  <1>2. Mine(sender[v])' = Mine(sender[v])
    BY DEF Mine
  <1>3. Ranked(sender[v])' /\ (Latest(sender[v])' <=> Latest(sender[v]))
    BY <1>1 DEF Orderly, Ranked, Latest
  <1>4. Latest(sender[v])' => Knows(sender[v])'
    BY <1>1, <1>3 DEF Orderly, Knows
  <1>5. InTime(sender[v])'
    BY <1>1, <1>2 DEF Orderly, InTime, Spaced
  <1>6. Addressed(sender[v])'
    BY <1>1 DEF Orderly, Addressed
  <1> QED
    BY <1>3, <1>4, <1>5, <1>6 DEF Orderly

LEMMA StandStill ==
  ASSUME ReplyInv, NEW v \in Senders, sender'[v] = sender[v],
         UNCHANGED <<reply, header, mailed, receipts, takeovers>>
  PROVE  Orderly(sender[v])'
  <1>1. Orderly(sender[v])
    BY SenderFacts
  <1> QED
    BY <1>1 DEF Orderly, Ranked, Latest, Knows, InTime, Mine, Spaced, Addressed

-----------------------------------------------------------------------------
(* A step of one sender that writes nothing shared                         *)

LEMMA QuietKeeps ==
  ASSUME ReplyInv, NEW w \in Senders, NEW j \in Sender, Turn(w, j),
         UNCHANGED <<reply, header, mailed, receipts, takeovers, time, office>>,
         queue' \in [Senders -> SUBSET Replies],
         Orderly(sender[w])',
         j.stage \in Claimed =>
           sender[w].stage \in Claimed /\ j.row = sender[w].row /\ j.over = sender[w].over
  PROVE  ReplyInv'
  <1>1. /\ sender' \in [Senders -> Sender] /\ sender'[w] = j
        /\ \A v \in Senders : v # w => sender'[v] = sender[v]
    BY TurnFacts
  <1>2. ReplyTypeOK'
    BY <1>1 DEF ReplyInv, ReplyTypeOK
  <1>3. SenderInv'
    BY <1>1, StandStill DEF SenderInv
  <1>4. ClaimsDiffer'
    BY <1>1 DEF ReplyInv, ClaimsDiffer
  <1>5. MailedInv' /\ RowInv' /\ ShownAsSent' /\ Paced'
    BY DEF ReplyInv, MailedInv, RowInv, ShownAsSent, Paced, Spaced
  <1> QED
    BY <1>2, <1>3, <1>4, <1>5 DEF ReplyInv

\* A sender that gives up or dies.
LEMMA RestKeeps ==
  ASSUME ReplyInv, NEW w \in Senders, Turn(w, Resting),
         UNCHANGED <<reply, header, mailed, receipts, takeovers, time, office>>,
         queue' \in [Senders -> SUBSET Replies]
  PROVE  ReplyInv'
  <1>1. sender'[w] = Resting
    BY RestingSender, TurnFacts
  <1>2. Orderly(sender[w])'
    BY <1>1, RestingSender DEF Orderly, Claimed
  <1> QED
    BY <1>2, RestingSender, QuietKeeps DEF Claimed

LEMMA TakeBatchKeeps ==
  ASSUME ReplyInv, NEW w \in Senders, TakeBatch(w)
  PROVE  ReplyInv'
  <1>1. ReplyTypeOK /\ Due \subseteq Replies
    BY DEF ReplyInv, Due
  <1>2. queue' \in [Senders -> SUBSET Replies]
    <2> DEFINE some == {r \in Due : Cardinality({q \in Due : q < r}) < ReplyBatch}
    <2>1. some \in SUBSET Replies
      BY <1>1
    <2> HIDE DEF some
    <2>2. queue' = [queue EXCEPT ![w] = some]
      BY DEF TakeBatch, some
    <2> QED
      BY <1>1, <2>1, <2>2 DEF ReplyTypeOK
  <1>3. ReplyTypeOK'
    BY <1>1, <1>2 DEF TakeBatch, ReplyTypeOK, past
  <1>4. SenderInv'
    BY StandStill DEF TakeBatch, past, SenderInv
  <1>5. ClaimsDiffer' /\ MailedInv' /\ RowInv' /\ ShownAsSent' /\ Paced'
    BY DEF TakeBatch, past, ReplyInv, ClaimsDiffer, MailedInv, RowInv, ShownAsSent, Paced, Spaced
  <1> QED
    BY <1>3, <1>4, <1>5 DEF ReplyInv

LEMMA OpenKeeps ==
  ASSUME ReplyInv, NEW w \in Senders, Open(w)
  PROVE  ReplyInv'
  <1>1. PICK r \in queue[w] :
          /\ queue' = [queue EXCEPT ![w] = @ \ {r}]
          /\ Turn(w, [Resting EXCEPT !.stage = "claim", !.row = r, !.token = time])
    BY DEF Open
  <1>2. queue \in [Senders -> SUBSET Replies] /\ r \in Replies /\ time \in Nat
    BY <1>1, ReplyAssumption DEF ReplyInv, ReplyTypeOK
  <1> DEFINE j == [Resting EXCEPT !.stage = "claim", !.row = r, !.token = time]
  <1>3. j \in Sender /\ j.stage = "claim" /\ j.row = r
    BY <1>2, RestingSender DEF Sender, Stage
  <1> HIDE DEF j
  <1>4. Turn(w, j) /\ sender'[w] = j
    BY <1>1, <1>3, TurnFacts DEF j
  <1>5. Orderly(sender[w])' /\ j.stage \notin Claimed
    BY <1>2, <1>3, <1>4 DEF Orderly, Claimed
  <1>6. queue' \in [Senders -> SUBSET Replies]
    BY <1>1, <1>2
  <1> QED
    BY <1>3, <1>4, <1>5, <1>6, QuietKeeps DEF Open, past

LEMMA LoadKeeps ==
  ASSUME ReplyInv, NEW w \in Senders, LoadReply(w)
  PROVE  ReplyInv'
  <1> DEFINE r == sender[w].row
             j == [sender[w] EXCEPT !.stage = "mailbox", !.tries = reply[r].attempts,
                                    !.seen = reply[r].recipient]
  <1>1. /\ sender[w] \in Sender /\ sender[w].stage = "load" /\ r \in Replies
        /\ reply[r] \in ReplyRow /\ Orderly(sender[w])
    BY SenderFacts DEF LoadReply, Claimed, Stage
  <1>2. /\ j \in Sender /\ j.stage = "mailbox" /\ j.row = r /\ j.token = sender[w].token
        /\ j.over = sender[w].over /\ j.tries = reply[r].attempts /\ j.seen = reply[r].recipient
    BY <1>1 DEF Sender, Stage, ReplyRow
  <1> HIDE DEF j
  <1>3. Turn(w, j) /\ sender'[w] = j
    BY <1>2, TurnFacts DEF LoadReply, j
  <1>4. UNCHANGED <<reply, header, mailed, receipts, takeovers, time, office, queue>>
    BY DEF LoadReply, past
  <1>5. Orderly(sender[w])'
    <2>1. Ranked(sender[w])' /\ (Latest(sender[w])' => Knows(sender[w])')
      BY <1>1, <1>2, <1>3, <1>4 DEF Orderly, Ranked, Latest, Knows, Claimed, Stage
    <2>2. InTime(sender[w])'
      BY <1>1, <1>2, <1>3, <1>4
         DEF Orderly, InTime, Mine, Spaced, Claimed, Unsent, Stage, ReplyInv, MailedInv
    <2>3. Addressed(sender[w])'
      BY <1>2, <1>3 DEF Addressed
    <2> QED
      BY <1>1, <1>2, <1>3, <2>1, <2>2, <2>3 DEF Orderly
  <1>6. sender[w].stage \in Claimed
    BY <1>1 DEF Claimed, Stage
  <1> QED
    BY <1>2, <1>3, <1>4, <1>5, <1>6, QuietKeeps DEF ReplyInv, ReplyTypeOK

\* An eligibility check: the sender goes on, knowing what it knew.
LEMMA CheckKeeps ==
  ASSUME ReplyInv, NEW w \in Senders, sender[w].stage \in {"mailbox", "recipient"},
         NEW stage \in {"recipient", "defer", "cancel", "rebind", "mark"},
         NEW to \in Addresses \union {Nobody},
         Turn(w, [sender[w] EXCEPT !.stage = stage, !.to = to]),
         stage = "recipient" => sender[w].stage = "mailbox",
         stage = "rebind" => to \in Addresses,
         stage = "mark" => to = sender[w].seen,
         UNCHANGED <<reply, header, queue, time, office, past>>
  PROVE  ReplyInv'
  <1> DEFINE r == sender[w].row
             j == [sender[w] EXCEPT !.stage = stage, !.to = to]
  <1>1. sender[w] \in Sender /\ r \in Replies /\ Orderly(sender[w]) /\ sender[w].stage \in Claimed
    BY SenderFacts DEF Claimed, Stage
  <1>2. /\ j \in Sender /\ j.stage = stage /\ j.row = r /\ j.token = sender[w].token
        /\ j.over = sender[w].over /\ j.tries = sender[w].tries /\ j.seen = sender[w].seen
        /\ j.to = to
    BY <1>1 DEF Sender, Stage
  <1> HIDE DEF j
  <1>3. Turn(w, j) /\ sender'[w] = j
    BY <1>2, TurnFacts DEF j
  <1>4. UNCHANGED <<reply, header, mailed, receipts, takeovers, time, office, queue>>
    BY DEF past
  <1>5. Orderly(sender[w])'
    <2>1. Ranked(sender[w])' /\ (Latest(sender[w])' => Knows(sender[w])')
      BY <1>1, <1>2, <1>3, <1>4 DEF Orderly, Ranked, Latest, Knows, Claimed, Stage
    <2>2. InTime(sender[w])'
      BY <1>1, <1>2, <1>3, <1>4 DEF Orderly, InTime, Mine, Spaced, Claimed, Unsent, Stage
    <2>3. Addressed(sender[w])'
      BY <1>2, <1>3 DEF Addressed
    <2> QED
      BY <1>1, <1>2, <1>3, <2>1, <2>2, <2>3 DEF Orderly
  <1> QED
    BY <1>1, <1>2, <1>3, <1>4, <1>5, QuietKeeps DEF ReplyInv, ReplyTypeOK

LEMMA ChecksKeep ==
  ASSUME ReplyInv, NEW w \in Senders, CheckMailbox(w) \/ CheckRecipient(w)
  PROVE  ReplyInv'
  <1>1. sender[w] \in Sender
    BY SenderFacts
  <1>2. CASE CheckMailbox(w)
    <2> DEFINE stage == IF office.usable THEN "recipient" ELSE "defer"
    <2>1. sender[w].to \in Addresses \union {Nobody}
      BY <1>1 DEF Sender
    <2>2. [sender[w] EXCEPT !.stage = stage] = [sender[w] EXCEPT !.stage = stage, !.to = sender[w].to]
      BY <1>1 DEF Sender
    <2> QED
      BY <1>2, <2>1, <2>2, CheckKeeps DEF CheckMailbox
  <1>3. CASE CheckRecipient(w)
    <2> DEFINE stage == Judgement(sender[w].tries, sender[w].seen, office.contact)
    <2>1. office.contact \in Addresses \union {Nobody}
      BY DEF ReplyInv, ReplyTypeOK, Office
    <2>2. /\ stage \in {"defer", "cancel", "rebind", "mark"}
          /\ stage = "rebind" => office.contact \in Addresses
          /\ stage = "mark" => office.contact = sender[w].seen
      BY <2>1 DEF Judgement
    <2> HIDE DEF stage
    <2>3. /\ Turn(w, [sender[w] EXCEPT !.stage = stage, !.to = office.contact])
          /\ sender[w].stage = "recipient"
          /\ UNCHANGED <<reply, header, queue, time, office, past>>
      BY <1>3 DEF CheckRecipient, stage
    <2> QED
      BY <2>1, <2>2, <2>3, CheckKeeps
  <1> QED
    BY <1>2, <1>3

-----------------------------------------------------------------------------
(* A row is requeued or resolved                                           *)

LEMMA SettleLeased ==
  ASSUME ReplyInv, NEW w \in Senders, sender[w].stage \in Claimed, Leased(w),
         NEW status \in Ended \union {"QUEUED"}, NEW due \in Nat, Settle(w, status, due),
         status = "QUEUED" =>
           due >= sender[w].token /\ \A m \in Mine(sender[w]) : Spaced(m, due)
  PROVE  ReplyInv'
  <1>1. PICK r \in Replies : r = sender[w].row
    BY SenderFacts
  <1> DEFINE row == [reply[r] EXCEPT !.status = status, !.due = due]
  <1>2. /\ sender[w] \in Sender /\ reply \in [Replies -> ReplyRow] /\ reply[r] \in ReplyRow
        /\ Latest(sender[w]) /\ reply[r].lastAttemptAt = sender[w].token /\ ReplyTypeOK
    BY <1>1, SenderFacts, LeasedIsLatest DEF ReplyInv, ReplyTypeOK, Leased
  <1>3. /\ row \in ReplyRow /\ row.status = status /\ row.due = due
        /\ row.attempts = reply[r].attempts /\ row.lastAttemptAt = reply[r].lastAttemptAt
        /\ row.recipient = reply[r].recipient
    BY <1>2 DEF ReplyRow
  <1> HIDE DEF row
  <1>4. reply' = [reply EXCEPT ![r] = row]
    BY <1>1 DEF Settle, row
  <1>5. /\ reply' \in [Replies -> ReplyRow] /\ reply'[r] = row
        /\ \A q \in Replies : q # r => reply'[q] = reply[q]
    BY <1>2, <1>3, <1>4
  <1>6. UNCHANGED <<header, queue, time, office, mailed, receipts, takeovers>>
    BY DEF Settle, past
  <1>7. /\ sender' \in [Senders -> Sender] /\ sender'[w] = Resting
        /\ \A v \in Senders : v # w => sender'[v] = sender[v]
    BY RestingSender, TurnFacts DEF Settle
  <1>8. SenderInv'
    <2> SUFFICES ASSUME NEW v \in Senders PROVE Orderly(sender[v])'
      BY DEF SenderInv
    <2>1. CASE v = w
      BY <1>7, <2>1, RestingSender DEF Orderly, Claimed
    <2>2. CASE v # w /\ sender[v].stage \in Claimed
      <3>1. PICK q \in Replies : q = sender[v].row
        BY <2>2, SenderFacts
      <3>2. Latest(sender[v]) => q # r
        BY <1>1, <1>2, <2>2, <3>1, OthersBehind
      <3>3. /\ reply'[q].lastAttemptAt = reply[q].lastAttemptAt
            /\ reply'[q].attempts = reply[q].attempts /\ reply[q].attempts \in Nat
        BY <1>2, <1>3, <1>5 DEF ReplyRow
      <3> QED
        BY <1>5, <1>6, <1>7, <2>2, <3>1, <3>2, <3>3, OtherStays
    <2>3. CASE v # w /\ sender[v].stage \notin Claimed
      BY <1>7, <2>3, SenderFacts DEF Orderly
    <2> QED
      BY <2>1, <2>2, <2>3
  <1>9. ClaimsDiffer'
    BY <1>7, RestingSender DEF ReplyInv, ClaimsDiffer, Claimed
  <1>10. ReplyTypeOK'
    BY <1>2, <1>5, <1>6, <1>7 DEF ReplyTypeOK
  <1>11. MailedInv'
    BY <1>3, <1>5, <1>6 DEF ReplyInv, MailedInv
  <1>12. RowInv'
    <2> SUFFICES ASSUME NEW q \in Replies, reply'[q].status = "QUEUED"
                 PROVE  /\ reply'[q].lastAttemptAt <= reply'[q].due
                        /\ \A m \in mailed' : m.row = q /\ m.over = takeovers'[q]
                             => Spaced(m, reply'[q].due)
      BY DEF RowInv
    <2>1. CASE q = r
      BY <1>1, <1>2, <1>3, <1>5, <1>6, <2>1 DEF Mine, Latest, Spaced
    <2>2. CASE q # r
      BY <1>5, <1>6, <2>2 DEF ReplyInv, RowInv, Spaced
    <2> QED
      BY <2>1, <2>2
  <1>13. ShownAsSent' /\ Paced'
    BY <1>3, <1>5, <1>6 DEF ReplyInv, ShownAsSent, Paced
  <1> QED
    BY <1>8, <1>9, <1>10, <1>11, <1>12, <1>13 DEF ReplyInv

LEMMA SettleLost ==
  ASSUME ReplyInv, NEW w \in Senders, ~Leased(w), NEW status, NEW due, Settle(w, status, due)
  PROVE  ReplyInv'
  BY RestKeeps DEF Settle, past, ReplyInv, ReplyTypeOK

LEMMA DeferKeeps ==
  ASSUME ReplyInv, NEW w \in Senders, DeferReply(w)
  PROVE  ReplyInv'
  <1> DEFINE due == sender[w].token + DeferDelay
  <1>1. CASE ~Leased(w)
    BY <1>1, SettleLost DEF DeferReply
  <1>2. CASE Leased(w)
    <2>1. /\ sender[w].stage \in Claimed /\ sender[w].stage \in Unsent
          /\ sender[w].token \in Nat /\ DeferDelay \in Nat \ {0} /\ Orderly(sender[w])
      BY SenderFacts, ReplyAssumption DEF DeferReply, Claimed, Unsent, Stage
    <2>2. \A m \in Mine(sender[w]) : Spaced(m, sender[w].token) /\ m.at \in Nat
      BY <2>1 DEF Orderly, InTime, Mine, ReplyInv, MailedInv
    <2>3. due \in Nat /\ due >= sender[w].token
      BY <2>1
    <2>4. ASSUME NEW m \in Mine(sender[w]) PROVE Spaced(m, due)
      <3>1. m.try \in 1..MaxTries /\ sender[w].token >= m.at + Backoff[m.try] /\ m.at \in Nat
        BY <2>2, <2>4 DEF Spaced
      <3>2. Backoff[m.try] \in Nat
        BY <3>1, ReplyAssumption
      <3>3. due >= m.at + Backoff[m.try]
        BY <2>1, <3>1, <3>2
      <3> QED
        BY <3>1, <3>3 DEF Spaced
    <2> HIDE DEF due
    <2> QED
      BY <1>2, <2>1, <2>3, <2>4, SettleLeased DEF DeferReply, due
  <1> QED
    BY <1>1, <1>2

LEMMA CancelKeeps ==
  ASSUME ReplyInv, NEW w \in Senders, CancelReply(w)
  PROVE  ReplyInv'
  <1>1. CASE ~Leased(w)
    BY <1>1, SettleLost DEF CancelReply
  <1>2. CASE Leased(w)
    <2>1. sender[w].stage \in Claimed /\ reply[sender[w].row].due \in Nat
      BY SenderFacts DEF CancelReply, Claimed, Stage, ReplyRow
    <2> QED
      BY <1>2, <2>1, SettleLeased DEF CancelReply, Ended
  <1> QED
    BY <1>1, <1>2

LEMMA RecordKeeps ==
  ASSUME ReplyInv, NEW w \in Senders, RecordReply(w)
  PROVE  ReplyInv'
  <1> DEFINE status == Resolution(w)
             due == IF status = "QUEUED" THEN NextDue(w) ELSE 0
  <1>1. CASE ~Leased(w)
    BY <1>1, SettleLost DEF RecordReply
  <1>2. CASE Leased(w)
    <2>1. PICK r \in Replies : r = sender[w].row
      BY SenderFacts DEF RecordReply, Claimed, Stage
    <2>2. /\ sender[w].stage = "record" /\ sender[w].stage \in Claimed /\ Orderly(sender[w])
          /\ sender[w].token \in Nat /\ sender[w].tries \in Nat /\ Latest(sender[w])
          /\ reply[r].attempts = sender[w].tries + 1
      BY <1>2, <2>1, SenderFacts, LeasedIsLatest
         DEF RecordReply, Claimed, Stage, Orderly, Knows
    <2>3. status \in Ended \union {"QUEUED"}
      BY DEF Resolution, Ended
    <2>4. CASE status # "QUEUED"
      BY <1>2, <2>2, <2>3, <2>4, SettleLeased DEF RecordReply
    <2>5. CASE status = "QUEUED"
      <3> DEFINE n == sender[w].tries + 1
      <3>1. n < MaxTries /\ n \in 1..MaxTries /\ Backoff[n] \in Nat \ {0}
        BY <2>1, <2>2, <2>5, ReplyAssumption DEF Resolution
      <3>2. due = sender[w].token + Backoff[n]
        BY <2>1, <2>2, <2>5 DEF NextDue
      <3> HIDE DEF n, due
      <3>3. due \in Nat /\ due >= sender[w].token
        BY <2>2, <3>1, <3>2
      <3>4. ASSUME NEW m \in Mine(sender[w]) PROVE Spaced(m, due)
        <4>1. /\ Spaced(m, sender[w].token) \/ (m.at = sender[w].token /\ m.try = n)
              /\ m.at \in Nat
          BY <2>2, <3>4 DEF Orderly, InTime, Mine, ReplyInv, MailedInv, n
        <4>2. CASE m.at = sender[w].token /\ m.try = n
          BY <2>2, <3>1, <3>2, <4>2 DEF Spaced
        <4>3. CASE Spaced(m, sender[w].token)
          <5>1. Backoff[m.try] \in Nat
            BY <4>3, ReplyAssumption DEF Spaced
          <5>2. sender[w].token >= m.at + Backoff[m.try] => due >= m.at + Backoff[m.try]
            BY <2>2, <3>3, <4>1, <5>1
          <5> QED
            BY <4>3, <5>2 DEF Spaced
        <4> QED
          BY <4>1, <4>2, <4>3
      <3> QED
        BY <1>2, <2>2, <2>3, <2>5, <3>3, <3>4, SettleLeased DEF RecordReply, due
    <2> QED
      BY <2>4, <2>5
  <1> QED
    BY <1>1, <1>2

-----------------------------------------------------------------------------
(* A row is claimed                                                        *)

\* A sender whose row another claims falls behind, or was behind already.
LEMMA LeftBehind ==
  ASSUME ReplyInv, NEW v \in Senders, sender'[v] = sender[v], sender[v].stage \in Claimed,
         NEW r \in Replies, r = sender[v].row,
         sender[v].over < takeovers'[r], sender[v].token < reply'[r].lastAttemptAt,
         takeovers'[r] \in Nat,
         reply'[r].attempts = reply[r].attempts, UNCHANGED <<header, mailed, receipts>>
  PROVE  Orderly(sender[v])'
  <1>1. Orderly(sender[v]) /\ sender[v].over \in Nat
    BY SenderFacts
  <1>2. Ranked(sender[v])' /\ ~Latest(sender[v])'
    BY <1>1 DEF Ranked, Latest
  <1>3. InTime(sender[v])' /\ Addressed(sender[v])'
    BY <1>1 DEF Orderly, InTime, Mine, Spaced, Addressed
  <1> QED
    BY <1>1, <1>2, <1>3 DEF Orderly

\* The claim of `r` that makes it the `n`-th takeover's, at time `now`.
LEMMA Claiming ==
  ASSUME ReplyInv, NEW w \in Senders, sender[w].stage = "claim",
         NEW r \in Replies, r = sender[w].row, NEW n \in Nat, n >= takeovers[r],
         NEW row \in ReplyRow, row.status = "PROCESSING", row.lastAttemptAt = sender[w].token,
         row.attempts = reply[r].attempts, row.recipient = reply[r].recipient,
         NEW j \in Sender, j.stage = "load", j.row = r, j.token = sender[w].token, j.over = n,
         takeovers' \in [Replies -> Nat], takeovers'[r] = n,
         \A q \in Replies : q # r => takeovers'[q] = takeovers[q],
         reply' \in [Replies -> ReplyRow], reply'[r] = row,
         \A q \in Replies : q # r => reply'[q] = reply[q],
         Turn(w, j),
         UNCHANGED <<header, queue, time, office, mailed, receipts>>,
         \A v \in Senders : (v # w /\ sender[v].stage \in Claimed /\ sender[v].row = r)
            => sender[v].over < n /\ sender[v].token < sender[w].token,
         \A m \in mailed : m.row = r /\ m.over = n => Spaced(m, sender[w].token)
  PROVE  ReplyInv'
  <1>1. /\ sender[w] \in Sender /\ sender[w].token \in Nat /\ ReplyTypeOK
        /\ reply \in [Replies -> ReplyRow] /\ reply[r] \in ReplyRow
        /\ takeovers \in [Replies -> Nat]
    BY SenderFacts DEF ReplyInv, ReplyTypeOK
  <1>2. /\ reply' \in [Replies -> ReplyRow] /\ reply'[r] = row
        /\ \A q \in Replies : q # r => reply'[q] = reply[q]
    OBVIOUS
  <1>3. /\ takeovers' \in [Replies -> Nat] /\ takeovers'[r] = n
        /\ \A q \in Replies : q # r => takeovers'[q] = takeovers[q]
    OBVIOUS
  <1>4. /\ sender' \in [Senders -> Sender] /\ sender'[w] = j
        /\ \A v \in Senders : v # w => sender'[v] = sender[v]
    BY TurnFacts
  <1>5. SenderInv'
    <2> SUFFICES ASSUME NEW v \in Senders PROVE Orderly(sender[v])'
      BY DEF SenderInv
    <2>1. CASE v = w
      <3>1. Ranked(sender[v])' /\ Latest(sender[v])'
        BY <1>2, <1>3, <1>4, <2>1 DEF Ranked, Latest
      <3>2. Knows(sender[v])' /\ Addressed(sender[v])'
        BY <1>4, <2>1 DEF Knows, Addressed
      <3>3. InTime(sender[v])'
        BY <1>4, <2>1 DEF InTime, Mine, Spaced
      <3> QED
        BY <1>4, <2>1, <3>1, <3>2, <3>3 DEF Orderly
    <2>2. CASE v # w /\ sender[v].stage \in Claimed /\ sender[v].row = r
      BY <1>2, <1>3, <1>4, <2>2, LeftBehind
    <2>3. CASE v # w /\ sender[v].stage \in Claimed /\ sender[v].row # r
      <3>1. PICK q \in Replies : q = sender[v].row
        BY <2>3, SenderFacts
      <3>2. reply'[q] = reply[q] /\ takeovers'[q] = takeovers[q] /\ reply[q].attempts \in Nat
        BY <1>1, <1>2, <1>3, <2>3, <3>1 DEF ReplyRow
      <3> QED
        BY <1>4, <2>3, <3>1, <3>2, OtherStays
    <2>4. CASE v # w /\ sender[v].stage \notin Claimed
      BY <1>4, <2>4, SenderFacts DEF Orderly
    <2> QED
      BY <2>1, <2>2, <2>3, <2>4
  <1>6. ClaimsDiffer'
    <2> SUFFICES ASSUME NEW u \in Senders, NEW v \in Senders, u # v,
                        sender'[u].stage \in Claimed, sender'[v].stage \in Claimed,
                        sender'[u].row = sender'[v].row
                 PROVE  sender'[u].over # sender'[v].over
      BY DEF ClaimsDiffer
    <2>1. sender[u].over \in Nat /\ sender[v].over \in Nat
      BY SenderFacts
    <2>2. CASE u = w
      BY <1>4, <2>1, <2>2
    <2>3. CASE v = w
      BY <1>4, <2>1, <2>3
    <2>4. CASE u # w /\ v # w
      BY <1>4, <2>4 DEF ReplyInv, ClaimsDiffer
    <2> QED
      BY <2>2, <2>3, <2>4
  <1>7. ReplyTypeOK'
    BY <1>1, <1>2, <1>3, <1>4 DEF ReplyTypeOK
  <1>8. MailedInv'
    <2> SUFFICES ASSUME NEW m \in mailed
                 PROVE  /\ m.row \in Replies /\ m.to \in Addresses
                        /\ m.at \in Nat /\ m.try \in Nat \ {0} /\ m.over \in Nat
                        /\ m.try <= reply'[m.row].attempts /\ m.over <= takeovers'[m.row]
      BY DEF MailedInv
    <2> QED
      BY <1>1, <1>2, <1>3 DEF ReplyInv, MailedInv
  <1>9. RowInv'
    BY <1>2, <1>3 DEF ReplyInv, RowInv, Spaced
  <1>10. ShownAsSent' /\ Paced'
    BY <1>2 DEF ReplyInv, ShownAsSent, Paced
  <1> QED
    BY <1>5, <1>6, <1>7, <1>8, <1>9, <1>10 DEF ReplyInv

LEMMA ClaimKeeps ==
  ASSUME ReplyInv, NEW w \in Senders, ClaimReply(w)
  PROVE  ReplyInv'
  <1>1. PICK r \in Replies : r = sender[w].row
    BY SenderFacts DEF ClaimReply, Orderly
  <1>2. PICK now \in Nat : now = sender[w].token
    BY SenderFacts
  <1>3. /\ sender[w].stage = "claim" /\ reply[r] \in ReplyRow /\ takeovers \in [Replies -> Nat]
        /\ takeovers[r] \in Nat /\ reply[r].lastAttemptAt \in Nat /\ reply[r].due \in Nat
        /\ queue \in [Senders -> SUBSET Replies] /\ ReplyLease \in Nat
    BY ReplyAssumption DEF ClaimReply, ReplyInv, ReplyTypeOK, ReplyRow
  <1>4. ASSUME NEW v \in Senders, sender[v].stage \in Claimed, sender[v].row = r
        PROVE  /\ sender[v].over \in Nat /\ sender[v].token \in Nat
               /\ sender[v].over <= takeovers[r] /\ sender[v].token <= reply[r].lastAttemptAt
               /\ sender[v].over = takeovers[r] => reply[r].status = "PROCESSING"
               /\ sender[v].over # takeovers[r] => sender[v].token < reply[r].lastAttemptAt
    BY <1>3, <1>4, SenderFacts DEF Ranked, Latest
  <1> DEFINE row == [reply[r] EXCEPT !.status = "PROCESSING", !.lastAttemptAt = now]
             j(n) == [sender[w] EXCEPT !.stage = "load", !.over = n]
  <1>5. /\ row \in ReplyRow /\ row.status = "PROCESSING" /\ row.lastAttemptAt = now
        /\ row.attempts = reply[r].attempts /\ row.recipient = reply[r].recipient
    BY <1>3 DEF ReplyRow
  <1>6. ASSUME NEW n \in Nat
        PROVE  /\ j(n) \in Sender /\ j(n).stage = "load" /\ j(n).row = r
               /\ j(n).token = now /\ j(n).over = n
    BY <1>1, <1>2, SenderFacts DEF Sender, Stage
  <1> HIDE DEF row, j
  <1>7. CASE ~ClaimableReply(r, now)
    BY <1>1, <1>2, <1>3, <1>7, RestKeeps DEF ClaimReply
  <1>8. CASE Abandoned(r, now)
    <2> DEFINE n == takeovers[r] + 1
    <2>1. /\ takeovers' = [takeovers EXCEPT ![r] = n] /\ takeovers'[r] = n /\ n \in Nat
          /\ n >= takeovers[r]
      BY <1>1, <1>2, <1>3, <1>8 DEF ClaimReply, ClaimableReply
    <2>2. reply[r].lastAttemptAt < now
      BY <1>3, <1>8 DEF Abandoned
    <2>3. \A m \in mailed : ~(m.row = r /\ m.over = n)
      BY <1>3 DEF ReplyInv, MailedInv
    <2>4. \A v \in Senders : (v # w /\ sender[v].stage \in Claimed /\ sender[v].row = r)
            => sender[v].over < n /\ sender[v].token < sender[w].token
      BY <1>2, <1>3, <1>4, <2>2
    <2>5. /\ reply' = [reply EXCEPT ![r] = row] /\ Turn(w, j(n))
          /\ UNCHANGED <<header, queue, time, office, mailed, receipts>>
      BY <1>1, <1>2, <1>8, <2>1 DEF ClaimReply, ClaimableReply, row, j
    <2>6. /\ j(n) \in Sender /\ j(n).stage = "load" /\ j(n).row = r
          /\ j(n).token = sender[w].token /\ j(n).over = n
      BY <1>2, <1>6, <2>1
    <2>7. \A m \in mailed : m.row = r /\ m.over = n => Spaced(m, sender[w].token)
      BY <2>3
    <2>8. /\ takeovers' \in [Replies -> Nat]
          /\ \A q \in Replies : q # r => takeovers'[q] = takeovers[q]
      BY <1>3, <2>1
    <2>9. /\ reply' \in [Replies -> ReplyRow] /\ reply'[r] = row
          /\ \A q \in Replies : q # r => reply'[q] = reply[q]
      BY <1>3, <1>5, <2>5 DEF ReplyInv, ReplyTypeOK
    <2> HIDE DEF n
    <2> QED
      BY <1>1, <1>2, <1>3, <1>5, <2>1, <2>4, <2>5, <2>6, <2>7, <2>8, <2>9, Claiming
  <1>9. CASE ~Abandoned(r, now) /\ reply[r].status = "QUEUED" /\ reply[r].due <= now
    <2>1. takeovers' = takeovers
      BY <1>1, <1>2, <1>9 DEF ClaimReply, ClaimableReply
    <2>3. reply[r].lastAttemptAt <= now
      BY <1>2, <1>3, <1>9 DEF ReplyInv, RowInv
    <2>4. ASSUME NEW m \in mailed, m.row = r, m.over = takeovers[r]
          PROVE  Spaced(m, sender[w].token)
      <3>1. Spaced(m, reply[r].due) /\ m.at \in Nat
        BY <1>9, <2>4 DEF ReplyInv, RowInv, MailedInv
      <3>2. Backoff[m.try] \in Nat
        BY <3>1, ReplyAssumption DEF Spaced
      <3> QED
        BY <1>2, <1>3, <1>9, <3>1, <3>2 DEF Spaced
    <2>5. \A v \in Senders : (v # w /\ sender[v].stage \in Claimed /\ sender[v].row = r)
            => sender[v].over < takeovers[r] /\ sender[v].token < sender[w].token
      <3> SUFFICES ASSUME NEW v \in Senders, sender[v].stage \in Claimed, sender[v].row = r
                   PROVE  sender[v].over < takeovers[r] /\ sender[v].token < sender[w].token
        OBVIOUS
      <3>1. sender[v].over # takeovers[r]
        BY <1>4, <1>9
      <3> QED
        BY <1>2, <1>3, <1>4, <2>3, <3>1
    <2>6. /\ reply' = [reply EXCEPT ![r] = row] /\ Turn(w, j(takeovers[r]))
          /\ UNCHANGED <<header, queue, time, office, mailed, receipts>>
      BY <1>1, <1>2, <1>9, <2>1 DEF ClaimReply, ClaimableReply, row, j
    <2>7. /\ j(takeovers[r]) \in Sender /\ j(takeovers[r]).stage = "load"
          /\ j(takeovers[r]).row = r /\ j(takeovers[r]).token = sender[w].token
          /\ j(takeovers[r]).over = takeovers[r]
      BY <1>2, <1>3, <1>6
    <2>8. /\ takeovers' \in [Replies -> Nat] /\ takeovers'[r] = takeovers[r]
          /\ \A q \in Replies : q # r => takeovers'[q] = takeovers[q]
          /\ takeovers[r] >= takeovers[r]
      BY <1>3, <2>1
    <2>9. /\ reply' \in [Replies -> ReplyRow] /\ reply'[r] = row
          /\ \A q \in Replies : q # r => reply'[q] = reply[q]
      BY <1>3, <1>5, <2>6 DEF ReplyInv, ReplyTypeOK
    <2> QED
      BY <1>1, <1>2, <1>3, <1>5, <2>4, <2>5, <2>6, <2>7, <2>8, <2>9, Claiming
  <1> QED
    BY <1>7, <1>8, <1>9 DEF ClaimableReply

-----------------------------------------------------------------------------
(* The holder of the lease writes its row                                  *)

LEMMA WriteKeeps ==
  ASSUME ReplyInv, NEW w \in Senders, sender[w].stage \in Claimed, Leased(w),
         NEW r \in Replies, r = sender[w].row,
         NEW row \in ReplyRow, row.status = "PROCESSING",
         row.lastAttemptAt = reply[r].lastAttemptAt, row.attempts >= reply[r].attempts,
         NEW j \in Sender, Turn(w, j), j.stage \in Claimed, j.row = r,
         j.over = sender[w].over,
         reply' \in [Replies -> ReplyRow], reply'[r] = row,
         \A q \in Replies : q # r => reply'[q] = reply[q],
         header' \in [Replies -> Addresses], header'[r] = row.recipient,
         \A q \in Replies : q # r => header'[q] = header[q],
         \A m \in mailed : m.row = r => m.to = header'[r],
         \A v \in Senders : sender[v].stage = "send" /\ sender[v].row = r
            => header'[r] = header[r],
         UNCHANGED <<queue, time, office, past>>,
         Orderly(sender[w])'
  PROVE  ReplyInv'
  <1>1. /\ ReplyTypeOK /\ Latest(sender[w]) /\ reply[r] \in ReplyRow
        /\ row.attempts \in Nat /\ reply[r].attempts \in Nat
    BY SenderFacts, LeasedIsLatest DEF ReplyInv, ReplyTypeOK, ReplyRow
  <1>2. UNCHANGED <<mailed, receipts, takeovers>>
    BY DEF past
  <1>3. /\ sender' \in [Senders -> Sender] /\ sender'[w] = j
        /\ \A v \in Senders : v # w => sender'[v] = sender[v]
    BY TurnFacts
  <1>4. SenderInv'
    <2> SUFFICES ASSUME NEW v \in Senders, v # w PROVE Orderly(sender[v])'
      BY DEF SenderInv
    <2>1. CASE sender[v].stage \in Claimed
      <3>1. PICK q \in Replies : q = sender[v].row
        BY <2>1, SenderFacts
      <3>2. Latest(sender[v]) => q # r
        BY <1>1, <2>1, <3>1, OthersBehind
      <3>3. /\ reply'[q].lastAttemptAt = reply[q].lastAttemptAt
            /\ reply[q].attempts \in Nat /\ reply'[q].attempts \in Nat
            /\ reply'[q].attempts >= reply[q].attempts
        BY <1>1 DEF ReplyTypeOK, ReplyRow
      <3>4. sender[v].stage = "send" => header'[q] = header[q]
        BY <3>1
      <3> QED
        BY <1>2, <1>3, <2>1, <3>1, <3>2, <3>3, <3>4, OtherStays
    <2>2. CASE sender[v].stage \notin Claimed
      BY <1>3, <2>2, SenderFacts DEF Orderly
    <2> QED
      BY <2>1, <2>2
  <1>5. ClaimsDiffer'
    BY <1>3 DEF ReplyInv, ClaimsDiffer
  <1>6. ReplyTypeOK'
    BY <1>1, <1>2, <1>3 DEF ReplyTypeOK
  <1>7. MailedInv'
    <2> SUFFICES ASSUME NEW m \in mailed
                 PROVE  m.row \in Replies /\ m.try \in Nat /\ m.try <= reply'[m.row].attempts
      BY <1>2 DEF ReplyInv, MailedInv
    <2>1. m.row \in Replies /\ m.try \in Nat /\ m.try <= reply[m.row].attempts
      BY DEF ReplyInv, MailedInv
    <2> QED
      BY <1>1, <2>1
  <1>8. RowInv'
    BY <1>2 DEF ReplyInv, RowInv, Spaced
  <1>9. ShownAsSent' /\ Paced'
    BY <1>1, <1>2 DEF ReplyInv, MailedInv, ShownAsSent, Paced
  <1> QED
    BY <1>4, <1>5, <1>6, <1>7, <1>8, <1>9 DEF ReplyInv

LEMMA RebindKeeps ==
  ASSUME ReplyInv, NEW w \in Senders, RebindReply(w)
  PROVE  ReplyInv'
  <1>1. PICK r \in Replies : r = sender[w].row
    BY SenderFacts DEF RebindReply, Claimed, Stage
  <1>2. /\ sender[w].stage = "rebind" /\ sender[w].stage \in Claimed /\ sender[w] \in Sender
        /\ Orderly(sender[w]) /\ reply[r] \in ReplyRow /\ ReplyTypeOK
    BY <1>1, SenderFacts DEF RebindReply, Claimed, Stage, ReplyInv, ReplyTypeOK
  <1>3. CASE ~(Leased(w) /\ reply[r].attempts = 0)
    BY <1>1, <1>2, <1>3, RestKeeps DEF RebindReply, past, ReplyTypeOK
  <1>4. CASE Leased(w) /\ reply[r].attempts = 0
    <2> DEFINE row == [reply[r] EXCEPT !.recipient = sender[w].to]
               j == [sender[w] EXCEPT !.stage = "mark"]
    <2>1. sender[w].to \in Addresses /\ Latest(sender[w])
      BY <1>2, <1>4, LeasedIsLatest DEF Orderly, Addressed
    <2>2. /\ row \in ReplyRow /\ row.status = reply[r].status
          /\ row.lastAttemptAt = reply[r].lastAttemptAt /\ row.attempts = reply[r].attempts
          /\ row.recipient = sender[w].to
      BY <1>2, <2>1 DEF ReplyRow
    <2>3. /\ j \in Sender /\ j.stage = "mark" /\ j.row = r /\ j.over = sender[w].over
          /\ j.token = sender[w].token /\ j.tries = sender[w].tries /\ j.to = sender[w].to
      BY <1>1, <1>2 DEF Sender, Stage
    <2>4. /\ reply' = [reply EXCEPT ![r] = row] /\ Turn(w, j)
          /\ header' = [header EXCEPT ![r] = sender[w].to]
          /\ UNCHANGED <<queue, time, office, past>>
      BY <1>1, <1>4 DEF RebindReply, HeaderRebound
    <2> HIDE DEF row, j
    <2>5. /\ reply' \in [Replies -> ReplyRow] /\ reply'[r] = row
          /\ \A q \in Replies : q # r => reply'[q] = reply[q]
      BY <1>2, <2>2, <2>4 DEF ReplyTypeOK
    <2>6. /\ header' \in [Replies -> Addresses] /\ header'[r] = sender[w].to
          /\ \A q \in Replies : q # r => header'[q] = header[q]
      BY <1>2, <2>1, <2>4 DEF ReplyTypeOK
    <2>7. \A m \in mailed : m.row # r
      BY <1>4 DEF ReplyInv, MailedInv
    <2>8. \A v \in Senders : ~(sender[v].stage = "send" /\ sender[v].row = r)
      <3> SUFFICES ASSUME NEW v \in Senders, sender[v].stage = "send", sender[v].row = r
                   PROVE  FALSE
        OBVIOUS
      <3>1. sender[v].stage \in Claimed /\ Orderly(sender[v]) /\ sender[v].tries \in Nat
        BY SenderFacts DEF Claimed, Stage
      <3> QED
        BY <1>4, <3>1 DEF Orderly, Addressed
    <2>9. sender'[w] = j /\ UNCHANGED <<mailed, receipts, takeovers>>
      BY <2>3, <2>4, TurnFacts DEF past
    <2>10. Orderly(sender[w])'
      <3>1. Ranked(sender[w])' /\ Knows(sender[w])'
        BY <1>1, <1>2, <1>4, <2>1, <2>2, <2>3, <2>5, <2>9
           DEF Orderly, Ranked, Latest, Knows, Claimed, Stage
      <3>2. InTime(sender[w])'
        BY <1>1, <1>2, <2>3, <2>9 DEF Orderly, InTime, Mine, Spaced, Claimed, Unsent, Stage
      <3>3. Addressed(sender[w])'
        BY <2>3, <2>9 DEF Addressed
      <3> QED
        BY <2>3, <2>9, <3>1, <3>2, <3>3 DEF Orderly
    <2>11. j.stage \in Claimed
      BY <2>3 DEF Claimed, Stage
    <2>12. row.status = "PROCESSING" /\ row.attempts >= reply[r].attempts
      BY <1>1, <1>2, <1>4, <2>2 DEF Leased, ReplyRow
    <2> QED
      BY <1>1, <1>2, <1>4, <2>2, <2>3, <2>4, <2>5, <2>6, <2>7, <2>8, <2>10, <2>11, <2>12,
         WriteKeeps
  <1> QED
    BY <1>3, <1>4

LEMMA MarkKeeps ==
  ASSUME ReplyInv, NEW w \in Senders, MarkReply(w)
  PROVE  ReplyInv'
  <1>1. PICK r \in Replies : r = sender[w].row
    BY SenderFacts DEF MarkReply, Claimed, Stage
  <1>2. /\ sender[w].stage = "mark" /\ sender[w].stage \in Claimed /\ sender[w] \in Sender
        /\ Orderly(sender[w]) /\ reply[r] \in ReplyRow /\ ReplyTypeOK
    BY <1>1, SenderFacts DEF MarkReply, Claimed, Stage, ReplyInv, ReplyTypeOK
  <1>3. CASE ~Leased(w)
    BY <1>2, <1>3, RestKeeps DEF MarkReply, past, ReplyTypeOK
  <1>4. CASE Leased(w)
    <2> DEFINE row == [reply[r] EXCEPT !.attempts = reply[r].attempts + 1]
               j == [sender[w] EXCEPT !.stage = "send"]
    <2>1. /\ Latest(sender[w]) /\ Knows(sender[w]) /\ reply[r].attempts \in Nat
          /\ header[r] = reply[r].recipient
      BY <1>2, <1>4, LeasedIsLatest DEF Orderly, ReplyRow, ReplyInv, ShownAsSent
    <2>2. /\ row \in ReplyRow /\ row.status = reply[r].status
          /\ row.lastAttemptAt = reply[r].lastAttemptAt /\ row.attempts = reply[r].attempts + 1
          /\ row.recipient = reply[r].recipient
      BY <1>2, <2>1 DEF ReplyRow
    <2>3. /\ j \in Sender /\ j.stage = "send" /\ j.row = r /\ j.over = sender[w].over
          /\ j.token = sender[w].token /\ j.tries = sender[w].tries /\ j.to = sender[w].to
      BY <1>1, <1>2 DEF Sender, Stage
    <2>4. reply' = [reply EXCEPT ![r] = row] /\ Turn(w, j)
      BY <1>1, <1>4 DEF MarkReply
    <2> HIDE DEF row, j
    <2>5. /\ reply' \in [Replies -> ReplyRow] /\ reply'[r] = row
          /\ \A q \in Replies : q # r => reply'[q] = reply[q]
      BY <1>2, <2>2, <2>4 DEF ReplyTypeOK
    <2>6. UNCHANGED <<header, queue, time, office, past>>
      BY DEF MarkReply
    <2>7. header' \in [Replies -> Addresses]
      BY <1>2, <2>6 DEF ReplyTypeOK
    <2>8. \A m \in mailed : m.row = r => m.to = header'[r]
      BY <2>6 DEF ReplyInv, ShownAsSent
    <2>9. sender'[w] = j /\ UNCHANGED <<mailed, receipts, takeovers>>
      BY <2>3, <2>4, <2>6, TurnFacts DEF past
    <2>10. Orderly(sender[w])'
      <3>1. Ranked(sender[w])' /\ Knows(sender[w])'
        BY <1>1, <1>2, <1>4, <2>1, <2>2, <2>3, <2>5, <2>9
           DEF Orderly, Ranked, Latest, Knows, Claimed, Stage
      <3>2. InTime(sender[w])'
        BY <1>1, <1>2, <2>3, <2>9 DEF Orderly, InTime, Mine, Spaced, Claimed, Unsent, Stage
      <3>3. Addressed(sender[w])'
        BY <1>1, <1>2, <2>1, <2>2, <2>3, <2>5, <2>6, <2>9 DEF Addressed, Knows
      <3> QED
        BY <2>3, <2>9, <3>1, <3>2, <3>3 DEF Orderly
    <2>11. j.stage \in Claimed
      BY <2>3 DEF Claimed, Stage
    <2>12. row.status = "PROCESSING" /\ row.attempts >= reply[r].attempts
      BY <1>1, <1>4, <2>1, <2>2 DEF Leased
    <2> QED
      BY <1>1, <1>2, <1>4, <2>1, <2>2, <2>3, <2>4, <2>5, <2>6, <2>7, <2>8, <2>10, <2>11,
         <2>12, WriteKeeps
  <1> QED
    BY <1>3, <1>4

-----------------------------------------------------------------------------
(* The transmission, and the environment                                   *)

LEMMA TransmitKeeps ==
  ASSUME ReplyInv, NEW w \in Senders, TransmitReply(w)
  PROVE  ReplyInv'
  <1>1. PICK r \in Replies : r = sender[w].row
    BY SenderFacts DEF TransmitReply, Claimed, Stage
  <1>2. PICK m0 : m0 = [row |-> r, to |-> sender[w].to, at |-> sender[w].token,
                        try |-> sender[w].tries + 1, over |-> sender[w].over]
    OBVIOUS
  <1>3. PICK o \in {"accepted", "transient", "permanent"} :
          /\ Turn(w, [sender[w] EXCEPT !.stage = "record", !.outcome = o])
          /\ receipts' = IF o = "accepted" THEN receipts \union {r} ELSE receipts
    BY <1>1 DEF TransmitReply
  <1>4. /\ mailed' = mailed \union {m0}
        /\ UNCHANGED <<reply, header, queue, time, office, takeovers>>
    BY <1>1, <1>2 DEF TransmitReply
  <1>5. /\ sender[w].stage = "send" /\ sender[w].stage \in Claimed /\ sender[w].stage \in Unsent
        /\ sender[w] \in Sender /\ Orderly(sender[w]) /\ reply[r] \in ReplyRow /\ ReplyTypeOK
        /\ sender[w].token \in Nat /\ sender[w].tries \in Nat /\ sender[w].over \in Nat
        /\ takeovers[r] \in Nat
    BY <1>1, SenderFacts
       DEF TransmitReply, Claimed, Unsent, Stage, ReplyInv, ReplyTypeOK
  <1>6. /\ m0.row = r /\ m0.to = header[r] /\ m0.to \in Addresses
        /\ m0.at = sender[w].token /\ m0.try = sender[w].tries + 1 /\ m0.over = sender[w].over
        /\ m0.try <= reply[r].attempts /\ m0.over <= takeovers[r]
    BY <1>1, <1>2, <1>5 DEF Orderly, Addressed, Ranked, Latest, ReplyTypeOK, ReplyRow
  <1> DEFINE j == [sender[w] EXCEPT !.stage = "record", !.outcome = o]
  <1>7. /\ j \in Sender /\ j.stage = "record" /\ j.row = r /\ j.over = sender[w].over
        /\ j.token = sender[w].token /\ j.tries = sender[w].tries /\ j.outcome = o
    BY <1>1, <1>5 DEF Sender, Stage
  <1> HIDE DEF j
  <1>8. /\ sender' \in [Senders -> Sender] /\ sender'[w] = j
        /\ \A v \in Senders : v # w => sender'[v] = sender[v]
    BY <1>3, <1>7, TurnFacts DEF j
  <1>9. SenderInv'
    <2> SUFFICES ASSUME NEW v \in Senders PROVE Orderly(sender[v])'
      BY DEF SenderInv
    <2>1. CASE v = w
      <3>1. Ranked(sender[v])' /\ (Latest(sender[v])' => Knows(sender[v])')
        BY <1>1, <1>4, <1>5, <1>7, <1>8, <2>1 DEF Orderly, Ranked, Latest, Knows
      <3>2. InTime(sender[v])'
        <4>1. ASSUME NEW m \in mailed', m.row = r, m.over = sender[w].over
              PROVE  Spaced(m, sender[w].token)
                       \/ (m.at = sender[w].token /\ m.try = sender[w].tries + 1)
          <5>1. CASE m = m0
            BY <1>6, <5>1
          <5>2. CASE m \in mailed
            BY <1>1, <1>5, <4>1, <5>2 DEF Orderly, InTime, Mine
          <5> QED
            BY <1>4, <5>1, <5>2
        <4> QED
          BY <1>7, <1>8, <2>1, <4>1 DEF InTime, Mine, Spaced, Unsent
      <3>3. Addressed(sender[v])'
        BY <1>3, <1>4, <1>6, <1>7, <1>8, <2>1 DEF Addressed
      <3> QED
        BY <1>7, <1>8, <2>1, <3>1, <3>2, <3>3 DEF Orderly
    <2>2. CASE v # w /\ sender[v].stage \in Claimed
      <3>1. PICK q \in Replies : q = sender[v].row
        BY <2>2, SenderFacts
      <3>2. reply[q].attempts \in Nat
        BY <1>5 DEF ReplyTypeOK, ReplyRow
      <3>3. m0.row # q \/ m0.over # sender[v].over
        BY <1>1, <1>5, <1>6, <2>2, <3>1 DEF ReplyInv, ClaimsDiffer
      <3> QED
        BY <1>3, <1>4, <1>8, <2>2, <3>1, <3>2, <3>3, OtherStays
    <2>3. CASE v # w /\ sender[v].stage \notin Claimed
      BY <1>8, <2>3, SenderFacts DEF Orderly
    <2> QED
      BY <2>1, <2>2, <2>3
  <1>10. ClaimsDiffer'
    BY <1>1, <1>5, <1>7, <1>8 DEF ReplyInv, ClaimsDiffer
  <1>11. ReplyTypeOK'
    BY <1>3, <1>4, <1>5, <1>6, <1>8 DEF ReplyTypeOK
  <1>12. MailedInv'
    BY <1>4, <1>5, <1>6 DEF ReplyInv, MailedInv
  <1>13. RowInv'
    <2>1. reply[r].status = "QUEUED" => m0.over # takeovers[r]
      BY <1>1, <1>5, <1>6 DEF Orderly, Ranked, Latest
    <2> QED
      BY <1>4, <1>6, <2>1 DEF ReplyInv, RowInv, Spaced
  <1>14. ShownAsSent'
    BY <1>4, <1>6 DEF ReplyInv, ShownAsSent
  <1>15. Paced'
    <2>1. \A m \in mailed : m.row = r /\ m.over = sender[w].over
            => Spaced(m, sender[w].token) /\ m.try <= sender[w].tries /\ m.try \in Nat
      BY <1>1, <1>5 DEF Orderly, InTime, Mine, Unsent, ReplyInv, MailedInv
    <2> SUFFICES ASSUME NEW a \in mailed', NEW b \in mailed', a.row = b.row,
                        a.try < b.try, a.over = b.over
                 PROVE  b.at >= a.at + Backoff[a.try]
      BY DEF Paced
    <2>2. CASE a = m0
      BY <1>4, <1>5, <1>6, <2>1, <2>2
    <2>3. CASE a \in mailed /\ b = m0
      BY <1>6, <2>1, <2>3 DEF Spaced
    <2>4. CASE a \in mailed /\ b \in mailed
      BY <2>4 DEF ReplyInv, Paced
    <2> QED
      BY <1>4, <2>2, <2>3, <2>4
  <1> QED
    BY <1>9, <1>10, <1>11, <1>12, <1>13, <1>14, <1>15 DEF ReplyInv

LEMMA DieKeeps ==
  ASSUME ReplyInv, NEW w \in Senders, Die(w)
  PROVE  ReplyInv'
  <1>1. queue' \in [Senders -> SUBSET Replies]
    BY DEF Die, ReplyInv, ReplyTypeOK
  <1> QED
    BY <1>1, RestKeeps DEF Die, past

\* The clock and the office: no row, no sender and no history is touched.
LEMMA EnvironmentKeeps ==
  ASSUME ReplyInv, time' \in 0..Horizon, office' \in Office,
         UNCHANGED <<reply, header, sender, queue, past>>
  PROVE  ReplyInv'
  <1>1. ReplyTypeOK'
    BY DEF ReplyInv, ReplyTypeOK, past
  <1>2. SenderInv'
    BY StandStill DEF SenderInv, past
  <1>3. ClaimsDiffer' /\ MailedInv' /\ RowInv' /\ ShownAsSent' /\ Paced'
    BY DEF past, ReplyInv, ClaimsDiffer, MailedInv, RowInv, ShownAsSent, Paced, Spaced
  <1> QED
    BY <1>1, <1>2, <1>3 DEF ReplyInv

-----------------------------------------------------------------------------
(* The invariant is inductive                                              *)

LEMMA ReplyInvInit == ReplyInit => ReplyInv
  <1> SUFFICES ASSUME ReplyInit PROVE ReplyInv
    OBVIOUS
  <1>1. PICK a \in Addresses :
          /\ office = [usable |-> TRUE, contact |-> a, turns |-> 0]
          /\ header = [r \in Replies |-> a]
          /\ reply = [r \in Replies |-> [status |-> "QUEUED", attempts |-> 0,
                                         lastAttemptAt |-> 0, due |-> 0, recipient |-> a]]
    BY DEF ReplyInit
  <1>2. ReplyTypeOK
    BY <1>1, RestingSender, ReplyAssumption DEF ReplyInit, ReplyTypeOK, Office, ReplyRow
  <1>3. SenderInv /\ ClaimsDiffer
    BY RestingSender DEF ReplyInit, SenderInv, ClaimsDiffer, Orderly, Claimed
  <1>4. MailedInv /\ RowInv /\ ShownAsSent /\ Paced
    BY <1>1 DEF ReplyInit, MailedInv, RowInv, ShownAsSent, Paced
  <1> QED
    BY <1>2, <1>3, <1>4 DEF ReplyInv

LEMMA ReplyInvNext == ReplyInv /\ [ReplyNext]_replyVars => ReplyInv'
  <1> SUFFICES ASSUME ReplyInv, [ReplyNext]_replyVars PROVE ReplyInv'
    OBVIOUS
  <1>1. CASE UNCHANGED replyVars
    <2>1. time \in 0..Horizon /\ office \in Office
      BY DEF ReplyInv, ReplyTypeOK
    <2> QED
      BY <1>1, <2>1, EnvironmentKeeps DEF replyVars, past
  <1>2. ASSUME NEW w \in Senders, ReplyWork(w) PROVE ReplyInv'
    BY <1>2, TakeBatchKeeps, OpenKeeps, ClaimKeeps, LoadKeeps, ChecksKeep, DeferKeeps,
       CancelKeeps, RebindKeeps, MarkKeeps, TransmitKeeps, RecordKeeps DEF ReplyWork
  <1>3. ASSUME NEW w \in Senders, Die(w) PROVE ReplyInv'
    BY <1>3, DieKeeps
  <1>4. CASE Pass
    <2>1. time' \in 0..Horizon /\ office' \in Office
      BY <1>4, ReplyAssumption DEF Pass, ReplyInv, ReplyTypeOK
    <2> QED
      BY <1>4, <2>1, EnvironmentKeeps DEF Pass
  <1>5. CASE Rearrange
    <2>1. PICK u \in BOOLEAN, a \in Addresses \union {Nobody} :
            office' = [usable |-> u, contact |-> a, turns |-> office.turns + 1]
      BY <1>5 DEF Rearrange
    <2>2. office.turns + 1 \in 0..MaxTurns /\ time' \in 0..Horizon
      BY <1>5, ReplyAssumption DEF Rearrange, ReplyInv, ReplyTypeOK, Office
    <2>3. office' \in Office
      BY <2>1, <2>2 DEF Office
    <2> QED
      BY <1>5, <2>2, <2>3, EnvironmentKeeps DEF Rearrange
  <1> QED
    BY <1>1, <1>2, <1>3, <1>4, <1>5 DEF ReplyNext

-----------------------------------------------------------------------------
(* The theorems                                                            *)

LEMMA Inductive == ReplySpec => []ReplyInv
  BY ReplyInvInit, ReplyInvNext, PTL DEF ReplySpec

\* Rows, senders, queues and the histories keep their types, for any number
\* of replies and overlapping batches.
THEOREM ReplyTypeCorrect == ReplySpec => []ReplyTypeOK
  <1>1. ReplyInv => ReplyTypeOK
    BY DEF ReplyInv
  <1> QED
    BY Inductive, <1>1, PTL

\* Every transmission of a reply went to the address its thread shows, though
\* an untried reply follows the customer's contact and workers stall meanwhile.
THEOREM AddressShown == ReplySpec => []ShownAsSent
  <1>1. ReplyInv => ShownAsSent
    BY DEF ReplyInv
  <1> QED
    BY Inductive, <1>1, PTL

\* Unless a lease runs out in between, no attempt starts before the back-off
\* of an earlier one is over, counted from that attempt's claim.
THEOREM AttemptsPaced == ReplySpec => []Paced
  <1>1. ReplyInv => Paced
    BY DEF ReplyInv
  <1> QED
    BY Inductive, <1>1, PTL

\* Of the batches past their claim of a row, one at most may write it.
THEOREM ReplyLeaseIsExclusive == ReplySpec => []OneHolder
  <1>1. ReplyInv => OneHolder
    <2> SUFFICES ASSUME ReplyInv, NEW v \in Senders, NEW w \in Senders,
                        {sender[v].stage, sender[w].stage} \cap {"idle", "claim"} = {},
                        sender[v].row = sender[w].row, Leased(v), Leased(w), v # w
                 PROVE  FALSE
      BY DEF OneHolder
    <2>1. sender[v].stage \in Claimed /\ sender[w].stage \in Claimed
      BY SenderFacts DEF Sender, Claimed
    <2>2. Latest(sender[v]) /\ Latest(sender[w])
      BY <2>1, LeasedIsLatest
    <2> QED
      BY <2>1, <2>2, OthersBehind
  <1> QED
    BY Inductive, <1>1, PTL

-----------------------------------------------------------------------------
(* The retries are bounded                                                 *)

Room(r) == reply[r].attempts < MaxTries + takeovers[r]

\* Before its next attempt: the claim's, or the row's that waits for one.
Trying == Claimed \ {"send", "record"}

BoundInv ==
    /\ \A r \in Replies : reply[r].attempts <= MaxTries + takeovers[r]
    /\ \A r \in Replies : reply[r].status = "QUEUED" => Room(r)
    /\ \A w \in Senders : (sender[w].stage \in Trying /\ Latest(sender[w])) => Room(sender[w].row)

LEMMA CountFacts ==
  ASSUME ReplyInv, NEW r \in Replies
  PROVE  /\ reply \in [Replies -> ReplyRow] /\ reply[r] \in ReplyRow /\ reply[r].attempts \in Nat
         /\ takeovers \in [Replies -> Nat] /\ takeovers[r] \in Nat /\ MaxTries \in Nat \ {0}
  BY ReplyAssumption DEF ReplyInv, ReplyTypeOK, ReplyRow

LEMMA TryingFacts ==
  ASSUME ReplyInv, NEW w \in Senders, sender[w].stage \in Trying
  PROVE  sender[w].stage \in Claimed /\ sender[w].row \in Replies
  BY SenderFacts DEF Trying

\* A step that counts nothing, queues a row with room at most, and leaves a
\* sender before its attempt only where there is room.
LEMMA CountKept ==
  ASSUME ReplyInv, BoundInv, NEW w \in Senders, NEW j \in Sender, Turn(w, j),
         takeovers' = takeovers,
         \A r \in Replies : reply'[r].attempts = reply[r].attempts,
         \A r \in Replies : reply'[r].status = "QUEUED" => reply[r].status = "QUEUED" \/ Room(r),
         j.stage \in Trying /\ Latest(j) => j.row \in Replies /\ Room(j.row)
  PROVE  BoundInv'
  <1>1. sender'[w] = j /\ \A v \in Senders : v # w => sender'[v] = sender[v]
    BY TurnFacts
  <1>2. \A r \in Replies : Room(r)' <=> Room(r)
    BY DEF Room
  <1>3. ASSUME NEW v \in Senders, sender'[v].stage \in Trying, Latest(sender[v])'
        PROVE  Room(sender[v].row)'
    <2>1. CASE v = w
      <3>1. sender'[v] = j /\ Latest(j)
        BY <1>1, <1>3, <2>1 DEF Latest
      <3> QED
        BY <1>2, <1>3, <3>1 DEF Room
    <2>2. CASE v # w
      <3>1. sender'[v] = sender[v] /\ Latest(sender[v]) /\ sender[v].row \in Replies
        BY <1>1, <1>3, <2>2, TryingFacts DEF Latest
      <3>2. Room(sender[v].row)
        BY <1>3, <3>1 DEF BoundInv
      <3> QED
        BY <1>2, <3>1, <3>2 DEF Room
    <2> QED
      BY <2>1, <2>2
  <1> QED
    BY <1>2, <1>3 DEF BoundInv

\* A sender that writes no row, and has already come as far as it goes on.
LEMMA QuietCounts ==
  ASSUME ReplyInv, BoundInv, NEW w \in Senders, NEW j \in Sender, Turn(w, j),
         UNCHANGED <<reply, takeovers>>,
         j.stage \in Trying =>
           sender[w].stage \in Trying /\ j.row = sender[w].row /\ j.over = sender[w].over
  PROVE  BoundInv'
  <1>1. j.stage \in Trying /\ Latest(j) => j.row \in Replies /\ Room(j.row)
    BY TryingFacts DEF BoundInv, Latest
  <1> QED
    BY <1>1, CountKept

LEMMA RestCounts ==
  ASSUME ReplyInv, BoundInv, NEW w \in Senders, Turn(w, Resting), UNCHANGED <<reply, takeovers>>
  PROVE  BoundInv'
  BY RestingSender, QuietCounts DEF Trying, Claimed

LEMMA ReadCounts ==
  ASSUME ReplyInv, BoundInv, NEW w \in Senders,
         Open(w) \/ LoadReply(w) \/ CheckMailbox(w) \/ CheckRecipient(w) \/ TransmitReply(w)
  PROVE  BoundInv'
  <1>1. UNCHANGED <<reply, takeovers>>
    BY DEF Open, LoadReply, CheckMailbox, CheckRecipient, TransmitReply, past
  <1>2. PICK j : Turn(w, j) /\ j \in Sender /\ (j.stage \in Trying =>
           sender[w].stage \in Trying /\ j.row = sender[w].row /\ j.over = sender[w].over)
    <2>1. sender[w] \in Sender /\ time \in Nat /\ office \in Office /\ queue \in [Senders -> SUBSET Replies]
      BY SenderFacts, ReplyAssumption DEF ReplyInv, ReplyTypeOK
    <2>2. CASE Open(w)
      <3>1. PICK r \in queue[w] : Turn(w, [Resting EXCEPT !.stage = "claim", !.row = r, !.token = time])
        BY <2>2 DEF Open
      <3>2. PICK j : j = [Resting EXCEPT !.stage = "claim", !.row = r, !.token = time]
        OBVIOUS
      <3>3. j \in Sender /\ j.stage = "claim"
        BY <2>1, <3>1, <3>2, RestingSender DEF Sender, Stage
      <3> QED
        BY <3>1, <3>2, <3>3 DEF Trying, Claimed
    <2>3. CASE LoadReply(w)
      <3>1. sender[w].row \in Replies
        BY <2>3, SenderFacts DEF LoadReply, Claimed, Stage
      <3>2. PICK j : /\ Turn(w, j) /\ j = [sender[w] EXCEPT !.stage = "mailbox",
                          !.tries = reply[sender[w].row].attempts, !.seen = reply[sender[w].row].recipient]
        BY <2>3 DEF LoadReply
      <3>3. j \in Sender /\ j.row = sender[w].row /\ j.over = sender[w].over
        BY <2>1, <3>1, <3>2, CountFacts DEF Sender, Stage, ReplyRow
      <3> QED
        BY <2>3, <3>2, <3>3 DEF LoadReply, Trying, Claimed, Stage
    <2>4. CASE CheckMailbox(w)
      <3>1. PICK j : Turn(w, j) /\ j = [sender[w] EXCEPT !.stage = IF office.usable THEN "recipient" ELSE "defer"]
        BY <2>4 DEF CheckMailbox
      <3>2. j \in Sender /\ j.row = sender[w].row /\ j.over = sender[w].over
        BY <2>1, <3>1 DEF Sender, Stage
      <3> QED
        BY <2>4, <3>1, <3>2 DEF CheckMailbox, Trying, Claimed, Stage
    <2>5. CASE CheckRecipient(w)
      <3>1. PICK j : /\ Turn(w, j) /\ j = [sender[w] EXCEPT
                          !.stage = Judgement(sender[w].tries, sender[w].seen, office.contact),
                          !.to = office.contact]
        BY <2>5 DEF CheckRecipient
      <3>2. Judgement(sender[w].tries, sender[w].seen, office.contact) \in Stage
        BY DEF Judgement, Stage
      <3>3. j \in Sender /\ j.row = sender[w].row /\ j.over = sender[w].over
        BY <2>1, <3>1, <3>2 DEF Sender, Office
      <3> QED
        BY <2>5, <3>1, <3>3 DEF CheckRecipient, Trying, Claimed, Stage
    <2>6. CASE TransmitReply(w)
      <3>1. PICK o \in {"accepted", "transient", "permanent"} :
              Turn(w, [sender[w] EXCEPT !.stage = "record", !.outcome = o])
        BY <2>6 DEF TransmitReply
      <3>2. /\ [sender[w] EXCEPT !.stage = "record", !.outcome = o] \in Sender
            /\ [sender[w] EXCEPT !.stage = "record", !.outcome = o].stage = "record"
        BY <2>1 DEF Sender, Stage
      <3> QED
        BY <3>1, <3>2 DEF Trying
    <2> QED
      BY <2>2, <2>3, <2>4, <2>5, <2>6
  <1> QED
    BY <1>1, <1>2, QuietCounts

\* A deferral keeps the room its claim had; a failure is queued with room.
LEMMA SettleCounts ==
  ASSUME ReplyInv, BoundInv, NEW w \in Senders, sender[w].stage \in Claimed,
         NEW status, NEW due, Settle(w, status, due),
         status = "QUEUED" =>
           sender[w].stage \in Trying \/ reply[sender[w].row].attempts < MaxTries
  PROVE  BoundInv'
  <1>1. PICK r \in Replies : r = sender[w].row
    BY SenderFacts
  <1>2. Turn(w, Resting) /\ takeovers' = takeovers
    BY DEF Settle, past
  <1>3. CASE ~Leased(w)
    BY <1>2, <1>3, RestCounts DEF Settle
  <1>4. CASE Leased(w)
    <2>1. Latest(sender[w])
      BY <1>4, LeasedIsLatest
    <2>2. status = "QUEUED" => Room(r)
      BY <1>1, <2>1, CountFacts DEF BoundInv, Room
    <2>3. reply' = [reply EXCEPT ![r].status = status, ![r].due = due]
      BY <1>1, <1>4 DEF Settle
    <2>4. /\ \A q \in Replies : reply'[q].attempts = reply[q].attempts
          /\ \A q \in Replies : reply'[q].status = IF q = r THEN status ELSE reply[q].status
      BY <2>3, CountFacts DEF ReplyRow
    <2>5. \A q \in Replies : reply'[q].status = "QUEUED" => reply[q].status = "QUEUED" \/ Room(q)
      BY <2>2, <2>4
    <2> QED
      BY <1>2, <2>4, <2>5, RestingSender, CountKept DEF Trying, Claimed
  <1> QED
    BY <1>3, <1>4

LEMMA EndCounts ==
  ASSUME ReplyInv, BoundInv, NEW w \in Senders, DeferReply(w) \/ CancelReply(w) \/ RecordReply(w)
  PROVE  BoundInv'
  <1>1. sender[w].stage \in Claimed
    BY DEF DeferReply, CancelReply, RecordReply, Claimed, Stage
  <1>2. CASE DeferReply(w)
    BY <1>1, <1>2, SettleCounts DEF DeferReply, Trying
  <1>3. CASE CancelReply(w)
    BY <1>1, <1>3, SettleCounts DEF CancelReply
  <1>4. CASE RecordReply(w)
    <2>1. PICK r \in Replies : r = sender[w].row
      BY <1>1, SenderFacts
    <2>2. Resolution(w) = "QUEUED" => reply[r].attempts < MaxTries
      BY <2>1, CountFacts DEF Resolution
    <2> QED
      BY <1>1, <1>4, <2>1, <2>2, SettleCounts DEF RecordReply
  <1> QED
    BY <1>2, <1>3, <1>4

LEMMA RebindCounts ==
  ASSUME ReplyInv, BoundInv, NEW w \in Senders, RebindReply(w)
  PROVE  BoundInv'
  <1>1. PICK r \in Replies : r = sender[w].row
    BY SenderFacts DEF RebindReply, Claimed, Stage
  <1>2. CASE ~(Leased(w) /\ reply[r].attempts = 0)
    BY <1>1, <1>2, RestCounts DEF RebindReply, past
  <1>3. CASE Leased(w) /\ reply[r].attempts = 0
    <2>1. PICK j : j = [sender[w] EXCEPT !.stage = "mark"]
      OBVIOUS
    <2>2. j \in Sender /\ j.row = r /\ Turn(w, j)
      BY <1>1, <1>3, <2>1, SenderFacts DEF RebindReply, Sender, Stage
    <2>3. /\ reply' = [reply EXCEPT ![r].recipient = sender[w].to] /\ takeovers' = takeovers
      BY <1>1, <1>3 DEF RebindReply, past
    <2>4. \A q \in Replies : /\ reply'[q].attempts = reply[q].attempts
                             /\ reply'[q].status = reply[q].status
      BY <2>3, CountFacts DEF ReplyRow
    <2>5. Room(r)
      BY <1>3, CountFacts DEF Room
    <2> QED
      BY <2>2, <2>3, <2>4, <2>5, CountKept
  <1> QED
    BY <1>2, <1>3

\* An attempt takes the room its claim had, and nobody else's.
LEMMA MarkCounts ==
  ASSUME ReplyInv, BoundInv, NEW w \in Senders, MarkReply(w)
  PROVE  BoundInv'
  <1>1. sender[w].stage = "mark" /\ sender[w].stage \in Claimed /\ sender[w].stage \in Trying
    BY DEF MarkReply, Claimed, Trying, Stage
  <1>2. PICK r \in Replies : r = sender[w].row
    BY <1>1, SenderFacts
  <1>3. CASE ~Leased(w)
    BY <1>3, RestCounts DEF MarkReply, past
  <1>4. CASE Leased(w)
    <2>1. Latest(sender[w]) /\ Room(r) /\ reply[r].status = "PROCESSING"
      BY <1>1, <1>2, <1>4, LeasedIsLatest DEF BoundInv, Leased
    <2>2. PICK j : j = [sender[w] EXCEPT !.stage = "send"]
      OBVIOUS
    <2>3. j \in Sender /\ j.stage = "send" /\ Turn(w, j)
      BY <1>2, <1>4, <2>2, SenderFacts DEF MarkReply, Sender, Stage
    <2>4. sender'[w] = j /\ \A v \in Senders : v # w => sender'[v] = sender[v]
      BY <2>3, TurnFacts
    <2>5. reply' = [reply EXCEPT ![r].attempts = @ + 1] /\ takeovers' = takeovers
      BY <1>2, <1>4 DEF MarkReply, past
    <2>6. \A q \in Replies : /\ reply'[q].status = reply[q].status
                             /\ reply'[q].attempts = IF q = r THEN reply[q].attempts + 1
                                                     ELSE reply[q].attempts
      BY <2>5, CountFacts DEF ReplyRow
    <2>7. \A q \in Replies : q # r => (Room(q)' <=> Room(q))
      BY <2>5, <2>6 DEF Room
    <2>8. \A q \in Replies : reply'[q].attempts <= MaxTries + takeovers'[q]
      <3>1. reply'[r].attempts <= MaxTries + takeovers'[r]
        BY <2>1, <2>5, <2>6, CountFacts DEF Room
      <3> QED
        BY <2>5, <2>6, <3>1 DEF BoundInv
    <2>9. ASSUME NEW v \in Senders, sender'[v].stage \in Trying, Latest(sender[v])'
          PROVE  Room(sender[v].row)'
      <3>1. v # w
        BY <2>3, <2>4, <2>9 DEF Trying
      <3>2. /\ sender'[v] = sender[v] /\ Latest(sender[v]) /\ sender[v].row \in Replies
            /\ sender[v].stage \in Claimed
        BY <2>4, <2>5, <2>9, <3>1, TryingFacts DEF Latest
      <3>3. sender[v].row # r
        BY <1>1, <1>2, <2>1, <3>1, <3>2, OthersBehind
      <3>4. Room(sender[v].row)
        BY <2>9, <3>2 DEF BoundInv
      <3> QED
        BY <2>7, <3>2, <3>3, <3>4 DEF Room
    <2> QED
      BY <2>1, <2>6, <2>7, <2>8, <2>9 DEF BoundInv
  <1> QED
    BY <1>3, <1>4

\* A claim of a waiting row finds room; a takeover makes it.
LEMMA ClaimCounts ==
  ASSUME ReplyInv, BoundInv, NEW w \in Senders, ClaimReply(w)
  PROVE  BoundInv'
  <1>1. sender[w] \in Sender /\ sender[w].stage = "claim" /\ sender[w].over \in Nat
    BY SenderFacts DEF ClaimReply
  <1>2. PICK r \in Replies : r = sender[w].row
    BY <1>1, SenderFacts DEF Orderly
  <1>3. PICK now : now = sender[w].token
    OBVIOUS
  <1>4. CASE ~ClaimableReply(r, now)
    BY <1>2, <1>3, <1>4, RestCounts DEF ClaimReply
  <1>5. CASE ClaimableReply(r, now)
    <2>1. /\ reply' = [reply EXCEPT ![r].status = "PROCESSING", ![r].lastAttemptAt = now]
          /\ takeovers' = IF Abandoned(r, now) THEN [takeovers EXCEPT ![r] = @ + 1] ELSE takeovers
          /\ Turn(w, [sender[w] EXCEPT !.stage = "load", !.over = takeovers'[r]])
      BY <1>2, <1>3, <1>5 DEF ClaimReply
    <2>2. \A q \in Replies : /\ reply'[q].attempts = reply[q].attempts
                             /\ reply'[q].status = IF q = r THEN "PROCESSING" ELSE reply[q].status
      BY <2>1, CountFacts DEF ReplyRow
    <2>3. \A q \in Replies : /\ q # r => takeovers'[q] = takeovers[q]
                             /\ takeovers'[q] \in Nat /\ takeovers[q] <= takeovers'[q]
      BY <2>1, CountFacts
    <2>4. Room(r)'
      <3>1. CASE Abandoned(r, now)
        <4>1. takeovers'[r] = takeovers[r] + 1
          BY <2>1, <3>1, CountFacts
        <4> QED
          BY <2>2, <4>1, CountFacts DEF BoundInv, Room
      <3>2. CASE ~Abandoned(r, now)
        <4>1. reply[r].status = "QUEUED" /\ takeovers' = takeovers
          BY <1>5, <2>1, <3>2 DEF ClaimableReply
        <4> QED
          BY <2>2, <4>1 DEF BoundInv, Room
      <3> QED
        BY <3>1, <3>2
    <2>5. \A q \in Replies : q # r => (Room(q)' <=> Room(q))
      BY <2>2, <2>3 DEF Room
    <2>6. \A q \in Replies : reply'[q].attempts <= MaxTries + takeovers'[q]
      <3> SUFFICES ASSUME NEW q \in Replies PROVE reply'[q].attempts <= MaxTries + takeovers'[q]
        OBVIOUS
      <3>1. /\ reply'[q].attempts = reply[q].attempts /\ takeovers[q] <= takeovers'[q]
            /\ takeovers'[q] \in Nat /\ reply[q].attempts <= MaxTries + takeovers[q]
        BY <2>2, <2>3 DEF BoundInv
      <3> QED
        BY <3>1, CountFacts
    <2>7. PICK j : j = [sender[w] EXCEPT !.stage = "load", !.over = takeovers'[r]]
      OBVIOUS
    <2>8. j \in Sender /\ j.row = r /\ Turn(w, j)
      BY <1>1, <1>2, <2>1, <2>3, <2>7 DEF Sender, Stage
    <2>9. sender'[w] = j /\ \A v \in Senders : v # w => sender'[v] = sender[v]
      BY <2>8, TurnFacts
    <2>10. ASSUME NEW v \in Senders, sender'[v].stage \in Trying, Latest(sender[v])'
           PROVE  Room(sender[v].row)'
      <3>1. CASE v = w
        BY <2>4, <2>8, <2>9, <3>1 DEF Room
      <3>2. CASE v # w
        <4>1. /\ sender'[v] = sender[v] /\ sender[v].stage \in Claimed /\ sender[v].row \in Replies
              /\ sender[v].over = takeovers'[sender[v].row]
          BY <2>9, <2>10, <3>2, TryingFacts DEF Latest
        <4>2. CASE sender[v].row = r
          BY <2>4, <4>1, <4>2 DEF Room
        <4>3. CASE sender[v].row # r
          <5>1. Latest(sender[v])
            BY <2>3, <4>1, <4>3 DEF Latest
          <5>2. Room(sender[v].row)
            BY <2>10, <4>1, <5>1 DEF BoundInv
          <5> QED
            BY <2>5, <4>1, <4>3, <5>2 DEF Room
        <4> QED
          BY <4>2, <4>3
      <3> QED
        BY <3>1, <3>2
    <2>11. \A q \in Replies : reply'[q].status = "QUEUED" => Room(q)'
      BY <2>2, <2>4, <2>5 DEF BoundInv
    <2> QED
      BY <2>6, <2>10, <2>11 DEF BoundInv
  <1> QED
    BY <1>4, <1>5

LEMMA BoundInit == ReplyInit => BoundInv
  <1> SUFFICES ASSUME ReplyInit PROVE BoundInv
    OBVIOUS
  <1>1. /\ \A r \in Replies : reply[r].attempts = 0 /\ takeovers[r] = 0
        /\ \A w \in Senders : sender[w].stage = "idle"
    BY RestingSender DEF ReplyInit
  <1>2. \A r \in Replies : Room(r) /\ reply[r].attempts <= MaxTries + takeovers[r]
    BY <1>1, ReplyAssumption DEF Room
  <1>3. \A w \in Senders : sender[w].stage \notin Trying
    BY <1>1 DEF Trying, Claimed
  <1> QED
    BY <1>2, <1>3 DEF BoundInv

LEMMA BoundNext == ReplyInv /\ BoundInv /\ [ReplyNext]_replyVars => BoundInv'
  <1> SUFFICES ASSUME ReplyInv, BoundInv, [ReplyNext]_replyVars PROVE BoundInv'
    OBVIOUS
  <1>1. CASE UNCHANGED <<reply, sender, takeovers>>
    BY <1>1 DEF BoundInv, Room, Latest
  <1>2. ASSUME NEW w \in Senders, TakeBatch(w) PROVE BoundInv'
    BY <1>1, <1>2 DEF TakeBatch, past
  <1>3. ASSUME NEW w \in Senders, ReplyWork(w) PROVE BoundInv'
    BY <1>2, <1>3, ReadCounts, EndCounts, RebindCounts, MarkCounts, ClaimCounts DEF ReplyWork
  <1>4. ASSUME NEW w \in Senders, Die(w) PROVE BoundInv'
    BY <1>4, RestCounts DEF Die, past
  <1>5. CASE Pass \/ Rearrange \/ UNCHANGED replyVars
    BY <1>1, <1>5 DEF Pass, Rearrange, replyVars, past
  <1> QED
    BY <1>3, <1>4, <1>5 DEF ReplyNext

\* However workers die between an attempt and its record, a reply is attempted
\* MaxTries times and once more for each takeover; SMTP sees no more than that.
THEOREM RetriesAreBounded == ReplySpec => []TriesBounded
  <1>1. ReplyInv /\ BoundInv => TriesBounded
    <2> SUFFICES ASSUME ReplyInv, BoundInv, NEW m \in mailed
                 PROVE  m.try <= MaxTries + takeovers[m.row]
      BY DEF TriesBounded, BoundInv
    <2>1. m.row \in Replies /\ m.try \in Nat /\ m.try <= reply[m.row].attempts
      BY DEF ReplyInv, MailedInv
    <2> QED
      BY <2>1, CountFacts DEF BoundInv
  <1> QED
    BY Inductive, BoundInit, BoundNext, <1>1, PTL DEF ReplySpec

-----------------------------------------------------------------------------
(* The worker implements OutboxDelivery                                    *)

ReplyPhase == [r \in Replies |-> IF reply[r].status \in Ended THEN reply[r].status ELSE "open"]
SentTo(r) == {m.to : m \in {n \in mailed : n.row = r}}
ReplyCopies == [r \in Replies |-> SentTo(r)]

LEMMA AbstractInit == ReplyInit => Outbox!AbsInit
  <1> SUFFICES ASSUME ReplyInit PROVE Outbox!AbsInit
    OBVIOUS
  <1>1. \A r \in Replies : reply[r].status = "QUEUED"
    BY DEF ReplyInit
  <1>2. ReplyPhase = [r \in Replies |-> "open"]
    BY <1>1 DEF ReplyPhase, Ended
  <1>3. ReplyCopies = [r \in Replies |-> {}]
    BY DEF ReplyInit, ReplyCopies, SentTo
  <1> QED
    BY <1>2, <1>3 DEF ReplyInit, ReplyPhase, ReplyCopies, SentTo, Outbox!AbsInit

\* A step that neither transmits nor resolves is a stutter.
LEMMA AbstractStutter ==
  ASSUME mailed' = mailed, receipts' = receipts,
         \A r \in Replies : \/ reply'[r].status = reply[r].status
                            \/ reply'[r].status \notin Ended /\ reply[r].status \notin Ended
  PROVE  UNCHANGED Outbox!absVars
  <1>1. ReplyPhase' = ReplyPhase
    BY DEF ReplyPhase
  <1>2. ReplyCopies' = ReplyCopies
    BY DEF ReplyCopies, SentTo
  <1> QED
    BY <1>1, <1>2 DEF ReplyPhase, ReplyCopies, SentTo, Outbox!absVars

LEMMA AbstractTransmit ==
  ASSUME ReplyInv, ReplyInv', NEW w \in Senders, TransmitReply(w)
  PROVE  Outbox!AbsNext
  <1>1. PICK r \in Replies : r = sender[w].row
    BY SenderFacts DEF TransmitReply, Claimed, Stage
  <1>2. PICK m0 : m0 = [row |-> r, to |-> sender[w].to, at |-> sender[w].token,
                        try |-> sender[w].tries + 1, over |-> sender[w].over]
    OBVIOUS
  <1>3. /\ mailed' = mailed \union {m0} /\ reply' = reply
        /\ receipts' \in {receipts, receipts \union {r}}
    BY <1>1, <1>2 DEF TransmitReply
  <1>4. PICK a : a = sender[w].to
    OBVIOUS
  <1>5. m0.row = r /\ m0.to = a
    BY <1>2, <1>4
  <1>6. a \in Addresses /\ \A m \in mailed' : m.row = r => m.to = a
    BY <1>3, <1>5 DEF ReplyInv, MailedInv, ShownAsSent
  <1>7. SentTo(r) \subseteq {a} /\ SentTo(r)' = {a}
    BY <1>3, <1>5, <1>6 DEF SentTo
  <1>8. \A q \in Replies : q # r => SentTo(q)' = SentTo(q)
    BY <1>3, <1>5 DEF SentTo
  <1>9. ReplyCopies' = [ReplyCopies EXCEPT ![r] = {a}] /\ ReplyCopies[r] \subseteq {a}
    BY <1>7, <1>8 DEF ReplyCopies
  <1>10. ReplyPhase' = ReplyPhase
    BY <1>3 DEF ReplyPhase
  <1>11. Outbox!Transmit(r, a)
    BY <1>3, <1>9, <1>10 DEF Outbox!Transmit, ReplyCopies, SentTo, ReplyPhase
  <1> QED
    BY <1>6, <1>11 DEF Outbox!AbsNext

\* A settled row leaves PROCESSING, on the evidence its sender has.
LEMMA AbstractSettle ==
  ASSUME ReplyInv, NEW w \in Senders, NEW r \in Replies, r = sender[w].row, Leased(w),
         NEW status \in Ended \union {"QUEUED"}, NEW due, Settle(w, status, due),
         status = "DELIVERED" => r \in receipts,
         status = "FAILED" => \E m \in mailed : m.row = r
  PROVE  [Outbox!AbsNext]_(Outbox!absVars)
  <1>1. /\ mailed' = mailed /\ receipts' = receipts
        /\ reply \in [Replies -> ReplyRow] /\ reply[r] \in ReplyRow
        /\ reply[r].status = "PROCESSING"
    BY DEF Settle, past, Leased, ReplyInv, ReplyTypeOK
  <1> DEFINE row == [reply[r] EXCEPT !.status = status, !.due = due]
  <1>2. row.status = status
    BY <1>1 DEF ReplyRow
  <1>3. reply' = [reply EXCEPT ![r] = row]
    BY DEF Settle, row
  <1> HIDE DEF row
  <1>4. /\ reply'[r].status = status
        /\ \A q \in Replies : q # r => reply'[q] = reply[q]
    BY <1>1, <1>2, <1>3
  <1>5. CASE status = "QUEUED"
    BY <1>1, <1>4, <1>5, AbstractStutter DEF Ended
  <1>6. CASE status # "QUEUED"
    <2>1. status \in Ended /\ reply[r].status \notin Ended
      BY <1>1, <1>6 DEF Ended
    <2>2. ReplyPhase' = [ReplyPhase EXCEPT ![r] = status] /\ ReplyPhase[r] = "open"
      BY <1>4, <2>1 DEF ReplyPhase
    <2>3. ReplyCopies' = ReplyCopies
      BY <1>1 DEF ReplyCopies, SentTo
    <2>4. status = "FAILED" => ReplyCopies[r] # {}
      BY DEF ReplyCopies, SentTo
    <2>5. Outbox!Resolve(r, status)
      BY <1>1, <2>2, <2>3, <2>4 DEF Outbox!Resolve, ReplyCopies, SentTo, ReplyPhase
    <2>6. status \in Outbox!Final
      BY <2>1 DEF Outbox!Final, Ended
    <2> QED
      BY <2>5, <2>6 DEF Outbox!AbsNext
  <1> QED
    BY <1>5, <1>6

\* Deferring, cancelling and recording, with the lease or without.
LEMMA AbstractResolve ==
  ASSUME ReplyInv, NEW w \in Senders, DeferReply(w) \/ CancelReply(w) \/ RecordReply(w)
  PROVE  [Outbox!AbsNext]_(Outbox!absVars)
  <1>1. PICK r \in Replies : r = sender[w].row
    BY SenderFacts DEF DeferReply, CancelReply, RecordReply, Claimed, Stage
  <1>2. CASE ~Leased(w)
    BY <1>2, AbstractStutter DEF DeferReply, CancelReply, RecordReply, Settle, past
  <1>3. CASE Leased(w) /\ DeferReply(w)
    BY <1>1, <1>3, AbstractSettle DEF DeferReply
  <1>4. CASE Leased(w) /\ CancelReply(w)
    BY <1>1, <1>4, AbstractSettle DEF CancelReply, Ended
  <1>5. CASE Leased(w) /\ RecordReply(w)
    <2> DEFINE due == IF Resolution(w) = "QUEUED" THEN NextDue(w) ELSE 0
    <2>1. Orderly(sender[w]) /\ sender[w].stage = "record" /\ sender[w].stage \in Claimed
      BY <1>5, SenderFacts DEF RecordReply, Claimed, Stage
    <2>2. /\ sender[w].outcome = "accepted" => r \in receipts
          /\ \E m \in mailed : m.row = r
      BY <1>1, <2>1 DEF Orderly, Addressed
    <2>3. /\ Resolution(w) \in Ended \union {"QUEUED"}
          /\ Resolution(w) = "DELIVERED" => sender[w].outcome = "accepted"
      BY DEF Resolution, Ended
    <2>4. Settle(w, Resolution(w), due)
      BY <1>5 DEF RecordReply
    <2> HIDE DEF due
    <2> QED
      BY <1>1, <1>5, <2>2, <2>3, <2>4, AbstractSettle
  <1> QED
    BY <1>2, <1>3, <1>4, <1>5

LEMMA AbstractStep ==
  ASSUME ReplyInv, ReplyInv', [ReplyNext]_replyVars
  PROVE  [Outbox!AbsNext]_(Outbox!absVars)
  <1>1. CASE mailed' = mailed /\ receipts' = receipts /\ reply' = reply
    BY <1>1, AbstractStutter
  <1>2. ASSUME NEW w \in Senders, ClaimReply(w) PROVE UNCHANGED Outbox!absVars
    <2>1. PICK r \in Replies : r = sender[w].row
      BY <1>2, SenderFacts DEF ClaimReply, Orderly
    <2>2. mailed' = mailed /\ receipts' = receipts /\ reply \in [Replies -> ReplyRow]
      BY <1>2 DEF ClaimReply, ReplyInv, ReplyTypeOK
    <2>3. CASE reply' = reply
      BY <2>2, <2>3, AbstractStutter
    <2>4. CASE ClaimableReply(r, sender[w].token)
      <3>1. reply[r].status \in {"QUEUED", "PROCESSING"} /\ reply[r] \in ReplyRow
        BY <2>2, <2>4 DEF ClaimableReply, Abandoned
      <3> DEFINE row == [reply[r] EXCEPT !.status = "PROCESSING", !.lastAttemptAt = sender[w].token]
      <3>2. row.status = "PROCESSING"
        BY <3>1 DEF ReplyRow
      <3>3. reply' = [reply EXCEPT ![r] = row]
        BY <1>2, <2>1, <2>4 DEF ClaimReply, row
      <3> HIDE DEF row
      <3>4. /\ reply'[r].status = "PROCESSING"
            /\ \A q \in Replies : q # r => reply'[q] = reply[q]
        BY <2>2, <3>2, <3>3
      <3> QED
        BY <2>2, <3>1, <3>4, AbstractStutter DEF Ended
    <2> QED
      BY <1>2, <2>1, <2>3, <2>4 DEF ClaimReply
  <1>3. ASSUME NEW w \in Senders, RebindReply(w) \/ MarkReply(w)
        PROVE  UNCHANGED Outbox!absVars
    <2>1. PICK r \in Replies : r = sender[w].row
      BY <1>3, SenderFacts DEF RebindReply, MarkReply, Claimed, Stage
    <2>2. mailed' = mailed /\ receipts' = receipts /\ reply \in [Replies -> ReplyRow]
      BY <1>3 DEF RebindReply, MarkReply, past, ReplyInv, ReplyTypeOK
    <2>3. \A q \in Replies : reply'[q].status = reply[q].status
      BY <1>3, <2>1, <2>2 DEF RebindReply, MarkReply, ReplyRow
    <2> QED
      BY <2>2, <2>3, AbstractStutter
  <1>4. ASSUME NEW w \in Senders,
               TakeBatch(w) \/ Open(w) \/ LoadReply(w) \/ CheckMailbox(w) \/ CheckRecipient(w)
                 \/ Die(w)
        PROVE  mailed' = mailed /\ receipts' = receipts /\ reply' = reply
    BY <1>4 DEF TakeBatch, Open, LoadReply, CheckMailbox, CheckRecipient, Die, past
  <1>5. ASSUME NEW w \in Senders, ReplyWork(w) \/ Die(w)
        PROVE  [Outbox!AbsNext]_(Outbox!absVars)
    BY <1>1, <1>2, <1>3, <1>4, <1>5, AbstractTransmit, AbstractResolve DEF ReplyWork
  <1>6. CASE Pass \/ Rearrange \/ UNCHANGED replyVars
    BY <1>1, <1>6 DEF Pass, Rearrange, replyVars, past
  <1> QED
    BY <1>5, <1>6 DEF ReplyNext

\* The reply worker implements OutboxDelivery: one addressed message per row,
\* transmitted before the row is DELIVERED or FAILED, and one resolution, for
\* any number of rows and workers that die, stall and take over.
THEOREM RepliesAreDelivered == ReplySpec => RepliesDelivered
  <1>1. ReplyInit => Outbox!AbsInit
    BY AbstractInit
  <1>2. ReplyInv /\ ReplyInv' /\ [ReplyNext]_replyVars => [Outbox!AbsNext]_(Outbox!absVars)
    BY AbstractStep
  <1> QED
    BY Inductive, <1>1, <1>2, PTL DEF ReplySpec, RepliesDelivered, Outbox!AbsSpec

-----------------------------------------------------------------------------
(* REPLYCOMPOSER                                                           *)

Reply == [key : Key, text : Written, open : BOOLEAN]
ReadAnswer == [snap : View, sender : BOOLEAN]
Confirmation == [key : Key, text : Written]

Confirmed == {a.key : a \in confirmed}

(* One request at most is still listened to: the page waits for it, under  *)
(* the key it holds. One read at most ends a send.                         *)
Listening ==
    /\ \A q \in posts : q.heard => page.sending = "post" /\ q.key = page.key
    /\ \A p, q \in posts : p.heard /\ q.heard => p = q
    /\ \A a \in reads : a.sender => page.sending = "load"
    /\ \A a, b \in reads : a.sender /\ b.sender => a = b

(* Keys are used up one by one: each was acknowledged or left behind.      *)
KeysInTurn ==
    /\ \A q \in posts : q.key <= page.key
    /\ \A r \in replies : r.key <= page.key
    /\ \A k \in 1..(page.key - 1) : k \in left \union Confirmed

Queued ==
    /\ \A r, s \in replies : r.key = s.key => r = s
    /\ \A a \in confirmed : \E r \in replies : r.key = a.key /\ r.text = a.text

(* No more keys than sends and remounts.                                   *)
KeysLast ==
    page.key + (IF \E q \in posts : q.heard THEN 1 ELSE 0)
        <= 1 + sent + (IF left = {} THEN 0 ELSE 1)

ComposerTyped ==
    /\ page \in Page /\ posts \subseteq Post /\ replies \subseteq Reply
    /\ reads \subseteq ReadAnswer /\ confirmed \subseteq Confirmation /\ sent \in 0..MaxSends

ComposerInv == ComposerTyped /\ Listening /\ KeysInTurn /\ Queued /\ KeysLast

-----------------------------------------------------------------------------
LEMMA KeyBound ==
  ASSUME ComposerAssumption
  PROVE  Key \subseteq Nat /\ MaxSends \in Nat /\ \A k : k \in Key <=> k \in Nat /\ 1 <= k /\ k <= MaxSends + 2
  BY DEF Key, ComposerAssumption

\* The newest reply.
LEMMA Newest ==
  ASSUME ComposerAssumption, NEW S \in SUBSET Reply, S # {}
  PROVE  \E x \in S : \A y \in S : y.key <= x.key
  <1> DEFINE Left == {MaxSends + 2 - x.key : x \in S}
  <1>1. Left \subseteq Nat /\ Left # {}
    BY KeyBound DEF Reply
  <1>2. PICK m \in Left : \A y \in Left : <<y, m>> \notin OpToRel(<, Nat)
    BY <1>1, WFMin, NatLessThanWellFounded, Zenon
  <1>3. \A y \in Left : ~ (y < m)
    BY <1>1, <1>2, Zenon DEF OpToRel
  <1>4. PICK x \in S : m = MaxSends + 2 - x.key
    BY <1>2
  <1>5. ASSUME NEW y \in S
        PROVE  y.key <= x.key
    <2>1. ~ (MaxSends + 2 - y.key < m)
      BY <1>3
    <2> QED
      BY <1>4, <2>1, KeyBound DEF Reply
  <1> QED
    BY <1>5

LEMMA SnapshotType ==
  ASSUME ComposerAssumption, ComposerTyped
  PROVE  Snapshot \in View
  <1>1. CASE replies = {}
    BY <1>1 DEF Snapshot, View
  <1>2. CASE replies # {}
    <2>1. \E x \in replies : \A y \in replies : y.key <= x.key
      BY <1>2, Newest DEF ComposerTyped
    <2>2. PICK r \in replies : r = CHOOSE x \in replies : \A y \in replies : y.key <= x.key
      BY <2>1
    <2>3. Snapshot = [latest |-> r.key, open |-> r.open]
      BY <1>2, <2>2 DEF Snapshot
    <2> QED
      BY <2>2, <2>3 DEF View, ComposerTyped, Reply
  <1> QED
    BY <1>1, <1>2

LEMMA ComposerStart ==
  ASSUME ComposerAssumption, ComposerInit
  PROVE  ComposerInv
  <1>1. page = [text |-> Blank, key |-> 1, sending |-> "no", drafting |-> FALSE,
                view |-> [latest |-> 0, open |-> FALSE]]
    BY DEF ComposerInit, Fresh
  <1>2. page \in Page
    BY <1>1, KeyBound DEF Page, Written, View
  <1>3. ComposerTyped
    BY <1>2, KeyBound DEF ComposerTyped, ComposerInit
  <1>4. Listening /\ Queued /\ KeysInTurn
    BY <1>1 DEF Listening, Queued, KeysInTurn, ComposerInit
  <1>5. KeysLast
    BY <1>1 DEF KeysLast, ComposerInit
  <1> QED
    BY <1>3, <1>4, <1>5 DEF ComposerInv

\* A step of the page alone, that keeps its key and what it waits for.
LEMMA PageAlone ==
  ASSUME ComposerInv, page' \in Page, page'.key = page.key, page'.sending = page.sending,
         UNCHANGED <<posts, replies, reads, sent, confirmed, left>>
  PROVE  ComposerInv'
  BY DEF ComposerInv, ComposerTyped, Listening, KeysInTurn, Queued, KeysLast, Confirmed

LEMMA WritingKeeps ==
  ASSUME ComposerAssumption, ComposerInv, Write \/ GenerateDraft \/ DraftArrives
  PROVE  ComposerInv'
  <1>1. page \in Page
    BY DEF ComposerInv, ComposerTyped
  <1>2. CASE Write
    BY <1>1, <1>2, PageAlone DEF Write, Page, Written
  <1>3. CASE GenerateDraft
    BY <1>1, <1>3, PageAlone DEF GenerateDraft, Page
  <1>4. CASE DraftArrives
    <2>1. PICK ok \in BOOLEAN : page' = [page EXCEPT !.drafting = FALSE, !.text = IF ok THEN Suggestion ELSE @]
      BY <1>4 DEF DraftArrives
    <2>2. page' \in Page /\ page'.key = page.key /\ page'.sending = page.sending
      BY <1>1, <2>1 DEF Page, Written
    <2> QED
      BY <1>4, <2>2, PageAlone DEF DraftArrives
  <1> QED
    BY <1>2, <1>3, <1>4

LEMMA SendKeeps ==
  ASSUME ComposerAssumption, ComposerInv, SendReply
  PROVE  ComposerInv'
  <1>1. /\ page \in Page /\ page.sending = "no" /\ sent \in Nat /\ sent < MaxSends
        /\ sent' = sent + 1 /\ page' = [page EXCEPT !.sending = "post"]
        /\ UNCHANGED <<replies, reads, confirmed, left>>
    BY KeyBound DEF SendReply, ComposerInv, ComposerTyped
  <1>2. PICK new : /\ new = [id |-> sent + 1, key |-> page.key, text |-> page.text,
                             step |-> "find", retried |-> FALSE, heard |-> TRUE]
                   /\ posts' = posts \union {new}
    BY DEF SendReply
  <1>3. new \in Post /\ new.heard /\ new.key = page.key
    <2>1. sent + 1 \in 1..MaxSends
      BY <1>1, KeyBound
    <2> QED
      BY <1>1, <1>2, <2>1 DEF Post, Page
  <1>4. page' \in Page /\ page'.key = page.key /\ page'.sending = "post"
    BY <1>1 DEF Page
  <1>5. \A q \in posts : ~q.heard
    BY <1>1 DEF ComposerInv, Listening
  <1>6. ComposerTyped'
    <2>1. sent' \in 0..MaxSends
      BY <1>1, KeyBound
    <2> QED
      BY <1>1, <1>2, <1>3, <1>4, <2>1 DEF ComposerInv, ComposerTyped
  <1>7. Listening'
    BY <1>1, <1>2, <1>3, <1>4, <1>5 DEF ComposerInv, Listening
  <1>8. KeysInTurn' /\ Queued'
    <2>1. page.key \in Nat
      BY <1>1, KeyBound DEF Page
    <2> QED
      BY <1>1, <1>2, <1>3, <1>4, <2>1 DEF ComposerInv, KeysInTurn, Queued, Confirmed
  <1>9. KeysLast'
    <2>1. page.key \in Nat /\ page.key <= 1 + sent + (IF left = {} THEN 0 ELSE 1)
      BY <1>1, <1>5, KeyBound DEF Page, ComposerInv, KeysLast
    <2> QED
      BY <1>1, <1>2, <1>3, <1>4, <2>1 DEF KeysLast
  <1> QED
    BY <1>6, <1>7, <1>8, <1>9 DEF ComposerInv

LEMMA RemountKeeps ==
  ASSUME ComposerAssumption, ComposerInv, Remount
  PROVE  ComposerInv'
  <1>1. /\ left = {} /\ left' = {page.key} /\ reads' = {}
        /\ page' = Fresh(page.key + 1, Snapshot)
        /\ posts' = {[q EXCEPT !.heard = FALSE] : q \in posts}
        /\ UNCHANGED <<replies, sent, confirmed>>
    BY DEF Remount
  <1>2. page \in Page /\ page.key \in Nat /\ 1 <= page.key /\ sent \in Nat /\ sent <= MaxSends
    BY KeyBound DEF ComposerInv, ComposerTyped, Page
  <1>3. page.key <= 1 + sent
    BY <1>1, <1>2 DEF ComposerInv, KeysLast
  <1>4. page.key + 1 \in Key
    BY <1>2, <1>3, KeyBound
  <1>5. page' \in Page /\ page'.key = page.key + 1
    BY <1>1, <1>4, SnapshotType DEF Fresh, Page, Written, ComposerInv
  <1>6. \A q \in posts' : q \in Post /\ ~q.heard /\ \E p \in posts : p.key = q.key
    BY <1>1 DEF ComposerInv, ComposerTyped, Post
  <1>7. ComposerTyped'
    BY <1>1, <1>5, <1>6 DEF ComposerInv, ComposerTyped
  <1>8. Listening' /\ Queued'
    BY <1>1, <1>6 DEF ComposerInv, Listening, Queued
  <1>9. KeysInTurn'
    <2>1. Confirmed' = Confirmed
      BY <1>1 DEF Confirmed
    <2>2. \A q \in posts : q.key \in Nat /\ q.key <= page.key
      BY KeyBound DEF ComposerInv, ComposerTyped, KeysInTurn, Post
    <2>3. \A r \in replies : r.key \in Nat /\ r.key <= page.key
      BY KeyBound DEF ComposerInv, ComposerTyped, KeysInTurn, Reply
    <2>4. \A k \in 1..page.key : k \in left' \union Confirmed
      BY <1>1, <1>2 DEF ComposerInv, KeysInTurn
    <2> QED
      BY <1>1, <1>2, <1>5, <1>6, <2>1, <2>2, <2>3, <2>4 DEF KeysInTurn
  <1>10. KeysLast'
    BY <1>1, <1>2, <1>3, <1>5, <1>6 DEF KeysLast
  <1> QED
    BY <1>7, <1>8, <1>9, <1>10 DEF ComposerInv

LEMMA ReadingKeeps ==
  ASSUME ComposerAssumption, ComposerInv,
         ReadAfterSend \/ Poll \/ \E a \in reads : ShowRead(a) \/ LoseRead(a)
  PROVE  ComposerInv'
  <1>1. page \in Page /\ Snapshot \in View
    BY SnapshotType DEF ComposerInv, ComposerTyped
  <1>2. ASSUME NEW mine \in BOOLEAN, Read(mine),
               mine => page.sending = "load" /\ \A a \in reads : ~a.sender
        PROVE  ComposerInv'
    <2>1. [snap |-> Snapshot, sender |-> mine] \in ReadAnswer
      BY <1>1 DEF ReadAnswer
    <2>2. /\ reads' = reads \union {[snap |-> Snapshot, sender |-> mine]}
          /\ UNCHANGED <<page, posts, replies, sent, confirmed, left>>
      BY <1>2 DEF Read
    <2>3. ComposerTyped' /\ Listening'
      BY <1>2, <2>1, <2>2 DEF ComposerInv, ComposerTyped, Listening
    <2>4. KeysInTurn' /\ Queued' /\ KeysLast'
      BY <2>2 DEF ComposerInv, KeysInTurn, Queued, KeysLast, Confirmed
    <2> QED
      BY <2>3, <2>4 DEF ComposerInv
  <1>3. CASE ReadAfterSend
    BY <1>2, <1>3 DEF ReadAfterSend
  <1>4. CASE Poll
    BY <1>2, <1>4 DEF Poll
  <1>5. ASSUME NEW a \in reads, ShowRead(a) \/ LoseRead(a)
        PROVE  ComposerInv'
    <2>1. PICK view \in View : page' = [page EXCEPT !.view = view, !.sending = IF a.sender THEN "no" ELSE @]
      <3>1. a \in ReadAnswer
        BY DEF ComposerInv, ComposerTyped
      <3>2. CASE ShowRead(a)
        BY <3>1, <3>2 DEF ShowRead, ReadAnswer
      <3>3. CASE LoseRead(a)
        <4>1. page' = [page EXCEPT !.view = page.view, !.sending = IF a.sender THEN "no" ELSE @]
          BY <1>1, <3>3 DEF LoseRead, Page
        <4> QED
          BY <1>1, <4>1 DEF Page
      <3> QED
        BY <1>5, <3>2, <3>3
    <2>2. reads' = reads \ {a} /\ UNCHANGED <<posts, replies, sent, confirmed, left>>
      BY <1>5 DEF ShowRead, LoseRead
    <2>3. /\ page' \in Page /\ page'.key = page.key
          /\ page'.sending = IF a.sender THEN "no" ELSE page.sending
      BY <1>1, <2>1 DEF Page
    <2>4. ComposerTyped' /\ KeysInTurn' /\ Queued' /\ KeysLast'
      BY <2>2, <2>3 DEF ComposerInv, ComposerTyped, KeysInTurn, Queued, KeysLast, Confirmed
    <2>5. Listening'
      BY <2>2, <2>3 DEF ComposerInv, Listening
    <2> QED
      BY <2>4, <2>5 DEF ComposerInv
  <1> QED
    BY <1>3, <1>4, <1>5

\* The end of a request; what it leaves of the replies is in order.
LEMMA AnswerKeeps ==
  ASSUME ComposerAssumption, ComposerInv, NEW q \in posts, NEW ok \in BOOLEAN, Answer(q, ok),
         UNCHANGED <<reads, sent, left>>,
         replies \subseteq replies', replies' \subseteq Reply,
         \A r, s \in replies' : r.key = s.key => r = s,
         \A r \in replies' : r.key <= page.key,
         ok => \E r \in replies' : r.key = q.key /\ r.text = q.text
  PROVE  ComposerInv'
  <1>1. /\ page \in Page /\ page.key \in Nat /\ 1 <= page.key /\ sent \in Nat /\ sent <= MaxSends
        /\ q \in Post /\ q.key \in Key /\ q.text \in Written /\ q.heard \in BOOLEAN
    BY KeyBound DEF ComposerInv, ComposerTyped, Page, Post
  <1>2. posts' = posts \ {q}
    BY DEF Answer
  <1>3. CASE ~q.heard
    <2>1. page' = page /\ confirmed' = confirmed
      BY <1>3 DEF Answer
    <2>2. ComposerTyped' /\ Listening'
      BY <1>2, <2>1 DEF ComposerInv, ComposerTyped, Listening
    <2>3. KeysInTurn' /\ Queued'
      BY <1>2, <2>1 DEF ComposerInv, KeysInTurn, Queued, Confirmed
    <2>4. KeysLast'
      BY <1>1, <1>2, <2>1 DEF ComposerInv, KeysLast
    <2> QED
      BY <2>2, <2>3, <2>4 DEF ComposerInv
  <1>4. CASE q.heard
    <2>1. /\ page.sending = "post" /\ q.key = page.key
          /\ \A p \in posts' : ~p.heard
          /\ \A a \in reads : ~a.sender
      BY <1>2, <1>4 DEF ComposerInv, Listening, ComposerTyped, Post, ReadAnswer
    <2>2. page.key + 1 <= 1 + sent + (IF left = {} THEN 0 ELSE 1)
      BY <1>1, <1>4 DEF ComposerInv, KeysLast
    <2>3. CASE ok
      <3>1. /\ page' = Acknowledged(page)
            /\ confirmed' = confirmed \union {[key |-> q.key, text |-> q.text]}
        BY <1>4, <2>3 DEF Answer
      <3>2. page.key + 1 \in Key
        BY <1>1, <2>2, KeyBound
      <3>3. page' \in Page /\ page'.key = page.key + 1
        BY <1>1, <3>1, <3>2 DEF Acknowledged, Page, Written
      <3>4. ComposerTyped'
        BY <1>1, <1>2, <3>1, <3>3 DEF ComposerInv, ComposerTyped, Confirmation
      <3>5. Listening'
        BY <2>1 DEF Listening
      <3>6. KeysInTurn'
        <4>1. Confirmed \subseteq Confirmed' /\ page.key \in Confirmed'
          <5>1. [key |-> q.key, text |-> q.text] \in confirmed' /\ confirmed \subseteq confirmed'
            BY <3>1
          <5> QED
            BY <2>1, <5>1 DEF Confirmed
        <4>2. \A p \in posts' : p.key \in Nat /\ p.key <= page.key
          BY <1>2, KeyBound DEF ComposerInv, ComposerTyped, KeysInTurn, Post
        <4>3. \A r \in replies' : r.key \in Nat /\ r.key <= page.key
          BY KeyBound DEF Reply
        <4>4. \A k \in 1..(page.key - 1) : k \in left \union Confirmed
          BY DEF ComposerInv, KeysInTurn
        <4>5. \A k \in 1..page.key : k \in left' \union Confirmed'
          BY <1>1, <4>1, <4>4
        <4> QED
          BY <1>1, <3>3, <4>2, <4>3, <4>5 DEF KeysInTurn
      <3>7. Queued'
        BY <2>3, <3>1 DEF ComposerInv, Queued
      <3>8. KeysLast'
        BY <1>1, <2>1, <2>2, <3>3 DEF KeysLast
      <3> QED
        BY <3>4, <3>5, <3>6, <3>7, <3>8 DEF ComposerInv
    <2>4. CASE ~ok
      <3>1. page' = Refused(page) /\ confirmed' = confirmed
        BY <1>4, <2>4 DEF Answer
      <3>2. page' \in Page /\ page'.key = page.key
        BY <1>1, <3>1 DEF Refused, Page
      <3>3. ComposerTyped' /\ Listening'
        BY <1>2, <2>1, <3>1, <3>2 DEF ComposerInv, ComposerTyped, Listening
      <3>4. KeysInTurn' /\ Queued'
        BY <1>2, <3>1, <3>2 DEF ComposerInv, KeysInTurn, Queued, Confirmed
      <3>5. KeysLast'
        BY <1>1, <2>1, <2>2, <3>2 DEF KeysLast
      <3> QED
        BY <3>3, <3>4, <3>5 DEF ComposerInv
    <2> QED
      BY <2>3, <2>4
  <1> QED
    BY <1>1, <1>3, <1>4

LEMMA MoveKeeps ==
  ASSUME ComposerInv, NEW q \in posts, NEW new \in Post, new.key = q.key, new.heard = q.heard,
         posts' = (posts \ {q}) \union {new},
         UNCHANGED <<page, replies, reads, sent, confirmed, left>>
  PROVE  ComposerInv'
  <1>1. ComposerTyped' /\ Listening'
    BY DEF ComposerInv, ComposerTyped, Listening
  <1>2. KeysInTurn' /\ Queued'
    BY DEF ComposerInv, KeysInTurn, Queued, Confirmed
  <1>3. (\E p \in posts' : p.heard) <=> (\E p \in posts : p.heard)
    OBVIOUS
  <1>4. KeysLast'
    BY <1>3 DEF ComposerInv, KeysLast
  <1> QED
    BY <1>1, <1>2, <1>4 DEF ComposerInv

\* With the replies as they are.
LEMMA AnswerAlone ==
  ASSUME ComposerAssumption, ComposerInv, NEW q \in posts, NEW ok \in BOOLEAN, Answer(q, ok),
         UNCHANGED <<replies, reads, sent, left>>,
         ok => RowsOf(q) # {} /\ Equivalent(q)
  PROVE  ComposerInv'
  <1>1. ok => \E r \in replies' : r.key = q.key /\ r.text = q.text
    BY DEF RowsOf, Equivalent
  <1>2. /\ replies' \subseteq Reply
        /\ \A r, s \in replies' : r.key = s.key => r = s
        /\ \A r \in replies' : r.key <= page.key
    BY DEF ComposerInv, ComposerTyped, Queued, KeysInTurn
  <1> QED
    BY <1>1, <1>2, AnswerKeeps

LEMMA LossKeeps ==
  ASSUME ComposerAssumption, ComposerInv, NEW q \in posts, LoseAnswer(q)
  PROVE  ComposerInv'
  <1>1. /\ q.heard /\ q \in Post /\ page \in Page
        /\ posts' = (posts \ {q}) \union {[q EXCEPT !.heard = FALSE]}
        /\ page' = [page EXCEPT !.sending = "no"]
        /\ UNCHANGED <<replies, reads, sent, confirmed, left>>
    BY DEF LoseAnswer, Refused, ComposerInv, ComposerTyped
  <1>2. page' \in Page /\ page'.key = page.key
    BY <1>1 DEF Page
  <1>3. [q EXCEPT !.heard = FALSE] \in Post /\ [q EXCEPT !.heard = FALSE].key = q.key
        /\ ~[q EXCEPT !.heard = FALSE].heard
    BY <1>1 DEF Post
  <1>4. /\ \A p \in posts' : ~p.heard
        /\ \A a \in reads : ~a.sender
    BY <1>1, <1>3 DEF ComposerInv, Listening, ComposerTyped, Post, ReadAnswer
  <1>5. ComposerTyped' /\ Listening'
    BY <1>1, <1>2, <1>3, <1>4 DEF ComposerInv, ComposerTyped, Listening
  <1>6. KeysInTurn' /\ Queued'
    BY <1>1, <1>2, <1>3 DEF ComposerInv, KeysInTurn, Queued, Confirmed
  <1>7. KeysLast'
    <2>1. page.key \in Nat /\ sent \in Nat
      BY <1>1, KeyBound DEF Page, ComposerInv, ComposerTyped
    <2> QED
      BY <1>1, <1>2, <1>4, <2>1 DEF ComposerInv, KeysLast
  <1> QED
    BY <1>5, <1>6, <1>7 DEF ComposerInv

LEMMA RequestKeeps ==
  ASSUME ComposerAssumption, ComposerInv, NEW q \in posts,
         FindExisting(q) \/ Insert(q) \/ Deadlocked(q) \/ ResolveWinner(q)
  PROVE  ComposerInv'
  <1>1. q \in Post /\ page \in Page
    BY DEF ComposerInv, ComposerTyped
  <1>2. ASSUME NEW step \in {"find", "insert", "winner"}, Goto(q, step),
               UNCHANGED <<page, replies, reads, sent, confirmed, left>>
        PROVE  ComposerInv'
    <2>1. [q EXCEPT !.step = step] \in Post /\ [q EXCEPT !.step = step].key = q.key
          /\ [q EXCEPT !.step = step].heard = q.heard
      BY <1>1 DEF Post
    <2> QED
      BY <1>2, <2>1, MoveKeeps DEF Goto
  <1>3. CASE FindExisting(q)
    <2>1. CASE RowsOf(q) # {}
      <3>1. Equivalent(q) \in BOOLEAN /\ Answer(q, Equivalent(q)) /\ UNCHANGED <<replies, reads, sent, left>>
        BY <1>3, <2>1 DEF FindExisting, Equivalent
      <3> QED
        BY <2>1, <3>1, AnswerAlone
    <2>2. CASE Answer(q, FALSE)
      BY <1>3, <2>2, AnswerAlone DEF FindExisting
    <2>3. CASE Goto(q, "insert") /\ UNCHANGED <<page, confirmed>>
      BY <1>2, <1>3, <2>3 DEF FindExisting
    <2> QED
      BY <1>3, <2>1, <2>2, <2>3 DEF FindExisting
  <1>4. CASE Insert(q)
    <2>1. CASE Insertable(q)
      <3>1. PICK new : /\ new = [key |-> q.key, text |-> q.text, open |-> TRUE]
                       /\ replies' = replies \union {new}
        BY <1>4, <2>1 DEF Insert
      <3>2. new \in Reply /\ new.key = q.key /\ new.text = q.text
        BY <1>1, <3>1 DEF Reply, Post
      <3>3. \A r \in replies : r.key # q.key
        BY <2>1 DEF Insertable, RowsOf
      <3>4. /\ replies' \subseteq Reply
            /\ \A r, s \in replies' : r.key = s.key => r = s
            /\ \A r \in replies' : r.key <= page.key
        BY <3>1, <3>2, <3>3 DEF ComposerInv, ComposerTyped, Queued, KeysInTurn
      <3>5. Answer(q, TRUE) /\ UNCHANGED <<reads, sent, left>>
        BY <1>4, <2>1 DEF Insert
      <3> QED
        BY <3>1, <3>2, <3>4, <3>5, AnswerKeeps
    <2>2. CASE ~Insertable(q)
      BY <1>2, <1>4, <2>2 DEF Insert
    <2> QED
      BY <2>1, <2>2
  <1>5. CASE Deadlocked(q)
    <2>1. CASE q.retried
      BY <1>5, <2>1, AnswerAlone DEF Deadlocked
    <2>2. CASE ~q.retried
      <3>1. [q EXCEPT !.step = "find", !.retried = TRUE] \in Post
            /\ [q EXCEPT !.step = "find", !.retried = TRUE].key = q.key
            /\ [q EXCEPT !.step = "find", !.retried = TRUE].heard = q.heard
        BY <1>1 DEF Post
      <3> QED
        BY <1>5, <2>2, <3>1, MoveKeeps DEF Deadlocked
    <2> QED
      BY <2>1, <2>2
  <1>6. CASE ResolveWinner(q)
    <2>1. /\ Answer(q, RowsOf(q) # {} /\ Equivalent(q)) /\ (RowsOf(q) # {} /\ Equivalent(q)) \in BOOLEAN
          /\ UNCHANGED <<replies, reads, sent, left>>
      BY <1>6 DEF ResolveWinner
    <2> QED
      BY <2>1, AnswerAlone
  <1> QED
    BY <1>3, <1>4, <1>5, <1>6

LEMMA DeliveryKeeps ==
  ASSUME ComposerInv, NEW r \in replies, Deliver(r)
  PROVE  ComposerInv'
  <1>1. PICK new : /\ new = [r EXCEPT !.open = FALSE]
                   /\ replies' = (replies \ {r}) \union {new}
                   /\ UNCHANGED <<page, posts, reads, sent, confirmed, left>>
    BY DEF Deliver
  <1>2. new \in Reply /\ new.key = r.key /\ new.text = r.text
    BY <1>1 DEF ComposerInv, ComposerTyped, Reply
  <1>3. ComposerTyped' /\ Listening' /\ KeysInTurn' /\ KeysLast'
    BY <1>1, <1>2 DEF ComposerInv, ComposerTyped, Listening, KeysInTurn, KeysLast, Confirmed
  <1>4. ASSUME NEW x \in replies', NEW y \in replies', x.key = y.key
        PROVE  x = y
    <2>1. \A z \in replies : z.key = r.key => z = r
      BY DEF ComposerInv, Queued
    <2>2. (x = new \/ x \in replies \ {r}) /\ (y = new \/ y \in replies \ {r})
      BY <1>1
    <2>3. CASE x = new
      BY <1>2, <1>4, <2>1, <2>2, <2>3
    <2>4. CASE y = new
      BY <1>2, <1>4, <2>1, <2>2, <2>4
    <2>5. CASE x \in replies /\ y \in replies
      BY <1>4, <2>5 DEF ComposerInv, Queued
    <2> QED
      BY <2>2, <2>3, <2>4, <2>5
  <1>5. ASSUME NEW a \in confirmed
        PROVE  \E y \in replies' : y.key = a.key /\ y.text = a.text
    <2>1. PICK x \in replies : x.key = a.key /\ x.text = a.text
      BY DEF ComposerInv, Queued
    <2>2. CASE x = r
      BY <1>1, <1>2, <2>1, <2>2
    <2>3. CASE x # r
      BY <1>1, <2>1, <2>3
    <2> QED
      BY <2>2, <2>3
  <1>6. Queued'
    BY <1>1, <1>4, <1>5 DEF Queued
  <1> QED
    BY <1>3, <1>6 DEF ComposerInv

LEMMA ComposerStep ==
  ASSUME ComposerAssumption, ComposerInv, [ComposerNext]_composerVars
  PROVE  ComposerInv'
  <1>1. CASE UNCHANGED composerVars
    BY <1>1 DEF composerVars, ComposerInv, ComposerTyped, Listening, KeysInTurn, Queued, KeysLast, Confirmed
  <1>2. CASE Write \/ SendReply \/ Remount \/ GenerateDraft \/ DraftArrives \/ ReadAfterSend \/ Poll
    BY <1>2, WritingKeeps, SendKeeps, RemountKeeps, ReadingKeeps
  <1>3. ASSUME NEW q \in posts,
               FindExisting(q) \/ Insert(q) \/ Deadlocked(q) \/ ResolveWinner(q) \/ LoseAnswer(q)
        PROVE  ComposerInv'
    BY <1>3, RequestKeeps, LossKeeps
  <1>4. CASE \E a \in reads : ShowRead(a) \/ LoseRead(a)
    BY <1>4, ReadingKeeps
  <1>5. ASSUME NEW r \in replies, Deliver(r)
        PROVE  ComposerInv'
    BY <1>5, DeliveryKeeps
  <1> QED
    BY <1>1, <1>2, <1>3, <1>4, <1>5, Zenon DEF ComposerNext

LEMMA RepliesMatch ==
  ASSUME ComposerAssumption, ComposerInv
  PROVE  OneReplyEach
  <1>1. ASSUME NEW a \in confirmed
        PROVE  /\ Cardinality({r \in replies : r.key = a.key}) = 1
               /\ \A r \in replies : r.key = a.key => r.text = a.text
    <2>1. PICK x \in replies : x.key = a.key /\ x.text = a.text
      BY DEF ComposerInv, Queued
    <2>2. {r \in replies : r.key = a.key} = {x}
      BY <2>1 DEF ComposerInv, Queued
    <2>3. Cardinality({x}) = 1
      BY FS_Singleton
    <2> QED
      BY <2>1, <2>2, <2>3 DEF ComposerInv, Queued
  <1>2. ASSUME NEW r \in replies, NEW s \in replies, r.key < s.key
        PROVE  r.key \in left \union {a.key : a \in confirmed}
    <2>1. r.key \in Nat /\ 1 <= r.key /\ s.key \in Nat /\ s.key <= page.key /\ page.key \in Nat
      BY KeyBound DEF ComposerInv, ComposerTyped, KeysInTurn, Reply, Page
    <2>2. r.key \in 1..(page.key - 1)
      BY <1>2, <2>1
    <2> QED
      BY <2>2 DEF ComposerInv, KeysInTurn, Confirmed
  <1> QED
    BY <1>1, <1>2 DEF OneReplyEach, AcknowledgedOnce, NeverRepeated

\* A composition becomes one queued reply, as acknowledged.
THEOREM ComposedOnce ==
  ASSUME ComposerAssumption
  PROVE  ComposerSpec => []OneReplyEach
  <1>1. ComposerInit => ComposerInv
    BY ComposerStart
  <1>2. ComposerInv /\ [ComposerNext]_composerVars => ComposerInv'
    BY ComposerStep
  <1>3. ComposerInv => OneReplyEach
    BY RepliesMatch
  <1> QED
    BY <1>1, <1>2, <1>3, PTL DEF ComposerSpec
=============================================================================
