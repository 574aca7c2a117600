--------------------------- MODULE ReplyOutbound ---------------------------
(***************************************************************************)
(* The operator-reply worker: processBatch and processOne of               *)
(* OperatorReplyOutboundService over operator_reply_outbox, by concurrent  *)
(* workers. The message exists before the row does, so a worker never      *)
(* creates one; a row that failed or was deferred carries the time of its  *)
(* next attempt. There are no holds and no eligibility of the renewal      *)
(* case: a reply waits for its pinned mailbox and for a recipient only.    *)
(***************************************************************************)
EXTENDS Integers, FiniteSets

CONSTANTS
    Replies,          \* operator_reply_outbox ids, numbered in queuedAt order
    Senders,          \* concurrent processBatch calls
    Addresses,        \* e-mail addresses
    Nobody,           \* no customer, or no primary contact of the customer
    ReplyLease,       \* STALE_PROCESSING_LEASE_MS, in ticks
    Backoff,          \* SMTP_RETRY_BACKOFF_MS: failed attempts so far -> ticks
    DeferDelay,       \* DEFER_RETRY_DELAY_MS, in ticks
    MaxTries,         \* MAX_SEND_ATTEMPTS
    ReplyBatch,       \* OPERATOR_REPLY_BATCH_SIZE
    Horizon,          \* bound on the clock
    MaxTurns          \* bound on what administrators and staff change

ASSUME ReplyAssumption ==
    /\ Replies \subseteq Nat
    /\ Nobody \notin Addresses
    /\ MaxTries \in Nat \ {0} /\ ReplyLease \in Nat /\ DeferDelay \in Nat \ {0}
    /\ Backoff \in [1..MaxTries -> Nat \ {0}]
    /\ ReplyBatch \in Nat \ {0} /\ Horizon \in Nat /\ MaxTurns \in Nat

VARIABLES
    reply,       \* id -> its columns in operator_reply_outbox
    header,      \* id -> EmailMessage.toAddressesJson
    sender,      \* worker -> where it is in processOne, and its local values
    queue,       \* worker -> candidates it has still to process
    time,        \* what every ClockService.now() reads
    office,      \* the pinned mailbox, the customer's contact, the changes left
    mailed,      \* history: what was handed to the transport, by which claim
    receipts,    \* history: rows SMTP acknowledged at least once
    takeovers    \* history: id -> claims that took over a stale PROCESSING row

replyVars == <<reply, header, sender, queue, time, office, mailed, receipts, takeovers>>
past == <<mailed, receipts, takeovers>>

-----------------------------------------------------------------------------
(* State                                                                   *)

Ended == {"DELIVERED", "FAILED", "CANCELLED"}

(* `due` is nextAttemptAt; 0 stands for NULL: either one is due at once.    *)
ReplyRow ==
    [status : {"QUEUED", "PROCESSING"} \union Ended, attempts : Nat,
     lastAttemptAt : Nat, due : Nat, recipient : Addresses]

Stage == {"idle", "claim", "load", "mailbox", "recipient", "rebind", "mark",
          "send", "record", "defer", "cancel"}

Sender ==
    [stage : Stage, row : Replies \union {0}, token : Nat, tries : Nat,
     over : Nat, seen : Addresses \union {Nobody}, to : Addresses \union {Nobody},
     outcome : {"none", "accepted", "transient", "permanent"}]

Resting ==
    [stage |-> "idle", row |-> 0, token |-> 0, tries |-> 0, over |-> 0,
     seen |-> Nobody, to |-> Nobody, outcome |-> "none"]

Office == [usable : BOOLEAN, contact : Addresses \union {Nobody}, turns : 0..MaxTurns]

ReplyTypeOK ==
    /\ reply \in [Replies -> ReplyRow]
    /\ header \in [Replies -> Addresses]
    /\ sender \in [Senders -> Sender]
    /\ queue \in [Senders -> SUBSET Replies]
    /\ time \in 0..Horizon
    /\ office \in Office
    /\ \A m \in mailed : m.row \in Replies /\ m.to \in Addresses
    /\ receipts \subseteq Replies
    /\ takeovers \in [Replies -> Nat]

(* Rows as queueReply inserts them, addressed to the contact of that       *)
(* moment; the mailbox passed resolvePinned.                               *)
ReplyInit ==
    /\ \E a \in Addresses :
         /\ office = [usable |-> TRUE, contact |-> a, turns |-> 0]
         /\ header = [r \in Replies |-> a]
         /\ reply = [r \in Replies |-> [status |-> "QUEUED", attempts |-> 0,
                                        lastAttemptAt |-> 0, due |-> 0, recipient |-> a]]
    /\ sender = [w \in Senders |-> Resting]
    /\ queue = [w \in Senders |-> {}]
    /\ time = 0
    /\ mailed = {}
    /\ receipts = {}
    /\ takeovers = [r \in Replies |-> 0]

-----------------------------------------------------------------------------
(* The batch and the claim                                                 *)

Turn(w, j) == sender' = [sender EXCEPT ![w] = j]

Abandoned(r, now) ==
    reply[r].status = "PROCESSING" /\ reply[r].lastAttemptAt < now - ReplyLease

ClaimableReply(r, now) ==
    \/ reply[r].status = "QUEUED" /\ reply[r].due <= now
    \/ Abandoned(r, now)

Due == {r \in Replies : (reply[r].status = "QUEUED" /\ reply[r].due <= time)
                        \/ Abandoned(r, time)}

(* The first OPERATOR_REPLY_BATCH_SIZE candidates, oldest first.           *)
TakeBatch(w) ==
    /\ sender[w].stage = "idle" /\ queue[w] = {}
    /\ Due # {}
    /\ queue' = [queue EXCEPT ![w] =
                   {r \in Due : Cardinality({q \in Due : q < r}) < ReplyBatch}]
    /\ UNCHANGED <<reply, header, sender, time, office, past>>

(* processOne reads the clock once, before the claim.                      *)
Open(w) ==
    /\ sender[w].stage = "idle"
    /\ \E r \in queue[w] :
         /\ \A q \in queue[w] : r <= q
         /\ queue' = [queue EXCEPT ![w] = @ \ {r}]
         /\ Turn(w, [Resting EXCEPT !.stage = "claim", !.row = r, !.token = time])
    /\ UNCHANGED <<reply, header, time, office, past>>

(* The conditional update and the read-back of the token are one action    *)
(* here; MailOutbound separates them for the same statement pair.          *)
ClaimReply(w) ==
    LET r == sender[w].row
        now == sender[w].token
    IN  /\ sender[w].stage = "claim"
        /\ IF ClaimableReply(r, now)
           THEN /\ reply' = [reply EXCEPT ![r].status = "PROCESSING",
                                          ![r].lastAttemptAt = now]
                /\ takeovers' = IF Abandoned(r, now)
                                THEN [takeovers EXCEPT ![r] = @ + 1] ELSE takeovers
                /\ Turn(w, [sender[w] EXCEPT !.stage = "load", !.over = takeovers'[r]])
           ELSE /\ Turn(w, Resting)
                /\ UNCHANGED <<reply, takeovers>>
        /\ UNCHANGED <<header, queue, time, office, mailed, receipts>>

(* The condition of every later write.                                     *)
Leased(w) ==
    /\ reply[sender[w].row].status = "PROCESSING"
    /\ reply[sender[w].row].lastAttemptAt = sender[w].token

-----------------------------------------------------------------------------
(* Eligibility: three reads, each of its own moment                        *)

LoadReply(w) ==
    LET r == sender[w].row
    IN  /\ sender[w].stage = "load"
        /\ Turn(w, [sender[w] EXCEPT !.stage = "mailbox", !.tries = reply[r].attempts,
                                     !.seen = reply[r].recipient])
        /\ UNCHANGED <<reply, header, queue, time, office, past>>

CheckMailbox(w) ==
    /\ sender[w].stage = "mailbox"
    /\ Turn(w, [sender[w] EXCEPT !.stage = IF office.usable THEN "recipient" ELSE "defer"])
    /\ UNCHANGED <<reply, header, queue, time, office, past>>

(* Only a reply nobody has tried to send may wait or change its address.   *)
Judgement(tries, seen, contact) ==
    IF contact = Nobody THEN IF tries > 0 THEN "cancel" ELSE "defer"
    ELSE IF contact = seen THEN "mark"
    ELSE IF tries = 0 THEN "rebind" ELSE "cancel"

CheckRecipient(w) ==
    /\ sender[w].stage = "recipient"
    /\ Turn(w, [sender[w] EXCEPT
                  !.stage = Judgement(sender[w].tries, sender[w].seen, office.contact),
                  !.to = office.contact])
    /\ UNCHANGED <<reply, header, queue, time, office, past>>

Settle(w, status, due) ==
    /\ reply' = IF Leased(w)
                THEN [reply EXCEPT ![sender[w].row].status = status,
                                   ![sender[w].row].due = due]
                ELSE reply
    /\ Turn(w, Resting)
    /\ UNCHANGED <<header, queue, time, office, past>>

(* deferToQueued() counts from the token, not from the present.            *)
DeferReply(w) ==
    /\ sender[w].stage = "defer"
    /\ Settle(w, "QUEUED", sender[w].token + DeferDelay)

CancelReply(w) ==
    /\ sender[w].stage = "cancel"
    /\ Settle(w, "CANCELLED", reply[sender[w].row].due)

\* Faulty: the outbox row alone is rebound.
HeaderKept(w) == header

HeaderRebound(w) == [header EXCEPT ![sender[w].row] = sender[w].to]

(* The row and its message in one transaction, before any attempt.         *)
RebindReply(w) ==
    LET r == sender[w].row
    IN  /\ sender[w].stage = "rebind"
        /\ IF Leased(w) /\ reply[r].attempts = 0
           THEN /\ reply' = [reply EXCEPT ![r].recipient = sender[w].to]
                /\ header' = HeaderRebound(w)
                /\ Turn(w, [sender[w] EXCEPT !.stage = "mark"])
           ELSE /\ Turn(w, Resting)
                /\ UNCHANGED <<reply, header>>
        /\ UNCHANGED <<queue, time, office, past>>

-----------------------------------------------------------------------------
(* The attempt                                                             *)

MarkReply(w) ==
    LET r == sender[w].row
    IN  /\ sender[w].stage = "mark"
        /\ IF Leased(w)
           THEN /\ reply' = [reply EXCEPT ![r].attempts = @ + 1]
                /\ Turn(w, [sender[w] EXCEPT !.stage = "send"])
           ELSE Turn(w, Resting) /\ UNCHANGED reply
        /\ UNCHANGED <<header, queue, time, office, past>>

(* `over` (history) counts the takeovers up to this claim. The Message-ID   *)
(* is the message's, fixed when the reply was queued.                      *)
TransmitReply(w) ==
    LET r == sender[w].row
    IN  /\ sender[w].stage = "send"
        /\ mailed' = mailed \union {[row |-> r, to |-> sender[w].to, at |-> sender[w].token,
                                     try |-> sender[w].tries + 1, over |-> sender[w].over]}
        /\ \E o \in {"accepted", "transient", "permanent"} :
             /\ Turn(w, [sender[w] EXCEPT !.stage = "record", !.outcome = o])
             /\ receipts' = IF o = "accepted" THEN receipts \union {r} ELSE receipts
        /\ UNCHANGED <<reply, header, queue, time, office, takeovers>>

\* Faulty: every failure waits as long as a deferral does.
NextDueFlat(w) == sender[w].token + DeferDelay

(* The delay after the n-th failed attempt, from that attempt's token.     *)
NextDue(w) == sender[w].token + Backoff[reply[sender[w].row].attempts]

\* Faulty: only a permanent refusal is a failure.
ResolutionHopeful(w) == IF sender[w].outcome = "permanent" THEN "FAILED" ELSE "DELIVERED"

(* FAILED on a permanent refusal or at the bound, otherwise QUEUED again.  *)
Resolution(w) ==
    IF sender[w].outcome = "accepted" THEN "DELIVERED"
    ELSE IF sender[w].outcome = "permanent" \/ reply[sender[w].row].attempts >= MaxTries
    THEN "FAILED" ELSE "QUEUED"

(* recordSuccess() or recordFailure(), with its back-off.                  *)
RecordReply(w) ==
    /\ sender[w].stage = "record"
    /\ Settle(w, Resolution(w), IF Resolution(w) = "QUEUED" THEN NextDue(w) ELSE 0)

ReplyWork(w) ==
    \/ TakeBatch(w) \/ Open(w) \/ ClaimReply(w) \/ LoadReply(w)
    \/ CheckMailbox(w) \/ CheckRecipient(w) \/ DeferReply(w) \/ CancelReply(w)
    \/ RebindReply(w) \/ MarkReply(w) \/ TransmitReply(w) \/ RecordReply(w)

-----------------------------------------------------------------------------
(* The environment                                                         *)

(* The worker process dies, or a database error aborts its batch. Bound:   *)
(* only while the clock can still outlive the lease left behind.           *)
Die(w) ==
    /\ sender[w].stage # "idle"
    /\ time + ReplyLease < Horizon
    /\ Turn(w, Resting)
    /\ queue' = [queue EXCEPT ![w] = {}]
    /\ UNCHANGED <<reply, header, time, office, past>>

Pass ==
    /\ time < Horizon
    /\ time' = time + 1
    /\ UNCHANGED <<reply, header, sender, queue, office, past>>

(* The pinned mailbox is disabled or enabled; the customer's primary       *)
(* contact changes or goes; the thread is attributed or loses its customer.*)
Rearrange ==
    /\ office.turns < MaxTurns
    /\ \E u \in BOOLEAN, a \in Addresses \union {Nobody} :
         /\ (u = office.usable) # (a = office.contact)
         /\ office' = [usable |-> u, contact |-> a, turns |-> office.turns + 1]
    /\ UNCHANGED <<reply, header, sender, queue, time, past>>

ReplyNext ==
    \/ \E w \in Senders : ReplyWork(w) \/ Die(w)
    \/ Pass
    \/ Rearrange

ReplySpec == ReplyInit /\ [][ReplyNext]_replyVars

-----------------------------------------------------------------------------
(* Properties                                                              *)

Outbox == INSTANCE OutboxDelivery WITH
    Rows <- Replies,
    Messages <- Addresses,
    phase <- [r \in Replies |-> IF reply[r].status \in Ended THEN reply[r].status
                                ELSE "open"],
    copies <- [r \in Replies |-> {m.to : m \in {n \in mailed : n.row = r}}],
    acked <- receipts

\* The reply worker delivers what OutboxDelivery promises: one addressed
\* message, transmitted at least once before the row is DELIVERED, and one
\* resolution, whatever dies, stalls, or changes in the office meanwhile.
RepliesDelivered == Outbox!AbsSpec

\* BACK-OFF: however batches overlap and processes die, an attempt that
\* follows a recorded failure starts no earlier than the failure's back-off,
\* counted from the failed attempt's claim; only the takeover of an abandoned
\* row may come sooner.
Paced ==
    \A a, b \in mailed :
        (a.row = b.row /\ a.try < b.try /\ a.over = b.over)
            => b.at >= a.at + Backoff[a.try]

\* ADDRESS: what the thread shows as the reply's recipient is where every
\* transmission of it went, and an untransmitted row agrees with its message.
ShownAsSent ==
    /\ \A m \in mailed : header[m.row] = m.to
    /\ \A r \in Replies : header[r] = reply[r].recipient

\* LEASE: of the batches that work on a row, one at most passes the condition
\* of the writes that follow its claim; whoever stalled has lost it for good.
OneHolder ==
    \A v, w \in Senders :
        (/\ {sender[v].stage, sender[w].stage} \cap {"idle", "claim"} = {}
         /\ sender[v].row = sender[w].row
         /\ Leased(v) /\ Leased(w)) => v = w

\* RETRIES: each attempt, recorded or not, beyond MAX_SEND_ATTEMPTS is paid for
\* by the takeover of a row whose last outcome nobody recorded.
TriesBounded ==
    /\ \A r \in Replies : reply[r].attempts <= MaxTries + takeovers[r]
    /\ \A m \in mailed : m.try <= MaxTries + takeovers[m.row]
=============================================================================
