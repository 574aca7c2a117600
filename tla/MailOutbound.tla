---------------------------- MODULE MailOutbound ----------------------------
(***************************************************************************)
(* The outbound mail worker: processBatch and processOne of                *)
(* MailOutboundService, one action per database access, by several         *)
(* concurrent workers, over the rows of communication_outbox.              *)
(*                                                                         *)
(* A claim writes lastAttemptAt; the value read back from the row is the   *)
(* lease token that every later write of the worker is conditional on.     *)
(* Staff and administrators change recipients, holds, eligibility, mailbox *)
(* routing and enablement at any moment; a worker may die at any moment.   *)
(***************************************************************************)
EXTENDS Integers, FiniteSets

CONSTANTS
    Rows,             \* outbox ids, numbered in (scheduledAt, id) order, all due
    Cases,            \* renewal cases
    CaseOf,           \* row -> its case (and so its customer)
    InternalRows,     \* rows with audience INTERNAL
    Workers,          \* concurrent processBatch calls
    Recipients,       \* e-mail addresses
    Mailboxes,        \* mail configurations
    None,             \* absence of a recipient, a thread, a message, a row
    Lease,            \* STALE_PROCESSING_LEASE_MS, in ticks
    MaxSendAttempts,  \* MAX_SEND_ATTEMPTS
    BatchSize,        \* BATCH_SIZE
    MaxTime,          \* bound on the clock
    MaxChanges,       \* bound on what staff and administrators change
    PromptClaim       \* TRUE: claim() takes less than a lease, from its clock
                      \* reading to its read-back

ASSUME ConstantsAssumption ==
    /\ Rows \subseteq Nat
    /\ CaseOf \in [Rows -> Cases]
    /\ InternalRows \subseteq Rows
    /\ None \notin Recipients \union Mailboxes \union Rows
    /\ Lease \in Nat /\ Lease > 0
    /\ MaxSendAttempts \in Nat /\ MaxSendAttempts > 0
    /\ BatchSize \in Nat /\ BatchSize > 0
    /\ MaxTime \in Nat
    /\ MaxChanges \in Nat
    /\ PromptClaim \in BOOLEAN

VARIABLES
    outbox,    \* row -> its columns in communication_outbox
    threads,   \* case -> mailbox its thread is pinned to, or None
    job,       \* worker -> where it is in processOne, and its local values
    batch,     \* worker -> candidates it has still to process
    clock,     \* the time every ClockService.now() reads
    desk,      \* what staff and administrators control, and the changes left
    handed,    \* history: messages handed to the transport
    acked,     \* history: rows SMTP acknowledged at least once
    reclaims   \* history: row -> claims that took over a stale PROCESSING row

vars == <<outbox, threads, job, batch, clock, desk, handed, acked, reclaims>>
dbVars == <<outbox, threads>>
history == <<handed, acked, reclaims>>

-----------------------------------------------------------------------------
(* State                                                                   *)

Time == 0..MaxTime
Terminal == {"DELIVERED", "FAILED", "CANCELLED"}
Status == {"QUEUED", "PROCESSING"} \union Terminal
Audience == {"CUSTOMER", "INTERNAL"}
AudienceOf(r) == IF r \in InternalRows THEN "INTERNAL" ELSE "CUSTOMER"

(* generateStableMessageId is random: one value per materialization, which *)
(* the worker and the lease it held identify.                              *)
MessageId == Workers \X Time

(* EmailMessage.toAddressesJson, mailConfigurationId, externalMessageId.   *)
EmailMessage == [to : Recipients, via : Mailboxes, mid : MessageId]

OutboxRow ==
    [status : Status, attempts : Nat, lastAttemptAt : Time,
     recipient : Recipients, message : EmailMessage \union {None}]

(* What loadContext() returns of the row, its case and its customer.       *)
Snapshot ==
    [attempts : Nat, recipient : Recipients, linked : BOOLEAN,
     open : BOOLEAN, holds : SUBSET Audience]

Step == {"idle", "claim", "readBack", "load", "evaluate", "rebind",
         "materialize", "mark", "send", "record", "defer", "cancel"}

(* `fresh` is TRUE from the second loadContext() on; `to`, `via` and `mid` *)
(* are currentRecipient, mailConfiguration and messageIdHeader.            *)
Job ==
    [step : Step, row : Rows \union {None}, now : Time, token : Time,
     fresh : BOOLEAN, snap : Snapshot \union {None},
     to : Recipients \union {None}, via : Mailboxes \union {None},
     mid : MessageId \union {None},
     outcome : {"none", "accepted", "transient", "permanent"}]

Idle ==
    [step |-> "idle", row |-> None, now |-> 0, token |-> 0, fresh |-> FALSE,
     snap |-> None, to |-> None, via |-> None, mid |-> None, outcome |-> "none"]

(* primary: CustomerEmailResolutionService's answer; open: customer and    *)
(* subscription ACTIVE, case reminder-eligible; holds: audiences stopped   *)
(* by an effective hold; route: mailbox resolveForOutbound picks; usable:  *)
(* mailboxes that pass the enablement, environment and cutover guards.     *)
Desk ==
    [primary : [Cases -> Recipients \union {None}], open : [Cases -> BOOLEAN],
     holds : [Cases -> SUBSET Audience], route : [Cases -> Mailboxes],
     usable : SUBSET Mailboxes, changes : 0..MaxChanges]

\* Bookkeeping of the model: the absence value is not one of the records.
ASSUME NoneAssumption == None \notin EmailMessage

Transmission == [row : Rows, to : Recipients, via : Mailboxes, mid : MessageId]

TypeOK ==
    /\ outbox \in [Rows -> OutboxRow]
    /\ threads \in [Cases -> Mailboxes \union {None}]
    /\ job \in [Workers -> Job]
    /\ batch \in [Workers -> SUBSET Rows]
    /\ clock \in Time
    /\ desk \in Desk
    /\ handed \in SUBSET Transmission
    /\ acked \in SUBSET Rows
    /\ reclaims \in [Rows -> Nat]

(* Rows as queueOutbox inserts them, addressed to the customer's primary   *)
(* contact of that moment; no thread yet, every mailbox usable.            *)
Init ==
    /\ desk \in Desk
    /\ desk.primary \in [Cases -> Recipients]
    /\ desk.open = [c \in Cases |-> TRUE]
    /\ desk.holds = [c \in Cases |-> {}]
    /\ desk.usable = Mailboxes
    /\ desk.changes = 0
    /\ outbox = [r \in Rows |->
                   [status |-> "QUEUED", attempts |-> 0, lastAttemptAt |-> 0,
                    recipient |-> desk.primary[CaseOf[r]], message |-> None]]
    /\ threads = [c \in Cases |-> None]
    /\ job = [w \in Workers |-> Idle]
    /\ batch = [w \in Workers |-> {}]
    /\ clock = 0
    /\ handed = {}
    /\ acked = {}
    /\ reclaims = [r \in Rows |-> 0]

-----------------------------------------------------------------------------
(* The batch and the claim                                                 *)

Become(w, j) == job' = [job EXCEPT ![w] = j]

Stale(r, now) ==
    /\ outbox[r].status = "PROCESSING"
    /\ outbox[r].lastAttemptAt < now - Lease

\* Faulty: a PROCESSING row may be taken at once, or never.
ClaimableAtOnce(r, now) == outbox[r].status \in {"QUEUED", "PROCESSING"}
ClaimableOnce(r, now) == outbox[r].status = "QUEUED"

Claimable(r, now) == outbox[r].status = "QUEUED" \/ Stale(r, now)

Candidates == {r \in Rows : Claimable(r, clock)}

(* The oldest BatchSize candidates.                                        *)
Oldest == {r \in Candidates : Cardinality({q \in Candidates : q < r}) < BatchSize}

StartBatch(w) ==
    /\ job[w].step = "idle" /\ batch[w] = {}
    /\ Candidates # {}
    /\ batch' = [batch EXCEPT ![w] = Oldest]
    /\ UNCHANGED <<dbVars, job, clock, desk, history>>

(* processOne starts with its own clock reading.                           *)
Begin(w) ==
    /\ job[w].step = "idle"
    /\ \E r \in batch[w] :
        /\ \A q \in batch[w] : r <= q
        /\ batch' = [batch EXCEPT ![w] = @ \ {r}]
        /\ Become(w, [job[w] EXCEPT !.step = "claim", !.row = r, !.now = clock])
    /\ UNCHANGED <<dbVars, clock, desk, history>>

(* claim(): the conditional update...                                      *)
Claim(w) ==
    LET r == job[w].row
        now == job[w].now
    IN  /\ job[w].step = "claim"
        /\ IF Claimable(r, now)
           THEN /\ outbox' = [outbox EXCEPT ![r].status = "PROCESSING",
                                            ![r].lastAttemptAt = now]
                /\ reclaims' = IF Stale(r, now)
                               THEN [reclaims EXCEPT ![r] = @ + 1] ELSE reclaims
                /\ Become(w, [job[w] EXCEPT !.step = "readBack"])
           ELSE /\ Become(w, Idle)
                /\ UNCHANGED <<outbox, reclaims>>
        /\ UNCHANGED <<threads, batch, clock, desk, handed, acked>>

(* ...and the read of the token, a second statement.                       *)
ReadBack(w) ==
    /\ job[w].step = "readBack"
    /\ Become(w, [job[w] EXCEPT !.step = "load", !.now = 0,
                                !.token = outbox[job[w].row].lastAttemptAt])
    /\ UNCHANGED <<dbVars, batch, clock, desk, history>>

\* Faulty: the write is conditional on the id alone, or on the status too.
OwnsById(w) == TRUE
OwnsByStatus(w) == outbox[job[w].row].status = "PROCESSING"

(* The condition of every write after the claim.                           *)
Owns(w) ==
    /\ outbox[job[w].row].status = "PROCESSING"
    /\ outbox[job[w].row].lastAttemptAt = job[w].token

-----------------------------------------------------------------------------
(* Revalidation, twice: before the message is materialized and before the  *)
(* attempt                                                                 *)

Load(w) ==
    LET r == job[w].row
        c == CaseOf[r]
    IN  /\ job[w].step = "load"
        /\ Become(w, [job[w] EXCEPT
                        !.step = "evaluate",
                        !.snap = [attempts |-> outbox[r].attempts,
                                  recipient |-> outbox[r].recipient,
                                  linked |-> outbox[r].message # None,
                                  open |-> desk.open[c],
                                  holds |-> desk.holds[c]]])
        /\ UNCHANGED <<dbVars, batch, clock, desk, history>>

\* Faulty: routing decides for every message.
MailboxByRoute(c) == desk.route[c]

(* A case's thread pins the mailbox; routing decides only without one.     *)
MailboxFor(c) == IF threads[c] # None THEN threads[c] ELSE desk.route[c]

(* The row's recipient against the customer's present one: an attempted    *)
(* row is never redirected.                                                *)
RecipientVerdict(w) ==
    LET current == desk.primary[CaseOf[job[w].row]]
    IN  IF current = job[w].snap.recipient THEN "eligible"
        ELSE IF job[w].snap.attempts > 0 THEN "cancel"
        ELSE IF current = None THEN "defer" ELSE "rebind"

(* evaluateEligibility(): the verdict, in the order of its returns.        *)
Verdict(w) ==
    LET r == job[w].row
        c == CaseOf[r]
        snap == job[w].snap
    IN  IF MailboxFor(c) \notin desk.usable THEN "defer"
        ELSE IF r \in InternalRows
             THEN IF "INTERNAL" \in snap.holds THEN "defer" ELSE "eligible"
        ELSE IF ~snap.open THEN "cancel"
        ELSE IF "CUSTOMER" \in snap.holds THEN "defer"
        ELSE RecipientVerdict(w)

(* The mailbox of the first evaluation is the one materialized and used;   *)
(* currentRecipient follows a rebind only.                                 *)
Evaluate(w) ==
    LET r == job[w].row
        c == CaseOf[r]
        verdict == Verdict(w)
        to == IF verdict = "rebind" THEN desk.primary[c]
              ELSE IF job[w].fresh THEN job[w].to ELSE job[w].snap.recipient
    IN  /\ job[w].step = "evaluate"
        /\ IF verdict \in {"defer", "cancel"}
           THEN Become(w, [job[w] EXCEPT !.step = verdict, !.snap = None])
           ELSE Become(w, [job[w] EXCEPT
                             !.step = IF verdict = "rebind" THEN "rebind"
                                      ELSE IF job[w].fresh THEN "mark" ELSE "materialize",
                             !.to = to,
                             !.via = IF job[w].fresh THEN @ ELSE MailboxFor(c)])
        /\ UNCHANGED <<dbVars, batch, clock, desk, history>>

Defer(w) ==
    /\ job[w].step = "defer"
    /\ outbox' = IF Owns(w) THEN [outbox EXCEPT ![job[w].row].status = "QUEUED"]
                 ELSE outbox
    /\ Become(w, Idle)
    /\ UNCHANGED <<threads, batch, clock, desk, history>>

Cancel(w) ==
    /\ job[w].step = "cancel"
    /\ outbox' = IF Owns(w) THEN [outbox EXCEPT ![job[w].row].status = "CANCELLED"]
                 ELSE outbox
    /\ Become(w, Idle)
    /\ UNCHANGED <<threads, batch, clock, desk, history>>

ReboundMessage(w) ==
    IF job[w].snap.linked
    THEN [outbox[job[w].row].message EXCEPT !.to = job[w].to]
    ELSE outbox[job[w].row].message

(* The row and its EmailMessage, in one transaction, before any attempt.   *)
Rebind(w) ==
    LET r == job[w].row
    IN  /\ job[w].step = "rebind"
        /\ IF Owns(w) /\ outbox[r].attempts = 0
           THEN /\ outbox' = [outbox EXCEPT ![r].recipient = job[w].to,
                                            ![r].message = ReboundMessage(w)]
                /\ Become(w, [job[w] EXCEPT
                                !.step = IF job[w].fresh THEN "mark" ELSE "materialize"])
           ELSE /\ Become(w, Idle)
                /\ UNCHANGED outbox
        /\ UNCHANGED <<threads, batch, clock, desk, history>>

\* Faulty: the retry writes a Message-ID of its own.
FreshId(w) == <<w, job[w].token>>

KeptId(w) == outbox[job[w].row].message.mid

(* materialize(): a linked row keeps its Message-ID; otherwise the thread, *)
(* the EmailMessage and the link are one transaction, void without the     *)
(* lease.                                                                  *)
Materialize(w) ==
    LET r == job[w].row
        c == CaseOf[r]
        mid == <<w, job[w].token>>
        reload(id) == [job[w] EXCEPT !.step = "load", !.fresh = TRUE,
                                     !.mid = id, !.snap = None]
    IN  /\ job[w].step = "materialize"
        /\ IF job[w].snap.linked
           THEN /\ Become(w, reload(KeptId(w)))
                /\ UNCHANGED dbVars
           ELSE IF Owns(w)
           THEN /\ threads' = [threads EXCEPT ![c] = IF @ = None THEN job[w].via ELSE @]
                /\ outbox' = [outbox EXCEPT ![r].message =
                                [to |-> job[w].to, via |-> job[w].via, mid |-> mid]]
                /\ Become(w, reload(mid))
           ELSE /\ Become(w, Idle)
                /\ UNCHANGED dbVars
        /\ UNCHANGED <<batch, clock, desk, history>>

-----------------------------------------------------------------------------
(* The attempt                                                             *)

(* Counts the attempt; leaves lastAttemptAt, the token, alone.             *)
MarkAttempt(w) ==
    /\ job[w].step = "mark"
    /\ IF Owns(w)
       THEN /\ outbox' = [outbox EXCEPT ![job[w].row].attempts = @ + 1]
            /\ Become(w, [job[w] EXCEPT !.step = "send", !.snap = None])
       ELSE /\ Become(w, Idle)
            /\ UNCHANGED outbox
    /\ UNCHANGED <<threads, batch, clock, desk, history>>

(* transport.send(): whatever the reply, the message has left.             *)
Send(w) ==
    /\ job[w].step = "send"
    /\ handed' = handed \union {[row |-> job[w].row, to |-> job[w].to,
                                 via |-> job[w].via, mid |-> job[w].mid]}
    /\ \E reply \in {"accepted", "transient", "permanent"} :
        /\ Become(w, [job[w] EXCEPT !.step = "record", !.outcome = reply])
        /\ acked' = IF reply = "accepted" THEN acked \union {job[w].row} ELSE acked
    /\ UNCHANGED <<dbVars, batch, clock, desk, reclaims>>

\* Faulty: one attempt too many; every reply but a refusal counts as success.
ExhaustedLate(r) == outbox[r].attempts > MaxSendAttempts
OptimisticStatus(w) == IF job[w].outcome = "permanent" THEN "FAILED" ELSE "DELIVERED"

Exhausted(r) == outbox[r].attempts >= MaxSendAttempts

StatusAfter(w) ==
    IF job[w].outcome = "accepted" THEN "DELIVERED"
    ELSE IF job[w].outcome = "permanent" \/ Exhausted(job[w].row) THEN "FAILED"
    ELSE "QUEUED"

(* recordSuccess() or recordFailure(). Without the lease only an audit     *)
(* event is written. The attempts read before the conditional write cannot *)
(* change while that write can still succeed.                              *)
Record(w) ==
    /\ job[w].step = "record"
    /\ outbox' = IF Owns(w) THEN [outbox EXCEPT ![job[w].row].status = StatusAfter(w)]
                 ELSE outbox
    /\ Become(w, Idle)
    /\ UNCHANGED <<threads, batch, clock, desk, history>>

Work(w) ==
    \/ StartBatch(w) \/ Begin(w) \/ Claim(w) \/ ReadBack(w)
    \/ Load(w) \/ Evaluate(w) \/ Defer(w) \/ Cancel(w) \/ Rebind(w)
    \/ Materialize(w) \/ MarkAttempt(w) \/ Send(w) \/ Record(w)

-----------------------------------------------------------------------------
(* The environment                                                         *)

(* The process dies, or a database error aborts processBatch: the row      *)
(* stays as it is. Bound: only while the clock can still outlive the lease *)
(* that is left behind.                                                    *)
Crash(w) ==
    /\ job[w].step # "idle"
    /\ clock + Lease < MaxTime
    /\ Become(w, Idle)
    /\ batch' = [batch EXCEPT ![w] = {}]
    /\ UNCHANGED <<dbVars, clock, desk, history>>

Claiming(w) == job[w].step \in {"claim", "readBack"}

Tick ==
    /\ clock < MaxTime
    /\ PromptClaim => \A w \in Workers : Claiming(w) => clock < job[w].now + Lease
    /\ clock' = clock + 1
    /\ UNCHANGED <<dbVars, job, batch, desk, history>>

Change ==
    /\ desk.changes < MaxChanges
    /\ UNCHANGED <<dbVars, job, batch, clock, history>>

ChangePrimary(c) ==
    /\ Change
    /\ \E p \in (Recipients \union {None}) \ {desk.primary[c]} :
         desk' = [desk EXCEPT !.changes = @ + 1, !.primary[c] = p]

(* A decision closes the case, or the customer is (de)activated.           *)
ToggleOpen(c) ==
    /\ Change
    /\ desk' = [desk EXCEPT !.changes = @ + 1, !.open[c] = ~@]

(* A hold is created, released or expires.                                 *)
ToggleHold(c) ==
    /\ Change
    /\ \E a \in Audience :
         desk' = [desk EXCEPT !.changes = @ + 1,
                              !.holds[c] = IF a \in @ THEN @ \ {a} ELSE @ \union {a}]

(* An override is added or removed for the case's billing entity.          *)
Reroute(c) ==
    /\ Change
    /\ \E m \in Mailboxes \ {desk.route[c]} :
         desk' = [desk EXCEPT !.changes = @ + 1, !.route[c] = m]

ToggleMailbox(m) ==
    /\ Change
    /\ desk' = [desk EXCEPT !.changes = @ + 1,
                            !.usable = IF m \in @ THEN @ \ {m} ELSE @ \union {m}]

Desktop ==
    \/ \E c \in Cases :
         ChangePrimary(c) \/ ToggleOpen(c) \/ ToggleHold(c) \/ Reroute(c)
    \/ \E m \in Mailboxes : ToggleMailbox(m)

Next ==
    \/ \E w \in Workers : Work(w) \/ Crash(w)
    \/ Tick
    \/ Desktop

Spec == Init /\ [][Next]_vars

(* BullMQ repeats the send job every minute, so a worker with something to *)
(* do does it; time passes. Crashes and staff owe nothing.                 *)
Fairness == WF_vars(Tick) /\ \A w \in Workers : WF_vars(Work(w))

FairSpec == Spec /\ Fairness

-----------------------------------------------------------------------------
(* Properties                                                              *)

\* w holds the lease the row records: each of its writes would take effect.
HoldsLease(w) ==
    job[w].step \notin {"idle", "claim", "readBack"} /\ Owns(w)

\* LEASE OWNERSHIP: two workers are never both able to write the same row;
\* whoever was superseded by a stale reclaim finds its token refused.
SoleOwner ==
    \A v, w \in Workers :
        (HoldsLease(v) /\ HoldsLease(w) /\ job[v].row = job[w].row) => v = w

\* IDENTITY BOUNDARY: every transmission for a row, by any worker, before or
\* after a crash or a change of the customer's address, has the recipient and
\* the Message-ID of the first one.
IdentityPinned ==
    \A g, h \in handed : g.row = h.row => (g.to = h.to /\ g.mid = h.mid)

\* The outbox row and its materialized EmailMessage name the same recipient.
RecipientsAgree ==
    \A r \in Rows :
        outbox[r].message # None => outbox[r].message.to = outbox[r].recipient

\* Retries are bounded: each attempt beyond MAX_SEND_ATTEMPTS is paid for by
\* a reclaim of a row whose last outcome nobody recorded.
AttemptsBounded ==
    \A r \in Rows : outbox[r].attempts <= MaxSendAttempts + reclaims[r]

\* A row that was delivered, failed or cancelled never changes again.
FinalRowsStay ==
    [][\A r \in Rows : outbox[r].status \in Terminal => outbox'[r] = outbox[r]]_vars

\* Mailbox pinning: every message of a renewal case leaves through the mailbox
\* its thread is pinned to.
CaseMailboxPinned ==
    \A h \in handed : h.via = threads[CaseOf[h.row]]

\* w holds the lease and has picked a mailbox for a message that is not yet
\* materialized.
Choosing(w) ==
    /\ job[w].step \in {"rebind", "materialize"} /\ ~job[w].fresh
    /\ HoldsLease(w)

\* Two workers are about to materialize messages of one case, and the routing
\* changed between their choices: what it takes to break the pinning.
Contested ==
    \E v, w \in Workers :
        /\ Choosing(v) /\ Choosing(w)
        /\ CaseOf[job[v].row] = CaseOf[job[w].row] /\ job[v].via # job[w].via

Addressed(r) == {<<h.to, h.mid>> : h \in {g \in handed : g.row = r}}

Delivery == INSTANCE OutboxDelivery WITH
    Messages <- Recipients \X MessageId,
    phase <- [r \in Rows |-> IF outbox[r].status \in Terminal
                             THEN outbox[r].status ELSE "open"],
    copies <- [r \in Rows |-> Addressed(r)]

\* The worker protocol delivers what OutboxDelivery promises: at-least-once
\* transmission of one message, and one resolution that its history justifies.
ImplementsDelivery == Delivery!AbsSpec

\* Nothing on the desk makes evaluateEligibility defer the row.
Unblocked(r) ==
    LET c == CaseOf[r]
    IN  /\ MailboxFor(c) \in desk.usable
        /\ AudienceOf(r) \notin desk.holds[c]
        /\ desk.primary[c] # None

\* A reminder that stops being blocked is eventually resolved, whatever
\* crashes, lost leases and SMTP failures it meets on the way.
EventuallyResolved ==
    \A r \in Rows : <>[]Unblocked(r) => <>(outbox[r].status \in Terminal)

-----------------------------------------------------------------------------
(* Inductive invariants                                                    *)

\* w has written a token (`now`, until it has read it back) into its row.
Holding(w) == job[w].step \notin {"idle", "claim"}
Token(w) == IF job[w].step = "readBack" THEN job[w].now ELSE job[w].token
Current(w) == Token(w) = outbox[job[w].row].lastAttemptAt

\* Why one token has one holder: a token the row no longer carries is older
\* than a lease, and a prompt claim never writes a time that old.
LeaseInv ==
    /\ \A w \in Workers : Claiming(w) => job[w].now <= clock /\ clock <= job[w].now + Lease
    /\ \A w \in Workers : job[w].step = "readBack" => Current(w)
    /\ \A w \in Workers : Holding(w) =>
         IF Current(w) THEN outbox[job[w].row].status = "PROCESSING"
         ELSE Token(w) + Lease < clock
    /\ \A v, w \in Workers :
         (v # w /\ Holding(v) /\ Holding(w) /\ job[v].row = job[w].row) => Token(v) # Token(w)

\* An attempted row keeps its message; whoever transmits, or transmitted, used it.
MessageInv ==
    /\ \A r \in Rows : outbox[r].attempts > 0 => outbox[r].message # None
    /\ \A h \in handed :
         LET row == outbox[h.row]
         IN  row.attempts > 0 /\ h.to = row.message.to /\ h.mid = row.message.mid
    /\ \A w \in Workers : job[w].step \in {"send", "record"} =>
         LET row == outbox[job[w].row]
         IN  row.attempts > 0 /\ job[w].to = row.message.to /\ job[w].mid = row.message.mid

\* The lease holder's local values agree with its row.
WorkInv ==
    \A w \in Workers : HoldsLease(w) =>
        LET j == job[w]
            row == outbox[j.row]
        IN  /\ j.step \in {"evaluate", "rebind", "materialize"} =>
                 j.snap.attempts = row.attempts /\ j.snap.linked = (row.message # None)
            /\ j.step = "evaluate" => j.snap.recipient = row.recipient
            /\ j.step = "materialize" => j.to = row.recipient
            /\ j.fresh => j.mid = row.message.mid
            /\ (j.fresh /\ j.step \in {"load", "evaluate", "mark"}) => j.to = row.recipient

\* What is left of the retry bound before the next attempt.
AttemptsInv ==
    /\ AttemptsBounded
    /\ \A r \in Rows : outbox[r].status = "QUEUED" =>
         outbox[r].attempts < MaxSendAttempts + reclaims[r]
    /\ \A w \in Workers : (Holding(w) /\ Current(w) /\ job[w].step \notin {"send", "record"}) =>
         outbox[job[w].row].attempts < MaxSendAttempts + reclaims[job[w].row]
=============================================================================
