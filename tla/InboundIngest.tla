--------------------------- MODULE InboundIngest ---------------------------
(***************************************************************************)
(* MailInboundIngestService over one mailbox: a sync establishes the       *)
(* cursor (UIDVALIDITY, last UID) or fetches what lies beyond it, stores   *)
(* message by message and advances the cursor after each. Syncs overlap    *)
(* when BullMQ takes a running job for a stalled one; they may fail at any *)
(* step. The mailbox itself (deliveries, expunges, a new UIDVALIDITY) and  *)
(* the manual reset of a cursor are external. The two halves of the cursor *)
(* are only ever written together, so an INCONSISTENT one, which would end *)
(* a sync at once, is left out; what ingest does to the thread is Arrive   *)
(* in AiPipeline.                                                          *)
(***************************************************************************)
EXTENDS Integers, FiniteSets, FiniteSetsExt

CONSTANTS
    Syncs,          \* overlapping syncAll() executions
    BatchSize,      \* DEFAULT_IMAP_SYNC_BATCH_SIZE
    None,           \* a cursor that is not set
    MaxUid,         \* bound on the UIDs of one UIDVALIDITY
    MaxUidValidity, \* bound on UIDVALIDITY
    MaxChanges      \* bound on expunges, resets, switches and failures

ASSUME IngestAssumption ==
    /\ BatchSize \in Nat /\ BatchSize > 0
    /\ MaxUid \in Nat \ {0} /\ MaxUidValidity \in Nat \ {0} /\ MaxChanges \in Nat

VARIABLES
    mailbox,   \* the IMAP folder: its UIDVALIDITY, UIDNEXT and messages
    cursor,    \* lastSyncUidValidity and lastSyncUid
    stored,    \* inbound EmailMessage rows
    enabled,   \* enabled and inboundSyncEnabled
    syncs,     \* sync -> where it is in syncOneConfig, and its local values
    changes,   \* expunges, resets, switches and failures so far
    base       \* history: the cursor as it was established

vars == <<mailbox, cursor, stored, enabled, syncs, changes, base>>

-----------------------------------------------------------------------------
(* State                                                                   *)

Uid == 1..MaxUid
UidValidity == 1..MaxUidValidity

Mailbox == [validity : UidValidity, next : 0..(MaxUid + 1), present : SUBSET Uid]
Cursor == [validity : UidValidity, uid : 0..MaxUid]

ASSUME NoneAssumption == None \notin Cursor

(* validity and uid make the imapIdentityKey; was is the message that the  *)
(* row's content came from.                                                *)
EmailMessage == [id : Nat, validity : UidValidity, uid : Uid, was : UidValidity \X Uid]

Sync ==
    [step : {"idle", "state", "bootstrap", "fetch", "ingest", "advance"},
     cursor : Cursor \union {None},   \* the configuration row it read, then expectedCursor
     todo : SUBSET Uid,               \* fetched and not yet handled
     from : UidValidity \union {None}]    \* UIDVALIDITY of the selection it fetched in

Idle == [step |-> "idle", cursor |-> None, todo |-> {}, from |-> None]

TypeOK ==
    /\ mailbox \in Mailbox
    /\ cursor \in Cursor \union {None}
    /\ stored \in SUBSET EmailMessage
    /\ enabled \in BOOLEAN
    /\ syncs \in [Syncs -> Sync]
    /\ changes \in 0..MaxChanges
    /\ base \in Cursor \union {None}

(* The folder may hold mail already, and a server may report no UIDNEXT.   *)
Init ==
    /\ mailbox \in {[validity |-> 1, next |-> 0, present |-> {}],
                    [validity |-> 1, next |-> 1, present |-> {}],
                    [validity |-> 1, next |-> 2, present |-> {1}]}
    /\ cursor = None
    /\ stored = {}
    /\ enabled = TRUE
    /\ syncs = [s \in Syncs |-> Idle]
    /\ changes = 0
    /\ base = None

Goes(s, sync) == syncs' = [syncs EXCEPT ![s] = sync]
Ends(s) == Goes(s, Idle)
Change == changes < MaxChanges /\ changes' = changes + 1

-----------------------------------------------------------------------------
(* A sync                                                                  *)

(* syncAll() reads the configurations once, then works through them.       *)
Start(s) ==
    /\ syncs[s] = Idle
    /\ enabled
    /\ Goes(s, [Idle EXCEPT !.step = IF cursor = None THEN "state" ELSE "fetch",
                            !.cursor = cursor])
    /\ UNCHANGED <<mailbox, cursor, stored, enabled, changes, base>>

Baseline(next) == IF next > 0 THEN next - 1 ELSE 0

(* getMailboxState().                                                      *)
ReadState(s) ==
    /\ syncs[s].step = "state"
    /\ Goes(s, [syncs[s] EXCEPT
            !.step = "bootstrap",
            !.cursor = [validity |-> mailbox.validity, uid |-> Baseline(mailbox.next)]])
    /\ UNCHANGED <<mailbox, cursor, stored, enabled, changes, base>>

Establishes == cursor = None

(* establishBootstrapBaselineCas().                                        *)
Bootstrap(s) ==
    LET new == syncs[s].cursor
    IN  /\ syncs[s].step = "bootstrap"
        /\ cursor' = IF Establishes THEN new ELSE cursor
        /\ base' = IF cursor = None THEN new ELSE base
        /\ Ends(s)
        /\ UNCHANGED <<mailbox, stored, enabled, changes>>

\* Faulty: the fetch trusts the UIDVALIDITY that was checked before.
SameMailboxAssumed(c) == TRUE

SameMailbox(c) == mailbox.validity = c.validity

\* Faulty: the highest UID is taken for UIDNEXT.
BeyondExclusive(uid) == {u \in mailbox.present : uid < u /\ u < mailbox.next - 1}

Beyond(uid) == {u \in mailbox.present : uid < u /\ u <= mailbox.next - 1}

\* Faulty: the first messages to be answered, in whatever order, fill the batch.
AnyBatch(new) == {b \in SUBSET new : Cardinality(b) = Min({BatchSize, Cardinality(new)})}

(* The loop ends at the limit and sorts afterwards: the lowest UIDs, as    *)
(* the interface asks, because the server answers a range in its order.    *)
Batch(new) ==
    {b \in SUBSET new :
        /\ Cardinality(b) = Min({BatchSize, Cardinality(new)})
        /\ \A u \in b, v \in new \ b : u < v}

(* fetchMessagesSince(), inside one selection of the folder; another       *)
(* UIDVALIDITY ends the sync (handleUidValidityChange() writes nothing).   *)
Fetch(s) ==
    LET c == syncs[s].cursor
    IN  /\ syncs[s].step = "fetch"
        /\ \E batch \in Batch(Beyond(c.uid)) :
            Goes(s, IF SameMailbox(c) /\ batch # {}
                    THEN [syncs[s] EXCEPT !.step = "ingest", !.todo = batch,
                                          !.from = mailbox.validity]
                    ELSE Idle)
        /\ UNCHANGED <<mailbox, cursor, stored, enabled, changes, base>>

(* The unique index on imapIdentityKey.                                    *)
Unseen(validity, uid) == \A m \in stored : <<m.validity, m.uid>> # <<validity, uid>>

(* ingestOneMessage(): one transaction; a duplicate is handled all the same.*)
Ingest(s) ==
    LET j == syncs[s]
        uid == Min(j.todo)
        row == [id |-> Cardinality(stored) + 1, validity |-> j.cursor.validity, uid |-> uid,
                was |-> <<j.from, uid>>]
    IN  /\ j.step = "ingest"
        /\ stored' = IF Unseen(j.cursor.validity, uid) THEN stored \union {row} ELSE stored
        /\ Goes(s, [j EXCEPT !.step = "advance"])
        /\ UNCHANGED <<mailbox, cursor, enabled, changes, base>>

\* Faulty: the cursor is written by id.
AdvancesById(s) == TRUE

(* The row must still be exactly as this sync last saw it.                 *)
Advances(s) == cursor = syncs[s].cursor

(* Losing the compare-and-swap ends the sync.                              *)
Advance(s) ==
    LET j == syncs[s]
        new == [j.cursor EXCEPT !.uid = Min(j.todo)]
        left == j.todo \ {Min(j.todo)}
    IN  /\ j.step = "advance"
        /\ cursor' = IF Advances(s) THEN new ELSE cursor
        /\ Goes(s, IF Advances(s) /\ left # {}
                   THEN [j EXCEPT !.step = "ingest", !.cursor = new, !.todo = left] ELSE Idle)
        /\ UNCHANGED <<mailbox, stored, enabled, changes, base>>

(* The process dies, the connection breaks, or a message's transaction     *)
(* fails: the sync ends without advancing past it.                         *)
Fail(s) ==
    /\ syncs[s] # Idle
    /\ Change
    /\ Ends(s)
    /\ UNCHANGED <<mailbox, cursor, stored, enabled, base>>

-----------------------------------------------------------------------------
(* The mailbox and administrators                                          *)

Deliver ==
    LET uid == Max({1, mailbox.next})
    IN  /\ uid <= MaxUid
        /\ mailbox' = [mailbox EXCEPT !.next = uid + 1, !.present = @ \union {uid}]
        /\ UNCHANGED <<cursor, stored, enabled, syncs, changes, base>>

Expunge ==
    /\ Change
    /\ \E uid \in mailbox.present : mailbox' = [mailbox EXCEPT !.present = @ \ {uid}]
    /\ UNCHANGED <<cursor, stored, enabled, syncs, base>>

(* The folder is rebuilt: its messages get new UIDs.                       *)
Rebuild ==
    LET n == Cardinality(mailbox.present)
    IN  /\ mailbox.validity < MaxUidValidity
        /\ mailbox' = [validity |-> mailbox.validity + 1, next |-> n + 1, present |-> 1..n]
        /\ UNCHANGED <<cursor, stored, enabled, syncs, changes, base>>

(* The manual reset the UIDVALIDITY message asks for.                      *)
ResetCursor ==
    /\ cursor # None
    /\ Change
    /\ cursor' = None
    /\ base' = None
    /\ UNCHANGED <<mailbox, stored, enabled, syncs>>

Switch ==
    /\ Change
    /\ enabled' = ~enabled
    /\ UNCHANGED <<mailbox, cursor, stored, syncs, base>>

-----------------------------------------------------------------------------
(* Specification                                                           *)

Work(s) ==
    Start(s) \/ ReadState(s) \/ Bootstrap(s) \/ Fetch(s) \/ Ingest(s) \/ Advance(s)

Next ==
    \/ \E s \in Syncs : Work(s) \/ Fail(s)
    \/ Deliver \/ Expunge \/ Rebuild \/ ResetCursor \/ Switch

Spec == Init /\ [][Next]_vars

(* The sync job is repeated every five minutes and goes on to its end.     *)
Fairness == \A s \in Syncs : WF_vars(Work(s))

FairSpec == Spec /\ Fairness

-----------------------------------------------------------------------------
(* Properties                                                              *)

\* However syncs overlap, fail and are repeated, a message of the mailbox is
\* one EmailMessage.
StoredOnce ==
    \A m, n \in stored : (m.validity = n.validity /\ m.uid = n.uid) => m = n

\* Behind the cursor nothing is missing: each message that arrived after the
\* baseline and is still in the folder has been stored, whichever sync moved
\* the cursor past it.
NoneSkipped ==
    (cursor # None /\ cursor.validity = mailbox.validity) =>
        \A u \in mailbox.present : base.uid < u /\ u <= cursor.uid =>
            ~Unseen(cursor.validity, u)

\* A row holds the message its identity names, also when the folder is rebuilt
\* between two statements of a sync.
RightIdentity == \A m \in stored : m.was = <<m.validity, m.uid>>

\* "even a STALE worker ... can never move a MailConfiguration's cursor
\* backward": within one UIDVALIDITY it only grows, and only a reset leaves it.
CursorNeverBack ==
    [][cursor # None /\ cursor' # None =>
        cursor'.validity = cursor.validity /\ cursor'.uid >= cursor.uid]_vars

\* A message beyond the baseline that stays in the folder is stored, whatever
\* syncs fail, once the sync stays enabled and the folder is not rebuilt.
EventuallyStored ==
    \A v \in UidValidity, u \in Uid :
        <>[](/\ enabled /\ mailbox.validity = v /\ u \in mailbox.present
             /\ cursor # None /\ cursor.validity = v /\ base.uid < u)
          => <>(\E m \in stored : m.validity = v /\ m.uid = u)

-----------------------------------------------------------------------------
(* Inductive invariant                                                     *)

\* What was read of the folder does not lie ahead of it: a UIDVALIDITY is the
\* folder's or an older one, and a UID of the folder's own has been assigned.
Known(c, box) ==
    /\ c.validity <= box.validity
    /\ c.validity = box.validity => c.uid = 0 \/ c.uid < box.next

FolderInv ==
    /\ \A u \in mailbox.present : u < mailbox.next
    /\ cursor # None => Known(cursor, mailbox) /\ base # None

\* What a sync fetched is a prefix of what the folder holds beyond its cursor.
Prefix(j, box) ==
    box.validity = j.from =>
        /\ \A t \in j.todo : t < box.next
        /\ \A u \in box.present \ j.todo, t \in j.todo : j.cursor.uid < u => t < u

InOrder(j, box, rows) ==
    /\ j.cursor # None => Known(j.cursor, box)
    /\ j.step \in {"bootstrap", "fetch", "ingest", "advance"} => j.cursor # None
    /\ j.step \in {"ingest", "advance"} =>
         /\ j.todo # {} /\ j.from = j.cursor.validity
         /\ \A t \in j.todo : j.cursor.uid < t
         /\ Prefix(j, box)
    /\ j.step = "advance" =>
         \E m \in rows : m.validity = j.cursor.validity /\ m.uid = Min(j.todo)

SyncInv == \A s \in Syncs : InOrder(syncs[s], mailbox, stored)
=============================================================================
