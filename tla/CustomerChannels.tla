-------------------------- MODULE CustomerChannels --------------------------
(***************************************************************************)
(* The e-mail addresses (or the phone numbers) of one customer, the column *)
(* of Customer kept in step with them, and the channels page whose forms   *)
(* send what a copy of the row says. Every write is one REPEATABLE READ    *)
(* transaction: its plain reads are of its snapshot, its writes of now.    *)
(***************************************************************************)
EXTENDS Integers

CONSTANTS
    Channels,     \* row ids, numbered in createdAt order; each its own address
    Clerks,       \* operators, each with the page open
    MaxRequests   \* bound on the requests sent

ChannelsAssumption == Channels \subseteq Nat \ {0} /\ MaxRequests \in Nat

VARIABLES
    kind,       \* which table: "email" or "phone"
    channel,    \* id -> its row
    scalar,     \* Customer.primaryEmail or .phone: an id; 0 for one that has no row
    clerk,      \* operator -> the page's copy and the transaction of its request
    requests,   \* requests sent so far
    overtaken   \* history: a creation ran on a snapshot taken before another write

channelVars == <<kind, channel, scalar, clerk, requests, overtaken>>

-----------------------------------------------------------------------------
(* State                                                                   *)

Entry == [exists : BOOLEAN, primary : BOOLEAN, active : BOOLEAN]
Unused == [exists |-> FALSE, primary |-> FALSE, active |-> FALSE]
Entries == [Channels -> Entry]

(* `op` creates, saves the form, or switches `active`; `seen` is the       *)
(* snapshot of a creation and `bare` whether the column was empty in it;   *)
(* `drop` are the rows the write demoted, `found` what it resolved.         *)
Clerk ==
    [at : {"page", "begun", "commit"}, op : {"create", "save", "switch"},
     id : Channels, primary : BOOLEAN, active : BOOLEAN, copy : Entries,
     seen : Entries, bare : BOOLEAN, drop : SUBSET Channels,
     found : Channels \union {0}]

ChannelsTypeOK ==
    /\ kind \in {"email", "phone"}
    /\ channel \in Entries
    /\ scalar \in Channels \union {0}
    /\ clerk \in [Clerks -> Clerk]
    /\ requests \in 0..MaxRequests
    /\ overtaken \in BOOLEAN

Opened(rows) ==
    [at |-> "page", op |-> "create", id |-> CHOOSE c \in Channels : \A x \in Channels : c <= x,
     primary |-> FALSE, active |-> TRUE, copy |-> rows, seen |-> rows, bare |-> FALSE,
     drop |-> {}, found |-> 0]

(* A customer made by CustomersService.create has one primary address; an  *)
(* older one has the column only.                                          *)
ChannelsInit ==
    \E c \in Channels, normalized \in BOOLEAN :
        /\ \A x \in Channels : c <= x
        /\ kind \in {"email", "phone"}
        /\ channel = [x \in Channels |->
                        IF normalized /\ x = c
                        THEN [exists |-> TRUE, primary |-> TRUE, active |-> TRUE] ELSE Unused]
        /\ scalar = IF normalized THEN c ELSE 0
        /\ clerk = [k \in Clerks |-> Opened(channel)]
        /\ requests = 0
        /\ overtaken = FALSE

-----------------------------------------------------------------------------
(* CustomerEmailResolutionService                                          *)

PrimaryOf(rows) == {c \in Channels : rows[c].primary /\ rows[c].active}

(* The oldest of them, or none.                                            *)
Resolved(rows) ==
    IF PrimaryOf(rows) = {} THEN 0
    ELSE CHOOSE c \in PrimaryOf(rows) : \A d \in PrimaryOf(rows) : c <= d

-----------------------------------------------------------------------------
(* The page                                                                *)

LoadPage(k) ==
    /\ clerk[k].at = "page" /\ clerk[k].copy # channel
    /\ clerk' = [clerk EXCEPT ![k].copy = channel]
    /\ UNCHANGED <<kind, channel, scalar, requests, overtaken>>

SubmitChannel(k, c) ==
    /\ clerk[k].at = "page" /\ requests < MaxRequests
    /\ requests' = requests + 1
    /\ clerk' = [clerk EXCEPT ![k] = c]
    /\ UNCHANGED <<kind, channel, scalar, overtaken>>

(* A new row; its transaction starts by reading the customer, which fixes  *)
(* the snapshot.                                                           *)
AddChannel(k) ==
    \E c \in Channels, p \in BOOLEAN :
        /\ ~channel[c].exists
        /\ \A x \in Clerks : clerk[x].at = "page" \/ clerk[x].op # "create" \/ clerk[x].id # c
        /\ \A d \in Channels : d < c => channel[d].exists
        /\ SubmitChannel(k, [clerk[k] EXCEPT !.at = "begun", !.op = "create", !.id = c,
                        !.primary = p, !.active = TRUE, !.seen = channel, !.bare = (scalar = 0)])

(* The form sends `primary` whether or not the operator touched it; the    *)
(* button sends the opposite of the copy's `active`.                       *)
EditChannel(k) ==
    \E c \in Channels, p \in BOOLEAN :
        /\ clerk[k].copy[c].exists
        /\ SubmitChannel(k, [clerk[k] EXCEPT !.at = "begun", !.op = "save", !.id = c, !.primary = p])

SwitchChannel(k) ==
    \E c \in Channels :
        /\ clerk[k].copy[c].exists
        /\ SubmitChannel(k, [clerk[k] EXCEPT !.at = "begun", !.op = "switch", !.id = c,
                        !.active = ~clerk[k].copy[c].active])

-----------------------------------------------------------------------------
(* The transactions                                                        *)

Promotes(j) == j.op # "switch" /\ j.primary

\* Faulty: only an active primary row gives up its place.
DroppedIfActive(j, rows) ==
    {c \in Channels \ {j.id} : Promotes(j) /\ rows[c].primary /\ rows[c].active}

(* updateMany: every other primary row of the customer, as it is now.      *)
Dropped(j, rows) == {c \in Channels \ {j.id} : Promotes(j) /\ rows[c].primary}

WrittenEntry(j, row) ==
    IF j.op = "create" THEN [exists |-> TRUE, primary |-> j.primary, active |-> TRUE]
    ELSE IF j.op = "save" THEN [row EXCEPT !.primary = j.primary]
    ELSE [row EXCEPT !.active = j.active]

(* What the transaction makes of `rows`, having demoted `drop`.            *)
Applied(j, drop, rows) ==
    [c \in Channels |-> IF c = j.id THEN WrittenEntry(j, rows[c])
                        ELSE IF c \in drop THEN [rows[c] EXCEPT !.primary = FALSE]
                        ELSE rows[c]]

(* Row locks, held until the commit: a promotion scans the customer's rows,*)
(* any other write holds its own.                                          *)
Waits(k) ==
    \E x \in Clerks \ {k} :
        clerk[x].at = "commit"
            /\ (Promotes(clerk[x]) \/ Promotes(clerk[k]) \/ clerk[x].id = clerk[k].id)

(* syncPrimaryEmailScalar reads the snapshot and the transaction's own     *)
(* writes; that of an update is taken after its first write.               *)
FoundEmail(j, rows) ==
    Resolved(Applied(j, Dropped(j, rows), IF j.op = "create" THEN j.seen ELSE rows))

(* Phones: a new primary one, or the first one; later an active primary.   *)
FoundPhone(j, rows) ==
    LET row == WrittenEntry(j, rows[j.id])
    IN  IF (row.primary /\ row.active) \/ (j.op = "create" /\ j.bare) THEN j.id ELSE 0

WriteChannel(k) ==
    /\ clerk[k].at = "begun"
    /\ ~Waits(k)
    /\ clerk' = [clerk EXCEPT ![k].at = "commit",
                   ![k].drop = Dropped(clerk[k], channel),
                   ![k].found = IF kind = "email" THEN FoundEmail(clerk[k], channel)
                                ELSE FoundPhone(clerk[k], channel)]
    /\ overtaken' = (overtaken \/ (clerk[k].op = "create" /\ clerk[k].seen # channel))
    /\ UNCHANGED <<kind, channel, scalar, requests>>

(* Every write becomes visible at once; the column is left alone when      *)
(* nothing was resolved.                                                   *)
CommitChannel(k) ==
    /\ clerk[k].at = "commit"
    /\ channel' = Applied(clerk[k], clerk[k].drop, channel)
    /\ scalar' = IF clerk[k].found = 0 THEN scalar ELSE clerk[k].found
    /\ clerk' = [clerk EXCEPT ![k] = Opened(channel')]
    /\ UNCHANGED <<kind, requests, overtaken>>

(* A validation, the unique address, a deadlock: nothing is written, and   *)
(* the page keeps the copy it has.                                         *)
AbortChannel(k) ==
    /\ clerk[k].at # "page"
    /\ clerk' = [clerk EXCEPT ![k] = Opened(clerk[k].copy)]
    /\ UNCHANGED <<kind, channel, scalar, requests, overtaken>>

ChannelsNext ==
    \E k \in Clerks :
        \/ LoadPage(k) \/ AddChannel(k) \/ EditChannel(k) \/ SwitchChannel(k)
        \/ WriteChannel(k) \/ CommitChannel(k) \/ AbortChannel(k)

ChannelsSpec == ChannelsInit /\ [][ChannelsNext]_channelVars

-----------------------------------------------------------------------------
(* Properties                                                              *)

(* No two primary channels of a kind.                                      *)
OnePrimary ==
    \A c, d \in Channels : (channel[c].primary /\ channel[d].primary) => c = d

(* Customer.primaryEmail names the address a reminder would go to, if there *)
(* is one and no creation was overtaken between its snapshot and its write. *)
ColumnFollows ==
    (kind = "email" /\ ~overtaken /\ Resolved(channel) # 0) => scalar = Resolved(channel)

\* PRIMARY IN STEP: no interleaving of additions, edits and switches from
\* stale pages leaves a customer with two primary channels of a kind; nor,
\* where no creation was overtaken, with a primaryEmail that is not the
\* address a renewal reminder would go to.
PrimaryInStep == OnePrimary /\ ColumnFollows

(* More than the code keeps: the column follows whatever overlaps, as the  *)
(* comment of the synchronisation says.                                    *)
ColumnAlwaysFollows ==
    (kind = "email" /\ Resolved(channel) # 0) => scalar = Resolved(channel)
=============================================================================
