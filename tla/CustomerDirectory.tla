------------------------- MODULE CustomerDirectory -------------------------
(***************************************************************************)
(* CustomersService without its status actions (Subscriptions has those)   *)
(* and the customers page: creating, editing and deleting customers, one   *)
(* or a selection, while subscriptions are sold and the renewal engine     *)
(* opens cases. A deletion checks on the snapshot of its transaction and   *)
(* deletes what is there when it gets to it.                               *)
(***************************************************************************)
EXTENDS Integers, FiniteSets

CONSTANTS
    Customers,    \* customer ids
    Desks,        \* operators, each with the customers page open
    Cards,        \* what the edit form holds: names, phone, address, entity
    MaxClicks,    \* bound on the requests the pages send
    MaxCases      \* bound on the renewal cases of a customer

DirectoryAssumption ==
    /\ MaxClicks \in Nat /\ MaxCases \in Nat
    /\ Cards # {} /\ "none" \notin Cards

VARIABLES
    customer,   \* id -> its card, or "none"
    sold,       \* customers with a subscription
    case,       \* id -> the newest renewal case of that subscription
    legacy,     \* id -> status of the import row approved into it
    manager,    \* operator -> the page and the request it waits for
    clicks      \* requests sent so far

directoryVars == <<customer, sold, case, legacy, manager, clicks>>

-----------------------------------------------------------------------------
(* State                                                                   *)

(* `busy`: holds, decisions or outbox rows refer to the case.              *)
Case == [state : {"none", "open", "closed"}, busy : BOOLEAN, no : 0..MaxCases]
NoCase == [state |-> "none", busy |-> FALSE, no |-> 0]

(* `todo` are the customers still to delete, `seen` the case and `paid` the*)
(* subscription in the snapshot of the deletion that runs.                 *)
Manager ==
    [at : {"page", "form", "saving", "deleting", "checked", "done"},
     editing : Customers \union {"new"}, selected : SUBSET Customers,
     asked : SUBSET Customers, todo : SUBSET Customers, failed : SUBSET Customers,
     now : Customers \union {"new"}, seen : Case, paid : BOOLEAN]

DirectoryTypeOK ==
    /\ customer \in [Customers -> Cards \union {"none"}]
    /\ sold \subseteq Customers
    /\ case \in [Customers -> Case]
    /\ legacy \in [Customers -> {"none", "approved", "review"}]
    /\ manager \in [Desks -> Manager]
    /\ clicks \in 0..MaxClicks

Page0 ==
    [at |-> "page", editing |-> "new", selected |-> {}, asked |-> {}, todo |-> {},
     failed |-> {}, now |-> "new", seen |-> NoCase, paid |-> FALSE]

Exists(c) == customer[c] # "none"

DirectoryInit ==
    /\ customer = [c \in Customers |-> CHOOSE d \in Cards : TRUE]
    /\ sold = {}
    /\ case = [c \in Customers |-> NoCase]
    /\ legacy = [c \in Customers |-> "approved"]
    /\ manager = [o \in Desks |-> Page0]
    /\ clicks = 0

-----------------------------------------------------------------------------
(* The page: its form and its selection                                    *)

Become(o, m) == manager' = [manager EXCEPT ![o] = m]

(* A row of the table, with its box and its buttons.                       *)
Listed(c) == Exists(c)

(* From the list, from a deep link, or from the button for a new customer. *)
OpenForm(o) ==
    /\ manager[o].at = "page" /\ clicks < MaxClicks
    /\ \E c \in {x \in Customers : Listed(x)} \union {"new"} :
         Become(o, [manager[o] EXCEPT !.at = "form", !.editing = c])
    /\ UNCHANGED <<customer, sold, case, legacy, clicks>>

CloseForm(o) ==
    /\ manager[o].at = "form"
    /\ Become(o, [manager[o] EXCEPT !.at = "page", !.editing = "new"])
    /\ UNCHANGED <<customer, sold, case, legacy, clicks>>

SaveForm(o) ==
    /\ manager[o].at = "form" /\ clicks < MaxClicks
    /\ clicks' = clicks + 1
    /\ Become(o, [manager[o] EXCEPT !.at = "saving"])
    /\ UNCHANGED <<customer, sold, case, legacy>>

(* A box is ticked or cleared; the selection outlives filters and pages.   *)
Select(o) ==
    /\ manager[o].at = "page" /\ clicks < MaxClicks
    /\ \E c \in Customers :
         /\ Listed(c) \/ c \in manager[o].selected
         /\ Become(o, [manager[o] EXCEPT !.selected =
                         IF c \in @ THEN @ \ {c} ELSE @ \union {c}])
    /\ UNCHANGED <<customer, sold, case, legacy, clicks>>

Ask(o, ids, left) ==
    /\ manager[o].at = "page" /\ clicks < MaxClicks
    /\ clicks' = clicks + 1
    /\ Become(o, [Page0 EXCEPT !.at = "deleting", !.asked = ids, !.todo = ids, !.selected = left])
    /\ UNCHANGED <<customer, sold, case, legacy>>

(* One customer's button: the selection stays, with that customer in it.   *)
AskDelete(o) == \E c \in Customers : Listed(c) /\ Ask(o, {c}, manager[o].selected)

(* The button over the selection, which is empty once the loop has ended.  *)
AskDeleteSelected(o) == manager[o].selected # {} /\ Ask(o, manager[o].selected, {})

\* Faulty: the first failure ends the loop.
AfterFailureStop(m) == [m EXCEPT !.at = "deleting", !.failed = @ \union {m.now}, !.todo = {}]

(* The loop goes on to the next one.                                       *)
AfterFailure(m) == [m EXCEPT !.at = "deleting", !.failed = @ \union {m.now}]

ReportDeletion(o) ==
    /\ manager[o].at = "deleting" /\ manager[o].todo = {}
    /\ Become(o, [manager[o] EXCEPT !.at = "done"])
    /\ UNCHANGED <<customer, sold, case, legacy, clicks>>

ReadReport(o) ==
    /\ manager[o].at = "done"
    /\ Become(o, [Page0 EXCEPT !.selected = manager[o].selected])
    /\ UNCHANGED <<customer, sold, case, legacy, clicks>>

-----------------------------------------------------------------------------
(* create, update                                                          *)

(* Validation, an inactive billing entity, a customer that is gone.        *)
RefuseSave(o) ==
    /\ manager[o].at = "saving"
    /\ Become(o, [manager[o] EXCEPT !.at = "form"])
    /\ UNCHANGED <<customer, sold, case, legacy, clicks>>

(* The whole form is written over the row: the last save wins.             *)
UpdateCustomer(o) ==
    LET c == manager[o].editing
    IN  /\ manager[o].at = "saving" /\ c # "new"
        /\ Exists(c)
        /\ \E d \in Cards : customer' = [customer EXCEPT ![c] = d]
        /\ Become(o, [manager[o] EXCEPT !.at = "page", !.editing = "new"])
        /\ UNCHANGED <<sold, case, legacy, clicks>>

(* A new id, with its primary channels; the code is LegacyImport's.        *)
CreateCustomer(o) ==
    /\ manager[o].at = "saving" /\ manager[o].editing = "new"
    /\ \E c \in Customers, d \in Cards :
         /\ ~Exists(c) /\ \A x \in Desks : c \notin manager[x].asked \union {manager[x].editing}
         /\ customer' = [customer EXCEPT ![c] = d]
         /\ legacy' = [legacy EXCEPT ![c] = "none"]
    /\ Become(o, [manager[o] EXCEPT !.at = "page"])
    /\ UNCHANGED <<sold, case, clicks>>

-----------------------------------------------------------------------------
(* deleteCustomer                                                          *)

\* Faulty: closed cases are the ones that stop a deletion.
DeletableIfOpen(c) == case[c].state # "closed"

Deletable(c) == case[c].state # "open"

(* The reads of the transaction, all of one snapshot.                      *)
CheckDelete(o) ==
    /\ manager[o].at = "deleting"
    /\ \E c \in manager[o].todo :
         LET m == [manager[o] EXCEPT !.todo = @ \ {c}, !.now = c]
         IN  Become(o, IF Exists(c) /\ Deletable(c)
                       THEN [m EXCEPT !.at = "checked", !.seen = case[c], !.paid = c \in sold]
                       ELSE AfterFailure(m))
    /\ UNCHANGED <<customer, sold, case, legacy, clicks>>

(* Foreign keys stop it: something refers to a case it did not read, or to *)
(* a subscription that was sold meanwhile and has a case.                  *)
Referred(m) ==
    LET k == case[m.now]
    IN  IF m.paid THEN k.no # m.seen.no /\ k.busy ELSE k.state # "none"

LegacyReopened(c) ==
    [legacy EXCEPT ![c] = IF @ = "approved" THEN "review" ELSE @]

(* The deletes reach every case of the subscriptions that were read, and   *)
(* every subscription of the customer. The answer may be lost.             *)
DeleteCustomer(o) ==
    LET m == manager[o]
        c == m.now
    IN  /\ m.at = "checked"
        /\ IF ~Exists(c) \/ Referred(m)
           THEN /\ Become(o, AfterFailure(m))
                /\ UNCHANGED <<customer, sold, case, legacy>>
           ELSE /\ customer' = [customer EXCEPT ![c] = "none"]
                /\ sold' = sold \ {c}
                /\ case' = [case EXCEPT ![c] = NoCase]
                /\ legacy' = LegacyReopened(c)
                /\ \E heard \in BOOLEAN :
                     Become(o, IF heard THEN [m EXCEPT !.at = "deleting"] ELSE AfterFailure(m))
        /\ UNCHANGED clicks

(* The server fails before the commit.                                     *)
FailDelete(o) ==
    /\ manager[o].at = "checked"
    /\ Become(o, AfterFailure(manager[o]))
    /\ UNCHANGED <<customer, sold, case, legacy, clicks>>

-----------------------------------------------------------------------------
(* The others: subscriptions, the renewal engine, the case desk, the import*)

Sell(c) ==
    /\ Exists(c) /\ c \notin sold
    /\ sold' = sold \union {c}
    /\ UNCHANGED <<customer, case, legacy, manager, clicks>>

OpenCase(c) ==
    /\ c \in sold /\ case[c].state # "open" /\ case[c].no < MaxCases
    /\ case' = [case EXCEPT ![c] = [state |-> "open", busy |-> FALSE, no |-> @.no + 1]]
    /\ UNCHANGED <<customer, sold, legacy, manager, clicks>>

WorkCase(c) ==
    /\ case[c].state = "open"
    /\ case' = [case EXCEPT ![c].busy = TRUE]
    /\ UNCHANGED <<customer, sold, legacy, manager, clicks>>

CloseCase(c) ==
    /\ case[c].state = "open"
    /\ case' = [case EXCEPT ![c].state = "closed"]
    /\ UNCHANGED <<customer, sold, legacy, manager, clicks>>

DirectoryNext ==
    \/ \E o \in Desks :
         \/ OpenForm(o) \/ CloseForm(o) \/ SaveForm(o) \/ Select(o)
         \/ AskDelete(o) \/ AskDeleteSelected(o) \/ ReportDeletion(o) \/ ReadReport(o) \/ RefuseSave(o)
         \/ UpdateCustomer(o) \/ CreateCustomer(o)
         \/ CheckDelete(o) \/ DeleteCustomer(o) \/ FailDelete(o)
    \/ \E c \in Customers : Sell(c) \/ OpenCase(c) \/ WorkCase(c) \/ CloseCase(c)

DirectorySpec == DirectoryInit /\ [][DirectoryNext]_directoryVars

-----------------------------------------------------------------------------
(* Properties                                                              *)

Survives(c) == case'[c].no = case[c].no

\* WORK KEPT: a deletion never takes away an open renewal case that holds,
\* decisions or reminders belong to, whenever they came.
WorkKeptStep == \A c \in Customers : (case[c].state = "open" /\ case[c].busy) => Survives(c)
WorkKept == [][WorkKeptStep]_case

\* OPEN CASES KEPT: a customer with an active renewal case is not deleted.
OpenCasesKept ==
    [][\A c \in Customers : case[c].state = "open" => Survives(c)]_case

\* NOTHING LEFT: a deleted customer leaves no subscription, no case, and no
\* import row that still counts as approved.
NothingLeft ==
    \A c \in Customers :
        ~Exists(c) => c \notin sold /\ case[c].state = "none" /\ legacy[c] # "approved"

\* ACCOUNTED FOR: when the page reports a deletion of many, every customer
\* asked for is gone or named as a failure, whoever else was at work.
AccountedFor ==
    \A o \in Desks :
        manager[o].at = "done" =>
            \A c \in manager[o].asked : ~Exists(c) \/ c \in manager[o].failed

\* COMPLETE: a deletion takes everything of the customer with it, and one of
\* many reports what it could not take.
DeletionComplete == NothingLeft /\ AccountedFor
=============================================================================
