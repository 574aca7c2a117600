--------------------------- MODULE Subscriptions ---------------------------
(***************************************************************************)
(* The subscriptions of one customer: SubscriptionsService, the status     *)
(* actions of CustomersService that cascade to them, and the subscription  *)
(* modal, whose form is filled from a copy of the row. An update reads the *)
(* row before the transaction it writes in.                                *)
(***************************************************************************)
EXTENDS Integers, FiniteSets

CONSTANTS
    Subs,         \* subscription ids
    Staff,        \* operators, one page each
    Starts,       \* start dates, in months
    Intervals,    \* renewal intervals offered, in months
    MaxSaves      \* bound on the requests sent

SubscriptionsAssumption ==
    Starts \subseteq Nat /\ Intervals \subseteq Nat \ {0} /\ MaxSaves \in Nat

VARIABLES
    client,     \* Customer.status
    subs,       \* id -> its row
    desk,       \* operator -> the page, the modal and the request in flight
    saves,      \* requests sent so far
    derived,    \* history: rows whose renewal date the server has derived
    raced       \* history: rows written by an update that had read other dates

marks == <<derived, raced>>
subsVars == <<client, subs, desk, saves, marks>>

-----------------------------------------------------------------------------
(* State                                                                   *)

Service == {"ACTIVE", "SUSPENDED", "CLOSED"}

(* addCalendarMonths, on dates that share their day of the month.          *)
Term(start, interval) == start + interval

(* interval 0 is NULL: a historical row, with two independent dates.       *)
Row ==
    [status : Service \union {"none"}, start : Nat, interval : Intervals \union {0},
     renewal : Nat]

NoRow == [status |-> "none", start |-> 0, interval |-> 0, renewal |-> 0]

(* `copy` is the row the form was filled from, `form` what it holds now,   *)
(* `old` what the server read before the write.                            *)
Desk ==
    [at : {"list", "form", "sent", "write", "status", "cascade"}, sub : Subs \union {0},
     copy : Row, form : Row, old : Row, to : {"ACTIVE", "INACTIVE"}]

Listing ==
    [at |-> "list", sub |-> 0, copy |-> NoRow, form |-> NoRow, old |-> NoRow, to |-> "ACTIVE"]

SubsTypeOK ==
    /\ client \in {"ACTIVE", "INACTIVE"}
    /\ subs \in [Subs -> Row]
    /\ desk \in [Staff -> Desk]
    /\ saves \in 0..MaxSaves
    /\ derived \subseteq Subs /\ raced \subseteq Subs

(* The first row was imported: its renewal date was kept although its      *)
(* interval says otherwise, or it has no interval. The other ids are free. *)
SubsInit ==
    /\ client = "ACTIVE"
    /\ \E s \in Subs, i \in Intervals \union {0}, d \in Starts :
         /\ \A x \in Subs : s <= x
         /\ \A x \in Starts : d <= x
         /\ subs = [x \in Subs |-> IF x = s THEN [status |-> "ACTIVE", start |-> d,
                                                  interval |-> i, renewal |-> d + i + 1]
                                   ELSE NoRow]
    /\ desk = [o \in Staff |-> Listing]
    /\ saves = 0
    /\ derived = {} /\ raced = {}

-----------------------------------------------------------------------------
(* The modal                                                               *)

Sit(o, d) == desk' = [desk EXCEPT ![o] = d]

(* A row of the table, with its button.                                    *)
Shown(s) == subs[s].status # "none"

OpenModal(o, s) ==
    /\ desk[o].at = "list"
    /\ Shown(s)
    /\ Sit(o, [Listing EXCEPT !.at = "form", !.sub = s, !.copy = subs[s]])
    /\ UNCHANGED <<client, subs, saves, marks>>

(* An empty form, for an id no row has.                                    *)
OpenCreate(o, s) ==
    /\ desk[o].at = "list"
    /\ subs[s].status = "none" /\ s \notin {desk[x].sub : x \in Staff}
    /\ Sit(o, [Listing EXCEPT !.at = "form", !.sub = s])
    /\ UNCHANGED <<client, subs, saves, marks>>

Creating(d) == d.copy.status = "none"
Historical(d) == ~Creating(d) /\ d.copy.interval = 0

CloseModal(o) ==
    /\ desk[o].at = "form"
    /\ Sit(o, Listing)
    /\ UNCHANGED <<client, subs, saves, marks>>

(* The form as the operator leaves it, with any status: historical rows    *)
(* with two dates, the others with an interval.                            *)
Entered(d) ==
    {IF Historical(d) THEN [status |-> v, start |-> x, interval |-> 0, renewal |-> x + i]
     ELSE [status |-> v, start |-> x, interval |-> i, renewal |-> 0] :
        v \in Service, x \in Starts, i \in Intervals}

Save(o) ==
    /\ desk[o].at = "form" /\ saves < MaxSaves
    /\ saves' = saves + 1
    /\ \E f \in Entered(desk[o]) : Sit(o, [desk[o] EXCEPT !.at = "sent", !.form = f])
    /\ UNCHANGED <<client, subs, marks>>

(* The mappings and the button that deletes, of an existing row.           *)
Editing(o) == desk[o].at = "form" /\ ~Creating(desk[o])

(* Adding or switching a technical mapping reloads the row: the date and   *)
(* interval controls restart from it, the other fields keep what they had. *)
Reload(o) ==
    LET row == subs[desk[o].sub]
    IN  /\ Editing(o) /\ row.status # "none"
        /\ Sit(o, [desk[o] EXCEPT !.copy = [row EXCEPT !.status = desk[o].copy.status]])
        /\ UNCHANGED <<client, subs, saves, marks>>

-----------------------------------------------------------------------------
(* SubscriptionsService                                                    *)

(* The server refuses: parents, currency, dates, a row that is gone.       *)
Refuse(o) ==
    /\ Sit(o, [desk[o] EXCEPT !.at = "form", !.old = NoRow, !.form = NoRow])
    /\ UNCHANGED <<client, subs, saves, marks>>

(* findOne and the checks, before the transaction. A create checks that    *)
(* the customer exists, not its status.                                    *)
ReadOld(o) ==
    /\ desk[o].at = "sent"
    /\ \/ /\ ~Creating(desk[o]) => subs[desk[o].sub].status # "none"
          /\ Sit(o, [desk[o] EXCEPT !.at = "write", !.old = subs[desk[o].sub]])
          /\ UNCHANGED <<client, subs, saves, marks>>
       \/ Refuse(o)

(* What the form puts into the request.                                    *)
SendsStart(d) == Historical(d) \/ d.form.start # d.copy.start
SendsInterval(d) == ~Historical(d) /\ d.form.interval # d.copy.interval

NewStart(d) == IF SendsStart(d) THEN d.form.start ELSE d.old.start
NewInterval(d) == IF SendsInterval(d) THEN d.form.interval ELSE d.old.interval

\* Faulty: an unchanged interval alone keeps the renewal date.
TermMovesByInterval(d) == NewInterval(d) # d.old.interval

(* A change is a value other than the stored one, not a field present.     *)
TermMoves(d) ==
    NewInterval(d) # 0 /\ (NewStart(d) # d.old.start \/ NewInterval(d) # d.old.interval)

NewRenewal(d) ==
    IF TermMoves(d) THEN Term(NewStart(d), NewInterval(d))
    ELSE IF Historical(d) THEN d.form.renewal ELSE d.old.renewal

Acceptable(d) ==
    /\ Historical(d) => NewInterval(d) = 0
    /\ NewStart(d) < NewRenewal(d)

(* The columns the request names; the others stay as they are now.         *)
Updated(d, row) ==
    [status |-> d.form.status,
     start |-> IF SendsStart(d) THEN d.form.start ELSE row.start,
     interval |-> IF SendsInterval(d) THEN d.form.interval ELSE row.interval,
     renewal |-> IF TermMoves(d) \/ Historical(d) THEN NewRenewal(d) ELSE row.renewal]

DateColumns(row) == <<row.start, row.interval, row.renewal>>

Update(o) ==
    LET d == desk[o]
        s == d.sub
    IN  /\ d.at = "write" /\ ~Creating(d)
        /\ IF subs[s].status = "none" \/ ~Acceptable(d) THEN Refuse(o)
           ELSE /\ subs' = [subs EXCEPT ![s] = Updated(d, @)]
                /\ Sit(o, Listing)
                /\ derived' = IF TermMoves(d) THEN derived \union {s} ELSE derived
                /\ raced' = IF DateColumns(subs[s]) # DateColumns(d.old) THEN raced \union {s} ELSE raced
                /\ UNCHANGED <<client, saves>>

Create(o) ==
    LET d == desk[o]
        s == d.sub
    IN  /\ d.at = "write" /\ Creating(d)
        /\ subs' = [subs EXCEPT ![s] = [d.form EXCEPT
                                          !.renewal = Term(d.form.start, d.form.interval)]]
        /\ Sit(o, Listing)
        /\ derived' = derived \union {s}
        /\ UNCHANGED <<client, saves, raced>>

(* remove(): the row with its mappings, unless a renewal case is open.     *)
Remove(o) ==
    LET s == desk[o].sub
    IN  /\ Editing(o) /\ subs[s].status # "none"
        /\ subs' = [subs EXCEPT ![s] = NoRow]
        /\ Sit(o, Listing)
        /\ derived' = derived \ {s} /\ raced' = raced \ {s}
        /\ UNCHANGED <<client, saves>>

-----------------------------------------------------------------------------
(* CustomersService.setStatus, from the customers page                     *)

AskStatus(o) ==
    /\ desk[o].at = "list" /\ saves < MaxSaves
    /\ saves' = saves + 1
    /\ Sit(o, [Listing EXCEPT !.at = "status",
                 !.to = IF client = "ACTIVE" THEN "INACTIVE" ELSE "ACTIVE"])
    /\ UNCHANGED <<client, subs, marks>>

(* Nothing to do, if the customer has that status by now.                  *)
CheckStatus(o) ==
    /\ desk[o].at = "status"
    /\ Sit(o, IF client = desk[o].to THEN Listing ELSE [desk[o] EXCEPT !.at = "cascade"])
    /\ UNCHANGED <<client, subs, saves, marks>>

(* Deactivation suspends what is ACTIVE at that moment; reactivation       *)
(* changes no subscription.                                                *)
Cascade(to, row) ==
    IF to = "INACTIVE" /\ row.status = "ACTIVE" THEN [row EXCEPT !.status = "SUSPENDED"]
    ELSE row

SetStatus(o) ==
    LET to == desk[o].to
    IN  /\ desk[o].at = "cascade"
        /\ client' = to
        /\ subs' = [s \in Subs |-> Cascade(to, subs[s])]
        /\ Sit(o, Listing)
        /\ UNCHANGED <<saves, marks>>

SubsNext ==
    \E o \in Staff :
         \/ \E s \in Subs : OpenModal(o, s) \/ OpenCreate(o, s)
         \/ CloseModal(o) \/ Save(o) \/ Reload(o)
         \/ ReadOld(o) \/ Update(o) \/ Create(o) \/ Remove(o)
         \/ AskStatus(o) \/ CheckStatus(o) \/ SetStatus(o)

SubsSpec == SubsInit /\ [][SubsNext]_subsVars

-----------------------------------------------------------------------------
(* Properties                                                              *)

\* TERM: once the server has derived a renewal date, every later edit keeps
\* it equal to the start date plus the interval, as long as no two updates
\* of the row overlapped.
TermFollowsInterval ==
    \A s \in derived \ raced : subs[s].renewal = Term(subs[s].start, subs[s].interval)

\* TERM, whatever overlaps: the interval on record defines the renewal date.
TermAlwaysFollows ==
    \A s \in derived : subs[s].renewal = Term(subs[s].start, subs[s].interval)

\* DELIBERATE: a suspended subscription becomes ACTIVE only by a form in
\* which the operator changed the status to ACTIVE. The code does not keep
\* this: a form that was filled before a deactivation sends its old status.
ReactivationIsDeliberate ==
    [][\A s \in Subs :
          (subs[s].status = "SUSPENDED" /\ subs'[s].status = "ACTIVE")
              => \E o \in Staff : desk[o].sub = s /\ desk[o].copy.status # "ACTIVE"]_subs
=============================================================================
