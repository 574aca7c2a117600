---------------------------- MODULE RenewalCases ----------------------------
(***************************************************************************)
(* Renewal cases and their holds: the manual transitions of                *)
(* RenewalCasesService (and the AI router's, which goes through the same   *)
(* primitive), requested concurrently, each a plain read and a later       *)
(* conditional write. The renewal engine's module extends this one.        *)
(***************************************************************************)
EXTENDS Integers, FiniteSets

CONSTANTS
    Subs,        \* subscription ids, in id order
    Dues,        \* renewal dates, as day numbers
    Actors,      \* concurrent requests of staff and of the AI router
    None,        \* absence of a case, a status, an address, a cursor
    MaxDay,      \* bound on the business day
    MaxChanges   \* bound on requests, holds, edits and crashes

ASSUME CasesAssumption ==
    /\ Subs \subseteq Nat /\ IsFiniteSet(Subs)
    /\ Dues \subseteq Int
    /\ None \notin Subs \union Dues \union (Subs \X Dues)
    /\ MaxDay \in Nat
    /\ MaxChanges \in Nat

VARIABLES
    cases,      \* (subscription, due date) -> the case, unique by that pair
    holds,      \* case -> its active holds
    requests,   \* actor -> the transition it read the case for
    today,      \* business day every ClockService.now() falls in
    changes     \* changes of staff and environment so far

caseVars == <<cases, holds, requests>>

Cases == Subs \X Dues
Days == 0..MaxDay

-----------------------------------------------------------------------------
(* Statuses and transitions                                                *)

ReminderEligible == {"UPCOMING", "REMINDER_CYCLE", "AWAITING_CUSTOMER"}
TerminalStatuses == {"CLOSED", "FULFILLED", "REJECTED", "DO_NOT_RENEW"}

Predecessors ==
    [AWAITING_CUSTOMER |-> {"UPCOMING", "REMINDER_CYCLE", "HUMAN_REVIEW"},
     ACCEPTED |-> {"UPCOMING", "REMINDER_CYCLE", "AWAITING_CUSTOMER", "HUMAN_REVIEW"},
     DO_NOT_RENEW |-> {"UPCOMING", "REMINDER_CYCLE", "AWAITING_CUSTOMER", "HUMAN_REVIEW"},
     FULFILLED |-> {"PAYMENT_CONFIRMED"}]

Targets == DOMAIN Predecessors

Legal(from, to) == from \in Predecessors[to]

Status == {"ABSENT", "HUMAN_REVIEW", "PAYMENT_CONFIRMED"}
            \union ReminderEligible \union TerminalStatuses \union Targets
Decision == {"UNDECIDED", "ACCEPTED", "REJECTED"}
Stamp == {"acceptedAt", "doNotRenewAt", "fulfilledAt"}

(* stamps: the decision timestamps that are set.                           *)
CaseRecord == [status : Status, decision : Decision, stamps : SUBSET Stamp]

Absent == [status |-> "ABSENT", decision |-> "UNDECIDED", stamps |-> {}]
Opened == [Absent EXCEPT !.status = "UPCOMING"]

(* The extraData each manual action writes with its status.                *)
Transitioned(record, to) ==
    CASE to = "ACCEPTED" ->
           [status |-> to, decision |-> "ACCEPTED", stamps |-> record.stamps \union {"acceptedAt"}]
      [] to = "DO_NOT_RENEW" ->
           [status |-> to, decision |-> "REJECTED", stamps |-> record.stamps \union {"doNotRenewAt"}]
      [] to = "FULFILLED" ->
           [record EXCEPT !.status = to, !.stamps = @ \union {"fulfilledAt"}]
      [] OTHER -> [record EXCEPT !.status = to]

Audience == {"CUSTOMER", "INTERNAL"}

(* until: the day the hold expires; MaxDay + 1 stands for no expiry.       *)
Hold == [stops : SUBSET Audience, until : 1..(MaxDay + 1)]

Request == [case : Cases, to : Targets, seen : Status]

CasesTypeOK ==
    /\ cases \in [Cases -> CaseRecord]
    /\ holds \in [Cases -> SUBSET Hold]
    /\ requests \in [Actors -> Request \union {None}]
    /\ today \in Days
    /\ changes \in 0..MaxChanges

CasesInit ==
    /\ cases = [c \in Cases |-> Absent]
    /\ holds = [c \in Cases |-> {}]
    /\ requests = [a \in Actors |-> None]
    /\ today = 0
    /\ changes = 0

(* aggregateEffectiveHolds: audiences a hold stops at the instant asOf.    *)
Stopped(c, asOf) == UNION {h.stops : h \in {g \in holds[c] : g.until > asOf}}

-----------------------------------------------------------------------------
(* The engine's two writes to a case                                       *)

(* ensureCase(): a second case for the pair violates its unique index.     *)
Ensured(c) == IF cases[c] = Absent THEN [cases EXCEPT ![c] = Opened] ELSE cases

\* Faulty: the reminder moves the case whatever its status has become.
CycleAnyway(c) == [cases EXCEPT ![c].status = "REMINDER_CYCLE"]

(* queueOutbox(): the update is conditional on UPCOMING.                   *)
CycleStarted(c) ==
    IF cases[c].status = "UPCOMING"
    THEN [cases EXCEPT ![c].status = "REMINDER_CYCLE"] ELSE cases

-----------------------------------------------------------------------------
(* Transitions                                                             *)

(* transitionStatus(): the read and the checks on it...                    *)
AskTransition(a) ==
    /\ requests[a] = None
    /\ changes < MaxChanges
    /\ \E c \in Cases, to \in Targets :
        LET seen == cases[c].status
        IN  /\ seen # "ABSENT"
            /\ seen \notin TerminalStatuses
            /\ Legal(seen, to)
            /\ requests' = [requests EXCEPT ![a] = [case |-> c, to |-> to, seen |-> seen]]
    /\ changes' = changes + 1
    /\ UNCHANGED <<cases, holds, today>>

Applies(r) == cases[r.case].status = r.seen

(* ...and applyRenewalCaseTransition's compare-and-swap.                   *)
ApplyTransition(a) ==
    LET r == requests[a]
    IN  /\ r # None
        /\ cases' = IF Applies(r)
                    THEN [cases EXCEPT ![r.case] = Transitioned(@, r.to)] ELSE cases
        /\ requests' = [requests EXCEPT ![a] = None]
        /\ UNCHANGED <<holds, today, changes>>

-----------------------------------------------------------------------------
(* Holds                                                                   *)

CreateHold(c) ==
    /\ cases[c] # Absent
    /\ changes < MaxChanges
    /\ \E h \in Hold :
        /\ h.until > today
        /\ holds' = [holds EXCEPT ![c] = @ \union {h}]
    /\ changes' = changes + 1
    /\ UNCHANGED <<cases, requests, today>>

(* Its check that the hold is active races only with another release.      *)
ReleaseHold(c) ==
    /\ changes < MaxChanges
    /\ \E h \in holds[c] : holds' = [holds EXCEPT ![c] = @ \ {h}]
    /\ changes' = changes + 1
    /\ UNCHANGED <<cases, requests, today>>

Workflow ==
    \/ \E a \in Actors : AskTransition(a) \/ ApplyTransition(a)
    \/ \E c \in Cases : CreateHold(c) \/ ReleaseHold(c)

-----------------------------------------------------------------------------
(* Properties                                                              *)

Life == INSTANCE CaseLifecycle WITH
    status <- [c \in Cases |-> cases[c].status],
    decision <- [c \in Cases |-> cases[c].decision],
    stamps <- [c \in Cases |-> cases[c].stamps]

\* Whatever stale status a request or an engine run acts on, every case goes
\* through the life CaseLifecycle allows: whoever wins the race between two
\* staff members (or staff and the AI router) leaves its own status, decision
\* and timestamp, and nothing of the loser's.
ImplementsLifecycle == Life!LifeSpec
=============================================================================
