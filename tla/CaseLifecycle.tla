---------------------------- MODULE CaseLifecycle ----------------------------
(***************************************************************************)
(* What a renewal case promises its readers, whoever acts on it: it is     *)
(* opened once, reminders only ever move it from UPCOMING to               *)
(* REMINDER_CYCLE, and it is decided at most once, along the legal         *)
(* transitions.                                                            *)
(***************************************************************************)
CONSTANT Cases, Predecessors

VARIABLES
    status,     \* case -> its status, or "ABSENT"
    decision,   \* case -> what the customer decided
    stamps      \* case -> which of its decision timestamps are set

lifeVars == <<status, decision, stamps>>

LifeInit ==
    /\ status = [c \in Cases |-> "ABSENT"]
    /\ decision = [c \in Cases |-> "UNDECIDED"]
    /\ stamps = [c \in Cases |-> {}]

Open(c) ==
    /\ status[c] = "ABSENT"
    /\ status' = [status EXCEPT ![c] = "UPCOMING"]
    /\ UNCHANGED <<decision, stamps>>

Remind(c) ==
    /\ status[c] = "UPCOMING"
    /\ status' = [status EXCEPT ![c] = "REMINDER_CYCLE"]
    /\ UNCHANGED <<decision, stamps>>

(* Only a case nobody decided is decided, and it carries the marks of that *)
(* decision alone; no decision is ever taken back.                         *)
Move(c, to) ==
    /\ status[c] \in Predecessors[to]
    /\ status' = [status EXCEPT ![c] = to]
    /\ decision[c] = "UNDECIDED"
    /\ decision' = [decision EXCEPT ![c] =
                      CASE to = "ACCEPTED" -> "ACCEPTED"
                        [] to = "DO_NOT_RENEW" -> "REJECTED"
                        [] OTHER -> "UNDECIDED"]
    /\ stamps[c] = {}
    /\ stamps' = [stamps EXCEPT ![c] =
                    CASE to = "ACCEPTED" -> {"acceptedAt"}
                      [] to = "DO_NOT_RENEW" -> {"doNotRenewAt"}
                      [] OTHER -> {}]

LifeNext ==
    \E c \in Cases :
        \/ Open(c) \/ Remind(c)
        \/ \E to \in DOMAIN Predecessors : Move(c, to)

LifeSpec == LifeInit /\ [][LifeNext]_lifeVars

(* The same life, from any point of it on.                                 *)
LifeGoesOn == [][LifeNext]_lifeVars
=============================================================================
