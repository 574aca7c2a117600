--------------------------- MODULE OutboxDelivery ---------------------------
(***************************************************************************)
(* What the outbound mail pipeline promises for one CommunicationOutbox    *)
(* row, whoever works on it: one addressed message is handed to SMTP, any  *)
(* number of times (at-least-once), and the row is resolved at most once.  *)
(***************************************************************************)
CONSTANT
    Rows,         \* outbox rows (logical outbound messages)
    Messages      \* addressed messages: a recipient and a Message-ID

VARIABLES
    phase,        \* row -> "open" or the final status
    copies,       \* row -> the distinct addressed messages handed to SMTP
    acked         \* rows SMTP acknowledged at least once

absVars == <<phase, copies, acked>>

Final == {"DELIVERED", "FAILED", "CANCELLED"}

AbsInit ==
    /\ phase = [r \in Rows |-> "open"]
    /\ copies = [r \in Rows |-> {}]
    /\ acked = {}

(* A transmission repeats the message of the first one. It may come after  *)
(* the row is final: a worker that lost its lease inside the SMTP call     *)
(* cannot be recalled.                                                     *)
Transmit(r, m) ==
    /\ copies[r] \subseteq {m}
    /\ copies' = [copies EXCEPT ![r] = {m}]
    /\ acked' \in {acked, acked \union {r}}
    /\ UNCHANGED phase

(* Only an acknowledged row is DELIVERED, only an attempted one FAILED.    *)
Resolve(r, final) ==
    /\ phase[r] = "open"
    /\ final = "DELIVERED" => r \in acked
    /\ final = "FAILED" => copies[r] # {}
    /\ phase' = [phase EXCEPT ![r] = final]
    /\ UNCHANGED <<copies, acked>>

AbsNext ==
    \E r \in Rows :
        \/ \E m \in Messages : Transmit(r, m)
        \/ \E final \in Final : Resolve(r, final)

AbsSpec == AbsInit /\ [][AbsNext]_absVars
=============================================================================
