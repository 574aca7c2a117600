----------------------------- MODULE MCInbound ------------------------------
(***************************************************************************)
(* An inbound message in one run: where it is filed (InboundCorrelation)   *)
(* and what becomes of the messages of one thread (AiPipeline). `focus` is *)
(* the one that is looked at; the other keeps its initial state.           *)
(***************************************************************************)
EXTENDS MCAiPipeline, InboundCorrelation

VARIABLE focus

ASSUME CorrelationAssumption

-----------------------------------------------------------------------------
(* p has a case and writes from x, q from y; then y is both of theirs and  *)
(* p's x is switched off, so that x is r's, who has no channel.            *)

Id(reads, spelt) == [reads |-> reads, spelt |-> spelt]
Reminder == Id("reminder", "Reminder")

\* a message that begins a conversation; one that cites it and the reminder,
\* from somebody else; one that cites an id that only reads the same
MCMails ==
    {[box |-> "info", id |-> Id("a", "A"), from |-> "x",
      inReplyTo |-> <<>>, references |-> <<Malformed>>, hint |-> "-", at |-> 1],
     [box |-> "info", id |-> Id("b", "B"), from |-> "y",
      inReplyTo |-> <<Malformed, Reminder, Id("d", "D")>>, references |-> <<Id("a", "A")>>,
      hint |-> "renewal", at |-> 3],
     [box |-> "info", id |-> Id("d", "D"), from |-> "x",
      inReplyTo |-> <<>>, references |-> <<Id("a", "a")>>,
      hint |-> "renewal", at |-> 2]}

Channel(c, address, on) == [customer |-> c, address |-> address, active |-> on]

MCBooks ==
    {[channels |-> {Channel("p", "x", TRUE), Channel("q", "y", TRUE)},
      primaryEmail |-> [c \in People |-> "-"]],
     [channels |-> {Channel("p", "x", FALSE), Channel("p", "y", TRUE), Channel("q", "y", TRUE)},
      primaryEmail |-> [c \in People |-> "x"]]}

MCClientOf == [c \in Matters |-> "p"]
MCOutgoing == [c \in Matters |-> Reminder]

-----------------------------------------------------------------------------
InboundInit ==
    /\ focus \in {"correlation", "pipeline"}
    /\ Init
    /\ CorrelationInit
    /\ focus = "correlation" \/ book.primaryEmail["p"] = "-"

InboundNext ==
    /\ UNCHANGED focus
    /\ IF focus = "pipeline" THEN Next ELSE UNCHANGED vars
    /\ IF focus = "correlation" THEN CorrelationNext ELSE UNCHANGED correlationVars

inboundVars == <<focus, vars, correlationVars>>

InboundSpec == InboundInit /\ [][InboundNext]_inboundVars

=============================================================================
