-------------------------- MODULE IntegrationHealth --------------------------
(***************************************************************************)
(* The append-only log of IntegrationHealthEvent rows of one mailbox and   *)
(* of the AI provider, as the three recorders write it: MailHealthService, *)
(* MailImapHealthService and AiHealthService read what was last recorded,  *)
(* and append an event only for a different status. Nothing is locked in   *)
(* between. The worker's jobs and the test buttons of the settings record. *)
(***************************************************************************)
EXTENDS Sequences, FiniteSets, Naturals

CONSTANTS
    Recorders,      \* jobs and requests that record a status
    MaxRecordings   \* bound on the recordings begun

IntegrationHealthAssumption == MaxRecordings \in Nat

VARIABLES
    column,      \* MailConfiguration.lastHealthStatus
    events,      \* channel -> the statuses of its events, oldest first
    recording,   \* recorder -> its recording in progress
    recordings,  \* recordings begun so far
    lastSaid,    \* channel -> the status of the recording finished last
    crossed      \* channels on which two recordings overlapped

healthVars == <<column, events, recording, recordings, lastSaid, crossed>>

-----------------------------------------------------------------------------
(* State                                                                   *)

Integrations == {"SMTP", "IMAP", "AI"}
HealthStatus == {"HEALTHY", "DEGRADED", "UNAVAILABLE"}
KnownStatus == HealthStatus \union {"UNKNOWN"}
Idle == [at |-> "idle", channel |-> "AI", says |-> "UNKNOWN", baseline |-> "UNKNOWN"]

HealthTypeOK ==
    /\ column \in KnownStatus
    /\ events \in [Integrations -> Seq(HealthStatus)]
    /\ recording \in [Recorders -> [at : {"idle", "read"}, channel : Integrations,
                                    says : KnownStatus, baseline : KnownStatus]]
    /\ recordings \in 0..MaxRecordings
    /\ lastSaid \in [Integrations -> KnownStatus]
    /\ crossed \subseteq Integrations

HealthInit ==
    /\ column = "UNKNOWN"
    /\ events = [c \in Integrations |-> <<>>]
    /\ recording = [r \in Recorders |-> Idle]
    /\ recordings = 0
    /\ lastSaid = [c \in Integrations |-> "UNKNOWN"]
    /\ crossed = {}

-----------------------------------------------------------------------------
(* The recorders                                                           *)

LatestEvent(c) == IF events[c] = <<>> THEN "UNKNOWN" ELSE events[c][Len(events[c])]

\* Faulty: both channels of a mailbox compare with the one column it has.
BaselineShared(c) == IF c = "AI" THEN LatestEvent(c) ELSE column

(* SMTP compares with the mailbox's column, IMAP and AI with their log.    *)
BaselineOf(c) == IF c = "SMTP" THEN column ELSE LatestEvent(c)

BeginRecord(r) ==
    /\ recording[r].at = "idle" /\ recordings < MaxRecordings
    /\ recordings' = recordings + 1
    /\ \E c \in Integrations, s \in HealthStatus :
         /\ recording' = [recording EXCEPT ![r] =
                            [at |-> "read", channel |-> c, says |-> s, baseline |-> BaselineOf(c)]]
         /\ crossed' = IF \E o \in Recorders : recording[o].at = "read" /\ recording[o].channel = c
                       THEN crossed \union {c} ELSE crossed
    /\ UNCHANGED <<column, events, lastSaid>>

FinishRecord(r) ==
    LET c == recording[r].channel
        s == recording[r].says
    IN  /\ recording[r].at = "read"
        /\ events' = IF recording[r].baseline = s THEN events
                     ELSE [events EXCEPT ![c] = Append(@, s)]
        /\ column' = IF c = "SMTP" THEN s ELSE column
        /\ recording' = [recording EXCEPT ![r] = Idle]
        /\ lastSaid' = [lastSaid EXCEPT ![c] = s]
        /\ UNCHANGED <<recordings, crossed>>

(* The process dies before it wrote.                                       *)
DropRecord(r) ==
    /\ recording[r].at = "read"
    /\ recording' = [recording EXCEPT ![r] = Idle]
    /\ UNCHANGED <<column, events, recordings, lastSaid, crossed>>

HealthNext == \E r \in Recorders : BeginRecord(r) \/ FinishRecord(r) \/ DropRecord(r)

HealthSpec == HealthInit /\ [][HealthNext]_healthVars

-----------------------------------------------------------------------------
(* Properties                                                              *)

\* HEALTH TOLD: whatever the other channels record in between, and whoever
\* dies half-way, the log of a channel ends with what was last found out
\* about it and never says the same thing twice in a row, as long as no two
\* recordings of that channel overlapped.
HealthTold ==
    \A c \in Integrations \ crossed :
        /\ LatestEvent(c) = lastSaid[c]
        /\ \A i \in 2..Len(events[c]) : events[c][i] # events[c][i - 1]

\* RECOVERY IS RECORDED: with nothing under way, a mailbox whose column says
\* that SMTP works again has a HEALTHY event after the last one that says it
\* does not.
RecoveryIsRecorded ==
    (\A r \in Recorders : recording[r].at = "idle")
        => (column = "HEALTHY" => LatestEvent("SMTP") = "HEALTHY")
=============================================================================
