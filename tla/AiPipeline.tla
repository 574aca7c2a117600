----------------------------- MODULE AiPipeline -----------------------------
(***************************************************************************)
(* What happens to the inbound messages of one thread after their ingest:  *)
(* AiClassificationService classifies a PENDING message once and freezes a *)
(* routing decision, AiRoutingService executes decisions under a lease     *)
(* (accepting the renewal case through the compare-and-swap staff use, or  *)
(* asking for human review), ClassificationReviewService lets a person     *)
(* overrule both. Workers are concurrent, may crash and may be superseded. *)
(* A claim and the read-back of its token are one step here; what happens  *)
(* between them is studied in MailOutbound, whose protocol this one shares.*)
(* A message is classified at most once, and only CLOSED and ERROR cases,  *)
(* which nothing sets, can be removed: the router's branches for a         *)
(* superseded classification, a case that has gone and an inconsistent row *)
(* are never taken.                                                        *)
(***************************************************************************)
EXTENDS RenewalCases

CONSTANTS
    Messages,    \* inbound messages of the thread
    ThreadCase,  \* the renewal case the thread is about, or None
    Workers      \* jobs in flight (worker concurrency 2)

ASSUME PipelineAssumption ==
    /\ ThreadCase \in Cases \union {None}
    /\ None \notin Messages

VARIABLES
    message,    \* message -> classificationStatus
    thread,     \* CommunicationThread.status
    decisions,  \* message -> its AiRoutingDecision, or None
    reviews,    \* messages with a ClassificationReview
    settings,   \* AiSettings: enabled, autoRouteAcceptEnabled
    jobs        \* worker -> the job it runs

aiVars == <<message, thread, decisions, reviews, settings, jobs>>
vars == <<caseVars, today, changes, aiVars>>

-----------------------------------------------------------------------------
(* State                                                                   *)

MessageStatus == {"ABSENT", "PENDING", "CLASSIFIED", "HUMAN_REVIEW", "RESOLVED"}

Action == {"AUTO_ACCEPT", "HUMAN_REVIEW"}
Done == {"SUCCEEDED", "SKIPPED"}

Result ==
    {"CLASSIFIER_REQUIRED_HUMAN_REVIEW", "AUTO_ACCEPTED", "ROUTED_TO_HUMAN_REVIEW",
     "SKIPPED_ALREADY_ACCEPTED", "SKIPPED_HUMAN_ALREADY_REVIEWED",
     "SKIPPED_CONCURRENT_BUSINESS_DECISION"}

(* token: the claim's lastAttemptAt, here the number of the claim; stale:  *)
(* the lease has run out.                                                  *)
RoutingDecision ==
    [action : Action, status : {"PENDING", "PROCESSING"} \union Done,
     result : Result \union {None}, token : 0..(MaxChanges + 1), stale : BOOLEAN]

ASSUME NoneAssumption == None \notin RoutingDecision /\ None \notin Result

Job ==
    [step : {"idle", "classify", "claim", "case", "review", "accept", "reread",
             "finish", "route", "update"},
     msg : Messages \union {None},
     auto : BOOLEAN,               \* autoRouteAcceptEnabled as it was read
     token : 0..(MaxChanges + 1),  \* the lease token
     seen : Status \union {None},  \* the case's status as it was read
     result : Result \union {None}]

Idle == [step |-> "idle", msg |-> None, auto |-> FALSE, token |-> 0, seen |-> None, result |-> None]

TypeOK ==
    /\ CasesTypeOK
    /\ message \in [Messages -> MessageStatus]
    /\ thread \in {"OPEN", "HUMAN_REVIEW", "RESOLVED"}
    /\ decisions \in [Messages -> RoutingDecision \union {None}]
    /\ reviews \in SUBSET Messages
    /\ settings \in [enabled : BOOLEAN, auto : BOOLEAN]
    /\ jobs \in [Workers -> Job]

Init ==
    /\ cases = [c \in Cases |-> Opened]
    /\ holds = [c \in Cases |-> {}]
    /\ requests = [a \in Actors |-> None]
    /\ today = 0
    /\ changes = 0
    /\ message = [m \in Messages |-> "ABSENT"]
    /\ thread = "OPEN"
    /\ decisions = [m \in Messages |-> None]
    /\ reviews = {}
    /\ settings = [enabled |-> TRUE, auto |-> TRUE]
    /\ jobs = [w \in Workers |-> Idle]

Decided(m) == decisions[m] # None /\ decisions[m].status \in Done
Awaiting(m) == decisions[m] # None /\ ~Decided(m)

Goes(w, job) == jobs' = [jobs EXCEPT ![w] = job]
Ends(w) == Goes(w, Idle)
Change == changes < MaxChanges /\ changes' = changes + 1

-----------------------------------------------------------------------------
(* Ingest                                                                  *)

CaseDecided == ThreadCase # None /\ cases[ThreadCase].status \in TerminalStatuses

(* createGeneralThread() starts the thread with these: a sender who is not *)
(* one active customer, or a hint that failed its checks, needs a person.  *)
Landed(escalate) == IF escalate THEN "HUMAN_REVIEW" ELSE "PENDING"

(* useExistingThread(): a conflicting sender or a decided case sends the   *)
(* message straight to a person; a reply reopens the thread.               *)
Arrive(m) ==
    /\ message[m] = "ABSENT"
    /\ \E escalate \in BOOLEAN :
        /\ CaseDecided => escalate
        /\ message' = [message EXCEPT ![m] = Landed(escalate)]
        /\ thread' = IF escalate THEN "HUMAN_REVIEW"
                     ELSE IF thread = "RESOLVED" THEN "OPEN" ELSE thread
    /\ UNCHANGED <<caseVars, today, changes, decisions, reviews, settings, jobs>>

-----------------------------------------------------------------------------
(* Classification                                                          *)

(* classifyMessage() up to the provider call.                              *)
StartClassify(w, m) ==
    /\ jobs[w] = Idle
    /\ settings.enabled
    /\ message[m] = "PENDING"
    /\ Goes(w, [Idle EXCEPT !.step = "classify", !.msg = m, !.auto = settings.auto])
    /\ UNCHANGED <<caseVars, today, changes, message, thread, decisions, reviews, settings>>

(* decideClassificationTimeRoutingAction(); accepting: the intent is       *)
(* ACCEPT_RENEWAL and all of the instants are at or after the cutover.     *)
FrozenAction(accepting, auto) ==
    IF accepting /\ auto /\ ThreadCase # None THEN "AUTO_ACCEPT" ELSE "HUMAN_REVIEW"

NewDecision(action) ==
    [action |-> action, status |-> "PENDING", result |-> None, token |-> 0, stale |-> FALSE]

RequiredReview ==
    [NewDecision("HUMAN_REVIEW") EXCEPT
        !.status = "SUCCEEDED", !.result = "CLASSIFIER_REQUIRED_HUMAN_REVIEW"]

\* Faulty: whatever status the message has by now, it is classified (again).
WonRegardless(m) == TRUE

WonMessage(m) == message[m] = "PENDING"

(* persistClassification(): the compare-and-swap on the message and both   *)
(* records in one transaction.                                             *)
Classified(w) ==
    LET j == jobs[w]
        m == j.msg
    IN  /\ j.step = "classify"
        /\ IF WonMessage(m)
           THEN \/ /\ message' = [message EXCEPT ![m] = "HUMAN_REVIEW"]
                   /\ decisions' = [decisions EXCEPT ![m] = RequiredReview]
                \/ /\ message' = [message EXCEPT ![m] = "CLASSIFIED"]
                   /\ \E accepting \in BOOLEAN :
                        decisions' = [decisions EXCEPT ![m] =
                                        NewDecision(FrozenAction(accepting, j.auto))]
           ELSE UNCHANGED <<message, decisions>>
        /\ Ends(w)
        /\ UNCHANGED <<caseVars, today, changes, thread, reviews, settings>>

(* handleClassificationFailure(): a permanent error, a malformed answer or *)
(* the last of the job's attempts. Nothing but the message is written.     *)
FailedForGood(w) ==
    LET m == jobs[w].msg
    IN  /\ jobs[w].step = "classify"
        /\ message' = IF message[m] = "PENDING"
                      THEN [message EXCEPT ![m] = "HUMAN_REVIEW"] ELSE message
        /\ Ends(w)
        /\ UNCHANGED <<caseVars, today, changes, thread, decisions, reviews, settings>>

-----------------------------------------------------------------------------
(* Routing: the lease                                                      *)

\* Faulty: a decision that was claimed once is never looked at again.
ClaimableOnce(m) == decisions[m] # None /\ decisions[m].status = "PENDING"

\* Faulty: a claim does not wait for the other worker's lease to run out.
ClaimableAtOnce(m) == Awaiting(m)

Claimable(m) ==
    /\ decisions[m] # None
    /\ \/ decisions[m].status = "PENDING"
       \/ decisions[m].status = "PROCESSING" /\ decisions[m].stale

(* processBatch() selects, or a queued job names, a decision; processOne() *)
(* leaves a paused one alone.                                              *)
StartRoute(w, m) ==
    /\ jobs[w] = Idle
    /\ Claimable(m)
    /\ decisions[m].action = "HUMAN_REVIEW" \/ settings.auto
    /\ Goes(w, [Idle EXCEPT !.step = "claim", !.msg = m])
    /\ UNCHANGED <<caseVars, today, changes, message, thread, decisions, reviews, settings>>

(* claim(), and the branch on the frozen action.                           *)
Claim(w) ==
    LET m == jobs[w].msg
        token == decisions[m].token + 1
    IN  /\ jobs[w].step = "claim"
        /\ IF Claimable(m)
           THEN /\ decisions' = [decisions EXCEPT
                        ![m].status = "PROCESSING", ![m].token = token, ![m].stale = FALSE]
                /\ IF decisions[m].action = "AUTO_ACCEPT"
                   THEN Goes(w, [jobs[w] EXCEPT !.step = "case", !.token = token])
                   ELSE Goes(w, [jobs[w] EXCEPT !.step = "route", !.token = token,
                                                !.result = "ROUTED_TO_HUMAN_REVIEW"])
           ELSE Ends(w) /\ UNCHANGED decisions
        /\ UNCHANGED <<caseVars, today, changes, message, thread, reviews, settings>>

\* Faulty: the outcome is written by id, whoever holds the lease.
OwnsById(w) == TRUE

(* The where clause of every write of an outcome.                          *)
Owns(w) ==
    LET d == decisions[jobs[w].msg]
    IN  d.status = "PROCESSING" /\ d.token = jobs[w].token

StatusFor(result) ==
    IF result \in {"AUTO_ACCEPTED", "ROUTED_TO_HUMAN_REVIEW"} THEN "SUCCEEDED" ELSE "SKIPPED"

Finalized(m, result) ==
    [decisions EXCEPT ![m].status = StatusFor(result), ![m].result = result, ![m].stale = FALSE]

(* finalizeDecisionOnly(), and the transactions that find nothing to route.*)
Finish(w) ==
    LET j == jobs[w]
    IN  /\ j.step = "finish"
        /\ decisions' = IF Owns(w) THEN Finalized(j.msg, j.result) ELSE decisions
        /\ Ends(w)
        /\ UNCHANGED <<caseVars, today, changes, message, thread, reviews, settings>>

-----------------------------------------------------------------------------
(* Routing: automatic acceptance                                           *)

\* Faulty: a decision somebody else made ends the matter.
FallbackSilently(job) == [job EXCEPT !.step = "finish",
                                     !.result = "SKIPPED_CONCURRENT_BUSINESS_DECISION"]

Fallback(job) == [job EXCEPT !.step = "route",
                             !.result = "SKIPPED_CONCURRENT_BUSINESS_DECISION"]

Skip(job, result) == [job EXCEPT !.step = "finish", !.result = result]

(* executeAutoAccept(): the case as it is read.                            *)
ReadCase(w) ==
    LET j == jobs[w]
        status == cases[ThreadCase].status
    IN  /\ j.step = "case"
        /\ Goes(w, IF status = "ACCEPTED" THEN Skip(j, "SKIPPED_ALREADY_ACCEPTED")
                   ELSE IF ~Legal(status, "ACCEPTED") THEN Fallback(j)
                   ELSE [j EXCEPT !.step = "review", !.seen = status])
        /\ UNCHANGED <<caseVars, today, changes, message, thread, decisions, reviews, settings>>

ReadReview(w) ==
    LET j == jobs[w]
    IN  /\ j.step = "review"
        /\ Goes(w, IF j.msg \in reviews THEN Skip(j, "SKIPPED_HUMAN_ALREADY_REVIEWED")
                   ELSE [j EXCEPT !.step = "accept"])
        /\ UNCHANGED <<caseVars, today, changes, message, thread, decisions, reviews, settings>>

\* Faulty: the review is looked for before the transaction only.
Untouched(m) == TRUE

Touchable(m) == message[m] = "CLASSIFIED"

\* Faulty: the case is accepted whatever became of the status that was read.
CaseWhatever(j) == TRUE

CaseAsRead(j) == cases[ThreadCase].status = j.seen

(* The transaction: the guarded touch of the message, the case, the lease, *)
(* all or nothing; the first one to fail says how it goes on.              *)
Accept(w) ==
    LET j == jobs[w]
    IN  /\ j.step = "accept"
        /\ IF Touchable(j.msg) /\ CaseAsRead(j) /\ Owns(w)
           THEN /\ cases' = [cases EXCEPT ![ThreadCase] = Transitioned(@, "ACCEPTED")]
                /\ decisions' = Finalized(j.msg, "AUTO_ACCEPTED")
                /\ Ends(w)
           ELSE /\ UNCHANGED <<cases, decisions>>
                /\ Goes(w, IF ~Touchable(j.msg) THEN Skip(j, "SKIPPED_HUMAN_ALREADY_REVIEWED")
                           ELSE IF ~CaseAsRead(j) THEN [j EXCEPT !.step = "reread"]
                           ELSE Idle)
        /\ UNCHANGED <<holds, requests, today, changes, message, thread, reviews, settings>>

(* resolveAutoAcceptAbort(): also a reminder's move of the case comes here.*)
Reread(w) ==
    LET j == jobs[w]
    IN  /\ j.step = "reread"
        /\ Goes(w, IF cases[ThreadCase].status = "ACCEPTED"
                   THEN Skip(j, "SKIPPED_ALREADY_ACCEPTED") ELSE Fallback(j))
        /\ UNCHANGED <<caseVars, today, changes, message, thread, decisions, reviews, settings>>

-----------------------------------------------------------------------------
(* Routing: human review                                                   *)

(* tryRouteEmailAndThreadToHumanReview(): the transaction's first read     *)
(* fixes its snapshot...                                                   *)
RouteRead(w) ==
    LET j == jobs[w]
    IN  /\ j.step = "route"
        /\ Goes(w, CASE message[j.msg] = "RESOLVED" -> Skip(j, "SKIPPED_HUMAN_ALREADY_REVIEWED")
                     [] message[j.msg] = "HUMAN_REVIEW" -> Skip(j, j.result)
                     [] OTHER -> [j EXCEPT !.step = "update"])
        /\ UNCHANGED <<caseVars, today, changes, message, thread, decisions, reviews, settings>>

Routable(m) == message[m] = "CLASSIFIED"

Escalated == IF thread = "RESOLVED" THEN thread ELSE "HUMAN_REVIEW"

(* ...its updates see the row as it is. When a review came in between, the *)
(* re-check reads the snapshot again and takes the message for one that    *)
(* is in human review already.                                             *)
RouteUpdate(w) ==
    LET j == jobs[w]
        m == j.msg
    IN  /\ j.step = "update"
        /\ IF Owns(w)
           THEN /\ decisions' = Finalized(m, j.result)
                /\ IF Routable(m)
                   THEN /\ message' = [message EXCEPT ![m] = "HUMAN_REVIEW"]
                        /\ thread' = Escalated
                   ELSE UNCHANGED <<message, thread>>
           ELSE UNCHANGED <<decisions, message, thread>>
        /\ Ends(w)
        /\ UNCHANGED <<caseVars, today, changes, reviews, settings>>

-----------------------------------------------------------------------------
(* People, the engine and the environment                                  *)

(* createReview(): needs a classification, then resolves unconditionally.  *)
Review(m) ==
    /\ decisions[m] # None
    /\ Change
    /\ message' = [message EXCEPT ![m] = "RESOLVED"]
    /\ reviews' = reviews \union {m}
    /\ UNCHANGED <<caseVars, today, thread, decisions, settings, jobs>>

ResolveThread ==
    /\ thread # "RESOLVED"
    /\ Change
    /\ thread' = "RESOLVED"
    /\ UNCHANGED <<caseVars, today, message, decisions, reviews, settings, jobs>>

UpdateSettings ==
    /\ Change
    /\ \E new \in [enabled : BOOLEAN, auto : BOOLEAN] : new # settings /\ settings' = new
    /\ UNCHANGED <<caseVars, today, message, thread, decisions, reviews, jobs>>

Staff ==
    /\ \E a \in Actors : AskTransition(a) \/ ApplyTransition(a)
    /\ UNCHANGED aiVars

(* The renewal engine queues a reminder for a case.                        *)
Remind(c) ==
    /\ CycleStarted(c) # cases
    /\ cases' = CycleStarted(c)
    /\ UNCHANGED <<holds, requests, today, changes, aiVars>>

Held(m) == \E w \in Workers : jobs[w].msg = m /\ jobs[w].token = decisions[m].token

(* Two minutes pass; for a worker still at its job that is a stall.        *)
LeaseExpires(m) ==
    /\ decisions[m] # None
    /\ decisions[m].status = "PROCESSING" /\ ~decisions[m].stale
    /\ IF Held(m) THEN Change ELSE UNCHANGED changes
    /\ decisions' = [decisions EXCEPT ![m].stale = TRUE]
    /\ UNCHANGED <<caseVars, today, message, thread, reviews, settings, jobs>>

(* The process dies, or a database or transient provider error ends the    *)
(* job: BullMQ retries it or the recovery scans find its row again.        *)
Crash(w) ==
    /\ jobs[w] # Idle
    /\ Change
    /\ Ends(w)
    /\ UNCHANGED <<caseVars, today, message, thread, decisions, reviews, settings>>

-----------------------------------------------------------------------------
(* Specification                                                           *)

Work(w) ==
    \/ Classified(w) \/ FailedForGood(w)
    \/ Claim(w) \/ Finish(w)
    \/ ReadCase(w) \/ ReadReview(w) \/ Accept(w) \/ Reread(w)
    \/ RouteRead(w) \/ RouteUpdate(w)

Start(w, m) == StartClassify(w, m) \/ StartRoute(w, m)

Next ==
    \/ \E m \in Messages : Arrive(m) \/ Review(m) \/ LeaseExpires(m)
    \/ \E w \in Workers, m \in Messages : Start(w, m)
    \/ \E w \in Workers : Work(w) \/ Crash(w)
    \/ ResolveThread \/ UpdateSettings \/ Staff
    \/ \E c \in Cases : Remind(c)

Spec == Init /\ [][Next]_vars

(* Time passes, a job in flight goes on, and the two recovery scans (every *)
(* five minutes, every minute) bring up each message and decision again    *)
(* and again, while the workers come free again and again.                 *)
Fairness ==
    /\ \A m \in Messages : WF_vars(LeaseExpires(m))
    /\ \A w \in Workers : WF_vars(Work(w))
    /\ \A m \in Messages : SF_vars(\E w \in Workers : StartClassify(w, m))
    /\ \A m \in Messages : SF_vars(\E w \in Workers : StartRoute(w, m))

FairSpec == Spec /\ Fairness

-----------------------------------------------------------------------------
(* Properties                                                              *)

AutoAccepted(m) == decisions[m] # None /\ decisions[m].result = "AUTO_ACCEPTED"

\* The AI accepts a case only on a message that nobody has reviewed and that
\* nothing moved out of CLASSIFIED, however late in the router's work the
\* review came (createReview and executeAutoAccept race for the message row).
HumanHasLastWord ==
    [][\A m \in Messages : AutoAccepted(m)' /\ ~AutoAccepted(m) =>
        m \notin reviews /\ message[m] = "CLASSIFIED"]_vars

\* What a person has resolved, a message or a thread, no worker moves back to
\* human review, not even one that read it before; a thread reopens only with
\* a new message.
ResolvedStays ==
    [][/\ \A m \in Messages : message[m] = "RESOLVED" => message'[m] = "RESOLVED"
       /\ (thread = "RESOLVED" /\ thread' # "RESOLVED") =>
            \E m \in Messages : message[m] = "ABSENT" /\ message'[m] # "ABSENT"]_vars

\* Two accepting messages about one case, routed by two workers (one of them
\* perhaps superseded) while staff decide too, are one acceptance by the AI at
\* most, and a case the AI claims to have accepted is ACCEPTED for good.
AiAcceptsOnce ==
    LET by == {m \in Messages : AutoAccepted(m)}
    IN  /\ Cardinality(by) <= 1
        /\ by # {} => cases[ThreadCase].status = "ACCEPTED"

\* The outcome of a decision is written once: a worker whose lease was taken
\* over cannot rewrite what its successor recorded.
FinalDecisionsStay ==
    [][\A m \in Messages : Decided(m) => decisions'[m] = decisions[m]]_vars

\* No customer message is lost between the AI and the staff: once its decision
\* is over, either its case was accepted or the message is in human review or
\* was resolved by a person.
NothingFallsThrough ==
    \A m \in Messages : Decided(m) =>
        \/ message[m] \in {"HUMAN_REVIEW", "RESOLVED"}
        \/ decisions[m].result \in {"AUTO_ACCEPTED", "SKIPPED_ALREADY_ACCEPTED"}
           /\ cases[ThreadCase].status = "ACCEPTED"

\* Crashes, lost leases and pauses only delay: with the AI enabled again every
\* message leaves PENDING, every human-review decision is executed even while
\* automatic acceptance is paused, and the paused ones once it is resumed.
EventuallySettled ==
    /\ <>[]settings.enabled =>
        \A m \in Messages : message[m] = "PENDING" ~> message[m] # "PENDING"
    /\ \A m \in Messages :
        (Awaiting(m) /\ decisions[m].action = "HUMAN_REVIEW") ~> Decided(m)
    /\ <>[]settings.auto => \A m \in Messages : Awaiting(m) ~> Decided(m)

\* The router accepts cases under the rules staff are bound to: whatever a
\* worker, a request or a reminder read before, each case goes on with the
\* life CaseLifecycle allows.
CaseLifeGoesOn == Life!LifeGoesOn

\* What a person resolved and what a worker recorded both stand, whoever
\* comes back late.
OutcomesStand == ResolvedStays /\ FinalDecisionsStay
=============================================================================
