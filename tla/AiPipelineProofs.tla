-------------------------- MODULE AiPipelineProofs --------------------------
(***************************************************************************)
(* Proofs about AiPipeline: for any number of messages, cases, staff and   *)
(* workers, a person's decision outranks the router's, an outcome is       *)
(* written once, and no message is lost between the AI and the staff.      *)
(***************************************************************************)
EXTENDS AiPipeline, FiniteSetTheorems, TLAPS

-----------------------------------------------------------------------------
(* The inductive invariant                                                 *)

Accepted == ThreadCase # None /\ cases[ThreadCase].status = "ACCEPTED"
Known(m) == message[m] \in {"CLASSIFIED", "HUMAN_REVIEW", "RESOLVED"}
Attended(m) == message[m] \in {"HUMAN_REVIEW", "RESOLVED"}

\* What the outcome of a decision claims is so.
Justified(m, result) ==
    \/ Attended(m) /\ result # "AUTO_ACCEPTED"
    \/ Accepted /\ result \in {"AUTO_ACCEPTED", "SKIPPED_ALREADY_ACCEPTED"}

\* A request was legal for the status its case was read with.
RequestInv == \A a \in Actors : requests[a] # None => Legal(requests[a].seen, requests[a].to)

ReviewInv == \A m \in reviews : message[m] = "RESOLVED"

Lawful(m) ==
    decisions[m] # None =>
        /\ Known(m)
        /\ decisions[m].action = "AUTO_ACCEPT" => ThreadCase # None
        /\ IF Decided(m) THEN Justified(m, decisions[m].result) ELSE decisions[m].result = None

DecisionInv == \A m \in Messages : Lawful(m)

\* What a job is about to do still makes sense, whatever happens meanwhile.
Sound(j) ==
    /\ j.step = "idle" <=> j.msg = None
    /\ j.step \in {"idle", "classify", "claim"} => j.token = 0
    /\ j.step \notin {"idle", "classify"} => decisions[j.msg] # None
    /\ j.step \in {"case", "review", "accept", "reread"} => decisions[j.msg].action = "AUTO_ACCEPT"
    /\ j.step \in {"review", "accept"} => Legal(j.seen, "ACCEPTED")
    /\ j.step \in {"route", "update"} =>
         j.result \in {"ROUTED_TO_HUMAN_REVIEW", "SKIPPED_CONCURRENT_BUSINESS_DECISION"}
    /\ j.step = "finish" =>
         j.result \in Result \ {"AUTO_ACCEPTED"} /\ Justified(j.msg, j.result)

JobInv == \A w \in Workers : Sound(jobs[w])

\* The claims of a decision are counted by the stalls and crashes before them.
Counted(m) ==
    decisions[m] # None =>
        /\ decisions[m].status = "PENDING" => decisions[m].token = 0
        /\ decisions[m].status = "PROCESSING" => decisions[m].token >= 1
        /\ decisions[m].token <= changes + 1
        /\ decisions[m].status = "PROCESSING" /\ (decisions[m].stale \/ ~Held(m)) =>
             decisions[m].token <= changes

LeaseInv == \A m \in Messages : Counted(m)

OneAcceptance ==
    \A m, n \in Messages : AutoAccepted(m) /\ AutoAccepted(n) => m = n

PipelineInv ==
    TypeOK /\ RequestInv /\ ReviewInv /\ DecisionInv /\ JobInv /\ LeaseInv /\ OneAcceptance

-----------------------------------------------------------------------------
(* Operators                                                               *)

LEMMA Moves ==
  ASSUME NEW to \in Targets, NEW from, Legal(from, to)
  PROVE  from # "ACCEPTED" /\ from \in Status
  <1>1. to \in {"AWAITING_CUSTOMER", "ACCEPTED", "DO_NOT_RENEW", "FULFILLED"}
    BY DEF Targets, Predecessors
  <1> QED
    BY <1>1 DEF Legal, Predecessors, Status, ReminderEligible

LEMMA TransitionedRecord ==
  ASSUME NEW r \in CaseRecord, NEW to \in Targets
  PROVE  Transitioned(r, to) \in CaseRecord /\ Transitioned(r, to).status = to
  <1>1. to \in {"AWAITING_CUSTOMER", "ACCEPTED", "DO_NOT_RENEW", "FULFILLED"} /\ to \in Status
    BY DEF Targets, Predecessors, Status
  <1>2. /\ r.decision \in Decision /\ r.stamps \subseteq Stamp /\ r.status \in Status
        /\ r = [status |-> r.status, decision |-> r.decision, stamps |-> r.stamps]
    BY DEF CaseRecord
  <1>3. CASE to = "ACCEPTED"
    BY <1>1, <1>2, <1>3 DEF Transitioned, CaseRecord, Decision, Stamp
  <1>4. CASE to = "DO_NOT_RENEW"
    BY <1>1, <1>2, <1>4 DEF Transitioned, CaseRecord, Decision, Stamp
  <1>5. CASE to = "FULFILLED"
    BY <1>1, <1>2, <1>5 DEF Transitioned, CaseRecord, Decision, Stamp
  <1>6. CASE to = "AWAITING_CUSTOMER"
    BY <1>1, <1>2, <1>6 DEF Transitioned, CaseRecord, Decision, Stamp
  <1> QED
    BY <1>1, <1>3, <1>4, <1>5, <1>6

LEMMA IdleJob == Idle \in Job
  BY CasesAssumption DEF Idle, Job

LEMMA IdleFields == Idle.step = "idle" /\ Idle.msg = None /\ Idle.token = 0
  BY DEF Idle

LEMMA FreshDecision ==
  /\ \A action \in Action : NewDecision(action) \in RoutingDecision
  /\ RequiredReview \in RoutingDecision
  <1>1. 0 \in 0..(MaxChanges + 1)
    BY CasesAssumption
  <1>2. \A action \in Action : NewDecision(action) \in RoutingDecision
    BY <1>1 DEF NewDecision, RoutingDecision, Action
  <1> DEFINE d == NewDecision("HUMAN_REVIEW")
  <1>3. d \in RoutingDecision
    BY <1>2 DEF Action
  <1> HIDE DEF d
  <1>4. [d EXCEPT !.status = "SUCCEEDED", !.result = "CLASSIFIER_REQUIRED_HUMAN_REVIEW"]
          \in RoutingDecision
    BY <1>3 DEF RoutingDecision, Done, Result
  <1> QED
    BY <1>2, <1>4 DEF d, RequiredReview

-----------------------------------------------------------------------------
(* What no step undoes                                                     *)

Forward ==
    /\ Accepted => Accepted'
    /\ \A m \in Messages :
        /\ Known(m) => Known(m)'
        /\ Attended(m) => Attended(m)'
        /\ decisions[m] # None =>
             decisions'[m] # None /\ decisions'[m].action = decisions[m].action

LEMMA SoundStays ==
  ASSUME TypeOK, JobInv, Forward, NEW w \in Workers, jobs'[w] = jobs[w]
  PROVE  Sound(jobs[w])'
  <1>1. jobs[w] \in Job /\ Sound(jobs[w])
    BY DEF TypeOK, JobInv
  <1>2. jobs[w].msg # None => jobs[w].msg \in Messages
    BY <1>1 DEF Job
  <1> QED
    BY <1>1, <1>2 DEF Sound, Forward, Justified

LEMMA JobMoves ==
  ASSUME TypeOK, JobInv, Forward, NEW w \in Workers, \E j \in Job : Goes(w, j), Sound(jobs[w])'
  PROVE  jobs' \in [Workers -> Job] /\ JobInv'
  <1>1. /\ jobs' \in [Workers -> Job]
        /\ \A v \in Workers \ {w} : jobs'[v] = jobs[v]
    BY DEF TypeOK, Goes
  <1>2. ASSUME NEW v \in Workers PROVE Sound(jobs[v])'
    <2>1. CASE v = w
      BY <2>1
    <2>2. CASE v # w
      BY <1>1, <2>2, SoundStays
    <2> QED
      BY <2>1, <2>2
  <1> QED
    BY <1>1, <1>2 DEF JobInv

LEMMA JobsStay ==
  ASSUME TypeOK, JobInv, Forward, UNCHANGED jobs
  PROVE  JobInv'
  BY SoundStays DEF JobInv

LEMMA LawfulStays ==
  ASSUME DecisionInv, Forward, NEW m \in Messages, decisions'[m] = decisions[m]
  PROVE  Lawful(m)'
  BY DEF DecisionInv, Forward, Lawful, Justified, Decided

LEMMA CountedStays ==
  ASSUME TypeOK, LeaseInv, NEW m \in Messages, decisions'[m] = decisions[m],
         \/ Change
         \/ /\ UNCHANGED changes
            /\ \A w \in Workers :
                decisions[m].status = "PROCESSING" /\ jobs[w].msg = m
                /\ jobs[w].token = decisions[m].token =>
                  jobs'[w].msg = m /\ jobs'[w].token = jobs[w].token
  PROVE  Counted(m)'
  <1> SUFFICES ASSUME decisions[m] # None
               PROVE  Counted(m)'
    BY DEF Counted
  <1>1. /\ decisions[m] \in RoutingDecision /\ decisions[m].token \in Nat
        /\ changes \in Nat /\ Counted(m)
    BY CasesAssumption DEF TypeOK, CasesTypeOK, RoutingDecision, LeaseInv
  <1>2. CASE Change
    BY <1>1, <1>2 DEF Counted, Change
  <1>3. CASE /\ UNCHANGED changes
             /\ \A w \in Workers :
                 decisions[m].status = "PROCESSING" /\ jobs[w].msg = m
                 /\ jobs[w].token = decisions[m].token =>
                   jobs'[w].msg = m /\ jobs'[w].token = jobs[w].token
    <2>1. decisions[m].status = "PROCESSING" /\ Held(m) => Held(m)'
      BY <1>1, <1>3 DEF Held, Counted
    <2> QED
      BY <1>1, <1>3, <2>1 DEF Counted
  <1> QED
    BY <1>2, <1>3

-----------------------------------------------------------------------------
(* Steps that only move a job                                              *)

LEMMA OnlyJobs ==
  ASSUME PipelineInv, NEW w \in Workers, \E j \in Job : Goes(w, j), Sound(jobs[w])',
         UNCHANGED <<caseVars, today, message, thread, decisions, reviews, settings>>,
         \/ Change
         \/ /\ UNCHANGED changes
            /\ \/ jobs[w].token = 0
               \/ jobs'[w].token = jobs[w].token /\ jobs'[w].msg = jobs[w].msg
               \/ ~Owns(w)
  PROVE  PipelineInv'
  <1>1. TypeOK /\ JobInv /\ DecisionInv /\ LeaseInv /\ jobs \in [Workers -> Job]
    BY DEF PipelineInv, TypeOK
  <1>2. Forward
    BY DEF Forward, Accepted, Known, Attended, caseVars
  <1>3. jobs' \in [Workers -> Job] /\ JobInv'
    BY <1>1, <1>2, JobMoves
  <1>4. TypeOK'
    <2>1. changes' \in 0..MaxChanges
      BY <1>1, CasesAssumption DEF TypeOK, CasesTypeOK, Change
    <2> QED
      BY <1>1, <1>3, <2>1 DEF TypeOK, CasesTypeOK, caseVars
  <1>5. DecisionInv'
    BY <1>1, <1>2, LawfulStays DEF DecisionInv
  <1>6. ASSUME NEW m \in Messages PROVE Counted(m)'
    <2>1. CASE Change
      BY <1>1, <2>1, CountedStays
    <2>2. CASE /\ UNCHANGED changes
               /\ \/ jobs[w].token = 0
                  \/ jobs'[w].token = jobs[w].token /\ jobs'[w].msg = jobs[w].msg
                  \/ ~Owns(w)
      <3>1. ASSUME NEW v \in Workers, decisions[m].status = "PROCESSING", jobs[v].msg = m,
                   jobs[v].token = decisions[m].token, decisions[m] # None
            PROVE  jobs'[v].msg = m /\ jobs'[v].token = jobs[v].token
        <4>1. CASE v # w
          BY <1>1, <3>1, <4>1 DEF Goes
        <4>2. CASE v = w
          <5>1. Owns(w)
            BY <3>1, <4>2 DEF Owns
          <5>2. decisions[m].token >= 1
            BY <1>1, <3>1 DEF LeaseInv, Counted
          <5> QED
            BY <2>2, <3>1, <4>2, <5>1, <5>2
        <4> QED
          BY <4>1, <4>2
      <3>2. CASE decisions[m] = None
        BY <3>2 DEF Counted
      <3>3. CASE decisions[m] # None
        BY <1>1, <2>2, <3>1, <3>3, CountedStays
      <3> QED
        BY <3>2, <3>3
    <2> QED
      BY <2>1, <2>2
  <1>7. RequestInv' /\ ReviewInv' /\ OneAcceptance'
    BY DEF PipelineInv, RequestInv, ReviewInv, OneAcceptance, AutoAccepted, caseVars
  <1> QED
    BY <1>3, <1>4, <1>5, <1>6, <1>7 DEF PipelineInv, LeaseInv

LEMMA StartClassifyKeeps ==
  ASSUME PipelineInv, NEW w \in Workers, NEW m \in Messages, StartClassify(w, m)
  PROVE  PipelineInv'
  <1> DEFINE j == [Idle EXCEPT !.step = "classify", !.msg = m, !.auto = settings.auto]
  <1>1. /\ j \in Job /\ j.step = "classify" /\ j.msg = m /\ j.token = 0
        /\ Idle.token = 0 /\ m # None
    BY IdleJob, IdleFields, PipelineAssumption DEF Job, PipelineInv, TypeOK
  <1> HIDE DEF j
  <1>2. Goes(w, j) /\ jobs'[w] = j
    BY DEF j, StartClassify, Goes, PipelineInv, TypeOK
  <1>3. Sound(jobs[w])'
    BY <1>1, <1>2 DEF Sound
  <1> QED
    BY <1>1, <1>2, <1>3, OnlyJobs DEF StartClassify, caseVars

LEMMA StartRouteKeeps ==
  ASSUME PipelineInv, NEW w \in Workers, NEW m \in Messages, StartRoute(w, m)
  PROVE  PipelineInv'
  <1> DEFINE j == [Idle EXCEPT !.step = "claim", !.msg = m]
  <1>1. /\ j \in Job /\ j.step = "claim" /\ j.msg = m /\ j.token = 0
        /\ Idle.token = 0 /\ m # None
    BY IdleJob, IdleFields, PipelineAssumption DEF Job
  <1> HIDE DEF j
  <1>2. Goes(w, j) /\ jobs'[w] = j /\ decisions'[m] # None
    BY DEF j, StartRoute, Goes, Claimable, PipelineInv, TypeOK
  <1>3. Sound(jobs[w])'
    BY <1>1, <1>2 DEF Sound
  <1> QED
    BY <1>1, <1>2, <1>3, OnlyJobs DEF StartRoute, caseVars

\* A job under way names a message.
LEMMA JobFacts ==
  ASSUME PipelineInv, NEW w \in Workers
  PROVE  /\ jobs \in [Workers -> Job] /\ jobs[w] \in Job /\ Sound(jobs[w])
         /\ jobs[w].step # "idle" => jobs[w].msg \in Messages /\ Lawful(jobs[w].msg)
  <1>1. jobs \in [Workers -> Job] /\ jobs[w] \in Job /\ Sound(jobs[w])
    BY DEF PipelineInv, TypeOK, JobInv
  <1>2. jobs[w].step # "idle" => jobs[w].msg \in Messages
    BY <1>1 DEF Job, Sound
  <1> QED
    BY <1>1, <1>2 DEF PipelineInv, DecisionInv

LEMMA EndKeeps ==
  ASSUME PipelineInv, NEW w \in Workers, Ends(w),
         UNCHANGED <<caseVars, today, message, thread, decisions, reviews, settings>>,
         Change \/ (UNCHANGED changes /\ (~Owns(w) \/ jobs[w].token = 0))
  PROVE  PipelineInv'
  <1>1. \E j \in Job : Goes(w, j)
    BY IdleJob DEF Ends
  <1>2. jobs'[w] = Idle
    BY DEF PipelineInv, TypeOK, Ends, Goes
  <1>3. Sound(jobs[w])'
    BY <1>2 DEF Sound, Idle
  <1> QED
    BY <1>1, <1>3, OnlyJobs

\* One of the router's reads: the job goes on, with what it saw.
LEMMA ReadMoves ==
  ASSUME PipelineInv, NEW w \in Workers, jobs[w].step # "idle", NEW j \in Job, Goes(w, j),
         UNCHANGED <<caseVars, today, changes, message, thread, decisions, reviews, settings>>,
         j.msg = jobs[w].msg, j.token = jobs[w].token,
         j.step \in {"review", "accept", "reread", "finish", "route", "update"},
         decisions[j.msg] # None,
         j.step = "reread" => decisions[j.msg].action = "AUTO_ACCEPT",
         j.step \in {"review", "accept"} =>
           decisions[j.msg].action = "AUTO_ACCEPT" /\ Legal(j.seen, "ACCEPTED"),
         j.step \in {"route", "update"} =>
           j.result \in {"ROUTED_TO_HUMAN_REVIEW", "SKIPPED_CONCURRENT_BUSINESS_DECISION"},
         j.step = "finish" =>
           j.result \in Result \ {"AUTO_ACCEPTED"} /\ Justified(j.msg, j.result)
  PROVE  PipelineInv'
  <1>1. jobs'[w] = j /\ j.msg # None
    BY JobFacts, PipelineAssumption DEF Goes
  <1>2. Sound(jobs[w])'
    BY <1>1 DEF Sound, Justified, Attended, Accepted, caseVars
  <1> QED
    BY <1>1, <1>2, OnlyJobs

LEMMA NextJobs ==
  ASSUME NEW j \in Job, NEW result \in Result
  PROVE  /\ LET k == Skip(j, result) IN
              k \in Job /\ k.step = "finish" /\ k.msg = j.msg /\ k.token = j.token /\ k.result = result
         /\ LET k == Fallback(j) IN
              /\ k \in Job /\ k.step = "route" /\ k.msg = j.msg /\ k.token = j.token
              /\ k.result = "SKIPPED_CONCURRENT_BUSINESS_DECISION"
  BY DEF Skip, Fallback, Job, Result

LEMMA ReadCaseKeeps ==
  ASSUME PipelineInv, NEW w \in Workers, ReadCase(w)
  PROVE  PipelineInv'
  <1> DEFINE j == jobs[w]
             status == cases[ThreadCase].status
  <1>1. /\ j \in Job /\ Sound(j) /\ j.step = "case" /\ Lawful(j.msg)
        /\ decisions[j.msg] # None /\ decisions[j.msg].action = "AUTO_ACCEPT"
    BY JobFacts DEF ReadCase, Sound
  <1>2. ThreadCase # None /\ ThreadCase \in Cases /\ status \in Status
    BY <1>1, PipelineAssumption DEF Lawful, PipelineInv, TypeOK, CasesTypeOK, CaseRecord
  <1> HIDE DEF j, status
  <1>3. CASE status = "ACCEPTED"
    <2> DEFINE k == Skip(j, "SKIPPED_ALREADY_ACCEPTED")
    <2>1. /\ k \in Job /\ k.step = "finish" /\ k.msg = j.msg /\ k.token = j.token
          /\ k.result = "SKIPPED_ALREADY_ACCEPTED"
      BY <1>1, NextJobs DEF Result
    <2>2. Goes(w, k)
      BY <1>3 DEF ReadCase, j, status
    <2>3. k.result \in Result \ {"AUTO_ACCEPTED"} /\ Justified(k.msg, k.result)
      BY <1>2, <1>3, <2>1 DEF Justified, Accepted, Result, status
    <2> HIDE DEF k
    <2> QED
      BY <1>1, <2>1, <2>2, <2>3, ReadMoves DEF ReadCase, j
  <1>4. CASE status # "ACCEPTED" /\ ~Legal(status, "ACCEPTED")
    <2> DEFINE k == Fallback(j)
    <2>1. /\ k \in Job /\ k.step = "route" /\ k.msg = j.msg /\ k.token = j.token
          /\ k.result = "SKIPPED_CONCURRENT_BUSINESS_DECISION"
      BY <1>1, NextJobs DEF Result
    <2>2. Goes(w, k)
      BY <1>4 DEF ReadCase, j, status
    <2> HIDE DEF k
    <2> QED
      BY <1>1, <2>1, <2>2, ReadMoves DEF ReadCase, j
  <1>5. CASE status # "ACCEPTED" /\ Legal(status, "ACCEPTED")
    <2> DEFINE k == [j EXCEPT !.step = "review", !.seen = status]
    <2>1. /\ k \in Job /\ k.step = "review" /\ k.msg = j.msg /\ k.token = j.token /\ k.seen = status
      BY <1>1, <1>2 DEF Job
    <2>2. Goes(w, k)
      BY <1>5 DEF ReadCase, j, status
    <2> HIDE DEF k
    <2> QED
      BY <1>1, <1>5, <2>1, <2>2, ReadMoves DEF ReadCase, j
  <1> QED
    BY <1>3, <1>4, <1>5

LEMMA ReadReviewKeeps ==
  ASSUME PipelineInv, NEW w \in Workers, ReadReview(w)
  PROVE  PipelineInv'
  <1> DEFINE j == jobs[w]
  <1>1. /\ j \in Job /\ Sound(j) /\ j.step = "review" /\ Legal(j.seen, "ACCEPTED")
        /\ decisions[j.msg] # None /\ decisions[j.msg].action = "AUTO_ACCEPT"
    BY JobFacts DEF ReadReview, Sound
  <1> HIDE DEF j
  <1>2. CASE j.msg \in reviews
    <2> DEFINE k == Skip(j, "SKIPPED_HUMAN_ALREADY_REVIEWED")
    <2>1. /\ k \in Job /\ k.step = "finish" /\ k.msg = j.msg /\ k.token = j.token
          /\ k.result = "SKIPPED_HUMAN_ALREADY_REVIEWED"
      BY <1>1, NextJobs DEF Result
    <2>2. Goes(w, k)
      BY <1>2 DEF ReadReview, j
    <2>3. k.result \in Result \ {"AUTO_ACCEPTED"} /\ Justified(k.msg, k.result)
      BY <1>2, <2>1 DEF Justified, Attended, Result, PipelineInv, ReviewInv
    <2> HIDE DEF k
    <2> QED
      BY <1>1, <2>1, <2>2, <2>3, ReadMoves DEF ReadReview, j
  <1>3. CASE j.msg \notin reviews
    <2> DEFINE k == [j EXCEPT !.step = "accept"]
    <2>1. /\ k \in Job /\ k.step = "accept" /\ k.msg = j.msg /\ k.token = j.token /\ k.seen = j.seen
      BY <1>1 DEF Job
    <2>2. Goes(w, k)
      BY <1>3 DEF ReadReview, j
    <2> HIDE DEF k
    <2> QED
      BY <1>1, <2>1, <2>2, ReadMoves DEF ReadReview, j
  <1> QED
    BY <1>2, <1>3

LEMMA RereadKeeps ==
  ASSUME PipelineInv, NEW w \in Workers, Reread(w)
  PROVE  PipelineInv'
  <1> DEFINE j == jobs[w]
  <1>1. /\ j \in Job /\ Sound(j) /\ j.step = "reread" /\ Lawful(j.msg)
        /\ decisions[j.msg] # None /\ ThreadCase # None
    BY JobFacts DEF Reread, Sound, Lawful
  <1> HIDE DEF j
  <1>2. CASE cases[ThreadCase].status = "ACCEPTED"
    <2> DEFINE k == Skip(j, "SKIPPED_ALREADY_ACCEPTED")
    <2>1. /\ k \in Job /\ k.step = "finish" /\ k.msg = j.msg /\ k.token = j.token
          /\ k.result = "SKIPPED_ALREADY_ACCEPTED"
      BY <1>1, NextJobs DEF Result
    <2>2. Goes(w, k)
      BY <1>2 DEF Reread, j
    <2>3. k.result \in Result \ {"AUTO_ACCEPTED"} /\ Justified(k.msg, k.result)
      BY <1>1, <1>2, <2>1 DEF Justified, Accepted, Result
    <2> HIDE DEF k
    <2> QED
      BY <1>1, <2>1, <2>2, <2>3, ReadMoves DEF Reread, j
  <1>3. CASE cases[ThreadCase].status # "ACCEPTED"
    <2> DEFINE k == Fallback(j)
    <2>1. /\ k \in Job /\ k.step = "route" /\ k.msg = j.msg /\ k.token = j.token
          /\ k.result = "SKIPPED_CONCURRENT_BUSINESS_DECISION"
      BY <1>1, NextJobs DEF Result
    <2>2. Goes(w, k)
      BY <1>3 DEF Reread, j
    <2> HIDE DEF k
    <2> QED
      BY <1>1, <2>1, <2>2, ReadMoves DEF Reread, j
  <1> QED
    BY <1>2, <1>3

LEMMA RouteReadKeeps ==
  ASSUME PipelineInv, NEW w \in Workers, RouteRead(w)
  PROVE  PipelineInv'
  <1> DEFINE j == jobs[w]
  <1>1. /\ j \in Job /\ Sound(j) /\ j.step = "route" /\ decisions[j.msg] # None
        /\ j.result \in {"ROUTED_TO_HUMAN_REVIEW", "SKIPPED_CONCURRENT_BUSINESS_DECISION"}
    BY JobFacts DEF RouteRead, Sound
  <1> HIDE DEF j
  <1>2. ASSUME message[j.msg] \in {"RESOLVED", "HUMAN_REVIEW"},
               NEW result \in {"SKIPPED_HUMAN_ALREADY_REVIEWED", "ROUTED_TO_HUMAN_REVIEW",
                               "SKIPPED_CONCURRENT_BUSINESS_DECISION"},
               Goes(w, Skip(j, result))
        PROVE  PipelineInv'
    <2> DEFINE k == Skip(j, result)
    <2>1. /\ k \in Job /\ k.step = "finish" /\ k.msg = j.msg /\ k.token = j.token
          /\ k.result = result
      BY <1>1, NextJobs DEF Result
    <2>2. k.result \in Result \ {"AUTO_ACCEPTED"} /\ Justified(k.msg, k.result)
      BY <1>2, <2>1 DEF Justified, Attended, Result
    <2> HIDE DEF k
    <2> QED
      BY <1>1, <1>2, <2>1, <2>2, ReadMoves DEF RouteRead, j, k
  <1>3. CASE message[j.msg] = "RESOLVED"
    <2>1. Goes(w, Skip(j, "SKIPPED_HUMAN_ALREADY_REVIEWED"))
      BY <1>3 DEF RouteRead, j
    <2> QED
      BY <1>2, <1>3, <2>1
  <1>4. CASE message[j.msg] = "HUMAN_REVIEW"
    <2>1. Goes(w, Skip(j, j.result))
      BY <1>4 DEF RouteRead, j
    <2> QED
      BY <1>1, <1>2, <1>4, <2>1
  <1>5. CASE message[j.msg] \notin {"RESOLVED", "HUMAN_REVIEW"}
    <2> DEFINE k == [j EXCEPT !.step = "update"]
    <2>1. /\ k \in Job /\ k.step = "update" /\ k.msg = j.msg /\ k.token = j.token
          /\ k.result = j.result
      BY <1>1 DEF Job
    <2>2. Goes(w, k)
      BY <1>5 DEF RouteRead, j
    <2> HIDE DEF k
    <2> QED
      BY <1>1, <2>1, <2>2, ReadMoves DEF RouteRead, j
  <1> QED
    BY <1>3, <1>4, <1>5

LEMMA CrashKeeps ==
  ASSUME PipelineInv, NEW w \in Workers, Crash(w)
  PROVE  PipelineInv'
  BY EndKeeps DEF Crash

-----------------------------------------------------------------------------
(* Steps that write an outcome                                             *)

LEMMA OutcomeWritten ==
  ASSUME TypeOK, NEW m \in Messages, decisions[m] # None, NEW result \in Result,
         decisions' = Finalized(m, result)
  PROVE  /\ decisions' \in [Messages -> RoutingDecision \union {None}]
         /\ decisions'[m] # None /\ decisions'[m].result = result
         /\ decisions'[m].action = decisions[m].action /\ decisions'[m].token = decisions[m].token
         /\ decisions'[m].status \in Done
         /\ \A n \in Messages \ {m} : decisions'[n] = decisions[n]
  <1> DEFINE d == [decisions[m] EXCEPT !.status = StatusFor(result), !.result = result, !.stale = FALSE]
  <1>1. decisions[m] \in RoutingDecision /\ StatusFor(result) \in Done
    BY DEF TypeOK, StatusFor, Done
  <1>2. /\ d \in RoutingDecision /\ d.result = result /\ d.action = decisions[m].action
        /\ d.token = decisions[m].token /\ d.status \in Done
    BY <1>1 DEF RoutingDecision
  <1> HIDE DEF d
  <1>3. decisions' = [decisions EXCEPT ![m] = d]
    BY DEF Finalized, d
  <1> QED
    BY <1>2, <1>3, NoneAssumption DEF TypeOK

\* The holder of the lease writes an outcome that is so, and is done.
LEMMA OutcomeKeeps ==
  ASSUME PipelineInv, NEW w \in Workers, NEW result \in Result,
         jobs[w].step \notin {"idle", "classify", "claim"},
         Owns(w), Ends(w), decisions' = Finalized(jobs[w].msg, result),
         UNCHANGED <<holds, requests, today, changes, reviews, settings>>,
         cases' \in [Cases -> CaseRecord], Accepted => Accepted',
         message' \in [Messages -> MessageStatus], thread' \in {"OPEN", "HUMAN_REVIEW", "RESOLVED"},
         \A m \in Messages : /\ Known(m) => Known(m)'
                             /\ Attended(m) => Attended(m)'
                             /\ message[m] = "RESOLVED" => message'[m] = "RESOLVED",
         \A m \in Messages : m = jobs[w].msg => Justified(m, result)',
         result = "AUTO_ACCEPTED" => ~Accepted
  PROVE  PipelineInv'
  <1> PICK m \in Messages : m = jobs[w].msg
    BY JobFacts
  <1>1. /\ TypeOK /\ JobInv /\ DecisionInv /\ LeaseInv /\ jobs \in [Workers -> Job]
        /\ decisions[m] # None /\ decisions[m].status = "PROCESSING"
        /\ Lawful(m)
    BY JobFacts DEF PipelineInv, TypeOK, Owns, Sound
  <1>2. /\ decisions' \in [Messages -> RoutingDecision \union {None}]
        /\ decisions'[m] # None /\ decisions'[m].result = result
        /\ decisions'[m].action = decisions[m].action /\ decisions'[m].token = decisions[m].token
        /\ decisions'[m].status \in Done
        /\ \A n \in Messages \ {m} : decisions'[n] = decisions[n]
    BY <1>1, OutcomeWritten
  <1>3. Forward
    BY <1>2 DEF Forward
  <1>4. jobs' \in [Workers -> Job] /\ JobInv'
    <2>1. jobs'[w] = Idle
      BY <1>1 DEF Ends, Goes
    <2>2. Sound(jobs[w])'
      BY <2>1 DEF Sound, Idle
    <2> QED
      BY <1>1, <1>3, <2>2, IdleJob, JobMoves DEF Ends
  <1>5. TypeOK'
    BY <1>1, <1>2, <1>4 DEF TypeOK, CasesTypeOK
  <1>6. DecisionInv'
    <2>1. Lawful(m)'
      BY <1>1, <1>2, <1>3 DEF Lawful, Forward, Decided
    <2> QED
      BY <1>1, <1>2, <1>3, <2>1, LawfulStays DEF DecisionInv
  <1>7. ASSUME NEW n \in Messages PROVE Counted(n)'
    <2>1. CASE n = m
      BY <1>1, <1>2, <2>1 DEF LeaseInv, Counted, Done
    <2>2. CASE n # m
      <3>1. ASSUME NEW v \in Workers, jobs[v].msg = n PROVE jobs'[v] = jobs[v]
        BY <1>1, <2>2, <3>1 DEF Ends, Goes
      <3> QED
        BY <1>1, <1>2, <2>2, <3>1, CountedStays
    <2> QED
      BY <2>1, <2>2
  <1>8. OneAcceptance'
    <2> SUFFICES ASSUME NEW n \in Messages, NEW k \in Messages, AutoAccepted(n)', AutoAccepted(k)'
                 PROVE  n = k
      BY DEF OneAcceptance
    <2>1. ASSUME NEW i \in Messages, AutoAccepted(i), i # m PROVE Accepted
      BY <1>1, <2>1, NoneAssumption DEF DecisionInv, Lawful, AutoAccepted, Justified, Result
    <2> QED
      BY <1>2, <2>1 DEF AutoAccepted, PipelineInv, OneAcceptance
  <1>9. RequestInv' /\ ReviewInv'
    BY <1>1 DEF PipelineInv, RequestInv, ReviewInv, TypeOK
  <1> QED
    BY <1>4, <1>5, <1>6, <1>7, <1>8, <1>9 DEF PipelineInv, LeaseInv

LEMMA FinishKeeps ==
  ASSUME PipelineInv, NEW w \in Workers, Finish(w)
  PROVE  PipelineInv'
  <1>1. CASE ~Owns(w)
    BY <1>1, EndKeeps DEF Finish
  <1>2. CASE Owns(w)
    <2>1. PICK r \in Result : r = jobs[w].result
      BY JobFacts DEF Finish, Sound
    <2>2. /\ jobs[w].step = "finish" /\ r # "AUTO_ACCEPTED" /\ Justified(jobs[w].msg, r)
          /\ decisions' = Finalized(jobs[w].msg, r) /\ Ends(w)
      BY <1>2, <2>1, JobFacts DEF Finish, Sound
    <2>3. \A m \in Messages : m = jobs[w].msg => Justified(m, r)'
      BY <2>2 DEF Finish, Justified, Attended, Accepted, caseVars
    <2> QED
      BY <1>2, <2>2, <2>3, OutcomeKeeps
         DEF Finish, PipelineInv, TypeOK, CasesTypeOK, Accepted, Known, Attended, caseVars
  <1> QED
    BY <1>1, <1>2

LEMMA RouteUpdateKeeps ==
  ASSUME PipelineInv, NEW w \in Workers, RouteUpdate(w)
  PROVE  PipelineInv'
  <1>1. CASE ~Owns(w)
    BY <1>1, EndKeeps DEF RouteUpdate
  <1>2. CASE Owns(w)
    <2>1. PICK m \in Messages : m = jobs[w].msg
      BY JobFacts DEF RouteUpdate
    <2>2. PICK r \in Result : r = jobs[w].result
      BY JobFacts DEF RouteUpdate, Sound, Result
    <2>3. /\ jobs[w].step = "update" /\ r # "AUTO_ACCEPTED" /\ Known(m)
          /\ decisions' = Finalized(m, r) /\ Ends(w)
      BY <1>2, <2>1, <2>2, JobFacts DEF RouteUpdate, Sound, Lawful
    <2>4. /\ message \in [Messages -> MessageStatus]
          /\ thread \in {"OPEN", "HUMAN_REVIEW", "RESOLVED"}
      BY DEF PipelineInv, TypeOK
    <2>5. /\ message' \in [Messages -> MessageStatus]
          /\ thread' \in {"OPEN", "HUMAN_REVIEW", "RESOLVED"}
          /\ message'[m] \in {"HUMAN_REVIEW", "RESOLVED"}
          /\ message[m] = "RESOLVED" => message'[m] = "RESOLVED"
          /\ \A n \in Messages \ {m} : message'[n] = message[n]
      <3>1. CASE Routable(m)
        BY <1>2, <2>1, <2>4, <3>1 DEF RouteUpdate, Routable, Escalated, MessageStatus
      <3>2. CASE ~Routable(m)
        BY <1>2, <2>1, <2>3, <2>4, <3>2 DEF RouteUpdate, Routable, Known
      <3> QED
        BY <3>1, <3>2
    <2>6. Justified(m, r)'
      BY <2>3, <2>5 DEF Justified, Attended
    <2>7. \A n \in Messages : /\ Known(n) => Known(n)'
                              /\ Attended(n) => Attended(n)'
                              /\ message[n] = "RESOLVED" => message'[n] = "RESOLVED"
      BY <2>5 DEF Known, Attended
    <2> QED
      BY <1>2, <2>1, <2>3, <2>5, <2>6, <2>7, OutcomeKeeps
         DEF RouteUpdate, PipelineInv, TypeOK, CasesTypeOK, Accepted, caseVars
  <1> QED
    BY <1>1, <1>2

LEMMA AcceptKeeps ==
  ASSUME PipelineInv, NEW w \in Workers, Accept(w)
  PROVE  PipelineInv'
  <1>1. PICK m \in Messages : m = jobs[w].msg
    BY JobFacts DEF Accept
  <1> DEFINE j == jobs[w]
  <1>2. /\ j \in Job /\ j.step = "accept" /\ j.msg = m /\ Lawful(m) /\ Known(m)
        /\ decisions[m] # None /\ decisions[m].action = "AUTO_ACCEPT"
        /\ Legal(j.seen, "ACCEPTED") /\ ThreadCase # None /\ ThreadCase \in Cases
    BY <1>1, JobFacts, PipelineAssumption DEF Accept, Sound, Lawful
  <1>3. CASE Touchable(m) /\ CaseAsRead(j) /\ Owns(w)
    <2>1. /\ cases' = [cases EXCEPT ![ThreadCase] = Transitioned(@, "ACCEPTED")]
          /\ decisions' = Finalized(m, "AUTO_ACCEPTED") /\ Ends(w)
          /\ cases \in [Cases -> CaseRecord]
      BY <1>1, <1>3 DEF Accept, PipelineInv, TypeOK, CasesTypeOK
    <2>2. /\ Transitioned(cases[ThreadCase], "ACCEPTED") \in CaseRecord
          /\ Transitioned(cases[ThreadCase], "ACCEPTED").status = "ACCEPTED"
      BY <1>2, <2>1, TransitionedRecord DEF Targets, Predecessors
    <2>3. cases' \in [Cases -> CaseRecord] /\ cases'[ThreadCase].status = "ACCEPTED"
      BY <1>2, <2>1, <2>2
    <2>4. ~Accepted
      BY <1>2, <1>3, Moves DEF Accepted, CaseAsRead, Targets, Predecessors
    <2>5. Accepted' /\ \A n \in Messages : n = jobs[w].msg => Justified(n, "AUTO_ACCEPTED")'
      BY <1>2, <2>3 DEF Accepted, Justified
    <2>6. "AUTO_ACCEPTED" \in Result
      BY DEF Result
    <2> QED
      BY <1>1, <1>2, <1>3, <2>1, <2>3, <2>4, <2>5, <2>6, OutcomeKeeps
         DEF Accept, PipelineInv, TypeOK, Known, Attended
  <1>4. CASE ~Touchable(m)
    <2> DEFINE k == Skip(j, "SKIPPED_HUMAN_ALREADY_REVIEWED")
    <2>1. /\ k \in Job /\ k.step = "finish" /\ k.msg = m /\ k.token = j.token
          /\ k.result = "SKIPPED_HUMAN_ALREADY_REVIEWED"
      BY <1>2, NextJobs DEF Result
    <2>2. Goes(w, k)
      BY <1>1, <1>4 DEF Accept
    <2>3. k.result \in Result \ {"AUTO_ACCEPTED"} /\ Justified(k.msg, k.result)
      BY <1>2, <1>4, <2>1 DEF Justified, Attended, Known, Touchable, Result
    <2> HIDE DEF k
    <2> QED
      BY <1>1, <1>2, <1>4, <2>1, <2>2, <2>3, ReadMoves DEF Accept, caseVars
  <1>5. CASE Touchable(m) /\ ~CaseAsRead(j)
    <2> DEFINE k == [j EXCEPT !.step = "reread"]
    <2>1. /\ k \in Job /\ k.step = "reread" /\ k.msg = m /\ k.token = j.token
      BY <1>2 DEF Job
    <2>2. Goes(w, k)
      BY <1>1, <1>5 DEF Accept
    <2> HIDE DEF k
    <2> QED
      BY <1>1, <1>2, <1>5, <2>1, <2>2, ReadMoves DEF Accept, caseVars
  <1>6. CASE Touchable(m) /\ CaseAsRead(j) /\ ~Owns(w)
    BY <1>1, <1>6, EndKeeps DEF Accept, Ends, caseVars
  <1> QED
    BY <1>3, <1>4, <1>5, <1>6

-----------------------------------------------------------------------------
(* Claims and classifications                                              *)

LEMMA ClaimKeeps ==
  ASSUME PipelineInv, NEW w \in Workers, Claim(w)
  PROVE  PipelineInv'
  <1>1. PICK m \in Messages : m = jobs[w].msg
    BY JobFacts DEF Claim
  <1>2. /\ TypeOK /\ JobInv /\ DecisionInv /\ LeaseInv /\ jobs \in [Workers -> Job]
        /\ jobs[w] \in Job /\ jobs[w].step = "claim" /\ jobs[w].token = 0 /\ Lawful(m) /\ Counted(m)
        /\ decisions[m] # None /\ decisions[m] \in RoutingDecision /\ m # None
        /\ decisions[m].token \in Nat /\ changes \in 0..MaxChanges /\ MaxChanges \in Nat
    BY <1>1, JobFacts, PipelineAssumption, CasesAssumption
       DEF Claim, Sound, PipelineInv, TypeOK, CasesTypeOK, LeaseInv, RoutingDecision
  <1>3. CASE ~Claimable(m)
    BY <1>1, <1>2, <1>3, EndKeeps DEF Claim, caseVars
  <1>4. CASE Claimable(m)
    <2> DEFINE token == decisions[m].token + 1
               d == [decisions[m] EXCEPT !.status = "PROCESSING", !.token = token, !.stale = FALSE]
               auto == decisions[m].action = "AUTO_ACCEPT"
               j == IF auto THEN [jobs[w] EXCEPT !.step = "case", !.token = token]
                    ELSE [jobs[w] EXCEPT !.step = "route", !.token = token,
                                         !.result = "ROUTED_TO_HUMAN_REVIEW"]
    <2>1. token \in 0..(MaxChanges + 1) /\ token >= 1 /\ token <= changes + 1
      BY <1>2, <1>4 DEF Claimable, Counted
    <2> HIDE DEF token
    <2>2. /\ d \in RoutingDecision /\ d.status = "PROCESSING" /\ d.token = token
          /\ d.stale = FALSE /\ d.action = decisions[m].action /\ d.result = decisions[m].result
      BY <1>2, <2>1 DEF RoutingDecision
    <2>3. /\ j \in Job /\ j.msg = m /\ j.token = token
          /\ j.step = IF auto THEN "case" ELSE "route"
          /\ ~auto => j.result = "ROUTED_TO_HUMAN_REVIEW"
      BY <1>1, <1>2, <2>1 DEF Job, Result
    <2>4. decisions' = [decisions EXCEPT ![m] = d] /\ Goes(w, j)
      BY <1>1, <1>4 DEF Claim, token
    <2> HIDE DEF d, j, auto
    <2>5. /\ decisions' \in [Messages -> RoutingDecision \union {None}]
          /\ decisions'[m] = d /\ d # None /\ \A n \in Messages \ {m} : decisions'[n] = decisions[n]
          /\ jobs'[w] = j
      BY <1>2, <2>2, <2>4, NoneAssumption DEF TypeOK, Goes
    <2>6. Forward
      BY <2>2, <2>5 DEF Forward, Accepted, Known, Attended, Claim, caseVars
    <2>7. Sound(jobs[w])'
      BY <1>2, <2>2, <2>3, <2>5 DEF Sound, auto
    <2>8. jobs' \in [Workers -> Job] /\ JobInv'
      BY <1>2, <2>3, <2>4, <2>6, <2>7, JobMoves
    <2>9. TypeOK'
      BY <1>2, <2>5, <2>8 DEF TypeOK, CasesTypeOK, Claim, caseVars
    <2>10. decisions[m].status \notin Done
      BY <1>4 DEF Claimable, Done
    <2>11. DecisionInv'
      <3>1. Lawful(m)'
        BY <1>2, <2>2, <2>5, <2>6, <2>10 DEF Lawful, Forward, Decided, Done
      <3> QED
        BY <1>2, <2>5, <2>6, <3>1, LawfulStays DEF DecisionInv
    <2>12. ASSUME NEW n \in Messages PROVE Counted(n)'
      <3>1. CASE n = m
        <4>1. Held(m)'
          BY <2>2, <2>3, <2>5 DEF Held
        <4> QED
          BY <2>1, <2>2, <2>5, <3>1, <4>1 DEF Counted, Claim
      <3>2. CASE n # m
        <4>1. ASSUME NEW v \in Workers, jobs[v].msg = n PROVE jobs'[v] = jobs[v]
          BY <1>1, <1>2, <2>4, <3>2, <4>1 DEF Goes
        <4> QED
          BY <1>2, <2>5, <3>2, <4>1, CountedStays DEF Claim
      <3> QED
        BY <3>1, <3>2
    <2>13. OneAcceptance'
      BY <2>2, <2>5, <1>2 DEF PipelineInv, OneAcceptance, AutoAccepted
    <2>14. RequestInv' /\ ReviewInv'
      BY DEF PipelineInv, RequestInv, ReviewInv, Claim, caseVars
    <2> QED
      BY <2>8, <2>9, <2>11, <2>12, <2>13, <2>14 DEF PipelineInv, LeaseInv
  <1> QED
    BY <1>3, <1>4

\* A message that waits has no decision yet: it gets the one its answer calls for.
LEMMA DecisionCreated ==
  ASSUME PipelineInv, NEW w \in Workers, Ends(w), jobs[w].token = 0, NEW m \in Messages,
         message[m] = "PENDING", NEW d \in RoutingDecision, NEW status \in {"CLASSIFIED", "HUMAN_REVIEW"},
         message' = [message EXCEPT ![m] = status], decisions' = [decisions EXCEPT ![m] = d],
         UNCHANGED <<caseVars, today, changes, thread, reviews, settings>>,
         d.token = 0, d.action = "AUTO_ACCEPT" => ThreadCase # None,
         \/ d.status = "PENDING" /\ d.result = None
         \/ /\ d.status \in Done /\ status = "HUMAN_REVIEW"
            /\ d.result = "CLASSIFIER_REQUIRED_HUMAN_REVIEW"
  PROVE  PipelineInv'
  <1>1. /\ TypeOK /\ JobInv /\ DecisionInv /\ LeaseInv /\ jobs \in [Workers -> Job]
        /\ message \in [Messages -> MessageStatus] /\ changes \in Nat
        /\ decisions \in [Messages -> RoutingDecision \union {None}]
    BY CasesAssumption DEF PipelineInv, TypeOK, CasesTypeOK
  <1>2. decisions[m] = None /\ ~Known(m) /\ ~Attended(m)
    BY <1>1 DEF DecisionInv, Lawful, Known, Attended
  <1>3. /\ decisions' \in [Messages -> RoutingDecision \union {None}] /\ decisions'[m] = d
        /\ message' \in [Messages -> MessageStatus] /\ message'[m] = status
        /\ \A n \in Messages \ {m} : decisions'[n] = decisions[n] /\ message'[n] = message[n]
    BY <1>1 DEF MessageStatus
  <1>4. Forward
    BY <1>2, <1>3 DEF Forward, Accepted, Known, Attended, caseVars
  <1>5. jobs' \in [Workers -> Job] /\ JobInv'
    <2>1. jobs'[w] = Idle
      BY <1>1 DEF Ends, Goes
    <2>2. Sound(jobs[w])'
      BY <2>1 DEF Sound, Idle
    <2> QED
      BY <1>1, <1>4, <2>2, IdleJob, JobMoves DEF Ends
  <1>6. TypeOK'
    BY <1>1, <1>3, <1>5 DEF TypeOK, CasesTypeOK, caseVars
  <1>7. DecisionInv'
    <2>1. Lawful(m)'
      BY <1>3, NoneAssumption DEF Lawful, Known, Decided, Done, Justified, Attended, Result
    <2> QED
      BY <1>1, <1>3, <1>4, <2>1, LawfulStays DEF DecisionInv
  <1>8. ASSUME NEW n \in Messages PROVE Counted(n)'
    <2>1. CASE n = m
      BY <1>1, <1>3, <2>1 DEF Counted, Done
    <2>2. CASE n # m
      <3>1. CASE decisions[n] = None
        BY <1>3, <2>2, <3>1 DEF Counted
      <3>2. CASE decisions[n] # None
        <4>1. decisions[n].status = "PROCESSING" => decisions[n].token # 0
          BY <1>1, <3>2 DEF LeaseInv, Counted
        <4>2. \A v \in Workers \ {w} : jobs'[v] = jobs[v]
          BY <1>1 DEF Ends, Goes
        <4> QED
          BY <1>1, <1>3, <2>2, <4>1, <4>2, CountedStays
      <3> QED
        BY <3>1, <3>2
    <2> QED
      BY <2>1, <2>2
  <1>9. RequestInv' /\ ReviewInv' /\ OneAcceptance'
    BY <1>3, NoneAssumption
       DEF PipelineInv, RequestInv, ReviewInv, OneAcceptance, AutoAccepted, Result, caseVars
  <1> QED
    BY <1>5, <1>6, <1>7, <1>8, <1>9 DEF PipelineInv, LeaseInv

LEMMA ClassifiedKeeps ==
  ASSUME PipelineInv, NEW w \in Workers, Classified(w)
  PROVE  PipelineInv'
  <1>1. PICK m \in Messages : m = jobs[w].msg
    BY JobFacts DEF Classified
  <1>2. jobs[w].token = 0
    BY JobFacts DEF Classified, Sound
  <1>3. CASE ~WonMessage(m)
    BY <1>1, <1>2, <1>3, EndKeeps DEF Classified
  <1>4. CASE WonMessage(m)
    <2>1. CASE /\ message' = [message EXCEPT ![m] = "HUMAN_REVIEW"]
               /\ decisions' = [decisions EXCEPT ![m] = RequiredReview]
      <3>1. /\ RequiredReview.token = 0 /\ RequiredReview.action = "HUMAN_REVIEW"
            /\ RequiredReview.status \in Done
            /\ RequiredReview.result = "CLASSIFIER_REQUIRED_HUMAN_REVIEW"
        BY DEF RequiredReview, NewDecision, Done
      <3> QED
        BY <1>2, <1>4, <2>1, <3>1, FreshDecision, DecisionCreated DEF Classified, WonMessage
    <2>2. ASSUME NEW accepting \in BOOLEAN,
                 message' = [message EXCEPT ![m] = "CLASSIFIED"],
                 decisions' = [decisions EXCEPT ![m] =
                                NewDecision(FrozenAction(accepting, jobs[w].auto))]
          PROVE  PipelineInv'
      <3> DEFINE action == FrozenAction(accepting, jobs[w].auto)
                 d == NewDecision(action)
      <3>1. action \in Action /\ (action = "AUTO_ACCEPT" => ThreadCase # None)
        BY DEF FrozenAction, Action
      <3>2. /\ d.token = 0 /\ d.action = action /\ d.status = "PENDING" /\ d.result = None
            /\ d \in RoutingDecision
        BY <3>1, FreshDecision DEF NewDecision
      <3> HIDE DEF action, d
      <3>3. decisions' = [decisions EXCEPT ![m] = d]
        BY <2>2 DEF d, action
      <3> QED
        BY <1>2, <1>4, <2>2, <3>1, <3>2, <3>3, DecisionCreated DEF Classified, WonMessage
    <2> QED
      BY <1>1, <1>4, <2>1, <2>2 DEF Classified
  <1> QED
    BY <1>3, <1>4

-----------------------------------------------------------------------------
(* Steps that leave the decisions alone                                    *)

LEMMA WorldKeeps ==
  ASSUME PipelineInv, UNCHANGED decisions, Forward, TypeOK', RequestInv', ReviewInv', JobInv',
         Change \/ UNCHANGED changes,
         \A w \in Workers : jobs'[w] = jobs[w] \/ jobs[w].token = 0
  PROVE  PipelineInv'
  <1>1. DecisionInv'
    BY LawfulStays DEF PipelineInv, DecisionInv
  <1>2. ASSUME NEW m \in Messages PROVE Counted(m)'
    <2>1. CASE decisions[m] = None
      BY <2>1 DEF Counted
    <2>2. CASE decisions[m] # None
      <3>1. decisions[m].status = "PROCESSING" => decisions[m].token # 0
        BY <2>2, CasesAssumption DEF PipelineInv, TypeOK, RoutingDecision, LeaseInv, Counted
      <3> QED
        BY <3>1, CountedStays DEF PipelineInv
    <2> QED
      BY <2>1, <2>2
  <1>3. OneAcceptance'
    BY DEF PipelineInv, OneAcceptance, AutoAccepted
  <1> QED
    BY <1>1, <1>2, <1>3 DEF PipelineInv, LeaseInv

LEMMA FailedForGoodKeeps ==
  ASSUME PipelineInv, NEW w \in Workers, FailedForGood(w)
  PROVE  PipelineInv'
  <1>1. PICK m \in Messages : m = jobs[w].msg
    BY JobFacts DEF FailedForGood
  <1>2. TypeOK /\ JobInv /\ jobs \in [Workers -> Job] /\ message \in [Messages -> MessageStatus]
    BY DEF PipelineInv, TypeOK
  <1>3. /\ message' \in [Messages -> MessageStatus]
        /\ \A n \in Messages : message'[n] = message[n] \/ ~Known(n)
    BY <1>1, <1>2 DEF FailedForGood, MessageStatus, Known
  <1>4. Forward
    BY <1>3 DEF Forward, Accepted, Known, Attended, FailedForGood, caseVars
  <1>5. jobs' \in [Workers -> Job] /\ JobInv'
    <2>1. jobs'[w] = Idle
      BY <1>2 DEF FailedForGood, Ends, Goes
    <2>2. Sound(jobs[w])'
      BY <2>1 DEF Sound, Idle
    <2> QED
      BY <1>2, <1>4, <2>2, IdleJob, JobMoves DEF Ends, FailedForGood
  <1>6. TypeOK'
    BY <1>2, <1>3, <1>5 DEF TypeOK, CasesTypeOK, FailedForGood, caseVars
  <1>7. RequestInv' /\ ReviewInv'
    BY <1>2, <1>3 DEF PipelineInv, TypeOK, RequestInv, ReviewInv, Known, FailedForGood, caseVars
  <1>8. \A v \in Workers : jobs'[v] = jobs[v] \/ jobs[v].token = 0
    BY <1>2, JobFacts DEF FailedForGood, Ends, Goes, Sound
  <1> QED
    BY <1>4, <1>5, <1>6, <1>7, <1>8, WorldKeeps DEF FailedForGood

LEMMA ArriveKeeps ==
  ASSUME PipelineInv, NEW m \in Messages, Arrive(m)
  PROVE  PipelineInv'
  <1>1. TypeOK /\ JobInv /\ message \in [Messages -> MessageStatus]
    BY DEF PipelineInv, TypeOK
  <1>2. /\ message' \in [Messages -> MessageStatus] /\ message[m] = "ABSENT"
        /\ thread' \in {"OPEN", "HUMAN_REVIEW", "RESOLVED"}
        /\ \A n \in Messages \ {m} : message'[n] = message[n]
    BY <1>1 DEF Arrive, Landed, MessageStatus, TypeOK
  <1>3. Forward
    BY <1>2 DEF Forward, Accepted, Known, Attended, Arrive, caseVars
  <1>4. TypeOK'
    BY <1>1, <1>2 DEF TypeOK, CasesTypeOK, Arrive, caseVars
  <1>5. RequestInv' /\ ReviewInv'
    BY <1>1, <1>2 DEF PipelineInv, TypeOK, RequestInv, ReviewInv, Arrive, caseVars
  <1> QED
    BY <1>1, <1>3, <1>4, <1>5, JobsStay, WorldKeeps DEF Arrive

LEMMA ReviewKeeps ==
  ASSUME PipelineInv, NEW m \in Messages, Review(m)
  PROVE  PipelineInv'
  <1>1. TypeOK /\ JobInv /\ message \in [Messages -> MessageStatus]
    BY DEF PipelineInv, TypeOK
  <1>2. /\ message' \in [Messages -> MessageStatus] /\ message'[m] = "RESOLVED"
        /\ \A n \in Messages \ {m} : message'[n] = message[n]
        /\ changes' \in 0..MaxChanges
    BY <1>1, CasesAssumption DEF Review, Change, MessageStatus, TypeOK, CasesTypeOK
  <1>3. Forward
    BY <1>2 DEF Forward, Accepted, Known, Attended, Review, caseVars
  <1>4. TypeOK'
    BY <1>1, <1>2 DEF TypeOK, CasesTypeOK, Review, caseVars
  <1>5. RequestInv' /\ ReviewInv'
    BY <1>1, <1>2 DEF PipelineInv, TypeOK, RequestInv, ReviewInv, Review, caseVars
  <1> QED
    BY <1>1, <1>3, <1>4, <1>5, JobsStay, WorldKeeps DEF Review

LEMMA SettingsKeep ==
  ASSUME PipelineInv, ResolveThread \/ UpdateSettings
  PROVE  PipelineInv'
  <1>1. TypeOK /\ JobInv
    BY DEF PipelineInv
  <1>2. Change /\ UNCHANGED <<caseVars, today, message, decisions, reviews, jobs>>
    BY DEF ResolveThread, UpdateSettings
  <1>3. Forward
    BY <1>2 DEF Forward, Accepted, Known, Attended, caseVars
  <1>4. TypeOK'
    <2>1. changes' \in 0..MaxChanges
      BY <1>1, <1>2, CasesAssumption DEF Change, TypeOK, CasesTypeOK
    <2> QED
      BY <1>1, <1>2, <2>1 DEF TypeOK, CasesTypeOK, ResolveThread, UpdateSettings, caseVars
  <1>5. RequestInv' /\ ReviewInv'
    BY <1>2 DEF PipelineInv, RequestInv, ReviewInv, caseVars
  <1> QED
    BY <1>1, <1>2, <1>3, <1>4, <1>5, JobsStay, WorldKeeps

LEMMA CaseMoves ==
  ASSUME PipelineInv, cases' \in [Cases -> CaseRecord], requests' \in [Actors -> Request \union {None}],
         RequestInv', Accepted => Accepted', Change \/ UNCHANGED changes, UNCHANGED <<holds, today, aiVars>>
  PROVE  PipelineInv'
  <1>1. TypeOK /\ JobInv
    BY DEF PipelineInv
  <1>2. Forward
    BY DEF Forward, Known, Attended, aiVars
  <1>3. TypeOK'
    <2>1. changes' \in 0..MaxChanges
      BY <1>1, CasesAssumption DEF Change, TypeOK, CasesTypeOK
    <2> QED
      BY <1>1, <2>1 DEF TypeOK, CasesTypeOK, aiVars
  <1>4. ReviewInv'
    BY DEF PipelineInv, ReviewInv, aiVars
  <1> QED
    BY <1>1, <1>2, <1>3, <1>4, JobsStay, WorldKeeps DEF aiVars

LEMMA StaffKeeps ==
  ASSUME PipelineInv, Staff
  PROVE  PipelineInv'
  <1>1. /\ cases \in [Cases -> CaseRecord] /\ requests \in [Actors -> Request \union {None}]
        /\ RequestInv
    BY DEF PipelineInv, TypeOK, CasesTypeOK
  <1>2. ASSUME NEW a \in Actors, AskTransition(a) PROVE PipelineInv'
    <2>1. PICK c \in Cases, to \in Targets :
            /\ Legal(cases[c].status, to)
            /\ requests' = [requests EXCEPT ![a] =
                             [case |-> c, to |-> to, seen |-> cases[c].status]]
      BY <1>2 DEF AskTransition
    <2> DEFINE r == [case |-> c, to |-> to, seen |-> cases[c].status]
    <2>2. r \in Request /\ Legal(r.seen, r.to)
      BY <1>1, <2>1 DEF Request, CaseRecord
    <2> HIDE DEF r
    <2>3. requests' = [requests EXCEPT ![a] = r]
      BY <2>1 DEF r
    <2>4. requests' \in [Actors -> Request \union {None}] /\ RequestInv'
      BY <1>1, <2>2, <2>3 DEF RequestInv
    <2>5. Change /\ UNCHANGED <<cases, holds, today, aiVars>>
      BY <1>2 DEF AskTransition, Change, Staff
    <2> QED
      BY <1>1, <2>4, <2>5, CaseMoves DEF Accepted
  <1>3. ASSUME NEW a \in Actors, ApplyTransition(a) PROVE PipelineInv'
    <2> DEFINE r == requests[a]
    <2>1. r \in Request /\ r.case \in Cases /\ r.to \in Targets /\ Legal(r.seen, r.to)
      BY <1>1, <1>3 DEF ApplyTransition, RequestInv, Request
    <2>2. /\ cases' = IF Applies(r) THEN [cases EXCEPT ![r.case] = Transitioned(@, r.to)] ELSE cases
          /\ requests' = [requests EXCEPT ![a] = None]
          /\ UNCHANGED <<holds, today, changes, aiVars>>
      BY <1>3 DEF ApplyTransition, Staff
    <2> HIDE DEF r
    <2>3. requests' \in [Actors -> Request \union {None}] /\ RequestInv'
      BY <1>1, <2>2 DEF RequestInv
    <2>4. cases' \in [Cases -> CaseRecord] /\ (Accepted => Accepted')
      <3>1. CASE ~Applies(r)
        BY <1>1, <2>2, <3>1 DEF Accepted
      <3>2. CASE Applies(r)
        <4> DEFINE new == Transitioned(cases[r.case], r.to)
        <4>1. new \in CaseRecord
          BY <1>1, <2>1, TransitionedRecord
        <4>2. cases[r.case].status # "ACCEPTED"
          BY <2>1, <3>2, Moves DEF Applies
        <4> HIDE DEF new
        <4>3. cases' = [cases EXCEPT ![r.case] = new]
          BY <2>2, <3>2 DEF new
        <4> QED
          BY <1>1, <2>1, <4>1, <4>2, <4>3, PipelineAssumption DEF Accepted
      <3> QED
        BY <3>1, <3>2
    <2> QED
      BY <2>2, <2>3, <2>4, CaseMoves
  <1> QED
    BY <1>2, <1>3 DEF Staff

LEMMA RemindKeeps ==
  ASSUME PipelineInv, NEW c \in Cases, Remind(c)
  PROVE  PipelineInv'
  <1>1. /\ cases \in [Cases -> CaseRecord] /\ requests \in [Actors -> Request \union {None}]
        /\ RequestInv
    BY DEF PipelineInv, TypeOK, CasesTypeOK
  <1>2. /\ cases[c].status = "UPCOMING"
        /\ cases' = [cases EXCEPT ![c] = [@ EXCEPT !.status = "REMINDER_CYCLE"]]
    BY DEF Remind, CycleStarted
  <1>3. cases' \in [Cases -> CaseRecord]
    BY <1>1, <1>2 DEF CaseRecord, Status, ReminderEligible
  <1>4. Accepted => Accepted'
    BY <1>1, <1>2, PipelineAssumption DEF Accepted
  <1> QED
    BY <1>1, <1>3, <1>4, CaseMoves DEF Remind, RequestInv

LEMMA LeaseExpiresKeeps ==
  ASSUME PipelineInv, NEW m \in Messages, LeaseExpires(m)
  PROVE  PipelineInv'
  <1> DEFINE d == [decisions[m] EXCEPT !.stale = TRUE]
  <1>1. /\ TypeOK /\ JobInv /\ DecisionInv /\ LeaseInv
        /\ decisions[m] # None /\ decisions[m] \in RoutingDecision /\ Counted(m)
        /\ decisions[m].status = "PROCESSING"
        /\ changes \in 0..MaxChanges /\ MaxChanges \in Nat /\ decisions[m].token \in Nat
    BY CasesAssumption
       DEF LeaseExpires, PipelineInv, TypeOK, CasesTypeOK, LeaseInv, RoutingDecision
  <1>2. /\ d \in RoutingDecision /\ d.stale = TRUE /\ d.status = decisions[m].status
        /\ d.action = decisions[m].action /\ d.result = decisions[m].result
        /\ d.token = decisions[m].token
    BY <1>1 DEF RoutingDecision
  <1> HIDE DEF d
  <1>3. decisions' = [decisions EXCEPT ![m] = d]
    BY DEF LeaseExpires, d
  <1>4. /\ decisions' \in [Messages -> RoutingDecision \union {None}] /\ decisions'[m] = d /\ d # None
        /\ \A n \in Messages \ {m} : decisions'[n] = decisions[n]
    BY <1>1, <1>2, <1>3, NoneAssumption DEF TypeOK
  <1>5. UNCHANGED <<caseVars, today, message, thread, reviews, settings, jobs>>
        /\ (Change \/ (UNCHANGED changes /\ ~Held(m)))
    BY DEF LeaseExpires
  <1>6. Forward
    BY <1>2, <1>4, <1>5 DEF Forward, Accepted, Known, Attended, caseVars
  <1>7. JobInv'
    BY <1>1, <1>5, <1>6, JobsStay
  <1>8. TypeOK'
    <2>1. changes' \in 0..MaxChanges
      BY <1>1, <1>5 DEF Change
    <2> QED
      BY <1>1, <1>4, <1>5, <2>1 DEF TypeOK, CasesTypeOK, caseVars
  <1>9. DecisionInv'
    <2>1. Lawful(m)'
      BY <1>1, <1>2, <1>4, <1>6 DEF DecisionInv, Lawful, Forward, Decided, Done
    <2> QED
      BY <1>1, <1>4, <1>6, <2>1, LawfulStays DEF DecisionInv
  <1>10. ASSUME NEW n \in Messages PROVE Counted(n)'
    <2>1. CASE n = m
      BY <1>1, <1>2, <1>4, <1>5, <2>1 DEF Counted, Change
    <2>2. CASE n # m
      BY <1>1, <1>4, <1>5, <2>2, CountedStays
    <2> QED
      BY <2>1, <2>2
  <1>11. OneAcceptance'
    BY <1>1, <1>2, <1>4 DEF PipelineInv, OneAcceptance, AutoAccepted
  <1>12. RequestInv' /\ ReviewInv'
    BY <1>5 DEF PipelineInv, RequestInv, ReviewInv, caseVars
  <1> QED
    BY <1>7, <1>8, <1>9, <1>10, <1>11, <1>12 DEF PipelineInv, LeaseInv

-----------------------------------------------------------------------------
(* The invariant holds in every state                                      *)

LEMMA PipelineInit == Init => PipelineInv
  <1> SUFFICES ASSUME Init PROVE PipelineInv
    OBVIOUS
  <1>1. Opened \in CaseRecord
    BY DEF Opened, Absent, CaseRecord, Status, ReminderEligible, Decision
  <1>2. 0 \in 0..MaxChanges /\ 0 \in Days
    BY CasesAssumption DEF Days
  <1>3. TypeOK
    BY <1>1, <1>2, IdleJob DEF Init, TypeOK, CasesTypeOK, MessageStatus
  <1>4. JobInv
    BY DEF Init, JobInv, Sound, Idle
  <1>5. RequestInv /\ ReviewInv /\ DecisionInv /\ LeaseInv /\ OneAcceptance
    BY DEF Init, RequestInv, ReviewInv, DecisionInv, Lawful, LeaseInv, Counted, OneAcceptance,
           AutoAccepted
  <1> QED
    BY <1>3, <1>4, <1>5 DEF PipelineInv

LEMMA PipelineNext == PipelineInv /\ [Next]_vars => PipelineInv'
  <1> SUFFICES ASSUME PipelineInv, [Next]_vars PROVE PipelineInv'
    OBVIOUS
  <1>1. ASSUME NEW m \in Messages, Arrive(m) \/ Review(m) \/ LeaseExpires(m) PROVE PipelineInv'
    BY <1>1, ArriveKeeps, ReviewKeeps, LeaseExpiresKeeps
  <1>2. ASSUME NEW w \in Workers, NEW m \in Messages, Start(w, m) PROVE PipelineInv'
    BY <1>2, StartClassifyKeeps, StartRouteKeeps DEF Start
  <1>3. ASSUME NEW w \in Workers, Work(w) \/ Crash(w) PROVE PipelineInv'
    BY <1>3, ClassifiedKeeps, FailedForGoodKeeps, ClaimKeeps, FinishKeeps, ReadCaseKeeps,
       ReadReviewKeeps, AcceptKeeps, RereadKeeps, RouteReadKeeps, RouteUpdateKeeps, CrashKeeps
       DEF Work
  <1>4. CASE ResolveThread \/ UpdateSettings
    BY <1>4, SettingsKeep
  <1>5. CASE Staff
    BY <1>5, StaffKeeps
  <1>6. ASSUME NEW c \in Cases, Remind(c) PROVE PipelineInv'
    BY <1>6, RemindKeeps
  <1>7. CASE UNCHANGED vars
    <2>1. Forward /\ TypeOK' /\ RequestInv' /\ ReviewInv' /\ JobInv'
      BY <1>7 DEF vars, aiVars, caseVars, PipelineInv, Forward, Accepted, Known, Attended, TypeOK,
                  CasesTypeOK, RequestInv, ReviewInv, JobInv, Sound, Justified
    <2> QED
      BY <1>7, <2>1, WorldKeeps DEF vars, aiVars
  <1> QED
    BY <1>1, <1>2, <1>3, <1>4, <1>5, <1>6, <1>7 DEF Next

LEMMA PipelineHolds == Spec => []PipelineInv
  BY PipelineInit, PipelineNext, PTL DEF Spec

-----------------------------------------------------------------------------
(* Theorems                                                                *)

\* Every state has the types that are declared for it.
THEOREM TypeCorrect == Spec => []TypeOK
  <1>1. PipelineInv => TypeOK
    BY DEF PipelineInv
  <1> QED
    BY <1>1, PipelineHolds, PTL

\* The AI accepts on one message of the thread at most, and what it claims to
\* have accepted is ACCEPTED: executeAutoAccept's compare-and-swap on the case
\* loses to everyone who decided first, and no transition leaves ACCEPTED.
THEOREM OneAiAcceptance == Spec => []AiAcceptsOnce
  <1>1. ASSUME PipelineInv PROVE AiAcceptsOnce
    <2> DEFINE by == {m \in Messages : AutoAccepted(m)}
    <2>1. Cardinality(by) <= 1
      <3>1. CASE by = {}
        BY <3>1, FS_EmptySet
      <3>2. CASE by # {}
        <4>1. PICK m \in by : TRUE
          BY <3>2
        <4>2. by = {m}
          BY <1>1, <4>1 DEF PipelineInv, OneAcceptance
        <4> QED
          BY <4>2, FS_Singleton
      <3> QED
        BY <3>1, <3>2
    <2>2. by # {} => cases[ThreadCase].status = "ACCEPTED"
      BY <1>1, NoneAssumption
         DEF PipelineInv, DecisionInv, Lawful, AutoAccepted, Justified, Accepted, Result
    <2> QED
      BY <2>1, <2>2 DEF AiAcceptsOnce
  <1> QED
    BY <1>1, PipelineHolds, PTL

\* No customer message is lost between the AI and the staff, whichever worker
\* ended its decision and whatever a person did to it meanwhile.
THEOREM NoMessageLost == Spec => []NothingFallsThrough
  <1>1. PipelineInv => NothingFallsThrough
    BY DEF PipelineInv, DecisionInv, Lawful, Decided, Justified, Attended, Accepted, NothingFallsThrough
  <1> QED
    BY <1>1, PipelineHolds, PTL

\* Which step may write a decision, and what it found when it did.
LEMMA DecisionStep ==
  ASSUME PipelineInv, [Next]_vars, NEW m \in Messages, decisions'[m] # decisions[m]
  PROVE  /\ ~Decided(m)
         /\ AutoAccepted(m)' => m \notin reviews /\ message[m] = "CLASSIFIED"
  <1>1. TypeOK /\ decisions \in [Messages -> RoutingDecision \union {None}] /\ Lawful(m)
        /\ jobs \in [Workers -> Job]
    BY DEF PipelineInv, TypeOK, DecisionInv
  <1>2. ASSUME NEW w \in Workers, Classified(w)
        PROVE  ~Decided(m) /\ ~AutoAccepted(m)'
    <2>1. jobs[w].msg = m /\ message[m] = "PENDING"
      BY <1>1, <1>2, JobFacts DEF Classified, WonMessage
    <2>2. decisions[m] = None
      BY <1>1, <2>1 DEF Lawful, Known
    <2>3. \/ decisions'[m] = RequiredReview
          \/ \E accepting \in BOOLEAN : decisions'[m] = NewDecision(FrozenAction(accepting, jobs[w].auto))
      BY <1>1, <1>2, <2>1 DEF Classified, WonMessage
    <2>4. /\ RequiredReview.result = "CLASSIFIER_REQUIRED_HUMAN_REVIEW"
          /\ \A action \in Action : NewDecision(action).result = None
      BY DEF RequiredReview, NewDecision
    <2>5. \A accepting \in BOOLEAN : FrozenAction(accepting, jobs[w].auto) \in Action
      BY DEF FrozenAction, Action
    <2>6. decisions'[m].result # "AUTO_ACCEPTED"
      BY <2>3, <2>4, <2>5, NoneAssumption DEF Result
    <2> QED
      BY <2>2, <2>6 DEF Decided, AutoAccepted
  <1>3. ASSUME NEW w \in Workers, Claim(w)
        PROVE  ~Decided(m) /\ ~AutoAccepted(m)'
    <2>1. jobs[w].msg = m /\ Claimable(m)
      BY <1>1, <1>3, JobFacts DEF Claim
    <2>2. decisions[m] # None /\ ~Decided(m)
      BY <2>1 DEF Claimable, Decided, Done
    <2>3. decisions'[m].result = None
      BY <1>1, <1>3, <2>1, <2>2 DEF Claim, Lawful, RoutingDecision
    <2> QED
      BY <2>2, <2>3, NoneAssumption DEF AutoAccepted, Result
  <1>4. ASSUME NEW w \in Workers, Finish(w) \/ RouteUpdate(w)
        PROVE  ~Decided(m) /\ ~AutoAccepted(m)'
    <2>1. jobs[w].msg \in Messages /\ decisions[jobs[w].msg] # None
          /\ jobs[w].result \in Result \ {"AUTO_ACCEPTED"}
      BY <1>4, JobFacts DEF Finish, RouteUpdate, Sound, Result
    <2>2. Owns(w) /\ decisions' = Finalized(jobs[w].msg, jobs[w].result)
      BY <1>4 DEF Finish, RouteUpdate
    <2>3. jobs[w].msg = m /\ decisions'[m].result = jobs[w].result
      BY <1>1, <2>1, <2>2, OutcomeWritten
    <2> QED
      BY <2>1, <2>2, <2>3 DEF Owns, Decided, AutoAccepted, Done
  <1>5. ASSUME NEW w \in Workers, Accept(w)
        PROVE  ~Decided(m) /\ m \notin reviews /\ message[m] = "CLASSIFIED"
    <2>1. jobs[w].msg \in Messages /\ decisions[jobs[w].msg] # None
      BY <1>5, JobFacts DEF Accept, Sound
    <2>2. Touchable(jobs[w].msg) /\ Owns(w) /\ decisions' = Finalized(jobs[w].msg, "AUTO_ACCEPTED")
      BY <1>5 DEF Accept
    <2>3. jobs[w].msg = m
      BY <1>1, <2>1, <2>2, OutcomeWritten DEF Result
    <2> QED
      BY <2>2, <2>3 DEF Owns, Decided, Done, Touchable, PipelineInv, ReviewInv
  <1>6. ASSUME NEW n \in Messages, LeaseExpires(n)
        PROVE  ~Decided(m) /\ ~AutoAccepted(m)'
    <2>1. n = m /\ decisions[m].status = "PROCESSING"
      BY <1>1, <1>6 DEF LeaseExpires
    <2>2. decisions'[m].result = None
      BY <1>1, <1>6, <2>1 DEF LeaseExpires, Lawful, Decided, Done, RoutingDecision
    <2> QED
      BY <2>1, <2>2, NoneAssumption DEF AutoAccepted, Decided, Done, Result
  <1>7. \/ \E w \in Workers : Classified(w) \/ Claim(w) \/ Finish(w) \/ RouteUpdate(w) \/ Accept(w)
        \/ \E n \in Messages : LeaseExpires(n)
    BY DEF Next, vars, aiVars, Start, StartClassify, StartRoute, Work, FailedForGood, ReadCase,
           ReadReview, Reread, RouteRead, Crash, Arrive, Review, ResolveThread, UpdateSettings,
           Staff, Remind
  <1> QED
    BY <1>2, <1>3, <1>4, <1>5, <1>6, <1>7

LEMMA ResolvedStep ==
  ASSUME PipelineInv, [Next]_vars
  PROVE  /\ \A m \in Messages : message[m] = "RESOLVED" => message'[m] = "RESOLVED"
         /\ (thread = "RESOLVED" /\ thread' # "RESOLVED") =>
              \E m \in Messages : message[m] = "ABSENT" /\ message'[m] # "ABSENT"
  <1>1. TypeOK /\ message \in [Messages -> MessageStatus]
    BY DEF PipelineInv, TypeOK
  <1>2. ASSUME NEW m \in Messages, Arrive(m)
        PROVE  /\ message[m] = "ABSENT" /\ message'[m] # "ABSENT"
               /\ \A n \in Messages \ {m} : message'[n] = message[n]
    BY <1>1, <1>2 DEF Arrive, Landed
  <1>3. ASSUME NEW m \in Messages, Review(m)
        PROVE  UNCHANGED thread /\ \A n \in Messages : message'[n] \in {message[n], "RESOLVED"}
    BY <1>1, <1>3 DEF Review
  <1>4. ASSUME NEW w \in Workers, Classified(w) \/ FailedForGood(w)
        PROVE  /\ UNCHANGED thread
               /\ \A n \in Messages : message[n] = "RESOLVED" => message'[n] = "RESOLVED"
    BY <1>1, <1>4 DEF Classified, FailedForGood, WonMessage
  <1>5. ASSUME NEW w \in Workers, RouteUpdate(w)
        PROVE  /\ thread = "RESOLVED" => thread' = "RESOLVED"
               /\ \A n \in Messages : message[n] = "RESOLVED" => message'[n] = "RESOLVED"
    BY <1>1, <1>5 DEF RouteUpdate, Routable, Escalated
  <1>6. ResolveThread => thread' = "RESOLVED" /\ UNCHANGED message
    BY DEF ResolveThread
  <1>7. \/ UNCHANGED <<message, thread>>
        \/ \E m \in Messages : Arrive(m) \/ Review(m)
        \/ \E w \in Workers : Classified(w) \/ FailedForGood(w) \/ RouteUpdate(w)
        \/ ResolveThread
    BY DEF Next, vars, aiVars, Start, StartClassify, StartRoute, Work, Claim, Finish, ReadCase,
           ReadReview, Accept, Reread, RouteRead, Crash, LeaseExpires, UpdateSettings, Staff, Remind
  <1>8. CASE \E m \in Messages : Arrive(m)
    BY <1>2, <1>8
  <1> QED
    BY <1>3, <1>4, <1>5, <1>6, <1>7, <1>8

\* Whenever the AI accepts, nobody has reviewed the message and it is still
\* CLASSIFIED: the transaction's touch of the message row sees every review.
THEOREM PeopleOverrule == Spec => HumanHasLastWord
  <1>1. PipelineInv /\ [Next]_vars =>
          [\A m \in Messages : AutoAccepted(m)' /\ ~AutoAccepted(m) =>
             m \notin reviews /\ message[m] = "CLASSIFIED"]_vars
    BY DecisionStep DEF AutoAccepted
  <1> QED
    BY <1>1, PipelineHolds, PTL DEF Spec, HumanHasLastWord

\* What a person resolved and what a worker recorded are never rewritten by a
\* worker that comes back late, whatever it read before.
THEOREM OutcomesAreFinal == Spec => OutcomesStand
  <1>1. PipelineInv /\ [Next]_vars =>
          [/\ \A m \in Messages : message[m] = "RESOLVED" => message'[m] = "RESOLVED"
           /\ (thread = "RESOLVED" /\ thread' # "RESOLVED") =>
                \E m \in Messages : message[m] = "ABSENT" /\ message'[m] # "ABSENT"]_vars
    BY ResolvedStep
  <1>2. PipelineInv /\ [Next]_vars =>
          [\A m \in Messages : Decided(m) => decisions'[m] = decisions[m]]_vars
    BY DecisionStep
  <1> QED
    BY <1>1, <1>2, PipelineHolds, PTL
       DEF Spec, OutcomesStand, ResolvedStays, FinalDecisionsStay

-----------------------------------------------------------------------------
(* The case's life                                                         *)

Undecided == {"ABSENT", "HUMAN_REVIEW"} \union ReminderEligible

\* Only ACCEPTED and DO_NOT_RENEW are ever reached, and until then a case bears
\* no mark of a decision.
Unmarked(r) ==
    /\ r.status \in Undecided \union {"ACCEPTED", "DO_NOT_RENEW"}
    /\ r.status \in Undecided => r.decision = "UNDECIDED" /\ r.stamps = {}

MarkInv == \A c \in Cases : Unmarked(cases[c])

\* The marks a decision writes.
DecisionFor(to) ==
    CASE to = "ACCEPTED" -> "ACCEPTED" [] to = "DO_NOT_RENEW" -> "REJECTED" [] OTHER -> "UNDECIDED"
StampsFor(to) ==
    CASE to = "ACCEPTED" -> {"acceptedAt"} [] to = "DO_NOT_RENEW" -> {"doNotRenewAt"} [] OTHER -> {}

LEMMA LegalMove ==
  ASSUME NEW r \in CaseRecord, Unmarked(r), NEW to \in Targets, Legal(r.status, to)
  PROVE  LET new == Transitioned(r, to)
         IN  /\ new \in CaseRecord /\ Unmarked(new)
             /\ r.decision = "UNDECIDED" /\ r.stamps = {}
             /\ new.status = to /\ new.decision = DecisionFor(to) /\ new.stamps = StampsFor(to)
  <1>1. to \in {"AWAITING_CUSTOMER", "ACCEPTED", "DO_NOT_RENEW"}
    BY DEF Targets, Predecessors, Legal, Unmarked, Undecided, ReminderEligible
  <1>2. r.status \in Undecided
    BY <1>1 DEF Legal, Predecessors, Undecided, ReminderEligible
  <1>3. /\ r.decision = "UNDECIDED" /\ r.stamps = {} /\ Transitioned(r, to) \in CaseRecord
    BY <1>2, TransitionedRecord DEF Unmarked
  <1>4. CASE to = "ACCEPTED"
    BY <1>3, <1>4 DEF Transitioned, Unmarked, DecisionFor, StampsFor, Undecided, ReminderEligible
  <1>5. CASE to = "DO_NOT_RENEW"
    BY <1>3, <1>5 DEF Transitioned, Unmarked, DecisionFor, StampsFor, Undecided, ReminderEligible
  <1>6. CASE to = "AWAITING_CUSTOMER"
    <2>1. Transitioned(r, to) = [r EXCEPT !.status = to]
      BY <1>6 DEF Transitioned
    <2>2. to \in Undecided /\ DecisionFor(to) = "UNDECIDED" /\ StampsFor(to) = {}
      BY <1>6 DEF Undecided, ReminderEligible, DecisionFor, StampsFor
    <2> QED
      BY <1>3, <2>1, <2>2 DEF CaseRecord, Unmarked
  <1> QED
    BY <1>1, <1>3, <1>4, <1>5, <1>6

\* What a step can do to the cases: nothing, decide one (or await its customer)
\* along a legal transition, or start one's reminders.
Moved(c, to) ==
    /\ Legal(cases[c].status, to)
    /\ cases' = [cases EXCEPT ![c] = Transitioned(@, to)]

Reminded(c) ==
    /\ cases[c].status = "UPCOMING"
    /\ cases' = [cases EXCEPT ![c] = [@ EXCEPT !.status = "REMINDER_CYCLE"]]

LEMMA CaseSteps ==
  ASSUME PipelineInv, [Next]_vars
  PROVE  \/ cases' = cases
         \/ \E c \in Cases : Reminded(c) \/ \E to \in Targets : Moved(c, to)
  <1>1. ASSUME NEW a \in Actors, ApplyTransition(a)
        PROVE  cases' = cases \/ \E c \in Cases, to \in Targets : Moved(c, to)
    <2>1. PICK r : r = requests[a] /\ r \in Request /\ Legal(r.seen, r.to)
      BY <1>1 DEF ApplyTransition, PipelineInv, TypeOK, CasesTypeOK, RequestInv
    <2>2. r.case \in Cases /\ r.to \in Targets
      BY <2>1 DEF Request
    <2>3. cases' = cases \/ Moved(r.case, r.to)
      BY <1>1, <2>1 DEF ApplyTransition, Applies, Moved
    <2> QED
      BY <2>2, <2>3
  <1>2. ASSUME NEW w \in Workers, Accept(w)
        PROVE  cases' = cases \/ (Moved(ThreadCase, "ACCEPTED") /\ ThreadCase \in Cases)
    <2>1. /\ jobs[w].msg \in Messages /\ Lawful(jobs[w].msg) /\ Legal(jobs[w].seen, "ACCEPTED")
          /\ decisions[jobs[w].msg] # None /\ decisions[jobs[w].msg].action = "AUTO_ACCEPT"
      BY <1>2, JobFacts DEF Accept, Sound
    <2>2. ThreadCase \in Cases
      BY <2>1, PipelineAssumption DEF Lawful
    <2> QED
      BY <1>2, <2>1, <2>2 DEF Accept, CaseAsRead, Moved
  <1>3. ASSUME NEW c \in Cases, Remind(c) PROVE Reminded(c)
    BY <1>3 DEF Remind, CycleStarted, Reminded
  <1>4. ASSUME NEW a \in Actors, AskTransition(a) PROVE cases' = cases
    BY <1>4 DEF AskTransition
  <1>5. ASSUME NEW m \in Messages, Arrive(m) \/ Review(m) \/ LeaseExpires(m) PROVE cases' = cases
    BY <1>5 DEF Arrive, Review, LeaseExpires, caseVars
  <1>6. ASSUME NEW w \in Workers, NEW m \in Messages, Start(w, m) PROVE cases' = cases
    BY <1>6 DEF Start, StartClassify, StartRoute, caseVars
  <1>7. ASSUME NEW w \in Workers, Work(w) \/ Crash(w) PROVE cases' = cases \/ Accept(w)
    BY <1>7 DEF Work, Classified, FailedForGood, Claim, Finish, ReadCase, ReadReview, Reread,
                RouteRead, RouteUpdate, Crash, caseVars
  <1>8. CASE ResolveThread \/ UpdateSettings \/ UNCHANGED vars
    BY <1>8 DEF ResolveThread, UpdateSettings, vars, caseVars
  <1>9. "ACCEPTED" \in Targets
    BY DEF Targets, Predecessors
  <1> QED
    BY <1>1, <1>2, <1>3, <1>4, <1>5, <1>6, <1>7, <1>8, <1>9 DEF Next, Staff

StatusOf == [c \in Cases |-> cases[c].status]
DecisionOf == [c \in Cases |-> cases[c].decision]
StampsOf == [c \in Cases |-> cases[c].stamps]

\* A write to one case, seen through the refinement mapping.
LEMMA OneCaseWritten ==
  ASSUME PipelineInv, MarkInv, NEW c \in Cases, NEW new \in CaseRecord,
         cases' = [cases EXCEPT ![c] = new], Unmarked(new)
  PROVE  /\ MarkInv'
         /\ StatusOf' = [StatusOf EXCEPT ![c] = new.status]
         /\ DecisionOf' = [DecisionOf EXCEPT ![c] = new.decision]
         /\ StampsOf' = [StampsOf EXCEPT ![c] = new.stamps]
  <1>1. \A d \in Cases : cases'[d] = IF d = c THEN new ELSE cases[d]
    BY DEF PipelineInv, TypeOK, CasesTypeOK
  <1>2. MarkInv'
    BY <1>1 DEF MarkInv
  <1>3. StatusOf' = [StatusOf EXCEPT ![c] = new.status]
    <2>1. \A d \in Cases : cases'[d].status = IF d = c THEN new.status ELSE cases[d].status
      BY <1>1
    <2> QED
      BY <2>1 DEF StatusOf
  <1>4. DecisionOf' = [DecisionOf EXCEPT ![c] = new.decision]
    <2>1. \A d \in Cases : cases'[d].decision = IF d = c THEN new.decision ELSE cases[d].decision
      BY <1>1
    <2> QED
      BY <2>1 DEF DecisionOf
  <1>5. StampsOf' = [StampsOf EXCEPT ![c] = new.stamps]
    <2>1. \A d \in Cases : cases'[d].stamps = IF d = c THEN new.stamps ELSE cases[d].stamps
      BY <1>1
    <2> QED
      BY <2>1 DEF StampsOf
  <1> QED
    BY <1>2, <1>3, <1>4, <1>5

LEMMA LifeMoves ==
  ASSUME PipelineInv, MarkInv, NEW c \in Cases, NEW to \in Targets, Moved(c, to)
  PROVE  MarkInv' /\ Life!Move(c, to)
  <1>1. cases[c] \in CaseRecord /\ Unmarked(cases[c]) /\ Legal(cases[c].status, to)
    BY DEF PipelineInv, TypeOK, CasesTypeOK, MarkInv, Moved
  <1>2. PICK new : new = Transitioned(cases[c], to)
    OBVIOUS
  <1>3. /\ new \in CaseRecord /\ Unmarked(new)
        /\ cases[c].decision = "UNDECIDED" /\ cases[c].stamps = {}
        /\ new.status = to /\ new.decision = DecisionFor(to) /\ new.stamps = StampsFor(to)
    BY <1>1, <1>2, LegalMove
  <1>4. cases' = [cases EXCEPT ![c] = new]
    BY <1>2 DEF Moved
  <1>5. /\ MarkInv' /\ StatusOf' = [StatusOf EXCEPT ![c] = to]
        /\ DecisionOf' = [DecisionOf EXCEPT ![c] = DecisionFor(to)]
        /\ StampsOf' = [StampsOf EXCEPT ![c] = StampsFor(to)]
    <2>1. MarkInv' /\ StatusOf' = [StatusOf EXCEPT ![c] = new.status]
          /\ DecisionOf' = [DecisionOf EXCEPT ![c] = new.decision]
          /\ StampsOf' = [StampsOf EXCEPT ![c] = new.stamps]
      BY <1>3, <1>4, OneCaseWritten
    <2> QED
      BY <1>3, <2>1
  <1>6. StatusOf[c] \in Predecessors[to] /\ DecisionOf[c] = "UNDECIDED" /\ StampsOf[c] = {}
    BY <1>1, <1>3 DEF StatusOf, DecisionOf, StampsOf, Legal
  <1> QED
    BY <1>5, <1>6 DEF Life!Move, StatusOf, DecisionOf, StampsOf, DecisionFor, StampsFor

LEMMA LifeReminds ==
  ASSUME PipelineInv, MarkInv, NEW c \in Cases, Reminded(c)
  PROVE  MarkInv' /\ Life!Remind(c)
  <1>1. /\ cases[c] \in CaseRecord /\ Unmarked(cases[c]) /\ cases[c].status = "UPCOMING"
        /\ "UPCOMING" \in Undecided
    BY DEF PipelineInv, TypeOK, CasesTypeOK, MarkInv, Reminded, Undecided, ReminderEligible
  <1>2. PICK new : new = [cases[c] EXCEPT !.status = "REMINDER_CYCLE"]
    OBVIOUS
  <1>3. /\ new \in CaseRecord /\ new.status = "REMINDER_CYCLE"
        /\ new.decision = cases[c].decision /\ new.stamps = cases[c].stamps
    BY <1>1, <1>2 DEF CaseRecord, Status, ReminderEligible
  <1>4. Unmarked(new)
    BY <1>1, <1>3 DEF Unmarked, Undecided, ReminderEligible
  <1>5. cases' = [cases EXCEPT ![c] = new]
    BY <1>2 DEF Reminded
  <1>6. /\ MarkInv' /\ StatusOf' = [StatusOf EXCEPT ![c] = "REMINDER_CYCLE"]
        /\ DecisionOf' = [DecisionOf EXCEPT ![c] = cases[c].decision]
        /\ StampsOf' = [StampsOf EXCEPT ![c] = cases[c].stamps]
    <2>1. MarkInv' /\ StatusOf' = [StatusOf EXCEPT ![c] = new.status]
          /\ DecisionOf' = [DecisionOf EXCEPT ![c] = new.decision]
          /\ StampsOf' = [StampsOf EXCEPT ![c] = new.stamps]
      BY <1>3, <1>4, <1>5, OneCaseWritten
    <2> QED
      BY <1>3, <2>1
  <1>7. StatusOf[c] = "UPCOMING" /\ DecisionOf' = DecisionOf /\ StampsOf' = StampsOf
    BY <1>1, <1>6 DEF StatusOf, DecisionOf, StampsOf
  <1> QED
    BY <1>6, <1>7 DEF Life!Remind, StatusOf, DecisionOf, StampsOf

LEMMA LifeStep ==
  ASSUME PipelineInv, MarkInv, [Next]_vars
  PROVE  MarkInv' /\ [Life!LifeNext]_(Life!lifeVars)
  <1>1. CASE cases' = cases
    BY <1>1 DEF MarkInv, Life!lifeVars
  <1>2. ASSUME NEW c \in Cases, NEW to \in Targets, Moved(c, to)
        PROVE  MarkInv' /\ Life!LifeNext
    BY <1>2, LifeMoves DEF Life!LifeNext, Targets
  <1>3. ASSUME NEW c \in Cases, Reminded(c) PROVE MarkInv' /\ Life!LifeNext
    BY <1>3, LifeReminds DEF Life!LifeNext
  <1> QED
    BY CaseSteps, <1>1, <1>2, <1>3

LEMMA MarkInit == Init => MarkInv
  BY DEF Init, MarkInv, Unmarked, Opened, Absent, Undecided, ReminderEligible

\* However many workers, staff and reminders act on what they read before, every
\* case goes on with the life CaseLifecycle allows: the router decides an open
\* case only, once, and leaves the marks of that decision alone.
THEOREM RouterObeysLifecycle == Spec => CaseLifeGoesOn
  <1>1. PipelineInv /\ MarkInv /\ [Next]_vars => MarkInv' /\ [Life!LifeNext]_(Life!lifeVars)
    BY LifeStep
  <1> QED
    BY PipelineHolds, MarkInit, <1>1, PTL DEF Spec, CaseLifeGoesOn, Life!LifeGoesOn
=============================================================================
