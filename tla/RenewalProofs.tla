---------------------------- MODULE RenewalProofs ----------------------------
(***************************************************************************)
(* Proofs about RenewalEngine and RenewalCases: for any number of          *)
(* subscriptions, overlapping runs and staff requests, reminders come once *)
(* per milestone and count down, a run that ends has done its work, and a  *)
(* case lives the life CaseLifecycle allows.                               *)
(***************************************************************************)
EXTENDS RenewalEngine, FiniteSetTheorems, TLAPS

-----------------------------------------------------------------------------
(* The least element of a finite set                                       *)

LEMMA LeastExists ==
  ASSUME NEW S, IsFiniteSet(S), S # {}, NEW R,
         \A x \in S : <<x, x>> \notin R,
         \A x, y \in S : x # y => <<x, y>> \in R \/ <<y, x>> \in R,
         \A x, y, z \in S : <<x, y>> \in R /\ <<y, z>> \in R => <<x, z>> \in R
  PROVE  \E x \in S : \A y \in S : x = y \/ <<x, y>> \in R
  <1> DEFINE below(x) == {y \in S : <<y, x>> \in R}
             family == {below(x) : x \in S}
  <1>1. IsWellFoundedOn(StrictSubsetOrdering(S), SUBSET S)
    BY FS_StrictSubsetOrderingWellFounded, FS_FiniteSubsetsOfFinite
  <1>2. family \subseteq SUBSET S /\ family # {}
    <2>1. \A x \in S : below(x) \in SUBSET S
      OBVIOUS
    <2>2. PICK x \in S : TRUE
      OBVIOUS
    <2> HIDE DEF below
    <2> QED
      BY <2>1, <2>2
  <1>3. \E X \in family : \A Y \in family : ~(<<Y, X>> \in StrictSubsetOrdering(S))
    <2> HIDE DEF family
    <2> QED
      BY <1>1, <1>2, WFMin
  <1>4. PICK x \in S : \A y \in S : ~(<<below(y), below(x)>> \in StrictSubsetOrdering(S))
    <2> HIDE DEF below
    <2>1. PICK X \in family : \A Y \in family : ~(<<Y, X>> \in StrictSubsetOrdering(S))
      BY <1>3
    <2>2. PICK x \in S : X = below(x)
      OBVIOUS
    <2> QED
      BY <2>1, <2>2
  <1>5. ASSUME NEW y \in S, <<y, x>> \in R PROVE FALSE
    <2>1. \A z \in below(y) : z \in below(x)
      BY <1>5
    <2>2. y \in below(x) /\ y \notin below(y)
      BY <1>5
    <2>3. below(y) \subseteq below(x) /\ below(y) # below(x)
      BY <2>1, <2>2
    <2>4. below(y) \in SUBSET S /\ below(x) \in SUBSET S
      OBVIOUS
    <2>5. ~(<<below(y), below(x)>> \in StrictSubsetOrdering(S))
      BY <1>4
    <2> HIDE DEF below
    <2> QED
      BY <2>3, <2>4, <2>5 DEF StrictSubsetOrdering
  <1> QED
    BY <1>5

LEMMA MinimumExists ==
  ASSUME NEW S, IsFiniteSet(S), S # {}, S \subseteq Int
  PROVE  /\ \E x \in S : \A y \in S : x <= y
         /\ \E x \in S : \A y \in S : y <= x
  <1>1. \E x \in S : \A y \in S : x <= y
    <2> DEFINE R == {p \in S \X S : p[1] < p[2]}
    <2>1. \A x, y \in S : <<x, y>> \in R <=> x < y
      OBVIOUS
    <2> HIDE DEF R
    <2>2. /\ \A x \in S : <<x, x>> \notin R
          /\ \A x, y \in S : x # y => <<x, y>> \in R \/ <<y, x>> \in R
          /\ \A x, y, z \in S : <<x, y>> \in R /\ <<y, z>> \in R => <<x, z>> \in R
      BY <2>1
    <2>3. PICK x \in S : \A y \in S : x = y \/ <<x, y>> \in R
      BY <2>2, LeastExists
    <2>4. ASSUME NEW y \in S PROVE x <= y
      <3>1. x \in Int /\ y \in Int /\ (x = y \/ x < y)
        BY <2>1, <2>3
      <3> QED
        BY <3>1
    <2> QED
      BY <2>4
  <1>2. \E x \in S : \A y \in S : y <= x
    <2> DEFINE R == {p \in S \X S : p[2] < p[1]}
    <2>1. \A x, y \in S : <<x, y>> \in R <=> y < x
      OBVIOUS
    <2> HIDE DEF R
    <2>2. /\ \A x \in S : <<x, x>> \notin R
          /\ \A x, y \in S : x # y => <<x, y>> \in R \/ <<y, x>> \in R
          /\ \A x, y, z \in S : <<x, y>> \in R /\ <<y, z>> \in R => <<x, z>> \in R
      BY <2>1
    <2>3. PICK x \in S : \A y \in S : x = y \/ <<x, y>> \in R
      BY <2>2, LeastExists
    <2>4. ASSUME NEW y \in S PROVE y <= x
      <3>1. x \in Int /\ y \in Int /\ (x = y \/ y < x)
        BY <2>1, <2>3
      <3> QED
        BY <3>1
    <2> QED
      BY <2>4
  <1> QED
    BY <1>1, <1>2

\* The case a run takes next is one of those it has still to evaluate.
LEMMA FirstIsListed ==
  ASSUME NEW S, IsFiniteSet(S), S # {}, S \subseteq Cases
  PROVE  First(S) \in S
  <1> DEFINE R == {p \in S \X S :
                     p[1][2] < p[2][2] \/ (p[1][2] = p[2][2] /\ p[1][1] < p[2][1])}
  <1>1. \A x \in S : x[1] \in Int /\ x[2] \in Int /\ x = <<x[1], x[2]>>
    <2> SUFFICES ASSUME NEW x \in S
                 PROVE  x[1] \in Int /\ x[2] \in Int /\ x = <<x[1], x[2]>>
      OBVIOUS
    <2>1. x \in Subs \X Dues
      BY DEF Cases
    <2>2. x[1] \in Subs /\ x[2] \in Dues /\ x = <<x[1], x[2]>>
      BY <2>1
    <2>3. Subs \subseteq Int /\ Dues \subseteq Int
      BY CasesAssumption
    <2> QED
      BY <2>2, <2>3
  <1>2. \A x, y \in S : <<x, y>> \in R <=> x[2] < y[2] \/ (x[2] = y[2] /\ x[1] < y[1])
    OBVIOUS
  <1> HIDE DEF R
  <1>3. /\ \A x \in S : <<x, x>> \notin R
        /\ \A x, y, z \in S : <<x, y>> \in R /\ <<y, z>> \in R => <<x, z>> \in R
    BY <1>1, <1>2
  <1>4. \A x, y \in S : x # y => <<x, y>> \in R \/ <<y, x>> \in R
    <2> SUFFICES ASSUME NEW x \in S, NEW y \in S, x # y
                 PROVE  <<x, y>> \in R \/ <<y, x>> \in R
      OBVIOUS
    <2>1. x[1] # y[1] \/ x[2] # y[2]
      BY <1>1
    <2> QED
      BY <1>1, <1>2, <2>1
  <1>5. PICK x \in S : \A y \in S : x = y \/ <<x, y>> \in R
    BY <1>3, <1>4, LeastExists
  <1>6. ASSUME NEW y \in S
        PROVE  x[2] < y[2] \/ (x[2] = y[2] /\ x[1] <= y[1])
    <2>1. CASE x = y
      BY <1>1, <2>1
    <2>2. CASE <<x, y>> \in R
      BY <1>1, <1>2, <2>2
    <2> QED
      BY <1>5, <2>1, <2>2
  <1> QED
    BY <1>6 DEF First

\* What one access of the list or of a page gathers is finite.
LEMMA CasesOfAreFinite ==
  ASSUME NEW S \in SUBSET Subs, NEW f
  PROVE  IsFiniteSet({<<s, f[s].due>> : s \in S})
  <1> DEFINE T == {<<s, f[s].due>> : s \in S}
             g == [s \in S |-> <<s, f[s].due>>]
  <1>1. IsFiniteSet(S)
    BY CasesAssumption, FS_Subset
  <1>2. g \in Surjection(S, T)
    BY DEF Surjection
  <1> QED
    BY <1>1, <1>2, FS_Surjection

LEMMA WindowIsInt == Window \in Int
  <1>1. ReminderDays \union NoticeDays \subseteq Int
    BY EngineAssumption
  <1>2. \E d \in ReminderDays \union NoticeDays : \A q \in ReminderDays \union NoticeDays : q <= d
    BY <1>1, EngineAssumption, MinimumExists
  <1> QED
    BY <1>1, <1>2 DEF Window

\* The milestone a run reminds of is the closest one at or above the days left.
LEMMA MilestoneFacts ==
  ASSUME NEW left \in Int
  PROVE  /\ Milestone(left) # None =>
              /\ Milestone(left) \in ReminderDays /\ left >= 0 /\ Milestone(left) >= left
              /\ \A d \in ReminderDays : d >= left => Milestone(left) <= d
         /\ left >= 0 /\ (\E d \in ReminderDays : d >= left) => Milestone(left) # None
  <1> DEFINE reached == {d \in ReminderDays : d >= left}
  <1>1. ReminderDays \subseteq Nat /\ None \notin Nat /\ IsFiniteSet(ReminderDays)
    <2>1. ReminderDays \in SUBSET (ReminderDays \union NoticeDays)
      OBVIOUS
    <2> QED
      BY <2>1, EngineAssumption, FS_Subset
  <1>2. ASSUME reached # {} PROVE \E d \in reached : \A q \in reached : d <= q
    <2>1. reached \in SUBSET ReminderDays /\ reached \subseteq Int
      <3>1. \A d \in reached : d \in ReminderDays
        OBVIOUS
      <3>2. ReminderDays \subseteq Int
        BY <1>1
      <3> HIDE DEF reached
      <3> QED
        BY <3>1, <3>2
    <2>2. IsFiniteSet(reached)
      BY <1>1, <2>1, FS_Subset
    <2> HIDE DEF reached
    <2> QED
      BY <1>2, <2>1, <2>2, MinimumExists
  <1>3. CASE left < 0 \/ reached = {}
    BY <1>3 DEF Milestone
  <1>4. CASE ~(left < 0) /\ reached # {}
    <2> DEFINE m == CHOOSE d \in reached : \A q \in reached : d <= q
    <2>1. Milestone(left) = m
      BY <1>4 DEF Milestone
    <2>2. m \in reached /\ \A q \in reached : m <= q
      BY <1>2, <1>4
    <2> HIDE DEF m
    <2> QED
      BY <1>1, <1>4, <2>1, <2>2
  <1> QED
    BY <1>3, <1>4

-----------------------------------------------------------------------------
(* The inductive invariant                                                 *)

Eligible(c) == cases[c].status \in ReminderEligible

\* A case without a decision bears no mark of one, and no request asks for a
\* transition its status does not allow.
Undecided == {"ABSENT", "HUMAN_REVIEW"} \union ReminderEligible

CaseInv ==
    /\ \A c \in Cases :
        /\ cases[c].status \in Undecided \union {"ACCEPTED", "DO_NOT_RENEW"}
        /\ cases[c].status \in Undecided =>
             cases[c].decision = "UNDECIDED" /\ cases[c].stamps = {}
    /\ \A a \in Actors : requests[a] # None => Legal(requests[a].seen, requests[a].to)

\* A reminder is the milestone of the day it was queued on.
Timely(r) == r.audience = "CUSTOMER" => r.days = Milestone(DaysLeft(r.case, r.at))

RunSound(run) ==
    /\ IsFiniteSet(run.todo)
    /\ run.step = "enroll" => run.batch # {} /\ IsFiniteSet(run.batch)
    /\ run.step \in {"inspect", "resolve", "queue"} =>
         run.case \in Cases /\ cases[run.case] # Absent
    /\ run.step = "resolve" => Milestone(DaysLeft(run.case, run.asOf)) # None
    /\ run.step = "queue" => run.plan # {}
    /\ run.step \notin {"resolve", "queue"} => run.plan = {}
    /\ \A r \in run.plan : r.case = run.case /\ Timely(r)

OutboxInv ==
    /\ \A r, q \in outbox : Key(r) = Key(q) => r = q
    /\ \A r \in outbox : Timely(r)

\* Subscription s, which nobody touched, is owed something by the run of e.
CaseOf(s) == <<s, subs[s].due>>

Peaceful(e, s) ==
    /\ runs[e].step # "idle" /\ s \notin disturbed[e]
    /\ subs[s].state = "ACTIVE" /\ DaysLeft(CaseOf(s), runs[e].asOf) \in 0..Window

Held(k, S) == \E r \in S : Key(r) = k

\* It is served once its case exists and the rows of its day are queued...
Served(e, s) ==
    /\ cases[CaseOf(s)] # Absent
    /\ Eligible(CaseOf(s)) => \A k \in Owed(e, s) : Held(k, outbox)

\* ...and until then the run has it before it or under its hands.
Underway(e, s) ==
    LET run == runs[e]
    IN  \/ CaseOf(s) \in run.todo
        \/ /\ run.case = CaseOf(s)
           /\ \/ run.step = "inspect"
              \/ /\ run.step = "resolve"
                 /\ \A k \in Owed(e, s) : k[2] = "INTERNAL" => Held(k, run.plan)
              \/ /\ run.step = "queue"
                 /\ \A k \in Owed(e, s) : Held(k, outbox) \/ Held(k, run.plan)

DutyInv == \A e \in Engines, s \in Subs : Peaceful(e, s) => Served(e, s) \/ Underway(e, s)

RenewalInv ==
    /\ TypeOK
    /\ CaseInv
    /\ \A e \in Engines : RunSound(runs[e])
    /\ OutboxInv
    /\ DutyInv

-----------------------------------------------------------------------------
(* Facts about a state and a step                                          *)

LEMMA RunFacts ==
  ASSUME RenewalInv, NEW e \in Engines
  PROVE  runs \in [Engines -> Run] /\ runs[e] \in Run /\ RunSound(runs[e])
  BY DEF RenewalInv, TypeOK

LEMMA SubFacts ==
  ASSUME RenewalInv, NEW s \in Subs
  PROVE  /\ subs[s] \in Subscription /\ CaseOf(s) \in Cases
         /\ CaseOf(s)[1] = s /\ CaseOf(s)[2] = subs[s].due
  BY DEF RenewalInv, TypeOK, Subscription, CaseOf, Cases

LEMMA LeftIsInt ==
  ASSUME NEW c \in Cases, NEW asOf \in Days
  PROVE  DaysLeft(c, asOf) \in Int
  <1>1. c[2] \in Dues /\ asOf \in Int
    BY CasesAssumption DEF Cases, Days
  <1>2. c[2] \in Int
    BY <1>1, CasesAssumption
  <1> QED
    BY <1>1, <1>2 DEF DaysLeft

LEMMA RestingFacts ==
  /\ Resting \in Run /\ Resting.step = "idle" /\ RunSound(Resting)
  /\ Resting.todo = {} /\ Resting.plan = {} /\ Resting.case = None
  <1>1. Resting \in Run
    BY CasesAssumption DEF Resting, Run, Days
  <1>2. IsFiniteSet({})
    BY FS_EmptySet
  <1> QED
    BY <1>1, <1>2 DEF Resting, RunSound

LEMMA GoFacts ==
  ASSUME RenewalInv, NEW e \in Engines, NEW new \in Run, Go(e, new)
  PROVE  /\ runs' \in [Engines -> Run] /\ runs'[e] = new
         /\ \A f \in Engines : f # e => runs'[f] = runs[f]
  BY RunFacts DEF Go

\* What the engine and staff may do to a case meanwhile.
Kept(c) == cases[c] # Absent => cases'[c] # Absent /\ (Eligible(c)' => Eligible(c))

LEMMA SoundStays ==
  ASSUME NEW run, RunSound(run), \A c \in Cases : cases[c] # Absent => cases'[c] # Absent
  PROVE  RunSound(run)'
  BY DEF RunSound, Timely

LEMMA OwedStays ==
  ASSUME NEW e \in Engines, NEW s \in Subs, subs'[s] = subs[s],
         holds'[CaseOf(s)] = holds[CaseOf(s)], runs'[e].asOf = runs[e].asOf
  PROVE  Owed(e, s)' = Owed(e, s) /\ CaseOf(s)' = CaseOf(s)
  <1>1. CaseOf(s)' = CaseOf(s)
    BY DEF CaseOf
  <1>2. Stopped(CaseOf(s), runs[e].asOf)' = Stopped(CaseOf(s), runs[e].asOf)
    BY <1>1 DEF Stopped
  <1> QED
    BY <1>1, <1>2 DEF Owed, CaseOf

\* A subscription in peace is served or under way after a step as it was
\* before, if the step of the run itself leaves it so.
LEMMA DutyStays ==
  ASSUME RenewalInv, NEW e \in Engines, NEW s \in Subs, Peaceful(e, s)',
         subs'[s] = subs[s], holds'[CaseOf(s)] = holds[CaseOf(s)],
         Kept(CaseOf(s)), outbox \subseteq outbox', disturbed[e] \subseteq disturbed'[e],
         runs[e].step # "idle", runs'[e].asOf = runs[e].asOf,
         Peaceful(e, s) /\ Underway(e, s) => runs'[e] = runs[e] \/ Served(e, s)' \/ Underway(e, s)'
  PROVE  Served(e, s)' \/ Underway(e, s)'
  <1>1. Owed(e, s)' = Owed(e, s) /\ CaseOf(s)' = CaseOf(s)
    BY OwedStays
  <1>2. Peaceful(e, s)
    BY <1>1 DEF Peaceful
  <1>3. CASE Served(e, s)
    BY <1>1, <1>3 DEF Served, Kept, Eligible, Held
  <1>4. CASE Underway(e, s) /\ runs'[e] = runs[e]
    BY <1>1, <1>4 DEF Underway, Held
  <1> QED
    BY <1>2, <1>3, <1>4 DEF RenewalInv, DutyInv

-----------------------------------------------------------------------------
(* The two writes of the engine to a case                                  *)

LEMMA CaseFacts ==
  ASSUME RenewalInv, NEW c \in Cases
  PROVE  /\ cases \in [Cases -> CaseRecord] /\ cases[c] \in CaseRecord
         /\ cases[c] = Absent <=> cases[c].status = "ABSENT"
  <1>1. cases \in [Cases -> CaseRecord] /\ cases[c] \in CaseRecord
    BY DEF RenewalInv, TypeOK, CasesTypeOK
  <1>2. cases[c].status = "ABSENT" => cases[c].decision = "UNDECIDED" /\ cases[c].stamps = {}
    BY DEF RenewalInv, CaseInv, Undecided
  <1> QED
    BY <1>1, <1>2 DEF CaseRecord, Absent

LEMMA OpenedFacts ==
  /\ Opened \in CaseRecord /\ Opened.status = "UPCOMING"
  /\ Opened.decision = "UNDECIDED" /\ Opened.stamps = {} /\ Opened # Absent
  /\ Absent \in CaseRecord /\ Absent.status = "ABSENT"
  /\ Absent.decision = "UNDECIDED" /\ Absent.stamps = {}
  BY DEF Opened, Absent, CaseRecord, Status, Decision, ReminderEligible

LEMMA EnsuredKeeps ==
  ASSUME RenewalInv, NEW c \in Cases, cases' = Ensured(c), requests' = requests
  PROVE  /\ cases' \in [Cases -> CaseRecord] /\ CaseInv' /\ cases'[c] # Absent
         /\ \A d \in Cases : cases[d] # Absent => cases'[d] = cases[d]
  <1>1. CASE cases[c] # Absent
    <2>1. cases' = cases
      BY <1>1 DEF Ensured
    <2> QED
      BY <1>1, <2>1, CaseFacts DEF RenewalInv, CaseInv
  <1>2. CASE cases[c] = Absent
    <2>1. cases' = [cases EXCEPT ![c] = Opened]
      BY <1>2 DEF Ensured
    <2>2. /\ cases' \in [Cases -> CaseRecord] /\ cases'[c] = Opened
          /\ \A d \in Cases : d # c => cases'[d] = cases[d]
      BY <2>1, CaseFacts, OpenedFacts
    <2>3. CaseInv'
      BY <2>2, OpenedFacts DEF RenewalInv, CaseInv, Undecided, ReminderEligible
    <2> QED
      BY <1>2, <2>2, <2>3, OpenedFacts
  <1> QED
    BY <1>1, <1>2

LEMMA CycleKeeps ==
  ASSUME RenewalInv, NEW c \in Cases, cases' = CycleStarted(c), requests' = requests
  PROVE  /\ cases' \in [Cases -> CaseRecord] /\ CaseInv'
         /\ \A d \in Cases : Kept(d)
  <1>1. CASE cases[c].status # "UPCOMING"
    <2>1. cases' = cases
      BY <1>1 DEF CycleStarted
    <2> QED
      BY <2>1, CaseFacts DEF RenewalInv, CaseInv, Kept, Eligible
  <1>2. CASE cases[c].status = "UPCOMING"
    <2> DEFINE moved == [cases[c] EXCEPT !.status = "REMINDER_CYCLE"]
    <2>1. cases' = [cases EXCEPT ![c] = moved]
      BY <1>2 DEF CycleStarted
    <2>2. /\ moved \in CaseRecord /\ moved.status = "REMINDER_CYCLE"
          /\ moved.decision = "UNDECIDED" /\ moved.stamps = {}
      <3>1. cases[c].decision = "UNDECIDED" /\ cases[c].stamps = {}
        BY <1>2 DEF RenewalInv, CaseInv, Undecided, ReminderEligible
      <3> QED
        BY <3>1, CaseFacts DEF CaseRecord, Status, ReminderEligible
    <2> HIDE DEF moved
    <2>3. /\ cases' \in [Cases -> CaseRecord] /\ cases'[c] = moved
          /\ \A d \in Cases : d # c => cases'[d] = cases[d]
      BY <2>1, <2>2, CaseFacts
    <2>4. CaseInv'
      BY <2>2, <2>3 DEF RenewalInv, CaseInv, Undecided, ReminderEligible
    <2>5. moved # Absent
      BY <2>2, OpenedFacts
    <2>6. ASSUME NEW d \in Cases PROVE Kept(d)
      BY <1>2, <2>2, <2>3, <2>5 DEF Kept, Eligible, ReminderEligible
    <2> QED
      BY <2>3, <2>4, <2>6
  <1> QED
    BY <1>1, <1>2

-----------------------------------------------------------------------------
(* A step of one run                                                       *)

LEMMA EngineKeeps ==
  ASSUME RenewalInv, NEW e \in Engines, NEW new \in Run, Go(e, new),
         cases' \in [Cases -> CaseRecord], CaseInv', \A c \in Cases : Kept(c),
         outbox' \in SUBSET OutboxRow, OutboxInv', outbox \subseteq outbox',
         changes' \in 0..MaxChanges,
         UNCHANGED <<holds, requests, today, subs, disturbed>>,
         RunSound(new)',
         \/ new.step = "idle"
         \/ /\ runs[e].step # "idle" /\ new.asOf = runs[e].asOf
            /\ \A s \in Subs : Peaceful(e, s) /\ Underway(e, s) =>
                                 Served(e, s)' \/ Underway(e, s)'
  PROVE  RenewalInv'
  <1>1. /\ runs' \in [Engines -> Run] /\ runs'[e] = new
        /\ \A f \in Engines : f # e => runs'[f] = runs[f]
    BY GoFacts
  <1>2. TypeOK'
    BY <1>1 DEF RenewalInv, TypeOK, CasesTypeOK
  <1>3. ASSUME NEW f \in Engines PROVE RunSound(runs[f])'
    <2>1. CASE f = e
      BY <1>1, <2>1 DEF RunSound
    <2>2. CASE f # e
      <3>1. PICK run : run = runs[f] /\ run = runs'[f]
        BY <1>1, <2>2
      <3>2. RunSound(run)
        BY <3>1, RunFacts
      <3>3. \A c \in Cases : cases[c] # Absent => cases'[c] # Absent
        BY DEF Kept
      <3>4. RunSound(run)'
        BY <3>2, <3>3, SoundStays
      <3> QED
        BY <3>1, <3>4 DEF RunSound
    <2> QED
      BY <2>1, <2>2
  <1>4. ASSUME NEW f \in Engines, NEW s \in Subs, Peaceful(f, s)'
        PROVE  Served(f, s)' \/ Underway(f, s)'
    <2>1. runs'[f].step # "idle"
      BY <1>4 DEF Peaceful
    <2>2. runs[f].step # "idle" /\ runs'[f].asOf = runs[f].asOf
      BY <1>1, <2>1
    <2>3. subs'[s] = subs[s] /\ holds'[CaseOf(s)] = holds[CaseOf(s)] /\ Kept(CaseOf(s))
          /\ disturbed[f] \subseteq disturbed'[f]
      BY SubFacts
    <2>4. Peaceful(f, s) /\ Underway(f, s) =>
            runs'[f] = runs[f] \/ Served(f, s)' \/ Underway(f, s)'
      BY <1>1, <2>1
    <2> QED
      BY <1>4, <2>2, <2>3, <2>4, DutyStays
  <1> QED
    BY <1>2, <1>3, <1>4 DEF RenewalInv, DutyInv

LEMMA QuietCases ==
  ASSUME RenewalInv, UNCHANGED <<cases, requests>>
  PROVE  /\ cases' \in [Cases -> CaseRecord] /\ CaseInv'
         /\ \A c \in Cases : Kept(c)
  BY DEF RenewalInv, TypeOK, CasesTypeOK, CaseInv, Kept, Eligible

LEMMA QuietOutbox ==
  ASSUME RenewalInv, outbox' = outbox
  PROVE  outbox' \in SUBSET OutboxRow /\ OutboxInv' /\ outbox \subseteq outbox'
  BY DEF RenewalInv, TypeOK, OutboxInv

\* A run that ends, fails or dies leaves nothing behind.
LEMMA RestKeeps ==
  ASSUME RenewalInv, NEW e \in Engines, Go(e, Resting), changes' \in 0..MaxChanges,
         UNCHANGED <<cases, holds, requests, today, subs, outbox, disturbed>>
  PROVE  RenewalInv'
  <1>1. RunSound(Resting)'
    BY RestingFacts, SoundStays
  <1> QED
    BY <1>1, RestingFacts, QuietCases, QuietOutbox, EngineKeeps

LEMMA FinishKeeps ==
  ASSUME RenewalInv, NEW e \in Engines, Finish(e) \/ Crash(e)
  PROVE  RenewalInv'
  <1>1. changes \in 0..MaxChanges /\ MaxChanges \in Nat
    BY CasesAssumption DEF RenewalInv, TypeOK, CasesTypeOK
  <1> QED
    BY <1>1, RestKeeps DEF Finish, Crash, caseVars

LEMMA StartKeeps ==
  ASSUME RenewalInv, NEW e \in Engines, StartRun(e)
  PROVE  RenewalInv'
  <1> DEFINE listed == {q \in Subs : Listed(q, today)}
  <1>1. PICK new : /\ new = [Resting EXCEPT !.step = "page", !.asOf = today,
                                            !.todo = {<<s, subs[s].due>> : s \in listed}]
                   /\ Go(e, new)
    BY DEF StartRun
  <1>2. /\ UNCHANGED <<cases, holds, requests, today, changes, subs, outbox>>
        /\ disturbed' = [disturbed EXCEPT ![e] = {}]
    BY DEF StartRun, caseVars
  <1>3. /\ subs \in [Subs -> Subscription] /\ today \in Days
        /\ disturbed \in [Engines -> SUBSET Subs]
    BY DEF RenewalInv, TypeOK, CasesTypeOK
  <1>4. /\ {<<s, subs[s].due>> : s \in listed} \subseteq Cases
        /\ IsFiniteSet({<<s, subs[s].due>> : s \in listed})
    <2>1. \A s \in listed : <<s, subs[s].due>> \in Cases
      BY <1>3 DEF Cases, Subscription
    <2>2. listed \in SUBSET Subs
      OBVIOUS
    <2> HIDE DEF listed
    <2> QED
      BY <2>1, <2>2, CasesOfAreFinite
  <1>5. /\ new \in Run /\ new.step = "page" /\ new.asOf = today /\ new.plan = {}
        /\ new.todo = {<<s, subs[s].due>> : s \in listed}
    <2> HIDE DEF listed
    <2> QED
      BY <1>1, <1>3, <1>4, RestingFacts DEF Run
  <1>6. /\ runs' \in [Engines -> Run] /\ runs'[e] = new
        /\ \A f \in Engines : f # e => runs'[f] = runs[f]
    BY <1>1, <1>5, GoFacts
  <1>7. TypeOK'
    BY <1>2, <1>3, <1>6 DEF RenewalInv, TypeOK, CasesTypeOK
  <1>8. ASSUME NEW f \in Engines PROVE RunSound(runs[f])'
    <2>1. CASE f = e
      <3> HIDE DEF listed
      <3> QED
        BY <1>4, <1>5, <1>6, <2>1 DEF RunSound
    <2>2. CASE f # e
      BY <1>2, <1>6, <2>2, RunFacts DEF RunSound
    <2> QED
      BY <2>1, <2>2
  <1>9. ASSUME NEW f \in Engines, NEW s \in Subs, Peaceful(f, s)'
        PROVE  Served(f, s)' \/ Underway(f, s)'
    <2>1. CASE f = e
      <3>1. subs[s].state = "ACTIVE" /\ DaysLeft(CaseOf(s), today) \in 0..Window
        BY <1>2, <1>5, <1>6, <1>9, <2>1 DEF Peaceful, CaseOf
      <3>2. subs[s].due \in Int /\ today \in Int /\ Window \in Int
        <4>1. subs[s].due \in Dues /\ Dues \subseteq Int /\ today \in Int
          BY <1>3, CasesAssumption DEF Subscription, Days
        <4> QED
          BY <4>1, WindowIsInt
      <3>3. subs[s].due - today \in 0..Window
        BY <3>1 DEF DaysLeft, CaseOf
      <3>4. Listed(s, today)
        BY <3>1, <3>2, <3>3 DEF Listed
      <3>5. CaseOf(s) \in new.todo
        BY <1>5, <3>4 DEF CaseOf
      <3> QED
        BY <1>2, <1>6, <2>1, <3>5 DEF Underway, CaseOf
    <2>2. CASE f # e
      <3>1. runs'[f] = runs[f] /\ runs[f].step # "idle"
        BY <1>6, <1>9, <2>2 DEF Peaceful
      <3>2. disturbed[f] \subseteq disturbed'[f]
        BY <1>2, <1>3, <2>2
      <3>3. Kept(CaseOf(s))
        BY <1>2, SubFacts, QuietCases
      <3> QED
        BY <1>2, <1>9, <3>1, <3>2, <3>3, DutyStays
    <2> QED
      BY <2>1, <2>2
  <1> QED
    BY <1>2, <1>7, <1>8, <1>9, QuietCases, QuietOutbox DEF RenewalInv, DutyInv

-----------------------------------------------------------------------------
(* Enrolment                                                               *)

LEMMA PageFacts ==
  ASSUME RenewalInv, NEW S \in SUBSET Subs, NEW cursor \in Subs \union {None}
  PROVE  /\ Page(S, cursor) \in SUBSET Subs
         /\ Page(S, cursor) # {} => LastOf(Page(S, cursor)) \in Subs
  <1>1. PICK page : page = Page(S, cursor)
    OBVIOUS
  <1>2. page \in SUBSET Subs
    BY <1>1 DEF Page, Least
  <1>3. ASSUME page # {} PROVE LastOf(page) \in Subs
    <2>1. IsFiniteSet(page) /\ page \subseteq Int
      <3>1. IsFiniteSet(page)
        BY <1>2, CasesAssumption, FS_Subset
      <3>2. Subs \subseteq Int
        BY CasesAssumption
      <3> QED
        BY <1>2, <3>1, <3>2
    <2>2. \E s \in page : \A q \in page : q <= s
      BY <1>3, <2>1, MinimumExists
    <2>3. LastOf(page) \in page
      BY <2>2 DEF LastOf
    <2> QED
      BY <1>2, <2>3
  <1> QED
    BY <1>1, <1>2, <1>3

LEMMA PageKeeps ==
  ASSUME RenewalInv, NEW e \in Engines, ReadPage(e)
  PROVE  RenewalInv'
  <1>1. PICK run, page : run = runs[e] /\ page = Page(Overdue(run.asOf), run.cursor)
    OBVIOUS
  <1>2. run \in Run /\ run.step = "page" /\ RunSound(run)
    BY <1>1, RunFacts DEF ReadPage
  <1>3. page \in SUBSET Subs /\ (page # {} => LastOf(page) \in Subs)
    <2>1. Overdue(run.asOf) \in SUBSET Subs /\ run.cursor \in Subs \union {None}
      BY <1>2 DEF Overdue, Run
    <2> QED
      BY <1>1, <2>1, PageFacts
  <1>4. PICK batch, full :
          /\ batch = {<<s, subs[s].due>> : s \in page} /\ full = (Cardinality(page) = PageSize)
    OBVIOUS
  <1>5. batch \subseteq Cases /\ IsFiniteSet(batch) /\ (page # {} => batch # {})
    <2>1. \A s \in page : <<s, subs[s].due>> \in Cases
      BY <1>3, SubFacts DEF CaseOf
    <2>2. IsFiniteSet(batch)
      BY <1>3, <1>4, CasesOfAreFinite
    <2> QED
      BY <1>4, <2>1, <2>2
  <1>6. PICK new : /\ new = IF page = {} THEN [run EXCEPT !.step = "next"]
                            ELSE [run EXCEPT !.step = "enroll", !.batch = batch,
                                             !.cursor = LastOf(page), !.full = full]
                   /\ Go(e, new)
    BY <1>1, <1>4 DEF ReadPage
  <1>7. /\ new \in Run /\ new.asOf = run.asOf /\ new.todo = run.todo /\ new.case = run.case
        /\ new.plan = run.plan
        /\ new.step = "next" \/ (new.step = "enroll" /\ new.batch = batch /\ page # {})
    <2>1. full \in BOOLEAN
      BY <1>4
    <2>2. CASE page = {}
      BY <1>2, <1>6, <2>2 DEF Run
    <2>3. CASE page # {}
      BY <1>2, <1>3, <1>5, <1>6, <2>1, <2>3 DEF Run
    <2> QED
      BY <2>2, <2>3
  <1>8. UNCHANGED <<cases, holds, requests, today, changes, subs, outbox, disturbed>>
    BY DEF ReadPage, caseVars
  <1>9. RunSound(new)'
    <2>1. RunSound(new)
      BY <1>2, <1>5, <1>7 DEF RunSound
    <2> QED
      BY <1>8, <2>1 DEF RunSound
  <1>10. runs' \in [Engines -> Run] /\ runs'[e] = new
    BY <1>6, <1>7, GoFacts
  <1>11. ASSUME NEW s \in Subs, Underway(e, s) PROVE Underway(e, s)'
    <2>1. CaseOf(s) \in run.todo
      BY <1>1, <1>2, <1>11 DEF Underway
    <2> QED
      BY <1>7, <1>8, <1>10, <2>1 DEF Underway, CaseOf
  <1>12. changes' \in 0..MaxChanges
    BY <1>8 DEF RenewalInv, TypeOK, CasesTypeOK
  <1> QED
    BY <1>1, <1>2, <1>6, <1>7, <1>8, <1>9, <1>11, <1>12, QuietCases, QuietOutbox, EngineKeeps

\* The case a page enrols next is one of the page.
LEMMA BatchFirst ==
  ASSUME NEW S \in SUBSET Cases, S # {}, IsFiniteSet(S)
  PROVE  (CHOOSE p \in S : \A q \in S : p[1] <= q[1]) \in Cases
  <1>1. S \subseteq Cases /\ S # {} /\ IsFiniteSet(S)
    OBVIOUS
  <1> DEFINE first == [p \in S |-> p[1]]
             ids == {first[p] : p \in S}
  <1>2. IsFiniteSet(ids)
    <2>1. first \in Surjection(S, ids)
      BY DEF Surjection
    <2> HIDE DEF first, ids
    <2> QED
      BY <1>1, <2>1, FS_Surjection
  <1>3. ids # {} /\ ids \subseteq Int
    <2>1. \A p \in S : p[1] \in Subs
      BY <1>1 DEF Cases
    <2>2. Subs \subseteq Int
      BY CasesAssumption
    <2> QED
      BY <1>1, <2>1, <2>2
  <1>4. PICK i \in ids : \A j \in ids : i <= j
    <2> HIDE DEF ids
    <2> QED
      BY <1>2, <1>3, MinimumExists
  <1>5. PICK p \in S : \A q \in S : p[1] <= q[1]
    <2>1. PICK p \in S : i = p[1]
      OBVIOUS
    <2>2. \A q \in S : q[1] \in ids
      OBVIOUS
    <2> QED
      BY <1>4, <2>1, <2>2
  <1>6. (CHOOSE x \in S : \A q \in S : x[1] <= q[1]) \in S
    BY <1>5
  <1> QED
    BY <1>1, <1>6

LEMMA EnrollKeeps ==
  ASSUME RenewalInv, NEW e \in Engines, Enroll(e)
  PROVE  RenewalInv'
  <1>1. PICK run, c : /\ run = runs[e]
                      /\ c = CHOOSE p \in run.batch : \A q \in run.batch : p[1] <= q[1]
    OBVIOUS
  <1>2. run \in Run /\ run.step = "enroll" /\ RunSound(run)
    BY <1>1, RunFacts DEF Enroll
  <1>3. c \in Cases
    BY <1>1, <1>2, BatchFirst DEF Run, RunSound
  <1>4. UNCHANGED <<holds, requests, today, changes, subs, outbox, disturbed>>
    BY DEF Enroll
  <1>5. changes' \in 0..MaxChanges
    BY <1>4 DEF RenewalInv, TypeOK, CasesTypeOK
  <1>6. CASE Go(e, Resting) /\ cases' = cases
    BY <1>4, <1>5, <1>6, RestKeeps
  <1>7. CASE ~(Go(e, Resting) /\ cases' = cases)
    <2>1. PICK new : /\ new = [run EXCEPT !.batch = run.batch \ {c},
                                          !.step = IF run.batch \ {c} # {} THEN "enroll"
                                                   ELSE IF run.full THEN "page" ELSE "next"]
                     /\ Go(e, new) /\ cases' = Ensured(c)
      BY <1>1, <1>7 DEF Enroll, Abort
    <2>2. /\ new \in Run /\ new.asOf = run.asOf /\ new.todo = run.todo /\ new.case = run.case
          /\ new.plan = run.plan /\ new.batch = run.batch \ {c}
          /\ new.step \in {"page", "next"} \/ (new.step = "enroll" /\ new.batch # {})
      BY <1>2, <2>1 DEF Run
    <2>3. /\ cases' \in [Cases -> CaseRecord] /\ CaseInv'
          /\ \A d \in Cases : cases[d] # Absent => cases'[d] = cases[d]
      BY <1>3, <1>4, <2>1, EnsuredKeeps
    <2>4. RunSound(new)'
      <3>1. IsFiniteSet(run.batch) => IsFiniteSet(run.batch \ {c})
        <4>1. run.batch \ {c} \in SUBSET run.batch
          OBVIOUS
        <4> QED
          BY <4>1, FS_Subset
      <3>2. RunSound(new)
        BY <1>2, <2>2, <3>1 DEF RunSound
      <3> QED
        BY <2>3, <3>2, SoundStays
    <2>5. runs' \in [Engines -> Run] /\ runs'[e] = new
      BY <2>1, <2>2, GoFacts
    <2>6. ASSUME NEW s \in Subs, Underway(e, s) PROVE Underway(e, s)'
      <3>1. CaseOf(s) \in run.todo
        BY <1>1, <1>2, <2>6 DEF Underway
      <3> QED
        BY <1>4, <2>2, <2>5, <3>1 DEF Underway, CaseOf
    <2>7. \A d \in Cases : Kept(d)
      BY <2>3 DEF Kept, Eligible
    <2> QED
      BY <1>1, <1>2, <1>4, <1>5, <2>1, <2>2, <2>3, <2>4, <2>6, <2>7, QuietOutbox, EngineKeeps
  <1> QED
    BY <1>6, <1>7

LEMMA EnsureKeeps ==
  ASSUME RenewalInv, NEW e \in Engines, Ensure(e)
  PROVE  RenewalInv'
  <1>1. PICK run, c : run = runs[e] /\ c = First(run.todo)
    OBVIOUS
  <1>2. run \in Run /\ run.step = "next" /\ RunSound(run) /\ run.todo # {}
    BY <1>1, RunFacts DEF Ensure
  <1>3. c \in run.todo /\ c \in Cases /\ IsFiniteSet(run.todo)
    <2>1. run.todo \subseteq Cases /\ IsFiniteSet(run.todo)
      BY <1>2 DEF Run, RunSound
    <2> QED
      BY <1>1, <1>2, <2>1, FirstIsListed
  <1>4. UNCHANGED <<holds, requests, today, changes, subs, outbox, disturbed>>
    BY DEF Ensure
  <1>5. changes' \in 0..MaxChanges
    BY <1>4 DEF RenewalInv, TypeOK, CasesTypeOK
  <1>6. CASE Go(e, Resting) /\ cases' = cases
    BY <1>4, <1>5, <1>6, RestKeeps
  <1>7. CASE ~(Go(e, Resting) /\ cases' = cases)
    <2>1. PICK new : /\ new = [run EXCEPT !.todo = run.todo \ {c}, !.case = c, !.step = "inspect"]
                     /\ Go(e, new) /\ cases' = Ensured(c)
      BY <1>1, <1>7 DEF Ensure, Abort
    <2>2. /\ new \in Run /\ new.asOf = run.asOf /\ new.todo = run.todo \ {c} /\ new.case = c
          /\ new.plan = run.plan /\ new.step = "inspect"
      BY <1>2, <1>3, <2>1 DEF Run
    <2>3. /\ cases' \in [Cases -> CaseRecord] /\ CaseInv' /\ cases'[c] # Absent
          /\ \A d \in Cases : cases[d] # Absent => cases'[d] = cases[d]
      BY <1>3, <1>4, <2>1, EnsuredKeeps
    <2>4. RunSound(new)'
      <3>1. IsFiniteSet(run.todo \ {c})
        <4>1. run.todo \ {c} \in SUBSET run.todo
          OBVIOUS
        <4> QED
          BY <1>3, <4>1, FS_Subset
      <3> QED
        BY <1>2, <1>3, <2>2, <2>3, <3>1 DEF RunSound
    <2>5. runs' \in [Engines -> Run] /\ runs'[e] = new
      BY <2>1, <2>2, GoFacts
    <2>6. ASSUME NEW s \in Subs, Underway(e, s) PROVE Underway(e, s)'
      <3>1. CaseOf(s) \in run.todo
        BY <1>1, <1>2, <2>6 DEF Underway
      <3>2. CaseOf(s) \in new.todo \/ CaseOf(s) = new.case
        BY <2>2, <3>1
      <3> QED
        BY <1>4, <2>2, <2>5, <3>2 DEF Underway, CaseOf
    <2>7. \A d \in Cases : Kept(d)
      BY <2>3 DEF Kept, Eligible
    <2> QED
      BY <1>1, <1>2, <1>4, <1>5, <2>1, <2>2, <2>3, <2>4, <2>6, <2>7, QuietOutbox, EngineKeeps
  <1> QED
    BY <1>6, <1>7

-----------------------------------------------------------------------------
(* Evaluation of one case                                                  *)

LEMMA RowFacts ==
  ASSUME NEW c, NEW audience, NEW days, NEW to, NEW asOf
  PROVE  LET r == Row(c, audience, days, to, asOf)
         IN  /\ r.case = c /\ r.audience = audience /\ r.days = days /\ r.to = to /\ r.at = asOf
             /\ Key(r) = <<c, audience, days, IF audience = "INTERNAL" THEN to ELSE None>>
  BY DEF Row, Key

LEMMA NoticeFacts ==
  ASSUME NEW c \in Cases, NEW asOf \in Days
  PROVE  /\ \A r \in Notices(c, asOf) :
              r \in OutboxRow /\ r.case = c /\ r.audience = "INTERNAL"
         /\ \A d \in NoticeDays, to \in Staff :
              /\ d = DaysLeft(c, asOf)
              /\ "INTERNAL" \in Stopped(c, asOf) => d \notin QuietDays
              => Held(<<c, "INTERNAL", d, to>>, Notices(c, asOf))
  <1>1. ASSUME NEW r \in Notices(c, asOf)
        PROVE  r \in OutboxRow /\ r.case = c /\ r.audience = "INTERNAL"
    <2>1. PICK d \in NoticeDays, to \in Staff : r = Row(c, "INTERNAL", d, to, asOf)
      BY DEF Notices
    <2> QED
      BY <2>1 DEF Row, OutboxRow, Audience
  <1>2. ASSUME NEW d \in NoticeDays, NEW to \in Staff, d = DaysLeft(c, asOf),
               "INTERNAL" \in Stopped(c, asOf) => d \notin QuietDays
        PROVE  Held(<<c, "INTERNAL", d, to>>, Notices(c, asOf))
    <2>1. Row(c, "INTERNAL", d, to, asOf) \in Notices(c, asOf)
      BY <1>2 DEF Notices
    <2>2. Key(Row(c, "INTERNAL", d, to, asOf)) = <<c, "INTERNAL", d, to>>
      BY RowFacts
    <2> QED
      BY <2>1, <2>2 DEF Held
  <1> QED
    BY <1>1, <1>2

\* What a run owes a subscription is what Inspect and Resolve compute.
LEMMA OwedFacts ==
  ASSUME RenewalInv, NEW e \in Engines, NEW s \in Subs, NEW k \in Owed(e, s), Peaceful(e, s)
  PROVE  LET c == CaseOf(s)
             asOf == runs[e].asOf
         IN  \/ /\ Reminds(c, asOf) /\ subs[s].contact # None
                /\ k = <<c, "CUSTOMER", Milestone(DaysLeft(c, asOf)), None>>
             \/ Held(k, Notices(c, asOf))
  <1>1. PICK c, asOf, stopped, left :
          /\ c = CaseOf(s) /\ asOf = runs[e].asOf /\ stopped = Stopped(c, asOf)
          /\ left = DaysLeft(c, asOf)
    OBVIOUS
  <1>2. left \in Int /\ left >= 0
    BY <1>1, WindowIsInt DEF Peaceful
  <1>3. \/ \E d \in ReminderDays :
            /\ subs[s].contact # None /\ "CUSTOMER" \notin stopped
            /\ d >= left /\ (\A n \in ReminderDays : n < d => n < left)
            /\ k = <<c, "CUSTOMER", d, None>>
        \/ \E d \in NoticeDays, to \in Staff :
            /\ d = left /\ ("INTERNAL" \in stopped => d \notin QuietDays)
            /\ k = <<c, "INTERNAL", d, to>>
    BY <1>1 DEF Owed, CaseOf
  <1>4. ASSUME NEW d \in ReminderDays, d >= left, \A n \in ReminderDays : n < d => n < left
        PROVE  Milestone(left) # None /\ d = Milestone(left)
    <2>1. Milestone(left) # None
      BY <1>2, <1>4, MilestoneFacts
    <2>2. PICK m : m = Milestone(left)
      OBVIOUS
    <2>3. m \in ReminderDays /\ m >= left /\ m <= d
      BY <1>2, <1>4, <2>1, <2>2, MilestoneFacts
    <2>4. d \in Int /\ m \in Int
      <3>1. ReminderDays \subseteq Int
        BY EngineAssumption
      <3> QED
        BY <2>3, <3>1
    <2>5. m < d => m < left
      BY <1>4, <2>3
    <2> QED
      BY <1>2, <2>1, <2>2, <2>3, <2>4, <2>5
  <1>5. c \in Cases /\ asOf \in Days
    BY <1>1, SubFacts, RunFacts DEF Run
  <1>6. ASSUME NEW d \in NoticeDays, NEW to \in Staff, d = left,
               "INTERNAL" \in stopped => d \notin QuietDays, k = <<c, "INTERNAL", d, to>>
        PROVE  Held(k, Notices(c, asOf))
    BY <1>1, <1>5, <1>6, NoticeFacts
  <1> QED
    BY <1>1, <1>3, <1>4, <1>6 DEF Reminds

LEMMA InspectKeeps ==
  ASSUME RenewalInv, NEW e \in Engines, Inspect(e)
  PROVE  RenewalInv'
  <1>1. PICK run, c, asOf, notices :
          run = runs[e] /\ c = run.case /\ asOf = run.asOf /\ notices = Notices(c, asOf)
    OBVIOUS
  <1>2. run \in Run /\ run.step = "inspect" /\ RunSound(run) /\ asOf \in Days
    BY <1>1, RunFacts DEF Inspect, Run
  <1>3. c \in Cases /\ cases[c] # Absent
    BY <1>1, <1>2 DEF RunSound
  <1>4. ASSUME NEW r \in notices
        PROVE  r \in OutboxRow /\ r.case = c /\ r.audience = "INTERNAL"
    BY <1>1, <1>2, <1>3, NoticeFacts
  <1>5. PICK new :
          /\ new = IF ~Eligible(c) \/ (~Reminds(c, asOf) /\ notices = {}) THEN Leave(run)
                   ELSE [run EXCEPT !.step = IF Reminds(c, asOf) THEN "resolve" ELSE "queue",
                                    !.plan = notices]
          /\ Go(e, new)
    BY <1>1 DEF Inspect, Eligible
  <1>6. UNCHANGED <<cases, holds, requests, today, changes, subs, outbox, disturbed>>
    BY DEF Inspect, caseVars
  <1>7. changes' \in 0..MaxChanges
    BY <1>6 DEF RenewalInv, TypeOK, CasesTypeOK
  <1>8. CASE ~Eligible(c) \/ (~Reminds(c, asOf) /\ notices = {})
    <2>1. /\ new \in Run /\ new.asOf = asOf /\ new.todo = run.todo
          /\ new.plan = {} /\ new.step = "next"
      BY <1>1, <1>2, <1>5, <1>8 DEF Leave, Run
    <2>2. RunSound(new)'
      BY <1>2, <2>1 DEF RunSound
    <2>3. runs' \in [Engines -> Run] /\ runs'[e] = new
      BY <1>5, <2>1, GoFacts
    <2>4. ASSUME NEW s \in Subs, Peaceful(e, s), Underway(e, s)
          PROVE  Served(e, s)' \/ Underway(e, s)'
      <3>1. CASE CaseOf(s) \in run.todo
        BY <1>6, <2>1, <2>3, <3>1 DEF Underway, CaseOf
      <3>2. CASE CaseOf(s) = c
        <4>1. ASSUME Eligible(c), NEW k \in Owed(e, s) PROVE FALSE
          <5>1. Reminds(c, asOf) \/ Held(k, notices)
            BY <1>1, <2>4, <3>2, OwedFacts
          <5> QED
            BY <1>8, <4>1, <5>1 DEF Held
        <4>2. Owed(e, s)' = Owed(e, s) /\ CaseOf(s)' = CaseOf(s)
          BY <1>1, <1>6, <2>1, <2>3, OwedStays
        <4> QED
          BY <1>3, <1>6, <3>2, <4>1, <4>2 DEF Served, Eligible
      <3> QED
        BY <1>1, <1>2, <2>4, <3>1, <3>2 DEF Underway
    <2> QED
      BY <1>1, <1>2, <1>5, <1>6, <1>7, <2>1, <2>2, <2>4, QuietCases, QuietOutbox, EngineKeeps
  <1>9. CASE ~(~Eligible(c) \/ (~Reminds(c, asOf) /\ notices = {}))
    <2>1. /\ new \in Run /\ new.asOf = asOf /\ new.todo = run.todo /\ new.case = c
          /\ new.plan = notices
          /\ \/ new.step = "resolve" /\ Reminds(c, asOf)
             \/ new.step = "queue" /\ ~Reminds(c, asOf) /\ notices # {}
      <3>1. notices \in SUBSET OutboxRow
        BY <1>4
      <3> QED
        BY <1>1, <1>2, <1>5, <1>9, <3>1 DEF Run
    <2>2. RunSound(new)'
      BY <1>2, <1>3, <1>4, <1>6, <2>1 DEF RunSound, Timely, Reminds
    <2>3. runs' \in [Engines -> Run] /\ runs'[e] = new
      BY <1>5, <2>1, GoFacts
    <2>4. ASSUME NEW s \in Subs, Peaceful(e, s), Underway(e, s)
          PROVE  Served(e, s)' \/ Underway(e, s)'
      <3>1. CASE CaseOf(s) \in run.todo
        BY <1>6, <2>1, <2>3, <3>1 DEF Underway, CaseOf
      <3>2. CASE CaseOf(s) = c
        <4>1. ASSUME NEW k \in Owed(e, s)
              PROVE  (Reminds(c, asOf) /\ k[2] # "INTERNAL") \/ Held(k, notices)
          BY <1>1, <2>4, <3>2, OwedFacts
        <4>2. Owed(e, s)' = Owed(e, s) /\ CaseOf(s)' = CaseOf(s)
          BY <1>1, <1>6, <2>1, <2>3, OwedStays
        <4> QED
          BY <2>1, <2>3, <3>2, <4>1, <4>2 DEF Underway
      <3> QED
        BY <1>1, <1>2, <2>4, <3>1, <3>2 DEF Underway
    <2> QED
      BY <1>1, <1>2, <1>5, <1>6, <1>7, <2>1, <2>2, <2>4, QuietCases, QuietOutbox, EngineKeeps
  <1> QED
    BY <1>8, <1>9

LEMMA ResolveKeeps ==
  ASSUME RenewalInv, NEW e \in Engines, Resolve(e)
  PROVE  RenewalInv'
  <1>1. PICK run, c, asOf, days :
          run = runs[e] /\ c = run.case /\ asOf = run.asOf /\ days = Milestone(DaysLeft(c, asOf))
    OBVIOUS
  <1>2. run \in Run /\ run.step = "resolve" /\ RunSound(run) /\ asOf \in Days
    BY <1>1, RunFacts DEF Resolve, Run
  <1>3. c \in Cases /\ c[1] \in Subs /\ cases[c] # Absent /\ days # None
    BY <1>1, <1>2 DEF RunSound, Cases
  <1>4. PICK reminders : reminders = Reminders(c, asOf)
    OBVIOUS
  <1>5. ASSUME NEW r \in reminders
        PROVE  r \in OutboxRow /\ r.case = c /\ Timely(r)
    <2>1. PICK to \in Contact(c[1]) : r = Row(c, "CUSTOMER", days, to, asOf)
      BY <1>1, <1>4 DEF Reminders
    <2>2. to \in Addresses
      BY <1>3, <2>1, SubFacts DEF Contact, Subscription
    <2>3. days \in ReminderDays
      BY <1>1, <1>2, <1>3, LeftIsInt, MilestoneFacts
    <2>4. r.case = c /\ r.days = days /\ r.at = asOf
      BY <2>1, RowFacts
    <2>5. r \in OutboxRow
      BY <1>2, <1>3, <2>1, <2>2, <2>3 DEF Row, OutboxRow, Audience
    <2> QED
      BY <1>1, <2>4, <2>5 DEF Timely
  <1>6. PICK plan : plan = run.plan \union reminders
    OBVIOUS
  <1>7. plan \in SUBSET OutboxRow /\ \A r \in plan : r.case = c /\ Timely(r)
    BY <1>1, <1>2, <1>5, <1>6 DEF RunSound, Run
  <1>8. PICK new :
          /\ new = IF plan = {} THEN Leave(run) ELSE [run EXCEPT !.step = "queue", !.plan = plan]
          /\ Go(e, new)
    BY <1>1, <1>4, <1>6 DEF Resolve
  <1>9. UNCHANGED <<cases, holds, requests, today, changes, subs, outbox, disturbed>>
    BY DEF Resolve, caseVars
  <1>10. changes' \in 0..MaxChanges
    BY <1>9 DEF RenewalInv, TypeOK, CasesTypeOK
  <1>11. /\ new \in Run /\ new.asOf = asOf /\ new.todo = run.todo /\ new.plan = plan
         /\ \/ new.step = "next" /\ plan = {}
            \/ new.step = "queue" /\ plan # {} /\ new.case = c
    <2>1. CASE plan = {}
      BY <1>1, <1>2, <1>8, <2>1 DEF Leave, Run
    <2>2. CASE plan # {}
      BY <1>1, <1>2, <1>7, <1>8, <2>2 DEF Run
    <2> QED
      BY <2>1, <2>2
  <1>12. RunSound(new)'
    BY <1>2, <1>3, <1>7, <1>9, <1>11 DEF RunSound, Timely
  <1>13. runs' \in [Engines -> Run] /\ runs'[e] = new
    BY <1>8, <1>11, GoFacts
  <1>14. ASSUME NEW s \in Subs, Peaceful(e, s), Underway(e, s)
         PROVE  Served(e, s)' \/ Underway(e, s)'
    <2>1. CASE CaseOf(s) \in run.todo
      BY <1>9, <1>11, <1>13, <2>1 DEF Underway, CaseOf
    <2>2. CASE CaseOf(s) = c /\ \A k \in Owed(e, s) : k[2] = "INTERNAL" => Held(k, run.plan)
      <3>1. ASSUME NEW k \in Owed(e, s) PROVE Held(k, plan)
        <4>1. CASE subs[s].contact # None /\ k = <<c, "CUSTOMER", days, None>>
          <5>1. c[1] = s /\ subs[s].contact \in Contact(c[1])
            BY <2>2, <4>1, SubFacts DEF Contact
          <5>2. Row(c, "CUSTOMER", days, subs[s].contact, asOf) \in plan
            BY <1>1, <1>4, <1>6, <5>1 DEF Reminders
          <5>3. Key(Row(c, "CUSTOMER", days, subs[s].contact, asOf)) = k
            BY <4>1, RowFacts
          <5> QED
            BY <5>2, <5>3 DEF Held
        <4>2. CASE Held(k, Notices(c, asOf))
          <5>1. PICK r \in Notices(c, asOf) : Key(r) = k
            BY <4>2 DEF Held
          <5>2. r.audience = "INTERNAL"
            BY <1>2, <1>3, NoticeFacts
          <5>3. k[2] = "INTERNAL"
            BY <5>1, <5>2 DEF Key
          <5> QED
            BY <1>6, <2>2, <5>3 DEF Held
        <4> QED
          BY <1>1, <1>14, <2>2, <4>1, <4>2, OwedFacts
      <3>2. Owed(e, s)' = Owed(e, s) /\ CaseOf(s)' = CaseOf(s)
        BY <1>1, <1>9, <1>11, <1>13, OwedStays
      <3>3. CASE plan = {}
        <4>1. \A k : ~Held(k, plan)
          BY <3>3 DEF Held
        <4> QED
          BY <1>3, <1>9, <2>2, <3>1, <3>2, <4>1 DEF Served
      <3>4. CASE plan # {}
        BY <1>11, <1>13, <2>2, <3>1, <3>2, <3>4 DEF Underway
      <3> QED
        BY <3>3, <3>4
    <2> QED
      BY <1>1, <1>2, <1>14, <2>1, <2>2 DEF Underway
  <1> QED
    BY <1>1, <1>2, <1>8, <1>9, <1>10, <1>11, <1>12, <1>14, QuietCases, QuietOutbox, EngineKeeps

\* A row is queued unless one of its key is: either way its key is there.
LEMMA OutboxGrows ==
  ASSUME RenewalInv, NEW r \in OutboxRow, Timely(r),
         IF \E q \in outbox : Key(q) = Key(r) THEN outbox' = outbox
         ELSE outbox' = outbox \union {r}
  PROVE  /\ outbox' \in SUBSET OutboxRow /\ OutboxInv' /\ outbox \subseteq outbox'
         /\ Held(Key(r), outbox')
  <1>1. CASE \E q \in outbox : Key(q) = Key(r)
    BY <1>1, QuietOutbox DEF Held
  <1>2. CASE ~\E q \in outbox : Key(q) = Key(r)
    <2>1. outbox' = outbox \union {r}
      BY <1>2
    <2>2. OutboxInv'
      BY <1>2, <2>1 DEF RenewalInv, OutboxInv
    <2> QED
      BY <2>1, <2>2 DEF Held, RenewalInv, TypeOK
  <1> QED
    BY <1>1, <1>2

LEMMA QueueKeeps ==
  ASSUME RenewalInv, NEW e \in Engines, Queue(e)
  PROVE  RenewalInv'
  <1>1. PICK run, c : run = runs[e] /\ c = run.case
    OBVIOUS
  <1>2. run \in Run /\ run.step = "queue" /\ RunSound(run)
    BY <1>1, RunFacts DEF Queue
  <1>3. PICK r \in run.plan :
          /\ IF \E q \in outbox : Key(q) = Key(r) THEN cases' = cases /\ outbox' = outbox
             ELSE /\ outbox' = outbox \union {r}
                  /\ cases' = IF r.audience = "CUSTOMER" THEN CycleStarted(r.case) ELSE cases
          /\ Go(e, IF run.plan = {r} THEN Leave(run) ELSE [run EXCEPT !.plan = run.plan \ {r}])
    BY <1>1 DEF Queue
  <1>4. UNCHANGED <<holds, requests, today, changes, subs, disturbed>>
    BY DEF Queue
  <1>5. c \in Cases /\ cases[c] # Absent /\ r \in OutboxRow /\ r.case = c /\ Timely(r)
    BY <1>1, <1>2 DEF RunSound, Run
  <1>6. /\ outbox' \in SUBSET OutboxRow /\ OutboxInv' /\ outbox \subseteq outbox'
        /\ Held(Key(r), outbox')
    BY <1>3, <1>5, OutboxGrows
  <1>7. /\ cases' \in [Cases -> CaseRecord] /\ CaseInv' /\ \A d \in Cases : Kept(d)
    <2>1. CASE cases' = cases
      BY <1>4, <2>1, QuietCases
    <2>2. CASE cases' = CycleStarted(c)
      BY <1>4, <1>5, <2>2, CycleKeeps
    <2> QED
      BY <1>3, <1>5, <2>1, <2>2
  <1>8. PICK new :
          /\ new = IF run.plan = {r} THEN Leave(run) ELSE [run EXCEPT !.plan = run.plan \ {r}]
          /\ Go(e, new)
    BY <1>3
  <1>9. /\ new \in Run /\ new.asOf = run.asOf /\ new.todo = run.todo
        /\ new.plan = run.plan \ {r}
        /\ \/ new.step = "next" /\ new.plan = {}
           \/ new.step = "queue" /\ new.plan # {} /\ new.case = c
    <2>1. CASE run.plan = {r}
      BY <1>2, <1>8, <2>1 DEF Leave, Run
    <2>2. CASE run.plan # {r}
      BY <1>1, <1>2, <1>8, <2>2 DEF Run
    <2> QED
      BY <2>1, <2>2
  <1>10. RunSound(new)'
    BY <1>1, <1>2, <1>5, <1>7, <1>9 DEF RunSound, Timely, Kept
  <1>11. changes' \in 0..MaxChanges
    BY <1>4 DEF RenewalInv, TypeOK, CasesTypeOK
  <1>12. runs' \in [Engines -> Run] /\ runs'[e] = new
    BY <1>8, <1>9, GoFacts
  <1>13. ASSUME NEW s \in Subs, Peaceful(e, s), Underway(e, s)
         PROVE  Served(e, s)' \/ Underway(e, s)'
    <2>1. CASE CaseOf(s) \in run.todo
      BY <1>4, <1>9, <1>12, <2>1 DEF Underway, CaseOf
    <2>2. CASE CaseOf(s) = c /\ \A k \in Owed(e, s) : Held(k, outbox) \/ Held(k, run.plan)
      <3>1. ASSUME NEW k \in Owed(e, s) PROVE Held(k, outbox') \/ Held(k, new.plan)
        BY <1>6, <1>9, <2>2 DEF Held
      <3>2. Owed(e, s)' = Owed(e, s) /\ CaseOf(s)' = CaseOf(s)
        BY <1>1, <1>4, <1>9, <1>12, OwedStays
      <3>3. CASE new.plan = {}
        <4>1. \A k : ~Held(k, new.plan)
          BY <3>3 DEF Held
        <4>2. \A k \in Owed(e, s) : Held(k, outbox')
          BY <3>1, <4>1
        <4>3. cases'[c] # Absent
          BY <1>5, <1>7 DEF Kept
        <4> QED
          BY <2>2, <3>2, <4>2, <4>3 DEF Served, Held
      <3>4. CASE new.plan # {}
        BY <1>9, <1>12, <2>2, <3>1, <3>2, <3>4 DEF Underway, Held
      <3> QED
        BY <3>3, <3>4
    <2> QED
      BY <1>1, <1>2, <1>13, <2>1, <2>2 DEF Underway
  <1> QED
    BY <1>1, <1>2, <1>4, <1>6, <1>7, <1>8, <1>9, <1>10, <1>11, <1>13, EngineKeeps

-----------------------------------------------------------------------------
(* Staff and the environment                                               *)

\* A decision is only taken of a case without one, along the transitions.
LEMMA TransitionedFacts ==
  ASSUME NEW record \in CaseRecord, NEW to \in Targets, record.status \in Predecessors[to],
         record.status \in Undecided \union {"ACCEPTED", "DO_NOT_RENEW"},
         record.status \in Undecided => record.decision = "UNDECIDED" /\ record.stamps = {}
  PROVE  LET new == Transitioned(record, to)
         IN  /\ new \in CaseRecord /\ record.decision = "UNDECIDED" /\ record.stamps = {}
             /\ new.status = to /\ new # Absent /\ to \in {"AWAITING_CUSTOMER", "ACCEPTED", "DO_NOT_RENEW"}
             /\ to = "ACCEPTED" => new.decision = "ACCEPTED" /\ new.stamps = {"acceptedAt"}
             /\ to = "DO_NOT_RENEW" => new.decision = "REJECTED" /\ new.stamps = {"doNotRenewAt"}
             /\ to = "AWAITING_CUSTOMER" => new.decision = "UNDECIDED" /\ new.stamps = {}
  <1>1. to \in {"AWAITING_CUSTOMER", "ACCEPTED", "DO_NOT_RENEW"}
    BY DEF Targets, Predecessors, Undecided, ReminderEligible
  <1>2. record.status \in Undecided
    BY <1>1 DEF Predecessors, Undecided, ReminderEligible
  <1>3. /\ record.decision = "UNDECIDED" /\ record.stamps = {}
    BY <1>2
  <1>4. CASE to = "ACCEPTED"
    BY <1>3, <1>4 DEF Transitioned, CaseRecord, Status, Decision, Stamp, Targets, Predecessors,
                      Absent
  <1>5. CASE to = "DO_NOT_RENEW"
    BY <1>3, <1>5 DEF Transitioned, CaseRecord, Status, Decision, Stamp, Targets, Predecessors,
                      Absent
  <1>6. CASE to = "AWAITING_CUSTOMER"
    <2>1. Transitioned(record, to) = [record EXCEPT !.status = to]
      BY <1>6 DEF Transitioned
    <2>2. to \in Status /\ to # "ABSENT"
      BY <1>6 DEF Status, ReminderEligible
    <2>3. Absent.status = "ABSENT"
      BY DEF Absent
    <2> QED
      BY <1>3, <1>6, <2>1, <2>2, <2>3 DEF CaseRecord
  <1> QED
    BY <1>1, <1>3, <1>4, <1>5, <1>6

LEMMA ApplyKeeps ==
  ASSUME RenewalInv, NEW a \in Actors, ApplyTransition(a)
  PROVE  /\ CasesTypeOK' /\ CaseInv'
         /\ \A c \in Cases : cases[c] # Absent => cases'[c] # Absent
  <1>1. PICK r : r = requests[a]
    OBVIOUS
  <1>2. /\ r \in Request /\ Legal(r.seen, r.to)
        /\ requests \in [Actors -> Request \union {None}]
        /\ requests' = [requests EXCEPT ![a] = None]
        /\ UNCHANGED <<holds, today, changes>>
    BY <1>1 DEF ApplyTransition, RenewalInv, TypeOK, CasesTypeOK, CaseInv
  <1>3. /\ requests' \in [Actors -> Request \union {None}]
        /\ \A b \in Actors : requests'[b] # None => requests'[b] = requests[b]
    BY <1>2
  <1>4. CASE cases' = cases
    BY <1>2, <1>3, <1>4 DEF RenewalInv, TypeOK, CasesTypeOK, CaseInv
  <1>5. CASE cases' # cases
    <2>1. PICK c, new : c = r.case /\ new = Transitioned(cases[c], r.to)
      OBVIOUS
    <2>2. c \in Cases /\ r.to \in Targets /\ cases[c] \in CaseRecord /\ cases[c].status = r.seen
          /\ cases' = [cases EXCEPT ![c] = new]
      BY <1>1, <1>2, <1>5, <2>1, CaseFacts DEF ApplyTransition, Applies, Request
    <2>3. /\ new \in CaseRecord /\ new.status = r.to /\ new # Absent
          /\ r.to \in {"AWAITING_CUSTOMER", "ACCEPTED", "DO_NOT_RENEW"}
          /\ r.to = "AWAITING_CUSTOMER" => new.decision = "UNDECIDED" /\ new.stamps = {}
      <3>1. cases[c].status \in Predecessors[r.to]
        BY <1>2, <2>2 DEF Legal
      <3>2. /\ cases[c].status \in Undecided \union {"ACCEPTED", "DO_NOT_RENEW"}
            /\ cases[c].status \in Undecided =>
                 cases[c].decision = "UNDECIDED" /\ cases[c].stamps = {}
        BY <2>2 DEF RenewalInv, CaseInv
      <3> QED
        BY <2>1, <2>2, <3>1, <3>2, TransitionedFacts
    <2>4. /\ cases' \in [Cases -> CaseRecord] /\ cases'[c] = new
          /\ \A d \in Cases : d # c => cases'[d] = cases[d]
      BY <2>2, <2>3, CaseFacts
    <2>5. CaseInv'
      BY <1>3, <2>3, <2>4 DEF RenewalInv, CaseInv, Undecided, ReminderEligible
    <2> QED
      BY <1>2, <1>3, <2>2, <2>3, <2>4, <2>5 DEF RenewalInv, TypeOK, CasesTypeOK
  <1> QED
    BY <1>4, <1>5

LEMMA AskKeeps ==
  ASSUME RenewalInv, NEW a \in Actors, AskTransition(a)
  PROVE  CasesTypeOK' /\ CaseInv' /\ cases' = cases
  <1>1. PICK c \in Cases, to \in Targets :
          /\ Legal(cases[c].status, to)
          /\ requests' = [requests EXCEPT ![a] = [case |-> c, to |-> to, seen |-> cases[c].status]]
    BY DEF AskTransition
  <1>2. PICK r : r = [case |-> c, to |-> to, seen |-> cases[c].status]
    OBVIOUS
  <1>3. r \in Request /\ Legal(r.seen, r.to)
    BY <1>1, <1>2, CaseFacts DEF Request, CaseRecord
  <1>4. /\ requests' \in [Actors -> Request \union {None}] /\ requests'[a] = r
        /\ \A b \in Actors : b # a => requests'[b] = requests[b]
    BY <1>1, <1>2, <1>3 DEF RenewalInv, TypeOK, CasesTypeOK
  <1>5. changes' \in 0..MaxChanges /\ UNCHANGED <<cases, holds, today>>
    BY CasesAssumption DEF AskTransition, RenewalInv, TypeOK, CasesTypeOK
  <1> QED
    BY <1>3, <1>4, <1>5 DEF RenewalInv, TypeOK, CasesTypeOK, CaseInv

LEMMA HoldKeeps ==
  ASSUME RenewalInv, NEW c \in Cases, CreateHold(c) \/ ReleaseHold(c)
  PROVE  CasesTypeOK' /\ CaseInv' /\ cases' = cases
  <1>1. /\ changes' \in 0..MaxChanges /\ UNCHANGED <<cases, requests, today>>
        /\ holds \in [Cases -> SUBSET Hold]
    BY CasesAssumption DEF CreateHold, ReleaseHold, RenewalInv, TypeOK, CasesTypeOK
  <1>2. holds' \in [Cases -> SUBSET Hold]
    <2>1. CASE CreateHold(c)
      <3>1. PICK h \in Hold : holds' = [holds EXCEPT ![c] = holds[c] \union {h}]
        BY <2>1 DEF CreateHold
      <3>2. holds[c] \union {h} \in SUBSET Hold
        BY <1>1
      <3> QED
        BY <1>1, <3>1, <3>2
    <2>2. CASE ReleaseHold(c)
      <3>1. PICK h \in holds[c] : holds' = [holds EXCEPT ![c] = holds[c] \ {h}]
        BY <2>2 DEF ReleaseHold
      <3>2. holds[c] \ {h} \in SUBSET Hold
        BY <1>1
      <3> QED
        BY <1>1, <3>1, <3>2
    <2> QED
      BY <2>1, <2>2
  <1> QED
    BY <1>1, <1>2 DEF RenewalInv, TypeOK, CasesTypeOK, CaseInv

\* Whatever leaves the runs alone leaves the invariant, if it declares whom it
\* disturbs.
LEMMA OutsideKeeps ==
  ASSUME RenewalInv, CasesTypeOK', CaseInv', subs' \in [Subs -> Subscription],
         disturbed' \in [Engines -> SUBSET Subs], UNCHANGED <<runs, outbox>>,
         \A c \in Cases : cases[c] # Absent => cases'[c] # Absent,
         \A e \in Engines : disturbed[e] \subseteq disturbed'[e],
         \A e \in Engines, s \in Subs : s \notin disturbed'[e] =>
            /\ subs'[s] = subs[s] /\ holds'[CaseOf(s)] = holds[CaseOf(s)]
            /\ cases'[CaseOf(s)] = cases[CaseOf(s)]
  PROVE  RenewalInv'
  <1>1. TypeOK' /\ OutboxInv'
    BY DEF RenewalInv, TypeOK, OutboxInv
  <1>2. ASSUME NEW e \in Engines PROVE RunSound(runs[e])'
    <2>1. PICK run : run = runs[e] /\ run = runs'[e]
      OBVIOUS
    <2>2. RunSound(run)
      BY <2>1, RunFacts
    <2>3. RunSound(run)'
      BY <2>2, SoundStays
    <2> QED
      BY <2>1, <2>3 DEF RunSound
  <1>3. ASSUME NEW e \in Engines, NEW s \in Subs, Peaceful(e, s)'
        PROVE  Served(e, s)' \/ Underway(e, s)'
    <2>1. /\ runs[e].step # "idle" /\ runs'[e] = runs[e] /\ s \notin disturbed'[e]
      BY <1>3 DEF Peaceful
    <2>2. subs'[s] = subs[s] /\ holds'[CaseOf(s)] = holds[CaseOf(s)]
          /\ cases'[CaseOf(s)] = cases[CaseOf(s)]
      BY <2>1
    <2>3. CaseOf(s)' = CaseOf(s)
      BY <2>2 DEF CaseOf
    <2>4. Kept(CaseOf(s))
      BY <2>2, <2>3 DEF Kept, Eligible
    <2> QED
      BY <1>3, <2>1, <2>2, <2>4, DutyStays
  <1> QED
    BY <1>1, <1>2, <1>3 DEF RenewalInv, DutyInv

LEMMA WorkKeeps ==
  ASSUME RenewalInv, Work
  PROVE  RenewalInv'
  <1>1. /\ CasesTypeOK' /\ CaseInv'
        /\ \A c \in Cases : cases[c] # Absent => cases'[c] # Absent
    BY ApplyKeeps, AskKeeps, HoldKeeps DEF Work, Workflow
  <1> DEFINE touched == {c[1] : c \in {q \in Cases : cases'[q] # cases[q] \/ holds'[q] # holds[q]}}
  <1>2. /\ UNCHANGED <<subs, outbox, runs>>
        /\ disturbed' = [e \in Engines |-> disturbed[e] \union touched]
    BY DEF Work, Disturb, engineVars
  <1>3. touched \in SUBSET Subs
    BY DEF Cases
  <1>4. ASSUME NEW s \in Subs, s \notin touched
        PROVE  holds'[CaseOf(s)] = holds[CaseOf(s)] /\ cases'[CaseOf(s)] = cases[CaseOf(s)]
    BY <1>4, SubFacts
  <1> HIDE DEF touched
  <1>5. /\ subs \in [Subs -> Subscription] /\ disturbed \in [Engines -> SUBSET Subs]
    BY DEF RenewalInv, TypeOK
  <1>6. /\ disturbed' \in [Engines -> SUBSET Subs]
        /\ \A e \in Engines : disturbed[e] \subseteq disturbed'[e] /\ touched \subseteq disturbed'[e]
    BY <1>2, <1>3, <1>5
  <1>7. ASSUME NEW e \in Engines, NEW s \in Subs, s \notin disturbed'[e]
        PROVE  /\ subs'[s] = subs[s] /\ holds'[CaseOf(s)] = holds[CaseOf(s)]
               /\ cases'[CaseOf(s)] = cases[CaseOf(s)]
    BY <1>2, <1>4, <1>6, <1>7
  <1> QED
    BY <1>1, <1>2, <1>5, <1>6, <1>7, OutsideKeeps

LEMMA EditKeeps ==
  ASSUME RenewalInv, NEW i \in Subs, NEW new \in Subscription, Edit(i, new)
  PROVE  RenewalInv'
  <1>1. /\ UNCHANGED <<cases, holds, requests, today, outbox, runs>>
        /\ changes' \in 0..MaxChanges
        /\ subs' = [subs EXCEPT ![i] = new]
        /\ disturbed' = [e \in Engines |-> disturbed[e] \union {i}]
    BY CasesAssumption DEF Edit, Disturb, caseVars, RenewalInv, TypeOK, CasesTypeOK
  <1>2. /\ subs \in [Subs -> Subscription] /\ disturbed \in [Engines -> SUBSET Subs]
    BY DEF RenewalInv, TypeOK
  <1>3. CasesTypeOK' /\ CaseInv'
    BY <1>1 DEF RenewalInv, TypeOK, CasesTypeOK, CaseInv
  <1>4. /\ subs' \in [Subs -> Subscription] /\ disturbed' \in [Engines -> SUBSET Subs]
        /\ \A s \in Subs : s # i => subs'[s] = subs[s]
        /\ \A e \in Engines : disturbed[e] \subseteq disturbed'[e] /\ i \in disturbed'[e]
    BY <1>1, <1>2
  <1>5. ASSUME NEW e \in Engines, NEW s \in Subs, s \notin disturbed'[e]
        PROVE  /\ subs'[s] = subs[s] /\ holds'[CaseOf(s)] = holds[CaseOf(s)]
               /\ cases'[CaseOf(s)] = cases[CaseOf(s)]
    BY <1>1, <1>4, <1>5
  <1> QED
    BY <1>1, <1>3, <1>4, <1>5, OutsideKeeps

LEMMA SubscriptionKeeps ==
  ASSUME RenewalInv, NEW s \in Subs, UpdateSubscription(s) \/ RemoveSubscription(s)
  PROVE  RenewalInv'
  <1>1. CASE UpdateSubscription(s)
    BY <1>1, EditKeeps DEF UpdateSubscription
  <1>2. CASE RemoveSubscription(s)
    <2>1. PICK new : new = [subs[s] EXCEPT !.state = "REMOVED"] /\ Edit(s, new)
      BY <1>2 DEF RemoveSubscription
    <2>2. new \in Subscription
      BY <2>1, SubFacts DEF Subscription
    <2> QED
      BY <2>1, <2>2, EditKeeps
  <1> QED
    BY <1>1, <1>2

LEMMA DayKeeps ==
  ASSUME RenewalInv, NextDay
  PROVE  RenewalInv'
  <1>1. /\ today' \in Days
        /\ UNCHANGED <<cases, holds, requests, changes, subs, outbox, runs, disturbed>>
    BY CasesAssumption DEF NextDay, Days, caseVars, engineVars, RenewalInv, TypeOK, CasesTypeOK
  <1>2. CasesTypeOK' /\ CaseInv'
    BY <1>1 DEF RenewalInv, TypeOK, CasesTypeOK, CaseInv
  <1>3. /\ subs' \in [Subs -> Subscription] /\ disturbed' \in [Engines -> SUBSET Subs]
    BY <1>1 DEF RenewalInv, TypeOK
  <1> QED
    BY <1>1, <1>2, <1>3, OutsideKeeps

-----------------------------------------------------------------------------
(* The invariant is inductive                                              *)

LEMMA RenewalStart == Init => RenewalInv
  <1> SUFFICES ASSUME Init PROVE RenewalInv
    OBVIOUS
  <1>1. TypeOK
    <2>1. 0 \in Days /\ 0 \in 0..MaxChanges
      BY CasesAssumption DEF Days
    <2>2. cases \in [Cases -> CaseRecord] /\ holds \in [Cases -> SUBSET Hold]
      BY OpenedFacts DEF Init, CasesInit
    <2> QED
      BY <2>1, <2>2, RestingFacts DEF Init, CasesInit, TypeOK, CasesTypeOK
  <1>2. CaseInv
    BY OpenedFacts DEF Init, CasesInit, CaseInv, Undecided
  <1>3. OutboxInv /\ \A e \in Engines : RunSound(runs[e]) /\ runs[e].step = "idle"
    BY RestingFacts DEF Init, OutboxInv
  <1> QED
    BY <1>1, <1>2, <1>3 DEF RenewalInv, DutyInv, Peaceful

LEMMA RenewalStep == RenewalInv /\ [Next]_vars => RenewalInv'
  <1> SUFFICES ASSUME RenewalInv, [Next]_vars PROVE RenewalInv'
    OBVIOUS
  <1>1. CASE UNCHANGED vars
    <2>1. CasesTypeOK' /\ CaseInv'
      BY <1>1 DEF vars, RenewalInv, TypeOK, CasesTypeOK, CaseInv
    <2>2. /\ subs' \in [Subs -> Subscription] /\ disturbed' \in [Engines -> SUBSET Subs]
      BY <1>1 DEF vars, RenewalInv, TypeOK
    <2> QED
      BY <1>1, <2>1, <2>2, OutsideKeeps DEF vars
  <1>2. ASSUME NEW e \in Engines, StartRun(e) \/ Evaluate(e) \/ Crash(e)
        PROVE  RenewalInv'
    BY <1>2, StartKeeps, PageKeeps, EnrollKeeps, EnsureKeeps, InspectKeeps, ResolveKeeps,
       QueueKeeps, FinishKeeps DEF Evaluate
  <1>3. ASSUME NEW s \in Subs, UpdateSubscription(s) \/ RemoveSubscription(s)
        PROVE  RenewalInv'
    BY <1>3, SubscriptionKeeps
  <1> QED
    BY <1>1, <1>2, <1>3, WorkKeeps, DayKeeps DEF Next

LEMMA RenewalSafe == Spec => []RenewalInv
  BY RenewalStart, RenewalStep, PTL DEF Spec

-----------------------------------------------------------------------------
(* Theorems                                                                *)

\* Cases, holds, outbox rows and the local values of every run stay within
\* their types, whatever staff change meanwhile.
THEOREM RenewalTypeCorrect == Spec => []TypeOK
  <1>1. RenewalInv => TypeOK
    BY DEF RenewalInv
  <1> QED
    BY <1>1, RenewalSafe, PTL

\* For any set of rules, subscriptions and overlapping runs of any days, a case
\* has one reminder per milestone and one notice per recipient, and later
\* reminders are of closer milestones.
THEOREM RemindersInOrder == Spec => []MilestonesInOrder
  <1>1. RenewalInv => OncePerMilestone
    <2> SUFFICES ASSUME RenewalInv, NEW r \in outbox, NEW q \in outbox,
                        r.case = q.case, r.audience = q.audience, r.days = q.days,
                        r.audience = "INTERNAL" => r.to = q.to
                 PROVE  r = q
      BY DEF OncePerMilestone
    <2>1. Key(r) = Key(q)
      BY DEF Key
    <2> QED
      BY <2>1 DEF RenewalInv, OutboxInv
  <1>2. RenewalInv => RemindersCountDown
    <2> SUFFICES ASSUME RenewalInv, NEW r \in outbox, NEW q \in outbox, r.case = q.case,
                        r.audience = "CUSTOMER", q.audience = "CUSTOMER", r.at < q.at
                 PROVE  r.days > q.days
      BY DEF RemindersCountDown
    <2>1. r \in OutboxRow /\ q \in OutboxRow /\ Timely(r) /\ Timely(q)
      BY DEF RenewalInv, TypeOK, OutboxInv
    <2>2. PICK c, at, later : c = r.case /\ at = r.at /\ later = q.at
      OBVIOUS
    <2>3. c \in Cases /\ at \in Days /\ later \in Days /\ at < later
      BY <2>1, <2>2 DEF OutboxRow
    <2>4. PICK d, n : d = r.days /\ n = q.days
      OBVIOUS
    <2>5. /\ d \in Nat /\ n \in Nat
          /\ d = Milestone(DaysLeft(c, at)) /\ n = Milestone(DaysLeft(c, later))
      <3>1. d \in ReminderDays \union NoticeDays /\ n \in ReminderDays \union NoticeDays
        BY <2>1, <2>4 DEF OutboxRow
      <3>2. d \in Nat /\ n \in Nat
        BY <3>1, EngineAssumption
      <3> QED
        BY <2>1, <2>2, <2>4, <3>2 DEF Timely
    <2>6. PICK left, then : left = DaysLeft(c, at) /\ then = DaysLeft(c, later)
      OBVIOUS
    <2>7. left \in Int /\ then \in Int /\ then < left
      <3>1. c[2] \in Int /\ at \in Int /\ later \in Int
        <4>1. c[2] \in Dues /\ at \in Int /\ later \in Int
          BY <2>3, CasesAssumption DEF Cases, Days
        <4> QED
          BY <4>1, CasesAssumption
      <3> QED
        BY <2>3, <2>6, <3>1 DEF DaysLeft
    <2>8. d # None /\ n # None
      BY <2>5, EngineAssumption
    <2>9. /\ d \in ReminderDays /\ d >= left
          /\ \A x \in ReminderDays : x >= then => n <= x
      BY <2>5, <2>6, <2>7, <2>8, MilestoneFacts
    <2>10. n <= d
      BY <2>5, <2>7, <2>9
    <2>11. n # d
      <3>1. ASSUME n = d PROVE Key(r) = Key(q)
        BY <2>4, <3>1 DEF Key
      <3>2. r # q
        BY <2>2, <2>3 DEF Days
      <3> QED
        BY <3>1, <3>2 DEF RenewalInv, OutboxInv
    <2> QED
      BY <2>4, <2>5, <2>10, <2>11
  <1> QED
    BY <1>1, <1>2, RenewalSafe, PTL DEF MilestonesInOrder

\* A run that ends has done its work for every subscription nobody touched
\* while it ran, however many runs overlapped and were interrupted.
THEOREM RunsDoTheirWork == Spec => []RunsAreComplete
  <1>1. RenewalInv => RunsAreComplete
    <2> SUFFICES ASSUME RenewalInv, NEW e \in Engines, NEW s \in Subs,
                        Complete(e), s \notin disturbed[e], subs[s].state = "ACTIVE",
                        DaysLeft(CaseOf(s), runs[e].asOf) \in 0..Window
                 PROVE  /\ cases[CaseOf(s)] # Absent
                        /\ Eligible(CaseOf(s)) =>
                             \A k \in Owed(e, s) : \E r \in outbox : Key(r) = k
      BY DEF RunsAreComplete, CaseOf, Eligible
    <2>1. Peaceful(e, s)
      BY DEF Peaceful, Complete
    <2>2. ~Underway(e, s)
      BY DEF Underway, Complete
    <2> QED
      BY <2>1, <2>2 DEF RenewalInv, DutyInv, Served, Held
  <1> QED
    BY <1>1, RenewalSafe, PTL

-----------------------------------------------------------------------------
(* Cases implement CaseLifecycle                                           *)

StatusOf == [c \in Cases |-> cases[c].status]
DecisionOf == [c \in Cases |-> cases[c].decision]
StampsOf == [c \in Cases |-> cases[c].stamps]

\* A write to one case is seen as a write to that case.
LEMMA OneCaseMoves ==
  ASSUME RenewalInv, NEW c \in Cases, NEW new \in CaseRecord, cases' = [cases EXCEPT ![c] = new]
  PROVE  /\ StatusOf' = [StatusOf EXCEPT ![c] = new.status]
         /\ DecisionOf' = [DecisionOf EXCEPT ![c] = new.decision]
         /\ StampsOf' = [StampsOf EXCEPT ![c] = new.stamps]
  <1>1. cases'[c] = new /\ \A d \in Cases : d # c => cases'[d] = cases[d]
    BY CaseFacts
  <1>2. StatusOf' = [StatusOf EXCEPT ![c] = new.status]
    <2>1. \A d \in Cases : cases'[d].status = IF d = c THEN new.status ELSE cases[d].status
      BY <1>1
    <2> QED
      BY <2>1 DEF StatusOf
  <1>3. DecisionOf' = [DecisionOf EXCEPT ![c] = new.decision]
    <2>1. \A d \in Cases : cases'[d].decision = IF d = c THEN new.decision ELSE cases[d].decision
      BY <1>1
    <2> QED
      BY <2>1 DEF DecisionOf
  <1>4. StampsOf' = [StampsOf EXCEPT ![c] = new.stamps]
    <2>1. \A d \in Cases : cases'[d].stamps = IF d = c THEN new.stamps ELSE cases[d].stamps
      BY <1>1
    <2> QED
      BY <2>1 DEF StampsOf
  <1> QED
    BY <1>2, <1>3, <1>4

LEMMA LifeStill ==
  ASSUME cases' = cases
  PROVE  UNCHANGED Life!lifeVars
  BY DEF Life!lifeVars

LEMMA LifeOpens ==
  ASSUME RenewalInv, NEW c \in Cases, cases' = Ensured(c)
  PROVE  [Life!LifeNext]_(Life!lifeVars)
  <1>1. CASE cases[c] # Absent
    BY <1>1, LifeStill DEF Ensured
  <1>2. CASE cases[c] = Absent
    <2>1. cases' = [cases EXCEPT ![c] = Opened]
      BY <1>2 DEF Ensured
    <2>2. /\ StatusOf' = [StatusOf EXCEPT ![c] = "UPCOMING"]
          /\ DecisionOf' = [DecisionOf EXCEPT ![c] = "UNDECIDED"]
          /\ StampsOf' = [StampsOf EXCEPT ![c] = {}]
      <3>1. PICK new \in CaseRecord :
              /\ cases' = [cases EXCEPT ![c] = new] /\ new.status = "UPCOMING"
              /\ new.decision = "UNDECIDED" /\ new.stamps = {}
        BY <2>1, OpenedFacts
      <3>2. /\ StatusOf' = [StatusOf EXCEPT ![c] = new.status]
            /\ DecisionOf' = [DecisionOf EXCEPT ![c] = new.decision]
            /\ StampsOf' = [StampsOf EXCEPT ![c] = new.stamps]
        BY <3>1, OneCaseMoves
      <3> QED
        BY <3>1, <3>2
    <2>3. StatusOf[c] = "ABSENT" /\ DecisionOf[c] = "UNDECIDED" /\ StampsOf[c] = {}
      BY <1>2, OpenedFacts DEF StatusOf, DecisionOf, StampsOf
    <2>4. DecisionOf' = DecisionOf /\ StampsOf' = StampsOf
      BY <2>2, <2>3 DEF DecisionOf, StampsOf
    <2>5. Life!Open(c)
      BY <2>2, <2>3, <2>4 DEF Life!Open, StatusOf, DecisionOf, StampsOf
    <2> QED
      BY <2>5 DEF Life!LifeNext
  <1> QED
    BY <1>1, <1>2

LEMMA LifeReminds ==
  ASSUME RenewalInv, NEW c \in Cases, cases' = CycleStarted(c)
  PROVE  [Life!LifeNext]_(Life!lifeVars)
  <1>1. CASE cases[c].status # "UPCOMING"
    BY <1>1, LifeStill DEF CycleStarted
  <1>2. CASE cases[c].status = "UPCOMING"
    <2> DEFINE moved == [cases[c] EXCEPT !.status = "REMINDER_CYCLE"]
    <2>1. cases' = [cases EXCEPT ![c] = moved]
      BY <1>2 DEF CycleStarted
    <2>2. /\ moved \in CaseRecord /\ moved.status = "REMINDER_CYCLE"
          /\ moved.decision = cases[c].decision /\ moved.stamps = cases[c].stamps
      BY CaseFacts DEF CaseRecord, Status, ReminderEligible
    <2>3. PICK new \in CaseRecord :
            /\ cases' = [cases EXCEPT ![c] = new] /\ new.status = "REMINDER_CYCLE"
            /\ new.decision = cases[c].decision /\ new.stamps = cases[c].stamps
      BY <2>1, <2>2
    <2>4. /\ StatusOf' = [StatusOf EXCEPT ![c] = "REMINDER_CYCLE"]
          /\ DecisionOf' = [DecisionOf EXCEPT ![c] = cases[c].decision]
          /\ StampsOf' = [StampsOf EXCEPT ![c] = cases[c].stamps]
      <3>1. /\ StatusOf' = [StatusOf EXCEPT ![c] = new.status]
            /\ DecisionOf' = [DecisionOf EXCEPT ![c] = new.decision]
            /\ StampsOf' = [StampsOf EXCEPT ![c] = new.stamps]
        BY <2>3, OneCaseMoves
      <3> QED
        BY <2>3, <3>1
    <2>5. StatusOf[c] = "UPCOMING" /\ DecisionOf' = DecisionOf /\ StampsOf' = StampsOf
      BY <1>2, <2>4 DEF StatusOf, DecisionOf, StampsOf
    <2>6. Life!Remind(c)
      BY <2>4, <2>5 DEF Life!Remind, StatusOf, DecisionOf, StampsOf
    <2> QED
      BY <2>6 DEF Life!LifeNext
  <1> QED
    BY <1>1, <1>2

LEMMA LifeMoves ==
  ASSUME RenewalInv, NEW a \in Actors, ApplyTransition(a)
  PROVE  [Life!LifeNext]_(Life!lifeVars)
  <1>1. CASE cases' = cases
    BY <1>1, LifeStill
  <1>2. CASE cases' # cases
    <2>1. PICK r : r = requests[a] /\ r \in Request /\ Legal(r.seen, r.to)
      BY DEF ApplyTransition, RenewalInv, TypeOK, CasesTypeOK, CaseInv
    <2>2. PICK c, to, new : c = r.case /\ to = r.to /\ new = Transitioned(cases[c], to)
      OBVIOUS
    <2>3. c \in Cases /\ to \in Targets /\ cases[c] \in CaseRecord /\ cases[c].status = r.seen
          /\ cases' = [cases EXCEPT ![c] = new]
      BY <1>2, <2>1, <2>2, CaseFacts DEF ApplyTransition, Applies, Request
    <2>4. cases[c].status \in Predecessors[to]
      BY <2>1, <2>2, <2>3 DEF Legal
    <2>5. /\ cases[c].status \in Undecided \union {"ACCEPTED", "DO_NOT_RENEW"}
          /\ cases[c].status \in Undecided =>
               cases[c].decision = "UNDECIDED" /\ cases[c].stamps = {}
      BY <2>3 DEF RenewalInv, CaseInv
    <2>6. /\ new \in CaseRecord /\ cases[c].decision = "UNDECIDED" /\ cases[c].stamps = {}
          /\ new.status = to
          /\ new.decision = CASE to = "ACCEPTED" -> "ACCEPTED"
                              [] to = "DO_NOT_RENEW" -> "REJECTED"
                              [] OTHER -> "UNDECIDED"
          /\ new.stamps = CASE to = "ACCEPTED" -> {"acceptedAt"}
                            [] to = "DO_NOT_RENEW" -> {"doNotRenewAt"}
                            [] OTHER -> {}
      <3>1. /\ new \in CaseRecord /\ cases[c].decision = "UNDECIDED" /\ cases[c].stamps = {}
            /\ new.status = to /\ to \in {"AWAITING_CUSTOMER", "ACCEPTED", "DO_NOT_RENEW"}
            /\ to = "ACCEPTED" => new.decision = "ACCEPTED" /\ new.stamps = {"acceptedAt"}
            /\ to = "DO_NOT_RENEW" => new.decision = "REJECTED" /\ new.stamps = {"doNotRenewAt"}
            /\ to = "AWAITING_CUSTOMER" => new.decision = "UNDECIDED" /\ new.stamps = {}
        BY <2>2, <2>3, <2>4, <2>5, TransitionedFacts
      <3> QED
        BY <3>1
    <2>7. /\ StatusOf' = [StatusOf EXCEPT ![c] = new.status]
          /\ DecisionOf' = [DecisionOf EXCEPT ![c] = new.decision]
          /\ StampsOf' = [StampsOf EXCEPT ![c] = new.stamps]
      BY <2>3, <2>6, OneCaseMoves
    <2>8. /\ StatusOf[c] \in Predecessors[to] /\ DecisionOf[c] = "UNDECIDED" /\ StampsOf[c] = {}
      BY <2>3, <2>4, <2>6 DEF StatusOf, DecisionOf, StampsOf
    <2>9. Life!Move(c, to)
      BY <2>6, <2>7, <2>8 DEF Life!Move, StatusOf, DecisionOf, StampsOf
    <2>10. to \in DOMAIN Predecessors
      BY <2>3 DEF Targets
    <2> QED
      BY <2>3, <2>9, <2>10 DEF Life!LifeNext
  <1> QED
    BY <1>1, <1>2

\* Every step of runs, staff and environment is a step of a case's life or
\* leaves every case as it was.
LEMMA LifeStep ==
  ASSUME RenewalInv, [Next]_vars
  PROVE  [Life!LifeNext]_(Life!lifeVars)
  <1>1. ASSUME NEW e \in Engines, Enroll(e) PROVE [Life!LifeNext]_(Life!lifeVars)
    <2>1. PICK run : run = runs[e] /\ run \in Run /\ run.step = "enroll" /\ RunSound(run)
      BY <1>1, RunFacts DEF Enroll
    <2>2. PICK c : c = CHOOSE p \in run.batch : \A q \in run.batch : p[1] <= q[1]
      OBVIOUS
    <2>3. c \in Cases
      BY <2>1, <2>2, BatchFirst DEF Run, RunSound
    <2>4. cases' = cases \/ cases' = Ensured(c)
      BY <1>1, <2>1, <2>2 DEF Enroll, Abort
    <2> QED
      BY <2>3, <2>4, LifeStill, LifeOpens
  <1>2. ASSUME NEW e \in Engines, Ensure(e) PROVE [Life!LifeNext]_(Life!lifeVars)
    <2>1. PICK run : /\ run = runs[e] /\ run \in Run /\ RunSound(run) /\ run.todo # {}
      BY <1>2, RunFacts DEF Ensure
    <2>2. PICK c : c = First(run.todo)
      OBVIOUS
    <2>3. c \in Cases
      <3>1. run.todo \subseteq Cases /\ IsFiniteSet(run.todo)
        BY <2>1 DEF Run, RunSound
      <3> QED
        BY <2>1, <2>2, <3>1, FirstIsListed
    <2>4. cases' = cases \/ cases' = Ensured(c)
      BY <1>2, <2>1, <2>2 DEF Ensure, Abort
    <2> QED
      BY <2>3, <2>4, LifeStill, LifeOpens
  <1>3. ASSUME NEW e \in Engines, Queue(e) PROVE [Life!LifeNext]_(Life!lifeVars)
    <2>1. PICK run : run = runs[e] /\ run \in Run
      BY RunFacts
    <2>2. PICK r \in run.plan : cases' = cases \/ cases' = CycleStarted(r.case)
      BY <1>3, <2>1 DEF Queue
    <2>3. r.case \in Cases
      BY <2>1 DEF Run, OutboxRow
    <2> QED
      BY <2>2, <2>3, LifeStill, LifeReminds
  <1>4. ASSUME NEW e \in Engines,
               \/ StartRun(e) \/ ReadPage(e) \/ Inspect(e) \/ Resolve(e) \/ Finish(e) \/ Crash(e)
        PROVE  cases' = cases
    BY <1>4 DEF StartRun, ReadPage, Inspect, Resolve, Finish, Crash, caseVars
  <1>5. CASE Work
    <2>1. ASSUME NEW a \in Actors, AskTransition(a) PROVE cases' = cases
      BY <2>1 DEF AskTransition
    <2>2. ASSUME NEW c \in Cases, CreateHold(c) \/ ReleaseHold(c) PROVE cases' = cases
      BY <2>2 DEF CreateHold, ReleaseHold
    <2> QED
      BY <1>5, <2>1, <2>2, LifeStill, LifeMoves DEF Work, Workflow
  <1>6. ASSUME NEW s \in Subs, UpdateSubscription(s) \/ RemoveSubscription(s)
        PROVE  cases' = cases
    BY <1>6 DEF UpdateSubscription, RemoveSubscription, Edit, caseVars
  <1>7. CASE NextDay \/ UNCHANGED vars
    BY <1>7, LifeStill DEF NextDay, vars, caseVars
  <1> QED
    BY <1>1, <1>2, <1>3, <1>4, <1>5, <1>6, <1>7, LifeStill DEF Next, Evaluate

\* Whatever stale status a request or a run acts on, every case is opened once,
\* moved to REMINDER_CYCLE only from UPCOMING, and decided at most once, with
\* the marks of that decision alone: it lives the life of CaseLifecycle.
THEOREM CasesLiveTheirLife == Spec => ImplementsLifecycle
  <1>1. Init => Life!LifeInit
    <2> SUFFICES ASSUME Init PROVE Life!LifeInit
      OBVIOUS
    <2>1. \A c \in Cases : /\ cases[c].status = "ABSENT" /\ cases[c].decision = "UNDECIDED"
                           /\ cases[c].stamps = {}
      BY OpenedFacts DEF Init, CasesInit
    <2> QED
      BY <2>1 DEF Life!LifeInit
  <1>2. RenewalInv /\ [Next]_vars => [Life!LifeNext]_(Life!lifeVars)
    BY LifeStep
  <1> QED
    BY RenewalSafe, <1>1, <1>2, PTL DEF Spec, ImplementsLifecycle, Life!LifeSpec
=============================================================================
