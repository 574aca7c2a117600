------------------------- MODULE LegacyImportProofs -------------------------
(***************************************************************************)
(* Proofs about LegacyImport: for any number of rows, users and billing    *)
(* entities, whatever overlaps, fails or is deleted meanwhile, no row goes *)
(* live twice by approval alone, siblings share their customer, codes are  *)
(* unique for ever, and a batch is COMPLETED only when it was done.        *)
(***************************************************************************)
EXTENDS LegacyImport, FiniteSetTheorems, SequenceTheorems, TLAPS

-----------------------------------------------------------------------------
(* The inductive invariant                                                 *)

Approves(j) == j.step \in {"claim", "customer", "commit"}
Holds(j) == j.step \in {"customer", "commit"}

Open(r) == rows[r] # None /\ rows[r].status \in {"REQUIRES_MANUAL_REVIEW", "READY_FOR_APPROVAL"}
Done == \A r \in Rows : Open(r) => r \in returned

\* The row's approvals have never overlapped another of its reference.
Alone(r) == ReferenceOf[r] # None /\ ReferenceOf[r] \notin overlapped

\* What a request knows of the batch is still true, or was made irrelevant.
Sound(j) ==
    /\ Approves(j) \/ j.step = "write" => j.row \in Rows
    /\ Holds(j) => rows[j.row] # None /\ rows[j.row].status = "READY_FOR_APPROVAL"
    /\ j.step = "commit" => j.customer \in Nat
    /\ 0 \notin j.known
    /\ j.step = "commit" /\ j.customer = 0 => j.known = {}
    /\ Approves(j) /\ Alone(j.row) => SameReference(j.row) \subseteq j.known
    /\ j.step = "status" /\ ~j.remaining => Done

\* One claim holds a row, and one approval a reference that never overlapped.
Apart(j, k) ==
    /\ Holds(j) /\ Holds(k) => j.row # k.row
    /\ Approves(j) /\ Approves(k) /\ Alone(j.row) => ReferenceOf[j.row] # ReferenceOf[k.row]

JobInv ==
    /\ \A u \in Users : Sound(jobs[u])
    /\ \A u, v \in Users : u # v => Apart(jobs[u], jobs[v])

\* The approval that stands accounts for one live subscription, its own.
Standing(r) == IF rows[r] # None /\ rows[r].status = "APPROVED" THEN 1 ELSE 0

RowInv ==
    \A r \in Rows :
        /\ Cardinality(LiveOf(r)) <= reopened[r] + Standing(r)
        /\ rows[r] = None => LiveOf(r) = {}
        /\ rows[r] # None /\ rows[r].status = "APPROVED" =>
             \E n \in LiveOf(r) : links[r][n] = rows[r].customer

\* A code was drawn from its sequence, and drawn once.
CodeInv ==
    /\ \A i \in DOMAIN customers : customers[i].code[2] <= lastValue[customers[i].code[1]]
    /\ CodesNeverReused

BatchInv ==
    /\ batch # None => \A r \in Rows : rows[r] # None
    /\ batch = "COMPLETED" => Done

ImportInv == TypeOK /\ JobInv /\ RowInv /\ CodeInv /\ SiblingsShareCustomer /\ BatchInv

-----------------------------------------------------------------------------
(* Sequences of customers, 0 for a deleted one                             *)

Nonzero(s) == {n \in DOMAIN s : s[n] # 0}

LEMMA NonzeroFinite ==
  ASSUME NEW s \in Seq(Nat)
  PROVE  IsFiniteSet(Nonzero(s)) /\ Cardinality(Nonzero(s)) \in Nat
  <1>1. DOMAIN s = 1..Len(s) /\ Len(s) \in Nat
    BY LenProperties
  <1>2. IsFiniteSet(1..Len(s))
    BY <1>1, FS_Interval
  <1>3. Nonzero(s) \in SUBSET (1..Len(s))
    BY <1>1 DEF Nonzero
  <1>4. IsFiniteSet(Nonzero(s))
    BY <1>2, <1>3, FS_Subset
  <1> QED
    BY <1>4, FS_CardinalityType

\* One more subscription.
LEMMA NonzeroAppend ==
  ASSUME NEW s \in Seq(Nat), NEW c \in Nat \ {0}
  PROVE  /\ Append(s, c) \in Seq(Nat)
         /\ Nonzero(Append(s, c)) = Nonzero(s) \union {Len(s) + 1}
         /\ Append(s, c)[Len(s) + 1] = c
         /\ Cardinality(Nonzero(Append(s, c))) = Cardinality(Nonzero(s)) + 1
  <1>1. /\ DOMAIN s = 1..Len(s) /\ Len(s) \in Nat /\ Append(s, c) \in Seq(Nat)
        /\ DOMAIN Append(s, c) = 1..(Len(s) + 1)
        /\ \A i \in 1..Len(s) : Append(s, c)[i] = s[i]
        /\ Append(s, c)[Len(s) + 1] = c
    BY LenProperties, AppendProperties
  <1>2. Nonzero(Append(s, c)) = Nonzero(s) \union {Len(s) + 1}
    BY <1>1 DEF Nonzero
  <1>3. Len(s) + 1 \notin Nonzero(s)
    BY <1>1 DEF Nonzero
  <1> QED
    BY <1>1, <1>2, <1>3, NonzeroFinite, FS_AddElement

\* Customer i is deleted, and its subscriptions with it.
LEMMA NonzeroErase ==
  ASSUME NEW s \in Seq(Nat), NEW i \in Nat \ {0}, NEW t, t = [n \in DOMAIN t |-> t[n]],
         DOMAIN t = DOMAIN s, \A n \in DOMAIN s : t[n] = IF s[n] = i THEN 0 ELSE s[n]
  PROVE  /\ t \in Seq(Nat) /\ Nonzero(t) \subseteq Nonzero(s)
         /\ Cardinality(Nonzero(t)) \in Nat
         /\ Cardinality(Nonzero(t)) <= Cardinality(Nonzero(s))
         /\ \A n \in Nonzero(s) : s[n] # i => n \in Nonzero(t) /\ t[n] = s[n]
         /\ (\E n \in Nonzero(s) : s[n] = i) => Cardinality(Nonzero(t)) < Cardinality(Nonzero(s))
  <1>1. DOMAIN s = 1..Len(s) /\ Len(s) \in Nat /\ \A n \in 1..Len(s) : s[n] \in Nat
    BY LenProperties, ElementOfSeq
  <1>2. t \in [1..Len(s) -> Nat]
    BY <1>1
  <1>3. t \in Seq(Nat)
    BY <1>1, <1>2, SeqDef
  <1>4. /\ Nonzero(t) \subseteq Nonzero(s)
        /\ \A n \in Nonzero(s) : s[n] # i => n \in Nonzero(t) /\ t[n] = s[n]
        /\ \A n \in Nonzero(s) : s[n] = i => n \notin Nonzero(t)
    BY DEF Nonzero
  <1>5. /\ IsFiniteSet(Nonzero(s)) /\ Cardinality(Nonzero(s)) \in Nat
        /\ Cardinality(Nonzero(t)) \in Nat
    BY <1>3, NonzeroFinite
  <1>6. /\ Cardinality(Nonzero(t)) <= Cardinality(Nonzero(s))
        /\ Cardinality(Nonzero(s)) = Cardinality(Nonzero(t)) => Nonzero(s) = Nonzero(t)
    BY <1>4, <1>5, FS_Subset
  <1>7. (\E n \in Nonzero(s) : s[n] = i) => Nonzero(s) # Nonzero(t)
    BY <1>4
  <1> QED
    BY <1>3, <1>4, <1>5, <1>6, <1>7

-----------------------------------------------------------------------------
(* Facts about a state                                                     *)

LEMMA IdleFacts == Idle \in Job /\ Idle.step = "idle" /\ Sound(Idle)
  BY DEF Idle, Job, Sound, Approves, Holds

LEMMA JobFacts ==
  ASSUME ImportInv, NEW u \in Users
  PROVE  /\ jobs \in [Users -> Job] /\ jobs[u] \in Job /\ Sound(jobs[u])
         /\ \A v \in Users : v # u => Apart(jobs[u], jobs[v]) /\ Apart(jobs[v], jobs[u])
  BY DEF ImportInv, TypeOK, JobInv

LEMMA LockedFacts ==
  ASSUME ImportInv, NEW r \in Rows
  PROVE  RowLocked(r) <=> \E u \in Users : Holds(jobs[u]) /\ jobs[u].row = r
  BY DEF RowLocked, Holds

LEMMA RowFacts ==
  ASSUME ImportInv, NEW r \in Rows
  PROVE  /\ rows[r] \in Row \union {None} /\ (rows[r] # None => rows[r] \in Row)
         /\ links[r] \in Seq(Nat) /\ reopened[r] \in Nat /\ Standing(r) \in {0, 1}
         /\ LiveOf(r) = Nonzero(links[r]) /\ Cardinality(LiveOf(r)) \in Nat
  BY NonzeroFinite DEF ImportInv, TypeOK, Standing, LiveOf, Nonzero

LEMMA CustomerFacts ==
  ASSUME ImportInv
  PROVE  /\ customers \in Seq(Customer) /\ Len(customers) \in Nat
         /\ DOMAIN customers = 1..Len(customers)
         /\ \A i \in 1..Len(customers) : customers[i] \in Customer
         /\ Existing \subseteq 1..Len(customers)
  <1>1. customers \in Seq(Customer)
    BY DEF ImportInv, TypeOK
  <1>2. /\ Len(customers) \in Nat /\ DOMAIN customers = 1..Len(customers)
        /\ \A i \in 1..Len(customers) : customers[i] \in Customer
    BY <1>1, LenProperties, ElementOfSeq
  <1> QED
    BY <1>1, <1>2 DEF Existing

\* What a request knows stays true while the data stays.
LEMMA SoundStays ==
  ASSUME NEW j, Sound(j), UNCHANGED <<rows, customers, returned>>,
         overlapped \subseteq overlapped'
  PROVE  Sound(j)'
  BY DEF Sound, Alone, SameReference, Existing, Done, Open

LEMMA ApartStays ==
  ASSUME NEW j, NEW k, Apart(j, k), overlapped \subseteq overlapped'
  PROVE  Apart(j, k)'
  BY DEF Apart, Alone

-----------------------------------------------------------------------------
(* A step of one request that leaves rows and customers alone              *)

LEMMA JobKeeps ==
  ASSUME ImportInv, NEW u \in Users, NEW job \in Job, Do(u, job),
         UNCHANGED <<rows, live, reopened, returned>>,
         requests' \in 0..MaxRequests,
         overlapped \subseteq overlapped',
         overlapped' \in SUBSET {ReferenceOf[r] : r \in Rows},
         \/ batch' = batch
         \/ batch # None /\ batch' = "IN_REVIEW"
         \/ batch # None /\ batch' = "COMPLETED" /\ Done,
         Sound(job)',
         \A v \in Users : v # u => Apart(job, jobs[v])' /\ Apart(jobs[v], job)'
  PROVE  ImportInv'
  <1>1. /\ jobs \in [Users -> Job] /\ jobs' \in [Users -> Job] /\ jobs'[u] = job
        /\ \A v \in Users : v # u => jobs'[v] = jobs[v]
    BY JobFacts DEF Do
  <1>2. TypeOK'
    BY <1>1 DEF ImportInv, TypeOK, live
  <1>3. JobInv'
    <2>1. ASSUME NEW v \in Users PROVE Sound(jobs[v])'
      <3>1. CASE v = u
        BY <1>1, <2>1, <3>1 DEF Sound
      <3>2. CASE v # u
        <4>1. PICK j : j = jobs[v]
          OBVIOUS
        <4>2. Sound(j)'
          BY <4>1, JobFacts, SoundStays DEF live
        <4> QED
          BY <1>1, <3>2, <4>1, <4>2 DEF Sound
      <3> QED
        BY <3>1, <3>2
    <2>2. ASSUME NEW v \in Users, NEW w \in Users, v # w PROVE Apart(jobs[v], jobs[w])'
      <3>1. CASE v = u
        BY <1>1, <2>2, <3>1
      <3>2. CASE w = u
        BY <1>1, <2>2, <3>2
      <3>3. CASE v # u /\ w # u
        <4>1. PICK j, k : j = jobs[v] /\ k = jobs[w]
          OBVIOUS
        <4>2. Apart(j, k)'
          BY <2>2, <4>1, JobFacts, ApartStays
        <4> QED
          BY <1>1, <3>3, <4>1, <4>2 DEF Apart
      <3> QED
        BY <3>1, <3>2, <3>3
    <2> QED
      BY <2>1, <2>2 DEF JobInv
  <1>4. RowInv' /\ CodeInv'
    BY DEF ImportInv, RowInv, CodeInv, CodesNeverReused, LiveOf, Standing, live
  <1>5. SiblingsShareCustomer'
    BY DEF ImportInv, SiblingsShareCustomer, Existing, live
  <1>6. BatchInv'
    BY ImportAssumption DEF ImportInv, BatchInv, Done, Open
  <1> QED
    BY <1>2, <1>3, <1>4, <1>5, <1>6 DEF ImportInv

\* A request goes on with the row it approves or holds, or gives it up.
LEMMA GoesOn ==
  ASSUME ImportInv, NEW u \in Users, NEW job \in Job, Do(u, job),
         UNCHANGED <<rows, live, history>>, requests' \in 0..MaxRequests,
         \/ batch' = batch
         \/ batch # None /\ batch' = "IN_REVIEW"
         \/ batch # None /\ batch' = "COMPLETED" /\ Done,
         Sound(job)',
         Approves(job) => Approves(jobs[u]) /\ job.row = jobs[u].row,
         Holds(job) => Holds(jobs[u]) \/ ~RowLocked(job.row)
  PROVE  ImportInv'
  <1>1. overlapped' = overlapped /\ reopened' = reopened /\ returned' = returned
    BY DEF history
  <1>2. ASSUME NEW v \in Users, v # u PROVE Apart(job, jobs[v])' /\ Apart(jobs[v], job)'
    <2>1. Apart(jobs[u], jobs[v]) /\ Apart(jobs[v], jobs[u]) /\ jobs'[v] = jobs[v]
      BY <1>2, JobFacts DEF Do
    <2>2. Holds(job) /\ Holds(jobs[v]) => job.row # jobs[v].row
      BY <2>1 DEF Apart, RowLocked, Holds, Approves
    <2>3. Approves(job) /\ Approves(jobs[v]) /\ (Alone(job.row) \/ Alone(jobs[v].row))
            => ReferenceOf[job.row] # ReferenceOf[jobs[v].row]
      BY <2>1 DEF Apart
    <2> QED
      BY <1>1, <2>1, <2>2, <2>3 DEF Apart, Alone, Holds, Approves
  <1>3. overlapped' \in SUBSET {ReferenceOf[r] : r \in Rows}
    BY <1>1 DEF ImportInv, TypeOK
  <1> QED
    BY <1>1, <1>2, <1>3, JobKeeps

LEMMA IdleKeeps ==
  ASSUME ImportInv, NEW u \in Users, Do(u, Idle),
         UNCHANGED <<rows, live, history>>, requests' \in 0..MaxRequests,
         \/ batch' = batch
         \/ batch # None /\ batch' = "IN_REVIEW"
         \/ batch # None /\ batch' = "COMPLETED" /\ Done
  PROVE  ImportInv'
  <1>1. Sound(Idle)'
    BY IdleFacts DEF Sound, Approves, Holds
  <1> QED
    BY <1>1, IdleFacts, GoesOn DEF Approves, Holds

LEMMA ClaimKeeps ==
  ASSUME ImportInv, NEW u \in Users, Claim(u)
  PROVE  ImportInv'
  <1>1. requests' \in 0..MaxRequests /\ jobs[u] \in Job /\ Sound(jobs[u])
    BY JobFacts DEF Claim, ImportInv, TypeOK
  <1>2. CASE ~Claimable(jobs[u].row)
    BY <1>1, <1>2, IdleKeeps DEF Claim
  <1>3. CASE Claimable(jobs[u].row)
    <2> DEFINE job == [jobs[u] EXCEPT !.step = "customer"]
    <2>1. job \in Job /\ job.step = "customer" /\ job.row = jobs[u].row /\ job.known = jobs[u].known
      BY <1>1 DEF Job
    <2> HIDE DEF job
    <2>2. Do(u, job) /\ jobs[u].step = "claim" /\ ~RowLocked(jobs[u].row)
      BY <1>3 DEF Claim, job
    <2>3. UNCHANGED <<rows, live, batch, requests, history>>
      BY DEF Claim
    <2>4. Sound(job)
      BY <1>1, <1>3, <2>1, <2>2 DEF Sound, Approves, Holds, Claimable
    <2>5. PICK j : j = job
      OBVIOUS
    <2>6. Sound(j)'
      BY <2>3, <2>4, <2>5, SoundStays DEF live, history
    <2>7. Approves(jobs[u])
      BY <2>2 DEF Approves
    <2> QED
      BY <1>1, <2>1, <2>2, <2>3, <2>5, <2>6, <2>7, GoesOn
  <1> QED
    BY <1>2, <1>3

LEMMA ChooseKeeps ==
  ASSUME ImportInv, NEW u \in Users, ChooseCustomer(u)
  PROVE  ImportInv'
  <1>1. requests' \in 0..MaxRequests /\ jobs[u] \in Job /\ Sound(jobs[u])
        /\ jobs[u].step = "customer"
    BY JobFacts DEF ChooseCustomer, ImportInv, TypeOK
  <1>2. UNCHANGED <<rows, live, batch, requests, history>>
    BY DEF ChooseCustomer
  <1>3. CASE Do(u, Idle)
    BY <1>1, <1>2, <1>3, IdleKeeps
  <1>4. ASSUME NEW c \in Nat, c = 0 => jobs[u].known = {},
               Do(u, [jobs[u] EXCEPT !.step = "commit", !.customer = c])
        PROVE  ImportInv'
    <2> DEFINE job == [jobs[u] EXCEPT !.step = "commit", !.customer = c]
    <2>1. /\ job \in Job /\ job.step = "commit" /\ job.row = jobs[u].row
          /\ job.known = jobs[u].known /\ job.customer = c
      BY <1>1 DEF Job
    <2> HIDE DEF job
    <2>2. Do(u, job)
      BY <1>4 DEF job
    <2>3. Sound(job)
      BY <1>1, <1>4, <2>1 DEF Sound, Approves, Holds
    <2>4. PICK j : j = job
      OBVIOUS
    <2>5. Sound(j)'
      BY <1>2, <2>3, <2>4, SoundStays DEF live, history
    <2>6. Approves(jobs[u]) /\ Holds(jobs[u])
      BY <1>1 DEF Approves, Holds
    <2> QED
      BY <1>1, <1>2, <2>1, <2>2, <2>4, <2>5, <2>6, GoesOn
  <1>5. CASE /\ jobs[u].attach \notin {0, None}
             /\ Do(u, [jobs[u] EXCEPT !.step = "commit", !.customer = jobs[u].attach])
    <2>1. jobs[u].attach \in Nat /\ jobs[u].attach # 0
      BY <1>1, <1>5 DEF Job
    <2> QED
      BY <1>4, <1>5, <2>1
  <1>6. ASSUME NEW i \in jobs[u].known, Do(u, [jobs[u] EXCEPT !.step = "commit", !.customer = i])
        PROVE  ImportInv'
    <2>1. i \in Nat /\ jobs[u].known # {}
      BY <1>1, <1>6 DEF Job
    <2>2. i # 0
      BY <1>1, <1>6 DEF Sound
    <2> QED
      BY <1>4, <1>6, <2>1, <2>2
  <1>7. CASE /\ jobs[u].known = {}
             /\ Do(u, [jobs[u] EXCEPT !.step = "commit", !.customer = 0])
    BY <1>4, <1>7
  <1> QED
    BY <1>3, <1>5, <1>6, <1>7 DEF ChooseCustomer

\* The steps that a request begins with or ends with, and its failure.
LEMMA ReadsKeep ==
  ASSUME ImportInv, NEW u \in Users, NEW r \in Rows, ApproveRead(u, r) \/ ReviewRead(u, r)
  PROVE  ImportInv'
  <1>1. requests' \in 0..MaxRequests
    BY ImportAssumption DEF ApproveRead, ReviewRead, Request, ImportInv, TypeOK
  <1>2. CASE ReviewRead(u, r)
    <2> DEFINE job == [Idle EXCEPT !.step = "write", !.row = r]
    <2>1. job \in Job /\ job.step = "write" /\ job.row = r /\ job.known = {}
      BY DEF Job, Idle
    <2> HIDE DEF job
    <2>2. Do(u, job) /\ UNCHANGED <<rows, live, batch, history>>
      BY <1>2 DEF ReviewRead, Request, job
    <2>3. Sound(job)'
      BY <2>1 DEF Sound, Approves, Holds
    <2> QED
      BY <1>1, <2>1, <2>2, <2>3, GoesOn DEF Approves, Holds
  <1>3. CASE ApproveRead(u, r)
    <2> DEFINE read == [Idle EXCEPT !.step = "claim", !.row = r, !.attach = rows[r].attach,
                                    !.known = SameReference(r)]
    <2>1. rows[r] \in Row /\ SameReference(r) \subseteq Nat \ {0}
      BY <1>3, RowFacts, CustomerFacts DEF ApproveRead, SameReference
    <2>2. read \in Job /\ read.step = "claim" /\ read.row = r /\ read.known = SameReference(r)
      BY <2>1 DEF Job, Idle, Row
    <2> HIDE DEF read
    <2>3. PICK job : /\ job = read /\ job \in Job /\ job.step = "claim" /\ job.row = r
                     /\ job.known = SameReference(r)
      BY <2>2
    <2>4. Do(u, job) /\ UNCHANGED <<rows, live, batch, reopened, returned>>
      BY <1>3, <2>3 DEF ApproveRead, Request, read
    <2>5. /\ overlapped \subseteq overlapped'
          /\ overlapped' \in SUBSET {ReferenceOf[x] : x \in Rows}
      BY <1>3 DEF ApproveRead, ImportInv, TypeOK
    <2>6. Sound(job)'
      BY <2>1, <2>3, <2>4 DEF Sound, Approves, Holds, SameReference, Existing, live
    <2>7. ASSUME NEW v \in Users, v # u PROVE Apart(job, jobs[v])' /\ Apart(jobs[v], job)'
      <3>1. jobs'[v] = jobs[v] /\ ~Holds(job)
        BY <2>3, <2>4, <2>7, JobFacts DEF Do, Holds
      <3>2. CASE ~(Approves(jobs[v]) /\ ReferenceOf[jobs[v].row] = ReferenceOf[r])
        BY <2>3, <3>1, <3>2 DEF Apart, Holds, Approves
      <3>3. CASE Approves(jobs[v]) /\ ReferenceOf[jobs[v].row] = ReferenceOf[r]
        <4>1. ReferenceOf[r] # None => ReferenceOf[r] \in overlapped'
          BY <1>3, <3>3 DEF ApproveRead, Approving, Approves
        <4> QED
          BY <2>3, <3>1, <3>3, <4>1 DEF Apart, Alone, Holds
      <3> QED
        BY <3>2, <3>3
    <2> QED
      BY <1>1, <2>3, <2>4, <2>5, <2>6, <2>7, JobKeeps
  <1> QED
    BY <1>2, <1>3

LEMMA CountKeeps ==
  ASSUME ImportInv, NEW u \in Users, CountRows(u)
  PROVE  ImportInv'
  <1> DEFINE some == \E r \in Rows : rows[r] # None /\ rows[r].status \in Remaining
             job == [jobs[u] EXCEPT !.step = "status", !.remaining = some]
  <1>1. requests' \in 0..MaxRequests /\ jobs[u] \in Job /\ Sound(jobs[u])
    BY JobFacts DEF CountRows, ImportInv, TypeOK
  <1>2. /\ job \in Job /\ job.step = "status" /\ job.remaining = some
        /\ job.known = jobs[u].known
    BY <1>1 DEF Job
  <1>3. ~some => Done
    BY DEF Done, Open, Remaining
  <1> HIDE DEF some, job
  <1>4. Do(u, job) /\ UNCHANGED <<rows, live, batch, requests, history>>
    BY DEF CountRows, job, some
  <1>5. Sound(job)
    BY <1>1, <1>2, <1>3 DEF Sound, Approves, Holds
  <1>6. PICK j : j = job
    OBVIOUS
  <1>7. Sound(j)'
    BY <1>4, <1>5, <1>6, SoundStays DEF live, history
  <1> QED
    BY <1>1, <1>2, <1>4, <1>6, <1>7, GoesOn DEF Approves, Holds

LEMMA EndsKeep ==
  ASSUME ImportInv, NEW u \in Users,
         SetBatchStatus(u) \/ ReviewBatch(u) \/ DeleteRead(u) \/ Fail(u)
  PROVE  ImportInv'
  <1>1. requests \in 0..MaxRequests /\ jobs[u] \in Job /\ Sound(jobs[u])
    BY JobFacts DEF ImportInv, TypeOK
  <1>2. CASE SetBatchStatus(u)
    <2>1. ~jobs[u].remaining => Done
      BY <1>1, <1>2 DEF SetBatchStatus, Sound
    <2>2. \/ batch' = batch
          \/ batch # None /\ batch' = "IN_REVIEW"
          \/ batch # None /\ batch' = "COMPLETED" /\ Done
      BY <1>2, <2>1 DEF SetBatchStatus
    <2> QED
      BY <1>1, <1>2, <2>2, IdleKeeps DEF SetBatchStatus
  <1>3. CASE ReviewBatch(u)
    <2>1. batch' = batch \/ (batch # None /\ batch' = "IN_REVIEW")
      BY <1>3 DEF ReviewBatch
    <2> QED
      BY <1>1, <1>3, <2>1, IdleKeeps DEF ReviewBatch
  <1>4. CASE DeleteRead(u)
    <2> DEFINE job == [Idle EXCEPT !.step = "delete"]
    <2>1. job \in Job /\ job.step = "delete" /\ job.known = {}
      BY DEF Job, Idle
    <2> HIDE DEF job
    <2>2. Do(u, job) /\ UNCHANGED <<rows, live, batch, history>> /\ requests' \in 0..MaxRequests
      BY <1>1, <1>4, ImportAssumption DEF DeleteRead, Request, job
    <2>3. Sound(job)'
      BY <2>1 DEF Sound, Approves, Holds
    <2> QED
      BY <2>1, <2>2, <2>3, GoesOn DEF Approves, Holds
  <1>5. CASE Fail(u)
    <2>1. requests' \in 0..MaxRequests
      BY <1>1, <1>5, ImportAssumption DEF Fail
    <2> QED
      BY <1>5, <2>1, IdleKeeps DEF Fail
  <1> QED
    BY <1>2, <1>3, <1>4, <1>5

-----------------------------------------------------------------------------
(* An approval commits                                                     *)

LEMMA CommitFacts ==
  ASSUME ImportInv, NEW u \in Users, Commit(u)
  PROVE  /\ jobs[u].step = "commit" /\ Approves(jobs[u]) /\ Holds(jobs[u])
         /\ jobs[u].row \in Rows /\ jobs[u].customer \in Nat
         /\ jobs[u].customer # 0 => jobs[u].customer \in Existing
         /\ jobs[u].customer = 0 => jobs[u].known = {}
         /\ rows[jobs[u].row] \in Row /\ rows[jobs[u].row].status = "READY_FOR_APPROVAL"
         /\ EntityOf[jobs[u].row] \in Entities
  <1>1. Sound(jobs[u]) /\ jobs[u].step = "commit"
    BY JobFacts DEF Commit
  <1>2. Approves(jobs[u]) /\ Holds(jobs[u]) /\ jobs[u].row \in Rows
    BY <1>1 DEF Sound, Approves, Holds
  <1> QED
    BY <1>1, <1>2, RowFacts, ImportAssumption DEF Sound, Commit

\* The commit of an approval that creates its customer.
LEMMA CreatingCommit ==
  ASSUME ImportInv, NEW u \in Users, Commit(u), jobs[u].customer = 0,
         NEW r \in Rows, r = jobs[u].row
  PROVE  /\ customers' \in Seq(Customer) /\ lastValue' \in [Entities -> Nat]
         /\ CodeInv' /\ SiblingsShareCustomer'
         /\ \A q \in Rows : ReferenceOf[q] # ReferenceOf[r] =>
              SameReference(q)' = SameReference(q)
  <1> DEFINE n == Len(customers)
             e == EntityOf[r]
             fresh == [reference |-> ReferenceOf[r], code |-> NextCode(e), exists |-> TRUE]
  <1>1. /\ e \in Entities /\ lastValue \in [Entities -> Nat] /\ lastValue[e] \in Nat
        /\ n \in Nat /\ customers \in Seq(Customer) /\ DOMAIN customers = 1..n
        /\ \A i \in 1..n : customers[i] \in Customer
        /\ jobs[u].known = {} /\ Approves(jobs[u]) /\ overlapped' = overlapped
    BY CommitFacts, CustomerFacts DEF ImportInv, TypeOK, Commit, history
  <1>2. /\ fresh \in Customer /\ fresh.reference = ReferenceOf[r] /\ fresh.exists = TRUE
        /\ fresh.code[1] = e /\ fresh.code[2] = lastValue[e] + 1
    BY <1>1 DEF Customer, NextCode
  <1>3. customers' = Append(customers, fresh) /\ lastValue' = [lastValue EXCEPT ![e] = @ + 1]
    BY DEF Commit
  <1> HIDE DEF fresh
  <1>4. /\ customers' \in Seq(Customer) /\ DOMAIN customers' = 1..(n + 1)
        /\ \A i \in 1..n : customers'[i] = customers[i]
        /\ customers'[n + 1] = fresh
    <2>1. /\ customers' \in Seq(Customer) /\ Len(customers') = n + 1
          /\ \A i \in 1..n : customers'[i] = customers[i]
          /\ customers'[n + 1] = fresh
      BY <1>1, <1>2, <1>3, AppendProperties
    <2> QED
      BY <2>1, LenProperties
  <1>5. /\ lastValue' \in [Entities -> Nat] /\ lastValue'[e] = lastValue[e] + 1
        /\ \A x \in Entities : x # e => lastValue'[x] = lastValue[x]
    BY <1>1, <1>3
  <1>6. \A i \in 1..n : /\ customers[i].code[1] \in Entities /\ customers[i].code[2] \in Nat
                        /\ customers[i].code[2] <= lastValue[customers[i].code[1]]
    BY <1>1 DEF Customer, ImportInv, CodeInv
  <1> HIDE DEF n, e
  <1>7. \A i \in DOMAIN customers' : customers'[i].code[2] <= lastValue'[customers'[i].code[1]]
    <2> SUFFICES ASSUME NEW i \in 1..(n + 1)
                 PROVE  customers'[i].code[2] <= lastValue'[customers'[i].code[1]]
      BY <1>4
    <2>1. CASE i = n + 1
      BY <1>1, <1>2, <1>4, <1>5, <2>1
    <2>2. CASE i \in 1..n
      <3>1. PICK x \in Entities : x = customers[i].code[1]
        BY <1>6, <2>2
      <3>2. /\ customers[i].code[2] \in Nat /\ customers[i].code[2] <= lastValue[x]
            /\ lastValue[x] \in Nat /\ lastValue'[x] \in Nat
        BY <1>1, <1>5, <1>6, <2>2, <3>1
      <3>3. lastValue[x] <= lastValue'[x]
        BY <1>5, <3>2
      <3> QED
        BY <1>4, <2>2, <3>1, <3>2, <3>3
    <2> QED
      BY <1>1, <2>1, <2>2
  <1>8. CodesNeverReused'
    <2> SUFFICES ASSUME NEW i \in 1..(n + 1), NEW k \in 1..(n + 1),
                        customers'[i].code = customers'[k].code
                 PROVE  i = k
      BY <1>4 DEF CodesNeverReused
    <2>1. CASE i \in 1..n /\ k \in 1..n
      BY <1>1, <1>4, <2>1 DEF ImportInv, CodeInv, CodesNeverReused
    <2>2. CASE i = n + 1 /\ k \in 1..n
      BY <1>1, <1>2, <1>4, <1>6, <2>2
    <2>3. CASE i \in 1..n /\ k = n + 1
      BY <1>1, <1>2, <1>4, <1>6, <2>3
    <2>4. CASE i = n + 1 /\ k = n + 1
      BY <2>4
    <2> QED
      BY <1>1, <2>1, <2>2, <2>3, <2>4
  <1>9. SiblingsShareCustomer'
    <2> SUFFICES ASSUME NEW i \in 1..(n + 1), customers'[i].exists,
                        NEW k \in 1..(n + 1), customers'[k].exists,
                        customers'[i].reference # None,
                        customers'[i].reference = customers'[k].reference,
                        customers'[i].reference \notin overlapped
                 PROVE  i = k
      BY <1>1, <1>4 DEF SiblingsShareCustomer, Existing
    <2>1. CASE i \in 1..n /\ k \in 1..n
      BY <1>1, <1>4, <2>1 DEF ImportInv, SiblingsShareCustomer, Existing
    <2>2. ASSUME NEW x \in 1..n, customers[x].exists, customers[x].reference = ReferenceOf[r],
                 Alone(r)
          PROVE  FALSE
      <3>1. x \in SameReference(r)
        BY <1>1, <2>2 DEF SameReference, Existing, Alone
      <3>2. SameReference(r) \subseteq jobs[u].known
        BY <1>1, <2>2, JobFacts DEF Sound
      <3> QED
        BY <1>1, <3>1, <3>2
    <2>3. CASE i = n + 1 /\ k \in 1..n
      BY <1>2, <1>4, <2>2, <2>3 DEF Alone
    <2>4. CASE i \in 1..n /\ k = n + 1
      BY <1>2, <1>4, <2>2, <2>4 DEF Alone
    <2> QED
      BY <1>1, <2>1, <2>3, <2>4
  <1>10. ASSUME NEW q \in Rows, ReferenceOf[q] # ReferenceOf[r]
         PROVE  SameReference(q)' = SameReference(q)
    BY <1>1, <1>2, <1>4, <1>10 DEF SameReference, Existing
  <1> QED
    BY <1>4, <1>5, <1>7, <1>8, <1>9, <1>10 DEF CodeInv

LEMMA CommitKeeps ==
  ASSUME ImportInv, NEW u \in Users, Commit(u)
  PROVE  ImportInv'
  <1>1. PICK r \in Rows : r = jobs[u].row
    BY CommitFacts
  <1>2. PICK to \in Nat \ {0} :
          to = IF jobs[u].customer = 0 THEN Len(customers) + 1 ELSE jobs[u].customer
    BY CommitFacts, CustomerFacts
  <1> DEFINE row == [rows[r] EXCEPT !.status = "APPROVED", !.customer = to]
             job == [Idle EXCEPT !.step = "count"]
  <1>3. /\ row \in Row /\ row # None /\ row.status = "APPROVED" /\ row.customer = to
    BY <1>1, CommitFacts, NoneAssumption DEF Row, RowStatus
  <1>4. job \in Job /\ job.step = "count" /\ job.known = {}
    BY DEF Job, Idle
  <1>5. /\ rows' = [rows EXCEPT ![r] = row] /\ links' = [links EXCEPT ![r] = Append(@, to)]
        /\ Do(u, job) /\ UNCHANGED <<batch, requests, history>>
    BY <1>1, <1>2 DEF Commit
  <1> HIDE DEF row, job
  <1>6. ImportInv /\ TypeOK /\ rows[r] \in Row /\ rows[r].status = "READY_FOR_APPROVAL"
        /\ rows[r] # None
    BY <1>1, CommitFacts, NoneAssumption DEF ImportInv
  <1>7. /\ rows' \in [Rows -> Row \union {None}] /\ rows'[r] = row
        /\ \A q \in Rows : q # r => rows'[q] = rows[q]
    BY <1>3, <1>5, <1>6 DEF TypeOK
  <1>8. /\ links' \in [Rows -> Seq(Nat)] /\ links'[r] = Append(links[r], to)
        /\ \A q \in Rows : q # r => links'[q] = links[q]
    BY <1>2, <1>5, <1>6, NonzeroAppend DEF TypeOK
  <1>9. /\ jobs' \in [Users -> Job] /\ jobs'[u] = job
        /\ \A v \in Users : v # u => jobs'[v] = jobs[v]
    BY <1>4, <1>5, <1>6 DEF TypeOK, Do
  <1>10. /\ customers' \in Seq(Customer) /\ lastValue' \in [Entities -> Nat]
         /\ CodeInv' /\ SiblingsShareCustomer'
         /\ \A q \in Rows : ReferenceOf[q] # ReferenceOf[r] =>
              SameReference(q)' = SameReference(q)
    <2>1. CASE jobs[u].customer = 0
      BY <1>1, <2>1, CreatingCommit
    <2>2. CASE jobs[u].customer # 0
      <3>1. customers' = customers /\ lastValue' = lastValue /\ overlapped' = overlapped
        BY <2>2 DEF Commit, history
      <3> QED
        BY <3>1, <1>6 DEF TypeOK, ImportInv, CodeInv, CodesNeverReused, SiblingsShareCustomer,
                          Existing, SameReference
    <2> QED
      BY <2>1, <2>2
  <1>11. UNCHANGED <<batch, requests, reopened, returned, overlapped>>
    BY <1>5 DEF history
  <1>12. Done => Done'
    BY <1>3, <1>7, <1>11 DEF Done, Open
  <1>13. JobInv'
    <2>1. ASSUME NEW v \in Users PROVE Sound(jobs[v])'
      <3>1. CASE v = u
        BY <1>4, <1>9, <3>1 DEF Sound, Approves, Holds
      <3>2. CASE v # u
        <4>1. PICK j : j = jobs[v] /\ j = jobs'[v] /\ Sound(j)
          BY <1>9, <3>2, JobFacts
        <4>2. Apart(jobs[v], jobs[u]) /\ Approves(jobs[u]) /\ Holds(jobs[u])
          BY <3>2, JobFacts, CommitFacts
        <4>3. Holds(j) => rows'[j.row] # None /\ rows'[j.row].status = "READY_FOR_APPROVAL"
          BY <1>1, <1>7, <4>1, <4>2 DEF Sound, Apart, Holds, Approves
        <4>4. Approves(j) /\ Alone(j.row) => SameReference(j.row)' \subseteq j.known
          BY <1>1, <1>10, <4>1, <4>2 DEF Sound, Apart
        <4>5. Alone(j.row)' = Alone(j.row)
          BY <1>11 DEF Alone
        <4> QED
          BY <1>12, <4>1, <4>3, <4>4, <4>5 DEF Sound, Approves, Holds
      <3> QED
        BY <3>1, <3>2
    <2>2. ASSUME NEW v \in Users, NEW w \in Users, v # w PROVE Apart(jobs[v], jobs[w])'
      <3>1. CASE v = u \/ w = u
        BY <1>4, <1>9, <3>1 DEF Apart, Approves, Holds
      <3>2. CASE v # u /\ w # u
        BY <1>9, <1>11, <2>2, <3>2 DEF ImportInv, JobInv, Apart, Alone
      <3> QED
        BY <3>1, <3>2
    <2> QED
      BY <2>1, <2>2 DEF JobInv
  <1>14. RowInv'
    <2> SUFFICES ASSUME NEW q \in Rows
                 PROVE  /\ Cardinality(LiveOf(q)') <= reopened'[q] + Standing(q)'
                        /\ rows'[q] = None => LiveOf(q)' = {}
                        /\ rows'[q] # None /\ rows'[q].status = "APPROVED" =>
                             \E n \in LiveOf(q)' : links'[q][n] = rows'[q].customer
      BY DEF RowInv
    <2>1. CASE q = r
      <3>1. PICK s \in Seq(Nat) : s = links[r] /\ LiveOf(r) = Nonzero(s)
        BY RowFacts
      <3>2. /\ Cardinality(Nonzero(s)) \in Nat /\ reopened[r] \in Nat
            /\ Cardinality(Nonzero(s)) <= reopened[r] /\ Standing(r)' = 1
        BY <1>3, <1>6, <1>7, <3>1, RowFacts DEF ImportInv, RowInv, Standing
      <3>3. /\ Nonzero(Append(s, to)) = Nonzero(s) \union {Len(s) + 1}
            /\ Cardinality(Nonzero(Append(s, to))) = Cardinality(Nonzero(s)) + 1
            /\ Append(s, to)[Len(s) + 1] = to
        BY <1>2, NonzeroAppend
      <3>4. LiveOf(r)' = Nonzero(Append(s, to)) /\ links'[r] = Append(s, to)
        BY <1>8, <3>1 DEF LiveOf, Nonzero
      <3>5. Cardinality(LiveOf(r)') <= reopened'[r] + Standing(r)'
        BY <1>11, <3>2, <3>3, <3>4
      <3> QED
        BY <1>3, <1>7, <2>1, <3>3, <3>4, <3>5
    <2>2. CASE q # r
      <3>1. LiveOf(q)' = LiveOf(q) /\ Standing(q)' = Standing(q)
        BY <1>7, <1>8, <2>2 DEF LiveOf, Standing
      <3> QED
        BY <1>7, <1>8, <1>11, <2>2, <3>1 DEF ImportInv, RowInv
    <2> QED
      BY <2>1, <2>2
  <1>15. BatchInv'
    BY <1>3, <1>7, <1>11, <1>12 DEF ImportInv, BatchInv
  <1>16. TypeOK'
    BY <1>6, <1>7, <1>8, <1>9, <1>10, <1>11 DEF TypeOK
  <1> QED
    BY <1>10, <1>13, <1>14, <1>15, <1>16 DEF ImportInv

-----------------------------------------------------------------------------
(* A review, and the deletions                                             *)

\* Rows change, and nothing of any request but the one that ends.
LEMMA OthersStay ==
  ASSUME ImportInv, NEW u \in Users, NEW job \in Job, Do(u, job),
         Sound(job)', ~Approves(job), UNCHANGED overlapped,
         \A v \in Users : v # u => Sound(jobs[v])'
  PROVE  JobInv' /\ jobs' \in [Users -> Job]
  <1>1. /\ jobs' \in [Users -> Job] /\ jobs'[u] = job
        /\ \A v \in Users : v # u => jobs'[v] = jobs[v]
    BY JobFacts DEF Do
  <1>2. ASSUME NEW v \in Users PROVE Sound(jobs[v])'
    BY <1>1 DEF Sound
  <1>3. ASSUME NEW v \in Users, NEW w \in Users, v # w PROVE Apart(jobs[v], jobs[w])'
    <2>1. CASE v = u \/ w = u
      BY <1>1, <2>1 DEF Apart, Approves, Holds
    <2>2. CASE v # u /\ w # u
      BY <1>1, <1>3, <2>2 DEF ImportInv, JobInv, Apart, Alone
    <2> QED
      BY <2>1, <2>2
  <1> QED
    BY <1>1, <1>2, <1>3 DEF JobInv

LEMMA ReviewKeeps ==
  ASSUME ImportInv, NEW u \in Users, ReviewWrite(u)
  PROVE  ImportInv'
  <1>1. PICK r \in Rows : r = jobs[u].row
    BY JobFacts DEF ReviewWrite, Sound
  <1>2. TypeOK /\ requests' \in 0..MaxRequests /\ ~RowLocked(r)
    BY <1>1 DEF ReviewWrite, ImportInv, TypeOK
  <1>3. CASE rows[r] = None
    BY <1>1, <1>2, <1>3, IdleKeeps DEF ReviewWrite, history
  <1>4. CASE rows[r] # None
    <2>1. PICK attach \in {0} \union Existing :
            rows' = [rows EXCEPT ![r].status = "READY_FOR_APPROVAL", ![r].attach = attach]
      BY <1>1, <1>4 DEF ReviewWrite
    <2> DEFINE row == [rows[r] EXCEPT !.status = "READY_FOR_APPROVAL", !.attach = attach]
               job == [Idle EXCEPT !.step = "review"]
    <2>2. rows[r] \in Row /\ attach \in Nat
      BY <1>4, <2>1, RowFacts, CustomerFacts
    <2>3. /\ row \in Row /\ row # None /\ row.status = "READY_FOR_APPROVAL"
      BY <2>2, NoneAssumption DEF Row, RowStatus
    <2>4. job \in Job /\ job.step = "review" /\ job.known = {}
      BY DEF Job, Idle
    <2>5. rows' = [rows EXCEPT ![r] = row] /\ Do(u, job)
      BY <1>1, <1>4, <2>1 DEF ReviewWrite
    <2> HIDE DEF row, job
    <2>6. /\ rows' \in [Rows -> Row \union {None}] /\ rows'[r] = row
          /\ \A q \in Rows : q # r => rows'[q] = rows[q]
      BY <1>2, <2>3, <2>5 DEF TypeOK
    <2>7. /\ UNCHANGED <<links, customers, lastValue, batch, requests, overlapped>>
          /\ reopened' = IF rows[r].status = "APPROVED"
                         THEN [reopened EXCEPT ![r] = @ + 1] ELSE reopened
          /\ returned' = IF rows[r].status \in {"APPROVED", "SKIPPED"}
                         THEN returned \union {r} ELSE returned
      BY <1>1, <1>4 DEF ReviewWrite, live
    <2>8. /\ reopened' \in [Rows -> Nat] /\ reopened'[r] = reopened[r] + Standing(r)
          /\ \A q \in Rows : q # r => reopened'[q] = reopened[q]
      BY <1>2, <1>4, <2>7 DEF TypeOK, Standing
    <2>9. returned' \in SUBSET Rows /\ returned \subseteq returned'
      BY <1>2, <2>7 DEF TypeOK
    <2>10. Done => Done'
      <3>1. Open(r) \/ r \in returned'
        BY <1>4, <2>2, <2>7 DEF Open, Row, RowStatus
      <3>2. \A q \in Rows : q # r => Open(q)' = Open(q)
        BY <2>6 DEF Open
      <3> QED
        BY <2>9, <3>1, <3>2 DEF Done
    <2>11. Sound(job)'
      BY <2>4 DEF Sound, Approves, Holds
    <2>12. ASSUME NEW v \in Users, v # u PROVE Sound(jobs[v])'
      <3>1. PICK j : j = jobs[v] /\ Sound(j) /\ jobs'[v] = j
        BY <2>5, <2>12, JobFacts DEF Do
      <3>2. Holds(j) => j.row \in Rows /\ j.row # r
        BY <1>2, <3>1, LockedFacts DEF Sound, Holds, Approves
      <3>3. Holds(j) => rows'[j.row] # None /\ rows'[j.row].status = "READY_FOR_APPROVAL"
        BY <2>6, <3>1, <3>2 DEF Sound
      <3>4. SameReference(j.row)' = SameReference(j.row) /\ Alone(j.row)' = Alone(j.row)
        BY <2>7 DEF SameReference, Existing, Alone
      <3> QED
        BY <2>10, <3>1, <3>3, <3>4 DEF Sound, Holds, Approves
    <2>13. JobInv' /\ jobs' \in [Users -> Job]
      BY <2>4, <2>5, <2>7, <2>11, <2>12, OthersStay DEF Approves
    <2>14. RowInv'
      <3> SUFFICES ASSUME NEW q \in Rows
                   PROVE  /\ Cardinality(LiveOf(q)') <= reopened'[q] + Standing(q)'
                          /\ rows'[q] = None => LiveOf(q)' = {}
                          /\ rows'[q] # None /\ rows'[q].status = "APPROVED" =>
                               \E n \in LiveOf(q)' : links'[q][n] = rows'[q].customer
        BY DEF RowInv
      <3>1. LiveOf(q)' = LiveOf(q)
        BY <2>7 DEF LiveOf
      <3>2. CASE q = r
        <4>1. Standing(r)' = 0
          BY <2>3, <2>6 DEF Standing
        <4>2. Cardinality(LiveOf(r)) <= reopened[r] + Standing(r) /\ reopened'[r] \in Nat
          BY <2>8 DEF ImportInv, RowInv
        <4> QED
          BY <2>3, <2>6, <2>8, <3>1, <3>2, <4>1, <4>2
      <3>3. CASE q # r
        <4>1. Standing(q)' = Standing(q)
          BY <2>6, <3>3 DEF Standing
        <4> QED
          BY <2>6, <2>7, <2>8, <3>1, <3>3, <4>1 DEF ImportInv, RowInv
      <3> QED
        BY <3>2, <3>3
    <2>15. BatchInv'
      BY <2>3, <2>6, <2>7, <2>10 DEF ImportInv, BatchInv
    <2>16. CodeInv' /\ SiblingsShareCustomer'
      BY <2>7 DEF ImportInv, CodeInv, CodesNeverReused, SiblingsShareCustomer, Existing
    <2>17. TypeOK'
      BY <1>2, <2>6, <2>7, <2>8, <2>9, <2>13 DEF TypeOK
    <2> QED
      BY <2>13, <2>14, <2>15, <2>16, <2>17 DEF ImportInv
  <1> QED
    BY <1>3, <1>4

LEMMA DeleteBatchKeeps ==
  ASSUME ImportInv, NEW u \in Users, DeleteBatch(u)
  PROVE  ImportInv'
  <1>1. /\ Do(u, Idle) /\ UNCHANGED <<live, requests, history>> /\ TypeOK
        /\ requests \in 0..MaxRequests /\ \A r \in Rows : ~RowLocked(r)
    BY DEF DeleteBatch, ImportInv, TypeOK
  <1>2. CASE UNCHANGED <<rows, batch>>
    BY <1>1, <1>2, IdleKeeps
  <1>3. CASE Deletable /\ rows' = [r \in Rows |-> None] /\ batch' = None
    <2>1. /\ UNCHANGED <<links, customers, lastValue, requests, reopened, returned, overlapped>>
          /\ \A r \in Rows : rows'[r] = None /\ LiveOf(r) = {} /\ LiveOf(r)' = {}
      BY <1>1, <1>3 DEF live, history, Deletable, LiveOf
    <2>2. Done'
      BY <2>1 DEF Done, Open
    <2>3. ASSUME NEW v \in Users, v # u PROVE Sound(jobs[v])'
      <3>1. PICK j : j = jobs[v] /\ Sound(j) /\ jobs'[v] = j
        BY <1>1, <2>3, JobFacts DEF Do
      <3>2. ~Holds(j)
        BY <1>1, <3>1, LockedFacts DEF Sound, Holds, Approves
      <3>3. SameReference(j.row)' = SameReference(j.row) /\ Alone(j.row)' = Alone(j.row)
        BY <2>1 DEF SameReference, Existing, Alone
      <3> QED
        BY <2>2, <3>1, <3>2, <3>3 DEF Sound, Holds, Approves
    <2>4. Sound(Idle)' /\ ~Approves(Idle)
      BY IdleFacts DEF Sound, Approves, Holds
    <2>5. JobInv' /\ jobs' \in [Users -> Job]
      BY <1>1, <2>1, <2>3, <2>4, IdleFacts, OthersStay
    <2>6. RowInv'
      BY <2>1, FS_EmptySet DEF ImportInv, TypeOK, RowInv, Standing
    <2>7. BatchInv'
      BY <1>3, <2>2, ImportAssumption DEF BatchInv
    <2>8. CodeInv' /\ SiblingsShareCustomer'
      BY <2>1 DEF ImportInv, CodeInv, CodesNeverReused, SiblingsShareCustomer, Existing
    <2>9. TypeOK'
      BY <1>1, <1>3, <2>1, <2>5 DEF TypeOK
    <2> QED
      BY <2>5, <2>6, <2>7, <2>8, <2>9 DEF ImportInv
  <1> QED
    BY <1>2, <1>3 DEF DeleteBatch

LEMMA ResetFacts ==
  ASSUME NEW row \in Row, NEW i
  PROVE  /\ ResetRow(row, i) \in Row /\ ResetRow(row, i) # None /\ ResetRow(None, i) = None
         /\ row.customer = i => ResetRow(row, i).status = "REQUIRES_MANUAL_REVIEW"
         /\ row.customer # i => /\ ResetRow(row, i).status = row.status
                                /\ ResetRow(row, i).customer = row.customer
  BY NoneAssumption DEF ResetRow, Row, RowStatus

\* What a deletion of customer i leaves of customers and subscriptions.
LEMMA DeletedCustomer ==
  ASSUME ImportInv, NEW i \in Existing, DeleteCustomer(i)
  PROVE  /\ i \in Nat \ {0} /\ customers' \in Seq(Customer)
         /\ CodeInv' /\ SiblingsShareCustomer'
         /\ \A r \in Rows : SameReference(r)' \subseteq SameReference(r)
  <1> DEFINE n == Len(customers)
             gone == [customers[i] EXCEPT !.exists = FALSE]
  <1>1. /\ customers \in Seq(Customer) /\ n \in Nat /\ DOMAIN customers = 1..n /\ i \in 1..n
        /\ customers[i] \in Customer
    BY CustomerFacts
  <1>2. /\ gone \in Customer /\ gone.exists = FALSE /\ gone.code = customers[i].code
        /\ gone.reference = customers[i].reference
    BY <1>1 DEF Customer
  <1>3. customers' = [customers EXCEPT ![i] = gone] /\ UNCHANGED <<lastValue, overlapped>>
    BY DEF DeleteCustomer
  <1> HIDE DEF gone
  <1>4. /\ customers' \in Seq(Customer) /\ DOMAIN customers' = 1..n
        /\ \A k \in 1..n : customers'[k] = IF k = i THEN gone ELSE customers[k]
    <2>1. /\ customers' \in Seq(Customer) /\ Len(customers') = n
          /\ \A k \in 1..n : customers'[k] = IF k = i THEN gone ELSE customers[k]
      BY <1>1, <1>2, <1>3, ExceptSeq
    <2> QED
      BY <2>1, LenProperties
  <1>5. \A k \in 1..n : /\ customers'[k].code = customers[k].code
                        /\ customers'[k].reference = customers[k].reference
                        /\ customers'[k].exists => customers[k].exists
    BY <1>2, <1>4
  <1>6. CodeInv'
    BY <1>1, <1>3, <1>4, <1>5 DEF ImportInv, CodeInv, CodesNeverReused
  <1>7. SiblingsShareCustomer'
    BY <1>1, <1>3, <1>4, <1>5 DEF ImportInv, SiblingsShareCustomer, Existing
  <1>8. \A r \in Rows : SameReference(r)' \subseteq SameReference(r)
    BY <1>1, <1>4, <1>5 DEF SameReference, Existing
  <1> QED
    BY <1>1, <1>4, <1>6, <1>7, <1>8

LEMMA DeleteCustomerKeeps ==
  ASSUME ImportInv, NEW i \in Existing, DeleteCustomer(i)
  PROVE  ImportInv'
  <1>1. /\ TypeOK /\ requests' \in 0..MaxRequests
        /\ UNCHANGED <<lastValue, batch, jobs, reopened, overlapped>>
    BY ImportAssumption DEF DeleteCustomer, ImportInv, TypeOK
  <1>2. /\ i \in Nat \ {0} /\ customers' \in Seq(Customer)
        /\ CodeInv' /\ SiblingsShareCustomer'
        /\ \A r \in Rows : SameReference(r)' \subseteq SameReference(r)
    BY DeletedCustomer
  <1>3. /\ rows' \in [Rows -> Row \union {None}]
        /\ \A r \in Rows :
             /\ rows'[r] = None <=> rows[r] = None
             /\ rows[r] # None /\ rows[r].customer = i =>
                  rows'[r].status = "REQUIRES_MANUAL_REVIEW"
             /\ rows[r] # None /\ rows[r].customer # i =>
                  rows'[r].status = rows[r].status /\ rows'[r].customer = rows[r].customer
    <2>1. rows' = [r \in Rows |-> ResetRow(rows[r], i)]
      BY DEF DeleteCustomer
    <2>2. ASSUME NEW r \in Rows
          PROVE  /\ ResetRow(rows[r], i) \in Row \union {None}
                 /\ ResetRow(rows[r], i) = None <=> rows[r] = None
      BY RowFacts, ResetFacts DEF ResetRow
    <2> QED
      BY <2>1, <2>2, RowFacts, ResetFacts
  <1>4. /\ returned' = returned \union {r \in Rows : rows[r] # None /\ rows[r].customer = i}
        /\ links' = [r \in Rows |-> [n \in DOMAIN links[r] |->
                                       IF links[r][n] = i THEN 0 ELSE links[r][n]]]
    BY DEF DeleteCustomer
  <1>5. Done => Done'
    BY <1>3, <1>4 DEF Done, Open
  <1>6. JobInv'
    <2>1. ASSUME NEW v \in Users PROVE Sound(jobs[v])'
      <3>1. PICK j : j = jobs[v] /\ Sound(j) /\ jobs'[v] = j
        BY <1>1, JobFacts
      <3>2. Holds(j) => rows'[j.row] # None /\ rows'[j.row].status = "READY_FOR_APPROVAL"
        <4> SUFFICES ASSUME Holds(j)
                     PROVE  rows'[j.row] # None /\ rows'[j.row].status = "READY_FOR_APPROVAL"
          OBVIOUS
        <4>1. PICK r \in Rows : r = j.row
          BY <3>1 DEF Sound, Holds, Approves
        <4>2. RowLocked(r) /\ rows[r] # None /\ rows[r].status = "READY_FOR_APPROVAL"
          BY <3>1, <4>1, LockedFacts DEF Sound
        <4>3. rows[r].customer # i
          BY <4>2 DEF DeleteCustomer
        <4> QED
          BY <1>3, <4>1, <4>2, <4>3
      <3>3. Approves(j) /\ Alone(j.row)' => SameReference(j.row)' \subseteq j.known
        <4>1. Alone(j.row)' => Alone(j.row)
          BY <1>1 DEF Alone
        <4> QED
          BY <1>2, <3>1, <4>1 DEF Sound
      <3> QED
        BY <1>5, <3>1, <3>2, <3>3 DEF Sound, Holds, Approves
    <2>2. ASSUME NEW v \in Users, NEW w \in Users, v # w PROVE Apart(jobs[v], jobs[w])'
      BY <1>1, <2>2 DEF ImportInv, JobInv, Apart, Alone
    <2> QED
      BY <2>1, <2>2 DEF JobInv
  <1>7. ASSUME NEW r \in Rows
        PROVE  /\ links'[r] \in Seq(Nat)
               /\ Cardinality(LiveOf(r)') <= reopened'[r] + Standing(r)'
               /\ rows'[r] = None => LiveOf(r)' = {}
               /\ rows'[r] # None /\ rows'[r].status = "APPROVED" =>
                    \E n \in LiveOf(r)' : links'[r][n] = rows'[r].customer
    <2>1. PICK s, t :
            /\ s \in Seq(Nat) /\ s = links[r] /\ LiveOf(r) = Nonzero(s) /\ Cardinality(Nonzero(s)) \in Nat
            /\ t = links'[r] /\ LiveOf(r)' = Nonzero(t)
      BY RowFacts DEF LiveOf, Nonzero
    <2>2. t = [n \in DOMAIN s |-> IF s[n] = i THEN 0 ELSE s[n]]
      BY <1>4, <2>1
    <2>3. /\ t \in Seq(Nat) /\ Nonzero(t) \subseteq Nonzero(s)
          /\ Cardinality(Nonzero(t)) \in Nat
          /\ Cardinality(Nonzero(t)) <= Cardinality(Nonzero(s))
          /\ \A n \in Nonzero(s) : s[n] # i => n \in Nonzero(t) /\ t[n] = s[n]
          /\ (\E n \in Nonzero(s) : s[n] = i) => Cardinality(Nonzero(t)) < Cardinality(Nonzero(s))
      <3>1. /\ i \in Nat \ {0} /\ s \in Seq(Nat)
            /\ t = [n \in DOMAIN t |-> t[n]] /\ DOMAIN t = DOMAIN s
            /\ \A n \in DOMAIN s : t[n] = IF s[n] = i THEN 0 ELSE s[n]
        BY <1>2, <2>1, <2>2
      <3> QED
        BY ONLY <3>1, NonzeroErase
    <2>4. /\ Cardinality(Nonzero(s)) <= reopened[r] + Standing(r) /\ reopened[r] \in Nat
          /\ rows[r] = None => Nonzero(s) = {}
          /\ rows[r] # None /\ rows[r].status = "APPROVED" =>
               \E n \in Nonzero(s) : s[n] = rows[r].customer
      BY <2>1, RowFacts DEF ImportInv, RowInv
    <2>5. CASE rows[r] # None /\ rows[r].status = "APPROVED" /\ rows[r].customer = i
      <3>1. Cardinality(Nonzero(t)) < Cardinality(Nonzero(s)) /\ Standing(r) = 1
        BY <2>3, <2>4, <2>5 DEF Standing
      <3>2. Standing(r)' = 0 /\ rows'[r] # None /\ rows'[r].status # "APPROVED"
        BY <1>3, <2>5 DEF Standing
      <3> QED
        BY <1>1, <2>1, <2>3, <2>4, <3>1, <3>2
    <2>6. CASE rows[r] # None /\ rows[r].status = "APPROVED" /\ rows[r].customer # i
      <3>1. Standing(r) = 1 /\ Standing(r)' = 1 /\ rows'[r] # None
            /\ rows'[r].customer = rows[r].customer
        BY <1>3, <2>6 DEF Standing
      <3>2. PICK n \in Nonzero(s) : s[n] = rows[r].customer
        BY <2>4, <2>6
      <3>3. n \in LiveOf(r)' /\ links'[r][n] = rows'[r].customer
        BY <2>1, <2>3, <2>6, <3>1, <3>2
      <3>4. Cardinality(LiveOf(r)') <= reopened'[r] + Standing(r)'
        BY <1>1, <2>1, <2>3, <2>4, <3>1
      <3> QED
        BY <2>1, <2>3, <3>1, <3>3, <3>4
    <2>7. CASE rows[r] = None \/ rows[r].status # "APPROVED"
      <3>1. /\ Standing(r) = 0 /\ Standing(r)' = 0
            /\ rows'[r] = None \/ rows'[r].status # "APPROVED"
            /\ rows'[r] = None => rows[r] = None
        BY <1>3, <2>7 DEF Standing
      <3> QED
        BY <1>1, <2>1, <2>3, <2>4, <3>1
    <2> QED
      BY <2>5, <2>6, <2>7
  <1>8. BatchInv'
    BY <1>1, <1>3, <1>5 DEF ImportInv, BatchInv
  <1>9. links' \in [Rows -> Seq(Nat)]
    BY <1>4, <1>7
  <1>10. TypeOK'
    BY <1>1, <1>2, <1>3, <1>4, <1>9 DEF TypeOK
  <1> QED
    BY <1>2, <1>6, <1>7, <1>8, <1>10 DEF ImportInv, RowInv

-----------------------------------------------------------------------------
(* The invariant is inductive                                              *)

LEMMA ImportStart == Init => ImportInv
  <1> SUFFICES ASSUME Init PROVE ImportInv
    OBVIOUS
  <1>1. \A r \in Rows : /\ rows[r] \in Row /\ rows[r] # None
                        /\ rows[r].status # "APPROVED"
                        /\ links[r] = <<>> /\ reopened[r] = 0
    BY NoneAssumption DEF Init, Row, RowStatus
  <1>2. /\ rows \in [Rows -> Row \union {None}] /\ <<>> \in Seq(Nat) /\ <<>> \in Seq(Customer)
    <2>1. \A r \in Rows : rows[r] \in Row
      BY <1>1
    <2>2. rows = [r \in Rows |-> rows[r]]
      BY DEF Init
    <2> QED
      BY <2>1, <2>2, EmptySeq
  <1>3. TypeOK
    BY <1>2, IdleFacts, ImportAssumption DEF Init, TypeOK
  <1>4. JobInv
    BY IdleFacts DEF Init, JobInv, Apart, Approves, Holds
  <1>5. RowInv
    <2>1. \A r \in Rows : LiveOf(r) = {} /\ Standing(r) = 0
      BY <1>1 DEF LiveOf, Standing
    <2>2. Cardinality({}) = 0
      BY FS_EmptySet
    <2>3. ASSUME NEW r \in Rows
          PROVE  Cardinality(LiveOf(r)) <= reopened[r] + Standing(r)
      <3>1. Cardinality(LiveOf(r)) = 0
        BY <2>1, <2>2, Zenon
      <3> QED
        BY <1>1, <2>1, <3>1
    <2>4. ASSUME NEW r \in Rows
          PROVE  /\ rows[r] = None => LiveOf(r) = {}
                 /\ ~(rows[r] # None /\ rows[r].status = "APPROVED")
      BY <1>1, <2>1
    <2> QED
      BY <2>3, <2>4 DEF RowInv
  <1>6. CodeInv /\ SiblingsShareCustomer
    BY DEF Init, CodeInv, CodesNeverReused, SiblingsShareCustomer, Existing
  <1>7. BatchInv
    BY <1>1 DEF Init, BatchInv
  <1> QED
    BY <1>3, <1>4, <1>5, <1>6, <1>7 DEF ImportInv

LEMMA ImportStep == ImportInv /\ [Next]_vars => ImportInv'
  <1> SUFFICES ASSUME ImportInv, [Next]_vars PROVE ImportInv'
    OBVIOUS
  <1>1. CASE UNCHANGED vars
    <2>1. TypeOK' /\ BatchInv'
      BY <1>1 DEF vars, ImportInv, TypeOK, BatchInv, Done, Open
    <2>2. JobInv'
      BY <1>1 DEF vars, ImportInv, JobInv, Sound, Apart, Alone, SameReference, Existing, Done, Open
    <2>3. RowInv'
      BY <1>1 DEF vars, ImportInv, RowInv, LiveOf, Standing
    <2>4. CodeInv' /\ SiblingsShareCustomer'
      BY <1>1 DEF vars, ImportInv, CodeInv, CodesNeverReused, SiblingsShareCustomer, Existing
    <2> QED
      BY <2>1, <2>2, <2>3, <2>4 DEF ImportInv
  <1>2. ASSUME NEW u \in Users, NEW r \in Rows, ApproveRead(u, r) \/ ReviewRead(u, r)
        PROVE  ImportInv'
    BY <1>2, ReadsKeep
  <1>3. ASSUME NEW u \in Users,
               \/ Claim(u) \/ ChooseCustomer(u) \/ Commit(u) \/ CountRows(u) \/ SetBatchStatus(u)
               \/ ReviewWrite(u) \/ ReviewBatch(u) \/ DeleteRead(u) \/ DeleteBatch(u) \/ Fail(u)
        PROVE  ImportInv'
    BY <1>3, ClaimKeeps, ChooseKeeps, CommitKeeps, CountKeeps, EndsKeep, ReviewKeeps,
       DeleteBatchKeeps
  <1>4. ASSUME NEW i \in Existing, DeleteCustomer(i) PROVE ImportInv'
    BY <1>4, DeleteCustomerKeeps
  <1> QED
    BY <1>1, <1>2, <1>3, <1>4 DEF Next

LEMMA ImportSafe == Spec => []ImportInv
  BY ImportStart, ImportStep, PTL DEF Spec

-----------------------------------------------------------------------------
(* Theorems                                                                *)

\* The staged rows, the customers made from them, their codes and the requests
\* of the users stay within their types.
THEOREM ImportTypeCorrect == Spec => []TypeOK
  <1>1. ImportInv => TypeOK
    BY DEF ImportInv
  <1> QED
    BY <1>1, ImportSafe, PTL

\* A row becomes live once, however many users approve it and retry: the row
\* lock of the claim, and the status that is compared under it, let one
\* approval through until a review is written over it.
THEOREM RowsGoLiveOnce == Spec => []LiveOnce
  <1>1. ImportInv => LiveOnce
    <2> SUFFICES ASSUME ImportInv, NEW r \in Rows
                 PROVE  Cardinality(LiveOf(r)) <= 1 + reopened[r]
      BY DEF LiveOnce
    <2>1. links[r] \in Seq(Nat) /\ reopened[r] \in Nat /\ Standing(r) \in {0, 1}
      BY RowFacts
    <2>2. LiveOf(r) = Nonzero(links[r])
      BY DEF LiveOf, Nonzero
    <2>3. Cardinality(LiveOf(r)) \in Nat
      BY <2>1, <2>2, NonzeroFinite, Zenon
    <2>4. Cardinality(LiveOf(r)) <= reopened[r] + Standing(r)
      BY DEF ImportInv, RowInv
    <2> QED
      BY <2>1, <2>3, <2>4
  <1> QED
    BY <1>1, ImportSafe, PTL

\* Rows of one canonical customer share one live customer unless their
\* approvals overlapped: what the transaction's snapshot knew of the reference
\* is still all there is of it when it commits.
THEOREM SiblingsAreOne == Spec => []SiblingsShareCustomer
  <1>1. ImportInv => SiblingsShareCustomer
    BY DEF ImportInv
  <1> QED
    BY <1>1, ImportSafe, PTL

\* No customer is given a code that another one had, deleted ones included:
\* every code was drawn from the sequence of its billing entity.
THEOREM CodesAreUnique == Spec => []CodesNeverReused
  <1>1. ImportInv => CodesNeverReused
    BY DEF ImportInv, CodeInv
  <1> QED
    BY <1>1, ImportSafe, PTL

\* A batch that is deleted while its rows are being approved never takes the
\* origin of a live subscription away.
THEOREM OriginsAreKept == Spec => []LiveRowsAreKept
  <1>1. ImportInv => LiveRowsAreKept
    BY DEF ImportInv, RowInv, LiveRowsAreKept
  <1> QED
    BY <1>1, ImportSafe, PTL

\* A COMPLETED batch has no open row but those opened again after they had
\* been approved or skipped, although its status is written after the count.
THEOREM CompletionIsTrue == Spec => []CompletedMeansDone
  <1>1. ImportInv => CompletedMeansDone
    BY ImportAssumption DEF ImportInv, TypeOK, BatchInv, CompletedMeansDone, Done, Open
  <1> QED
    BY <1>1, ImportSafe, PTL

-----------------------------------------------------------------------------
(* Approvals that no review of their row overlaps                          *)

Approved(r) == rows[r] # None /\ rows[r].status = "APPROVED"

\* An approval goes where the row still says, or where it said until that
\* customer was deleted.
Drafted(j) ==
    /\ Approves(j) /\ rows[j.row] # None => rows[j.row].attach \in {j.attach, None}
    /\ j.step = "commit" => j.attach \in {0, j.customer}

StayInv ==
    /\ \A r \in Rows : Approved(r) =>
         /\ rows[r].attach \in {0, None, rows[r].customer}
         /\ \A u \in Users : ~(jobs[u].step = "write" /\ jobs[u].row = r)
    /\ \A u \in Users : Drafted(jobs[u])

LEMMA StayInit == Init => StayInv
  <1> SUFFICES ASSUME Init PROVE StayInv
    OBVIOUS
  <1>1. \A u \in Users : jobs[u] = Idle
    BY DEF Init
  <1>2. \A r \in Rows : ~Approved(r)
    BY DEF Init, Approved
  <1> QED
    BY <1>1, <1>2 DEF StayInv, Drafted, Approves, Idle

\* A request goes on, and no row changes.
LEMMA GoingStays ==
  ASSUME ImportInv, StayInv, NEW u \in Users, NEW job, Do(u, job), rows' = rows, Drafted(job),
         job.step = "write" => job.row \in Rows /\ ~Approved(job.row)
  PROVE  StayInv'
  <1>1. jobs'[u] = job /\ \A v \in Users : v # u => jobs'[v] = jobs[v]
    BY JobFacts DEF Do
  <1>2. \A v \in Users : Drafted(jobs'[v])
    BY <1>1 DEF StayInv
  <1>3. \A v \in Users : Drafted(jobs[v])'
    BY <1>2 DEF Drafted
  <1>4. ASSUME NEW r \in Rows, Approved(r)'
        PROVE  /\ rows'[r].attach \in {0, None, rows'[r].customer}
               /\ \A v \in Users : ~(jobs'[v].step = "write" /\ jobs'[v].row = r)
    <2>1. Approved(r)
      BY <1>4 DEF Approved
    <2> QED
      BY <1>1, <2>1 DEF StayInv
  <1> QED
    BY <1>3, <1>4 DEF StayInv

LEMMA ReadsStay ==
  ASSUME ImportInv, StayInv, NEW u \in Users, NEW r \in Rows,
         ApproveRead(u, r) \/ ReviewRead(u, r)
  PROVE  StayInv' /\ rows' = rows
  <1>1. CASE ApproveRead(u, r)
    <2>1. PICK job : job = [Idle EXCEPT !.step = "claim", !.row = r, !.attach = rows[r].attach,
                                        !.known = SameReference(r)]
      OBVIOUS
    <2>2. job.step = "claim" /\ job.row = r /\ job.attach = rows[r].attach
      BY <2>1 DEF Idle
    <2> QED
      BY <1>1, <2>1, <2>2, GoingStays DEF ApproveRead, Request, Drafted
  <1>2. CASE ReviewRead(u, r)
    <2>1. PICK job : job = [Idle EXCEPT !.step = "write", !.row = r]
      OBVIOUS
    <2>2. job.step = "write" /\ job.row = r
      BY <2>1 DEF Idle
    <2> QED
      BY <1>2, <2>1, <2>2, GoingStays DEF ReviewRead, Request, Drafted, Approves, Approved
  <1> QED
    BY <1>1, <1>2

LEMMA IdleDrafted == Drafted(Idle) /\ Idle.step # "write"
  BY DEF Drafted, Approves, Idle

LEMMA RequestStays ==
  ASSUME ImportInv, StayInv, NEW u \in Users,
         \/ Claim(u) \/ ChooseCustomer(u) \/ CountRows(u) \/ SetBatchStatus(u)
         \/ ReviewBatch(u) \/ DeleteRead(u) \/ Fail(u)
  PROVE  StayInv' /\ rows' = rows
  <1>1. rows' = rows
    BY DEF Claim, ChooseCustomer, CountRows, SetBatchStatus, ReviewBatch, DeleteRead, Fail
  <1>2. jobs[u] \in Job /\ Drafted(jobs[u])
    BY JobFacts DEF StayInv
  <1>3. PICK job : Do(u, job) /\ Drafted(job) /\ job.step # "write"
    <2>1. CASE Do(u, Idle)
      BY <2>1, IdleDrafted
    <2>2. CASE Claim(u)
      <3>1. PICK job : job = [jobs[u] EXCEPT !.step = "customer"]
        OBVIOUS
      <3>2. job.step = "customer" /\ job.row = jobs[u].row /\ job.attach = jobs[u].attach
        BY <1>2, <3>1 DEF Job
      <3> QED
        BY <1>2, <2>1, <2>2, <3>1, <3>2 DEF Claim, Drafted, Approves
    <2>3. CASE ChooseCustomer(u)
      <3>1. PICK job, i : /\ Do(u, job) /\ (job = Idle \/ (/\ job = [jobs[u] EXCEPT !.step = "commit", !.customer = i]
                                             /\ jobs[u].attach \in {0, i} /\ jobs[u].step = "customer"))
        BY <2>3 DEF ChooseCustomer
      <3>2. CASE job = Idle
        BY <2>1, <3>1, <3>2
      <3>3. CASE job # Idle
        <4>1. /\ job.step = "commit" /\ job.row = jobs[u].row /\ job.attach = jobs[u].attach
              /\ job.customer = i
          BY <1>2, <3>1, <3>3 DEF Job
        <4> QED
          BY <1>2, <3>1, <3>3, <4>1 DEF Drafted, Approves
      <3> QED
        BY <3>2, <3>3
    <2>4. CASE CountRows(u)
      <3>1. PICK job, b : /\ Do(u, job)
                          /\ job = [jobs[u] EXCEPT !.step = "status", !.remaining = b]
        BY <2>4 DEF CountRows
      <3>2. job.step = "status"
        BY <1>2, <3>1 DEF Job
      <3> QED
        BY <3>1, <3>2 DEF Drafted, Approves
    <2>5. CASE DeleteRead(u)
      <3>1. PICK job : Do(u, job) /\ job = [Idle EXCEPT !.step = "delete"]
        BY <2>5 DEF DeleteRead, Request
      <3>2. job.step = "delete"
        BY <3>1 DEF Idle
      <3> QED
        BY <3>1, <3>2 DEF Drafted, Approves
    <2> QED
      BY <2>1, <2>2, <2>3, <2>4, <2>5 DEF SetBatchStatus, ReviewBatch, Fail
  <1> QED
    BY <1>1, <1>3, GoingStays

\* An approval commits what the row says, and no review is left that would
\* write over it.
LEMMA CommitStays ==
  ASSUME ImportInv, StayInv, ~ReviewedMeanwhile, NEW u \in Users, Commit(u)
  PROVE  /\ StayInv'
         /\ \A r \in Rows : Approved(r) => rows'[r] = rows[r]
  <1>1. PICK r, to : /\ r \in Rows /\ r = jobs[u].row
                     /\ to = IF jobs[u].customer = 0 THEN Len(customers) + 1
                             ELSE jobs[u].customer
    BY CommitFacts
  <1>2. /\ jobs[u].step = "commit" /\ Approves(jobs[u]) /\ rows[r] \in Row
        /\ rows[r].status = "READY_FOR_APPROVAL" /\ rows[r] # None
    BY <1>1, CommitFacts, NoneAssumption
  <1>3. rows' = [rows EXCEPT ![r].status = "APPROVED", ![r].customer = to]
    BY <1>1 DEF Commit
  <1>4. /\ rows \in [Rows -> Row \union {None}]
        /\ \A q \in Rows : q # r => rows'[q] = rows[q]
        /\ rows'[r].attach = rows[r].attach /\ rows'[r].customer = to
    BY <1>1, <1>2, <1>3 DEF ImportInv, TypeOK, Row
  <1>5. PICK job : job = [Idle EXCEPT !.step = "count"] /\ Do(u, job)
    BY DEF Commit
  <1>6. /\ job.step = "count" /\ jobs'[u] = job
        /\ \A v \in Users : v # u => jobs'[v] = jobs[v]
    BY <1>5, JobFacts DEF Do, Idle
  <1>7. rows'[r].attach \in {0, None, to}
    BY <1>1, <1>2, <1>4 DEF StayInv, Drafted
  <1>8. \A v \in Users : ~(jobs[v].step = "write" /\ jobs[v].row = r)
    BY <1>1, <1>2 DEF ReviewedMeanwhile, Approving
  <1>9. ASSUME NEW q \in Rows, Approved(q)'
        PROVE  /\ rows'[q].attach \in {0, None, rows'[q].customer}
               /\ \A v \in Users : ~(jobs'[v].step = "write" /\ jobs'[v].row = q)
    <2>1. CASE q = r
      BY <1>4, <1>6, <1>7, <1>8, <2>1
    <2>2. CASE q # r
      <3>1. rows'[q] = rows[q] /\ Approved(q)
        BY <1>4, <1>9, <2>2 DEF Approved
      <3> QED
        BY <1>6, <3>1 DEF StayInv
    <2> QED
      BY <2>1, <2>2
  <1>10. ASSUME NEW v \in Users PROVE Drafted(jobs[v])'
    <2>1. CASE v = u
      BY <1>6, <2>1 DEF Drafted, Approves
    <2>2. CASE v # u
      <3>1. jobs'[v] = jobs[v] /\ Drafted(jobs[v])
        BY <1>6, <2>2 DEF StayInv
      <3>2. Approves(jobs[v]) => jobs[v].row \in Rows
        BY JobFacts DEF Sound
      <3>3. Approves(jobs[v]) /\ rows'[jobs[v].row] # None =>
              rows[jobs[v].row] # None /\ rows'[jobs[v].row].attach = rows[jobs[v].row].attach
        BY <1>2, <1>4, <3>2
      <3> QED
        BY <3>1, <3>3 DEF Drafted, Approves
    <2> QED
      BY <2>1, <2>2
  <1> QED
    BY <1>2, <1>4, <1>9, <1>10 DEF StayInv, Approved

\* A review writes a row nobody is approving and nobody has approved.
LEMMA ReviewStays ==
  ASSUME ImportInv, StayInv, ~ReviewedMeanwhile, NEW u \in Users, ReviewWrite(u)
  PROVE  /\ StayInv'
         /\ \A r \in Rows : Approved(r) => rows'[r] = rows[r]
  <1>1. jobs[u].step = "write" /\ jobs[u].row \in Rows
    BY JobFacts DEF ReviewWrite, Sound
  <1>2. PICK r \in Rows : r = jobs[u].row
    BY <1>1
  <1>3. CASE rows[r] = None
    <2>1. rows' = rows /\ Do(u, Idle)
      BY <1>2, <1>3 DEF ReviewWrite
    <2> QED
      BY <2>1, IdleDrafted, GoingStays
  <1>4. CASE rows[r] # None
    <2>1. PICK attach : rows' = [rows EXCEPT ![r].status = "READY_FOR_APPROVAL", ![r].attach = attach]
      BY <1>2, <1>4 DEF ReviewWrite
    <2>2. /\ rows \in [Rows -> Row \union {None}] /\ rows[r] \in Row
          /\ \A q \in Rows : q # r => rows'[q] = rows[q]
          /\ rows'[r].status = "READY_FOR_APPROVAL"
      BY <1>4, <2>1, RowFacts DEF ImportInv, TypeOK, Row
    <2>3. PICK job : job = [Idle EXCEPT !.step = "review"] /\ Do(u, job)
      BY <1>2, <1>4 DEF ReviewWrite
    <2>4. /\ job.step = "review" /\ jobs'[u] = job
          /\ \A v \in Users : v # u => jobs'[v] = jobs[v]
      BY <2>3, JobFacts DEF Do, Idle
    <2>5. ~Approved(r)
      BY <1>1, <1>2 DEF StayInv
    <2>6. ASSUME NEW q \in Rows, Approved(q)'
          PROVE  /\ rows'[q].attach \in {0, None, rows'[q].customer}
                 /\ \A v \in Users : ~(jobs'[v].step = "write" /\ jobs'[v].row = q)
      <3>1. q # r
        BY <2>2, <2>6 DEF Approved
      <3>2. rows'[q] = rows[q] /\ Approved(q)
        BY <2>2, <2>6, <3>1 DEF Approved
      <3> QED
        BY <2>4, <3>2 DEF StayInv
    <2>7. ASSUME NEW v \in Users PROVE Drafted(jobs[v])'
      <3>1. CASE v = u
        BY <2>4, <3>1 DEF Drafted, Approves
      <3>2. CASE v # u
        <4>1. jobs'[v] = jobs[v] /\ Drafted(jobs[v])
          BY <2>4, <3>2 DEF StayInv
        <4>2. Approves(jobs[v]) => jobs[v].row \in Rows /\ jobs[v].row # r
          BY <1>1, <1>2, JobFacts DEF Sound, ReviewedMeanwhile, Approving, Approves
        <4> QED
          BY <2>2, <4>1, <4>2 DEF Drafted, Approves
      <3> QED
        BY <3>1, <3>2
    <2> QED
      BY <2>2, <2>5, <2>6, <2>7 DEF StayInv
  <1> QED
    BY <1>3, <1>4

\* A batch with an approved row is not deleted: the row has its subscription.
LEMMA DeleteBatchStays ==
  ASSUME ImportInv, StayInv, NEW u \in Users, DeleteBatch(u)
  PROVE  /\ StayInv'
         /\ \A r \in Rows : Approved(r) => rows'[r] = rows[r]
  <1>1. Do(u, Idle)
    BY DEF DeleteBatch
  <1>2. CASE rows' = rows
    BY <1>1, <1>2, IdleDrafted, GoingStays
  <1>3. CASE rows' # rows
    <2>1. Deletable /\ rows' = [r \in Rows |-> None]
      BY <1>3 DEF DeleteBatch
    <2>2. \A r \in Rows : ~Approved(r) /\ ~Approved(r)'
      BY <2>1 DEF Deletable, ImportInv, RowInv, Approved
    <2>3. jobs'[u] = Idle /\ \A v \in Users : v # u => jobs'[v] = jobs[v]
      BY <1>1, JobFacts DEF Do
    <2>4. ASSUME NEW v \in Users PROVE Drafted(jobs[v])'
      <3>1. CASE v = u
        BY <2>3, <3>1, IdleDrafted DEF Drafted, Approves, Idle
      <3>2. CASE v # u
        <4>1. jobs'[v] = jobs[v] /\ Drafted(jobs[v])
          BY <2>3, <3>2 DEF StayInv
        <4>2. Approves(jobs[v]) => rows'[jobs[v].row] = None
          BY <2>1, JobFacts DEF Sound
        <4> QED
          BY <4>1, <4>2 DEF Drafted, Approves
      <3> QED
        BY <3>1, <3>2
    <2> QED
      BY <2>2, <2>4 DEF StayInv
  <1> QED
    BY <1>2, <1>3

\* A deleted customer takes with it the approvals into it, and the mappings to
\* it of rows that are not approved into another.
LEMMA DeleteCustomerStays ==
  ASSUME ImportInv, StayInv, NEW i \in Existing, DeleteCustomer(i)
  PROVE  /\ StayInv'
         /\ \A r \in Rows : Approved(r) /\ rows'[r] # rows[r] => rows[r].customer \notin Existing'
  <1>1. /\ i \in Nat \ {0} /\ i # None /\ i \in DOMAIN customers
        /\ customers' = [customers EXCEPT ![i].exists = FALSE]
    BY DeletedCustomer, CustomerFacts, ImportAssumption DEF DeleteCustomer
  <1>2. i \notin Existing'
    <2>1. customers \in [DOMAIN customers -> Customer]
      BY CustomerFacts
    <2>2. customers'[i].exists = FALSE
      BY <1>1, <2>1 DEF Customer
    <2> QED
      BY <2>2 DEF Existing
  <1>3. jobs' = jobs /\ \A r \in Rows : rows'[r] = ResetRow(rows[r], i)
    BY DEF DeleteCustomer
  <1>4. ASSUME NEW r \in Rows, rows[r] # None
        PROVE  /\ rows'[r] # None /\ rows[r] \in Row
               /\ rows[r].customer = i => ~Approved(r)'
               /\ rows[r].customer # i => /\ rows'[r].status = rows[r].status
                                          /\ rows'[r].customer = rows[r].customer
               /\ rows'[r].attach = IF rows[r].attach = i THEN None ELSE rows[r].attach
               /\ rows[r].customer # i /\ rows[r].attach # i => rows'[r] = rows[r]
    <2>1. PICK row \in Row : row = rows[r]
      BY <1>4, RowFacts
    <2>2. rows'[r] = ResetRow(row, i) /\ ResetRow(row, i) # None
      BY <1>3, <2>1, ResetFacts
    <2>3. ResetRow(row, i).attach = IF row.attach = i THEN None ELSE row.attach
      BY <1>4, <2>1 DEF ResetRow, Row
    <2>4. row.customer # i /\ row.attach # i => ResetRow(row, i) = row
      BY <1>4, <2>1 DEF ResetRow, Row
    <2> QED
      BY <2>1, <2>2, <2>3, <2>4, ResetFacts DEF Approved
  <1>5. \A r \in Rows : rows[r] = None => rows'[r] = None
    BY <1>3 DEF ResetRow
  <1>6. ASSUME NEW r \in Rows, Approved(r)'
        PROVE  /\ rows'[r].attach \in {0, None, rows'[r].customer}
               /\ \A v \in Users : ~(jobs'[v].step = "write" /\ jobs'[v].row = r)
    <2>1. rows[r] # None /\ rows[r].customer # i /\ Approved(r)
      BY <1>4, <1>5, <1>6 DEF Approved
    <2> QED
      BY <1>3, <1>4, <2>1 DEF StayInv
  <1>7. ASSUME NEW v \in Users PROVE Drafted(jobs[v])'
    <2>1. Drafted(jobs[v]) /\ (Approves(jobs[v]) => jobs[v].row \in Rows)
      BY JobFacts DEF StayInv, Sound
    <2>2. Approves(jobs[v]) /\ rows'[jobs[v].row] # None =>
            rows[jobs[v].row] # None /\ rows'[jobs[v].row].attach \in {rows[jobs[v].row].attach, None}
      BY <1>4, <1>5, <2>1
    <2> QED
      BY <1>3, <2>1, <2>2 DEF Drafted, Approves
  <1>8. ASSUME NEW r \in Rows, Approved(r), rows'[r] # rows[r]
        PROVE  rows[r].customer = i
    <2>1. rows[r] # None /\ rows[r].attach \in {0, None, rows[r].customer}
      BY <1>8 DEF Approved, StayInv
    <2>2. rows[r].customer = i \/ rows[r].attach = i
      BY <1>4, <1>8, <2>1
    <2> QED
      BY <1>1, <2>1, <2>2
  <1> QED
    BY <1>2, <1>6, <1>7, <1>8 DEF StayInv

LEMMA StayStep ==
  ASSUME ImportInv, StayInv, ~ReviewedMeanwhile, [Next]_vars
  PROVE  /\ StayInv'
         /\ \A r \in Rows : Approved(r) /\ rows'[r] # rows[r] => rows[r].customer \notin Existing'
  <1>1. CASE UNCHANGED vars
    BY <1>1 DEF vars, StayInv, Drafted, Approved, Approves
  <1>2. ASSUME NEW u \in Users, NEW r \in Rows, ApproveRead(u, r) \/ ReviewRead(u, r)
        PROVE  StayInv' /\ rows' = rows
    BY <1>2, ReadsStay
  <1>3. ASSUME NEW u \in Users,
               \/ Claim(u) \/ ChooseCustomer(u) \/ Commit(u) \/ CountRows(u) \/ SetBatchStatus(u)
               \/ ReviewWrite(u) \/ ReviewBatch(u) \/ DeleteRead(u) \/ DeleteBatch(u) \/ Fail(u)
        PROVE  StayInv' /\ \A r \in Rows : Approved(r) => rows'[r] = rows[r]
    BY <1>3, RequestStays, CommitStays, ReviewStays, DeleteBatchStays
  <1>4. ASSUME NEW i \in Existing, DeleteCustomer(i)
        PROVE  /\ StayInv'
               /\ \A r \in Rows : Approved(r) /\ rows'[r] # rows[r] => rows[r].customer \notin Existing'
    BY <1>4, DeleteCustomerStays
  <1> QED
    BY <1>1, <1>2, <1>3, <1>4 DEF Next

\* Where no review and approval of one row ever overlap, an approved row is
\* immutable as the code says, until its customer is deleted: overlapping
\* approvals, batch deletions and failures do not matter.
THEOREM UnreviewedApprovalsStay == Spec /\ [](~ReviewedMeanwhile) => ApprovedRowsStay
  <1>1. /\ ImportInv /\ StayInv /\ ~ReviewedMeanwhile /\ [Next]_vars => StayInv'
        /\ ImportInv /\ StayInv /\ ~ReviewedMeanwhile /\ [Next]_vars =>
             [\A r \in Rows :
                (rows[r] # None /\ rows[r].status = "APPROVED" /\ rows'[r] # rows[r]) =>
                  rows[r].customer \notin {i \in DOMAIN customers' : customers'[i].exists}]_vars
    BY StayStep DEF Approved, Existing
  <1> QED
    BY <1>1, StayInit, ImportSafe, PTL DEF Spec, ApprovedRowsStay
=============================================================================
