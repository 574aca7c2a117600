------------------------- MODULE MailOutboundProofs -------------------------
(***************************************************************************)
(* Proofs about MailOutbound: its types, the lease, the identity of a      *)
(* message, the bound on its retries, and that it implements               *)
(* OutboxDelivery.                                                         *)
(***************************************************************************)
EXTENDS MailOutbound, TLAPS

(* What processOne has in its local variables at each step.                *)
Located(j) == j.step # "idle" => j.row \in Rows

Informed(j, box) ==
    j.step \in {"evaluate", "rebind", "materialize"} =>
        /\ j.snap \in Snapshot
        /\ j.snap.linked => box[j.row].message # None

Prepared(j) ==
    j.step \in {"rebind", "materialize", "mark", "send", "record"} =>
        j.to \in Recipients /\ j.via \in Mailboxes

Written(j, box) ==
    /\ j.step \in {"mark", "send", "record"} => j.fresh
    /\ j.fresh => /\ j.row \in Rows
                  /\ j.to \in Recipients /\ j.via \in Mailboxes /\ j.mid \in MessageId
                  /\ box[j.row].message # None
                  /\ j.step \notin {"idle", "claim", "readBack"}

WellFormed(j, box) ==
    Located(j) /\ Informed(j, box) /\ Prepared(j) /\ Written(j, box)

JobOK == \A w \in Workers : WellFormed(job[w], outbox)

TypeInv == TypeOK /\ JobOK

LEMMA ClockRange == 0 \in Time
  BY ConstantsAssumption DEF Time

LEMMA IdleJob == Idle \in Job
  BY ClockRange DEF Idle, Job, Step

LEMMA TypeInit == Init => TypeInv
  <1> SUFFICES ASSUME Init PROVE TypeInv
    OBVIOUS
  <1>1. outbox \in [Rows -> OutboxRow]
    <2> SUFFICES ASSUME NEW r \in Rows PROVE outbox[r] \in OutboxRow
      BY DEF Init
    <2>1. desk.primary[CaseOf[r]] \in Recipients
      BY ConstantsAssumption DEF Init
    <2> QED
      BY <2>1, ClockRange DEF Init, OutboxRow, Status
  <1>2. TypeOK
    BY <1>1, IdleJob, ClockRange DEF Init, TypeOK
  <1>3. JobOK
    BY DEF Init, Idle, JobOK, WellFormed, Located, Informed, Prepared, Written
  <1> QED
    BY <1>2, <1>3 DEF TypeInv


LEMMA JobsStay == JobOK /\ UNCHANGED <<outbox, job>> => JobOK'
  BY DEF JobOK, WellFormed, Located, Informed, Prepared, Written

(* A step that moves one worker to a well-formed job, and forgets no       *)
(* materialized message, keeps every job well-formed.                      *)
LEMMA JobStep ==
  ASSUME TypeInv, NEW w \in Workers, NEW j \in Job, Become(w, j),
         outbox' \in [Rows -> OutboxRow],
         \A r \in Rows : outbox[r].message # None => outbox'[r].message # None,
         WellFormed(j, outbox')
  PROVE  job' \in [Workers -> Job] /\ JobOK'
  <1> USE DEF TypeInv, TypeOK
  <1>1. job' \in [Workers -> Job]
    BY DEF Become
  <1>2. ASSUME NEW v \in Workers PROVE WellFormed(job[v], outbox)'
    <2>1. CASE v = w
      BY <2>1 DEF Become
    <2>2. CASE v # w
      <3>1. job'[v] = job[v]
        BY <2>2 DEF Become
      <3>2. WellFormed(job[v], outbox)
        BY DEF JobOK
      <3>3. job[v] \in Job
        OBVIOUS
      <3> QED
        BY <3>1, <3>2, <3>3 DEF WellFormed, Located, Informed, Prepared, Written
    <2> QED
      BY <2>1, <2>2
  <1> QED
    BY <1>1, <1>2 DEF JobOK

LEMMA Positions ==
  ASSUME TypeInv, NEW w \in Workers
  PROVE  /\ job[w] \in Job
         /\ WellFormed(job[w], outbox)
         /\ job[w].step # "idle" => /\ job[w].row \in Rows
                                    /\ outbox[job[w].row] \in OutboxRow
                                    /\ CaseOf[job[w].row] \in Cases
  BY ConstantsAssumption DEF TypeInv, TypeOK, JobOK, WellFormed, Located

LEMMA IdleWellFormed == WellFormed(Idle, outbox')
  BY DEF Idle, WellFormed, Located, Informed, Prepared, Written

(* Ending a job, with a status written to its row or with nothing.         *)
LEMMA EndJob ==
  ASSUME TypeInv, NEW w \in Workers, job[w].step # "idle", Become(w, Idle),
         NEW s \in Status,
         \/ UNCHANGED outbox
         \/ outbox' = [outbox EXCEPT ![job[w].row].status = s],
         UNCHANGED <<threads, batch, clock, desk, handed, acked, reclaims>>
  PROVE  TypeInv'
  <1>1. outbox' \in [Rows -> OutboxRow]
    <2>1. CASE outbox' = [outbox EXCEPT ![job[w].row].status = s]
      <3>1. [outbox[job[w].row] EXCEPT !.status = s] \in OutboxRow
        BY Positions DEF OutboxRow
      <3> QED
        BY <2>1, <3>1, Positions DEF TypeInv, TypeOK
    <2> QED
      BY <2>1 DEF TypeInv, TypeOK
  <1>2. \A r \in Rows : outbox[r].message # None => outbox'[r].message # None
    BY Positions DEF TypeInv, TypeOK, OutboxRow
  <1>3. job' \in [Workers -> Job] /\ JobOK'
    BY <1>1, <1>2, IdleJob, IdleWellFormed, JobStep
  <1> QED
    BY <1>1, <1>3 DEF TypeInv, TypeOK

LEMMA TypeNext == TypeInv /\ [Next]_vars => TypeInv'
  <1> SUFFICES ASSUME TypeInv, [Next]_vars PROVE TypeInv'
    OBVIOUS
  <1> USE DEF dbVars, history
  <1>1. ASSUME NEW w \in Workers, StartBatch(w) PROVE TypeInv'
    <2>1. Oldest \subseteq Rows
      BY DEF Oldest, Candidates
    <2>2. batch' \in [Workers -> SUBSET Rows]
      BY <1>1, <2>1 DEF StartBatch, TypeInv, TypeOK
    <2> QED
      BY <1>1, <2>2, JobsStay DEF StartBatch, TypeInv, TypeOK
  <1>2. ASSUME NEW w \in Workers, Begin(w) PROVE TypeInv'
    <2>1. PICK r \in batch[w] :
            /\ batch' = [batch EXCEPT ![w] = @ \ {r}]
            /\ Become(w, [job[w] EXCEPT !.step = "claim", !.row = r, !.now = clock])
      BY <1>2 DEF Begin
    <2> DEFINE j == [job[w] EXCEPT !.step = "claim", !.row = r, !.now = clock]
    <2>2. r \in Rows
      BY DEF TypeInv, TypeOK
    <2>3. j \in Job
      <3>1. clock \in Time
        BY DEF TypeInv, TypeOK
      <3> QED
        BY <2>2, <3>1, Positions DEF Job, Step
    <2>4. WellFormed(j, outbox')
      BY <1>2, <2>2, Positions
      DEF Begin, Job, WellFormed, Located, Informed, Prepared, Written
    <2>5. UNCHANGED <<outbox, threads, clock, desk, handed, acked, reclaims>>
      BY <1>2 DEF Begin
    <2>6. job' \in [Workers -> Job] /\ JobOK'
      <3> HIDE DEF j
      <3> QED BY <2>1, <2>3, <2>4, <2>5, JobStep DEF TypeInv, TypeOK, j
    <2> QED
      BY <2>1, <2>5, <2>6 DEF TypeInv, TypeOK
  <1>3. ASSUME NEW w \in Workers, Claim(w) PROVE TypeInv'
    <2> DEFINE r == job[w].row
               j == [job[w] EXCEPT !.step = "readBack"]
    <2>1. CASE Claimable(r, job[w].now)
      <3>1. r \in Rows /\ job[w] \in Job /\ outbox[r] \in OutboxRow
        BY <1>3, Positions DEF Claim
      <3>2. outbox' = [outbox EXCEPT ![r].status = "PROCESSING",
                                     ![r].lastAttemptAt = job[w].now]
        BY <1>3, <2>1 DEF Claim
      <3>3. /\ outbox' \in [Rows -> OutboxRow]
            /\ \A q \in Rows : outbox[q].message # None => outbox'[q].message # None
        BY <3>1, <3>2 DEF TypeInv, TypeOK, OutboxRow, Status, Job
      <3>4. j \in Job
        BY <3>1 DEF Job, Step
      <3>5. WellFormed(j, outbox')
        BY <1>3, <3>1, Positions
        DEF Claim, Job, WellFormed, Located, Informed, Prepared, Written
      <3>6. Become(w, j)
        BY <1>3, <2>1 DEF Claim
      <3>7. job' \in [Workers -> Job] /\ JobOK'
        <4> HIDE DEF j
        <4> QED BY <3>3, <3>4, <3>5, <3>6, JobStep
      <3>8. reclaims' \in [Rows -> Nat]
        BY <1>3, <2>1, <3>1 DEF Claim, TypeInv, TypeOK
      <3> QED
        BY <1>3, <3>3, <3>7, <3>8 DEF Claim, TypeInv, TypeOK
    <2>2. CASE ~Claimable(r, job[w].now)
      BY <1>3, <2>2, EndJob DEF Claim, Status
    <2> QED
      BY <2>1, <2>2
  <1>4. ASSUME NEW w \in Workers, ReadBack(w) PROVE TypeInv'
    <2> DEFINE j == [job[w] EXCEPT !.step = "load", !.now = 0,
                                   !.token = outbox[job[w].row].lastAttemptAt]
    <2>1. j \in Job
      BY <1>4, Positions, ClockRange DEF ReadBack, Job, Step, OutboxRow
    <2>2. WellFormed(j, outbox')
      BY <1>4, Positions
      DEF ReadBack, Job, WellFormed, Located, Informed, Prepared, Written
    <2>3. Become(w, j) /\ UNCHANGED outbox
      BY <1>4 DEF ReadBack
    <2>4. job' \in [Workers -> Job] /\ JobOK'
      <3> HIDE DEF j
      <3> QED BY <2>1, <2>2, <2>3, JobStep DEF TypeInv, TypeOK
    <2> QED
      BY <1>4, <2>4 DEF ReadBack, TypeInv, TypeOK
  <1>5. ASSUME NEW w \in Workers, Load(w) PROVE TypeInv'
    <2> DEFINE r == job[w].row
               c == CaseOf[r]
               snap == [attempts |-> outbox[r].attempts,
                        recipient |-> outbox[r].recipient,
                        linked |-> outbox[r].message # None,
                        open |-> desk.open[c],
                        holds |-> desk.holds[c]]
               j == [job[w] EXCEPT !.step = "evaluate", !.snap = snap]
    <2>1. r \in Rows /\ c \in Cases /\ outbox[r] \in OutboxRow /\ job[w] \in Job
      BY <1>5, Positions DEF Load
    <2>2. snap \in Snapshot
      BY <2>1 DEF Snapshot, OutboxRow, TypeInv, TypeOK, Desk
    <2>3. j \in Job
      BY <2>1, <2>2 DEF Job, Step
    <2>4. WellFormed(j, outbox')
      BY <1>5, <2>1, <2>2, Positions
      DEF Load, Job, WellFormed, Located, Informed, Prepared, Written
    <2>5. Become(w, j) /\ UNCHANGED outbox
      BY <1>5 DEF Load
    <2>6. job' \in [Workers -> Job] /\ JobOK'
      <3> HIDE DEF j
      <3> QED BY <2>3, <2>4, <2>5, JobStep DEF TypeInv, TypeOK
    <2> QED
      BY <1>5, <2>6 DEF Load, TypeInv, TypeOK
  <1>6. ASSUME NEW w \in Workers, Evaluate(w) PROVE TypeInv'
    <2> DEFINE r == job[w].row
               c == CaseOf[r]
               verdict == Verdict(w)
               to == IF verdict = "rebind" THEN desk.primary[c]
                     ELSE IF job[w].fresh THEN job[w].to ELSE job[w].snap.recipient
               next == IF verdict = "rebind" THEN "rebind"
                       ELSE IF job[w].fresh THEN "mark" ELSE "materialize"
               via == IF job[w].fresh THEN job[w].via ELSE MailboxFor(c)
    <2>1. r \in Rows /\ c \in Cases /\ job[w] \in Job /\ job[w].snap \in Snapshot
      BY <1>6, Positions DEF Evaluate, WellFormed, Informed
    <2>2. verdict \in {"defer", "cancel", "eligible", "rebind"}
      BY DEF Verdict, RecipientVerdict
    <2>3. CASE verdict \in {"defer", "cancel"}
      <3> DEFINE j == [job[w] EXCEPT !.step = verdict, !.snap = None]
      <3> HIDE DEF verdict
      <3>1. j \in Job
        BY <2>1, <2>3 DEF Job, Step
      <3>2. WellFormed(j, outbox')
        BY <1>6, <2>1, <2>3, Positions
        DEF Evaluate, Job, WellFormed, Located, Informed, Prepared, Written
      <3>3. Become(w, j) /\ UNCHANGED outbox
        BY <1>6, <2>3 DEF Evaluate, verdict
      <3>4. job' \in [Workers -> Job] /\ JobOK'
        <4> HIDE DEF j
        <4> QED BY <3>1, <3>2, <3>3, JobStep DEF TypeInv, TypeOK
      <3> QED
        BY <1>6, <3>4 DEF Evaluate, TypeInv, TypeOK
    <2>4. CASE verdict \notin {"defer", "cancel"}
      <3> DEFINE j == [job[w] EXCEPT !.step = next, !.to = to, !.via = via]
      <3>1. Become(w, j) /\ UNCHANGED outbox
        BY <1>6, <2>4 DEF Evaluate
      <3>2. MailboxFor(c) \in Mailboxes
        BY <2>1 DEF MailboxFor, TypeInv, TypeOK, Desk
      <3>3. via \in Mailboxes
        BY <1>6, <3>2, Positions DEF Evaluate, WellFormed, Written
      <3>4. verdict = "rebind" => desk.primary[c] \in Recipients
        BY <2>1 DEF Verdict, RecipientVerdict, TypeInv, TypeOK, Desk
      <3>5. to \in Recipients
        <4> HIDE DEF verdict
        <4> QED BY <1>6, <2>1, <3>4, Positions DEF Evaluate, WellFormed, Written, Snapshot
      <3>9. next \in {"rebind", "mark", "materialize"} /\ (next = "mark" => job[w].fresh)
        BY <2>4, <2>2
      <3>10. job[w].step = "evaluate"
        BY <1>6 DEF Evaluate
      <3> HIDE DEF to, via, verdict, next
      <3>6. j \in Job
        BY <2>1, <3>3, <3>5, <3>9 DEF Job, Step
      <3>7. WellFormed(j, outbox')
        BY <2>1, <3>1, <3>3, <3>5, <3>9, <3>10, Positions
        DEF Job, WellFormed, Located, Informed, Prepared, Written
      <3>8. job' \in [Workers -> Job] /\ JobOK'
        <4> HIDE DEF j
        <4> QED BY <3>1, <3>6, <3>7, JobStep DEF TypeInv, TypeOK
      <3> QED
        BY <1>6, <3>8 DEF Evaluate, TypeInv, TypeOK
    <2> QED
      BY <2>3, <2>4
  <1>7. ASSUME NEW w \in Workers, Defer(w) PROVE TypeInv'
    BY <1>7, EndJob DEF Defer, Status
  <1>8. ASSUME NEW w \in Workers, Cancel(w) PROVE TypeInv'
    BY <1>8, EndJob DEF Cancel, Status, Terminal
  <1>9. ASSUME NEW w \in Workers, Rebind(w) PROVE TypeInv'
    <2> DEFINE r == job[w].row
               next == IF job[w].fresh THEN "mark" ELSE "materialize"
               j == [job[w] EXCEPT !.step = next]
    <2>1. r \in Rows /\ job[w] \in Job /\ outbox[r] \in OutboxRow
      BY <1>9, Positions DEF Rebind, ReboundMessage
    <2>2. job[w].to \in Recipients /\ (job[w].snap.linked => outbox[r].message \in EmailMessage)
      BY <1>9, <2>1, Positions DEF Rebind, WellFormed, Prepared, Informed, OutboxRow
    <2>3. CASE Owns(w) /\ outbox[r].attempts = 0
      <3> DEFINE message == IF job[w].snap.linked
                            THEN [outbox[r].message EXCEPT !.to = job[w].to]
                            ELSE outbox[r].message
      <3>1. outbox' = [outbox EXCEPT ![r].recipient = job[w].to, ![r].message = message]
        BY <1>9, <2>3 DEF Rebind, ReboundMessage
      <3>2. /\ message \in EmailMessage \union {None}
            /\ outbox[r].message # None => message # None
        BY <2>1, <2>2, NoneAssumption DEF EmailMessage, OutboxRow
      <3>3. /\ outbox' \in [Rows -> OutboxRow]
            /\ \A q \in Rows : outbox[q].message # None => outbox'[q].message # None
        <4> HIDE DEF message
        <4> QED BY <2>1, <2>2, <3>1, <3>2 DEF TypeInv, TypeOK, OutboxRow
      <3>4. j \in Job
        BY <2>1 DEF Job, Step
      <3>5. WellFormed(j, outbox')
        BY <1>9, <2>1, <3>3, Positions
        DEF Rebind, Job, WellFormed, Located, Informed, Prepared, Written
      <3>6. Become(w, j)
        BY <1>9, <2>3 DEF Rebind, ReboundMessage
      <3>7. job' \in [Workers -> Job] /\ JobOK'
        <4> HIDE DEF j
        <4> QED BY <3>3, <3>4, <3>5, <3>6, JobStep
      <3> QED
        BY <1>9, <3>3, <3>7 DEF Rebind, TypeInv, TypeOK
    <2>4. CASE ~(Owns(w) /\ outbox[r].attempts = 0)
      BY <1>9, <2>4, EndJob DEF Rebind, Status
    <2> QED
      BY <2>3, <2>4
  <1>10. ASSUME NEW w \in Workers, Materialize(w) PROVE TypeInv'
    <2> DEFINE r == job[w].row
               reload(id) == [job[w] EXCEPT !.step = "load", !.fresh = TRUE,
                                            !.mid = id, !.snap = None]
    <2>1. /\ r \in Rows /\ job[w] \in Job /\ outbox[r] \in OutboxRow
          /\ CaseOf[r] \in Cases /\ job[w].to \in Recipients /\ job[w].via \in Mailboxes
          /\ job[w].snap.linked => outbox[r].message # None
      BY <1>10, Positions DEF Materialize, WellFormed, Prepared, Informed
    <2>2. ASSUME NEW id \in MessageId, outbox'[r].message # None
          PROVE  reload(id) \in Job /\ WellFormed(reload(id), outbox')
      BY <1>10, <2>1, <2>2
      DEF Materialize, Job, Step, WellFormed, Located, Informed, Prepared, Written
    <2>3. CASE job[w].snap.linked
      <3> DEFINE j == reload(outbox[r].message.mid)
      <3>1. outbox[r].message.mid \in MessageId /\ UNCHANGED outbox /\ outbox[r].message # None
        BY <1>10, <2>1, <2>3 DEF Materialize, OutboxRow, EmailMessage
      <3>2. j \in Job /\ WellFormed(j, outbox')
        BY <2>2, <3>1
      <3>3. Become(w, j)
        BY <1>10, <2>3 DEF Materialize, KeptId
      <3>4. job' \in [Workers -> Job] /\ JobOK'
        <4> HIDE DEF j
        <4> QED BY <3>1, <3>2, <3>3, JobStep DEF TypeInv, TypeOK
      <3> QED
        BY <1>10, <2>3, <3>4 DEF Materialize, TypeInv, TypeOK
    <2>4. CASE ~job[w].snap.linked /\ Owns(w)
      <3> DEFINE mid == <<w, job[w].token>>
                 j == reload(mid)
                 message == [to |-> job[w].to, via |-> job[w].via, mid |-> mid]
      <3>1. mid \in MessageId
        BY <2>1 DEF MessageId, Job
      <3>2. message \in EmailMessage /\ message # None
        BY <2>1, <3>1, NoneAssumption DEF EmailMessage
      <3>3. outbox' = [outbox EXCEPT ![r].message = message]
        BY <1>10, <2>4 DEF Materialize
      <3>4. /\ outbox' \in [Rows -> OutboxRow]
            /\ \A q \in Rows : outbox[q].message # None => outbox'[q].message # None
            /\ outbox'[r].message # None
        <4> HIDE DEF message
        <4> QED BY <2>1, <3>2, <3>3 DEF TypeInv, TypeOK, OutboxRow
      <3>5. j \in Job /\ WellFormed(j, outbox')
        BY <2>2, <3>1, <3>4
      <3>6. Become(w, j)
        BY <1>10, <2>4 DEF Materialize
      <3>7. job' \in [Workers -> Job] /\ JobOK'
        <4> HIDE DEF j
        <4> QED BY <3>4, <3>5, <3>6, JobStep
      <3>8. threads' \in [Cases -> Mailboxes \union {None}]
        BY <1>10, <2>1, <2>4 DEF Materialize, TypeInv, TypeOK
      <3> QED
        BY <1>10, <3>4, <3>7, <3>8 DEF Materialize, TypeInv, TypeOK
    <2>5. CASE ~job[w].snap.linked /\ ~Owns(w)
      BY <1>10, <2>5, EndJob DEF Materialize, Status
    <2> QED
      BY <2>3, <2>4, <2>5
  <1>11. ASSUME NEW w \in Workers, MarkAttempt(w) PROVE TypeInv'
    <2> DEFINE r == job[w].row
               j == [job[w] EXCEPT !.step = "send", !.snap = None]
    <2>1. r \in Rows /\ job[w] \in Job /\ outbox[r] \in OutboxRow
      BY <1>11, Positions DEF MarkAttempt
    <2>2. CASE Owns(w)
      <3>1. outbox' = [outbox EXCEPT ![r].attempts = @ + 1]
        BY <1>11, <2>2 DEF MarkAttempt
      <3>7. outbox[r].attempts + 1 \in Nat
        BY <2>1 DEF OutboxRow
      <3>2. /\ outbox' \in [Rows -> OutboxRow]
            /\ \A q \in Rows : outbox[q].message # None => outbox'[q].message # None
        BY <2>1, <3>1, <3>7 DEF TypeInv, TypeOK, OutboxRow
      <3>3. j \in Job
        BY <2>1 DEF Job, Step
      <3>4. WellFormed(j, outbox')
        BY <1>11, <2>1, <3>2, Positions
        DEF MarkAttempt, Job, WellFormed, Located, Informed, Prepared, Written
      <3>5. Become(w, j)
        BY <1>11, <2>2 DEF MarkAttempt
      <3>6. job' \in [Workers -> Job] /\ JobOK'
        <4> HIDE DEF j
        <4> QED BY <3>2, <3>3, <3>4, <3>5, JobStep
      <3> QED
        BY <1>11, <3>2, <3>6 DEF MarkAttempt, TypeInv, TypeOK
    <2>3. CASE ~Owns(w)
      BY <1>11, <2>3, EndJob DEF MarkAttempt, Status
    <2> QED
      BY <2>2, <2>3
  <1>12. ASSUME NEW w \in Workers, Send(w) PROVE TypeInv'
    <2> DEFINE h == [row |-> job[w].row, to |-> job[w].to,
                     via |-> job[w].via, mid |-> job[w].mid]
    <2>1. PICK reply \in {"accepted", "transient", "permanent"} :
            /\ Become(w, [job[w] EXCEPT !.step = "record", !.outcome = reply])
            /\ acked' = IF reply = "accepted" THEN acked \union {job[w].row} ELSE acked
      BY <1>12 DEF Send
    <2> DEFINE j == [job[w] EXCEPT !.step = "record", !.outcome = reply]
    <2>2. h \in Transmission /\ job[w] \in Job /\ job[w].row \in Rows
      BY <1>12, Positions DEF Send, WellFormed, Written, Prepared, Transmission
    <2>3. handed' \in SUBSET Transmission /\ acked' \in SUBSET Rows
      <3>1. handed' = handed \union {h}
        BY <1>12 DEF Send
      <3> HIDE DEF h
      <3> QED BY <2>1, <2>2, <3>1 DEF TypeInv, TypeOK
    <2>4. j \in Job
      BY <2>2 DEF Job, Step
    <2>5. UNCHANGED <<outbox, threads, batch, clock, desk, reclaims>>
      BY <1>12 DEF Send
    <2>6. WellFormed(j, outbox')
      BY <1>12, <2>2, <2>5, Positions
      DEF Send, Job, WellFormed, Located, Informed, Prepared, Written
    <2>7. job' \in [Workers -> Job] /\ JobOK'
      <3> HIDE DEF j
      <3> QED BY <2>1, <2>4, <2>5, <2>6, JobStep DEF TypeInv, TypeOK, j
    <2> QED
      BY <2>3, <2>5, <2>7 DEF TypeInv, TypeOK
  <1>13. ASSUME NEW w \in Workers, Record(w) PROVE TypeInv'
    BY <1>13, EndJob DEF Record, StatusAfter, Status, Terminal
  <1>14. ASSUME NEW w \in Workers, Crash(w) PROVE TypeInv'
    <2>1. job' \in [Workers -> Job] /\ JobOK'
      BY <1>14, IdleJob, IdleWellFormed, JobStep DEF Crash, TypeInv, TypeOK
    <2> QED
      BY <1>14, <2>1 DEF Crash, TypeInv, TypeOK
  <1>15. CASE Tick
    <2>1. clock' \in Time
      BY <1>15, ConstantsAssumption DEF Tick, Time, TypeInv, TypeOK
    <2> QED
      BY <1>15, <2>1, JobsStay DEF Tick, TypeInv, TypeOK
  <1>16. CASE Desktop
    <2>1. desk' \in Desk
      <3>1. desk \in Desk
        BY DEF TypeInv, TypeOK
      <3>2. ASSUME Change PROVE desk.changes + 1 \in 0..MaxChanges
        BY <3>1, <3>2, ConstantsAssumption DEF Change, Desk
      <3>3. ASSUME NEW c \in Cases, ChangePrimary(c) PROVE desk' \in Desk
        <4>1. PICK p \in Recipients \union {None} :
                desk' = [desk EXCEPT !.changes = @ + 1, !.primary[c] = p]
          BY <3>3 DEF ChangePrimary
        <4>2. [desk.primary EXCEPT ![c] = p] \in [Cases -> Recipients \union {None}]
          BY <3>1 DEF Desk
        <4> QED
          BY <3>1, <3>2, <3>3, <4>1, <4>2 DEF ChangePrimary, Desk
      <3>4. ASSUME NEW c \in Cases, ToggleOpen(c) PROVE desk' \in Desk
        BY <3>1, <3>2, <3>4 DEF ToggleOpen, Desk
      <3>5. ASSUME NEW c \in Cases, ToggleHold(c) PROVE desk' \in Desk
        <4>1. PICK a \in Audience :
                desk' = [desk EXCEPT !.changes = @ + 1,
                           !.holds[c] = IF a \in @ THEN @ \ {a} ELSE @ \union {a}]
          BY <3>5 DEF ToggleHold
        <4> DEFINE holds == [desk.holds EXCEPT
                               ![c] = IF a \in @ THEN @ \ {a} ELSE @ \union {a}]
        <4>2. holds \in [Cases -> SUBSET Audience]
          BY <3>1 DEF Desk
        <4>3. desk' = [desk EXCEPT !.changes = @ + 1, !.holds = holds]
          BY <4>1
        <4> HIDE DEF holds
        <4> QED
          BY <3>1, <3>2, <3>5, <4>2, <4>3 DEF ToggleHold, Desk
      <3>6. ASSUME NEW c \in Cases, Reroute(c) PROVE desk' \in Desk
        <4>1. PICK m \in Mailboxes :
                desk' = [desk EXCEPT !.changes = @ + 1, !.route[c] = m]
          BY <3>6 DEF Reroute
        <4>2. [desk.route EXCEPT ![c] = m] \in [Cases -> Mailboxes]
          BY <3>1 DEF Desk
        <4> QED
          BY <3>1, <3>2, <3>6, <4>1, <4>2 DEF Reroute, Desk
      <3>7. ASSUME NEW m \in Mailboxes, ToggleMailbox(m) PROVE desk' \in Desk
        <4> DEFINE usable == IF m \in desk.usable THEN desk.usable \ {m}
                             ELSE desk.usable \union {m}
        <4>1. usable \in SUBSET Mailboxes
          BY <3>1 DEF Desk
        <4>2. desk' = [desk EXCEPT !.changes = @ + 1, !.usable = usable]
          BY <3>7 DEF ToggleMailbox
        <4> HIDE DEF usable
        <4> QED
          BY <3>1, <3>2, <3>7, <4>1, <4>2 DEF ToggleMailbox, Desk
      <3> QED
        BY <1>16, <3>3, <3>4, <3>5, <3>6, <3>7 DEF Desktop
    <2>2. UNCHANGED <<outbox, threads, job, batch, clock, handed, acked, reclaims>>
      BY <1>16 DEF Desktop, Change, ChangePrimary, ToggleOpen, ToggleHold, Reroute,
                   ToggleMailbox
    <2> QED
      BY <2>1, <2>2, JobsStay DEF TypeInv, TypeOK
  <1>17. CASE UNCHANGED vars
    BY <1>17, JobsStay DEF vars, TypeInv, TypeOK
  <1> QED
    BY <1>1, <1>2, <1>3, <1>4, <1>5, <1>6, <1>7, <1>8, <1>9, <1>10, <1>11, <1>12,
       <1>13, <1>14, <1>15, <1>16, <1>17 DEF Next, Work

\* The columns of the outbox, the jobs and the history keep their types, for
\* any number of rows, workers and mailboxes and with or without prompt claims.
THEOREM TypeCorrect == Spec => []TypeOK
  <1>1. Spec => []TypeInv
    BY TypeInit, TypeNext, PTL DEF Spec
  <1> QED
    BY <1>1, PTL DEF TypeInv

-----------------------------------------------------------------------------
(* What the steps of a worker past its claim do                            *)

LEMMA Others ==
  ASSUME TypeInv, NEW w \in Workers, NEW j, Become(w, j)
  PROVE  job'[w] = j /\ \A v \in Workers : v # w => job'[v] = job[v]
  BY DEF Become, TypeInv, TypeOK

(* w stays on its row, with its token; the other workers stay where they   *)
(* are, and so do the other rows and every status and time stamp.          *)
Proceeds(w) ==
    /\ \A v \in Workers : v # w => job'[v] = job[v]
    /\ job'[w].row = job[w].row /\ job'[w].token = job[w].token
    /\ \A q \in Rows : q # job[w].row => outbox'[q] = outbox[q]
    /\ outbox'[job[w].row].status = outbox[job[w].row].status
    /\ outbox'[job[w].row].lastAttemptAt = outbox[job[w].row].lastAttemptAt
    /\ clock' = clock

LEMMA LoadEffect ==
  ASSUME TypeInv, NEW w \in Workers, Load(w)
  PROVE  /\ Proceeds(w) /\ outbox' = outbox /\ job'[w].step = "evaluate"
         /\ job'[w].fresh = job[w].fresh /\ job'[w].to = job[w].to /\ job'[w].mid = job[w].mid
         /\ job'[w].snap.attempts = outbox[job[w].row].attempts
         /\ job'[w].snap.recipient = outbox[job[w].row].recipient
         /\ job'[w].snap.linked = (outbox[job[w].row].message # None)
  <1> DEFINE r == job[w].row
             c == CaseOf[r]
             snap == [attempts |-> outbox[r].attempts, recipient |-> outbox[r].recipient,
                      linked |-> outbox[r].message # None,
                      open |-> desk.open[c], holds |-> desk.holds[c]]
             j == [job[w] EXCEPT !.step = "evaluate", !.snap = snap]
  <1>1. Become(w, j) /\ UNCHANGED <<outbox, clock>>
    BY DEF Load, dbVars
  <1>2. /\ j.step = "evaluate" /\ j.snap = snap /\ j.row = r /\ j.token = job[w].token
        /\ j.fresh = job[w].fresh /\ j.to = job[w].to /\ j.mid = job[w].mid
    <2> HIDE DEF snap
    <2> QED BY Positions DEF Job
  <1>3. job'[w] = j /\ \A v \in Workers : v # w => job'[v] = job[v]
    <2> HIDE DEF j
    <2> QED BY <1>1, Others
  <1>4. /\ snap.attempts = outbox[r].attempts /\ snap.recipient = outbox[r].recipient
        /\ snap.linked = (outbox[r].message # None)
    OBVIOUS
  <1> HIDE DEF j, snap
  <1> QED
    BY <1>1, <1>2, <1>3, <1>4 DEF Proceeds

LEMMA EvaluateEffect ==
  ASSUME TypeInv, NEW w \in Workers, Evaluate(w)
  PROVE  /\ Proceeds(w) /\ outbox' = outbox
         /\ job'[w].step \in {"defer", "cancel", "rebind", "materialize", "mark"}
         /\ job'[w].fresh = job[w].fresh /\ job'[w].mid = job[w].mid
         /\ job'[w].step \in {"rebind", "materialize", "mark"} => job'[w].snap = job[w].snap
         /\ job'[w].step = "materialize" => job'[w].to = job[w].snap.recipient /\ ~job[w].fresh
         /\ job'[w].step = "mark" => job'[w].to = job[w].to /\ job[w].fresh
  <1> DEFINE verdict == Verdict(w)
             c == CaseOf[job[w].row]
             to == IF verdict = "rebind" THEN desk.primary[c]
                   ELSE IF job[w].fresh THEN job[w].to ELSE job[w].snap.recipient
             step == IF verdict = "rebind" THEN "rebind"
                     ELSE IF job[w].fresh THEN "mark" ELSE "materialize"
             via == IF job[w].fresh THEN job[w].via ELSE MailboxFor(c)
             stop == [job[w] EXCEPT !.step = verdict, !.snap = None]
             go == [job[w] EXCEPT !.step = step, !.to = to, !.via = via]
  <1>1. UNCHANGED <<outbox, clock>>
    BY DEF Evaluate, dbVars
  <1>2. CASE verdict \in {"defer", "cancel"}
    <2>1. Become(w, stop)
      BY <1>2 DEF Evaluate
    <2> HIDE DEF verdict
    <2>2. /\ stop.step = verdict /\ stop.row = job[w].row /\ stop.token = job[w].token
          /\ stop.fresh = job[w].fresh /\ stop.mid = job[w].mid
      BY Positions DEF Job
    <2> HIDE DEF stop
    <2>3. job'[w] = stop /\ \A v \in Workers : v # w => job'[v] = job[v]
      BY <2>1, Others
    <2> QED
      BY <1>1, <1>2, <2>2, <2>3 DEF Proceeds
  <1>3. CASE verdict \notin {"defer", "cancel"}
    <2>1. Become(w, go)
      BY <1>3 DEF Evaluate
    <2>2. /\ step \in {"rebind", "materialize", "mark"}
          /\ step = "materialize" => to = job[w].snap.recipient /\ ~job[w].fresh
          /\ step = "mark" => to = job[w].to /\ job[w].fresh
      <3> HIDE DEF verdict
      <3> QED OBVIOUS
    <2> HIDE DEF verdict, step, to, via
    <2>3. /\ go.step = step /\ go.to = to /\ go.row = job[w].row /\ go.token = job[w].token
          /\ go.fresh = job[w].fresh /\ go.mid = job[w].mid /\ go.snap = job[w].snap
      BY Positions DEF Job
    <2> HIDE DEF go
    <2>4. job'[w] = go /\ \A v \in Workers : v # w => job'[v] = job[v]
      BY <2>1, Others
    <2> QED
      BY <1>1, <2>2, <2>3, <2>4 DEF Proceeds
  <1> QED
    BY <1>2, <1>3

LEMMA RebindEffect ==
  ASSUME TypeInv, NEW w \in Workers, Rebind(w), Owns(w), outbox[job[w].row].attempts = 0
  PROVE  /\ Proceeds(w)
         /\ job'[w].step = IF job[w].fresh THEN "mark" ELSE "materialize"
         /\ job'[w].fresh = job[w].fresh /\ job'[w].to = job[w].to
         /\ job'[w].mid = job[w].mid /\ job'[w].snap = job[w].snap
         /\ LET row == outbox[job[w].row]
                new == outbox'[job[w].row]
            IN  /\ new.attempts = row.attempts /\ new.recipient = job[w].to
                /\ new.message = IF job[w].snap.linked
                                 THEN [row.message EXCEPT !.to = job[w].to] ELSE row.message
  <1> DEFINE r == job[w].row
             step == IF job[w].fresh THEN "mark" ELSE "materialize"
             message == IF job[w].snap.linked
                        THEN [outbox[r].message EXCEPT !.to = job[w].to] ELSE outbox[r].message
             j == [job[w] EXCEPT !.step = step]
  <1>1. /\ Become(w, j) /\ UNCHANGED clock
        /\ outbox' = [outbox EXCEPT ![r].recipient = job[w].to, ![r].message = message]
    BY DEF Rebind, ReboundMessage
  <1>2. job[w] \in Job /\ r \in Rows /\ outbox[r] \in OutboxRow
    BY Positions DEF Rebind, ReboundMessage
  <1> HIDE DEF message, step
  <1>3. /\ j.step = step /\ j.row = r /\ j.token = job[w].token /\ j.fresh = job[w].fresh
        /\ j.to = job[w].to /\ j.mid = job[w].mid /\ j.snap = job[w].snap
    BY <1>2 DEF Job
  <1> HIDE DEF j
  <1>4. job'[w] = j /\ \A v \in Workers : v # w => job'[v] = job[v]
    BY <1>1, Others
  <1>5. outbox \in [Rows -> OutboxRow]
    BY DEF TypeInv, TypeOK
  <1>6. /\ \A q \in Rows : q # r => outbox'[q] = outbox[q]
        /\ outbox'[r].status = outbox[r].status
        /\ outbox'[r].lastAttemptAt = outbox[r].lastAttemptAt
        /\ outbox'[r].attempts = outbox[r].attempts
        /\ outbox'[r].recipient = job[w].to /\ outbox'[r].message = message
    BY <1>1, <1>2, <1>5 DEF OutboxRow
  <1> QED
    BY <1>1, <1>3, <1>4, <1>6 DEF Proceeds, message, step

(* Materialization without and with a link made before.                    *)
LEMMA MaterializeEffect ==
  ASSUME TypeInv, NEW w \in Workers, Materialize(w), job[w].snap.linked \/ Owns(w)
  PROVE  LET row == outbox[job[w].row]
             new == outbox'[job[w].row]
         IN  /\ Proceeds(w) /\ job'[w].step = "load" /\ job'[w].fresh = TRUE
             /\ job'[w].to = job[w].to
             /\ job'[w].mid = new.message.mid
             /\ new.attempts = row.attempts /\ new.recipient = row.recipient
             /\ job[w].snap.linked => outbox' = outbox
             /\ ~job[w].snap.linked => Owns(w) /\ new.message.to = job[w].to
             /\ new.message # None
  <1> DEFINE r == job[w].row
             reload(id) == [job[w] EXCEPT !.step = "load", !.fresh = TRUE,
                                          !.mid = id, !.snap = None]
             mid == <<w, job[w].token>>
             message == [to |-> job[w].to, via |-> job[w].via, mid |-> mid]
  <1>1. /\ job[w] \in Job /\ r \in Rows /\ outbox[r] \in OutboxRow
        /\ job[w].snap.linked => outbox[r].message # None
        /\ job[w].to \in Recipients /\ job[w].via \in Mailboxes
    BY Positions DEF Materialize, WellFormed, Informed, Prepared
  <1>2. /\ message.to = job[w].to /\ message.mid = mid /\ message \in EmailMessage
        /\ message # None
    <2>1. mid \in MessageId
      BY <1>1 DEF MessageId, Job
    <2> HIDE DEF mid
    <2> QED BY <1>1, <2>1, NoneAssumption DEF EmailMessage
  <1>3. UNCHANGED clock
    BY DEF Materialize
  <1> HIDE DEF mid, message
  <1>4. ASSUME NEW id, Become(w, reload(id))
        PROVE  /\ \A v \in Workers : v # w => job'[v] = job[v]
               /\ job'[w].row = r /\ job'[w].token = job[w].token
               /\ job'[w].step = "load" /\ job'[w].fresh = TRUE /\ job'[w].to = job[w].to
               /\ job'[w].mid = id
    <2> DEFINE j == reload(id)
    <2>1. /\ j.row = r /\ j.token = job[w].token /\ j.step = "load" /\ j.fresh = TRUE
          /\ j.to = job[w].to /\ j.mid = id
      BY <1>1 DEF Job
    <2> HIDE DEF j
    <2>2. job'[w] = j /\ \A v \in Workers : v # w => job'[v] = job[v]
      BY <1>4, Others DEF j
    <2> QED
      BY <2>1, <2>2
  <1> HIDE DEF reload
  <1>5. CASE job[w].snap.linked
    <2>1. Become(w, reload(outbox[r].message.mid)) /\ UNCHANGED outbox
      BY <1>5 DEF Materialize, KeptId, dbVars, reload
    <2> QED
      BY <1>1, <1>3, <1>4, <1>5, <2>1 DEF Proceeds
  <1>6. CASE ~job[w].snap.linked
    <2>1. /\ Become(w, reload(mid)) /\ Owns(w)
          /\ outbox' = [outbox EXCEPT ![r].message = message]
      BY <1>6 DEF Materialize, reload, mid, message
    <2>2. outbox \in [Rows -> OutboxRow]
      BY DEF TypeInv, TypeOK
    <2>3. /\ \A q \in Rows : q # r => outbox'[q] = outbox[q]
          /\ outbox'[r].status = outbox[r].status
          /\ outbox'[r].lastAttemptAt = outbox[r].lastAttemptAt
          /\ outbox'[r].attempts = outbox[r].attempts
          /\ outbox'[r].recipient = outbox[r].recipient /\ outbox'[r].message = message
      BY <1>1, <2>1, <2>2 DEF OutboxRow
    <2>4. job'[w].mid = mid
      BY <1>4, <2>1
    <2> QED
      BY <1>2, <1>3, <1>4, <1>6, <2>1, <2>3, <2>4 DEF Proceeds
  <1> QED
    BY <1>5, <1>6

LEMMA MarkEffect ==
  ASSUME TypeInv, NEW w \in Workers, MarkAttempt(w), Owns(w)
  PROVE  /\ Proceeds(w) /\ job'[w].step = "send"
         /\ job'[w].fresh = job[w].fresh /\ job'[w].to = job[w].to /\ job'[w].mid = job[w].mid
         /\ LET row == outbox[job[w].row]
                new == outbox'[job[w].row]
            IN  /\ new.attempts = row.attempts + 1
                /\ new.recipient = row.recipient /\ new.message = row.message
  <1> DEFINE r == job[w].row
             j == [job[w] EXCEPT !.step = "send", !.snap = None]
  <1>1. /\ Become(w, j) /\ UNCHANGED clock
        /\ outbox' = [outbox EXCEPT ![r].attempts = @ + 1]
    BY DEF MarkAttempt
  <1>2. job[w] \in Job /\ r \in Rows /\ outbox[r] \in OutboxRow
    BY Positions DEF MarkAttempt
  <1>3. /\ j.step = "send" /\ j.row = r /\ j.token = job[w].token
        /\ j.fresh = job[w].fresh /\ j.to = job[w].to /\ j.mid = job[w].mid
    BY <1>2 DEF Job
  <1> HIDE DEF j
  <1>4. job'[w] = j /\ \A v \in Workers : v # w => job'[v] = job[v]
    BY <1>1, Others
  <1>5. outbox \in [Rows -> OutboxRow]
    BY DEF TypeInv, TypeOK
  <1>6. /\ \A q \in Rows : q # r => outbox'[q] = outbox[q]
        /\ outbox'[r].status = outbox[r].status
        /\ outbox'[r].lastAttemptAt = outbox[r].lastAttemptAt
        /\ outbox'[r].attempts = outbox[r].attempts + 1
        /\ outbox'[r].recipient = outbox[r].recipient
        /\ outbox'[r].message = outbox[r].message
    BY <1>1, <1>2, <1>5 DEF OutboxRow
  <1> QED
    BY <1>1, <1>3, <1>4, <1>6 DEF Proceeds

LEMMA SendEffect ==
  ASSUME TypeInv, NEW w \in Workers, Send(w)
  PROVE  /\ Proceeds(w) /\ outbox' = outbox /\ job'[w].step = "record"
         /\ job'[w].fresh = job[w].fresh /\ job'[w].to = job[w].to /\ job'[w].mid = job[w].mid
         /\ handed' = handed \union {[row |-> job[w].row, to |-> job[w].to,
                                      via |-> job[w].via, mid |-> job[w].mid]}
  <1>1. PICK reply \in {"accepted", "transient", "permanent"} :
          Become(w, [job[w] EXCEPT !.step = "record", !.outcome = reply])
    BY DEF Send
  <1> DEFINE j == [job[w] EXCEPT !.step = "record", !.outcome = reply]
  <1>2. /\ j.step = "record" /\ j.row = job[w].row /\ j.token = job[w].token
        /\ j.fresh = job[w].fresh /\ j.to = job[w].to /\ j.mid = job[w].mid
    BY Positions DEF Job
  <1>3. Become(w, j)
    BY <1>1
  <1> HIDE DEF j
  <1>4. job'[w] = j /\ \A v \in Workers : v # w => job'[v] = job[v]
    BY <1>3, Others
  <1> QED
    BY <1>2, <1>4 DEF Send, Proceeds, dbVars

(* w drops its row, with or without a verdict written to it: requeued only *)
(* when deferred or after a failed attempt that was not the last.          *)
Ends(w) ==
    /\ \A v \in Workers : v # w => job'[v] = job[v]
    /\ job[w].step # "idle" /\ job'[w] = Idle
    /\ UNCHANGED <<handed, acked, reclaims>>
    /\ \/ outbox' = outbox
       \/ /\ Owns(w)
          /\ \E s \in Status \ {"PROCESSING"} :
               /\ outbox' = [outbox EXCEPT ![job[w].row].status = s]
               /\ \/ job[w].step = "defer" /\ s = "QUEUED"
                  \/ job[w].step = "cancel" /\ s = "CANCELLED"
                  \/ job[w].step = "record" /\ s = "DELIVERED" /\ job[w].outcome = "accepted"
                  \/ job[w].step = "record" /\ s = "FAILED"
                  \/ /\ job[w].step = "record" /\ s = "QUEUED"
                     /\ outbox[job[w].row].attempts < MaxSendAttempts

(* No row, job or history changes.                                         *)
Frozen == UNCHANGED <<outbox, job, handed, acked, reclaims>>

(* Every step, by what it does to one worker.                              *)
LEMMA Steps ==
  ASSUME TypeInv, [Next]_vars
  PROVE  \/ Frozen
         \/ \E w \in Workers :
              \/ Begin(w) \/ ReadBack(w) \/ Load(w) \/ Evaluate(w) \/ Send(w) \/ Ends(w)
              \/ Claim(w) /\ Claimable(job[w].row, job[w].now)
              \/ Rebind(w) /\ Owns(w) /\ outbox[job[w].row].attempts = 0
              \/ Materialize(w) /\ (job[w].snap.linked \/ Owns(w))
              \/ MarkAttempt(w) /\ Owns(w)
  <1> USE DEF dbVars, history
  <1>1. ASSUME NEW w \in Workers, Become(w, Idle)
        PROVE  job'[w] = Idle /\ \A v \in Workers : v # w => job'[v] = job[v]
    BY <1>1, Others
  <1>2. ASSUME NEW w \in Workers, StartBatch(w) PROVE Frozen
    BY <1>2 DEF StartBatch, Frozen
  <1>3. ASSUME NEW w \in Workers, Claim(w), ~Claimable(job[w].row, job[w].now) PROVE Ends(w)
    BY <1>1, <1>3 DEF Claim, Ends
  <1>4. ASSUME NEW w \in Workers, Defer(w) PROVE Ends(w)
    BY <1>1, <1>4 DEF Defer, Ends, Status
  <1>5. ASSUME NEW w \in Workers, Cancel(w) PROVE Ends(w)
    BY <1>1, <1>5 DEF Cancel, Ends, Status, Terminal
  <1>6. ASSUME NEW w \in Workers, Rebind(w), ~(Owns(w) /\ outbox[job[w].row].attempts = 0)
        PROVE  Ends(w)
    BY <1>1, <1>6 DEF Rebind, Ends
  <1>7. ASSUME NEW w \in Workers, Materialize(w), ~(job[w].snap.linked \/ Owns(w))
        PROVE  Ends(w)
    BY <1>1, <1>7 DEF Materialize, Ends
  <1>8. ASSUME NEW w \in Workers, MarkAttempt(w), ~Owns(w) PROVE Ends(w)
    BY <1>1, <1>8 DEF MarkAttempt, Ends
  <1>9. ASSUME NEW w \in Workers, Record(w) PROVE Ends(w)
    <2>1. outbox[job[w].row].attempts \in Int /\ MaxSendAttempts \in Int
      BY <1>9, Positions, ConstantsAssumption DEF Record, OutboxRow
    <2>2. CASE ~Owns(w)
      BY <1>1, <1>9, <2>2 DEF Record, Ends
    <2>3. CASE Owns(w)
      <3> DEFINE s == IF job[w].outcome = "accepted" THEN "DELIVERED"
                      ELSE IF \/ job[w].outcome = "permanent"
                              \/ outbox[job[w].row].attempts >= MaxSendAttempts
                           THEN "FAILED" ELSE "QUEUED"
      <3>1. outbox' = [outbox EXCEPT ![job[w].row].status = s] /\ Become(w, Idle)
        BY <1>9, <2>3 DEF Record, StatusAfter, Exhausted
      <3>2. /\ s \in Status \ {"PROCESSING"}
            /\ \/ s = "DELIVERED" /\ job[w].outcome = "accepted"
               \/ s = "FAILED"
               \/ s = "QUEUED" /\ outbox[job[w].row].attempts < MaxSendAttempts
        BY <2>1 DEF Status, Terminal
      <3>3. job[w].step = "record" /\ UNCHANGED <<handed, acked, reclaims>>
        BY <1>9 DEF Record, StatusAfter, Exhausted
      <3> HIDE DEF s
      <3> QED
        BY <1>1, <2>3, <3>1, <3>2, <3>3 DEF Ends
    <2> QED
      BY <2>2, <2>3
  <1>10. ASSUME NEW w \in Workers, Crash(w) PROVE Ends(w)
    BY <1>1, <1>10 DEF Crash, Ends
  <1>11. CASE Tick
    BY <1>11 DEF Tick, Frozen
  <1>12. CASE Desktop
    BY <1>12 DEF Desktop, Change, ChangePrimary, ToggleOpen, ToggleHold, Reroute,
                 ToggleMailbox, Frozen
  <1>13. CASE UNCHANGED vars
    BY <1>13 DEF vars, Frozen
  <1> QED
    BY <1>2, <1>3, <1>4, <1>5, <1>6, <1>7, <1>8, <1>9, <1>10, <1>11, <1>12, <1>13
    DEF Next, Work

LEMMA BeginEffect ==
  ASSUME TypeInv, NEW w \in Workers, Begin(w)
  PROVE  /\ \A v \in Workers : v # w => job'[v] = job[v]
         /\ job'[w].step = "claim" /\ UNCHANGED <<outbox, handed, acked, reclaims>>
  <1>1. PICK r : Become(w, [job[w] EXCEPT !.step = "claim", !.row = r, !.now = clock])
    BY DEF Begin
  <1> DEFINE j == [job[w] EXCEPT !.step = "claim", !.row = r, !.now = clock]
  <1>2. j.step = "claim" /\ Become(w, j)
    BY <1>1, Positions DEF Job
  <1> HIDE DEF j
  <1> QED
    BY <1>2, Others DEF Begin, dbVars, history

(* The claim leaves what is sent, and to whom, alone.                      *)
LEMMA ClaimEffect ==
  ASSUME TypeInv, NEW w \in Workers, Claim(w), Claimable(job[w].row, job[w].now)
  PROVE  LET row == outbox[job[w].row]
             new == outbox'[job[w].row]
         IN  /\ \A v \in Workers : v # w => job'[v] = job[v]
             /\ job'[w].step = "readBack" /\ job'[w].row = job[w].row
             /\ job'[w].now = job[w].now
             /\ \A q \in Rows : q # job[w].row => outbox'[q] = outbox[q]
             /\ new.status = "PROCESSING" /\ new.lastAttemptAt = job[w].now
             /\ new.attempts = row.attempts /\ new.recipient = row.recipient
             /\ new.message = row.message
             /\ reclaims' = IF Stale(job[w].row, job[w].now)
                            THEN [reclaims EXCEPT ![job[w].row] = @ + 1] ELSE reclaims
             /\ UNCHANGED <<handed, acked, clock>>
  <1> DEFINE r == job[w].row
             j == [job[w] EXCEPT !.step = "readBack"]
  <1>1. /\ Become(w, j)
        /\ outbox' = [outbox EXCEPT ![r].status = "PROCESSING", ![r].lastAttemptAt = job[w].now]
    BY DEF Claim
  <1>2. job[w] \in Job /\ r \in Rows /\ outbox[r] \in OutboxRow
    BY Positions DEF Claim
  <1>3. j.step = "readBack" /\ j.row = r /\ j.now = job[w].now
    BY <1>2 DEF Job
  <1> HIDE DEF j
  <1>4. job'[w] = j /\ \A v \in Workers : v # w => job'[v] = job[v]
    BY <1>1, Others
  <1>5. outbox \in [Rows -> OutboxRow]
    BY DEF TypeInv, TypeOK
  <1>6. /\ \A q \in Rows : q # r => outbox'[q] = outbox[q]
        /\ outbox'[r].status = "PROCESSING" /\ outbox'[r].lastAttemptAt = job[w].now
        /\ outbox'[r].attempts = outbox[r].attempts
        /\ outbox'[r].recipient = outbox[r].recipient
        /\ outbox'[r].message = outbox[r].message
    BY <1>1, <1>2, <1>5 DEF OutboxRow
  <1> QED
    BY <1>3, <1>4, <1>6 DEF Claim

LEMMA ReadBackEffect ==
  ASSUME TypeInv, NEW w \in Workers, ReadBack(w)
  PROVE  /\ \A v \in Workers : v # w => job'[v] = job[v]
         /\ job'[w].step = "load" /\ job'[w].row = job[w].row /\ job'[w].fresh = job[w].fresh
         /\ job'[w].token = outbox[job[w].row].lastAttemptAt
         /\ UNCHANGED <<outbox, handed, acked, reclaims>>
  <1> DEFINE j == [job[w] EXCEPT !.step = "load", !.now = 0,
                                 !.token = outbox[job[w].row].lastAttemptAt]
  <1>1. Become(w, j)
    BY DEF ReadBack
  <1>2. /\ j.step = "load" /\ j.row = job[w].row /\ j.fresh = job[w].fresh
        /\ j.token = outbox[job[w].row].lastAttemptAt
    BY Positions DEF Job
  <1> HIDE DEF j
  <1> QED
    BY <1>1, <1>2, Others DEF ReadBack, dbVars, history

LEMMA EndsEffect ==
  ASSUME TypeInv, NEW w \in Workers, Ends(w)
  PROVE  \A q \in Rows :
           /\ outbox'[q].attempts = outbox[q].attempts
           /\ outbox'[q].recipient = outbox[q].recipient
           /\ outbox'[q].message = outbox[q].message
           /\ outbox'[q].lastAttemptAt = outbox[q].lastAttemptAt
           /\ \/ outbox'[q] = outbox[q]
              \/ q = job[w].row /\ Owns(w) /\ outbox'[q].status # "PROCESSING"
  <1> SUFFICES ASSUME NEW s \in Status, s # "PROCESSING", Owns(w),
                      outbox' = [outbox EXCEPT ![job[w].row].status = s]
               PROVE  \A q \in Rows :
                        /\ outbox'[q].attempts = outbox[q].attempts
                        /\ outbox'[q].recipient = outbox[q].recipient
                        /\ outbox'[q].message = outbox[q].message
                        /\ outbox'[q].lastAttemptAt = outbox[q].lastAttemptAt
                        /\ \/ outbox'[q] = outbox[q]
                           \/ q = job[w].row /\ outbox'[q].status # "PROCESSING"
    BY DEF Ends
  <1>1. outbox \in [Rows -> OutboxRow]
    BY DEF TypeInv, TypeOK
  <1> QED
    BY <1>1 DEF OutboxRow

(* What each of the other steps leaves of the history.                     *)
LEMMA HistoryKept ==
  ASSUME NEW w \in Workers,
         Load(w) \/ Evaluate(w) \/ Rebind(w) \/ Materialize(w) \/ MarkAttempt(w)
  PROVE  UNCHANGED <<handed, acked, reclaims>>
  BY DEF Load, Evaluate, Rebind, Materialize, MarkAttempt, history

-----------------------------------------------------------------------------
(* Final rows                                                              *)

LEMMA FinalStep ==
  ASSUME TypeInv, [Next]_vars, NEW r \in Rows, outbox[r].status \in Terminal
  PROVE  outbox'[r] = outbox[r]
  <1>1. outbox[r].status \notin {"QUEUED", "PROCESSING"}
    BY DEF Terminal
  <1>2. CASE Frozen
    BY <1>2 DEF Frozen
  <1>3. ASSUME NEW w \in Workers, Begin(w) \/ ReadBack(w) PROVE outbox'[r] = outbox[r]
    BY <1>3, BeginEffect, ReadBackEffect
  <1>4. ASSUME NEW w \in Workers, Load(w) \/ Evaluate(w) \/ Send(w)
        PROVE  outbox'[r] = outbox[r]
    BY <1>4, LoadEffect, EvaluateEffect, SendEffect
  <1>5. ASSUME NEW w \in Workers, Ends(w) PROVE outbox'[r] = outbox[r]
    BY <1>1, <1>5, EndsEffect DEF Owns
  <1>6. ASSUME NEW w \in Workers, Claim(w), Claimable(job[w].row, job[w].now)
        PROVE  outbox'[r] = outbox[r]
    BY <1>1, <1>6, ClaimEffect DEF Claimable, Stale
  <1>7. ASSUME NEW w \in Workers, Rebind(w), Owns(w), outbox[job[w].row].attempts = 0
        PROVE  outbox'[r] = outbox[r]
    BY <1>1, <1>7, RebindEffect DEF Owns, Proceeds
  <1>8. ASSUME NEW w \in Workers, Materialize(w), job[w].snap.linked \/ Owns(w)
        PROVE  outbox'[r] = outbox[r]
    BY <1>1, <1>8, MaterializeEffect DEF Owns, Proceeds
  <1>9. ASSUME NEW w \in Workers, MarkAttempt(w), Owns(w) PROVE outbox'[r] = outbox[r]
    BY <1>1, <1>9, MarkEffect DEF Owns, Proceeds
  <1> QED
    BY Steps, <1>2, <1>3, <1>4, <1>5, <1>6, <1>7, <1>8, <1>9

\* Whatever the timing of claims, a delivered, failed or cancelled row is
\* never touched again: every write is conditional on PROCESSING and a token.
THEOREM FinalRowsNeverChange == Spec => FinalRowsStay
  <1>1. TypeInv /\ [Next]_vars =>
          [\A r \in Rows : outbox[r].status \in Terminal => outbox'[r] = outbox[r]]_vars
    BY FinalStep
  <1> QED
    BY <1>1, TypeInit, TypeNext, PTL DEF Spec, FinalRowsStay

-----------------------------------------------------------------------------
(* The lease                                                               *)

LEMMA Stamps ==
  ASSUME TypeInv, NEW w \in Workers, job[w].step # "idle"
  PROVE  /\ job[w].now \in Int /\ job[w].token \in Int /\ clock \in Int
         /\ outbox[job[w].row].lastAttemptAt \in Int
  BY Positions, ConstantsAssumption DEF Job, OutboxRow, Time, TypeInv, TypeOK

(* A worker past its claim that keeps its row and token, and touches       *)
(* neither statuses nor stamps, keeps the lease invariant.                 *)
LEMMA LeaseKept ==
  ASSUME TypeInv, LeaseInv, NEW w \in Workers, Holding(w), job[w].step # "readBack",
         Proceeds(w), job'[w].step \notin {"idle", "claim", "readBack"}
  PROVE  LeaseInv'
  <1>1. \A v \in Workers : Holding(v) => job[v].row \in Rows
    BY Positions DEF Holding
  <1>2. \A v \in Workers : Holding(v)' = Holding(v) /\ Token(v)' = Token(v)
                           /\ (Holding(v) => job'[v].row = job[v].row)
    BY DEF Proceeds, Holding, Token
  <1>3. \A r \in Rows : /\ outbox'[r].status = outbox[r].status
                        /\ outbox'[r].lastAttemptAt = outbox[r].lastAttemptAt
    BY DEF Proceeds
  <1>4. \A v \in Workers : Holding(v) => Current(v)' = Current(v)
    BY <1>1, <1>2, <1>3 DEF Current
  <1>5. \A v \in Workers : /\ Claiming(v)' => Claiming(v) /\ job'[v] = job[v]
                           /\ job'[v].step = "readBack" => job[v].step = "readBack"
    BY DEF Claiming, Proceeds
  <1> QED
    BY <1>1, <1>2, <1>3, <1>4, <1>5 DEF LeaseInv, Holding, Proceeds

(* So does one that ends its job, resolving or requeueing its row only if  *)
(* it owns it.                                                             *)
LEMMA LeaseEnded ==
  ASSUME TypeInv, LeaseInv, NEW w \in Workers, job[w].step # "idle", Become(w, Idle),
         NEW s \in Status,
         \/ UNCHANGED outbox
         \/ HoldsLease(w) /\ outbox' = [outbox EXCEPT ![job[w].row].status = s],
         UNCHANGED clock
  PROVE  LeaseInv'
  <1>1. job'[w] = Idle /\ \A v \in Workers : v # w => job'[v] = job[v]
    BY Others
  <1>2. \A v \in Workers : Holding(v) => job[v].row \in Rows
    BY Positions DEF Holding
  <1>3. \A r \in Rows : outbox'[r].lastAttemptAt = outbox[r].lastAttemptAt
    BY Positions DEF TypeInv, TypeOK, OutboxRow
  <1>4. \A v \in Workers : Holding(v)' => v # w
    BY <1>1 DEF Holding, Idle
  <1>5. \A v \in Workers : Holding(v)' =>
          Holding(v) /\ job'[v] = job[v] /\ Token(v)' = Token(v) /\ Current(v)' = Current(v)
    BY <1>1, <1>2, <1>3, <1>4 DEF Holding, Token, Current
  <1>6. \A v \in Workers : Claiming(v)' => Claiming(v) /\ job'[v] = job[v]
    BY <1>1 DEF Claiming, Idle
  <1>7. ASSUME NEW v \in Workers, Holding(v)', Current(v)'
        PROVE  outbox'[job'[v].row].status = "PROCESSING"
    <2>1. v # w /\ Holding(v) /\ job'[v] = job[v] /\ Current(v)
      BY <1>4, <1>5, <1>7
    <2>2. outbox[job[v].row].status = "PROCESSING"
      BY <2>1 DEF LeaseInv
    <2>3. CASE UNCHANGED outbox
      BY <2>1, <2>2, <2>3
    <2>4. CASE HoldsLease(w) /\ outbox' = [outbox EXCEPT ![job[w].row].status = s]
      <3>1. Holding(w) /\ Current(w)
        BY <2>4 DEF HoldsLease, Owns, Holding, Token, Current
      <3>2. job[v].row # job[w].row
        BY <2>1, <3>1 DEF LeaseInv, Current
      <3> QED
        BY <1>2, <2>1, <2>2, <2>4, <3>2 DEF TypeInv, TypeOK
    <2> QED
      BY <2>3, <2>4
  <1>8. \A v \in Workers : job'[v].step = "readBack" => Holding(v)' /\ Current(v)'
    BY <1>1, <1>5 DEF LeaseInv, Holding, Idle
  <1>9. \A v \in Workers : Holding(v)' /\ ~Current(v)' => Token(v)' + Lease < clock'
    BY <1>5 DEF LeaseInv
  <1> QED
    BY <1>5, <1>6, <1>7, <1>8, <1>9 DEF LeaseInv

LEMMA LeaseInit == Init => LeaseInv
  BY DEF Init, LeaseInv, Idle, Claiming, Holding

(* The claim: the token written is newer than any that is still held.      *)
LEMMA LeaseClaimed ==
  ASSUME PromptClaim, TypeInv, LeaseInv, NEW w \in Workers, job[w].step = "claim",
         Claimable(job[w].row, job[w].now), Claim(w)
  PROVE  LeaseInv'
  <1> DEFINE r == job[w].row
             now == job[w].now
             j == [job[w] EXCEPT !.step = "readBack"]
  <1>1. /\ Become(w, j) /\ UNCHANGED clock
        /\ outbox' = [outbox EXCEPT ![r].status = "PROCESSING", ![r].lastAttemptAt = now]
    BY DEF Claim
  <1>2. r \in Rows /\ job[w] \in Job /\ outbox[r] \in OutboxRow
    BY Positions
  <1>3. j.row = r /\ j.now = now /\ j.step = "readBack" /\ j.token = job[w].token
    BY <1>2 DEF Job
  <1>4. job'[w] = j /\ \A v \in Workers : v # w => job'[v] = job[v]
    <2> HIDE DEF j
    <2> QED BY <1>1, Others
  <1> HIDE DEF j
  <1>5. now <= clock /\ clock <= now + Lease
    BY DEF LeaseInv, Claiming
  <1>6. outbox'[r].status = "PROCESSING" /\ outbox'[r].lastAttemptAt = now
    BY <1>1, <1>2 DEF TypeInv, TypeOK, OutboxRow
  <1>7. \A q \in Rows : q # r => outbox'[q] = outbox[q]
    BY <1>1, <1>2 DEF TypeInv, TypeOK
  <1>8. Lease \in Nat
    BY ConstantsAssumption
  <1>9. ASSUME NEW v \in Workers, v # w, Holding(v), job[v].row = r
        PROVE  Token(v) < now /\ Token(v) + Lease < clock
    <2>1. /\ job[v].step # "idle" /\ job[v].now \in Int /\ job[v].token \in Int
          /\ clock \in Int /\ outbox[r].lastAttemptAt \in Int /\ now \in Int
      BY <1>9, Stamps DEF Holding
    <2>2. Token(v) \in Int
      BY <2>1 DEF Token
    <2>3. CASE Current(v)
      <3>1. outbox[r].status = "PROCESSING" /\ Token(v) = outbox[r].lastAttemptAt
        BY <1>9, <2>3 DEF LeaseInv, Current
      <3>2. outbox[r].lastAttemptAt < now - Lease
        BY <3>1 DEF Claimable, Stale
      <3> QED
        BY <1>5, <1>8, <2>1, <2>2, <3>1, <3>2
    <2>4. CASE ~Current(v)
      <3>1. Token(v) + Lease < clock
        BY <1>9, <2>4 DEF LeaseInv
      <3> QED
        BY <1>5, <1>8, <2>1, <2>2, <3>1
    <2> QED
      BY <2>3, <2>4
  <1>10. Holding(w)' /\ Token(w)' = now /\ Current(w)' /\ job'[w].row = r
    BY <1>3, <1>4, <1>6 DEF Holding, Token, Current
  <1>11. \A v \in Workers : v # w =>
           /\ Holding(v)' = Holding(v) /\ Token(v)' = Token(v) /\ job'[v] = job[v]
           /\ (Holding(v) => job[v].row \in Rows)
    BY <1>4, Positions DEF Holding, Token
  <1>12. \A v \in Workers : Claiming(v)' =>
           job'[v].now <= clock' /\ clock' <= job'[v].now + Lease
    BY <1>1, <1>3, <1>4, <1>5 DEF LeaseInv, Claiming
  <1>13. ASSUME NEW v \in Workers, v # w, Holding(v), job[v].row # r
         PROVE  Current(v)' = Current(v) /\ outbox'[job'[v].row] = outbox[job[v].row]
    BY <1>7, <1>11, <1>13 DEF Current
  <1>14. ASSUME NEW v \in Workers, v # w, Holding(v), job[v].row = r
         PROVE  ~Current(v)' /\ Token(v)' + Lease < clock'
    <2>1. Token(v) \in Int /\ now \in Int
      BY <1>14, Stamps DEF Token, Holding
    <2>2. Token(v) < now /\ Token(v) + Lease < clock
      BY <1>9, <1>14
    <2>3. Token(v)' = Token(v) /\ job'[v].row = r
      BY <1>11, <1>14
    <2>4. Token(v) # outbox'[r].lastAttemptAt
      BY <1>6, <2>1, <2>2
    <2>5. ~Current(v)'
      BY <2>3, <2>4 DEF Current
    <2> QED
      BY <1>1, <2>2, <2>3, <2>5
  <1>15. \A v \in Workers : job'[v].step = "readBack" => Current(v)'
    <2> SUFFICES ASSUME NEW v \in Workers, v # w, job'[v].step = "readBack"
                 PROVE  Current(v)'
      BY <1>10
    <2>1. Holding(v) /\ job'[v] = job[v] /\ Current(v) /\ job[v].step = "readBack"
      BY <1>11 DEF Holding, LeaseInv
    <2>2. job[v].row # r
      <3> SUFFICES ASSUME job[v].row = r PROVE FALSE
        OBVIOUS
      <3>1. Token(v) + Lease < clock /\ Token(v) = job[v].now
        BY <1>9, <2>1 DEF Token
      <3>2. clock <= job[v].now + Lease
        BY <2>1 DEF LeaseInv, Claiming
      <3>3. job[v].now \in Int /\ clock \in Int
        BY <2>1, Stamps
      <3> QED
        BY <1>8, <3>1, <3>2, <3>3
    <2> QED
      BY <1>13, <2>1, <2>2
  <1>16. ASSUME NEW v \in Workers, Holding(v)'
         PROVE  IF Current(v)' THEN outbox'[job'[v].row].status = "PROCESSING"
                ELSE Token(v)' + Lease < clock'
    <2>1. CASE v = w
      BY <1>6, <1>10, <2>1
    <2>2. CASE v # w /\ job[v].row = r
      BY <1>11, <1>14, <1>16, <2>2
    <2>3. CASE v # w /\ job[v].row # r
      BY <1>1, <1>11, <1>13, <1>16, <2>3 DEF LeaseInv
    <2> QED
      BY <2>1, <2>2, <2>3
  <1>17. ASSUME NEW u \in Workers, NEW v \in Workers, u # v, Holding(u)', Holding(v)',
                job'[u].row = job'[v].row
         PROVE  Token(u)' # Token(v)'
    <2>1. ASSUME NEW x \in Workers, x # w, Holding(x)', job'[x].row = r
          PROVE  Token(x)' # now
      <3>1. Token(x) < now /\ Token(x) \in Int /\ now \in Int
        BY <1>9, <1>11, <2>1, Stamps DEF Token, Holding
      <3> QED
        BY <1>11, <2>1, <3>1
    <2>2. CASE u = w \/ v = w
      BY <1>10, <1>17, <2>1, <2>2
    <2>3. CASE u # w /\ v # w
      BY <1>11, <1>17, <2>3 DEF LeaseInv
    <2> QED
      BY <2>2, <2>3
  <1> QED
    BY <1>12, <1>15, <1>16, <1>17 DEF LeaseInv

LEMMA LeaseNext ==
  ASSUME PromptClaim, TypeInv, LeaseInv, [Next]_vars
  PROVE  LeaseInv'
  <1> USE DEF dbVars, history
  <1>1. ASSUME UNCHANGED <<outbox, job, clock>> PROVE LeaseInv'
    BY <1>1 DEF LeaseInv, Claiming, Holding, Token, Current
  <1>2. ASSUME NEW w \in Workers, StartBatch(w) PROVE LeaseInv'
    BY <1>1, <1>2 DEF StartBatch
  <1>3. ASSUME NEW w \in Workers, Begin(w) PROVE LeaseInv'
    <2>1. PICK r : Become(w, [job[w] EXCEPT !.step = "claim", !.row = r, !.now = clock])
      BY <1>3 DEF Begin
    <2> DEFINE j == [job[w] EXCEPT !.step = "claim", !.row = r, !.now = clock]
    <2>2. j.step = "claim" /\ j.now = clock
      BY Positions DEF Job
    <2>3. job'[w] = j /\ \A v \in Workers : v # w => job'[v] = job[v]
      <3> HIDE DEF j
      <3> QED BY <2>1, Others DEF j
    <2> HIDE DEF j
    <2>4. UNCHANGED <<outbox, clock>>
      BY <1>3 DEF Begin
    <2>5. clock \in Nat /\ Lease \in Nat
      BY ConstantsAssumption DEF TypeInv, TypeOK, Time
    <2>6. \A v \in Workers : Claiming(v)' =>
            job'[v].now <= clock' /\ clock' <= job'[v].now + Lease
      BY <2>2, <2>3, <2>4, <2>5 DEF LeaseInv, Claiming
    <2>7. \A v \in Workers : Holding(v)' => v # w /\ Holding(v) /\ job'[v] = job[v]
            /\ Token(v)' = Token(v) /\ Current(v)' = Current(v)
      BY <2>2, <2>3, <2>4 DEF Holding, Token, Current
    <2>8. \A v \in Workers : job'[v].step = "readBack" => Holding(v)'
      BY DEF Holding
    <2> QED
      BY <2>4, <2>6, <2>7, <2>8 DEF LeaseInv
  <1>4. ASSUME NEW w \in Workers, Claim(w) PROVE LeaseInv'
    <2>1. CASE Claimable(job[w].row, job[w].now)
      BY <1>4, <2>1, LeaseClaimed DEF Claim
    <2>2. CASE ~Claimable(job[w].row, job[w].now)
      BY <1>4, <2>2, LeaseEnded DEF Claim, Status
    <2> QED
      BY <2>1, <2>2
  <1>5. ASSUME NEW w \in Workers, ReadBack(w) PROVE LeaseInv'
    <2> DEFINE j == [job[w] EXCEPT !.step = "load", !.now = 0,
                                   !.token = outbox[job[w].row].lastAttemptAt]
    <2>1. Become(w, j) /\ UNCHANGED <<outbox, clock>> /\ job[w].step = "readBack"
      BY <1>5 DEF ReadBack
    <2>2. /\ j.step = "load" /\ j.row = job[w].row
          /\ j.token = outbox[job[w].row].lastAttemptAt
      BY Positions DEF Job
    <2>3. job'[w] = j /\ \A v \in Workers : v # w => job'[v] = job[v]
      <3> HIDE DEF j
      <3> QED BY <2>1, Others
    <2> HIDE DEF j
    <2>4. Holding(w) /\ Current(w)
      BY <2>1 DEF LeaseInv, Holding
    <2>5. \A v \in Workers : /\ Holding(v)' = Holding(v) /\ job'[v].row = job[v].row
                             /\ Token(v)' = Token(v) /\ Current(v)' = Current(v)
      BY <2>1, <2>2, <2>3, <2>4 DEF Holding, Token, Current
    <2>6. \A v \in Workers : /\ Claiming(v)' => Claiming(v) /\ job'[v] = job[v]
                             /\ job'[v].step = "readBack" => job[v].step = "readBack"
      BY <2>2, <2>3 DEF Claiming
    <2> QED
      BY <2>1, <2>5, <2>6 DEF LeaseInv
  <1>6. ASSUME NEW w \in Workers, Load(w) PROVE LeaseInv'
    BY <1>6, LoadEffect, LeaseKept DEF Load, Holding
  <1>7. ASSUME NEW w \in Workers, Evaluate(w) PROVE LeaseInv'
    BY <1>7, EvaluateEffect, LeaseKept DEF Evaluate, Holding
  <1>8. ASSUME NEW w \in Workers, Defer(w) PROVE LeaseInv'
    BY <1>8, LeaseEnded DEF Defer, Status, HoldsLease
  <1>9. ASSUME NEW w \in Workers, Cancel(w) PROVE LeaseInv'
    BY <1>9, LeaseEnded DEF Cancel, Status, Terminal, HoldsLease
  <1>10. ASSUME NEW w \in Workers, Rebind(w) PROVE LeaseInv'
    <2>1. CASE Owns(w) /\ outbox[job[w].row].attempts = 0
      BY <1>10, <2>1, RebindEffect, LeaseKept DEF Rebind, Holding
    <2>2. CASE ~(Owns(w) /\ outbox[job[w].row].attempts = 0)
      BY <1>10, <2>2, LeaseEnded DEF Rebind, Status
    <2> QED
      BY <2>1, <2>2
  <1>11. ASSUME NEW w \in Workers, Materialize(w) PROVE LeaseInv'
    <2>1. CASE job[w].snap.linked \/ Owns(w)
      BY <1>11, <2>1, MaterializeEffect, LeaseKept DEF Materialize, Holding
    <2>2. CASE ~(job[w].snap.linked \/ Owns(w))
      BY <1>11, <2>2, LeaseEnded DEF Materialize, Status
    <2> QED
      BY <2>1, <2>2
  <1>12. ASSUME NEW w \in Workers, MarkAttempt(w) PROVE LeaseInv'
    <2>1. CASE Owns(w)
      BY <1>12, <2>1, MarkEffect, LeaseKept DEF MarkAttempt, Holding
    <2>2. CASE ~Owns(w)
      BY <1>12, <2>2, LeaseEnded DEF MarkAttempt, Status
    <2> QED
      BY <2>1, <2>2
  <1>13. ASSUME NEW w \in Workers, Send(w) PROVE LeaseInv'
    BY <1>13, SendEffect, LeaseKept DEF Send, Holding
  <1>14. ASSUME NEW w \in Workers, Record(w) PROVE LeaseInv'
    BY <1>14, LeaseEnded DEF Record, StatusAfter, Status, Terminal, HoldsLease
  <1>15. ASSUME NEW w \in Workers, Crash(w) PROVE LeaseInv'
    BY <1>15, LeaseEnded DEF Crash, Status
  <1>16. CASE Tick
    <2>1. clock \in Nat /\ clock' = clock + 1 /\ Lease \in Nat /\ UNCHANGED <<outbox, job>>
      BY <1>16, ConstantsAssumption DEF Tick, TypeInv, TypeOK, Time
    <2>2. ASSUME NEW w \in Workers, Claiming(w)
          PROVE  job[w].now <= clock' /\ clock' <= job[w].now + Lease
      <3>1. job[w].now \in Int /\ job[w].now <= clock /\ clock < job[w].now + Lease
        BY <1>16, <2>2, Stamps DEF Tick, LeaseInv, Claiming
      <3> QED
        BY <2>1, <3>1
    <2>3. ASSUME NEW w \in Workers, Holding(w), Token(w) + Lease < clock
          PROVE  Token(w) + Lease < clock'
      <3>1. Token(w) \in Int
        BY <2>3, Stamps DEF Token, Holding
      <3> QED
        BY <2>1, <2>3, <3>1
    <2> QED
      BY <2>1, <2>2, <2>3 DEF LeaseInv, Claiming, Holding, Token, Current
  <1>17. CASE Desktop
    BY <1>1, <1>17 DEF Desktop, Change, ChangePrimary, ToggleOpen, ToggleHold, Reroute,
                       ToggleMailbox
  <1>18. CASE UNCHANGED vars
    BY <1>1, <1>18 DEF vars
  <1> QED
    BY <1>2, <1>3, <1>4, <1>5, <1>6, <1>7, <1>8, <1>9, <1>10, <1>11, <1>12, <1>13,
       <1>14, <1>15, <1>16, <1>17, <1>18 DEF Next, Work

LEMMA LeaseGivesSoleOwner == LeaseInv => SoleOwner
  BY DEF LeaseInv, SoleOwner, HoldsLease, Owns, Holding, Token

\* With prompt claims, no two workers can ever both write the same outbox row,
\* however long either stalls after its claim and whoever crashes.
THEOREM LeaseIsExclusive == PromptClaim /\ Spec => []SoleOwner
  <1> SUFFICES ASSUME PromptClaim PROVE Spec => []SoleOwner
    OBVIOUS
  <1>1. TypeInv /\ LeaseInv /\ [Next]_vars => LeaseInv'
    BY LeaseNext
  <1> QED
    BY <1>1, LeaseInit, LeaseGivesSoleOwner, TypeInit, TypeNext, PTL DEF Spec

-----------------------------------------------------------------------------
(* The identity of a message                                               *)

IdentityInv == RecipientsAgree /\ MessageInv /\ WorkInv

LEMMA IdentityInit == Init => IdentityInv
  BY DEF Init, IdentityInv, RecipientsAgree, MessageInv, WorkInv, HoldsLease, Idle

(* A worker that did not move holds a lease after a step only if it held   *)
(* it before, on a row the step left alone.                                *)
LEMMA LeasesStay ==
  ASSUME PromptClaim, TypeInv, LeaseInv, LeaseInv', [Next]_vars, NEW v \in Workers,
         job'[v] = job[v], HoldsLease(v)'
  PROVE  HoldsLease(v) /\ outbox'[job[v].row] = outbox[job[v].row]
  <1> DEFINE r == job[v].row
  <1>1. /\ job[v].step \notin {"idle", "claim", "readBack"} /\ r \in Rows
        /\ outbox'[r].status = "PROCESSING" /\ outbox'[r].lastAttemptAt = job[v].token
    BY Positions DEF HoldsLease, Owns
  <1>2. SUFFICES outbox'[r] = outbox[r]
    BY <1>1 DEF HoldsLease, Owns
  <1>3. ASSUME NEW w \in Workers, HoldsLease(w), job[w].row = r, w # v,
               outbox'[r].status = outbox[r].status,
               outbox'[r].lastAttemptAt = outbox[r].lastAttemptAt
        PROVE  FALSE
    <2>1. HoldsLease(v)
      BY <1>1, <1>3 DEF HoldsLease, Owns
    <2> QED
      BY <1>3, <2>1, LeaseGivesSoleOwner DEF SoleOwner
  <1>4. CASE Frozen
    BY <1>4 DEF Frozen
  <1>5. ASSUME NEW w \in Workers, Begin(w) \/ ReadBack(w) PROVE outbox'[r] = outbox[r]
    BY <1>5, BeginEffect, ReadBackEffect
  <1>6. ASSUME NEW w \in Workers, Load(w) \/ Evaluate(w) \/ Send(w)
        PROVE  outbox'[r] = outbox[r]
    BY <1>6, LoadEffect, EvaluateEffect, SendEffect
  <1>7. ASSUME NEW w \in Workers, Ends(w) PROVE outbox'[r] = outbox[r]
    BY <1>1, <1>7, EndsEffect
  <1>8. ASSUME NEW w \in Workers, Claim(w), Claimable(job[w].row, job[w].now)
        PROVE  outbox'[r] = outbox[r]
    <2>1. job[w].step = "claim"
      BY <1>8 DEF Claim
    <2>2. CASE job[w].row = r
      <3>1. w # v
        BY <1>1, <2>1
      <3>2. /\ Holding(w)' /\ Token(w)' = outbox'[r].lastAttemptAt /\ job'[w].row = r
        BY <1>8, <2>2, ClaimEffect DEF Holding, Token
      <3>3. Holding(v)' /\ Token(v)' = outbox'[r].lastAttemptAt /\ job'[v].row = r
        BY <1>1 DEF Holding, Token
      <3> QED
        BY <3>1, <3>2, <3>3 DEF LeaseInv
    <2>3. CASE job[w].row # r
      BY <1>1, <1>8, <2>3, ClaimEffect
    <2> QED
      BY <2>2, <2>3
  <1>9. ASSUME NEW w \in Workers, Rebind(w), Owns(w), outbox[job[w].row].attempts = 0
        PROVE  outbox'[r] = outbox[r]
    <2>1. Proceeds(w) /\ HoldsLease(w) /\ job'[w] # job[w]
      BY <1>9, RebindEffect DEF Rebind, HoldsLease
    <2> QED
      BY <1>1, <1>3, <2>1 DEF Proceeds
  <1>10. ASSUME NEW w \in Workers, Materialize(w), job[w].snap.linked \/ Owns(w)
         PROVE  outbox'[r] = outbox[r]
    <2>1. Proceeds(w) /\ job'[w] # job[w]
      BY <1>10, MaterializeEffect DEF Materialize
    <2>2. outbox' = outbox \/ HoldsLease(w)
      BY <1>10, MaterializeEffect DEF Materialize, HoldsLease
    <2> QED
      BY <1>1, <1>3, <2>1, <2>2 DEF Proceeds
  <1>11. ASSUME NEW w \in Workers, MarkAttempt(w), Owns(w) PROVE outbox'[r] = outbox[r]
    <2>1. Proceeds(w) /\ HoldsLease(w) /\ job'[w] # job[w]
      BY <1>11, MarkEffect DEF MarkAttempt, HoldsLease
    <2> QED
      BY <1>1, <1>3, <2>1 DEF Proceeds
  <1> QED
    BY Steps, <1>4, <1>5, <1>6, <1>7, <1>8, <1>9, <1>10, <1>11

(* The part of WorkInv about one worker.                                   *)
WorkOf(w) ==
    LET j == job[w]
        row == outbox[j.row]
    IN  /\ j.step \in {"evaluate", "rebind", "materialize"} =>
             j.snap.attempts = row.attempts /\ j.snap.linked = (row.message # None)
        /\ j.step = "evaluate" => j.snap.recipient = row.recipient
        /\ j.step = "materialize" => j.to = row.recipient
        /\ j.fresh => j.mid = row.message.mid
        /\ (j.fresh /\ j.step \in {"load", "evaluate", "mark"}) => j.to = row.recipient

(* A step need only be looked at from the worker that takes it.            *)
LEMMA WorkKept ==
  ASSUME PromptClaim, TypeInv, LeaseInv, LeaseInv', WorkInv, [Next]_vars,
         NEW w \in Workers, \A v \in Workers : v # w => job'[v] = job[v],
         HoldsLease(w)' => WorkOf(w)'
  PROVE  WorkInv'
  <1> SUFFICES ASSUME NEW v \in Workers, v # w, HoldsLease(v)' PROVE WorkOf(v)'
    BY DEF WorkInv, WorkOf
  <1>1. HoldsLease(v) /\ outbox'[job[v].row] = outbox[job[v].row] /\ job'[v] = job[v]
    BY LeasesStay
  <1> QED
    BY <1>1 DEF WorkInv, WorkOf

(* Rows that keep their message and their attempts, and nobody new sends.  *)
LEMMA MessageKept ==
  ASSUME TypeInv, MessageInv, handed' = handed,
         \A r \in Rows : /\ outbox'[r].attempts > 0 => outbox'[r].message # None
                         /\ outbox[r].attempts > 0 =>
                              /\ outbox'[r].attempts > 0
                              /\ outbox'[r].message = outbox[r].message,
         \A v \in Workers : job'[v].step \in {"send", "record"} =>
           \/ job'[v] = job[v]
           \/ LET row == outbox'[job'[v].row]
              IN  row.attempts > 0 /\ job'[v].to = row.message.to
                    /\ job'[v].mid = row.message.mid
  PROVE  MessageInv'
  <1>1. \A h \in handed : h.row \in Rows
    BY DEF TypeInv, TypeOK, Transmission
  <1>2. \A v \in Workers : job[v].step \in {"send", "record"} => job[v].row \in Rows
    BY Positions
  <1>3. \A h \in handed : outbox'[h.row].attempts > 0 /\ h.to = outbox'[h.row].message.to
                          /\ h.mid = outbox'[h.row].message.mid
    BY <1>1 DEF MessageInv
  <1>4. ASSUME NEW v \in Workers, job'[v].step \in {"send", "record"}
        PROVE  /\ outbox'[job'[v].row].attempts > 0
               /\ job'[v].to = outbox'[job'[v].row].message.to
               /\ job'[v].mid = outbox'[job'[v].row].message.mid
    BY <1>2, <1>4 DEF MessageInv
  <1> QED
    BY <1>3, <1>4 DEF MessageInv

LEMMA IdentityNext ==
  ASSUME PromptClaim, TypeInv, LeaseInv, LeaseInv', IdentityInv, [Next]_vars
  PROVE  IdentityInv'
  <1> USE DEF IdentityInv
  <1>1. CASE Frozen
    BY <1>1 DEF Frozen, RecipientsAgree, MessageInv, WorkInv, HoldsLease, Owns
  <1>2. ASSUME NEW w \in Workers, Begin(w) PROVE IdentityInv'
    <2>1. /\ UNCHANGED <<outbox, handed>> /\ job'[w].step = "claim"
          /\ \A v \in Workers : v # w => job'[v] = job[v]
      BY <1>2, BeginEffect
    <2>2. WorkInv'
      BY <2>1, WorkKept DEF HoldsLease
    <2>3. MessageInv'
      BY <2>1, MessageKept DEF MessageInv
    <2> QED
      BY <2>1, <2>2, <2>3 DEF RecipientsAgree
  <1>3. ASSUME NEW w \in Workers, Claim(w), Claimable(job[w].row, job[w].now)
        PROVE  IdentityInv'
    <2>1. /\ handed' = handed /\ job'[w].step = "readBack"
          /\ \A v \in Workers : v # w => job'[v] = job[v]
          /\ \A r \in Rows : /\ outbox'[r].attempts = outbox[r].attempts
                             /\ outbox'[r].recipient = outbox[r].recipient
                             /\ outbox'[r].message = outbox[r].message
      BY <1>3, ClaimEffect
    <2>2. WorkInv'
      BY <2>1, WorkKept DEF HoldsLease
    <2>3. MessageInv'
      BY <2>1, MessageKept DEF MessageInv
    <2> QED
      BY <2>1, <2>2, <2>3 DEF RecipientsAgree
  <1>4. ASSUME NEW w \in Workers, Ends(w) PROVE IdentityInv'
    <2>1. /\ handed' = handed /\ job'[w].step = "idle"
          /\ \A v \in Workers : v # w => job'[v] = job[v]
          /\ \A r \in Rows : /\ outbox'[r].attempts = outbox[r].attempts
                             /\ outbox'[r].recipient = outbox[r].recipient
                             /\ outbox'[r].message = outbox[r].message
      <3>1. \A r \in Rows : /\ outbox'[r].attempts = outbox[r].attempts
                           /\ outbox'[r].recipient = outbox[r].recipient
                           /\ outbox'[r].message = outbox[r].message
        BY <1>4, EndsEffect
      <3> QED
        BY <1>4, <3>1 DEF Ends, Idle
    <2>2. WorkInv'
      BY <2>1, WorkKept DEF HoldsLease
    <2>3. MessageInv'
      BY <2>1, MessageKept DEF MessageInv
    <2> QED
      BY <2>1, <2>2, <2>3 DEF RecipientsAgree
  <1>5. ASSUME NEW w \in Workers, ReadBack(w) PROVE IdentityInv'
    <2>1. /\ UNCHANGED <<outbox, handed>> /\ job'[w].step = "load"
          /\ job'[w].fresh = job[w].fresh
          /\ \A v \in Workers : v # w => job'[v] = job[v]
      BY <1>5, ReadBackEffect
    <2>2. ~job[w].fresh
      BY <1>5, Positions DEF ReadBack, WellFormed, Written
    <2>3. WorkInv'
      BY <2>1, <2>2, WorkKept DEF WorkOf
    <2>4. MessageInv'
      BY <2>1, MessageKept DEF MessageInv
    <2> QED
      BY <2>1, <2>3, <2>4 DEF RecipientsAgree
  <1>6. ASSUME NEW w \in Workers, Load(w) PROVE IdentityInv'
    <2>1. Proceeds(w) /\ UNCHANGED <<outbox, handed>> /\ job'[w].step = "evaluate"
      BY <1>6, LoadEffect, HistoryKept
    <2>2. HoldsLease(w)' => HoldsLease(w)
      BY <1>6, <2>1 DEF Proceeds, HoldsLease, Owns, Load
    <2>3. HoldsLease(w)' => WorkOf(w)'
      <3>1. /\ job'[w].snap.attempts = outbox[job[w].row].attempts
            /\ job'[w].snap.recipient = outbox[job[w].row].recipient
            /\ job'[w].snap.linked = (outbox[job[w].row].message # None)
            /\ job'[w].fresh = job[w].fresh /\ job'[w].to = job[w].to
            /\ job'[w].mid = job[w].mid /\ job'[w].row = job[w].row
        BY <1>6, LoadEffect DEF Proceeds
      <3>2. HoldsLease(w) /\ job[w].fresh => /\ job[w].mid = outbox[job[w].row].message.mid
                                             /\ job[w].to = outbox[job[w].row].recipient
        BY <1>6 DEF Load, WorkInv
      <3> QED
        BY <2>1, <2>2, <3>1, <3>2 DEF WorkOf
    <2>4. WorkInv'
      BY <2>1, <2>3, WorkKept DEF Proceeds
    <2>5. MessageInv'
      BY <2>1, MessageKept DEF MessageInv, Proceeds
    <2> QED
      BY <2>1, <2>4, <2>5 DEF RecipientsAgree
  <1>7. ASSUME NEW w \in Workers, Evaluate(w) PROVE IdentityInv'
    <2>1. /\ Proceeds(w) /\ UNCHANGED <<outbox, handed>>
          /\ job'[w].step \in {"defer", "cancel", "rebind", "materialize", "mark"}
      BY <1>7, EvaluateEffect, HistoryKept
    <2>2. HoldsLease(w)' => HoldsLease(w)
      BY <1>7, <2>1 DEF Proceeds, HoldsLease, Owns, Evaluate
    <2>3. HoldsLease(w)' => WorkOf(w)'
      <3>1. /\ job'[w].step \in {"rebind", "materialize", "mark"} => job'[w].snap = job[w].snap
            /\ job'[w].step = "materialize" =>
                 job'[w].to = job[w].snap.recipient /\ ~job[w].fresh
            /\ job'[w].step = "mark" => job'[w].to = job[w].to
            /\ job'[w].fresh = job[w].fresh
            /\ job'[w].mid = job[w].mid /\ job'[w].row = job[w].row
        BY <1>7, EvaluateEffect DEF Proceeds
      <3>2. HoldsLease(w) =>
              /\ job[w].snap.attempts = outbox[job[w].row].attempts
              /\ job[w].snap.recipient = outbox[job[w].row].recipient
              /\ job[w].snap.linked = (outbox[job[w].row].message # None)
              /\ job[w].fresh => /\ job[w].mid = outbox[job[w].row].message.mid
                                 /\ job[w].to = outbox[job[w].row].recipient
        BY <1>7 DEF Evaluate, WorkInv
      <3> QED
        BY <2>1, <2>2, <3>1, <3>2 DEF WorkOf
    <2>4. WorkInv'
      BY <2>1, <2>3, WorkKept DEF Proceeds
    <2>5. MessageInv'
      BY <2>1, MessageKept DEF MessageInv, Proceeds
    <2> QED
      BY <2>1, <2>4, <2>5 DEF RecipientsAgree
  <1>8. ASSUME NEW w \in Workers, Rebind(w), Owns(w), outbox[job[w].row].attempts = 0
        PROVE  IdentityInv'
    <2> DEFINE r == job[w].row
    <2>1. Proceeds(w) /\ handed' = handed /\ HoldsLease(w) /\ job[w].step = "rebind"
      BY <1>8, RebindEffect, HistoryKept DEF Rebind, HoldsLease
    <2>2. r \in Rows /\ outbox[r].message \in EmailMessage \union {None}
      BY <2>1, Positions DEF OutboxRow
    <2>3. /\ outbox'[r].attempts = 0 /\ outbox'[r].recipient = job[w].to
          /\ outbox'[r].message = IF outbox[r].message # None
                                  THEN [outbox[r].message EXCEPT !.to = job[w].to] ELSE None
          /\ job[w].snap.attempts = 0 /\ job[w].snap.linked = (outbox[r].message # None)
      BY <1>8, <2>1, <2>2, RebindEffect DEF WorkInv
    <2>4. outbox[r].message # None =>
            /\ outbox'[r].message # None
            /\ outbox'[r].message.to = job[w].to
            /\ outbox'[r].message.mid = outbox[r].message.mid
      <3> SUFFICES ASSUME outbox[r].message # None
                   PROVE  /\ outbox'[r].message \in EmailMessage
                          /\ outbox'[r].message.to = job[w].to
                          /\ outbox'[r].message.mid = outbox[r].message.mid
        BY NoneAssumption
      <3>1. job[w].to \in Recipients
        BY <2>1, Positions DEF WellFormed, Prepared
      <3> QED
        BY <2>2, <2>3, <3>1 DEF EmailMessage
    <2>5. RecipientsAgree'
      BY <2>1, <2>3, <2>4 DEF RecipientsAgree, Proceeds
    <2>6. MessageInv'
      <3>1. job'[w].step \in {"mark", "materialize"}
        BY <1>8, RebindEffect
      <3>2. \A q \in Rows : /\ outbox'[q].attempts > 0 => outbox'[q].message # None
                            /\ outbox[q].attempts > 0 =>
                                 /\ outbox'[q].attempts > 0
                                 /\ outbox'[q].message = outbox[q].message
        BY <1>8, <2>1, <2>3 DEF MessageInv, Proceeds
      <3>3. \A v \in Workers : job'[v].step \in {"send", "record"} => job'[v] = job[v]
        BY <2>1, <3>1 DEF Proceeds
      <3> QED
        BY <2>1, <3>2, <3>3, MessageKept
    <2>7. WorkOf(w)'
      <3>1. /\ job'[w].step = IF job[w].fresh THEN "mark" ELSE "materialize"
            /\ job'[w].fresh = job[w].fresh /\ job'[w].to = job[w].to
            /\ job'[w].mid = job[w].mid /\ job'[w].snap = job[w].snap /\ job'[w].row = r
        BY <1>8, RebindEffect DEF Proceeds
      <3>2. job[w].fresh => outbox[r].message # None /\ job[w].mid = outbox[r].message.mid
        BY <2>1, Positions DEF WorkInv, WellFormed, Written
      <3>3. (outbox'[r].message # None) = (outbox[r].message # None)
        BY <2>3, <2>4
      <3> QED
        BY <2>3, <2>4, <3>1, <3>2, <3>3 DEF WorkOf
    <2>8. WorkInv'
      BY <2>1, <2>7, WorkKept DEF Proceeds
    <2> QED
      BY <2>5, <2>6, <2>8
  <1>9. ASSUME NEW w \in Workers, Materialize(w), job[w].snap.linked \/ Owns(w)
        PROVE  IdentityInv'
    <2> DEFINE r == job[w].row
    <2>1. Proceeds(w) /\ handed' = handed /\ job[w].step = "materialize" /\ r \in Rows
          /\ job'[w].step = "load"
      BY <1>9, MaterializeEffect, HistoryKept, Positions DEF Materialize
    <2>2. HoldsLease(w)' => HoldsLease(w)
      BY <2>1 DEF Proceeds, HoldsLease, Owns
    <2>3. CASE job[w].snap.linked
      <3>1. outbox' = outbox
        BY <1>9, <2>3, MaterializeEffect
      <3>2. HoldsLease(w)' => WorkOf(w)'
        <4>1. /\ job'[w].to = job[w].to /\ job'[w].mid = outbox'[r].message.mid
              /\ job'[w].row = r
          BY <1>9, MaterializeEffect DEF Proceeds
        <4>2. HoldsLease(w) => job[w].to = outbox[r].recipient
          BY <2>1 DEF WorkInv
        <4> QED
          BY <2>1, <2>2, <3>1, <4>1, <4>2 DEF WorkOf
      <3>3. WorkInv'
        BY <2>1, <3>2, WorkKept DEF Proceeds
      <3>4. MessageInv'
        BY <2>1, <3>1, MessageKept DEF MessageInv, Proceeds
      <3> QED
        BY <3>1, <3>3, <3>4 DEF RecipientsAgree
    <2>4. CASE ~job[w].snap.linked
      <3>1. Owns(w) /\ HoldsLease(w) /\ outbox'[r].message.to = job[w].to
            /\ outbox'[r].attempts = outbox[r].attempts
            /\ outbox'[r].recipient = outbox[r].recipient /\ outbox'[r].message # None
        BY <1>9, <2>1, <2>4, MaterializeEffect DEF HoldsLease
      <3>2. job[w].to = outbox[r].recipient /\ outbox[r].message = None
        BY <2>1, <2>4, <3>1 DEF WorkInv
      <3>3. ~(outbox[r].attempts > 0)
        BY <2>1, <3>2 DEF MessageInv
      <3>4. RecipientsAgree'
        BY <2>1, <3>1, <3>2 DEF RecipientsAgree, Proceeds
      <3>5. MessageInv'
        BY <2>1, <3>1, <3>3, MessageKept DEF MessageInv, Proceeds
      <3>6. WorkOf(w)'
        <4>1. /\ job'[w].to = job[w].to /\ job'[w].mid = outbox'[r].message.mid
              /\ job'[w].row = r
          BY <1>9, MaterializeEffect DEF Proceeds
        <4> QED
          BY <2>1, <3>1, <3>2, <4>1 DEF WorkOf
      <3>7. WorkInv'
        BY <2>1, <3>6, WorkKept DEF Proceeds
      <3> QED
        BY <3>4, <3>5, <3>7
    <2> QED
      BY <2>3, <2>4
  <1>10. ASSUME NEW w \in Workers, MarkAttempt(w), Owns(w) PROVE IdentityInv'
    <2> DEFINE r == job[w].row
    <2>1. /\ Proceeds(w) /\ handed' = handed /\ HoldsLease(w) /\ r \in Rows
          /\ job[w].step = "mark" /\ job'[w].step = "send" /\ job[w].fresh
          /\ outbox[r].message # None /\ outbox[r].attempts \in Nat
      BY <1>10, MarkEffect, HistoryKept, Positions
      DEF MarkAttempt, HoldsLease, WellFormed, Written, OutboxRow
    <2>2. /\ outbox'[r].attempts = outbox[r].attempts + 1
          /\ outbox'[r].message = outbox[r].message
          /\ outbox'[r].recipient = outbox[r].recipient
          /\ job'[w].to = job[w].to /\ job'[w].mid = job[w].mid /\ job'[w].row = r
          /\ job'[w].fresh = job[w].fresh
      BY <1>10, MarkEffect DEF Proceeds
    <2>3. outbox'[r].attempts > 0
      BY <2>1, <2>2
    <2>4. job[w].to = outbox[r].message.to /\ job[w].mid = outbox[r].message.mid
      BY <2>1 DEF WorkInv, RecipientsAgree
    <2>5. RecipientsAgree'
      BY <2>1, <2>2 DEF RecipientsAgree, Proceeds
    <2>6. MessageInv'
      <3>1. \A q \in Rows : /\ outbox'[q].attempts > 0 => outbox'[q].message # None
                            /\ outbox[q].attempts > 0 =>
                                 /\ outbox'[q].attempts > 0
                                 /\ outbox'[q].message = outbox[q].message
        BY <2>1, <2>2, <2>3 DEF MessageInv, Proceeds
      <3>2. \A v \in Workers : v # w => job'[v] = job[v]
        BY <2>1 DEF Proceeds
      <3>3. \A v \in Workers : job'[v].step \in {"send", "record"} =>
              \/ job'[v] = job[v]
              \/ LET row == outbox'[job'[v].row]
                 IN  row.attempts > 0 /\ job'[v].to = row.message.to
                       /\ job'[v].mid = row.message.mid
        BY <2>2, <2>3, <2>4, <3>2
      <3> QED
        BY <2>1, <3>1, <3>3, MessageKept
    <2>7. WorkInv'
      BY <2>1, <2>2, <2>4, WorkKept DEF WorkOf, Proceeds
    <2> QED
      BY <2>5, <2>6, <2>7
  <1>11. ASSUME NEW w \in Workers, Send(w) PROVE IdentityInv'
    <2> DEFINE h == [row |-> job[w].row, to |-> job[w].to, via |-> job[w].via,
                     mid |-> job[w].mid]
    <2>1. /\ Proceeds(w) /\ outbox' = outbox /\ job[w].step = "send"
          /\ job'[w].step = "record" /\ handed' = handed \union {h}
          /\ job'[w].to = job[w].to /\ job'[w].mid = job[w].mid
          /\ job'[w].fresh = job[w].fresh
      BY <1>11, SendEffect DEF Send
    <2>2. h.row = job[w].row /\ h.to = job[w].to /\ h.mid = job[w].mid
      OBVIOUS
    <2> HIDE DEF h
    <2>3. MessageInv'
      BY <2>1, <2>2 DEF MessageInv, Proceeds
    <2>4. HoldsLease(w)' => WorkOf(w)'
      BY <2>1 DEF WorkInv, WorkOf, HoldsLease, Owns, Proceeds
    <2>5. WorkInv'
      BY <2>1, <2>4, WorkKept DEF Proceeds
    <2> QED
      BY <2>1, <2>3, <2>5 DEF RecipientsAgree
  <1> QED
    BY Steps, <1>1, <1>2, <1>3, <1>4, <1>5, <1>6, <1>7, <1>8, <1>9, <1>10, <1>11

LEMMA IdentityGivesPinned == IdentityInv => IdentityPinned
  BY DEF IdentityInv, MessageInv, IdentityPinned

\* With prompt claims, whatever workers crash or are superseded and however the
\* customer's address changes, every transmission of a row carries the recipient
\* and the Message-ID of the first.
THEOREM OneIdentity == PromptClaim /\ Spec => []IdentityPinned
  <1> SUFFICES ASSUME PromptClaim PROVE Spec => []IdentityPinned
    OBVIOUS
  <1>1. TypeInv /\ LeaseInv /\ [Next]_vars => LeaseInv'
    BY LeaseNext
  <1>2. TypeInv /\ LeaseInv /\ LeaseInv' /\ IdentityInv /\ [Next]_vars => IdentityInv'
    BY IdentityNext
  <1> QED
    BY <1>1, <1>2, LeaseInit, IdentityInit, IdentityGivesPinned, TypeInit, TypeNext,
       PTL DEF Spec

\* The address on the outbox row and the one on its EmailMessage never differ.
THEOREM OneRecipient == PromptClaim /\ Spec => []RecipientsAgree
  <1> SUFFICES ASSUME PromptClaim PROVE Spec => []RecipientsAgree
    OBVIOUS
  <1>1. TypeInv /\ LeaseInv /\ [Next]_vars => LeaseInv'
    BY LeaseNext
  <1>2. TypeInv /\ LeaseInv /\ LeaseInv' /\ IdentityInv /\ [Next]_vars => IdentityInv'
    BY IdentityNext
  <1>3. IdentityInv => RecipientsAgree
    BY DEF IdentityInv
  <1> QED
    BY <1>1, <1>2, <1>3, LeaseInit, IdentityInit, TypeInit, TypeNext, PTL DEF Spec

-----------------------------------------------------------------------------
(* The bound on attempts                                                   *)

LEMMA AttemptsInit == Init => AttemptsInv
  BY ConstantsAssumption
  DEF Init, AttemptsInv, AttemptsBounded, Holding, Current, Idle

(* No step but a claim shrinks the room left, and only marking uses it.    *)
LEMMA AttemptsKept ==
  ASSUME TypeInv, AttemptsInv, NEW w \in Workers,
         \A v \in Workers : v # w => job'[v] = job[v],
         reclaims' = reclaims,
         \A r \in Rows : /\ outbox'[r].attempts = outbox[r].attempts
                         /\ outbox'[r].lastAttemptAt = outbox[r].lastAttemptAt
                         /\ outbox'[r].status = "QUEUED" =>
                              \/ outbox[r].status = "QUEUED"
                              \/ outbox[r].attempts < MaxSendAttempts + reclaims[r],
         Holding(w)' /\ Current(w)' /\ job'[w].step \notin {"send", "record"} =>
            outbox[job'[w].row].attempts < MaxSendAttempts + reclaims[job'[w].row]
              /\ job'[w].row \in Rows
  PROVE  AttemptsInv'
  <1>1. AttemptsBounded'
    BY DEF AttemptsInv, AttemptsBounded
  <1>2. \A r \in Rows : outbox'[r].status = "QUEUED" =>
          outbox'[r].attempts < MaxSendAttempts + reclaims'[r]
    BY DEF AttemptsInv
  <1>3. ASSUME NEW v \in Workers, Holding(v)', Current(v)', job'[v].step \notin {"send", "record"}
        PROVE  outbox'[job'[v].row].attempts < MaxSendAttempts + reclaims'[job'[v].row]
    <2>1. CASE v = w
      BY <1>3, <2>1
    <2>2. CASE v # w
      <3>1. job'[v] = job[v] /\ Holding(v)
        BY <1>3, <2>2 DEF Holding
      <3>2. job[v].row \in Rows
        BY <3>1, Positions DEF Holding
      <3>3. Current(v)
        BY <1>3, <3>1, <3>2 DEF Current, Token
      <3> QED
        BY <1>3, <3>1, <3>2, <3>3 DEF AttemptsInv
    <2> QED
      BY <2>1, <2>2
  <1> QED
    BY <1>1, <1>2, <1>3 DEF AttemptsInv

(* Steps that stay on a row and count nothing.                             *)
LEMMA AttemptsProceed ==
  ASSUME TypeInv, AttemptsInv, NEW w \in Workers, Proceeds(w),
         reclaims' = reclaims, job[w].step \notin {"idle", "claim", "readBack", "send", "record"},
         job'[w].step \notin {"idle", "claim", "readBack"},
         outbox'[job[w].row].attempts = outbox[job[w].row].attempts
  PROVE  AttemptsInv'
  <1>1. Holding(w) /\ job[w].row \in Rows
    BY Positions DEF Holding
  <1>2. \A r \in Rows : /\ outbox'[r].attempts = outbox[r].attempts
                        /\ outbox'[r].lastAttemptAt = outbox[r].lastAttemptAt
                        /\ outbox'[r].status = outbox[r].status
    BY DEF Proceeds
  <1>3. Current(w)' => Current(w)
    BY <1>1, <1>2 DEF Current, Token, Proceeds
  <1> QED
    BY <1>1, <1>2, <1>3, AttemptsKept DEF AttemptsInv, Proceeds

LEMMA AttemptsNext ==
  ASSUME PromptClaim, TypeInv, LeaseInv, LeaseInv', AttemptsInv, [Next]_vars
  PROVE  AttemptsInv'
  <1>1. /\ \A r \in Rows : outbox[r].attempts \in Nat /\ reclaims[r] \in Nat
        /\ MaxSendAttempts \in Nat
    BY ConstantsAssumption DEF TypeInv, TypeOK, OutboxRow
  <1>2. CASE Frozen
    BY <1>2 DEF Frozen, AttemptsInv, AttemptsBounded, Holding, Current, Token
  <1>3. ASSUME NEW w \in Workers, Begin(w) PROVE AttemptsInv'
    BY <1>3, BeginEffect, AttemptsKept DEF Holding
  <1>4. ASSUME NEW w \in Workers, ReadBack(w) PROVE AttemptsInv'
    <2>1. /\ \A v \in Workers : v # w => job'[v] = job[v]
          /\ job'[w].row = job[w].row /\ UNCHANGED <<outbox, reclaims>>
      BY <1>4, ReadBackEffect
    <2>2. /\ Holding(w) /\ Current(w) /\ job[w].row \in Rows /\ job[w].step = "readBack"
      BY <1>4, Positions DEF ReadBack, LeaseInv, Holding
    <2>3. outbox[job[w].row].attempts < MaxSendAttempts + reclaims[job[w].row]
      BY <2>2 DEF AttemptsInv
    <2> QED
      BY <2>1, <2>2, <2>3, AttemptsKept
  <1>5. ASSUME NEW w \in Workers, Load(w) PROVE AttemptsInv'
    BY <1>5, LoadEffect, HistoryKept, AttemptsProceed DEF Load
  <1>6. ASSUME NEW w \in Workers, Evaluate(w) PROVE AttemptsInv'
    BY <1>6, EvaluateEffect, HistoryKept, AttemptsProceed DEF Evaluate
  <1>7. ASSUME NEW w \in Workers, Rebind(w), Owns(w), outbox[job[w].row].attempts = 0
        PROVE  AttemptsInv'
    BY <1>7, RebindEffect, HistoryKept, AttemptsProceed DEF Rebind, ReboundMessage
  <1>8. ASSUME NEW w \in Workers, Materialize(w), job[w].snap.linked \/ Owns(w)
        PROVE  AttemptsInv'
    BY <1>8, MaterializeEffect, HistoryKept, AttemptsProceed DEF Materialize
  <1>9. ASSUME NEW w \in Workers, Send(w) PROVE AttemptsInv'
    <2>1. /\ Proceeds(w) /\ outbox' = outbox /\ job'[w].step = "record"
          /\ reclaims' = reclaims
      BY <1>9, SendEffect DEF Send
    <2> QED
      BY <2>1, AttemptsKept DEF Proceeds
  <1>10. ASSUME NEW w \in Workers, Ends(w) PROVE AttemptsInv'
    <2>1. /\ \A v \in Workers : v # w => job'[v] = job[v]
          /\ job'[w].step = "idle" /\ reclaims' = reclaims
      BY <1>10 DEF Ends, Idle
    <2>2. \A r \in Rows : /\ outbox'[r].attempts = outbox[r].attempts
                          /\ outbox'[r].lastAttemptAt = outbox[r].lastAttemptAt
      BY <1>10, EndsEffect
    <2>3. ASSUME NEW r \in Rows, outbox'[r].status = "QUEUED", outbox[r].status # "QUEUED"
          PROVE  outbox[r].attempts < MaxSendAttempts + reclaims[r]
      <3>1. r = job[w].row /\ Owns(w) /\ outbox' # outbox
        BY <1>10, <2>3, EndsEffect
      <3>2. PICK s \in Status : /\ outbox' = [outbox EXCEPT ![r].status = s]
                                /\ \/ s # "QUEUED"
                                   \/ job[w].step = "defer"
                                   \/ outbox[r].attempts < MaxSendAttempts
        BY <1>10, <3>1 DEF Ends
      <3>3. s = "QUEUED"
        BY <2>3, <3>2 DEF TypeInv, TypeOK, OutboxRow
      <3>4. CASE job[w].step = "defer"
        BY <3>1, <3>4 DEF AttemptsInv, Holding, Current, Token, Owns
      <3>5. CASE outbox[r].attempts < MaxSendAttempts
        BY <1>1, <3>5
      <3> QED
        BY <3>2, <3>3, <3>4, <3>5
    <2> QED
      BY <2>1, <2>2, <2>3, AttemptsKept DEF Holding
  <1>11. ASSUME NEW w \in Workers, MarkAttempt(w), Owns(w) PROVE AttemptsInv'
    <2> DEFINE r == job[w].row
    <2>1. /\ Proceeds(w) /\ reclaims' = reclaims /\ r \in Rows
          /\ job[w].step = "mark" /\ job'[w].step = "send"
          /\ outbox'[r].attempts = outbox[r].attempts + 1
      BY <1>11, MarkEffect, HistoryKept, Positions DEF MarkAttempt
    <2>2. Holding(w) /\ Current(w) /\ outbox[r].status = "PROCESSING"
      BY <1>11, <2>1 DEF Holding, Current, Token, Owns
    <2>3. outbox[r].attempts < MaxSendAttempts + reclaims[r]
      BY <2>1, <2>2 DEF AttemptsInv
    <2>4. outbox'[r].attempts <= MaxSendAttempts + reclaims[r]
      BY <1>1, <2>1, <2>3
    <2>5. AttemptsBounded'
      BY <2>1, <2>4 DEF AttemptsInv, AttemptsBounded, Proceeds
    <2>6. \A q \in Rows : outbox'[q].status = "QUEUED" =>
            outbox'[q].attempts < MaxSendAttempts + reclaims'[q]
      BY <2>1, <2>2 DEF AttemptsInv, Proceeds
    <2>7. ASSUME NEW v \in Workers, Holding(v)', Current(v)',
                 job'[v].step \notin {"send", "record"}
          PROVE  outbox'[job'[v].row].attempts < MaxSendAttempts + reclaims'[job'[v].row]
      <3>1. v # w /\ job'[v] = job[v] /\ Holding(v) /\ job[v].row \in Rows
        BY <2>1, <2>7, Positions DEF Proceeds, Holding
      <3>2. outbox'[job[v].row].lastAttemptAt = outbox[job[v].row].lastAttemptAt
        BY <2>1, <3>1 DEF Proceeds
      <3>3. Current(v)
        BY <2>7, <3>1, <3>2 DEF Current, Token
      <3>4. job[v].row # r
        BY <2>2, <3>1, <3>3 DEF LeaseInv, Current
      <3> QED
        BY <2>1, <2>7, <3>1, <3>3, <3>4 DEF AttemptsInv, Proceeds
    <2> QED
      BY <2>5, <2>6, <2>7 DEF AttemptsInv
  <1>12. ASSUME NEW w \in Workers, Claim(w), Claimable(job[w].row, job[w].now)
         PROVE  AttemptsInv'
    <2> DEFINE r == job[w].row
    <2>1. /\ \A v \in Workers : v # w => job'[v] = job[v]
          /\ \A q \in Rows : q # r => outbox'[q] = outbox[q]
          /\ outbox'[r].attempts = outbox[r].attempts
          /\ outbox'[r].status = "PROCESSING" /\ outbox'[r].lastAttemptAt = job[w].now
          /\ job'[w].step = "readBack" /\ job'[w].row = r /\ job'[w].now = job[w].now
      BY <1>12, ClaimEffect
    <2>2. /\ reclaims' = IF Stale(r, job[w].now) THEN [reclaims EXCEPT ![r] = @ + 1]
                         ELSE reclaims
          /\ reclaims \in [Rows -> Nat] /\ r \in Rows
      BY <1>12, ClaimEffect, Positions DEF TypeInv, TypeOK, Claim
    <2>3. \A q \in Rows : q # r => reclaims'[q] = reclaims[q]
      BY <2>2
    <2>4. reclaims'[r] >= reclaims[r] /\ reclaims'[r] \in Nat
      BY <1>1, <2>2
    <2>5. outbox[r].attempts < MaxSendAttempts + reclaims'[r]
      <3>1. CASE Stale(r, job[w].now)
        <4>1. reclaims'[r] = reclaims[r] + 1
          BY <2>2, <3>1
        <4>2. outbox[r].attempts <= MaxSendAttempts + reclaims[r]
          BY <2>2 DEF AttemptsInv, AttemptsBounded
        <4> QED
          BY <1>1, <2>2, <4>1, <4>2
      <3>2. CASE outbox[r].status = "QUEUED"
        <4>1. outbox[r].attempts < MaxSendAttempts + reclaims[r]
          BY <2>2, <3>2 DEF AttemptsInv
        <4> QED
          BY <1>1, <2>2, <2>4, <4>1
      <3> QED
        BY <1>12, <3>1, <3>2 DEF Claimable
    <2>6. AttemptsBounded'
      BY <1>1, <2>1, <2>2, <2>3, <2>4, <2>5 DEF AttemptsInv, AttemptsBounded
    <2>7. \A q \in Rows : outbox'[q].status = "QUEUED" =>
            outbox'[q].attempts < MaxSendAttempts + reclaims'[q]
      BY <2>1, <2>3 DEF AttemptsInv
    <2>8. Holding(w)' /\ Token(w)' = outbox'[r].lastAttemptAt
      BY <2>1 DEF Holding, Token
    <2>9. ASSUME NEW v \in Workers, Holding(v)', Current(v)',
                 job'[v].step \notin {"send", "record"}
          PROVE  outbox'[job'[v].row].attempts < MaxSendAttempts + reclaims'[job'[v].row]
      <3>1. CASE job'[v].row = r
        BY <2>1, <2>5, <3>1
      <3>2. CASE job'[v].row # r
        <4>1. v # w /\ job'[v] = job[v] /\ Holding(v) /\ job[v].row \in Rows
          BY <2>1, <2>9, <3>2, Positions DEF Holding
        <4>2. outbox'[job[v].row] = outbox[job[v].row]
          BY <2>1, <3>2, <4>1
        <4>3. Current(v)
          BY <2>9, <4>1, <4>2 DEF Current, Token
        <4> QED
          BY <2>3, <2>9, <3>2, <4>1, <4>2, <4>3 DEF AttemptsInv
      <3> QED
        BY <3>1, <3>2
    <2> QED
      BY <2>6, <2>7, <2>9 DEF AttemptsInv
  <1> QED
    BY Steps, <1>2, <1>3, <1>4, <1>5, <1>6, <1>7, <1>8, <1>9, <1>10, <1>11, <1>12

\* With prompt claims, a row is attempted at most MAX_SEND_ATTEMPTS times plus
\* once per crash (or stall) that let another worker reclaim it.
THEOREM RetriesBounded == PromptClaim /\ Spec => []AttemptsBounded
  <1> SUFFICES ASSUME PromptClaim PROVE Spec => []AttemptsBounded
    OBVIOUS
  <1>1. TypeInv /\ LeaseInv /\ [Next]_vars => LeaseInv'
    BY LeaseNext
  <1>2. TypeInv /\ LeaseInv /\ LeaseInv' /\ AttemptsInv /\ [Next]_vars => AttemptsInv'
    BY AttemptsNext
  <1>3. AttemptsInv => AttemptsBounded
    BY DEF AttemptsInv
  <1> QED
    BY <1>1, <1>2, <1>3, LeaseInit, AttemptsInit, TypeInit, TypeNext, PTL DEF Spec

-----------------------------------------------------------------------------
(* Mailbox pinning                                                         *)

(* A materialized message leaves through the pinned mailbox; the lease     *)
(* holder has picked that one for a message it is to materialize, if the   *)
(* case has a thread already.                                              *)
PinOf(w) ==
    LET pinned == threads[CaseOf[job[w].row]]
    IN  /\ job[w].fresh => job[w].via = pinned
        /\ (job[w].step \in {"rebind", "materialize"} /\ job[w].snap.linked) =>
             job[w].via = pinned
        /\ Choosing(w) => pinned \in {None, job[w].via}

(* A materialized row's case has a thread, and what was handed over left   *)
(* through the mailbox of its case's thread.                               *)
PinInv ==
    /\ CaseMailboxPinned
    /\ \A r \in Rows : outbox[r].message # None => threads[CaseOf[r]] # None
    /\ \A w \in Workers : PinOf(w)

LEMMA PinInit == Init => PinInv
  BY DEF Init, PinInv, PinOf, CaseMailboxPinned, Idle, Choosing

(* Only a materialization writes a thread.                                 *)
LEMMA ThreadSteps ==
  ASSUME [Next]_vars
  PROVE  \/ threads' = threads
         \/ \E w \in Workers : Materialize(w) /\ ~job[w].snap.linked /\ Owns(w)
  BY DEF Next, Work, vars, dbVars, StartBatch, Begin, Claim, ReadBack, Load, Evaluate,
         Defer, Cancel, Rebind, Materialize, MarkAttempt, Send, Record, Crash, Tick,
         Desktop, Change, ChangePrimary, ToggleOpen, ToggleHold, Reroute, ToggleMailbox

(* A worker that lost its lease does not get it back: tokens do not recur. *)
NoneRegained ==
    \A v \in Workers : (job'[v] = job[v] /\ HoldsLease(v)') => HoldsLease(v)

(* A step of w that keeps the threads, the messages and what was handed    *)
(* over, and leaves w with a mailbox that agrees with its thread.          *)
LEMMA PinKept ==
  ASSUME PinInv, NoneRegained, NEW w \in Workers, UNCHANGED <<threads, handed>>, PinOf(w)',
         \A v \in Workers : v # w => job'[v] = job[v],
         \A r \in Rows : outbox'[r].message # None => outbox[r].message # None
  PROVE  PinInv'
  <1>1. ASSUME NEW v \in Workers PROVE PinOf(v)'
    BY DEF PinInv, PinOf, Choosing, NoneRegained
  <1> QED
    BY <1>1 DEF PinInv, CaseMailboxPinned

LEMMA EvaluatePicks ==
  ASSUME TypeInv, NEW w \in Workers, Evaluate(w)
  PROVE  /\ job[w].fresh => job'[w].via = job[w].via
         /\ (~job[w].fresh /\ job'[w].step \in {"rebind", "materialize"}) =>
              job'[w].via = MailboxFor(CaseOf[job[w].row])
  <1> DEFINE verdict == Verdict(w)
             c == CaseOf[job[w].row]
             to == IF verdict = "rebind" THEN desk.primary[c]
                   ELSE IF job[w].fresh THEN job[w].to ELSE job[w].snap.recipient
             step == IF verdict = "rebind" THEN "rebind"
                     ELSE IF job[w].fresh THEN "mark" ELSE "materialize"
             via == IF job[w].fresh THEN job[w].via ELSE MailboxFor(c)
             stop == [job[w] EXCEPT !.step = verdict, !.snap = None]
             go == [job[w] EXCEPT !.step = step, !.to = to, !.via = via]
  <1>1. job[w] \in Job
    BY Positions
  <1>2. CASE verdict \in {"defer", "cancel"}
    <2>1. Become(w, stop)
      BY <1>2 DEF Evaluate
    <2> HIDE DEF verdict
    <2>2. stop.step = verdict /\ stop.via = job[w].via
      BY <1>1 DEF Job
    <2> HIDE DEF stop
    <2> QED
      BY <1>2, <2>1, <2>2, Others
  <1>3. CASE verdict \notin {"defer", "cancel"}
    <2>1. Become(w, go)
      BY <1>3 DEF Evaluate
    <2> HIDE DEF verdict, step, to, via
    <2>2. go.via = via
      BY <1>1 DEF Job
    <2> HIDE DEF go
    <2> QED
      BY <2>1, <2>2, Others DEF via
  <1> QED
    BY <1>2, <1>3

LEMMA FreshKept ==
  ASSUME TypeInv, NEW w \in Workers,
         Begin(w) \/ (Claim(w) /\ Claimable(job[w].row, job[w].now))
  PROVE  ~job'[w].fresh
  <1>1. job \in [Workers -> Job] /\ job[w] \in Job
    BY Positions DEF TypeInv, TypeOK
  <1>2. ~job[w].fresh
    BY Positions DEF Begin, Claim, WellFormed, Written
  <1>3. CASE Begin(w)
    <2>1. PICK r : Become(w, [job[w] EXCEPT !.step = "claim", !.row = r, !.now = clock])
      BY <1>3 DEF Begin
    <2> DEFINE j == [job[w] EXCEPT !.step = "claim", !.row = r, !.now = clock]
    <2>2. ~j.fresh /\ Become(w, j)
      BY <1>1, <1>2, <2>1 DEF Job
    <2> HIDE DEF j
    <2> QED
      BY <2>2, Others
  <1>4. CASE Claim(w) /\ Claimable(job[w].row, job[w].now)
    BY <1>1, <1>2, <1>4 DEF Claim, Become, Job
  <1> QED
    BY <1>3, <1>4

(* Rebinding, loading, marking and sending keep the mailbox.               *)
LEMMA MailboxKept ==
  ASSUME TypeInv, NEW w \in Workers,
         \/ Load(w) \/ Send(w)
         \/ Rebind(w) /\ Owns(w) /\ outbox[job[w].row].attempts = 0
         \/ MarkAttempt(w) /\ Owns(w)
         \/ Materialize(w) /\ (job[w].snap.linked \/ Owns(w))
  PROVE  job'[w].via = job[w].via
  <1>1. job \in [Workers -> Job] /\ job[w] \in Job
    BY Positions DEF TypeInv, TypeOK
  <1>2. CASE Load(w)
    BY <1>1, <1>2 DEF Load, Become, Job
  <1>3. CASE Send(w)
    BY <1>1, <1>3 DEF Send, Become, Job
  <1>4. CASE Rebind(w) /\ Owns(w) /\ outbox[job[w].row].attempts = 0
    BY <1>1, <1>4 DEF Rebind, Become, Job
  <1>5. CASE MarkAttempt(w) /\ Owns(w)
    BY <1>1, <1>5 DEF MarkAttempt, Become, Job
  <1>6. CASE Materialize(w) /\ (job[w].snap.linked \/ Owns(w))
    BY <1>1, <1>6 DEF Materialize, Become, Job
  <1> QED
    BY <1>2, <1>3, <1>4, <1>5, <1>6

LEMMA LeaseNotRegained ==
  ASSUME TypeInv, LeaseInv' \/ \A v, w \in Workers : v = w, [Next]_vars
  PROVE  NoneRegained
  <1> SUFFICES ASSUME NEW v \in Workers, job'[v] = job[v], HoldsLease(v)'
               PROVE  HoldsLease(v)
    BY DEF NoneRegained
  <1> DEFINE q == job[v].row
  <1>1. /\ q \in Rows /\ job[v].step \notin {"idle", "claim", "readBack"}
        /\ outbox'[q].status = "PROCESSING" /\ outbox'[q].lastAttemptAt = job[v].token
    BY Positions DEF HoldsLease, Owns
  <1> SUFFICES outbox[q].status = "PROCESSING" /\ outbox[q].lastAttemptAt = job[v].token
    BY <1>1 DEF HoldsLease, Owns
  <1>2. ASSUME NEW w \in Workers, Proceeds(w) PROVE HoldsLease(v)
    BY <1>1, <1>2 DEF Proceeds, HoldsLease, Owns
  <1>3. CASE UNCHANGED outbox
    BY <1>1, <1>3
  <1>4. ASSUME NEW w \in Workers, Ends(w) PROVE HoldsLease(v)
    BY <1>1, <1>4, EndsEffect DEF HoldsLease, Owns
  <1>5. ASSUME NEW w \in Workers, Claim(w), Claimable(job[w].row, job[w].now)
        PROVE  HoldsLease(v)
    <2>1. /\ job'[w].step = "readBack" /\ job'[w].row = job[w].row
          /\ job'[w].now = job[w].now /\ outbox'[job[w].row].lastAttemptAt = job[w].now
          /\ \A r \in Rows : r # job[w].row => outbox'[r] = outbox[r]
      BY <1>5, ClaimEffect
    <2>2. v # w
      BY <1>1, <2>1
    <2>3. CASE q = job[w].row
      <3>1. LeaseInv'
        BY <2>2
      <3>2. /\ Holding(v)' /\ Token(v)' = job[v].token /\ job'[v].row = q
            /\ Holding(w)' /\ Token(w)' = job[w].now /\ job'[w].row = q
        BY <1>1, <2>1, <2>3 DEF Holding, Token
      <3>3. job[v].token # job[w].now
        BY <2>2, <3>1, <3>2 DEF LeaseInv
      <3> QED
        BY <1>1, <2>1, <2>3, <3>3
    <2>4. CASE q # job[w].row
      BY <1>1, <2>1, <2>4 DEF HoldsLease, Owns
    <2> QED
      BY <2>3, <2>4
  <1> QED
    BY Steps, <1>1, <1>2, <1>3, <1>4, <1>5, BeginEffect, ReadBackEffect, LoadEffect,
       EvaluateEffect, SendEffect, RebindEffect, MaterializeEffect, MarkEffect
    DEF Frozen, HoldsLease, Owns

(* Unless the choices of two lease holders of a case differ, nobody        *)
(* creates a thread between a worker's choice of another mailbox and its   *)
(* materialization.                                                        *)
LEMMA PinNext ==
  ASSUME ~Contested, NoneRegained, TypeInv, PinInv, [Next]_vars
  PROVE  PinInv'
  <1>1. ASSUME NEW w \in Workers, Materialize(w), ~job[w].snap.linked, Owns(w)
        PROVE  PinInv'
    <2> DEFINE c == CaseOf[job[w].row]
    <2>1. /\ threads \in [Cases -> Mailboxes \union {None}] /\ c \in Cases
          /\ CaseOf \in [Rows -> Cases] /\ None \notin Mailboxes
          /\ job[w].row \in Rows /\ job[w].via \in Mailboxes
          /\ handed \in SUBSET Transmission
      BY <1>1, Positions, ConstantsAssumption
      DEF Materialize, WellFormed, Prepared, TypeInv, TypeOK
    <2>2. threads' = [threads EXCEPT ![c] = IF @ = None THEN job[w].via ELSE @]
      BY <1>1 DEF Materialize
    <2>3. Choosing(w) \/ threads[c] = job[w].via
      BY <1>1 DEF Materialize, Choosing, HoldsLease, PinInv, PinOf
    <2>4. threads[c] \in {None, job[w].via}
      BY <2>3 DEF PinInv, PinOf
    <2>5. \A d \in Cases : threads[d] # None => threads'[d] = threads[d]
      BY <2>1, <2>2
    <2>6. threads'[c] = job[w].via
      BY <2>1, <2>2, <2>4
    <2>7. CaseMailboxPinned'
      <3> SUFFICES ASSUME NEW h \in handed PROVE h.via = threads'[CaseOf[h.row]]
        BY <1>1, HistoryKept DEF CaseMailboxPinned
      <3>1. h.row \in Rows /\ h.via \in Mailboxes /\ h.via = threads[CaseOf[h.row]]
        BY <2>1 DEF Transmission, PinInv, CaseMailboxPinned
      <3> QED
        BY <2>1, <2>5, <3>1
    <2>8. \A r \in Rows : outbox'[r].message # None => threads'[CaseOf[r]] # None
      <3> SUFFICES ASSUME NEW r \in Rows, outbox'[r].message # None
                   PROVE  threads'[CaseOf[r]] # None
        OBVIOUS
      <3>1. CASE r = job[w].row
        BY <2>1, <2>6, <3>1
      <3>2. CASE r # job[w].row
        <4>1. outbox'[r] = outbox[r]
          BY <1>1, <3>2, MaterializeEffect DEF Proceeds
        <4> QED
          BY <2>1, <2>5, <4>1 DEF PinInv
      <3> QED
        BY <3>1, <3>2
    <2>9. PinOf(w)'
      BY <1>1, <2>6, MaterializeEffect, MailboxKept DEF PinOf, Proceeds, Choosing
    <2>10. ASSUME NEW v \in Workers, v # w PROVE PinOf(v)'
      <3>1. PinOf(v) /\ job'[v] = job[v]
        BY <1>1, <2>10, MaterializeEffect DEF PinInv, Proceeds
      <3>2. CASE job[v].step = "idle"
        BY <3>1, <3>2, Positions DEF PinOf, Choosing, WellFormed, Written
      <3>3. CASE job[v].step # "idle"
        <4>1. CaseOf[job[v].row] \in Cases /\ job[v].row \in Rows
          BY <3>3, Positions
        <4>2. job[v].fresh => job[v].via \in Mailboxes
          BY Positions DEF WellFormed, Written
        <4>3. job[v].step \in {"rebind", "materialize"} => job[v].via \in Mailboxes
          BY Positions DEF WellFormed, Prepared
        <4>4. job'[v].fresh => job'[v].via = threads'[CaseOf[job'[v].row]]
          BY <2>1, <2>5, <3>1, <4>1, <4>2 DEF PinOf
        <4>5. (job'[v].step \in {"rebind", "materialize"} /\ job'[v].snap.linked) =>
                job'[v].via = threads'[CaseOf[job'[v].row]]
          BY <2>1, <2>5, <3>1, <4>1, <4>3 DEF PinOf
        <4>6. ASSUME Choosing(v)'
              PROVE  threads'[CaseOf[job'[v].row]] \in {None, job'[v].via}
          <5>1. Choosing(v)
            BY <3>1, <4>6 DEF Choosing, NoneRegained
          <5>2. CASE CaseOf[job[v].row] = c /\ Choosing(w)
            BY <2>6, <3>1, <5>1, <5>2 DEF Contested
          <5>3. CASE CaseOf[job[v].row] # c \/ threads[c] = job[w].via
            BY <2>1, <2>2, <3>1, <4>1, <5>1, <5>3 DEF PinOf
          <5> QED
            BY <2>3, <5>2, <5>3
        <4> QED
          BY <4>4, <4>5, <4>6 DEF PinOf
      <3> QED
        BY <3>2, <3>3
    <2> QED
      BY <2>7, <2>8, <2>9, <2>10 DEF PinInv
  <1>2. CASE threads' = threads
    <2>1. CASE Frozen
      <3>1. \A v \in Workers : PinOf(v)' = PinOf(v)
        BY <1>2, <2>1 DEF Frozen, PinOf, Choosing, HoldsLease, Owns
      <3> QED
        BY <1>2, <2>1, <3>1 DEF Frozen, PinInv, CaseMailboxPinned
    <2>2. ASSUME NEW w \in Workers, Begin(w) \/ ReadBack(w) PROVE PinInv'
      <3>1. ~job'[w].fresh
        BY <2>2, FreshKept, ReadBackEffect, Positions DEF ReadBack, WellFormed, Written
      <3> QED
        BY <1>2, <2>2, <3>1, BeginEffect, ReadBackEffect, PinKept DEF PinOf, Choosing
    <2>3. ASSUME NEW w \in Workers, Load(w) PROVE PinInv'
      <3>1. PinOf(w)'
        BY <1>2, <2>3, LoadEffect, MailboxKept DEF PinOf, PinInv, Proceeds, Choosing
      <3> QED
        BY <1>2, <2>3, <3>1, LoadEffect, HistoryKept, PinKept DEF Proceeds
    <2>4. ASSUME NEW w \in Workers, Evaluate(w) PROVE PinInv'
      <3> DEFINE pinned == threads[CaseOf[job[w].row]]
      <3>1. /\ job'[w].row = job[w].row /\ job'[w].fresh = job[w].fresh
            /\ job'[w].step \in {"rebind", "materialize"} => job'[w].snap = job[w].snap
        BY <2>4, EvaluateEffect DEF Proceeds
      <3>2. job'[w].fresh => job'[w].via = pinned
        BY <2>4, <3>1, EvaluatePicks DEF PinOf, PinInv
      <3>3. (job'[w].step \in {"rebind", "materialize"} /\ ~job'[w].fresh) =>
              job'[w].via = MailboxFor(CaseOf[job[w].row])
        BY <2>4, <3>1, EvaluatePicks
      <3>4. job[w].step = "evaluate" /\ job[w].row \in Rows
        BY <2>4, Positions DEF Evaluate
      <3>5. job[w].snap.linked => pinned # None
        BY <3>4, Positions DEF WellFormed, Informed, PinInv
      <3>6. PinOf(w)'
        BY <1>2, <3>1, <3>2, <3>3, <3>5 DEF PinOf, Choosing, MailboxFor
      <3> QED
        BY <1>2, <2>4, <3>6, EvaluateEffect, HistoryKept, PinKept DEF Proceeds
    <2>5. ASSUME NEW w \in Workers, Rebind(w), Owns(w), outbox[job[w].row].attempts = 0
          PROVE  PinInv'
      <3>1. job[w].step = "rebind" /\ PinOf(w)
        BY <2>5 DEF Rebind, PinInv
      <3>2. PinOf(w)'
        <4>1. HoldsLease(w)
          BY <2>5, <3>1 DEF HoldsLease
        <4>2. /\ job'[w].row = job[w].row /\ job'[w].fresh = job[w].fresh
              /\ job'[w].snap = job[w].snap /\ job'[w].via = job[w].via
          BY <2>5, RebindEffect, MailboxKept DEF Proceeds
        <4> QED
          BY <1>2, <3>1, <4>1, <4>2 DEF PinOf, Choosing
      <3>3. \A r \in Rows : outbox'[r].message # None => outbox[r].message # None
        <4>1. job[w].snap.linked => outbox[job[w].row].message # None
          BY <2>5, Positions DEF Rebind, WellFormed, Informed
        <4>2. ~job[w].snap.linked =>
                outbox'[job[w].row].message = outbox[job[w].row].message
          BY <2>5, RebindEffect
        <4>3. \A r \in Rows : r # job[w].row => outbox'[r] = outbox[r]
          BY <2>5, RebindEffect DEF Proceeds
        <4> QED
          BY <4>1, <4>2, <4>3
      <3> QED
        BY <1>2, <2>5, <3>2, <3>3, RebindEffect, HistoryKept, PinKept DEF Proceeds
    <2>6. ASSUME NEW w \in Workers, Materialize(w), job[w].snap.linked PROVE PinInv'
      <3>1. /\ PinOf(w) /\ job[w].step = "materialize" /\ job[w].row \in Rows
            /\ outbox[job[w].row].message # None
        BY <2>6, Positions DEF Materialize, PinInv, WellFormed, Informed
      <3>2. job[w].via = threads[CaseOf[job[w].row]]
        BY <2>6, <3>1 DEF PinOf
      <3>3. PinOf(w)'
        BY <1>2, <2>6, <3>2, MaterializeEffect, MailboxKept DEF PinOf, Proceeds, Choosing
      <3> QED
        BY <1>2, <2>6, <3>3, MaterializeEffect, HistoryKept, PinKept DEF Proceeds
    <2>7. ASSUME NEW w \in Workers, MarkAttempt(w), Owns(w) PROVE PinInv'
      <3>1. \A r \in Rows : outbox'[r].message = outbox[r].message
        BY <2>7, MarkEffect DEF Proceeds
      <3> QED
        BY <1>2, <2>7, <3>1, MarkEffect, HistoryKept, MailboxKept, PinKept
        DEF PinOf, PinInv, Proceeds, Choosing
    <2>8. ASSUME NEW w \in Workers, Claim(w), Claimable(job[w].row, job[w].now) PROVE PinInv'
      <3>1. \A r \in Rows : outbox'[r].message = outbox[r].message
        BY <2>8, ClaimEffect
      <3> QED
        BY <1>2, <2>8, <3>1, FreshKept, ClaimEffect, PinKept DEF PinOf, Choosing
    <2>9. ASSUME NEW w \in Workers, Ends(w) PROVE PinInv'
      <3>1. PinOf(w)'
        BY <2>9 DEF Ends, PinOf, Idle, Choosing
      <3>2. \A r \in Rows : outbox'[r].message = outbox[r].message
        BY <2>9, EndsEffect
      <3> QED
        BY <1>2, <2>9, <3>1, <3>2, PinKept DEF Ends
    <2>10. ASSUME NEW w \in Workers, Send(w) PROVE PinInv'
      <3> DEFINE h == [row |-> job[w].row, to |-> job[w].to, via |-> job[w].via,
                       mid |-> job[w].mid]
      <3>1. h.row = job[w].row /\ h.via = job[w].via /\ handed' = handed \union {h}
        BY <2>10, SendEffect
      <3> HIDE DEF h
      <3>2. job[w].via = threads[CaseOf[job[w].row]]
        BY <2>10, Positions DEF Send, WellFormed, Written, PinInv, PinOf
      <3>3. CaseMailboxPinned'
        BY <1>2, <3>1, <3>2 DEF PinInv, CaseMailboxPinned
      <3> QED
        <4>1. PinOf(w)'
          BY <1>2, <2>10, <3>2, SendEffect, MailboxKept DEF PinOf, Proceeds, Choosing
        <4>2. \A v \in Workers : v # w => PinOf(v)'
          BY <1>2, <2>10, SendEffect DEF PinInv, PinOf, Proceeds, Choosing, NoneRegained
        <4>3. \A r \in Rows : outbox'[r].message # None => threads'[CaseOf[r]] # None
          BY <1>2, <2>10, SendEffect DEF PinInv
        <4> QED
          BY <3>3, <4>1, <4>2, <4>3 DEF PinInv
    <2>11. ASSUME NEW w \in Workers, Materialize(w), Owns(w), ~job[w].snap.linked
           PROVE  PinInv'
      BY <1>1, <2>11
    <2> QED
      BY Steps, <2>1, <2>2, <2>3, <2>4, <2>5, <2>6, <2>7, <2>8, <2>9, <2>10, <2>11
  <1> QED
    BY ThreadSteps, <1>1, <1>2

LEMMA PinGivesPinned == PinInv => CaseMailboxPinned
  BY DEF PinInv

\* With prompt claims, and any number of workers, every message of a case leaves
\* through the mailbox its thread is pinned to as long as no two lease holders
\* are about to materialize messages of one case for different mailboxes: that
\* race is the only way to break the pinning.
THEOREM UncontestedPins ==
  PromptClaim /\ Spec /\ [](~Contested) => []CaseMailboxPinned
  <1> SUFFICES ASSUME PromptClaim
               PROVE  Spec /\ [](~Contested) => []CaseMailboxPinned
    OBVIOUS
  <1>1. TypeInv /\ LeaseInv /\ [Next]_vars => LeaseInv'
    BY LeaseNext
  <1>2. TypeInv /\ LeaseInv' /\ PinInv /\ ~Contested /\ [Next]_vars => PinInv'
    BY LeaseNotRegained, PinNext
  <1> QED
    BY <1>1, <1>2, LeaseInit, PinInit, PinGivesPinned, TypeInit, TypeNext, PTL DEF Spec

LEMMA OneRowUncontested ==
  ASSUME \A q, r \in Rows : CaseOf[q] = CaseOf[r] => q = r, TypeInv, LeaseInv
  PROVE  ~Contested
  <1> SUFFICES ASSUME NEW v \in Workers, NEW w \in Workers, Choosing(v), Choosing(w),
                      CaseOf[job[v].row] = CaseOf[job[w].row]
               PROVE  v = w
    BY DEF Contested
  <1>1. job[v].row \in Rows /\ job[w].row \in Rows
    BY Positions DEF Choosing
  <1>2. job[v].row = job[w].row
    BY <1>1
  <1> QED
    BY <1>2, LeaseGivesSoleOwner DEF SoleOwner, Choosing

\* With prompt claims and a single row per case, retries, takeovers and changes
\* of the routing in between never move a case to another mailbox.
THEOREM OneRowPins ==
  PromptClaim /\ (\A q, r \in Rows : CaseOf[q] = CaseOf[r] => q = r) /\ Spec
    => []CaseMailboxPinned
  <1> SUFFICES ASSUME PromptClaim, \A q, r \in Rows : CaseOf[q] = CaseOf[r] => q = r
               PROVE  Spec => []CaseMailboxPinned
    OBVIOUS
  <1>1. TypeInv /\ LeaseInv /\ [Next]_vars => LeaseInv'
    BY LeaseNext
  <1>2. TypeInv /\ LeaseInv => ~Contested
    BY OneRowUncontested
  <1>3. Spec => [](~Contested)
    BY <1>1, <1>2, LeaseInit, TypeInit, TypeNext, PTL DEF Spec
  <1>4. PromptClaim
    OBVIOUS
  <1> QED
    BY <1>3, <1>4, UncontestedPins, PTL

\* With one worker (one process running one send job at a time), every message
\* of a case leaves through the mailbox its thread is pinned to, slow claims or
\* not.
THEOREM OneWorkerPins == (\A v, w \in Workers : v = w) /\ Spec => []CaseMailboxPinned
  <1> SUFFICES ASSUME \A v, w \in Workers : v = w PROVE Spec => []CaseMailboxPinned
    OBVIOUS
  <1>1. ~Contested
    BY DEF Contested
  <1>2. TypeInv /\ PinInv /\ [Next]_vars => PinInv'
    BY <1>1, LeaseNotRegained, PinNext
  <1> QED
    BY <1>2, PinInit, PinGivesPinned, TypeInit, TypeNext, PTL DEF Spec

-----------------------------------------------------------------------------
(* The refinement of OutboxDelivery                                        *)

(* A reply was to a transmission of the row, and an acceptance is on       *)
(* record.                                                                 *)
ReplyInv ==
    \A w \in Workers : job[w].step = "record" =>
        /\ \E h \in handed : h.row = job[w].row
        /\ job[w].outcome = "accepted" => job[w].row \in acked

LEMMA ReplyInit == Init => ReplyInv
  BY DEF Init, ReplyInv, Idle

LEMMA ReplySend ==
  ASSUME TypeInv, NEW w \in Workers, Send(w)
  PROVE  /\ job'[w].row = job[w].row
         /\ job'[w].outcome = "accepted" => acked' = acked \union {job[w].row}
         /\ acked' \in {acked, acked \union {job[w].row}}
  <1>1. PICK reply \in {"accepted", "transient", "permanent"} :
          /\ Become(w, [job[w] EXCEPT !.step = "record", !.outcome = reply])
          /\ acked' = IF reply = "accepted" THEN acked \union {job[w].row} ELSE acked
    BY DEF Send
  <1> DEFINE j == [job[w] EXCEPT !.step = "record", !.outcome = reply]
  <1>2. j.outcome = reply /\ j.row = job[w].row /\ Become(w, j)
    BY <1>1, Positions DEF Job
  <1> HIDE DEF j
  <1>3. job'[w] = j
    BY <1>2, Others
  <1> QED
    BY <1>1, <1>2, <1>3

LEMMA ReplyNext ==
  ASSUME TypeInv, ReplyInv, [Next]_vars
  PROVE  ReplyInv'
  <1>1. ASSUME NEW w \in Workers, \A v \in Workers : v # w => job'[v] = job[v],
               job'[w].step # "record", handed' = handed, acked' = acked
        PROVE  ReplyInv'
    BY <1>1 DEF ReplyInv
  <1>2. CASE Frozen
    BY <1>2 DEF Frozen, ReplyInv
  <1>3. ASSUME NEW w \in Workers, Begin(w) \/ ReadBack(w) PROVE ReplyInv'
    BY <1>1, <1>3, BeginEffect, ReadBackEffect
  <1>4. ASSUME NEW w \in Workers, Claim(w), Claimable(job[w].row, job[w].now) PROVE ReplyInv'
    BY <1>1, <1>4, ClaimEffect
  <1>5. ASSUME NEW w \in Workers, Load(w) \/ Evaluate(w) PROVE ReplyInv'
    BY <1>1, <1>5, LoadEffect, EvaluateEffect, HistoryKept DEF Proceeds
  <1>6. ASSUME NEW w \in Workers, Rebind(w), Owns(w), outbox[job[w].row].attempts = 0
        PROVE  ReplyInv'
    BY <1>1, <1>6, RebindEffect, HistoryKept DEF Proceeds
  <1>7. ASSUME NEW w \in Workers, Materialize(w), job[w].snap.linked \/ Owns(w)
        PROVE  ReplyInv'
    BY <1>1, <1>7, MaterializeEffect, HistoryKept DEF Proceeds
  <1>8. ASSUME NEW w \in Workers, MarkAttempt(w), Owns(w) PROVE ReplyInv'
    BY <1>1, <1>8, MarkEffect, HistoryKept DEF Proceeds
  <1>9. ASSUME NEW w \in Workers, Ends(w) PROVE ReplyInv'
    BY <1>1, <1>9 DEF Ends, Idle
  <1>10. ASSUME NEW w \in Workers, Send(w) PROVE ReplyInv'
    <2> DEFINE h == [row |-> job[w].row, to |-> job[w].to, via |-> job[w].via,
                     mid |-> job[w].mid]
    <2>1. handed' = handed \union {h} /\ \A v \in Workers : v # w => job'[v] = job[v]
      BY <1>10, SendEffect DEF Proceeds
    <2>2. h.row = job[w].row
      OBVIOUS
    <2> HIDE DEF h
    <2>3. /\ \E g \in handed' : g.row = job'[w].row
          /\ job'[w].outcome = "accepted" => job'[w].row \in acked'
      BY <1>10, <2>1, <2>2, ReplySend
    <2>4. acked \subseteq acked' /\ handed \subseteq handed'
      BY <1>10, <2>1, ReplySend
    <2> QED
      BY <2>1, <2>3, <2>4 DEF ReplyInv
  <1> QED
    BY Steps, <1>2, <1>3, <1>4, <1>5, <1>6, <1>7, <1>8, <1>9, <1>10

(* The refinement mapping: OutboxDelivery's phase and copies.              *)
Phase == [r \in Rows |-> IF outbox[r].status \in Terminal THEN outbox[r].status ELSE "open"]
Copies == [r \in Rows |-> Addressed(r)]

LEMMA AbstractInit == Init => Delivery!AbsInit
  <1> SUFFICES ASSUME Init PROVE Delivery!AbsInit
    OBVIOUS
  <1>1. \A r \in Rows : outbox[r].status \notin Terminal
    BY DEF Init, Terminal
  <1>2. Phase = [r \in Rows |-> "open"]
    BY <1>1 DEF Phase
  <1>3. Copies = [r \in Rows |-> {}]
    BY DEF Copies, Addressed, Init
  <1> QED
    BY <1>2, <1>3 DEF Init, Phase, Copies, Delivery!AbsInit

(* A step that transmits and resolves nothing is a stutter.                *)
LEMMA AbstractStutter ==
  ASSUME handed' = handed, acked' = acked,
         \A r \in Rows : \/ outbox'[r].status = outbox[r].status
                         \/ outbox'[r].status \notin Terminal /\ outbox[r].status \notin Terminal
  PROVE  UNCHANGED Delivery!absVars
  <1>1. Phase' = Phase
    BY DEF Phase
  <1>2. Copies' = Copies
    BY DEF Copies, Addressed
  <1> QED
    BY <1>1, <1>2 DEF Phase, Copies, Delivery!absVars

LEMMA AbstractTransmit ==
  ASSUME TypeInv, IdentityInv, IdentityInv', NEW w \in Workers, Send(w)
  PROVE  Delivery!AbsNext
  <1>1. job[w].row \in Rows /\ <<job[w].to, job[w].mid>> \in Recipients \X MessageId
    BY Positions DEF Send, WellFormed, Prepared, Written
  <1>2. PICK r \in Rows, m \in Recipients \X MessageId :
          r = job[w].row /\ m = <<job[w].to, job[w].mid>>
    BY <1>1
  <1>3. PICK h : /\ h = [row |-> r, to |-> job[w].to, via |-> job[w].via, mid |-> job[w].mid]
                 /\ handed' = handed \union {h} /\ UNCHANGED outbox
    BY <1>2, SendEffect
  <1>4. h.row = r /\ <<h.to, h.mid>> = m
    BY <1>2, <1>3
  <1>5. \A g \in handed' : g.row = r => <<g.to, g.mid>> = m
    <2>1. IdentityPinned'
      BY DEF IdentityInv, MessageInv, IdentityPinned
    <2> QED
      BY <1>3, <1>4, <2>1 DEF IdentityPinned
  <1>6. Addressed(r) \subseteq {m} /\ Addressed(r)' = {m}
    BY <1>3, <1>4, <1>5 DEF Addressed
  <1>7. \A q \in Rows : q # r => Addressed(q)' = Addressed(q)
    BY <1>3, <1>4 DEF Addressed
  <1>8. Copies' = [Copies EXCEPT ![r] = {m}] /\ Copies[r] \subseteq {m}
    BY <1>6, <1>7 DEF Copies
  <1>9. Phase' = Phase
    BY <1>3 DEF Phase
  <1>10. acked' \in {acked, acked \union {r}}
    BY <1>2, ReplySend
  <1>11. Delivery!Transmit(r, m)
    BY <1>8, <1>9, <1>10 DEF Delivery!Transmit, Copies, Phase
  <1> QED
    BY <1>11 DEF Delivery!AbsNext

LEMMA AbstractResolve ==
  ASSUME TypeInv, ReplyInv, NEW w \in Workers, Ends(w)
  PROVE  [Delivery!AbsNext]_(Delivery!absVars)
  <1> DEFINE r == job[w].row
  <1>1. UNCHANGED <<handed, acked>> /\ r \in Rows
    BY Positions DEF Ends
  <1>2. CASE outbox' = outbox
    BY <1>1, <1>2, AbstractStutter
  <1>3. CASE outbox' # outbox
    <2>1. PICK s \in Status \ {"PROCESSING"} :
            /\ outbox' = [outbox EXCEPT ![r].status = s]
            /\ \/ s = "QUEUED" \/ s = "CANCELLED"
               \/ job[w].step = "record" /\ s = "FAILED"
               \/ job[w].step = "record" /\ s = "DELIVERED" /\ job[w].outcome = "accepted"
      BY <1>3 DEF Ends
    <2>2. outbox[r].status = "PROCESSING"
      BY <1>3 DEF Ends, Owns
    <2>3. /\ outbox'[r].status = s
          /\ \A q \in Rows : q # r => outbox'[q] = outbox[q]
      BY <1>1, <2>1 DEF TypeInv, TypeOK, OutboxRow
    <2>4. CASE s = "QUEUED"
      BY <1>1, <2>2, <2>3, <2>4, AbstractStutter DEF Terminal
    <2>5. CASE s # "QUEUED"
      <3>1. s \in Terminal /\ outbox[r].status \notin Terminal
        BY <2>2, <2>5 DEF Status, Terminal
      <3>2. Phase' = [Phase EXCEPT ![r] = s] /\ Phase[r] = "open"
        BY <1>1, <2>3, <3>1 DEF Phase
      <3>3. Copies' = Copies
        BY <1>1 DEF Copies, Addressed
      <3>4. s = "DELIVERED" => r \in acked
        BY <2>1 DEF ReplyInv
      <3>5. s = "FAILED" => Copies[r] # {}
        <4> SUFFICES ASSUME s = "FAILED" PROVE Addressed(r) # {}
          BY <1>1 DEF Copies
        <4>1. \E h \in handed : h.row = r
          BY <2>1 DEF ReplyInv
        <4> QED
          BY <4>1 DEF Addressed
      <3>6. Delivery!Resolve(r, s)
        BY <1>1, <3>2, <3>3, <3>4, <3>5 DEF Delivery!Resolve, Copies, Phase
      <3>7. s \in Delivery!Final
        BY <3>1 DEF Delivery!Final, Terminal
      <3> QED
        BY <1>1, <3>6, <3>7 DEF Delivery!AbsNext
    <2> QED
      BY <2>4, <2>5
  <1> QED
    BY <1>2, <1>3

LEMMA AbstractStep ==
  ASSUME TypeInv, IdentityInv, IdentityInv', ReplyInv, [Next]_vars
  PROVE  [Delivery!AbsNext]_(Delivery!absVars)
  <1>1. CASE Frozen
    BY <1>1, AbstractStutter DEF Frozen
  <1>2. ASSUME NEW w \in Workers, Begin(w) \/ ReadBack(w) PROVE UNCHANGED Delivery!absVars
    <2>1. UNCHANGED <<outbox, handed, acked>>
      BY <1>2, BeginEffect, ReadBackEffect
    <2> QED
      BY <2>1, AbstractStutter
  <1>3. ASSUME NEW w \in Workers, Claim(w), Claimable(job[w].row, job[w].now)
        PROVE  UNCHANGED Delivery!absVars
    <2>1. /\ UNCHANGED <<handed, acked>>
          /\ outbox'[job[w].row].status = "PROCESSING"
          /\ \A q \in Rows : q # job[w].row => outbox'[q] = outbox[q]
      BY <1>3, ClaimEffect
    <2>2. outbox[job[w].row].status \in {"QUEUED", "PROCESSING"}
      BY <1>3 DEF Claimable, Stale
    <2> QED
      BY <2>1, <2>2, AbstractStutter DEF Terminal
  <1>4. ASSUME NEW w \in Workers, Proceeds(w), UNCHANGED <<handed, acked>>
        PROVE  UNCHANGED Delivery!absVars
    <2>1. \A r \in Rows : outbox'[r].status = outbox[r].status
      BY <1>4 DEF Proceeds
    <2> QED
      BY <1>4, <2>1, AbstractStutter
  <1>5. ASSUME NEW w \in Workers, Load(w) \/ Evaluate(w) PROVE UNCHANGED Delivery!absVars
    BY <1>4, <1>5, LoadEffect, EvaluateEffect, HistoryKept
  <1>6. ASSUME NEW w \in Workers, Rebind(w), Owns(w), outbox[job[w].row].attempts = 0
        PROVE  UNCHANGED Delivery!absVars
    BY <1>4, <1>6, RebindEffect, HistoryKept
  <1>7. ASSUME NEW w \in Workers, Materialize(w), job[w].snap.linked \/ Owns(w)
        PROVE  UNCHANGED Delivery!absVars
    BY <1>4, <1>7, MaterializeEffect, HistoryKept
  <1>8. ASSUME NEW w \in Workers, MarkAttempt(w), Owns(w) PROVE UNCHANGED Delivery!absVars
    BY <1>4, <1>8, MarkEffect, HistoryKept
  <1> QED
    BY Steps, AbstractTransmit, AbstractResolve,
       <1>1, <1>2, <1>3, <1>5, <1>6, <1>7, <1>8

\* With prompt claims, the worker protocol implements at-least-once delivery of
\* one message per row and a single, justified resolution of it.
THEOREM WorkersDeliver == PromptClaim /\ Spec => ImplementsDelivery
  <1> SUFFICES ASSUME PromptClaim PROVE Spec => Delivery!AbsSpec
    BY DEF ImplementsDelivery
  <1>1. TypeInv /\ LeaseInv /\ [Next]_vars => LeaseInv'
    BY LeaseNext
  <1>2. TypeInv /\ LeaseInv /\ LeaseInv' /\ IdentityInv /\ [Next]_vars => IdentityInv'
    BY IdentityNext
  <1>3. TypeInv /\ ReplyInv /\ [Next]_vars => ReplyInv'
    BY ReplyNext
  <1>4. TypeInv /\ IdentityInv /\ IdentityInv' /\ ReplyInv /\ [Next]_vars
          => [Delivery!AbsNext]_(Delivery!absVars)
    BY AbstractStep
  <1> QED
    BY <1>1, <1>2, <1>3, <1>4, LeaseInit, IdentityInit, ReplyInit, AbstractInit,
       TypeInit, TypeNext, PTL DEF Spec, Delivery!AbsSpec
=============================================================================
