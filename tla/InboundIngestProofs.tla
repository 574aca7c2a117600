------------------------ MODULE InboundIngestProofs ------------------------
(***************************************************************************)
(* Proofs about InboundIngest: whatever syncs overlap and fail, a message  *)
(* is one row, holds what its identity names, and is never passed over by  *)
(* a cursor that never moves back.                                         *)
(***************************************************************************)
EXTENDS InboundIngest, FiniteSetTheorems, WellFoundedInduction, TLAPS

IngestInv ==
    /\ TypeOK /\ IsFiniteSet(stored)
    /\ FolderInv /\ SyncInv
    /\ StoredOnce /\ RightIdentity /\ NoneSkipped

-----------------------------------------------------------------------------
(* The numbers                                                             *)

LEMMA MinUid ==
  ASSUME NEW S \in SUBSET Uid, S # {}
  PROVE  Min(S) \in S /\ \A y \in S : Min(S) <= y
  <1>1. S \subseteq Nat
    BY IngestAssumption DEF Uid
  <1>2. PICK m \in S : \A y \in S : <<y, m>> \notin OpToRel(<, Nat)
    BY <1>1, WFMin, NatLessThanWellFounded, Zenon
  <1>3. \A y \in S : ~ (y < m)
    BY <1>1, <1>2, Zenon DEF OpToRel
  <1>4. \A y \in S : m <= y
    BY <1>1, <1>3, SMT
  <1> QED
    BY <1>4, Zenon DEF Min

LEMMA NextUid ==
  ASSUME mailbox \in Mailbox
  PROVE  /\ Max({1, mailbox.next}) \in Nat
         /\ Max({1, mailbox.next}) >= 1
         /\ Max({1, mailbox.next}) >= mailbox.next
  <1> DEFINE n == mailbox.next
  <1>1. n \in Nat
    BY IngestAssumption DEF Mailbox
  <1> HIDE DEF n
  <1>2. \E x \in {1, n} : \A y \in {1, n} : x >= y
    BY <1>1
  <1>3. Max({1, n}) \in {1, n} /\ \A y \in {1, n} : Max({1, n}) >= y
    BY <1>2, Zenon DEF Max
  <1>4. Max({1, n}) \in Nat /\ Max({1, n}) >= 1 /\ Max({1, n}) >= n
    BY <1>1, <1>3
  <1> QED
    BY <1>4 DEF n

LEMMA Folder ==
  ASSUME NEW S \in SUBSET Uid
  PROVE  Cardinality(S) \in 0..MaxUid
  <1>1. IsFiniteSet(Uid) /\ Cardinality(Uid) = MaxUid
    BY FS_Interval, IngestAssumption DEF Uid
  <1>2. IsFiniteSet(S) /\ Cardinality(S) <= MaxUid
    BY <1>1, FS_Subset
  <1> QED
    BY <1>2, FS_CardinalityType, IngestAssumption

-----------------------------------------------------------------------------
(* One sync moves, or the folder does                                      *)

LEMMA Moves ==
  ASSUME TypeOK, SyncInv, NEW s \in Syncs, NEW j \in Sync, Goes(s, j),
         UNCHANGED mailbox, stored \subseteq stored', InOrder(j, mailbox, stored')
  PROVE  SyncInv' /\ (syncs \in [Syncs -> Sync])'
  <1>1. syncs' \in [Syncs -> Sync]
    BY DEF Goes, TypeOK
  <1>2. ASSUME NEW t \in Syncs PROVE InOrder(syncs'[t], mailbox, stored')
    <2>1. CASE t = s
      BY <2>1 DEF Goes, TypeOK
    <2>2. CASE t # s
      <3>1. syncs'[t] = syncs[t]
        BY <2>2 DEF Goes, TypeOK
      <3> QED
        BY <3>1 DEF SyncInv, InOrder
    <2> QED
      BY <2>1, <2>2
  <1> QED
    BY <1>1, <1>2 DEF SyncInv

LEMMA IdleSync == Idle \in Sync /\ \A rows : InOrder(Idle, mailbox, rows)
  BY DEF Idle, Sync, InOrder

(* The folder only gets newer: what a sync holds of it stays in order.     *)
LEMMA FolderMoves ==
  ASSUME TypeOK, SyncInv, mailbox' \in Mailbox, UNCHANGED <<syncs, stored>>,
         \/ mailbox'.validity > mailbox.validity
         \/ /\ mailbox'.validity = mailbox.validity
            /\ mailbox'.next >= mailbox.next
            /\ \A u \in mailbox'.present \ mailbox.present : u >= mailbox.next
  PROVE  /\ SyncInv'
         /\ \A c \in Cursor : Known(c, mailbox) => Known(c, mailbox')
  <1>1. /\ mailbox.next \in Nat /\ mailbox'.next \in Nat
        /\ mailbox.validity \in Nat /\ mailbox'.validity \in Nat
        /\ mailbox'.present \subseteq Nat /\ mailbox.present \subseteq Nat
    BY IngestAssumption DEF TypeOK, Mailbox, Uid, UidValidity
  <1>2. ASSUME NEW c \in Cursor, Known(c, mailbox) PROVE Known(c, mailbox')
    <2>1. c.validity \in Nat /\ c.uid \in Nat
      BY IngestAssumption DEF Cursor, UidValidity
    <2> QED
      BY <1>1, <1>2, <2>1 DEF Known
  <1>3. ASSUME NEW j \in Sync, InOrder(j, mailbox, stored)
        PROVE  InOrder(j, mailbox', stored)
    <2>1. j.cursor # None => Known(j.cursor, mailbox')
      BY <1>2, <1>3 DEF InOrder, Sync
    <2>2. ASSUME j.step \in {"ingest", "advance"} PROVE Prefix(j, mailbox')
      <3>1. Prefix(j, mailbox) /\ Known(j.cursor, mailbox) /\ j.from = j.cursor.validity
            /\ j.cursor \in Cursor
        BY <1>3, <2>2 DEF InOrder, Sync
      <3>2. j.todo \subseteq Nat /\ j.from \in Nat
        BY <3>1, IngestAssumption DEF Sync, Uid, UidValidity, Cursor
      <3>3. CASE mailbox'.validity > mailbox.validity
        BY <1>1, <3>1, <3>2, <3>3 DEF Prefix, Known
      <3>4. CASE /\ mailbox'.validity = mailbox.validity
                 /\ mailbox'.next >= mailbox.next
                 /\ \A u \in mailbox'.present \ mailbox.present : u >= mailbox.next
        <4> SUFFICES ASSUME mailbox.validity = j.from, NEW t \in j.todo
                     PROVE  /\ t < mailbox'.next
                            /\ \A u \in mailbox'.present \ j.todo : j.cursor.uid < u => t < u
          BY <3>4 DEF Prefix
        <4>1. t < mailbox.next /\ \A u \in mailbox.present \ j.todo : j.cursor.uid < u => t < u
          BY <3>1 DEF Prefix
        <4> QED
          BY <1>1, <3>2, <3>4, <4>1
      <3> QED
        BY <3>3, <3>4
    <2> QED
      BY <1>3, <2>1, <2>2 DEF InOrder
  <1> QED
    BY <1>2, <1>3 DEF SyncInv, TypeOK

-----------------------------------------------------------------------------
(* Each action keeps the invariant                                         *)

LEMMA IngestInit == Init => IngestInv
  <1> SUFFICES ASSUME Init PROVE IngestInv
    OBVIOUS
  <1>1. mailbox \in Mailbox /\ \A u \in mailbox.present : u < mailbox.next
    BY IngestAssumption DEF Init, Mailbox, Uid, UidValidity
  <1>2. TypeOK
    BY <1>1, IdleSync, IngestAssumption DEF Init, TypeOK
  <1>3. SyncInv
    BY IdleSync DEF Init, SyncInv
  <1> QED
    BY <1>1, <1>2, <1>3, FS_EmptySet
    DEF Init, IngestInv, FolderInv, StoredOnce, RightIdentity, NoneSkipped

LEMMA StartKeeps == ASSUME IngestInv, NEW s \in Syncs, Start(s) PROVE IngestInv'
  <1> DEFINE j == [Idle EXCEPT !.step = IF cursor = None THEN "state" ELSE "fetch",
                               !.cursor = cursor]
  <1>1. j \in Sync /\ Goes(s, j) /\ j.cursor = cursor
        /\ j.step = IF cursor = None THEN "state" ELSE "fetch"
    BY DEF IngestInv, TypeOK, Start, Sync, Idle
  <1> HIDE DEF j
  <1>2. InOrder(j, mailbox, stored)
    BY <1>1 DEF IngestInv, FolderInv, InOrder
  <1>3. SyncInv' /\ (syncs \in [Syncs -> Sync])'
    BY <1>1, <1>2, Moves DEF IngestInv, Start
  <1> QED
    BY <1>3 DEF IngestInv, Start, TypeOK, FolderInv, StoredOnce, RightIdentity, NoneSkipped,
                Unseen

LEMMA ReadStateKeeps == ASSUME IngestInv, NEW s \in Syncs, ReadState(s) PROVE IngestInv'
  <1> DEFINE c == [validity |-> mailbox.validity, uid |-> Baseline(mailbox.next)]
             j == [syncs[s] EXCEPT !.step = "bootstrap", !.cursor = c]
  <1>1. c \in Cursor /\ c # None /\ Known(c, mailbox)
    <2>1. mailbox.next \in 0..(MaxUid + 1) /\ mailbox.validity \in UidValidity
      BY DEF IngestInv, TypeOK, Mailbox
    <2>2. c.uid \in 0..MaxUid /\ (c.uid = 0 \/ c.uid < mailbox.next)
      BY <2>1, IngestAssumption DEF Baseline
    <2>3. mailbox.validity <= mailbox.validity
      BY <2>1, IngestAssumption DEF UidValidity
    <2> QED
      BY <2>1, <2>2, <2>3, NoneAssumption DEF Cursor, Known
  <1> HIDE DEF c
  <1>2. j \in Sync /\ j.cursor = c /\ j.step = "bootstrap" /\ Goes(s, j)
    BY <1>1 DEF IngestInv, TypeOK, ReadState, Sync, c
  <1> HIDE DEF j
  <1>3. InOrder(j, mailbox, stored)
    BY <1>1, <1>2 DEF InOrder
  <1>4. SyncInv' /\ (syncs \in [Syncs -> Sync])'
    BY <1>2, <1>3, Moves DEF IngestInv, ReadState
  <1> QED
    BY <1>4 DEF IngestInv, ReadState, TypeOK, FolderInv, StoredOnce, RightIdentity,
                NoneSkipped, Unseen

LEMMA BootstrapKeeps == ASSUME IngestInv, NEW s \in Syncs, Bootstrap(s) PROVE IngestInv'
  <1> DEFINE new == syncs[s].cursor
  <1>1. new \in Cursor /\ new # None /\ Known(new, mailbox)
    BY DEF IngestInv, TypeOK, Bootstrap, SyncInv, InOrder, Sync
  <1> HIDE DEF new
  <1>2. SyncInv' /\ (syncs \in [Syncs -> Sync])'
    BY IdleSync, Moves DEF IngestInv, Bootstrap, Ends
  <1>3. TypeOK' /\ IsFiniteSet(stored')
    BY <1>1, <1>2 DEF IngestInv, TypeOK, Bootstrap, Establishes, new
  <1>4. FolderInv'
    BY <1>1 DEF IngestInv, FolderInv, Bootstrap, Establishes, new
  <1>5. NoneSkipped'
    <2>1. CASE cursor = None
      <3>1. cursor' = new /\ base' = new /\ new.uid \in Nat /\ mailbox'.present \subseteq Nat
        BY <1>1, <2>1, IngestAssumption
        DEF Bootstrap, Establishes, Cursor, IngestInv, TypeOK, Mailbox, Uid, new
      <3> QED
        BY <3>1 DEF NoneSkipped
    <2>2. CASE cursor # None
      BY <2>2 DEF IngestInv, Bootstrap, Establishes, NoneSkipped, Unseen
    <2> QED
      BY <2>1, <2>2
  <1> QED
    BY <1>2, <1>3, <1>4, <1>5 DEF IngestInv, Bootstrap, StoredOnce, RightIdentity

LEMMA FetchKeeps == ASSUME IngestInv, NEW s \in Syncs, Fetch(s) PROVE IngestInv'
  <1>1. PICK batch \in Batch(Beyond(syncs[s].cursor.uid)) :
          Goes(s, IF SameMailbox(syncs[s].cursor) /\ batch # {}
                  THEN [syncs[s] EXCEPT !.step = "ingest", !.todo = batch,
                                        !.from = mailbox.validity]
                  ELSE Idle)
    BY DEF Fetch
  <1>2. SyncInv' /\ (syncs \in [Syncs -> Sync])'
    <2>1. CASE SameMailbox(syncs[s].cursor) /\ batch # {}
      <3> DEFINE c == syncs[s].cursor
                 j == [syncs[s] EXCEPT !.step = "ingest", !.todo = batch,
                                       !.from = mailbox.validity]
      <3>1. c \in Cursor /\ c # None /\ Known(c, mailbox) /\ c.validity = mailbox.validity
        BY <2>1 DEF IngestInv, TypeOK, Fetch, SyncInv, InOrder, Sync, SameMailbox
      <3>2. batch \subseteq mailbox.present
            /\ \A u \in batch : c.uid < u /\ u <= mailbox.next - 1
        BY DEF Batch, Beyond
      <3>3. \A u \in mailbox.present \ batch, t \in batch : c.uid < u => t < u
        <4> SUFFICES ASSUME NEW u \in mailbox.present \ batch, NEW t \in batch, c.uid < u
                     PROVE  t < u
          OBVIOUS
        <4>1. u < mailbox.next /\ u \in Nat /\ mailbox.next \in Nat
          BY IngestAssumption DEF IngestInv, FolderInv, TypeOK, Mailbox, Uid
        <4>2. u \in Beyond(c.uid) \ batch
          BY <4>1 DEF Beyond
        <4> QED
          BY <4>2 DEF Batch
      <3> HIDE DEF c
      <3>4. /\ j \in Sync /\ Goes(s, j)
            /\ j.step = "ingest" /\ j.todo = batch /\ j.from = mailbox.validity
            /\ j.cursor = c
        BY <1>1, <2>1, <3>2 DEF IngestInv, TypeOK, Sync, Mailbox, c
      <3> HIDE DEF j
      <3>5. mailbox.next \in Nat /\ batch \subseteq Nat
        BY <3>2, IngestAssumption DEF IngestInv, TypeOK, Mailbox, Uid
      <3>6. \A u \in batch : u < mailbox.next
        BY <3>2, <3>5
      <3>7. Prefix(j, mailbox)
        BY <3>3, <3>4, <3>6 DEF Prefix
      <3>8. InOrder(j, mailbox, stored)
        BY <2>1, <3>1, <3>2, <3>4, <3>7 DEF InOrder
      <3> QED
        BY <3>4, <3>8, Moves DEF IngestInv, Fetch
    <2>2. CASE ~ (SameMailbox(syncs[s].cursor) /\ batch # {})
      BY <1>1, <2>2, IdleSync, Moves DEF IngestInv, Fetch
    <2> QED
      BY <2>1, <2>2
  <1> QED
    BY <1>2 DEF IngestInv, Fetch, TypeOK, FolderInv, StoredOnce, RightIdentity, NoneSkipped,
                Unseen

LEMMA IngestKeeps == ASSUME IngestInv, NEW s \in Syncs, Ingest(s) PROVE IngestInv'
  <1> DEFINE j == syncs[s]
             uid == Min(j.todo)
             row == [id |-> Cardinality(stored) + 1, validity |-> j.cursor.validity,
                     uid |-> uid, was |-> <<j.from, uid>>]
             after == [j EXCEPT !.step = "advance"]
  <1>1. /\ j \in Sync /\ j.step = "ingest" /\ j.cursor \in Cursor /\ j.cursor # None
        /\ InOrder(j, mailbox, stored)
        /\ j.todo \in SUBSET Uid /\ j.todo # {} /\ j.from = j.cursor.validity
    BY DEF Ingest, IngestInv, TypeOK, SyncInv, InOrder, Sync
  <1>2. uid \in Uid
    BY <1>1, MinUid
  <1>3. row \in EmailMessage /\ row.was = <<row.validity, row.uid>>
        /\ row.validity = j.cursor.validity /\ row.uid = uid
    BY <1>1, <1>2, FS_CardinalityType DEF IngestInv, EmailMessage, Cursor
  <1>4. stored' = IF Unseen(j.cursor.validity, uid) THEN stored \union {row} ELSE stored
    BY DEF Ingest
  <1>5. after \in Sync /\ Goes(s, after) /\ after.step = "advance" /\ after.todo = j.todo
        /\ after.cursor = j.cursor /\ after.from = j.from
    BY <1>1 DEF Ingest, Sync
  <1> HIDE DEF row, uid, after, j
  <1>6. \E m \in stored' : m.validity = j.cursor.validity /\ m.uid = uid
    <2>1. CASE Unseen(j.cursor.validity, uid)
      BY <1>3, <1>4, <2>1
    <2>2. CASE ~Unseen(j.cursor.validity, uid)
      BY <1>4, <2>2 DEF Unseen
    <2> QED
      BY <2>1, <2>2
  <1>7. stored \subseteq stored' /\ stored' \in SUBSET EmailMessage /\ IsFiniteSet(stored')
    BY <1>3, <1>4, FS_AddElement DEF IngestInv, TypeOK
  <1>8. InOrder(after, mailbox, stored')
    BY <1>1, <1>5, <1>6 DEF InOrder, Prefix, uid
  <1>9. SyncInv' /\ (syncs \in [Syncs -> Sync])'
    BY <1>5, <1>7, <1>8, Moves DEF IngestInv, Ingest
  <1>10. StoredOnce'
    BY <1>3, <1>4 DEF IngestInv, StoredOnce, Unseen
  <1>11. RightIdentity'
    BY <1>3, <1>4 DEF IngestInv, RightIdentity
  <1>12. NoneSkipped'
    BY <1>7 DEF IngestInv, Ingest, NoneSkipped, Unseen
  <1> QED
    BY <1>7, <1>9, <1>10, <1>11, <1>12 DEF IngestInv, Ingest, TypeOK, FolderInv

(* The heart of it: what the cursor is moved past has been stored.         *)
LEMMA AdvanceKeeps == ASSUME IngestInv, NEW s \in Syncs, Advance(s) PROVE IngestInv'
  <1> DEFINE j == syncs[s]
             uid == Min(j.todo)
             new == [j.cursor EXCEPT !.uid = uid]
             left == j.todo \ {uid}
             after == [j EXCEPT !.step = "ingest", !.cursor = new, !.todo = left]
  <1>1. /\ j \in Sync /\ j.step = "advance" /\ j.cursor \in Cursor /\ j.cursor # None
        /\ Known(j.cursor, mailbox) /\ Prefix(j, mailbox)
        /\ j.todo \in SUBSET Uid /\ j.todo # {} /\ j.from = j.cursor.validity
        /\ \A t \in j.todo : j.cursor.uid < t
        /\ \E m \in stored : m.validity = j.cursor.validity /\ m.uid = uid
    BY DEF Advance, IngestInv, TypeOK, SyncInv, InOrder, Sync
  <1>2. uid \in j.todo /\ uid \in Uid /\ \A t \in j.todo : uid <= t
    BY <1>1, MinUid
  <1>3. Uid \subseteq Nat /\ mailbox.present \subseteq Nat /\ j.cursor.uid \in Nat
        /\ j.todo \subseteq Nat /\ mailbox.present \subseteq Uid
    BY <1>1, IngestAssumption DEF Uid, Cursor, IngestInv, TypeOK, Mailbox
  <1>4. new \in Cursor /\ new # None /\ new.uid = uid /\ new.validity = j.cursor.validity
    BY <1>1, <1>2, IngestAssumption, NoneAssumption DEF Cursor, Uid
  <1>5. Known(new, mailbox)
    BY <1>1, <1>2, <1>4 DEF Known, Prefix
  <1>6. /\ cursor' = IF Advances(s) THEN new ELSE cursor
        /\ Goes(s, IF Advances(s) /\ left # {} THEN after ELSE Idle)
    BY DEF Advance
  <1>7. after \in Sync /\ after.step = "ingest" /\ after.cursor = new /\ after.todo = left
        /\ after.from = j.from
    BY <1>1, <1>4 DEF Sync
  <1> HIDE DEF new, after, uid, j
  <1>8. \A t \in left : uid < t
    BY <1>2, <1>3
  <1>9. Prefix(after, mailbox)
    <2> SUFFICES ASSUME mailbox.validity = j.from, NEW t \in left
                 PROVE  /\ t < mailbox.next
                        /\ \A u \in mailbox.present \ left : uid < u => t < u
      BY <1>4, <1>7 DEF Prefix
    <2>1. t < mailbox.next
      BY <1>1 DEF Prefix
    <2>2. ASSUME NEW u \in mailbox.present \ left, uid < u PROVE t < u
      <3>1. u \notin j.todo /\ j.cursor.uid < u
        BY <1>1, <1>2, <1>3, <2>2
      <3> QED
        BY <1>1, <3>1 DEF Prefix
    <2> QED
      BY <2>1, <2>2
  <1>10. left # {} => InOrder(after, mailbox, stored)
    BY <1>1, <1>4, <1>5, <1>7, <1>8, <1>9 DEF InOrder
  <1>11. SyncInv' /\ (syncs \in [Syncs -> Sync])'
    BY <1>6, <1>7, <1>10, IdleSync, Moves DEF IngestInv, Advance
  <1>12. FolderInv'
    BY <1>1, <1>5, <1>6 DEF IngestInv, Advance, FolderInv, Advances, j
  <1>13. NoneSkipped'
    <2>1. CASE ~Advances(s)
      BY <1>6, <2>1 DEF IngestInv, Advance, NoneSkipped, Unseen
    <2>2. CASE Advances(s)
      <3> SUFFICES ASSUME new.validity = mailbox.validity, NEW u \in mailbox.present,
                          base.uid < u, u <= uid
                   PROVE  ~Unseen(new.validity, u)
        BY <1>4, <1>6, <2>2 DEF Advance, NoneSkipped, Unseen
      <3>1. CASE u <= j.cursor.uid
        BY <1>1, <1>4, <2>2, <3>1 DEF IngestInv, NoneSkipped, Advances, j
      <3>2. CASE u \in j.todo
        <4>1. u = uid
          BY <1>2, <1>3, <3>2
        <4> QED
          BY <1>1, <1>4, <4>1 DEF Unseen
      <3>3. CASE ~(u <= j.cursor.uid) /\ u \notin j.todo
        <4>1. j.cursor.uid < u
          BY <1>3, <3>3
        <4>2. uid < u
          BY <1>1, <1>2, <1>4, <3>3, <4>1 DEF Prefix
        <4> QED
          BY <1>2, <1>3, <4>2
      <3> QED
        BY <3>1, <3>2, <3>3
    <2> QED
      BY <2>1, <2>2
  <1>14. TypeOK'
    BY <1>4, <1>6, <1>11 DEF IngestInv, Advance, TypeOK
  <1> QED
    BY <1>11, <1>12, <1>13, <1>14 DEF IngestInv, Advance, StoredOnce, RightIdentity

LEMMA FailKeeps == ASSUME IngestInv, NEW s \in Syncs, Fail(s) PROVE IngestInv'
  <1>1. SyncInv' /\ (syncs \in [Syncs -> Sync])'
    BY IdleSync, Moves DEF IngestInv, Fail, Ends
  <1>2. changes' \in 0..MaxChanges
    BY IngestAssumption DEF IngestInv, TypeOK, Fail, Change
  <1> QED
    BY <1>1, <1>2 DEF IngestInv, Fail, TypeOK, FolderInv, StoredOnce, RightIdentity,
                      NoneSkipped, Unseen

LEMMA DeliverKeeps == ASSUME IngestInv, Deliver PROVE IngestInv'
  <1> DEFINE uid == Max({1, mailbox.next})
  <1>1. mailbox \in Mailbox /\ uid \in Nat /\ uid >= 1 /\ uid >= mailbox.next
    BY NextUid DEF IngestInv, TypeOK
  <1>2. uid <= MaxUid
        /\ mailbox' = [mailbox EXCEPT !.next = uid + 1, !.present = @ \union {uid}]
    BY DEF Deliver
  <1> HIDE DEF uid
  <1>3. /\ mailbox' \in Mailbox /\ mailbox'.next = uid + 1
        /\ mailbox'.present = mailbox.present \union {uid}
        /\ mailbox'.validity = mailbox.validity
    <2>1. uid \in Uid /\ uid + 1 \in 0..(MaxUid + 1)
      BY <1>1, <1>2, IngestAssumption DEF Uid
    <2> QED
      BY <1>1, <1>2, <2>1 DEF Mailbox
  <1>4. mailbox.next \in Nat /\ mailbox.present \subseteq Nat
    BY <1>1, IngestAssumption DEF Mailbox, Uid
  <1>5. UNCHANGED <<syncs, stored>> /\ mailbox'.next >= mailbox.next
    BY <1>1, <1>3, <1>4 DEF Deliver
  <1>6. SyncInv' /\ \A c \in Cursor : Known(c, mailbox) => Known(c, mailbox')
    BY <1>1, <1>3, <1>5, FolderMoves DEF IngestInv
  <1>7. FolderInv'
    <2>1. \A u \in mailbox'.present : u < mailbox'.next
      BY <1>1, <1>3, <1>4 DEF IngestInv, FolderInv
    <2> QED
      BY <1>6, <2>1 DEF IngestInv, FolderInv, TypeOK, Deliver
  <1>8. NoneSkipped'
    <2> SUFFICES ASSUME cursor # None, cursor.validity = mailbox.validity,
                        base.uid < uid, uid <= cursor.uid
                 PROVE  FALSE
      BY <1>3 DEF Deliver, IngestInv, NoneSkipped, Unseen
    <2>1. cursor.uid \in Nat /\ (cursor.uid = 0 \/ cursor.uid < mailbox.next)
      BY IngestAssumption DEF IngestInv, FolderInv, Known, TypeOK, Cursor
    <2> QED
      BY <1>1, <1>4, <2>1
  <1> QED
    BY <1>3, <1>6, <1>7, <1>8 DEF IngestInv, Deliver, TypeOK, StoredOnce, RightIdentity

LEMMA ExpungeKeeps == ASSUME IngestInv, Expunge PROVE IngestInv'
  <1>1. PICK uid \in mailbox.present : mailbox' = [mailbox EXCEPT !.present = @ \ {uid}]
    BY DEF Expunge
  <1>2. /\ mailbox' \in Mailbox /\ mailbox'.next = mailbox.next /\ mailbox.next \in Nat
        /\ mailbox'.present \subseteq mailbox.present
        /\ mailbox'.validity = mailbox.validity
    BY <1>1, IngestAssumption DEF IngestInv, TypeOK, Mailbox
  <1>3. UNCHANGED <<syncs, stored>> /\ mailbox'.next >= mailbox.next
    BY <1>2 DEF Expunge
  <1>4. SyncInv' /\ \A c \in Cursor : Known(c, mailbox) => Known(c, mailbox')
    BY <1>2, <1>3, FolderMoves DEF IngestInv
  <1>5. FolderInv' /\ NoneSkipped'
    BY <1>2, <1>4 DEF IngestInv, FolderInv, TypeOK, Expunge, NoneSkipped, Unseen
  <1>6. changes' \in 0..MaxChanges
    BY IngestAssumption DEF IngestInv, TypeOK, Expunge, Change
  <1> QED
    BY <1>2, <1>4, <1>5, <1>6 DEF IngestInv, Expunge, TypeOK, StoredOnce, RightIdentity

LEMMA RebuildKeeps == ASSUME IngestInv, Rebuild PROVE IngestInv'
  <1> DEFINE n == Cardinality(mailbox.present)
  <1>1. n \in 0..MaxUid /\ mailbox.validity \in UidValidity
    BY Folder DEF IngestInv, TypeOK, Mailbox
  <1>2. /\ mailbox.validity < MaxUidValidity
        /\ mailbox' = [validity |-> mailbox.validity + 1, next |-> n + 1, present |-> 1..n]
    BY DEF Rebuild
  <1> HIDE DEF n
  <1>3. mailbox' \in Mailbox /\ mailbox'.validity > mailbox.validity
        /\ \A u \in mailbox'.present : u < mailbox'.next
    BY <1>1, <1>2, IngestAssumption DEF Mailbox, Uid, UidValidity
  <1>4. SyncInv' /\ \A c \in Cursor : Known(c, mailbox) => Known(c, mailbox')
    BY <1>3, FolderMoves DEF IngestInv, Rebuild
  <1>5. FolderInv'
    BY <1>3, <1>4 DEF IngestInv, FolderInv, TypeOK, Rebuild
  <1>6. NoneSkipped'
    <2> SUFFICES ASSUME cursor # None, cursor.validity = mailbox'.validity PROVE FALSE
      BY DEF Rebuild, NoneSkipped
    <2>1. cursor.validity <= mailbox.validity /\ cursor.validity \in Nat
      BY IngestAssumption DEF IngestInv, FolderInv, Known, TypeOK, Cursor, UidValidity
    <2> QED
      BY <1>1, <1>3, <2>1, IngestAssumption DEF UidValidity
  <1> QED
    BY <1>3, <1>4, <1>5, <1>6 DEF IngestInv, Rebuild, TypeOK, StoredOnce, RightIdentity

LEMMA ResetKeeps == ASSUME IngestInv, ResetCursor \/ Switch PROVE IngestInv'
  <1>1. changes' \in 0..MaxChanges
    BY IngestAssumption DEF IngestInv, TypeOK, ResetCursor, Switch, Change
  <1>2. enabled' \in BOOLEAN
    BY Zenon DEF IngestInv, TypeOK, ResetCursor, Switch
  <1> QED
    BY <1>1, <1>2 DEF IngestInv, ResetCursor, Switch, TypeOK, FolderInv, SyncInv, StoredOnce,
                RightIdentity, NoneSkipped, Unseen

LEMMA IngestNext == IngestInv /\ [Next]_vars => IngestInv'
  <1> SUFFICES ASSUME IngestInv, [Next]_vars PROVE IngestInv'
    OBVIOUS
  <1>1. CASE UNCHANGED vars
    BY <1>1 DEF vars, IngestInv, TypeOK, FolderInv, SyncInv, StoredOnce, RightIdentity,
                NoneSkipped, Unseen
  <1>2. ASSUME NEW s \in Syncs, Work(s) \/ Fail(s) PROVE IngestInv'
    BY <1>2, StartKeeps, ReadStateKeeps, BootstrapKeeps, FetchKeeps, IngestKeeps,
       AdvanceKeeps, FailKeeps DEF Work
  <1> QED
    BY <1>1, <1>2, DeliverKeeps, ExpungeKeeps, RebuildKeeps, ResetKeeps DEF Next

-----------------------------------------------------------------------------
(* Theorems                                                                *)

\* Every state has the types that are declared for it.
THEOREM TypeCorrect == Spec => []TypeOK
  <1>1. IngestInv => TypeOK
    BY DEF IngestInv
  <1> QED
    BY <1>1, IngestInit, IngestNext, PTL DEF Spec

\* For any number of overlapping syncs, a message of the folder is one
\* EmailMessage.
THEOREM OneRowPerMessage == Spec => []StoredOnce
  <1>1. IngestInv => StoredOnce
    BY DEF IngestInv
  <1> QED
    BY <1>1, IngestInit, IngestNext, PTL DEF Spec

\* A row holds the message its imapIdentityKey names, also when the folder was
\* rebuilt between the statements of the sync that wrote it.
THEOREM RowsHoldTheirMessage == Spec => []RightIdentity
  <1>1. IngestInv => RightIdentity
    BY DEF IngestInv
  <1> QED
    BY <1>1, IngestInit, IngestNext, PTL DEF Spec

\* A cursor never passes a message that is in the folder and not stored.
THEOREM CursorHidesNothing == Spec => []NoneSkipped
  <1>1. IngestInv => NoneSkipped
    BY DEF IngestInv
  <1> QED
    BY <1>1, IngestInit, IngestNext, PTL DEF Spec

LEMMA CursorStep ==
  ASSUME IngestInv, [Next]_vars, cursor # None, cursor' # None
  PROVE  cursor'.validity = cursor.validity /\ cursor'.uid >= cursor.uid
  <1>1. cursor \in Cursor /\ cursor.uid \in Nat
    BY IngestAssumption DEF IngestInv, TypeOK, Cursor
  <1>2. ASSUME NEW s \in Syncs, Advance(s), Advances(s)
        PROVE  cursor'.validity = cursor.validity /\ cursor'.uid >= cursor.uid
    <2>1. /\ syncs[s].todo \in SUBSET Uid /\ syncs[s].todo # {}
          /\ \A t \in syncs[s].todo : cursor.uid < t
      BY <1>2 DEF Advance, Advances, IngestInv, TypeOK, SyncInv, InOrder, Sync
    <2>2. cursor.uid < Min(syncs[s].todo) /\ Min(syncs[s].todo) \in Nat
      BY <2>1, MinUid, IngestAssumption DEF Uid
    <2>3. cursor' = [cursor EXCEPT !.uid = Min(syncs[s].todo)]
      BY <1>2 DEF Advance, Advances
    <2> QED
      BY <1>1, <2>2, <2>3 DEF Cursor
  <1>3. cursor' = cursor \/ \E s \in Syncs : Advance(s) /\ Advances(s)
    BY DEF Next, vars, Work, Start, ReadState, Bootstrap, Establishes, Fetch, Ingest, Advance,
           Fail, Deliver, Expunge, Rebuild, ResetCursor, Switch
  <1> QED
    BY <1>1, <1>2, <1>3

\* Of any number of syncs none moves the cursor back, a stale one included.
THEOREM CursorMonotone == Spec => CursorNeverBack
  <1>1. IngestInv /\ [Next]_vars =>
          [cursor # None /\ cursor' # None =>
             cursor'.validity = cursor.validity /\ cursor'.uid >= cursor.uid]_vars
    BY CursorStep
  <1> QED
    BY <1>1, IngestInit, IngestNext, PTL DEF Spec, CursorNeverBack
=============================================================================
