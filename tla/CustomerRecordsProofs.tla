----------------------- MODULE CustomerRecordsProofs -----------------------
(***************************************************************************)
(* Proofs about a customer's records as operators on stale pages keep      *)
(* them, for any number of operators and records: contact channels         *)
(* (CustomerChannels), creation and deletion (CustomerDirectory),          *)
(* subscriptions (Subscriptions), and the rows of an imported workbook     *)
(* (ImportDesk, WorkbookRow). Each part stands on its own module.                       *)
(***************************************************************************)
EXTENDS CustomerChannels, CustomerDirectory, Subscriptions, ImportDesk, WorkbookRow,
        WellFoundedInduction, TLAPS

(***************************************************************************)
(* CUSTOMERCHANNELS: stale pages and overlapping writes leave one primary  *)
(* channel at most.                                                        *)
(***************************************************************************)

-----------------------------------------------------------------------------
(* The oldest channel                                                      *)

LEMMA Oldest ==
  ASSUME ChannelsAssumption, NEW S \in SUBSET Channels, S # {}
  PROVE  \E m \in S : \A y \in S : m <= y
  <1>1. S \subseteq Nat
    BY DEF ChannelsAssumption
  <1>2. PICK m \in S : \A y \in S : <<y, m>> \notin OpToRel(<, Nat)
    BY <1>1, WFMin, NatLessThanWellFounded, Zenon
  <1>3. \A y \in S : ~ (y < m)
    BY <1>1, <1>2, Zenon DEF OpToRel
  <1> QED
    BY <1>1, <1>3

LEMMA ResolvedType ==
  ASSUME ChannelsAssumption, NEW rows
  PROVE  /\ Resolved(rows) \in Channels \union {0}
         /\ Resolved(rows) # 0 <=> PrimaryOf(rows) # {}
         /\ Resolved(rows) # 0 => Resolved(rows) \in PrimaryOf(rows)
  <1>1. PrimaryOf(rows) \in SUBSET Channels
    BY DEF PrimaryOf
  <1>2. CASE PrimaryOf(rows) = {}
    BY <1>2 DEF Resolved
  <1>3. CASE PrimaryOf(rows) # {}
    <2>1. \E m \in PrimaryOf(rows) : \A y \in PrimaryOf(rows) : m <= y
      BY <1>1, <1>3, Oldest
    <2>2. Resolved(rows) \in PrimaryOf(rows)
      BY <1>3, <2>1, Zenon DEF Resolved
    <2> QED
      BY <1>1, <1>3, <2>2 DEF ChannelsAssumption
  <1> QED
    BY <1>2, <1>3

LEMMA OpenedType ==
  ASSUME ChannelsAssumption, Channels # {}, NEW rows \in Entries
  PROVE  Opened(rows) \in Clerk /\ Opened(rows).at = "page"
  <1>1. (CHOOSE c \in Channels : \A x \in Channels : c <= x) \in Channels
    <2>1. \E c \in Channels : \A x \in Channels : c <= x
      BY Oldest
    <2> QED
      BY <2>1, Zenon
  <1> QED
    BY <1>1 DEF Opened, Clerk

LEMMA WrittenEntryType ==
  ASSUME NEW j \in Clerk, NEW row \in Entry
  PROVE  /\ WrittenEntry(j, row) \in Entry
         /\ Promotes(j) => WrittenEntry(j, row).primary
         /\ ~Promotes(j) /\ WrittenEntry(j, row).primary => row.primary
  BY DEF WrittenEntry, Promotes, Clerk, Entry

LEMMA AppliedType ==
  ASSUME NEW j \in Clerk, NEW drop \in SUBSET Channels, NEW rows \in Entries
  PROVE  Applied(j, drop, rows) \in Entries
  <1>1. \A c \in Channels : WrittenEntry(j, rows[c]) \in Entry
    BY WrittenEntryType DEF Entries
  <1>2. \A c \in Channels : [rows[c] EXCEPT !.primary = FALSE] \in Entry
    BY DEF Entries, Entry
  <1> QED
    BY <1>1, <1>2 DEF Applied, Entries

-----------------------------------------------------------------------------
(* The invariant                                                           *)

(* A promotion that is written holds the rows it demotes; nobody else has  *)
(* written then, and two other writes are of different rows.               *)
LockInv ==
    \A k \in Clerks : clerk[k].at = "commit" =>
        /\ clerk[k].drop = Dropped(clerk[k], channel)
        /\ \A x \in Clerks \ {k} : clerk[x].at = "commit" =>
             ~Promotes(clerk[k]) /\ ~Promotes(clerk[x]) /\ clerk[k].id # clerk[x].id

ChannelsInv == Channels # {} /\ ChannelsTypeOK /\ LockInv /\ OnePrimary

-----------------------------------------------------------------------------
(* Pages and transactions                                                  *)

\* A clerk that is not committing, and nothing else, changes.
LEMMA ClerkKeeps ==
  ASSUME ChannelsInv, NEW k \in Clerks, NEW j \in Clerk, j.at # "commit",
         clerk' = [clerk EXCEPT ![k] = j], UNCHANGED <<kind, channel, scalar, overtaken>>,
         requests' \in 0..MaxRequests
  PROVE  ChannelsInv'
  <1>1. clerk' \in [Clerks -> Clerk] /\ \A x \in Clerks : clerk'[x] = IF x = k THEN j ELSE clerk[x]
    BY DEF ChannelsInv, ChannelsTypeOK
  <1>2. ChannelsTypeOK'
    BY <1>1 DEF ChannelsInv, ChannelsTypeOK
  <1>3. LockInv'
    BY <1>1 DEF ChannelsInv, LockInv, Dropped, Promotes
  <1> QED
    BY <1>2, <1>3 DEF ChannelsInv, OnePrimary

LEMMA PageKeeps ==
  ASSUME ChannelsAssumption, ChannelsInv, NEW k \in Clerks,
         LoadPage(k) \/ AddChannel(k) \/ EditChannel(k) \/ SwitchChannel(k)
  PROVE  ChannelsInv'
  <1>1. clerk[k] \in Clerk /\ channel \in Entries /\ requests \in 0..MaxRequests
    BY DEF ChannelsInv, ChannelsTypeOK
  <1>2. CASE LoadPage(k)
    <2>1. clerk' = [clerk EXCEPT ![k] = [clerk[k] EXCEPT !.copy = channel]]
      BY <1>2 DEF LoadPage, ChannelsInv, ChannelsTypeOK
    <2>2. [clerk[k] EXCEPT !.copy = channel] \in Clerk /\ clerk[k].at = "page"
      BY <1>1, <1>2 DEF LoadPage, Clerk
    <2>3. [clerk[k] EXCEPT !.copy = channel].at = "page"
      BY <1>1, <2>2 DEF Clerk
    <2> QED
      BY <1>1, <1>2, <2>1, <2>2, <2>3, ClerkKeeps DEF LoadPage
  <1>3. ASSUME NEW j \in Clerk, j.at = "begun", SubmitChannel(k, j)
        PROVE  ChannelsInv'
    <2>1. requests' \in 0..MaxRequests
      BY <1>1, <1>3 DEF SubmitChannel, ChannelsAssumption
    <2> QED
      BY <1>3, <2>1, ClerkKeeps DEF SubmitChannel
  <1>4. CASE AddChannel(k)
    <2>1. PICK c \in Channels, p \in BOOLEAN :
            SubmitChannel(k, [clerk[k] EXCEPT !.at = "begun", !.op = "create", !.id = c,
                        !.primary = p, !.active = TRUE, !.seen = channel, !.bare = (scalar = 0)])
      BY <1>4, Zenon DEF AddChannel
    <2>2. (scalar = 0) \in BOOLEAN
      OBVIOUS
    <2> QED
      BY <1>1, <1>3, <2>1, <2>2 DEF Clerk
  <1>5. CASE EditChannel(k)
    <2>1. PICK c \in Channels, p \in BOOLEAN :
            SubmitChannel(k, [clerk[k] EXCEPT !.at = "begun", !.op = "save", !.id = c, !.primary = p])
      BY <1>5, Zenon DEF EditChannel
    <2> QED
      BY <1>1, <1>3, <2>1 DEF Clerk
  <1>6. CASE SwitchChannel(k)
    <2>1. PICK c \in Channels :
            SubmitChannel(k, [clerk[k] EXCEPT !.at = "begun", !.op = "switch", !.id = c,
                        !.active = ~clerk[k].copy[c].active])
      BY <1>6, Zenon DEF SwitchChannel
    <2>2. (~clerk[k].copy[c].active) \in BOOLEAN
      OBVIOUS
    <2> QED
      BY <1>1, <1>3, <2>1, <2>2 DEF Clerk
  <1> QED
    BY <1>2, <1>4, <1>5, <1>6

LEMMA AbortKeeps ==
  ASSUME ChannelsAssumption, ChannelsInv, NEW k \in Clerks, AbortChannel(k)
  PROVE  ChannelsInv'
  <1>1. clerk[k].copy \in Entries
    BY DEF ChannelsInv, ChannelsTypeOK, Clerk
  <1> QED
    BY <1>1, OpenedType, ClerkKeeps DEF AbortChannel, ChannelsInv, ChannelsTypeOK

LEMMA WriteKeeps ==
  ASSUME ChannelsAssumption, ChannelsInv, NEW k \in Clerks, WriteChannel(k)
  PROVE  ChannelsInv'
  <1> DEFINE d == Dropped(clerk[k], channel)
             f == IF kind = "email" THEN FoundEmail(clerk[k], channel)
                  ELSE FoundPhone(clerk[k], channel)
             j == [clerk[k] EXCEPT !.at = "commit", !.drop = d, !.found = f]
  <1>1. clerk[k] \in Clerk /\ clerk \in [Clerks -> Clerk]
    BY DEF ChannelsInv, ChannelsTypeOK
  <1>2. d \in SUBSET Channels
    BY DEF Dropped
  <1>3. f \in Channels \union {0}
    BY <1>1, ResolvedType DEF FoundEmail, FoundPhone, Clerk
  <1>4. clerk' = [clerk EXCEPT ![k] = j]
    BY <1>1 DEF WriteChannel
  <1> HIDE DEF d, f
  <1>5. /\ j \in Clerk /\ j.at = "commit" /\ j.drop = d /\ j.id = clerk[k].id
        /\ j.op = clerk[k].op /\ j.primary = clerk[k].primary
    BY <1>1, <1>2, <1>3 DEF Clerk
  <1> HIDE DEF j
  <1>6. clerk' \in [Clerks -> Clerk] /\ \A x \in Clerks : clerk'[x] = IF x = k THEN j ELSE clerk[x]
    BY <1>1, <1>4, <1>5
  <1>7. overtaken' \in BOOLEAN
    BY Zenon DEF WriteChannel
  <1>8. ChannelsTypeOK'
    BY <1>6, <1>7 DEF WriteChannel, ChannelsInv, ChannelsTypeOK
  <1>9. LockInv'
    <2> SUFFICES ASSUME NEW y \in Clerks, clerk'[y].at = "commit"
                 PROVE  /\ clerk'[y].drop = Dropped(clerk'[y], channel)
                        /\ \A x \in Clerks \ {y} : clerk'[x].at = "commit" =>
                             /\ ~Promotes(clerk'[y]) /\ ~Promotes(clerk'[x])
                             /\ clerk'[y].id # clerk'[x].id
      BY DEF LockInv, Promotes, Dropped, WriteChannel
    <2>1. Promotes(j) = Promotes(clerk[k])
      BY <1>5 DEF Promotes
    <2>2. Dropped(j, channel) = d
      BY <1>5, <2>1 DEF Dropped, d
    <2>3. \A x \in Clerks \ {k} : clerk[x].at = "commit" =>
            ~Promotes(clerk[x]) /\ ~Promotes(clerk[k]) /\ clerk[x].id # clerk[k].id
      BY DEF WriteChannel, Waits
    <2> QED
      BY <1>5, <1>6, <2>1, <2>2, <2>3 DEF ChannelsInv, LockInv
  <1> QED
    BY <1>8, <1>9 DEF ChannelsInv, OnePrimary, WriteChannel

LEMMA CommitKeeps ==
  ASSUME ChannelsAssumption, ChannelsInv, NEW k \in Clerks, CommitChannel(k)
  PROVE  ChannelsInv'
  <1> DEFINE j == clerk[k]
  <1>1. /\ j \in Clerk /\ clerk \in [Clerks -> Clerk] /\ channel \in Entries
        /\ j.drop \in SUBSET Channels /\ j.id \in Channels /\ j.at = "commit"
        /\ j.found \in Channels \union {0}
    BY DEF ChannelsInv, ChannelsTypeOK, CommitChannel, Clerk
  <1>2. channel' \in Entries /\ channel' = Applied(j, j.drop, channel)
    BY <1>1, AppliedType DEF CommitChannel
  <1>3. Opened(channel') \in Clerk /\ Opened(channel').at = "page"
    BY <1>2, OpenedType DEF ChannelsInv
  <1>4. /\ clerk' \in [Clerks -> Clerk]
        /\ \A x \in Clerks : clerk'[x] = IF x = k THEN Opened(channel') ELSE clerk[x]
    BY <1>1, <1>3 DEF CommitChannel
  <1>5. ChannelsTypeOK'
    BY <1>1, <1>2, <1>4 DEF ChannelsInv, ChannelsTypeOK, CommitChannel
  <1>6. j.drop = Dropped(j, channel)
    BY <1>1 DEF ChannelsInv, LockInv
  <1>7. \A c \in Channels :
          channel'[c] = IF c = j.id THEN WrittenEntry(j, channel[c])
                        ELSE IF c \in j.drop THEN [channel[c] EXCEPT !.primary = FALSE]
                        ELSE channel[c]
    BY <1>2 DEF Applied
  <1>8. CASE Promotes(j)
    <2>1. \A c \in Channels \ {j.id} : ~channel'[c].primary
      BY <1>1, <1>6, <1>7, <1>8 DEF Dropped, Entries, Entry
    <2>2. \A x \in Clerks : clerk'[x].at # "commit"
      BY <1>1, <1>3, <1>4, <1>8 DEF ChannelsInv, LockInv
    <2> QED
      BY <1>5, <2>1, <2>2 DEF ChannelsInv, OnePrimary, LockInv
  <1>9. CASE ~Promotes(j)
    <2>1. j.drop = {}
      BY <1>6, <1>9 DEF Dropped
    <2>2. \A c \in Channels : channel'[c].primary => channel[c].primary
      BY <1>1, <1>7, <1>9, <2>1, WrittenEntryType DEF Entries
    <2>3. OnePrimary'
      BY <2>2 DEF ChannelsInv, OnePrimary
    <2>4. LockInv'
      <3> SUFFICES ASSUME NEW y \in Clerks, clerk'[y].at = "commit"
                   PROVE  /\ clerk'[y].drop = Dropped(clerk'[y], channel')
                          /\ \A x \in Clerks \ {y} : clerk'[x].at = "commit" =>
                               /\ ~Promotes(clerk'[y]) /\ ~Promotes(clerk'[x])
                               /\ clerk'[y].id # clerk'[x].id
        BY DEF LockInv, Promotes, Dropped
      <3>1. y # k /\ clerk'[y] = clerk[y]
        BY <1>3, <1>4
      <3>2. \A x \in Clerks \ {y} : clerk'[x].at = "commit" => x # k /\ clerk'[x] = clerk[x]
        BY <1>3, <1>4
      <3>3. ~Promotes(clerk[y]) /\ clerk[y].drop = Dropped(clerk[y], channel)
        BY <1>1, <3>1 DEF ChannelsInv, LockInv
      <3>4. Dropped(clerk[y], channel) = {} /\ Dropped(clerk[y], channel') = {}
        BY <3>3 DEF Dropped
      <3> QED
        BY <3>1, <3>2, <3>3, <3>4 DEF ChannelsInv, LockInv
    <2> QED
      BY <1>5, <2>3, <2>4 DEF ChannelsInv
  <1> QED
    BY <1>8, <1>9

-----------------------------------------------------------------------------
(* The column                                                              *)

Unique(rows) == \A c, d \in Channels : (rows[c].primary /\ rows[d].primary) => c = d

After(k) == Applied(clerk[k], clerk[k].drop, channel)

(* What a transaction resolved is what its rows resolve to, or it resolved *)
(* nothing and the column says so already; and whichever row it resolved,  *)
(* no other one has become primary.                                        *)
FoundInv ==
    \A k \in Clerks : clerk[k].at = "commit" =>
        /\ Resolved(After(k)) # 0 =>
             \/ clerk[k].found = Resolved(After(k))
             \/ clerk[k].found = 0 /\ scalar = Resolved(After(k))
        /\ clerk[k].found # 0 => \A c \in Channels : After(k)[c].primary => c = clerk[k].found

ColumnInv == kind = "email" /\ ~overtaken => ColumnFollows /\ FoundInv

LEMMA UniqueResolved ==
  ASSUME ChannelsAssumption, NEW rows, Unique(rows), NEW c \in Channels,
         rows[c].primary, rows[c].active
  PROVE  Resolved(rows) = c
  <1>1. c \in PrimaryOf(rows) /\ \A d \in PrimaryOf(rows) : d = c
    BY DEF PrimaryOf, Unique
  <1> QED
    BY <1>1, ResolvedType

LEMMA ResolvedPrimary ==
  ASSUME ChannelsAssumption, NEW rows, Resolved(rows) # 0
  PROVE  /\ Resolved(rows) \in Channels
         /\ rows[Resolved(rows)].primary /\ rows[Resolved(rows)].active
  BY ResolvedType DEF PrimaryOf

LEMMA AppliedUnique ==
  ASSUME NEW j \in Clerk, NEW rows \in Entries, Unique(rows)
  PROVE  Unique(Applied(j, Dropped(j, rows), rows))
  <1> DEFINE A == Applied(j, Dropped(j, rows), rows)
  <1>1. \A c \in Channels :
          A[c] = IF c = j.id THEN WrittenEntry(j, rows[c])
                 ELSE IF c \in Dropped(j, rows) THEN [rows[c] EXCEPT !.primary = FALSE]
                 ELSE rows[c]
    BY DEF Applied
  <1>2. CASE Promotes(j)
    <2>1. \A c \in Channels \ {j.id} : ~A[c].primary
      BY <1>1, <1>2 DEF Dropped, Entries, Entry
    <2> QED
      BY <2>1 DEF Unique
  <1>3. CASE ~Promotes(j)
    <2>1. \A c \in Channels : A[c].primary => rows[c].primary
      BY <1>1, <1>3, WrittenEntryType DEF Dropped, Entries
    <2> QED
      BY <2>1 DEF Unique
  <1> QED
    BY <1>2, <1>3

LEMMA WriteFinds ==
  ASSUME ChannelsAssumption, ChannelsInv, ColumnInv, NEW k \in Clerks, WriteChannel(k)
  PROVE  ColumnInv'
  <1> SUFFICES ASSUME kind = "email", ~overtaken'
               PROVE  ColumnFollows' /\ FoundInv'
    BY DEF ColumnInv, WriteChannel
  <1> DEFINE j == clerk[k]
             A == Applied(j, Dropped(j, channel), channel)
  <1>1. /\ j \in Clerk /\ clerk \in [Clerks -> Clerk] /\ channel \in Entries /\ Unique(channel)
    BY DEF ChannelsInv, ChannelsTypeOK, OnePrimary, Unique
  <1>2. ~overtaken /\ (j.op = "create" => j.seen = channel)
    BY Zenon DEF WriteChannel
  <1>3. ColumnFollows /\ FoundInv
    BY <1>2 DEF ColumnInv
  <1>4. FoundEmail(j, channel) = Resolved(A)
    BY <1>2 DEF FoundEmail
  <1>5. /\ clerk'[k].drop = Dropped(j, channel) /\ clerk'[k].found = Resolved(A)
        /\ clerk'[k].id = j.id /\ clerk'[k].op = j.op /\ clerk'[k].primary = j.primary
        /\ clerk'[k].active = j.active
        /\ \A x \in Clerks \ {k} : clerk'[x] = clerk[x]
        /\ channel' = channel /\ scalar' = scalar /\ kind' = kind
    BY <1>1, <1>4 DEF WriteChannel, Clerk
  <1>6. After(k)' = A
    BY <1>5 DEF After, Applied, WrittenEntry
  <1>7. \A x \in Clerks \ {k} : After(x)' = After(x)
    BY <1>5 DEF After
  <1>8. Unique(A)
    BY <1>1, AppliedUnique
  <1> HIDE DEF A
  <1>9. Resolved(A) # 0 => \A c \in Channels : A[c].primary => c = Resolved(A)
    BY <1>8, ResolvedPrimary DEF Unique
  <1>10. FoundInv'
    <2> SUFFICES ASSUME NEW x \in Clerks, clerk'[x].at = "commit"
                 PROVE  /\ Resolved(After(x)') # 0 =>
                             \/ clerk'[x].found = Resolved(After(x)')
                             \/ clerk'[x].found = 0 /\ scalar' = Resolved(After(x)')
                        /\ clerk'[x].found # 0 =>
                             \A c \in Channels : After(x)'[c].primary => c = clerk'[x].found
      BY DEF FoundInv, Resolved, PrimaryOf
    <2>1. CASE x = k
      BY <1>5, <1>6, <1>9, <2>1
    <2>2. CASE x # k
      BY <1>3, <1>5, <1>7, <2>2 DEF FoundInv
    <2> QED
      BY <2>1, <2>2
  <1>11. ColumnFollows'
    BY <1>2, <1>3, <1>5 DEF ColumnFollows, Resolved, PrimaryOf
  <1> QED
    BY <1>10, <1>11

LEMMA CommitFollows ==
  ASSUME ChannelsAssumption, ChannelsInv, ColumnInv, NEW k \in Clerks, CommitChannel(k)
  PROVE  ColumnInv'
  <1> SUFFICES ASSUME kind = "email", ~overtaken
               PROVE  ColumnFollows' /\ FoundInv'
    BY DEF ColumnInv, CommitChannel
  <1> DEFINE j == clerk[k]
  <1>1. /\ j \in Clerk /\ clerk \in [Clerks -> Clerk] /\ channel \in Entries
        /\ j.id \in Channels /\ j.at = "commit" /\ Unique(channel)
        /\ ColumnFollows /\ FoundInv
    BY DEF ChannelsInv, ChannelsTypeOK, CommitChannel, Clerk, ColumnInv, OnePrimary, Unique
  <1>2. /\ channel' = After(k) /\ scalar' = IF j.found = 0 THEN scalar ELSE j.found
        /\ kind' = kind /\ overtaken' = overtaken
    BY DEF CommitChannel, After
  <1>3. ChannelsInv'
    BY CommitKeeps
  <1>4. channel' \in Entries /\ Unique(channel')
    BY <1>3 DEF ChannelsInv, ChannelsTypeOK, OnePrimary, Unique
  <1>5. Resolved(channel') # 0 => scalar' = Resolved(channel')
    BY <1>1, <1>2 DEF FoundInv
  <1>6. j.found # 0 => \A c \in Channels : channel'[c].primary => c = j.found
    BY <1>1, <1>2 DEF FoundInv
  <1>7. ASSUME NEW y \in Clerks, clerk'[y].at = "commit"
        PROVE  /\ Resolved(After(y)') # 0 =>
                    \/ clerk'[y].found = Resolved(After(y)')
                    \/ clerk'[y].found = 0 /\ scalar' = Resolved(After(y)')
               /\ clerk'[y].found # 0 =>
                    \A c \in Channels : After(y)'[c].primary => c = clerk'[y].found
    <2>1. y # k /\ clerk'[y] = clerk[y]
      BY <1>1, <1>7 DEF CommitChannel, Opened
    <2>2. /\ ~Promotes(j) /\ ~Promotes(clerk[y]) /\ clerk[y].id # j.id /\ clerk[y] \in Clerk
          /\ clerk[y].id \in Channels
          /\ j.drop = {} /\ clerk[y].drop = {}
      BY <1>1, <1>7, <2>1 DEF ChannelsInv, LockInv, Dropped, Clerk
    <2> DEFINE i == clerk[y].id
               F == clerk[y].found
               B == After(y)
               C == After(y)'
    <2>3. \A c \in Channels : channel'[c] = IF c = j.id THEN WrittenEntry(j, channel[c]) ELSE channel[c]
      BY <1>2, <2>2 DEF After, Applied
    <2>4. \A c \in Channels : B[c] = IF c = i THEN WrittenEntry(clerk[y], channel[c]) ELSE channel[c]
      BY <2>2 DEF After, Applied
    <2>5. \A c \in Channels : C[c] = IF c = i THEN WrittenEntry(clerk[y], channel'[c]) ELSE channel'[c]
      BY <2>1, <2>2 DEF After, Applied
    <2>6. channel'[i] = channel[i] /\ C[i] = B[i]
      BY <2>2, <2>3, <2>4, <2>5
    <2> HIDE DEF B, C
    <2>7. \A c \in Channels : channel'[c].primary => channel[c].primary
      BY <1>1, <2>2, <2>3, WrittenEntryType DEF Entries
    <2>8. \A c \in Channels : C[c].primary => channel'[c].primary /\ B[c].primary
      BY <1>4, <2>2, <2>4, <2>5, <2>6, <2>7, WrittenEntryType DEF Entries
    <2>9. Unique(B) /\ Unique(C)
      <3>1. \A c \in Channels : B[c].primary => channel[c].primary
        BY <1>1, <2>2, <2>4, WrittenEntryType DEF Entries
      <3> QED
        BY <1>1, <1>4, <2>8, <3>1 DEF Unique
    <2>10. /\ Resolved(B) # 0 => F = Resolved(B) \/ (F = 0 /\ scalar = Resolved(B))
           /\ F # 0 => \A c \in Channels : B[c].primary => c = F
      BY <1>1, <1>7, <2>1 DEF FoundInv, B
    <2>11. F # 0 => \A c \in Channels : C[c].primary => c = F
      BY <2>8, <2>10
    <2>12. ASSUME Resolved(C) # 0
           PROVE  F = Resolved(C) \/ (F = 0 /\ scalar' = Resolved(C))
      <3> DEFINE r == Resolved(C)
      <3>1. r \in Channels /\ C[r].primary /\ C[r].active /\ channel'[r].primary
        BY <2>8, <2>12, ResolvedPrimary
      <3>2. CASE r = i
        <4>1. Resolved(B) = r
          BY <2>6, <2>9, <3>1, <3>2, UniqueResolved
        <4>2. r # 0
          BY <2>12
        <4>3. CASE F = 0
          <5>1. scalar = r
            BY <2>10, <4>1, <4>2, <4>3
          <5>2. j.found # 0 => j.found = r
            BY <1>6, <3>1
          <5> QED
            BY <1>2, <4>3, <5>1, <5>2
        <4> QED
          BY <2>10, <4>1, <4>2, <4>3
      <3>3. CASE r # i
        <4>1. channel'[r].active
          BY <2>5, <3>1, <3>3
        <4>2. Resolved(channel') = r
          BY <1>4, <3>1, <4>1, UniqueResolved
        <4> QED
          BY <1>5, <2>11, <2>12, <3>1, <4>2
      <3> QED
        BY <3>2, <3>3
    <2> QED
      BY <2>1, <2>11, <2>12 DEF C
  <1>8. FoundInv'
    BY <1>7 DEF FoundInv, Resolved, PrimaryOf
  <1>9. ColumnFollows'
    BY <1>5 DEF ColumnFollows, Resolved, PrimaryOf
  <1> QED
    BY <1>8, <1>9

LEMMA ColumnStep ==
  ASSUME ChannelsAssumption, ChannelsInv, ColumnInv, [ChannelsNext]_channelVars
  PROVE  ColumnInv'
  <1>1. ASSUME UNCHANGED <<kind, channel, scalar, overtaken>>,
               \A x \in Clerks : clerk'[x].at = "commit" => clerk'[x] = clerk[x]
        PROVE  ColumnInv'
    <2>1. \A x \in Clerks : clerk'[x].at = "commit" => After(x)' = After(x)
      BY <1>1 DEF After
    <2> SUFFICES ASSUME kind = "email", ~overtaken
                 PROVE  ColumnFollows' /\ FoundInv'
      BY <1>1 DEF ColumnInv
    <2>2. ColumnFollows /\ FoundInv
      BY DEF ColumnInv
    <2>3. ColumnFollows'
      BY <1>1, <2>2 DEF ColumnFollows, Resolved, PrimaryOf
    <2>4. \A x \in Clerks : clerk'[x].at = "commit" => Resolved(After(x)') = Resolved(After(x))
      BY <2>1
    <2>5. FoundInv'
      <3> SUFFICES ASSUME NEW x \in Clerks, clerk'[x].at = "commit"
                   PROVE  /\ Resolved(After(x)') # 0 =>
                               \/ clerk'[x].found = Resolved(After(x)')
                               \/ clerk'[x].found = 0 /\ scalar' = Resolved(After(x)')
                          /\ clerk'[x].found # 0 =>
                               \A c \in Channels : After(x)'[c].primary => c = clerk'[x].found
        BY DEF FoundInv, Resolved, PrimaryOf
      <3> QED
        BY <1>1, <2>1, <2>2, <2>4 DEF FoundInv
    <2> QED
      BY <2>3, <2>5
  <1>2. clerk \in [Clerks -> Clerk]
    BY DEF ChannelsInv, ChannelsTypeOK
  <1>3. ASSUME NEW k \in Clerks,
               LoadPage(k) \/ AddChannel(k) \/ EditChannel(k) \/ SwitchChannel(k) \/ AbortChannel(k)
        PROVE  ColumnInv'
    <2>1. UNCHANGED <<kind, channel, scalar, overtaken>>
      BY <1>3 DEF LoadPage, AddChannel, EditChannel, SwitchChannel, AbortChannel, SubmitChannel
    <2>2. \A x \in Clerks \ {k} : clerk'[x] = clerk[x]
      BY <1>2, <1>3 DEF LoadPage, AddChannel, EditChannel, SwitchChannel, AbortChannel, SubmitChannel
    <2>3. clerk'[k].at # "commit"
      <3>1. CASE LoadPage(k)
        BY <1>2, <3>1 DEF LoadPage, Clerk
      <3>2. CASE AddChannel(k) \/ EditChannel(k) \/ SwitchChannel(k)
        <4>1. clerk[k] \in Clerk
          BY <1>2
        <4>2. CASE AddChannel(k)
          BY <1>2, <4>1, <4>2 DEF AddChannel, SubmitChannel, Clerk
        <4>3. CASE EditChannel(k)
          BY <1>2, <4>1, <4>3 DEF EditChannel, SubmitChannel, Clerk
        <4>4. CASE SwitchChannel(k)
          BY <1>2, <4>1, <4>4 DEF SwitchChannel, SubmitChannel, Clerk
        <4> QED
          BY <3>2, <4>2, <4>3, <4>4
      <3>3. CASE AbortChannel(k)
        BY <1>2, <3>3 DEF AbortChannel, Opened
      <3> QED
        BY <1>3, <3>1, <3>2, <3>3
    <2> QED
      BY <1>1, <2>1, <2>2, <2>3
  <1>4. CASE UNCHANGED channelVars
    BY <1>1, <1>4 DEF channelVars
  <1> QED
    BY <1>3, <1>4, WriteFinds, CommitFollows, Zenon DEF ChannelsNext

-----------------------------------------------------------------------------
(* Theorems                                                                *)

LEMMA ChannelsStart ==
  ASSUME ChannelsAssumption, ChannelsInit
  PROVE  ChannelsInv
  <1>1. PICK c \in Channels, normalized \in BOOLEAN :
          /\ kind \in {"email", "phone"}
          /\ channel = [x \in Channels |->
                        IF normalized /\ x = c
                        THEN [exists |-> TRUE, primary |-> TRUE, active |-> TRUE] ELSE Unused]
          /\ scalar = IF normalized THEN c ELSE 0
          /\ clerk = [k \in Clerks |-> Opened(channel)]
          /\ requests = 0
          /\ overtaken = FALSE
    BY Zenon DEF ChannelsInit
  <1>2. [exists |-> TRUE, primary |-> TRUE, active |-> TRUE] \in Entry /\ Unused \in Entry
    BY DEF Entry, Unused
  <1>3. channel \in Entries
    BY <1>1, <1>2 DEF Entries
  <1>4. clerk \in [Clerks -> Clerk] /\ \A k \in Clerks : clerk[k].at = "page"
    BY <1>1, <1>3, OpenedType
  <1>5. OnePrimary
    BY <1>1 DEF OnePrimary, Unused
  <1>6. LockInv
    BY <1>4 DEF LockInv
  <1>7. overtaken \in BOOLEAN
    BY <1>1, Zenon
  <1>8. scalar \in Channels \union {0}
    <2>1. scalar = c \/ scalar = 0
      BY <1>1, Zenon
    <2> QED
      BY <2>1
  <1>9. requests \in 0..MaxRequests
    <2>1. requests = 0
      BY <1>1
    <2> QED
      BY <2>1 DEF ChannelsAssumption
  <1> QED
    BY <1>1, <1>3, <1>4, <1>5, <1>6, <1>7, <1>8, <1>9 DEF ChannelsInv, ChannelsTypeOK

LEMMA ChannelsStep ==
  ASSUME ChannelsAssumption, ChannelsInv, [ChannelsNext]_channelVars
  PROVE  ChannelsInv'
  <1>1. CASE ChannelsNext
    BY <1>1, PageKeeps, WriteKeeps, CommitKeeps, AbortKeeps, Zenon DEF ChannelsNext
  <1>2. CASE UNCHANGED channelVars
    BY <1>2 DEF channelVars, ChannelsInv, ChannelsTypeOK, LockInv, OnePrimary, Dropped, Promotes
  <1> QED
    BY <1>1, <1>2

LEMMA ColumnStart ==
  ASSUME ChannelsAssumption, ChannelsInit
  PROVE  ColumnInv
  <1>1. PICK c \in Channels, normalized \in BOOLEAN :
          /\ channel = [x \in Channels |->
                        IF normalized /\ x = c
                        THEN [exists |-> TRUE, primary |-> TRUE, active |-> TRUE] ELSE Unused]
          /\ scalar = IF normalized THEN c ELSE 0
          /\ clerk = [k \in Clerks |-> Opened(channel)]
    BY Zenon DEF ChannelsInit
  <1>2. \A x \in Channels : channel[x].primary => normalized /\ x = c
    BY <1>1 DEF Unused
  <1>3. ColumnFollows
    <2> SUFFICES ASSUME Resolved(channel) # 0
                 PROVE  scalar = Resolved(channel)
      BY DEF ColumnFollows
    <2>1. normalized /\ Resolved(channel) = c
      BY <1>2, ResolvedPrimary
    <2>2. scalar = c
      BY <1>1, <2>1, Zenon
    <2> QED
      BY <2>1, <2>2
  <1>4. FoundInv
    BY <1>1 DEF FoundInv, Opened
  <1> QED
    BY <1>3, <1>4 DEF ColumnInv

\* For any number of clerks writing from pages however stale, a customer
\* never has two primary channels of a kind; and however e-mail writes
\* interleave, Customer.primaryEmail names the address the reminders resolve
\* to, unless a creation ran on an overtaken snapshot.
THEOREM PrimaryStaysInStep ==
  ASSUME ChannelsAssumption
  PROVE  ChannelsSpec => []PrimaryInStep
  <1>1. ChannelsInv /\ ColumnInv => PrimaryInStep
    BY DEF ChannelsInv, ColumnInv, ColumnFollows, PrimaryInStep
  <1>2. ChannelsInit => ChannelsInv /\ ColumnInv
    BY ChannelsStart, ColumnStart
  <1>3. ChannelsInv /\ ColumnInv /\ [ChannelsNext]_channelVars => ChannelsInv' /\ ColumnInv'
    BY ChannelsStep, ColumnStep
  <1> QED
    BY <1>1, <1>2, <1>3, PTL DEF ChannelsSpec

(***************************************************************************)
(* CUSTOMERDIRECTORY: a deletion takes everything or is reported, and      *)
(* never an open case that work hangs on.                                  *)
(***************************************************************************)

(* A deletion of many still owes every customer it was asked for, unless   *)
(* it is gone or failed. The one that is checked had no open case, and its *)
(* cases are numbered: one that is open now is a later one.                *)
Tracked(m, card, cases) ==
    /\ m \in Manager /\ m.todo \subseteq m.asked
    /\ m.at \in {"deleting", "checked", "done"} =>
         \A c \in m.asked : \/ card[c] = "none" \/ c \in m.failed \/ c \in m.todo
                            \/ m.at = "checked" /\ c = m.now
    /\ m.at = "done" => m.todo = {}
    /\ m.at = "checked" =>
         /\ m.now \in m.asked
         /\ card[m.now] # "none" =>
              /\ m.seen.no <= cases[m.now].no
              /\ cases[m.now].state = "open" => m.seen.no # cases[m.now].no

DirInv ==
    /\ DirectoryTypeOK /\ NothingLeft
    /\ \A o \in Desks : Tracked(manager[o], customer, case)

-----------------------------------------------------------------------------
(* Pages                                                                   *)

LEMMA Page0Tracked ==
  ASSUME DirectoryAssumption, NEW card, NEW cases, NEW S \in SUBSET Customers
  PROVE  Tracked([Page0 EXCEPT !.selected = S], card, cases) /\ Tracked(Page0, card, cases)
  <1> DEFINE p == [Page0 EXCEPT !.selected = S]
  <1>1. NoCase \in Case
    BY DEF NoCase, Case, DirectoryAssumption
  <1>2. Page0 \in Manager /\ Page0.at = "page" /\ Page0.todo = {}
    BY <1>1 DEF Page0, Manager
  <1>3. p \in Manager /\ p.at = "page" /\ p.todo = {}
    BY <1>2 DEF Manager
  <1> HIDE DEF p
  <1>4. Tracked(Page0, card, cases) /\ Tracked(p, card, cases)
    BY <1>2, <1>3 DEF Tracked
  <1> QED
    BY <1>4 DEF p

\* One page changes, and nothing of the database.
LEMMA ManagerKeeps ==
  ASSUME DirInv, NEW o \in Desks, NEW m, Tracked(m, customer, case), Become(o, m),
         UNCHANGED <<customer, sold, case, legacy>>, clicks' \in 0..MaxClicks
  PROVE  DirInv'
  <1>1. /\ manager' \in [Desks -> Manager]
        /\ \A x \in Desks : Tracked(manager'[x], customer, case)
    BY DEF DirInv, DirectoryTypeOK, Become, Tracked
  <1>2. NothingLeft' /\ DirectoryTypeOK'
    BY <1>1 DEF DirInv, DirectoryTypeOK, NothingLeft, Exists
  <1> QED
    BY <1>1, <1>2 DEF DirInv

LEMMA FormKeeps ==
  ASSUME DirectoryAssumption, DirInv, NEW o \in Desks,
         OpenForm(o) \/ CloseForm(o) \/ SaveForm(o) \/ Select(o) \/ RefuseSave(o)
  PROVE  DirInv'
  <1>1. /\ manager[o] \in Manager /\ Tracked(manager[o], customer, case)
        /\ clicks \in 0..MaxClicks
    BY DEF DirInv, DirectoryTypeOK
  <1>2. CASE OpenForm(o)
    <2>1. PICK c \in Customers \union {"new"} :
            Become(o, [manager[o] EXCEPT !.at = "form", !.editing = c])
      BY <1>2 DEF OpenForm, Listed
    <2>2. Tracked([manager[o] EXCEPT !.at = "form", !.editing = c], customer, case)
      BY <1>1 DEF Tracked, Manager
    <2> QED
      BY <1>1, <1>2, <2>1, <2>2, ManagerKeeps DEF OpenForm
  <1>3. CASE CloseForm(o)
    <2>1. Tracked([manager[o] EXCEPT !.at = "page", !.editing = "new"], customer, case)
      BY <1>1 DEF Tracked, Manager
    <2> QED
      BY <1>1, <1>3, <2>1, ManagerKeeps DEF CloseForm
  <1>4. CASE SaveForm(o)
    <2>1. Tracked([manager[o] EXCEPT !.at = "saving"], customer, case)
      BY <1>1 DEF Tracked, Manager
    <2>2. clicks' \in 0..MaxClicks
      BY <1>1, <1>4 DEF SaveForm, DirectoryAssumption
    <2> QED
      BY <1>4, <2>1, <2>2, ManagerKeeps DEF SaveForm
  <1>5. CASE Select(o)
    <2>1. PICK c \in Customers :
            Become(o, [manager[o] EXCEPT !.selected = IF c \in @ THEN @ \ {c} ELSE @ \union {c}])
      BY <1>5 DEF Select
    <2> DEFINE S == IF c \in manager[o].selected THEN manager[o].selected \ {c}
                    ELSE manager[o].selected \union {c}
    <2>2. S \in SUBSET Customers
      BY <1>1 DEF Manager
    <2> HIDE DEF S
    <2> DEFINE m == [manager[o] EXCEPT !.selected = S]
    <2>3. m \in Manager /\ m.at = "page" /\ m.todo = manager[o].todo /\ m.asked = manager[o].asked
      BY <1>1, <1>5, <2>2 DEF Manager, Select
    <2>4. Become(o, m)
      BY <2>1 DEF S
    <2> HIDE DEF m
    <2>5. Tracked(m, customer, case)
      BY <1>1, <2>3 DEF Tracked
    <2> QED
      BY <1>1, <1>5, <2>4, <2>5, ManagerKeeps DEF Select
  <1>6. CASE RefuseSave(o)
    <2>1. Tracked([manager[o] EXCEPT !.at = "form"], customer, case)
      BY <1>1 DEF Tracked, Manager
    <2> QED
      BY <1>1, <1>6, <2>1, ManagerKeeps DEF RefuseSave
  <1> QED
    BY <1>2, <1>3, <1>4, <1>5, <1>6

LEMMA AskKeeps ==
  ASSUME DirectoryAssumption, DirInv, NEW o \in Desks,
         NEW ids \in SUBSET Customers, NEW left \in SUBSET Customers, Ask(o, ids, left)
  PROVE  DirInv'
  <1> DEFINE m == [Page0 EXCEPT !.at = "deleting", !.asked = ids, !.todo = ids, !.selected = left]
  <1>1. Page0 \in Manager
    BY Page0Tracked DEF Tracked
  <1>2. m \in Manager /\ m.at = "deleting" /\ m.asked = ids /\ m.todo = ids
    BY <1>1 DEF Manager
  <1>3. Become(o, m)
    BY DEF Ask
  <1>4. clicks' \in 0..MaxClicks
    BY DEF Ask, DirInv, DirectoryTypeOK, DirectoryAssumption
  <1> HIDE DEF m
  <1>5. Tracked(m, customer, case)
    BY <1>2 DEF Tracked
  <1> QED
    BY <1>3, <1>4, <1>5, ManagerKeeps DEF Ask

LEMMA DeletionPageKeeps ==
  ASSUME DirectoryAssumption, DirInv, NEW o \in Desks,
         AskDelete(o) \/ AskDeleteSelected(o) \/ ReportDeletion(o) \/ ReadReport(o)
  PROVE  DirInv'
  <1>1. /\ manager[o] \in Manager /\ Tracked(manager[o], customer, case)
        /\ clicks \in 0..MaxClicks /\ manager[o].selected \in SUBSET Customers
    BY DEF DirInv, DirectoryTypeOK, Manager
  <1>2. CASE AskDelete(o)
    BY <1>1, <1>2, AskKeeps DEF AskDelete
  <1>3. CASE AskDeleteSelected(o)
    BY <1>1, <1>3, AskKeeps DEF AskDeleteSelected
  <1>4. CASE ReportDeletion(o)
    <2>1. Tracked([manager[o] EXCEPT !.at = "done"], customer, case)
      BY <1>1, <1>4 DEF ReportDeletion, Tracked, Manager
    <2> QED
      BY <1>1, <1>4, <2>1, ManagerKeeps DEF ReportDeletion
  <1>5. CASE ReadReport(o)
    BY <1>1, <1>5, Page0Tracked, ManagerKeeps DEF ReadReport
  <1> QED
    BY <1>2, <1>3, <1>4, <1>5

-----------------------------------------------------------------------------
(* Saves                                                                   *)

\* What the other pages track does not change when a card that exists is
\* written, nor when a customer nobody asked to delete is created.
LEMMA CardKeeps ==
  ASSUME DirectoryAssumption, DirInv, NEW o \in Desks, NEW m, Tracked(m, customer', case),
         Become(o, m), NEW c \in Customers, NEW d \in Cards, customer' = [customer EXCEPT ![c] = d],
         Exists(c) \/ \A x \in Desks : c \notin manager[x].asked,
         legacy' \in [Customers -> {"none", "approved", "review"}],
         \A x \in Customers \ {c} : legacy'[x] = legacy[x],
         UNCHANGED <<sold, case, clicks>>
  PROVE  DirInv'
  <1>1. /\ customer' \in [Customers -> Cards \union {"none"}]
        /\ \A x \in Customers : customer'[x] = IF x = c THEN d ELSE customer[x]
        /\ d # "none"
    BY DEF DirInv, DirectoryTypeOK, DirectoryAssumption
  <1>2. ASSUME NEW x \in Desks
        PROVE  Tracked(manager[x], customer', case)
    <2>1. /\ manager[x] \in Manager /\ Tracked(manager[x], customer, case)
          /\ manager[x].asked \in SUBSET Customers
      BY DEF DirInv, DirectoryTypeOK, Manager
    <2>2. \A y \in manager[x].asked : customer'[y] = "none" <=> customer[y] = "none"
      BY <1>1, <2>1 DEF Exists
    <2> QED
      BY <2>1, <2>2 DEF Tracked
  <1>3. /\ manager' \in [Desks -> Manager]
        /\ \A x \in Desks : Tracked(manager'[x], customer', case)
    BY <1>2 DEF DirInv, DirectoryTypeOK, Become, Tracked
  <1>4. NothingLeft'
    BY <1>1 DEF DirInv, NothingLeft, Exists
  <1> QED
    BY <1>1, <1>3, <1>4 DEF DirInv, DirectoryTypeOK

LEMMA CardSaveKeeps ==
  ASSUME DirectoryAssumption, DirInv, NEW o \in Desks, UpdateCustomer(o) \/ CreateCustomer(o)
  PROVE  DirInv'
  <1>1. /\ manager[o] \in Manager /\ Tracked(manager[o], customer, case)
        /\ manager[o].at = "saving" /\ legacy \in [Customers -> {"none", "approved", "review"}]
    BY DEF DirInv, DirectoryTypeOK, UpdateCustomer, CreateCustomer
  <1>2. CASE UpdateCustomer(o)
    <2> DEFINE c == manager[o].editing
    <2>1. c \in Customers /\ Exists(c)
      BY <1>1, <1>2 DEF UpdateCustomer, Manager
    <2>2. PICK d \in Cards : customer' = [customer EXCEPT ![c] = d]
      BY <1>2 DEF UpdateCustomer
    <2>3. Tracked([manager[o] EXCEPT !.at = "page", !.editing = "new"], customer', case)
      BY <1>1 DEF Tracked, Manager
    <2> QED
      BY <1>1, <1>2, <2>1, <2>2, <2>3, CardKeeps DEF UpdateCustomer
  <1>3. CASE CreateCustomer(o)
    <2>1. PICK c \in Customers, d \in Cards :
            /\ \A x \in Desks : c \notin manager[x].asked
            /\ customer' = [customer EXCEPT ![c] = d]
            /\ legacy' = [legacy EXCEPT ![c] = "none"]
      BY <1>3 DEF CreateCustomer
    <2>2. Tracked([manager[o] EXCEPT !.at = "page"], customer', case)
      BY <1>1 DEF Tracked, Manager
    <2>3. /\ legacy' \in [Customers -> {"none", "approved", "review"}]
          /\ \A x \in Customers \ {c} : legacy'[x] = legacy[x]
      BY <1>1, <2>1
    <2> QED
      BY <1>1, <1>3, <2>1, <2>2, <2>3, CardKeeps DEF CreateCustomer
  <1> QED
    BY <1>2, <1>3

-----------------------------------------------------------------------------
(* Deletions                                                               *)

LEMMA FailedTracked ==
  ASSUME NEW m \in Manager, NEW card, NEW cases, m.now \in Customers, m.todo \subseteq m.asked,
         \A c \in m.asked : card[c] = "none" \/ c \in m.failed \/ c \in m.todo \/ c = m.now
  PROVE  Tracked(AfterFailure(m), card, cases)
  BY DEF Tracked, AfterFailure, Manager

LEMMA CheckKeeps ==
  ASSUME DirectoryAssumption, DirInv, NEW o \in Desks, CheckDelete(o)
  PROVE  DirInv'
  <1>1. /\ manager[o] \in Manager /\ Tracked(manager[o], customer, case)
        /\ manager[o].at = "deleting" /\ clicks \in 0..MaxClicks
        /\ manager[o].todo \in SUBSET Customers /\ case \in [Customers -> Case]
    BY DEF DirInv, DirectoryTypeOK, CheckDelete, Manager
  <1>2. PICK c \in manager[o].todo :
          LET m == [manager[o] EXCEPT !.todo = @ \ {c}, !.now = c]
          IN  Become(o, IF Exists(c) /\ Deletable(c)
                        THEN [m EXCEPT !.at = "checked", !.seen = case[c], !.paid = c \in sold]
                        ELSE AfterFailure(m))
    BY DEF CheckDelete
  <1> DEFINE m == [manager[o] EXCEPT !.todo = @ \ {c}, !.now = c]
             p == (c \in sold)
             k == [m EXCEPT !.at = "checked", !.seen = case[c], !.paid = p]
  <1>3. /\ m \in Manager /\ m.now = c /\ m.todo = manager[o].todo \ {c}
        /\ m.asked = manager[o].asked /\ m.failed = manager[o].failed /\ c \in Customers
    BY <1>1, <1>2 DEF Manager
  <1>4. c \in m.asked
    BY <1>1, <1>3 DEF Tracked
  <1>5. \A x \in m.asked : customer[x] = "none" \/ x \in m.failed \/ x \in m.todo \/ x = m.now
    BY <1>1, <1>3 DEF Tracked
  <1>6. m.todo \subseteq m.asked
    BY <1>1, <1>3 DEF Tracked
  <1>7. CASE Exists(c) /\ Deletable(c)
    <2>1. p \in BOOLEAN /\ case[c] \in Case /\ case[c].no \in Nat /\ case[c].state # "open"
      BY <1>1, <1>3, <1>7 DEF Deletable, Case, DirectoryAssumption
    <2> HIDE DEF m, p
    <2>2. /\ k \in Manager /\ k.at = "checked" /\ k.now = c /\ k.todo = m.todo
          /\ k.asked = m.asked /\ k.failed = m.failed /\ k.seen = case[c]
      BY <1>3, <2>1 DEF Manager
    <2> HIDE DEF k
    <2>3. Tracked(k, customer, case)
      BY <1>3, <1>4, <1>5, <1>6, <2>1, <2>2 DEF Tracked
    <2> QED
      BY <1>1, <1>2, <1>7, <2>3, ManagerKeeps DEF CheckDelete, k, m, p
  <1>8. CASE ~(Exists(c) /\ Deletable(c))
    <2>1. Tracked(AfterFailure(m), customer, case)
      BY <1>3, <1>5, <1>6, FailedTracked
    <2> QED
      BY <1>1, <1>2, <1>8, <2>1, ManagerKeeps DEF CheckDelete
  <1> QED
    BY <1>7, <1>8

LEMMA FailKeeps ==
  ASSUME DirInv, NEW o \in Desks, manager[o].at = "checked", Become(o, AfterFailure(manager[o])),
         UNCHANGED <<customer, sold, case, legacy, clicks>>
  PROVE  DirInv'
  <1>1. /\ manager[o] \in Manager /\ Tracked(manager[o], customer, case)
        /\ clicks \in 0..MaxClicks /\ manager[o].asked \in SUBSET Customers
    BY DEF DirInv, DirectoryTypeOK, Manager
  <1>2. Tracked(AfterFailure(manager[o]), customer, case)
    BY <1>1, FailedTracked DEF Tracked
  <1> QED
    BY <1>1, <1>2, ManagerKeeps

LEMMA DeleteKeeps ==
  ASSUME DirectoryAssumption, DirInv, NEW o \in Desks, DeleteCustomer(o)
  PROVE  DirInv'
  <1> DEFINE m == manager[o]
             c == m.now
  <1>1. /\ m \in Manager /\ Tracked(m, customer, case) /\ m.at = "checked" /\ c \in Customers
        /\ legacy \in [Customers -> {"none", "approved", "review"}] /\ case \in [Customers -> Case]
        /\ customer \in [Customers -> Cards \union {"none"}]
    BY DEF DirInv, DirectoryTypeOK, DeleteCustomer, Tracked, Manager
  <1>2. CASE ~Exists(c) \/ Referred(m)
    BY <1>1, <1>2, FailKeeps DEF DeleteCustomer
  <1>3. CASE Exists(c) /\ ~Referred(m)
    <2>1. /\ customer' = [customer EXCEPT ![c] = "none"] /\ sold' = sold \ {c}
          /\ case' = [case EXCEPT ![c] = NoCase] /\ legacy' = LegacyReopened(c)
          /\ Become(o, [m EXCEPT !.at = "deleting"]) \/ Become(o, AfterFailure(m))
          /\ clicks' = clicks
      BY <1>3 DEF DeleteCustomer
    <2>2. NoCase \in Case
      BY DEF NoCase, Case, DirectoryAssumption
    <2>3. /\ customer' \in [Customers -> Cards \union {"none"}] /\ case' \in [Customers -> Case]
          /\ legacy' \in [Customers -> {"none", "approved", "review"}]
          /\ customer'[c] = "none" /\ \A x \in Customers \ {c} : customer'[x] = customer[x]
          /\ case'[c] = NoCase /\ \A x \in Customers \ {c} : case'[x] = case[x]
          /\ legacy'[c] # "approved" /\ \A x \in Customers \ {c} : legacy'[x] = legacy[x]
      BY <1>1, <2>1, <2>2 DEF LegacyReopened
    <2>4. NothingLeft'
      BY <2>1, <2>3 DEF DirInv, NothingLeft, Exists, NoCase
    <2>5. ASSUME NEW x \in Desks
          PROVE  Tracked(manager[x], customer', case')
      <3>1. /\ manager[x] \in Manager /\ Tracked(manager[x], customer, case)
            /\ manager[x].asked \in SUBSET Customers
        BY DEF DirInv, DirectoryTypeOK, Manager
      <3> QED
        BY <2>3, <3>1 DEF Tracked
    <2>6. Tracked([m EXCEPT !.at = "deleting"], customer', case')
      BY <1>1, <2>3, <2>5 DEF Tracked, Manager
    <2>7. Tracked(AfterFailure(m), customer', case')
      BY <1>1, <2>5, FailedTracked DEF Tracked
    <2>8. PICK n : Become(o, n) /\ Tracked(n, customer', case')
      BY <2>1, <2>6, <2>7, Zenon
    <2>9. n \in Manager
      BY <2>8 DEF Tracked
    <2>10. manager \in [Desks -> Manager]
      BY DEF DirInv, DirectoryTypeOK
    <2>11. manager' = [manager EXCEPT ![o] = n]
      BY <2>8 DEF Become
    <2>12. manager' \in [Desks -> Manager] /\ \A x \in Desks : manager'[x] = IF x = o THEN n ELSE manager[x]
      BY <2>9, <2>10, <2>11
    <2>13. \A x \in Desks : Tracked(manager'[x], customer', case')
      BY <2>5, <2>8, <2>12
    <2> QED
      BY <2>1, <2>3, <2>4, <2>12, <2>13 DEF DirInv, DirectoryTypeOK
  <1> QED
    BY <1>2, <1>3

-----------------------------------------------------------------------------
(* The others                                                              *)

\* A case of an existing customer that moves on keeps its number or takes
\* the next one, and opens only under a new number.
LEMMA CaseKeeps ==
  ASSUME DirectoryAssumption, DirInv, NEW c \in Customers, Exists(c), NEW k \in Case,
         case' = [case EXCEPT ![c] = k], sold' \in SUBSET Customers, sold' \ {c} = sold \ {c},
         k.no >= case[c].no, k.no = case[c].no /\ k.state = "open" => case[c].state = "open",
         UNCHANGED <<customer, legacy, manager, clicks>>
  PROVE  DirInv'
  <1>1. case' \in [Customers -> Case] /\ \A x \in Customers : case'[x] = IF x = c THEN k ELSE case[x]
    BY DEF DirInv, DirectoryTypeOK
  <1>2. ASSUME NEW x \in Desks
        PROVE  Tracked(manager[x], customer, case')
    <2> DEFINE m == manager[x]
    <2>1. m \in Manager /\ Tracked(m, customer, case) /\ case \in [Customers -> Case]
      BY DEF DirInv, DirectoryTypeOK
    <2>2. /\ m.seen.no \in Nat /\ k.no \in Nat /\ case[c].no \in Nat
      BY <2>1 DEF Manager, Case, DirectoryAssumption
    <2>3. m.at = "checked" => m.now \in Customers
      BY <2>1 DEF Tracked, Manager
    <2>4. CASE m.now = c
      BY <1>1, <2>1, <2>2, <2>4 DEF Tracked
    <2>5. CASE m.now # c
      BY <1>1, <2>1, <2>3, <2>5 DEF Tracked
    <2> QED
      BY <2>4, <2>5
  <1>3. NothingLeft'
    BY <1>1 DEF DirInv, NothingLeft, Exists
  <1> QED
    BY <1>1, <1>2, <1>3 DEF DirInv, DirectoryTypeOK

LEMMA OthersKeep ==
  ASSUME DirectoryAssumption, DirInv, NEW c \in Customers,
         Sell(c) \/ OpenCase(c) \/ WorkCase(c) \/ CloseCase(c)
  PROVE  DirInv'
  <1>1. case[c] \in Case /\ case \in [Customers -> Case] /\ sold \in SUBSET Customers
    BY DEF DirInv, DirectoryTypeOK
  <1>2. case[c].no \in 0..MaxCases /\ MaxCases \in Nat
    BY <1>1 DEF Case, DirectoryAssumption
  <1>3. CASE Sell(c)
    <2>1. case' = [case EXCEPT ![c] = case[c]]
      BY <1>1, <1>3 DEF Sell
    <2>2. Exists(c) /\ sold' \in SUBSET Customers /\ sold' \ {c} = sold \ {c}
      BY <1>1, <1>3 DEF Sell
    <2>3. UNCHANGED <<customer, legacy, manager, clicks>>
      BY <1>3 DEF Sell
    <2>4. case[c].no >= case[c].no
      BY <1>2
    <2> QED
      BY <1>1, <2>1, <2>2, <2>3, <2>4, CaseKeeps
  <1>4. CASE OpenCase(c)
    <2> DEFINE k == [state |-> "open", busy |-> FALSE, no |-> case[c].no + 1]
    <2>1. k \in Case /\ k.no > case[c].no
      BY <1>1, <1>2, <1>4 DEF OpenCase, Case
    <2>2. Exists(c)
      BY <1>4 DEF OpenCase, DirInv, NothingLeft
    <2>3. case' = [case EXCEPT ![c] = k]
      BY <1>1, <1>4 DEF OpenCase
    <2>4. sold' \in SUBSET Customers /\ sold' \ {c} = sold \ {c}
      BY <1>1, <1>4 DEF OpenCase
    <2>5. UNCHANGED <<customer, legacy, manager, clicks>>
      BY <1>4 DEF OpenCase
    <2>6. k.no >= case[c].no /\ ~(k.no = case[c].no)
      BY <1>2, <2>1
    <2>7. k \in Case
      BY <2>1
    <2> HIDE DEF k
    <2> QED
      BY <2>2, <2>3, <2>4, <2>5, <2>6, <2>7, CaseKeeps
  <1>5. CASE WorkCase(c)
    <2> DEFINE k == [case[c] EXCEPT !.busy = TRUE]
    <2>1. k \in Case /\ k.no = case[c].no /\ k.state = case[c].state
      BY <1>1 DEF Case
    <2>2. Exists(c)
      BY <1>5 DEF WorkCase, DirInv, NothingLeft
    <2>3. case' = [case EXCEPT ![c] = k]
      BY <1>1, <1>5 DEF WorkCase
    <2>4. sold' \in SUBSET Customers /\ sold' \ {c} = sold \ {c}
      BY <1>1, <1>5 DEF WorkCase
    <2>5. UNCHANGED <<customer, legacy, manager, clicks>>
      BY <1>5 DEF WorkCase
    <2>6. k.no >= case[c].no /\ (k.state = "open" => case[c].state = "open")
      BY <1>2, <2>1
    <2>7. k \in Case
      BY <2>1
    <2> HIDE DEF k
    <2> QED
      BY <2>2, <2>3, <2>4, <2>5, <2>6, <2>7, CaseKeeps
  <1>6. CASE CloseCase(c)
    <2> DEFINE k == [case[c] EXCEPT !.state = "closed"]
    <2>1. k \in Case /\ k.no = case[c].no /\ k.state = "closed"
      BY <1>1 DEF Case
    <2>2. Exists(c)
      BY <1>6 DEF CloseCase, DirInv, NothingLeft
    <2>3. case' = [case EXCEPT ![c] = k]
      BY <1>1, <1>6 DEF CloseCase
    <2>4. sold' \in SUBSET Customers /\ sold' \ {c} = sold \ {c}
      BY <1>1, <1>6 DEF CloseCase
    <2>5. UNCHANGED <<customer, legacy, manager, clicks>>
      BY <1>6 DEF CloseCase
    <2>6. k.no >= case[c].no /\ ~(k.state = "open")
      BY <1>2, <2>1
    <2>7. k \in Case
      BY <2>1
    <2> HIDE DEF k
    <2> QED
      BY <2>2, <2>3, <2>4, <2>5, <2>6, <2>7, CaseKeeps
  <1> QED
    BY <1>3, <1>4, <1>5, <1>6

-----------------------------------------------------------------------------
(* Theorems                                                                *)

LEMMA DirectoryStart ==
  ASSUME DirectoryAssumption, DirectoryInit
  PROVE  DirInv
  <1>1. NoCase \in Case
    BY DEF NoCase, Case, DirectoryAssumption
  <1>2. (CHOOSE d \in Cards : TRUE) \in Cards /\ (CHOOSE d \in Cards : TRUE) # "none"
    BY DEF DirectoryAssumption
  <1>3. /\ customer \in [Customers -> Cards \union {"none"}]
        /\ \A c \in Customers : customer[c] # "none"
    BY <1>2 DEF DirectoryInit
  <1>4. Tracked(Page0, customer, case)
    BY Page0Tracked
  <1>5. Page0 \in Manager
    BY <1>4 DEF Tracked
  <1>6. manager = [o \in Desks |-> Page0]
    BY DEF DirectoryInit
  <1>7. manager \in [Desks -> Manager] /\ \A o \in Desks : Tracked(manager[o], customer, case)
    BY <1>4, <1>5, <1>6
  <1> QED
    BY <1>1, <1>3, <1>7 DEF DirectoryInit, DirInv, DirectoryTypeOK, NothingLeft, Exists,
                            DirectoryAssumption

LEMMA DirectoryStep ==
  ASSUME DirectoryAssumption, DirInv, [DirectoryNext]_directoryVars
  PROVE  DirInv'
  <1>1. ASSUME NEW o \in Desks, FailDelete(o)
        PROVE  DirInv'
    BY <1>1, FailKeeps DEF FailDelete
  <1>2. CASE DirectoryNext
    BY <1>1, <1>2, FormKeeps, DeletionPageKeeps, CardSaveKeeps, CheckKeeps, DeleteKeeps, OthersKeep,
       Zenon DEF DirectoryNext
  <1>3. CASE UNCHANGED directoryVars
    BY <1>3 DEF directoryVars, DirInv, DirectoryTypeOK, NothingLeft, Exists
  <1> QED
    BY <1>2, <1>3

LEMMA DirectorySafe ==
  ASSUME DirectoryAssumption
  PROVE  DirectorySpec => []DirInv
  <1>1. DirectoryInit => DirInv
    BY DirectoryStart
  <1>2. DirInv /\ [DirectoryNext]_directoryVars => DirInv'
    BY DirectoryStep
  <1> QED
    BY <1>1, <1>2, PTL DEF DirectorySpec

\* For any number of operators and customers, a deleted customer leaves
\* nothing behind, and a deletion of many leaves none unmentioned.
THEOREM DeletionsComplete ==
  ASSUME DirectoryAssumption
  PROVE  DirectorySpec => []DeletionComplete
  <1>1. DirInv => DeletionComplete
    BY DEF DirInv, DeletionComplete, AccountedFor, Tracked, Exists
  <1> QED
    BY <1>1, DirectorySafe, PTL

LEMMA KeptStep ==
  ASSUME DirectoryAssumption, DirInv, [DirectoryNext]_directoryVars
  PROVE  WorkKeptStep
  <1> SUFFICES ASSUME NEW c \in Customers, case[c].state = "open", case[c].busy
               PROVE  case'[c].no = case[c].no
    BY DEF WorkKeptStep, Survives
  <1>1. case \in [Customers -> Case]
    BY DEF DirInv, DirectoryTypeOK
  <1>2. ASSUME NEW o \in Desks, DeleteCustomer(o)
        PROVE  case'[c].no = case[c].no
    <2> DEFINE m == manager[o]
    <2>1. m.at = "checked" /\ Tracked(m, customer, case)
      BY <1>2 DEF DeleteCustomer, DirInv
    <2>2. CASE m.now = c
      <3>1. ~Exists(c) \/ Referred(m)
        BY <2>1, <2>2 DEF Tracked, Referred, Exists
      <3> QED
        BY <1>2, <2>2, <3>1 DEF DeleteCustomer
    <2>3. CASE m.now # c
      BY <1>1, <1>2, <2>3 DEF DeleteCustomer
    <2> QED
      BY <2>2, <2>3
  <1>3. ASSUME NEW x \in Customers, Sell(x) \/ OpenCase(x) \/ WorkCase(x) \/ CloseCase(x)
        PROVE  case'[c].no = case[c].no
    BY <1>1, <1>3 DEF Sell, OpenCase, WorkCase, CloseCase, Case
  <1>4. ASSUME NEW o \in Desks,
               \/ OpenForm(o) \/ CloseForm(o) \/ SaveForm(o) \/ Select(o)
               \/ AskDelete(o) \/ AskDeleteSelected(o) \/ ReportDeletion(o) \/ ReadReport(o)
               \/ RefuseSave(o) \/ UpdateCustomer(o) \/ CreateCustomer(o) \/ CheckDelete(o)
               \/ FailDelete(o)
        PROVE  case' = case
    BY <1>4 DEF OpenForm, CloseForm, SaveForm, Select, AskDelete, AskDeleteSelected, Ask,
           ReportDeletion, ReadReport, RefuseSave, UpdateCustomer, CreateCustomer, CheckDelete,
           FailDelete
  <1>5. CASE UNCHANGED directoryVars
    BY <1>5 DEF directoryVars
  <1> QED
    BY <1>2, <1>3, <1>4, <1>5, Zenon DEF DirectoryNext

\* For any number of operators, no deletion takes away an open case that
\* holds, decisions or reminders belong to.
THEOREM WorkIsKept ==
  ASSUME DirectoryAssumption
  PROVE  DirectorySpec => WorkKept
  <1>1. DirInv /\ [DirectoryNext]_directoryVars => [WorkKeptStep]_case
    BY KeptStep
  <1> QED
    BY <1>1, DirectorySafe, PTL DEF DirectorySpec, WorkKept

(***************************************************************************)
(* SUBSCRIPTIONS: a derived renewal date keeps to its term.                *)
(***************************************************************************)

(* A form on its way carries an interval, unless its row is historical.    *)
Sent(d) == d.at \in {"sent", "write"}

Sensible(d) ==
    /\ d \in Desk
    /\ d.at \in {"form", "sent", "write"} => d.sub \in Subs
    /\ Sent(d) /\ ~Historical(d) => d.form.interval \in Intervals

(* The derived date of a row that no overlapping update wrote, which has   *)
(* an interval for ever: only then does an update that leaves the term     *)
(* alone leave the date alone too.                                         *)
OnTerm(row) == row.interval # 0 /\ row.renewal = Term(row.start, row.interval)

SubsInv ==
    /\ SubsTypeOK /\ \A o \in Staff : Sensible(desk[o])
    /\ \A s \in derived \ raced : OnTerm(subs[s])

-----------------------------------------------------------------------------
(* The modal                                                               *)

LEMMA NoRowType == NoRow \in Row /\ (SubscriptionsAssumption => Sensible(Listing))
  BY DEF NoRow, Row, Sensible, Listing, Desk, Sent

\* One desk changes, and nothing of the database.
LEMMA DeskKeeps ==
  ASSUME SubsInv, NEW o \in Staff, NEW d, Sensible(d), Sit(o, d),
         UNCHANGED <<client, subs, marks>>, saves' \in 0..MaxSaves
  PROVE  SubsInv'
  <1>1. desk' \in [Staff -> Desk] /\ \A x \in Staff : Sensible(desk'[x])
    BY DEF SubsInv, SubsTypeOK, Sit, Sensible
  <1> QED
    BY <1>1 DEF SubsInv, SubsTypeOK, marks

LEMMA OpenKeeps ==
  ASSUME SubscriptionsAssumption, SubsInv, NEW o \in Staff, NEW s \in Subs,
         OpenModal(o, s) \/ OpenCreate(o, s)
  PROVE  SubsInv'
  <1>1. subs[s] \in Row /\ saves \in 0..MaxSaves
    BY DEF SubsInv, SubsTypeOK
  <1>2. CASE OpenModal(o, s)
    <2>1. Sensible([Listing EXCEPT !.at = "form", !.sub = s, !.copy = subs[s]])
      BY <1>1, NoRowType DEF Sensible, Listing, Desk, Sent
    <2> QED
      BY <1>1, <1>2, <2>1, DeskKeeps DEF OpenModal, Shown
  <1>3. CASE OpenCreate(o, s)
    <2>1. Sensible([Listing EXCEPT !.at = "form", !.sub = s])
      BY NoRowType DEF Sensible, Listing, Desk, Sent
    <2> QED
      BY <1>1, <1>3, <2>1, DeskKeeps DEF OpenCreate
  <1> QED
    BY <1>2, <1>3

LEMMA SaveKeeps ==
  ASSUME SubscriptionsAssumption, SubsInv, NEW o \in Staff, Save(o)
  PROVE  SubsInv'
  <1>1. desk[o] \in Desk /\ Sensible(desk[o]) /\ desk[o].at = "form" /\ saves' \in 0..MaxSaves
    BY DEF SubsInv, SubsTypeOK, Save, SubscriptionsAssumption
  <1>2. PICK f \in Entered(desk[o]) : Sit(o, [desk[o] EXCEPT !.at = "sent", !.form = f])
    BY DEF Save
  <1>3. PICK v \in Service, d \in Starts, i \in Intervals :
          f = IF Historical(desk[o])
              THEN [status |-> v, start |-> d, interval |-> 0, renewal |-> d + i]
              ELSE [status |-> v, start |-> d, interval |-> i, renewal |-> 0]
    BY DEF Entered
  <1>4. f \in Row /\ (~Historical(desk[o]) => f.interval = i)
    BY <1>3 DEF Row, Service, SubscriptionsAssumption
  <1> DEFINE e == [desk[o] EXCEPT !.at = "sent", !.form = f]
  <1>5. e \in Desk /\ e.at = "sent" /\ e.sub = desk[o].sub /\ e.copy = desk[o].copy /\ e.form = f
    BY <1>1, <1>4 DEF Desk
  <1>6. Sensible(e)
    BY <1>1, <1>4, <1>5 DEF Sensible, Sent, Historical, Creating
  <1> QED
    BY <1>1, <1>2, <1>6, DeskKeeps DEF Save

LEMMA ReloadKeeps ==
  ASSUME SubsInv, NEW o \in Staff, Reload(o)
  PROVE  SubsInv'
  <1> DEFINE row == subs[desk[o].sub]
             c == [row EXCEPT !.status = desk[o].copy.status]
             e == [desk[o] EXCEPT !.copy = c]
  <1>1. /\ desk[o] \in Desk /\ desk[o].at = "form" /\ desk[o].sub \in Subs
        /\ saves \in 0..MaxSaves /\ row \in Row
    BY DEF SubsInv, SubsTypeOK, Sensible, Reload, Editing
  <1>2. c \in Row
    BY <1>1 DEF Row, Desk
  <1> HIDE DEF c
  <1>3. Sensible(e)
    BY <1>1, <1>2 DEF Sensible, Sent, Desk
  <1> QED
    BY <1>1, <1>3, DeskKeeps DEF Reload, c

LEMMA RefuseKeeps ==
  ASSUME SubsInv, NEW o \in Staff, Refuse(o), desk[o].at \in {"sent", "write"}
  PROVE  SubsInv'
  <1>1. desk[o] \in Desk /\ desk[o].sub \in Subs /\ saves \in 0..MaxSaves
    BY DEF SubsInv, SubsTypeOK, Sensible
  <1>2. Sensible([desk[o] EXCEPT !.at = "form", !.old = NoRow, !.form = NoRow])
    BY <1>1, NoRowType DEF Sensible, Sent, Desk
  <1> QED
    BY <1>1, <1>2, DeskKeeps DEF Refuse

LEMMA ReadKeeps ==
  ASSUME SubsInv, NEW o \in Staff, ReadOld(o)
  PROVE  SubsInv'
  <1> DEFINE e == [desk[o] EXCEPT !.at = "write", !.old = subs[desk[o].sub]]
  <1>1. /\ desk[o] \in Desk /\ desk[o].at = "sent" /\ Sensible(desk[o]) /\ desk[o].sub \in Subs
        /\ subs[desk[o].sub] \in Row /\ saves \in 0..MaxSaves
    BY DEF SubsInv, SubsTypeOK, Sensible, ReadOld
  <1>2. CASE Sit(o, e) /\ UNCHANGED <<client, subs, saves, marks>>
    <2>1. /\ e \in Desk /\ e.at = "write" /\ e.sub = desk[o].sub
          /\ e.copy = desk[o].copy /\ e.form = desk[o].form
      BY <1>1 DEF Desk
    <2>2. Sensible(e)
      BY <1>1, <2>1 DEF Sensible, Sent, Historical, Creating
    <2> QED
      BY <1>1, <1>2, <2>2, DeskKeeps
  <1>3. CASE Refuse(o)
    BY <1>1, <1>3, RefuseKeeps
  <1> QED
    BY <1>2, <1>3 DEF ReadOld

LEMMA ListKeeps ==
  ASSUME SubscriptionsAssumption, SubsInv, NEW o \in Staff,
         CloseModal(o) \/ AskStatus(o) \/ CheckStatus(o)
  PROVE  SubsInv'
  <1>1. saves \in 0..MaxSaves
    BY DEF SubsInv, SubsTypeOK
  <1>2. CASE CloseModal(o)
    BY <1>1, <1>2, NoRowType, DeskKeeps DEF CloseModal
  <1>3. CASE AskStatus(o)
    <2>1. Sensible([Listing EXCEPT !.at = "status",
                      !.to = IF client = "ACTIVE" THEN "INACTIVE" ELSE "ACTIVE"])
      BY NoRowType DEF Sensible, Listing, Desk, Sent
    <2>2. saves' \in 0..MaxSaves
      BY <1>1, <1>3 DEF AskStatus, SubscriptionsAssumption
    <2> QED
      BY <1>3, <2>1, <2>2, DeskKeeps DEF AskStatus
  <1>4. CASE CheckStatus(o)
    <2>1. Sensible([desk[o] EXCEPT !.at = "cascade"])
      BY <1>4 DEF CheckStatus, SubsInv, SubsTypeOK, Sensible, Sent, Desk
    <2> QED
      BY <1>1, <1>4, <2>1, NoRowType, DeskKeeps DEF CheckStatus
  <1> QED
    BY <1>2, <1>3, <1>4

-----------------------------------------------------------------------------
(* The server                                                              *)

\* A row a save wrote, on its term if due.
LEMMA RowKeeps ==
  ASSUME SubscriptionsAssumption, SubsInv, NEW o \in Staff, NEW s \in Subs, NEW row \in Row,
         subs' = [subs EXCEPT ![s] = row], Sit(o, Listing), UNCHANGED <<client, saves>>,
         derived' \in SUBSET Subs, raced' \in SUBSET Subs,
         derived' \ {s} = derived \ {s}, raced' \ {s} = raced \ {s},
         s \in derived' \ raced' => OnTerm(row)
  PROVE  SubsInv'
  <1>1. /\ subs' \in [Subs -> Row] /\ \A x \in Subs : subs'[x] = IF x = s THEN row ELSE subs[x]
        /\ desk' \in [Staff -> Desk] /\ \A x \in Staff : Sensible(desk'[x])
    BY NoRowType DEF SubsInv, SubsTypeOK, Sit, Sensible
  <1>2. \A x \in derived' \ raced' : OnTerm(subs'[x])
    BY <1>1 DEF SubsInv
  <1> QED
    BY <1>1, <1>2 DEF SubsInv, SubsTypeOK

\* What an accepted update writes is a row, and one on its term when the
\* update derived the date or found it on its term and read it as it is.
LEMMA UpdatedRow ==
  ASSUME SubscriptionsAssumption, NEW d, Sensible(d), d.at = "write", Acceptable(d), NEW row \in Row
  PROVE  /\ Updated(d, row) \in Row
         /\ DateColumns(row) = DateColumns(d.old) /\ (TermMoves(d) \/ OnTerm(row)) => OnTerm(Updated(d, row))
  <1>1. /\ d.form \in Row /\ d.old \in Row /\ d.copy \in Row
        /\ ~Historical(d) => d.form.interval \in Nat \ {0}
    BY DEF Sensible, Desk, Sent, SubscriptionsAssumption
  <1>2. /\ NewStart(d) \in Nat /\ NewInterval(d) \in Intervals \union {0}
        /\ NewInterval(d) \in Nat
    <2>1. /\ d.form.start \in Nat /\ d.old.start \in Nat
          /\ d.form.interval \in Intervals \union {0} /\ d.old.interval \in Intervals \union {0}
      BY <1>1 DEF Row
    <2>2. NewStart(d) = d.form.start \/ NewStart(d) = d.old.start
      BY Zenon DEF NewStart
    <2>3. NewInterval(d) = d.form.interval \/ NewInterval(d) = d.old.interval
      BY Zenon DEF NewInterval
    <2>4. NewStart(d) \in Nat
      BY <2>1, <2>2
    <2>5. NewInterval(d) \in Intervals \union {0}
      BY <2>1, <2>3, Zenon
    <2>6. \A i \in Intervals \union {0} : i \in Nat
      BY DEF SubscriptionsAssumption
    <2> QED
      BY <2>4, <2>5, <2>6, Zenon
  <1>3. NewRenewal(d) \in Nat
    BY <1>1, <1>2 DEF NewRenewal, Term, Row
  <1>4. Updated(d, row) \in Row
    BY <1>1, <1>3 DEF Updated, Row
  <1>5. ASSUME DateColumns(row) = DateColumns(d.old)
        PROVE  /\ Updated(d, row).start = NewStart(d)
               /\ Updated(d, row).interval = NewInterval(d)
    BY <1>5 DEF Updated, DateColumns, NewStart, NewInterval
  <1>6. ASSUME DateColumns(row) = DateColumns(d.old), TermMoves(d)
        PROVE  OnTerm(Updated(d, row))
    BY <1>5, <1>6 DEF OnTerm, TermMoves, NewRenewal, Updated
  <1>7. ASSUME DateColumns(row) = DateColumns(d.old), OnTerm(row), ~TermMoves(d)
        PROVE  OnTerm(Updated(d, row))
    <2>1. d.old.interval = row.interval /\ d.old.start = row.start /\ row.interval # 0
      BY <1>7 DEF DateColumns, OnTerm
    <2>2. NewInterval(d) # 0
      BY <1>1, <2>1 DEF NewInterval, SendsInterval, Row
    <2>3. ~Historical(d)
      BY <2>2 DEF Acceptable
    <2>4. NewStart(d) = row.start /\ NewInterval(d) = row.interval
      BY <1>7, <2>1, <2>2 DEF TermMoves
    <2>5. Updated(d, row).renewal = row.renewal
      BY <1>7, <2>3 DEF Updated
    <2> QED
      BY <1>5, <1>7, <2>4, <2>5 DEF OnTerm
  <1> QED
    BY <1>4, <1>6, <1>7

LEMMA UpdateKeeps ==
  ASSUME SubscriptionsAssumption, SubsInv, NEW o \in Staff, Update(o)
  PROVE  SubsInv'
  <1> DEFINE d == desk[o]
             s == d.sub
             row == Updated(d, subs[s])
  <1>1. /\ Sensible(d) /\ d.at = "write" /\ s \in Subs /\ subs[s] \in Row
        /\ derived \in SUBSET Subs /\ raced \in SUBSET Subs
    BY DEF SubsInv, SubsTypeOK, Sensible, Update
  <1>2. CASE Refuse(o)
    BY <1>1, <1>2, RefuseKeeps
  <1>3. CASE ~Refuse(o)
    <2>1. /\ Acceptable(d)
          /\ subs' = [subs EXCEPT ![s] = row] /\ Sit(o, Listing) /\ UNCHANGED <<client, saves>>
          /\ derived' = IF TermMoves(d) THEN derived \union {s} ELSE derived
          /\ raced' = IF DateColumns(subs[s]) # DateColumns(d.old) THEN raced \union {s} ELSE raced
      BY <1>3 DEF Update
    <2>2. /\ row \in Row
          /\ DateColumns(subs[s]) = DateColumns(d.old) /\ (TermMoves(d) \/ OnTerm(subs[s])) => OnTerm(row)
      BY <1>1, <2>1, UpdatedRow
    <2>3. s \in derived' \ raced' => OnTerm(row)
      BY <2>1, <2>2 DEF SubsInv
    <2> HIDE DEF row
    <2> QED
      BY <1>1, <2>1, <2>2, <2>3, RowKeeps
  <1> QED
    BY <1>2, <1>3

LEMMA CreateKeeps ==
  ASSUME SubscriptionsAssumption, SubsInv, NEW o \in Staff, Create(o)
  PROVE  SubsInv'
  <1> DEFINE d == desk[o]
             s == d.sub
             row == [d.form EXCEPT !.renewal = Term(d.form.start, d.form.interval)]
  <1>1. /\ Sensible(d) /\ d.at = "write" /\ s \in Subs /\ ~Historical(d) /\ d.form \in Row
        /\ derived \in SUBSET Subs /\ raced \in SUBSET Subs
    BY DEF SubsInv, SubsTypeOK, Sensible, Create, Historical, Desk
  <1>2. d.form.interval \in Nat \ {0} /\ d.form.start \in Nat
    BY <1>1 DEF Sensible, Sent, SubscriptionsAssumption, Row
  <1>3. row \in Row /\ OnTerm(row)
    BY <1>1, <1>2 DEF Row, OnTerm, Term
  <1>4. /\ subs' = [subs EXCEPT ![s] = row] /\ Sit(o, Listing)
        /\ UNCHANGED <<client, saves, raced>> /\ derived' = derived \union {s}
    BY DEF Create
  <1> HIDE DEF row
  <1> QED
    BY <1>1, <1>3, <1>4, RowKeeps

LEMMA RemoveKeeps ==
  ASSUME SubscriptionsAssumption, SubsInv, NEW o \in Staff, Remove(o)
  PROVE  SubsInv'
  <1>1. /\ desk[o].sub \in Subs
        /\ derived \in SUBSET Subs /\ raced \in SUBSET Subs
    BY DEF SubsInv, SubsTypeOK, Sensible, Remove, Editing
  <1> QED
    BY <1>1, NoRowType, RowKeeps DEF Remove

LEMMA StatusKeeps ==
  ASSUME SubscriptionsAssumption, SubsInv, NEW o \in Staff, SetStatus(o)
  PROVE  SubsInv'
  <1> DEFINE to == desk[o].to
  <1>1. desk[o] \in Desk /\ to \in {"ACTIVE", "INACTIVE"} /\ subs \in [Subs -> Row]
    BY DEF SubsInv, SubsTypeOK, Desk
  <1>2. \A s \in Subs : /\ Cascade(to, subs[s]) \in Row
                        /\ Cascade(to, subs[s]).start = subs[s].start
                        /\ Cascade(to, subs[s]).interval = subs[s].interval
                        /\ Cascade(to, subs[s]).renewal = subs[s].renewal
    BY <1>1 DEF Cascade, Row, Service
  <1>3. /\ subs' \in [Subs -> Row] /\ \A s \in Subs : subs'[s] = Cascade(to, subs[s])
        /\ client' = to
    BY <1>2 DEF SetStatus
  <1>4. desk' \in [Staff -> Desk] /\ \A x \in Staff : Sensible(desk'[x])
    BY NoRowType DEF SubsInv, SubsTypeOK, SetStatus, Sit, Sensible
  <1>5. \A s \in derived' \ raced' : OnTerm(subs'[s])
    BY <1>2, <1>3 DEF SubsInv, SubsTypeOK, SetStatus, OnTerm, marks
  <1>6. SubsTypeOK'
    BY <1>1, <1>3, <1>4 DEF SubsInv, SubsTypeOK, SetStatus, marks
  <1> QED
    BY <1>4, <1>5, <1>6 DEF SubsInv

-----------------------------------------------------------------------------
(* Theorems                                                                *)

LEMMA SubsStart ==
  ASSUME SubscriptionsAssumption, SubsInit
  PROVE  SubsInv
  <1>1. PICK s \in Subs, i \in Intervals \union {0}, d \in Starts :
          subs = [x \in Subs |-> IF x = s THEN [status |-> "ACTIVE", start |-> d,
                                                interval |-> i, renewal |-> d + i + 1]
                                 ELSE NoRow]
    BY DEF SubsInit
  <1>2. [status |-> "ACTIVE", start |-> d, interval |-> i, renewal |-> d + i + 1] \in Row
    BY DEF Row, Service, SubscriptionsAssumption
  <1>3. subs \in [Subs -> Row]
    BY <1>1, <1>2, NoRowType
  <1>4. desk \in [Staff -> Desk] /\ \A o \in Staff : Sensible(desk[o])
    BY NoRowType DEF SubsInit, Sensible
  <1> QED
    BY <1>3, <1>4 DEF SubsInit, SubsInv, SubsTypeOK, SubscriptionsAssumption

LEMMA SubsStep ==
  ASSUME SubscriptionsAssumption, SubsInv, [SubsNext]_subsVars
  PROVE  SubsInv'
  <1>1. CASE SubsNext
    BY <1>1, OpenKeeps, SaveKeeps, ReloadKeeps, ReadKeeps, ListKeeps, UpdateKeeps, CreateKeeps,
       RemoveKeeps, StatusKeeps, Zenon DEF SubsNext
  <1>2. CASE UNCHANGED subsVars
    BY <1>2 DEF subsVars, marks, SubsInv, SubsTypeOK
  <1> QED
    BY <1>1, <1>2

LEMMA SubsSafe ==
  ASSUME SubscriptionsAssumption
  PROVE  SubsSpec => []SubsInv
  <1>1. SubsInit => SubsInv
    BY SubsStart
  <1>2. SubsInv /\ [SubsNext]_subsVars => SubsInv'
    BY SubsStep
  <1> QED
    BY <1>1, <1>2, PTL DEF SubsSpec

\* For any number of edits, a renewal date the server derived once stays the
\* start date plus the interval, but for rows that overlapping updates wrote.
THEOREM RenewalKeepsToTerm ==
  ASSUME SubscriptionsAssumption
  PROVE  SubsSpec => []TermFollowsInterval
  <1>1. SubsInv => TermFollowsInterval
    BY DEF SubsInv, TermFollowsInterval, OnTerm
  <1> QED
    BY <1>1, SubsSafe, PTL

(***************************************************************************)
(* IMPORTDESK: what goes live of a staged row is what someone, or the      *)
(* reviewed sheet, said last.                                              *)
(***************************************************************************)

(* What a request under way carries.                                       *)
RequestSound(request) ==
    /\ request \in Request
    /\ request.at \in {"review", "reviewed", "approve", "approved"} => request.row \in Rows
    /\ request.at = "refresh" => request.seen \in ImportList

(* A row whose changes never met: ready with what was vouched for, or live *)
(* and approved with it.                                                   *)
RowTold(r) ==
    /\ staged[r] # Missing /\ staged[r].status = "READY_FOR_APPROVAL"
         => vouched[r] = staged[r].dates
    /\ live[r] # Missing =>
         staged[r].status = "APPROVED" /\ live[r] = staged[r].dates /\ live[r] = vouched[r]

ImportDeskInv ==
    /\ ImportDeskTypeOK
    /\ \A c \in Importers : RequestSound(importer[c].request)
    /\ \A r \in Rows : live[r] # Missing => staged[r] # Missing
    /\ \A r \in Rows \ met : RowTold(r)

Tables == <<form, staged, live, vouched, met>>
Importing == [list : ImportList, panel : Panel \union {Missing}, request : Request]

\* A step of a page that leaves the tables alone.
LEMMA PageStep ==
  ASSUME ImportDeskInv, NEW c \in Importers, NEW page \in Importing, RequestSound(page.request),
         importer' = [importer EXCEPT ![c] = page], UNCHANGED Tables, uses' \in 0..MaxUses
  PROVE  ImportDeskInv'
  <1>1. /\ importer' \in [Importers -> Importing]
        /\ \A d \in Importers : importer'[d] = IF d = c THEN page ELSE importer[d]
    BY DEF ImportDeskInv, ImportDeskTypeOK, Importing
  <1>2. ImportDeskTypeOK'
    BY <1>1 DEF ImportDeskInv, ImportDeskTypeOK, Importing, Tables
  <1>3. \A r \in Rows : RowTold(r)' <=> RowTold(r)
    BY DEF RowTold, Tables
  <1> QED
    BY <1>1, <1>2, <1>3 DEF ImportDeskInv, Tables

LEMMA RestSound == RequestSound(Rest)
  BY DEF RequestSound, Rest, Request, MaybeDates

\* A page typed as it is.
LEMMA PageFacts ==
  ASSUME ImportDeskInv, NEW c \in Importers
  PROVE  /\ importer[c] \in Importing /\ importer \in [Importers -> Importing]
         /\ importer[c].list \in ImportList /\ importer[c].panel \in Panel \union {Missing}
         /\ importer[c].request \in Request /\ RequestSound(importer[c].request)
         /\ staged \in ImportList /\ uses \in 0..MaxUses
  BY DEF ImportDeskInv, ImportDeskTypeOK, Importing

LEMMA AnswerStep ==
  ASSUME ImportDeskInv, NEW c \in Importers, NEW list \in ImportList, NEW panel \in Panel \union {Missing},
         Answered(c, list, panel), UNCHANGED Tables, uses' \in 0..MaxUses
  PROVE  ImportDeskInv'
  <1>1. [list |-> list, panel |-> panel, request |-> Rest] \in Importing
    BY RestSound DEF Importing, RequestSound
  <1> QED
    BY <1>1, RestSound, PageStep DEF Answered

LEMMA BrowseStep ==
  ASSUME ImportDeskInv, NEW c \in Importers, NEW list \in ImportList, NEW panel \in Panel \union {Missing},
         Browse(c, list, panel)
  PROVE  ImportDeskInv'
  <1>1. PICK page : page = [importer[c] EXCEPT !.list = list, !.panel = panel]
    OBVIOUS
  <1>2. page \in Importing /\ page.request = importer[c].request
    BY <1>1, PageFacts DEF Importing
  <1>3. importer' = [importer EXCEPT ![c] = page]
    BY <1>1, PageFacts DEF Browse, Importing
  <1>4. UNCHANGED Tables /\ uses' \in 0..MaxUses
    BY PageFacts DEF Browse, Tables, told
  <1> QED
    BY <1>2, <1>3, <1>4, PageFacts, PageStep

LEMMA RequestStep ==
  ASSUME ImportDeskInv, NEW c \in Importers, NEW request, RequestSound(request),
         importer' = [importer EXCEPT ![c].request = request], UNCHANGED Tables, uses' \in 0..MaxUses
  PROVE  ImportDeskInv'
  <1>1. PICK page : page = [importer[c] EXCEPT !.request = request]
    OBVIOUS
  <1>2. page \in Importing /\ page.request = request
    BY <1>1, PageFacts DEF Importing, RequestSound
  <1>3. importer' = [importer EXCEPT ![c] = page]
    BY <1>1, PageFacts DEF Importing
  <1> QED
    BY <1>2, <1>3, PageStep

LEMMA SendStep ==
  ASSUME ImportDeskAssumption, ImportDeskInv, NEW c \in Importers, NEW request, RequestSound(request),
         Send(c, request)
  PROVE  ImportDeskInv'
  <1>1. uses' \in 0..MaxUses
    BY PageFacts DEF Send, ImportDeskAssumption
  <1> QED
    BY <1>1, RequestStep DEF Send, Tables, told

LEMMA RefuseStep ==
  ASSUME ImportDeskInv, NEW c \in Importers, RefuseImport(c)
  PROVE  ImportDeskInv'
  BY PageFacts, AnswerStep DEF RefuseImport, Tables, told

LEMMA BrowsingKeeps ==
  ASSUME ImportDeskAssumption, ImportDeskInv, NEW c \in Importers,
         OpenBatch(c) \/ Close(c) \/ EditDraft(c) \/ \E r \in Rows : Inspect(c, r)
  PROVE  ImportDeskInv'
  <1>1. CASE OpenBatch(c)
    BY <1>1, PageFacts, BrowseStep DEF OpenBatch
  <1>2. CASE Close(c)
    BY <1>2, PageFacts, BrowseStep DEF Close
  <1>3. CASE EditDraft(c)
    <2>1. importer[c].panel \in Panel
      BY <1>3, PageFacts DEF EditDraft, Editable
    <2>2. PICK d \in Dates : Browse(c, importer[c].list, Patched(importer[c].panel, d))
      BY <1>3 DEF EditDraft
    <2>3. Patched(importer[c].panel, d) \in Panel
      BY <2>1 DEF Patched, Panel, MaybeDates
    <2> QED
      BY <2>2, <2>3, PageFacts, BrowseStep
  <1>4. ASSUME NEW r \in Rows, Inspect(c, r)
        PROVE  ImportDeskInv'
    <2>1. PICK row : row = importer[c].list[r]
      OBVIOUS
    <2>2. row \in Copy /\ Browse(c, importer[c].list, [row |-> r, draft |-> row.dates, shown |-> row.status])
      BY <1>4, <2>1, PageFacts DEF Inspect, ImportList
    <2>3. [row |-> r, draft |-> row.dates, shown |-> row.status] \in Panel
      BY <2>2 DEF Panel, Copy
    <2> QED
      BY <2>2, <2>3, PageFacts, BrowseStep
  <1> QED
    BY <1>1, <1>2, <1>3, <1>4

LEMMA SendingKeeps ==
  ASSUME ImportDeskAssumption, ImportDeskInv, NEW c \in Importers,
         SubmitReview(c) \/ SubmitApproval(c) \/ UploadAgain(c)
  PROVE  ImportDeskInv'
  <1>1. CASE SubmitReview(c)
    <2>1. importer[c].panel \in Panel
      BY <1>1, PageFacts DEF SubmitReview, Editable
    <2>2. RequestSound([Rest EXCEPT !.at = "review", !.row = importer[c].panel.row,
                                    !.dates = importer[c].panel.draft])
      BY <2>1 DEF RequestSound, Request, Rest, Panel
    <2> QED
      BY <1>1, <2>2, SendStep DEF SubmitReview
  <1>2. CASE SubmitApproval(c)
    <2>1. PICK r \in Rows : Send(c, [Rest EXCEPT !.at = "approve", !.row = r])
      BY <1>2 DEF SubmitApproval
    <2>2. RequestSound([Rest EXCEPT !.at = "approve", !.row = r])
      BY DEF RequestSound, Request, Rest, MaybeDates
    <2> QED
      BY <2>1, <2>2, SendStep
  <1>3. CASE UploadAgain(c)
    <2>1. RequestSound([Rest EXCEPT !.at = "upload"])
      BY DEF RequestSound, Request, Rest, MaybeDates
    <2> QED
      BY <1>3, <2>1, SendStep DEF UploadAgain
  <1> QED
    BY <1>1, <1>2, <1>3

LEMMA ReadingKeeps ==
  ASSUME ImportDeskAssumption, ImportDeskInv, NEW c \in Importers,
         CheckReview(c) \/ ReadMapping(c) \/ ReadUntouched(c)
  PROVE  ImportDeskInv'
  <1>1. PICK request : request = importer[c].request /\ request \in Request /\ RequestSound(request)
    BY PageFacts
  <1>2. ASSUME NEW q, RequestSound(q), GoesOn(c, q)
        PROVE  ImportDeskInv'
    BY <1>2, PageFacts, RequestStep DEF GoesOn, Tables, told
  <1>3. CASE CheckReview(c)
    <2>1. CASE RefuseImport(c)
      BY <2>1, RefuseStep
    <2>2. CASE GoesOn(c, [request EXCEPT !.at = "reviewed"])
      <3>1. RequestSound([request EXCEPT !.at = "reviewed"])
        BY <1>1, <1>3 DEF RequestSound, Request, CheckReview
      <3> QED
        BY <1>2, <2>2, <3>1
    <2> QED
      BY <1>1, <1>3, <2>1, <2>2 DEF CheckReview
  <1>4. CASE ReadMapping(c)
    <2>1. CASE Is(request.row, "READY_FOR_APPROVAL")
      <3>1. GoesOn(c, [request EXCEPT !.at = "approved", !.dates = staged[request.row].dates])
        BY <1>1, <1>4, <2>1 DEF ReadMapping, Is
      <3>2. staged[request.row] \in Copy /\ request.row \in Rows
        BY <1>1, <1>4, <2>1, PageFacts DEF Is, ReadMapping, ImportList, RequestSound
      <3>3. RequestSound([request EXCEPT !.at = "approved", !.dates = staged[request.row].dates])
        BY <1>1, <3>2 DEF RequestSound, Request, Copy
      <3> QED
        BY <1>2, <3>1, <3>3
    <2>2. CASE ~Is(request.row, "READY_FOR_APPROVAL") /\ Is(request.row, "APPROVED")
      <3>1. Answered(c, staged, Missing) /\ UNCHANGED <<form, staged, live, uses, told>>
        BY <1>1, <1>4, <2>2 DEF ReadMapping
      <3> QED
        BY <3>1, PageFacts, AnswerStep DEF Tables, told
    <2>3. CASE ~Is(request.row, "READY_FOR_APPROVAL") /\ ~Is(request.row, "APPROVED")
      BY <1>1, <1>4, <2>3, RefuseStep DEF ReadMapping
    <2> QED
      BY <2>1, <2>2, <2>3
  <1>5. CASE ReadUntouched(c)
    <2>1. CASE ReusedAsIs
      <3>1. Answered(c, staged, Missing) /\ UNCHANGED <<form, staged, live, uses, told>>
        BY <1>5, <2>1 DEF ReadUntouched
      <3> QED
        BY <3>1, PageFacts, AnswerStep DEF Tables, told
    <2>2. CASE ~ReusedAsIs
      <3>1. GoesOn(c, [request EXCEPT !.at = "refresh", !.seen = staged])
        BY <1>1, <1>5, <2>2 DEF ReadUntouched
      <3>2. RequestSound([request EXCEPT !.at = "refresh", !.seen = staged])
        BY <1>1, PageFacts DEF RequestSound, Request
      <3> QED
        BY <1>2, <3>1, <3>2
    <2> QED
      BY <2>1, <2>2
  <1> QED
    BY <1>3, <1>4, <1>5

\* A write: the page that sent it is answered, and every row stays told.
LEMMA WriteStep ==
  ASSUME ImportDeskInv, NEW c \in Importers, NEW list \in ImportList, NEW panel \in Panel \union {Missing},
         Answered(c, list, panel), form' = form, uses' \in 0..MaxUses,
         staged' \in ImportList, live' \in [Rows -> MaybeDates], vouched' \in [Rows -> MaybeDates],
         met' \subseteq Rows,
         \A r \in Rows : live'[r] # Missing => staged'[r] # Missing,
         \A r \in Rows \ met' : RowTold(r)'
  PROVE  ImportDeskInv'
  <1> DEFINE page == [list |-> list, panel |-> panel, request |-> Rest]
  <1>1. page \in Importing
    BY RestSound DEF Importing, RequestSound
  <1>2. /\ importer' \in [Importers -> Importing]
        /\ \A d \in Importers : importer'[d] = IF d = c THEN page ELSE importer[d]
    BY <1>1, PageFacts DEF Answered
  <1>3. ImportDeskTypeOK'
    BY <1>2 DEF ImportDeskInv, ImportDeskTypeOK, Importing
  <1> QED
    BY <1>2, <1>3, RestSound DEF ImportDeskInv

LEMMA TableFacts ==
  ASSUME ImportDeskInv
  PROVE  /\ staged \in ImportList /\ live \in [Rows -> MaybeDates] /\ vouched \in [Rows -> MaybeDates]
         /\ met \subseteq Rows /\ uses \in 0..MaxUses
         /\ \A r \in Rows : staged[r] # Missing => staged[r] \in Copy
         /\ \A r \in Rows : live[r] # Missing => staged[r] # Missing
         /\ \A r \in Rows \ met : RowTold(r)
  BY DEF ImportDeskInv, ImportDeskTypeOK, ImportList

LEMMA ReviewKeeps ==
  ASSUME ImportDeskAssumption, ImportDeskInv, NEW c \in Importers, WriteReview(c)
  PROVE  ImportDeskInv'
  <1>1. PICK request, panel : request = importer[c].request /\ panel = importer[c].panel
    OBVIOUS
  <1>2. PICK r, d : r = request.row /\ d = request.dates
    OBVIOUS
  <1>3. /\ r \in Rows /\ d \in MaybeDates /\ panel \in Panel \union {Missing}
        /\ importer[c].list \in ImportList
    BY <1>1, <1>2, PageFacts DEF WriteReview, RequestSound, Request
  <1> DEFINE row == [status |-> "READY_FOR_APPROVAL", dates |-> d]
             now == IF panel = Missing THEN Missing ELSE [panel EXCEPT !.shown = "READY_FOR_APPROVAL"]
  <1>4. /\ staged[r] # Missing /\ staged' = [staged EXCEPT ![r] = row]
        /\ vouched' = [vouched EXCEPT ![r] = d]
        /\ met' = IF live[r] # Missing THEN met \union {r} ELSE met \ {r}
        /\ Answered(c, importer[c].list, now)
        /\ form' = form /\ live' = live /\ uses' = uses
    BY <1>1, <1>2 DEF WriteReview
  <1>5. row \in Copy /\ now \in Panel \union {Missing} /\ row # Missing
    <2>1. row \in Copy
      BY <1>3 DEF Copy, Status
    <2>2. now \in Panel \union {Missing}
      BY <1>3 DEF Panel, Status
    <2>3. row # Missing
      BY <2>1 DEF ImportDeskAssumption
    <2> QED
      BY <2>1, <2>2, <2>3
  <1>6. /\ staged' \in ImportList /\ vouched' \in [Rows -> MaybeDates] /\ met' \subseteq Rows
        /\ \A s \in Rows : staged'[s] = IF s = r THEN row ELSE staged[s]
        /\ \A s \in Rows : vouched'[s] = IF s = r THEN d ELSE vouched[s]
    BY <1>3, <1>4, <1>5, TableFacts DEF ImportList
  <1>7. \A s \in Rows : live'[s] # Missing => staged'[s] # Missing
    BY <1>4, <1>5, <1>6, TableFacts
  <1>8. ASSUME NEW s \in Rows \ met'
        PROVE  RowTold(s)'
    <2>1. CASE s = r
      BY <1>4, <1>6, <1>8, <2>1 DEF RowTold
    <2>2. CASE s # r
      <3>1. RowTold(s)
        BY <1>4, <1>8, <2>2, TableFacts
      <3> QED
        BY <1>4, <1>6, <2>2, <3>1 DEF RowTold
    <2> QED
      BY <2>1, <2>2
  <1> QED
    BY <1>3, <1>4, <1>5, <1>6, <1>7, <1>8, TableFacts, WriteStep

LEMMA ApprovalKeeps ==
  ASSUME ImportDeskAssumption, ImportDeskInv, NEW c \in Importers, GoLive(c)
  PROVE  ImportDeskInv'
  <1>1. PICK request : request = importer[c].request
    OBVIOUS
  <1>2. PICK r, d : r = request.row /\ d = request.dates
    OBVIOUS
  <1>3. r \in Rows /\ d \in MaybeDates
    BY <1>1, <1>2, PageFacts DEF GoLive, RequestSound, Request
  <1>4. CASE RefuseImport(c)
    BY <1>4, RefuseStep
  <1>5. CASE /\ Is(r, "READY_FOR_APPROVAL")
             /\ staged' = [staged EXCEPT ![r].status = "APPROVED"]
             /\ live' = [live EXCEPT ![r] = d]
             /\ met' = IF staged[r].dates # d THEN met \union {r} ELSE met
             /\ Answered(c, staged', Missing)
             /\ UNCHANGED <<form, uses, vouched>>
    <2>1. PICK row : row = staged[r] /\ row # Missing /\ row \in Copy /\ row.status = "READY_FOR_APPROVAL"
      BY <1>3, <1>5, TableFacts DEF Is
    <2> DEFINE new == [row EXCEPT !.status = "APPROVED"]
    <2>2. new \in Copy /\ new.status = "APPROVED" /\ new.dates = row.dates /\ new # Missing
      BY <2>1 DEF Copy, Status, ImportDeskAssumption
    <2>3. /\ staged' \in ImportList /\ live' \in [Rows -> MaybeDates] /\ met' \subseteq Rows
          /\ \A s \in Rows : staged'[s] = IF s = r THEN new ELSE staged[s]
          /\ \A s \in Rows : live'[s] = IF s = r THEN d ELSE live[s]
      BY <1>3, <1>5, <2>1, <2>2, TableFacts DEF ImportList
    <2>4. \A s \in Rows : live'[s] # Missing => staged'[s] # Missing
      BY <2>2, <2>3, TableFacts
    <2>5. ASSUME NEW s \in Rows \ met'
          PROVE  RowTold(s)'
      <3>1. RowTold(s) /\ (s = r => row.dates = d)
        BY <1>5, <2>1, <2>5, TableFacts
      <3>2. CASE s = r
        BY <1>5, <2>1, <2>2, <2>3, <3>1, <3>2 DEF RowTold
      <3>3. CASE s # r
        BY <1>5, <2>3, <3>1, <3>3 DEF RowTold
      <3> QED
        BY <3>2, <3>3
    <2> QED
      BY <1>5, <2>3, <2>4, <2>5, TableFacts, WriteStep
  <1> QED
    BY <1>1, <1>2, <1>4, <1>5 DEF GoLive, Claimable

LEMMA RefreshKeeps ==
  ASSUME ImportDeskAssumption, ImportDeskInv, NEW c \in Importers, WriteRefreshed(c)
  PROVE  ImportDeskInv'
  <1>1. PICK seen : seen = importer[c].request.seen
    OBVIOUS
  <1>2. PICK changed : changed = Outdated(seen)
    OBVIOUS
  <1>3. /\ \A r \in changed : staged[r] # Missing
        /\ staged' = [r \in Rows |-> IF r \in changed THEN MergedDates(staged[r]) ELSE staged[r]]
        /\ met' = met \union {r \in changed : staged[r] # seen[r]}
        /\ Answered(c, staged', Missing) /\ UNCHANGED <<form, live, uses, vouched>>
    BY <1>1, <1>2 DEF WriteRefreshed
  <1>4. changed \subseteq Rows /\ \A r \in changed : seen[r] # Missing /\ seen[r].status = "REQUIRES_MANUAL_REVIEW"
    BY <1>2 DEF Outdated, Untouched
  <1>5. \A r \in changed : MergedDates(staged[r]) \in Copy /\ MergedDates(staged[r]) # Missing
    BY <1>3, <1>4, TableFacts DEF MergedDates, Copy, MaybeDates, ImportDeskAssumption
  <1>6. /\ staged' \in ImportList /\ met' \subseteq Rows
        /\ \A r \in Rows : staged'[r] = IF r \in changed THEN MergedDates(staged[r]) ELSE staged[r]
    BY <1>3, <1>4, <1>5, TableFacts DEF ImportList
  <1>7. \A r \in Rows : live'[r] # Missing => staged'[r] # Missing
    BY <1>3, <1>5, <1>6, TableFacts
  <1>8. ASSUME NEW r \in Rows \ met'
        PROVE  RowTold(r)'
    <2>1. RowTold(r) /\ (r \in changed => staged[r] = seen[r])
      BY <1>3, <1>8, TableFacts
    <2>2. CASE r \in changed
      <3>1. staged[r] \in Copy /\ staged[r].status = "REQUIRES_MANUAL_REVIEW"
        BY <1>3, <1>4, <2>1, <2>2, TableFacts
      <3>2. staged'[r].status = "REQUIRES_MANUAL_REVIEW"
        BY <1>6, <2>2, <3>1 DEF MergedDates, Copy
      <3> QED
        BY <1>3, <2>1, <3>1, <3>2 DEF RowTold
    <2>3. CASE r \notin changed
      BY <1>3, <1>6, <2>1, <2>3 DEF RowTold
    <2> QED
      BY <2>2, <2>3
  <1> QED
    BY <1>3, <1>6, <1>7, <1>8, TableFacts, WriteStep

LEMMA DeletionKeeps ==
  ASSUME ImportDeskAssumption, ImportDeskInv, NEW c \in Importers, DeleteStaged(c)
  PROVE  ImportDeskInv'
  <1>1. /\ \A r \in Rows : live[r] = Missing
        /\ staged' = [r \in Rows |-> Missing] /\ uses' = uses + 1 /\ uses < MaxUses
        /\ Answered(c, staged', Missing) /\ UNCHANGED <<form, live, vouched, met>>
    BY DEF DeleteStaged, told
  <1>2. staged' \in ImportList /\ \A r \in Rows : staged'[r] = Missing
    BY <1>1 DEF ImportList
  <1>3. uses' \in 0..MaxUses
    BY <1>1, TableFacts DEF ImportDeskAssumption
  <1>4. \A r \in Rows : RowTold(r)'
    BY <1>1, <1>2 DEF RowTold
  <1> QED
    BY <1>1, <1>2, <1>3, <1>4, TableFacts, WriteStep

LEMMA LossKeeps ==
  ASSUME ImportDeskAssumption, ImportDeskInv, NEW r \in Rows, LoseCustomer(r)
  PROVE  ImportDeskInv'
  <1>1. /\ live[r] # Missing /\ uses < MaxUses /\ uses' = uses + 1
        /\ live' = [live EXCEPT ![r] = Missing]
        /\ staged' = [staged EXCEPT ![r].status = "REQUIRES_MANUAL_REVIEW"]
        /\ UNCHANGED <<form, importer, vouched, met>>
    BY DEF LoseCustomer, told
  <1>2. PICK row : row = staged[r] /\ row # Missing /\ row \in Copy
    BY <1>1, TableFacts
  <1> DEFINE new == [row EXCEPT !.status = "REQUIRES_MANUAL_REVIEW"]
  <1>3. new \in Copy /\ new.status = "REQUIRES_MANUAL_REVIEW"
    BY <1>2 DEF Copy, Status
  <1>4. /\ staged' \in ImportList /\ live' \in [Rows -> MaybeDates] /\ uses' \in 0..MaxUses
        /\ \A s \in Rows : staged'[s] = IF s = r THEN new ELSE staged[s]
        /\ \A s \in Rows : live'[s] = IF s = r THEN Missing ELSE live[s]
    BY <1>1, <1>2, <1>3, TableFacts DEF ImportList, ImportDeskAssumption, MaybeDates
  <1>5. ImportDeskTypeOK'
    BY <1>1, <1>4 DEF ImportDeskInv, ImportDeskTypeOK
  <1>6. \A s \in Rows \ met' : RowTold(s)'
    BY <1>1, <1>3, <1>4, TableFacts DEF RowTold
  <1> QED
    BY <1>1, <1>4, <1>5, <1>6, TableFacts DEF ImportDeskInv

LEMMA ImportDeskStart ==
  ASSUME ImportDeskAssumption, ImportDeskInit
  PROVE  ImportDeskInv
  <1>1. \A r \in Rows : staged[r] \in Copy
    <2>1. LegacyRow \subseteq Copy
      BY DEF LegacyRow, Copy, Status, MaybeDates, ImportDeskAssumption
    <2>2. CanonicalRow \subseteq Copy
      BY DEF CanonicalRow, CanonicalStatus, Copy, Status, MaybeDates, ImportDeskAssumption
    <2> QED
      BY <2>1, <2>2 DEF ImportDeskInit
  <1>2. staged \in ImportList /\ DOMAIN staged = Rows
    BY <1>1 DEF ImportDeskInit, ImportList
  <1>3. /\ vouched \in [Rows -> MaybeDates] /\ live \in [Rows -> MaybeDates]
        /\ \A r \in Rows : live[r] = Missing
        /\ \A r \in Rows : vouched[r] = IF staged[r].status = "READY_FOR_APPROVAL" THEN staged[r].dates ELSE Missing
    BY <1>1 DEF ImportDeskInit, Copy, MaybeDates
  <1>4. \A c \in Importers : importer[c] = [list |-> staged, panel |-> Missing, request |-> Rest]
    BY DEF ImportDeskInit
  <1>5. /\ importer \in [Importers -> Importing]
        /\ \A c \in Importers : importer[c].request = Rest
    BY <1>2, <1>4, RestSound DEF ImportDeskInit, Importing, RequestSound
  <1>6. ImportDeskTypeOK
    BY <1>2, <1>3, <1>5 DEF ImportDeskInit, ImportDeskTypeOK, Importing, ImportDeskAssumption
  <1>7. \A r \in Rows : RowTold(r)
    BY <1>3 DEF RowTold
  <1> QED
    BY <1>3, <1>5, <1>6, <1>7, RestSound DEF ImportDeskInv

LEMMA ImportDeskStep ==
  ASSUME ImportDeskAssumption, ImportDeskInv, [ImportDeskNext]_importDeskVars
  PROVE  ImportDeskInv'
  <1>1. CASE UNCHANGED importDeskVars
    BY <1>1 DEF importDeskVars, told, ImportDeskInv, ImportDeskTypeOK, RowTold
  <1>2. ASSUME NEW r \in Rows, LoseCustomer(r)
        PROVE  ImportDeskInv'
    BY <1>2, LossKeeps
  <1>3. ASSUME NEW c \in Importers,
               \/ OpenBatch(c) \/ Close(c) \/ EditDraft(c) \/ \E r \in Rows : Inspect(c, r)
               \/ SubmitReview(c) \/ SubmitApproval(c) \/ UploadAgain(c) \/ RefuseImport(c)
               \/ CheckReview(c) \/ WriteReview(c) \/ ReadMapping(c) \/ GoLive(c)
               \/ ReadUntouched(c) \/ WriteRefreshed(c) \/ DeleteStaged(c)
        PROVE  ImportDeskInv'
    BY <1>3, BrowsingKeeps, SendingKeeps, ReadingKeeps, RefuseStep, ReviewKeeps, ApprovalKeeps,
       RefreshKeeps, DeletionKeeps
  <1> QED
    BY <1>1, <1>2, <1>3, Zenon DEF ImportDeskNext

\* What an import made live is what a person, or the reviewed sheet, said.
THEOREM ImportsAreConfirmed ==
  ASSUME ImportDeskAssumption
  PROVE  ImportDeskSpec => []LiveAsConfirmed
  <1>1. ImportDeskInit => ImportDeskInv
    BY ImportDeskStart
  <1>2. ImportDeskInv /\ [ImportDeskNext]_importDeskVars => ImportDeskInv'
    BY ImportDeskStep
  <1>3. ImportDeskInv => LiveAsConfirmed
    BY DEF ImportDeskInv, LiveAsConfirmed, RowTold
  <1> QED
    BY <1>1, <1>2, <1>3, PTL DEF ImportDeskSpec

-----------------------------------------------------------------------------
(* The classifier of workbook lines                                        *)

(* The length of a month (DaysIn, behind setUTCDate).                      *)
LEMMA MonthLengths ==
  ASSUME NEW y \in Int, NEW m \in Int
  PROVE  DaysIn(y, m) \in 28..31
BY DEF DaysIn

(* A start that the classifier finds to match its end covers the interval. *)
LEMMA TermCovered ==
  ASSUME NEW start \in Date, NEW end \in Date, NEW n \in Nat,
         InclusiveTermStart(end, n) = start
  PROVE  Covers(start, end, n)
<1> DEFINE total == 12 * end[1] + end[2] - 1 - n
           y == total \div 12
           m == (total % 12) + 1
           last == DaysIn(y, m)
           day == IF end[3] < last THEN end[3] ELSE last
<1>1. /\ end[1] \in Nat /\ end[2] \in 1..12 /\ end[3] \in 1..31
      /\ end = <<end[1], end[2], end[3]>>
  BY DEF Date
<1>2. total \in Int
  BY <1>1
<1> HIDE DEF total
<1>3. y \in Int /\ m \in 1..12 /\ 12 * y + m = total + 1
  BY <1>2
<1>4. Shift(end, -n) = <<y, m, day>>
  BY <1>1 DEF Shift, total
<1> HIDE DEF y, m
<1>5. last \in 28..31
  BY <1>3, MonthLengths
<1> HIDE DEF last
<1>6. start = IF day < last THEN <<y, m, day + 1>>
              ELSE IF m < 12 THEN <<y, m + 1, 1>> ELSE <<y + 1, 1, 1>>
  BY <1>4 DEF InclusiveTermStart, NextDay, last
<1>7. CASE day < last
  BY <1>1, <1>3, <1>5, <1>6, <1>7 DEF Covers, total
<1>8. CASE ~(day < last)
  BY <1>1, <1>3, <1>5, <1>6, <1>8 DEF Covers, total
<1> QED
  BY <1>7, <1>8

(* The conflicts a matched line is free of are all there can be between    *)
(* what it says and the package.                                           *)
LEMMA NoConflictAgrees ==
  ASSUME NEW l \in Line, NEW p \in PackageOf(l.label),
         Conflicts(l.registration, PackageOf(l.label), DetectedServiceTypes(l.text), l.text) = {}
  PROVE  EvidenceAgrees(l, p)
<1> DEFINE entry == PackageOf(l.label)
           detected == DetectedServiceTypes(l.text)
<1>1. p \in Catalog /\ p.code = l.label
  BY DEF PackageOf
<1>2. /\ ~(l.registration # None /\ \E q \in entry : q.type # l.registration)
      /\ ~Several(detected)
      /\ ~\E q \in entry, t \in detected : t # q.type
      /\ TechnicalConflicts(p, l.text) = {}
      /\ ~(Wild(l.text) /\ \E q \in entry : q.code = "SSL_SINGLE")
  <2>1. /\ ~(l.registration # None /\ \E q \in entry : q.type # l.registration)
        /\ ~Several(detected)
    BY DEF Conflicts
  <2>2. ~\E q \in entry, t \in detected : t # q.type
    BY <2>1 DEF Conflicts
  <2>3. UNION {TechnicalConflicts(q, l.text) : q \in entry} = {}
    BY DEF Conflicts
  <2>4. TechnicalConflicts(p, l.text) = {}
    BY <2>3
  <2>5. ASSUME Wild(l.text), \E q \in entry : q.code = "SSL_SINGLE"
        PROVE  FALSE
    <3>1. "wildcard" \in Conflicts(l.registration, entry, detected, l.text)
      BY <2>5 DEF Conflicts
    <3> QED
      BY <3>1
  <2> QED
    BY <2>1, <2>2, <2>4, <2>5
<1>3. l.registration \in {None, p.type}
  BY <1>2
<1>4. ASSUME NEW t \in ServiceTypes \ {"Domain"}, <<"type", t>> \in l.text
      PROVE  t = p.type
  <2>1. t \in detected
    BY <1>4 DEF DetectedServiceTypes
  <2> QED
    BY <2>1, <1>2
<1>5. \A a \in p.facts, b \in l.text : a[1] = b[1] => a[2] = b[2]
  BY <1>2 DEF TechnicalConflicts
<1>6. ASSUME <<"note", "wildcard">> \in l.text
      PROVE  p.code = "SSL_WILDCARD"
  <2>1. "SSL" \in detected
    BY <1>6 DEF DetectedServiceTypes, ServiceTypes
  <2>2. p.type = "SSL"
    BY <2>1, <1>2
  <2>3. p.code # "SSL_SINGLE"
    BY <1>2, <1>6 DEF Wild
  <2>4. \A q \in Plans : q.type = "Hosting"
    BY DEF Plans, Plan, Package
  <2>5. \A q \in Servers : q.type = "Dedicated Server"
    <3> TAKE q \in Servers
    <3> USE DEF Server, Package
    <3>1. CASE q = Server("DEDICATED_LINUX_8X", 8, 4, "linux")
      BY <3>1
    <3>2. CASE q = Server("DEDICATED_LINUX_4X", 4, 2, "linux")
      BY <3>2
    <3>3. CASE q = Server("DEDICATED_LINUX_2X", 2, 1, "linux")
      BY <3>3
    <3>4. CASE q = Server("DEDICATED_WINDOWS_8X", 8, 4, "windows")
      BY <3>4
    <3>5. CASE q = Server("DEDICATED_WINDOWS_4X", 4, 2, "windows")
      BY <3>5
    <3>6. CASE q = Server("DEDICATED_WINDOWS_2X", 2, 1, "windows")
      BY <3>6
    <3> QED
      BY <3>1, <3>2, <3>3, <3>4, <3>5, <3>6 DEF Servers
  <2>6. \A q \in Extras : q.type # "SSL"
    <3> TAKE q \in Extras
    <3> USE DEF Plain, Package
    <3>1. CASE q = Plain("ADDON_EXTRA_SECURITY", "Dedicated Server")
      BY <3>1
    <3>2. CASE q = Plain("ADDON_EXTRA_EMAIL", "Dedicated Server")
      BY <3>2
    <3>3. CASE q \in {Plain("SUPPORT_PLATINUM", "Support"), Plain("SUPPORT_PREMIUM", "Support"),
                      Plain("SUPPORT_PROFESSIONAL", "Support")}
      BY <3>3
    <3> QED
      BY <3>1, <3>2, <3>3 DEF Extras
  <2>7. \A q \in Certificates : q.code \in {"SSL_SINGLE", "SSL_WILDCARD"}
    BY DEF Certificates, Plain, Package
  <2>8. p \in Certificates
    BY <1>1, <2>2, <2>4, <2>5, <2>6 DEF Catalog
  <2> QED
    BY <2>3, <2>7, <2>8
<1> QED
  BY <1>1, <1>3, <1>4, <1>5, <1>6 DEF EvidenceAgrees

(* The strongest service type of a matched line is the package's.          *)
LEMMA StrongestOfMatched ==
  ASSUME NEW l \in Line, NEW p \in PackageOf(l.label),
         Conflicts(l.registration, PackageOf(l.label), DetectedServiceTypes(l.text), l.text) = {}
  PROVE  \E q \in PackageOf(l.label) :
            StrongestType(l.registration, PackageOf(l.label), DetectedServiceTypes(l.text)) = q.type
<1> DEFINE entry == PackageOf(l.label)
           detected == DetectedServiceTypes(l.text)
<1>1. \A q \in entry, t \in detected : Several(detected) \/ t = q.type
  BY DEF Conflicts
<1>2. ~Several(detected)
  BY DEF Conflicts
<1>3. CASE detected # {}
  BY <1>1, <1>2, <1>3 DEF StrongestType
<1>4. CASE detected = {}
  BY <1>4 DEF StrongestType
<1> QED
  BY <1>3, <1>4

(* A price without an issue stands in a column of the line.                *)
LEMMA OnePrice ==
  ASSUME NEW l \in Line, PriceIssues(OriginalPrice(l), l.jod, l.usd) = {}
  PROVE  LET price == SuggestedPrice(OriginalPrice(l), l.jod, l.usd)
         IN /\ price \in Prices(l)
            /\ price \in {l.original, l.price} \/ Prices(l) = {price}
<1> DEFINE o == OriginalPrice(l)
           price == SuggestedPrice(o, l.jod, l.usd)
<1>1. l.original \in Price /\ l.price \in Price /\ l.jod \in Nat /\ l.usd \in Nat
  BY DEF Line
<1>2. o \in {l.original, l.price} /\ o \in Price
  BY <1>1 DEF OriginalPrice
<1>3. (o.amount = 0) <=> (o.currency = None)
  BY <1>2 DEF PriceIssues
<1>4. CASE o.amount # 0
  <2>1. price = o
    BY <1>2, <1>3, <1>4 DEF SuggestedPrice, Price
  <2> QED
    BY <1>2, <1>3, <1>4, <2>1 DEF Prices
<1>5. CASE o.amount = 0
  <2>1. (l.jod = 0) # (l.usd = 0)
    BY <1>3, <1>5 DEF PriceIssues
  <2>2. o = NoPrice
    BY <1>2, <1>3, <1>5 DEF Price, NoPrice
  <2>3. l.price = NoPrice /\ l.original = NoPrice
    BY <2>2 DEF OriginalPrice
  <2>4. Prices(l) = IF l.jod # 0 THEN {[amount |-> l.jod, currency |-> "JOD"]}
                    ELSE {[amount |-> l.usd, currency |-> "USD"]}
    BY <1>1, <2>1, <2>3 DEF Prices, NoPrice, None
  <2>5. price = IF l.jod # 0 THEN [amount |-> l.jod, currency |-> "JOD"]
                ELSE [amount |-> l.usd, currency |-> "USD"]
    BY <1>5, <2>1, <2>2 DEF SuggestedPrice, NoPrice
  <2> QED
    BY <2>4, <2>5
<1> QED
  BY <1>4, <1>5

(* The lemmas above put together: what is suggested without an issue.      *)
LEMMA SoundSuggestion ==
  ASSUME NEW l \in Line, NEW s, s = ClassifyLegacyValues(l),
         s.issues \subseteq {"interval"}
  PROVE  /\ l.named = {"company", "email", "billing"}
         /\ \E p \in Catalog :
              /\ EvidenceAgrees(l, p)
              /\ s.package = p.code /\ s.type = p.type
         /\ NoDate \notin {l.start, l.end} /\ Before(l.start, l.end)
         /\ s.price \in Prices(l)
         /\ s.price \in {l.original, l.price} \/ Prices(l) = {s.price}
         /\ TermMonths(l.term) # 0 => Covers(l.start, l.end, TermMonths(l.term))
<1> DEFINE entry == PackageOf(l.label)
           detected == DetectedServiceTypes(l.text)
           type == StrongestType(l.registration, entry, detected)
           conflicts == Conflicts(l.registration, entry, detected, l.text)
           months == TermMonths(l.term)
<1>1. /\ s.price = SuggestedPrice(OriginalPrice(l), l.jod, l.usd)
      /\ s.type = type
      /\ entry # {} /\ conflicts = {} => s.package = l.label
  BY DEF ClassifyLegacyValues
<1>2. /\ conflicts \subseteq {"interval"}
      /\ {"company", "email", "billing"} \ l.named \subseteq {"interval"}
      /\ entry # {} /\ conflicts = {}
      /\ DateIssues(l.start, l.end, months) \subseteq {"interval"}
      /\ PriceIssues(OriginalPrice(l), l.jod, l.usd) \subseteq {"interval"}
  BY DEF ClassifyLegacyValues
<1>3. PICK p \in entry : s.type = p.type
  BY <1>1, <1>2, StrongestOfMatched
<1>4. p \in Catalog /\ EvidenceAgrees(l, p) /\ s.package = p.code
  BY <1>1, <1>2, NoConflictAgrees DEF PackageOf
<1>5. l.named = {"company", "email", "billing"}
  BY <1>2 DEF Line
<1>6. PriceIssues(OriginalPrice(l), l.jod, l.usd) = {}
  BY <1>2 DEF PriceIssues
<1>7. /\ NoDate \notin {l.start, l.end} /\ Before(l.start, l.end)
      /\ months # 0 => InclusiveTermStart(l.end, months) = l.start
  <2>1. \A d \in {"start", "end", "dates reversed", "dates off interval"} :
           d \notin DateIssues(l.start, l.end, months)
    BY <1>2
  <2>2. l.start # NoDate /\ l.end # NoDate
    BY <2>1 DEF DateIssues
  <2>3. Before(l.start, l.end)
    BY <2>1, <2>2 DEF DateIssues
  <2>4. months # 0 => InclusiveTermStart(l.end, months) = l.start
    BY <2>1, <2>2, <2>3 DEF DateIssues
  <2> QED
    BY <2>2, <2>3, <2>4
<1>8. months \in Nat
  BY DEF TermMonths, Line, Wording
<1>9. months # 0 => Covers(l.start, l.end, months)
  BY <1>7, <1>8, TermCovered DEF Line
<1> QED
  BY <1>1, <1>3, <1>4, <1>5, <1>6, <1>7, <1>9, OnePrice

LEMMA NobodyAlike ==
  ASSUME NEW l \in Line, Duplicate(l) = {}
  PROVE  \A c \in l.alike : c.shares # {} => "entity" \in l.offered /\ c.entity = "other"
<1>1. DuplicateCandidates(l) = {}
  BY DEF Duplicate
<1>2. \A c \in l.alike : c.entity \in {"own", "other"}
  BY DEF Line, Account
<1> QED
  BY <1>1, <1>2 DEF DuplicateCandidates

(* A line staged without an issue tells one story (legacy-workbook.parser  *)
(* and both importers), for any set of lines.                              *)
THEOREM StagedWithoutDoubt ==
  ASSUME WorkbookAssumption
  PROVE  WorkbookSpec => []SilentMeansSound
<1> DEFINE Inv == line \in Lines /\ line \in Line /\ SilentMeansSound
<1>1. WorkbookInit => Inv
  BY DEF WorkbookInit, WorkbookAssumption, SilentMeansSound
<1>2. ASSUME Inv, StageRaw
      PROVE  Inv'
  <2> DEFINE s == ClassifyLegacyValues(line)
  <2> SUFFICES ASSUME mapping'.issues = {}
               PROVE  SilentMeansSound'
    BY <1>2 DEF StageRaw, SilentMeansSound
  <2>1. /\ line' = line
        /\ s.issues = {} /\ s.months # 0
        /\ mapping'.package \in {s.package, None} /\ mapping'.type \in {s.type, None}
        /\ mapping'.start = line.start /\ mapping'.end = line.end
        /\ mapping'.months = TermMonths(line.term) /\ mapping'.price = s.price
        /\ Duplicate(line) = {}
    BY <1>2 DEF StageRaw, StagedAs, Offer, ClassifyLegacyValues
  <2>2. TermMonths(line.term) # 0
    BY <2>1 DEF ClassifyLegacyValues
  <2> HIDE DEF s
  <2> QED
    BY <1>2, <2>1, <2>2, SoundSuggestion, NobodyAlike DEF SilentMeansSound, s
<1>3. ASSUME Inv, StageCanonical
      PROVE  Inv'
  <2> DEFINE shown == Synthetic(line)
             s == ClassifyLegacyValues(shown)
  <2> SUFFICES ASSUME mapping'.issues = {}
               PROVE  SilentMeansSound'
    BY <1>3 DEF StageCanonical, SilentMeansSound
  <2>1. /\ line' = line /\ line.form = "canonical"
        /\ s.issues \subseteq {"interval"}
        /\ "interval" \in s.issues => TermMonths(line.term) # 0
        /\ mapping'.package \in {s.package, None} /\ mapping'.type \in {s.type, None}
        /\ mapping'.start = line.start /\ mapping'.end = line.end
        /\ mapping'.months = TermMonths(line.term) /\ mapping'.price = line.price
        /\ Duplicate(line) = {}
    <3> DEFINE known == {i \in {"interval"} : TermMonths(line.term) # 0}
    <3>1. /\ line' = line /\ line.form = "canonical"
          /\ (s.issues \ known) \subseteq mapping'.issues
          /\ mapping'.package \in {s.package, None} /\ mapping'.type \in {s.type, None}
          /\ mapping'.start = line.start /\ mapping'.end = line.end
          /\ mapping'.months = TermMonths(line.term) /\ mapping'.price = line.price
          /\ Duplicate(line) = {}
      <4> HIDE DEF s
      <4>1. [s EXCEPT !.price = line.price].package = s.package
            /\ [s EXCEPT !.price = line.price].type = s.type
            /\ [s EXCEPT !.price = line.price].price = line.price
        BY DEF s, ClassifyLegacyValues
      <4> QED
        BY <1>3, <4>1 DEF StageCanonical, StagedAs, Offer, shown, s
    <3> HIDE DEF s
    <3> QED
      BY <3>1
  <2>2. /\ shown \in Line
        /\ shown.named = line.named /\ shown.start = line.start /\ shown.end = line.end
        /\ shown.original = line.original /\ shown.jod = line.jod /\ shown.usd = line.usd
        /\ shown.label = line.label /\ shown.registration = line.registration
        /\ shown.text = line.text
        /\ shown.price = IF line.price.amount # 0 /\ line.price.currency # None
                         THEN line.price ELSE NoPrice
        /\ TermMonths(shown.term) = 0
    <3> DEFINE price == IF line.price.amount # 0 /\ line.price.currency # None
                        THEN line.price ELSE NoPrice
               term == [count |-> 0, unit |-> "unclear"]
    <3>1. term \in Wording /\ TermMonths(term) = 0
      BY DEF Wording, TermMonths
    <3>2. price \in Price
      BY <1>3 DEF Line, Price, NoPrice
    <3> HIDE DEF price, term
    <3>3. shown = [line EXCEPT !.term = term, !.price = price]
      BY DEF Synthetic, price, term
    <3>4. shown \in Line
      BY <1>3, <3>1, <3>2, <3>3 DEF Line
    <3> QED
      BY <1>3, <3>1, <3>3, <3>4 DEF Line, price
  <2>3. line.original = NoPrice /\ line.jod = 0 /\ line.usd = 0
    BY <1>3, <2>1 DEF WorkbookAssumption, CanonicalColumns
  <2>4. "interval" \in s.issues
    BY <2>2 DEF ClassifyLegacyValues
  <2> HIDE DEF s, shown
  <2>5. /\ shown.named = {"company", "email", "billing"}
        /\ \E p \in Catalog :
             EvidenceAgrees(shown, p) /\ s.package = p.code /\ s.type = p.type
        /\ NoDate \notin {shown.start, shown.end} /\ Before(shown.start, shown.end)
        /\ s.price \in Prices(shown)
    BY <2>1, <2>2, SoundSuggestion DEF s
  <2>6. Prices(shown) \subseteq {shown.price}
    BY <2>2, <2>3 DEF Prices, NoPrice
  <2>7. shown.price.amount # 0
    BY <2>5, <2>6 DEF Prices
  <2>8. shown.price = line.price
    BY <2>2, <2>7 DEF NoPrice
  <2>9. line.price \in Prices(line)
    BY <2>2, <2>5, <2>6, <2>8 DEF Prices
  <2>10. \A p \in Catalog : EvidenceAgrees(shown, p) => EvidenceAgrees(line, p)
    BY <2>2 DEF EvidenceAgrees
  <2> QED
    BY <1>3, <2>1, <2>2, <2>4, <2>5, <2>9, <2>10, NobodyAlike DEF SilentMeansSound
<1>4. ASSUME Inv, UNCHANGED workbookVars
      PROVE  Inv'
  BY <1>4 DEF workbookVars, SilentMeansSound
<1> QED
  BY <1>1, <1>2, <1>3, <1>4, PTL DEF WorkbookSpec, WorkbookNext

=============================================================================
