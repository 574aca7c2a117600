------------------------- MODULE InboundCorrelation --------------------------
(***************************************************************************)
(* Into which conversation an inbound message is put and whether the AI    *)
(* may have it: MailInboundCorrelationService, with the resolution of its  *)
(* sender (MailInboundSenderResolutionService) and of a case's canonical   *)
(* thread (MailThreadResolutionService). All of it runs in the transaction *)
(* that stores the message, on the snapshot that this began with, while    *)
(* other messages are stored, reminders are sent, address books and        *)
(* customers are changed, and people and the AI move threads and cases on. *)
(*                                                                         *)
(* The rest of the message is not here: InboundIngest has how it was       *)
(* fetched, AiPipeline what becomes of it. A header is the sequence of the *)
(* tokens in it; a Message-ID is what it reads and how it is spelt, since  *)
(* the column compares without regard to case.                             *)
(***************************************************************************)
EXTENDS Integers, Sequences, FiniteSets

CONSTANTS
    Mails,      \* the messages that arrive
    Mailboxes,  \* mailboxes of the firm
    Talks,      \* ids of threads, as numbers
    People,     \* customers
    Matters,    \* renewal cases
    ClientOf,   \* case -> its customer
    Books,      \* the address books there may be
    Outgoing,   \* case -> the Message-ID of its reminder
    Ingesters,  \* transactions that may overlap
    MaxEvents   \* bound on what else happens

VARIABLES
    talks,      \* thread -> its row
    held,       \* the stored messages, in the order of their commits
    book,       \* whose address is which
    dormant,    \* customers who are INACTIVE
    closed,     \* cases with a terminal status
    ingesting,  \* transaction -> its message and its snapshot
    events      \* how much else has happened

officeVars == <<book, dormant, closed>>
correlationVars == <<talks, held, officeVars, ingesting, events>>

-----------------------------------------------------------------------------
(* State                                                                   *)

Nil == "-"
Several == "several"

(* The table of e-mail channels, and the column that only customers        *)
(* without a channel are looked up by.                                     *)
BookOK(b) ==
    /\ \A r \in b.channels : r.customer \in People /\ r.active \in BOOLEAN
    /\ DOMAIN b.primaryEmail = People

CorrelationAssumption ==
    /\ Talks \subseteq Nat \ {0}
    /\ {Nil, Several} \cap (People \union Matters) = {}
    /\ ClientOf \in [Matters -> People]
    /\ \A m \in Mails : m.box \in Mailboxes /\ m.hint \in Matters \union {Nil}
    /\ \A b \in Books : BookOK(b)
    /\ MaxEvents \in Nat

Sent == [from |-> Nil]   \* not a message that arrived
NoTalk == [status |-> "none"]
Away == [at |-> "away"]

CorrelationInit ==
    /\ talks = [t \in Talks |-> NoTalk]
    /\ held = <<>>
    /\ book \in Books
    /\ dormant = {}
    /\ closed = {}
    /\ ingesting = [w \in Ingesters |-> Away]
    /\ events = 0

Snapshot ==
    [talks |-> talks, held |-> held, book |-> book, dormant |-> dormant, closed |-> closed]

Rows(messages) == {messages[i] : i \in DOMAIN messages}
Stored(m) == \E h \in Rows(held) : h.mail = m
Threads(rows) == {t \in Talks : rows[t] # NoTalk}
CaseTalk(rows, c) == {t \in Threads(rows) : rows[t].matter = c}
FreeTalk == CHOOSE t \in Talks \ Threads(talks) : \A u \in Talks \ Threads(talks) : t <= u

-----------------------------------------------------------------------------
(* The sender                                                              *)

Registered(b, address) ==
    {c \in People : [customer |-> c, address |-> address, active |-> TRUE] \in b.channels}

ByColumn(b, address) ==
    {c \in People : b.primaryEmail[c] = address /\ \A r \in b.channels : r.customer # c}

(* resolveSenderCustomer()                                                 *)
Sender(b, address) ==
    LET found == IF Registered(b, address) # {} THEN Registered(b, address)
                 ELSE ByColumn(b, address)
    IN IF address = Nil \/ found = {} THEN Nil
       ELSE IF Cardinality(found) > 1 THEN Several
       ELSE CHOOSE c \in found : TRUE

-----------------------------------------------------------------------------
(* The thread                                                              *)

\* brackets around anything but one address-like word of at most 498 letters
Malformed == [reads |-> "", spelt |-> ""]

\* parseMessageIdTokens() drops what is malformed, parsePrimaryMessageId()
\* takes the first of what is left
Tokens(header) == SelectSeq(header, LAMBDA t : t # Malformed)
Primary(header) == IF Tokens(header) = <<>> THEN <<>> ELSE <<Head(Tokens(header))>>

Cited(m) == Rows(Primary(m.inReplyTo)) \union Rows(Tokens(m.references))

\* Faulty: what the column finds is taken for a match.
ExactlyAny(rows, ids) == rows

Exactly(rows, ids) == {h \in rows : h.id \in ids}

(* matchThreadsByExternalIds() of both headers. More than one thread in    *)
(* either, or one in each that is not the other's, is ambiguous: that is   *)
(* more than one in the two together.                                      *)
Matched(s, m) ==
    LET alike == {h \in Rows(s.held) :
                    h.box = m.box /\ \E i \in Cited(m) : h.id.reads = i.reads}
    IN {h.talk : h \in Exactly(alike, Cited(m))}

(* useExistingThread(): the status is the one the snapshot has, unless a   *)
(* person must look or the thread was resolved.                            *)
Conflicting(s, m, talk) ==
    talk.customer # Nil /\ Sender(s.book, m.from) \in People \ {talk.customer}

Join(s, m, t) ==
    LET talk == s.talks[t]
        escalate == Conflicting(s, m, talk) \/ talk.matter \in s.closed
    IN [kind |-> "join", talk |-> t, customer |-> talk.customer, matter |-> talk.matter,
        message |-> IF escalate THEN "HUMAN_REVIEW" ELSE "PENDING",
        status |-> IF escalate THEN "HUMAN_REVIEW"
                   ELSE IF talk.status = "RESOLVED" THEN "OPEN" ELSE talk.status,
        last |-> IF m.at > talk.last THEN m.at ELSE talk.last]

(* createGeneralThread()                                                   *)
Begin(customer, status) ==
    [kind |-> "new", customer |-> customer, matter |-> Nil, status |-> status,
     message |-> IF status = "OPEN" THEN "PENDING" ELSE "HUMAN_REVIEW"]

(* attributeAndCreateGeneralThread()                                       *)
General(s, m, forced) ==
    LET sender == Sender(s.book, m.from)
    IN IF sender \in People
       THEN Begin(sender, IF forced \/ sender \in s.dormant THEN "HUMAN_REVIEW" ELSE "OPEN")
       ELSE Begin(Nil, "HUMAN_REVIEW")

(* tryRenewalCaseHeader(): a hint counts if it is the case's customer who  *)
(* gives it, and for a thread of the same mailbox.                         *)
Vouched(s, m) == Sender(s.book, m.from) = ClientOf[m.hint]

ByHint(s, m) ==
    LET there == CaseTalk(s.talks, m.hint)
    IN IF ~Vouched(s, m) THEN General(s, m, TRUE)
       ELSE IF there = {}
            THEN [kind |-> "case", customer |-> ClientOf[m.hint], matter |-> m.hint,
                  message |-> IF m.hint \in s.closed THEN "HUMAN_REVIEW" ELSE "PENDING"]
            ELSE LET t == CHOOSE t \in there : TRUE
                 IN IF s.talks[t].box = m.box THEN Join(s, m, t) ELSE General(s, m, TRUE)

(* correlate(), in the order it tries things.                              *)
Correlate(s, m) ==
    LET matched == Matched(s, m)
    IN IF Cardinality(matched) > 1 THEN Begin(Nil, "HUMAN_REVIEW")
       ELSE IF matched # {} THEN Join(s, m, CHOOSE t \in matched : TRUE)
       ELSE IF m.hint # Nil THEN ByHint(s, m)
       ELSE General(s, m, FALSE)

-----------------------------------------------------------------------------
(* Ingest                                                                  *)

(* The first read of the transaction fixes what all of them see.           *)
BeginIngest(w, m) ==
    /\ ingesting[w] = Away
    /\ ~Stored(m)
    /\ ingesting' = [ingesting EXCEPT ![w] = [at |-> "read", mail |-> m, saw |-> Snapshot]]
    /\ UNCHANGED <<talks, held, officeVars, events>>

Keep(w, t, customer, matter, status) ==
    LET m == ingesting[w].mail
        s == ingesting[w].saw
    IN held' = Append(held,
        [mail |-> m, box |-> m.box, id |-> m.id, talk |-> t, customer |-> customer,
         matter |-> matter, status |-> status, sender |-> Sender(s.book, m.from),
         saw |-> Len(s.held)])

(* A message that was stored meanwhile is refused by its identity key and  *)
(* everything is rolled back.                                              *)
Duplicate(w) ==
    /\ ingesting[w] # Away
    /\ Stored(ingesting[w].mail)
    /\ ingesting' = [ingesting EXCEPT ![w] = Away]
    /\ UNCHANGED <<talks, held, officeVars, events>>

Continue(w, plan) ==
    /\ plan.kind = "join"
    /\ talks' = [talks EXCEPT ![plan.talk].status = plan.status,
                              ![plan.talk].last = plan.last]
    /\ Keep(w, plan.talk, plan.customer, plan.matter, plan.message)

StartGeneral(w, plan) ==
    /\ plan.kind = "new"
    /\ talks' = [talks EXCEPT ![FreeTalk] =
            [customer |-> plan.customer, matter |-> Nil, box |-> ingesting[w].mail.box,
             status |-> plan.status, last |-> ingesting[w].mail.at]]
    /\ Keep(w, FreeTalk, plan.customer, Nil, plan.message)

(* resolveOrCreate(): who comes second has the thread of who came first,   *)
(* read afresh, whatever its mailbox. A decided case then escalates it.    *)
StartCase(w, plan) ==
    /\ plan.kind = "case"
    /\ LET there == CaseTalk(talks, plan.matter)
           t == IF there = {} THEN FreeTalk ELSE CHOOSE u \in there : TRUE
           row == IF there # {} THEN talks[t]
                  ELSE [customer |-> plan.customer, matter |-> plan.matter,
                        box |-> ingesting[w].mail.box, status |-> "OPEN",
                        last |-> ingesting[w].mail.at]
       IN /\ talks' = [talks EXCEPT ![t] =
                [row EXCEPT !.status = IF plan.message = "PENDING" THEN @ ELSE "HUMAN_REVIEW"]]
          /\ Keep(w, t, row.customer, row.matter, plan.message)

CommitIngest(w) ==
    /\ ingesting[w] # Away
    /\ ~Stored(ingesting[w].mail)
    /\ LET plan == Correlate(ingesting[w].saw, ingesting[w].mail)
       IN Continue(w, plan) \/ StartGeneral(w, plan) \/ StartCase(w, plan)
    /\ ingesting' = [ingesting EXCEPT ![w] = Away]
    /\ UNCHANGED <<officeVars, events>>

-----------------------------------------------------------------------------
(* What else happens                                                       *)

Event == events < MaxEvents /\ events' = events + 1

(* A reminder of a case is sent, from the mailbox of the day; its thread   *)
(* is the case's.                                                          *)
SendReminder(c, b) ==
    /\ Event
    /\ c \notin closed
    /\ \A h \in Rows(held) : h.id # Outgoing[c]
    /\ LET there == CaseTalk(talks, c)
           t == IF there = {} THEN FreeTalk ELSE CHOOSE u \in there : TRUE
       IN /\ talks' = IF there # {} THEN talks
                      ELSE [talks EXCEPT ![t] = [customer |-> ClientOf[c], matter |-> c, box |-> b,
                                                 status |-> "OPEN", last |-> 0]]
          /\ held' = Append(held,
                [mail |-> Sent, box |-> b, id |-> Outgoing[c], talk |-> t,
                 customer |-> ClientOf[c], matter |-> c, status |-> "NOT_APPLICABLE",
                 sender |-> Nil, saw |-> Len(held)])
    /\ UNCHANGED <<officeVars, ingesting>>

(* People resolve a thread, the AI's routing asks for people.              *)
MoveTalk(t, status) ==
    /\ Event
    /\ t \in Threads(talks)
    /\ talks' = [talks EXCEPT ![t].status = status]
    /\ UNCHANGED <<held, officeVars, ingesting>>

ChangeBook(b) ==
    /\ Event
    /\ book' = b
    /\ UNCHANGED <<talks, held, dormant, closed, ingesting>>

Deactivate(c) ==
    /\ Event
    /\ dormant' = dormant \union {c}
    /\ UNCHANGED <<talks, held, book, closed, ingesting>>

Decide(c) ==
    /\ Event
    /\ closed' = closed \union {c}
    /\ UNCHANGED <<talks, held, book, dormant, ingesting>>

CorrelationNext ==
    \/ \E w \in Ingesters :
        \/ \E m \in Mails : BeginIngest(w, m)
        \/ Duplicate(w)
        \/ CommitIngest(w)
    \/ \E c \in Matters, b \in Mailboxes : SendReminder(c, b)
    \/ \E t \in Talks, status \in {"RESOLVED", "HUMAN_REVIEW"} : MoveTalk(t, status)
    \/ \E b \in Books : ChangeBook(b)
    \/ \E c \in People : Deactivate(c)
    \/ \E c \in Matters : Decide(c)

CorrelationSpec == CorrelationInit /\ [][CorrelationNext]_correlationVars

-----------------------------------------------------------------------------
(* Properties                                                              *)

Inbound == {h \in Rows(held) : h.mail # Sent}

(* What a message says of its customer and case is what its thread says,   *)
(* and the case is that customer's.                                        *)
Filed(h) ==
    /\ h.customer = talks[h.talk].customer /\ h.matter = talks[h.talk].matter
    /\ h.matter # Nil => h.customer = ClientOf[h.matter]

(* The threads of the messages it cites, when its transaction began.       *)
CitedThen(h) ==
    {held[i].talk : i \in {j \in 1..h.saw : held[j].box = h.box /\ held[j].id \in Cited(h.mail)}}

(* A message in a thread that others are in either cites one of them or    *)
(* comes from the customer of the case it names.                           *)
Belongs(h) ==
    \/ CitedThen(h) = {h.talk}
    \/ CitedThen(h) = {} /\ h.matter # Nil /\ h.mail.hint = h.matter
       /\ h.sender = ClientOf[h.matter]

(* However transactions on snapshots overlap with one another, with        *)
(* reminders and with changes of address books, nobody gets into another's *)
(* conversation: a message that others share a thread with belongs there,  *)
(* by what it cites or by who is known to have sent it; one that belongs   *)
(* to no thread has one of its own, without a case, and waits for a person *)
(* if what it cites is in several; and what is left to the AI (PENDING)    *)
(* was never known to be from another customer than its thread's, which it *)
(* has or had been matched to.                                             *)
KeptApart ==
    /\ \A h \in Rows(held) : Filed(h)
    /\ \A h \in Inbound :
        /\ ~Belongs(h) =>
               /\ h.matter = Nil
               /\ \A g \in Inbound \ {h} : g.talk = h.talk => Belongs(g)
        /\ Cardinality(CitedThen(h)) > 1 => h.status = "HUMAN_REVIEW" /\ h.customer = Nil
        /\ h.status = "PENDING" =>
               /\ h.sender \in People /\ h.customer # Nil => h.sender = h.customer
               /\ h.customer = Nil => Belongs(h)

(* More than the code keeps: line 185 says that lastMessageAt is computed  *)
(* against the current row, but it is read from the snapshot, and a later  *)
(* message that was committed meanwhile is forgotten.                      *)
LastIsLatest == \A h \in Inbound : talks[h.talk].last >= h.mail.at

(* More than the code keeps: the snapshot's status is written back over an *)
(* escalation that was committed meanwhile, without a person having seen   *)
(* the thread.                                                             *)
EscalationStands ==
    [][\A t \in Threads(talks) :
        talks[t].status = "HUMAN_REVIEW" => talks'[t].status # "OPEN"]_correlationVars

(* More than the code keeps: who comes second to a case's thread writes    *)
(* into the first one's mailbox, though a hint for such a thread is        *)
(* otherwise refused (lines 37 and 238).                                   *)
InItsMailbox == \A h \in Inbound : h.box = talks[h.talk].box

=============================================================================
