--------------------------- MODULE ReplyComposer ---------------------------
(***************************************************************************)
(* Composing an operator reply: the thread page (composer, suggested reply,*)
(* polling of delivery states), its HTTP requests, and queueReply on the   *)
(* server. An answer may be lost while the server keeps working, so two    *)
(* requests with one idempotency key may run at once. ReplyOutbound goes   *)
(* on from the rows queued here.                                           *)
(***************************************************************************)
EXTENDS Integers, FiniteSets

CONSTANTS
    Texts,        \* what an operator types: a subject and a body, trimmed
    Blank,        \* the empty composer
    Suggestion,   \* what the AI drafts
    MaxSends,     \* bound on POST .../replies sent, also on the keys generated
    MaxLoads      \* bound on thread reads in flight

ComposerAssumption ==
    /\ Blank # Suggestion /\ Texts \cap {Blank, Suggestion} = {}
    /\ MaxSends \in Nat \ {0} /\ MaxLoads \in Nat \ {0}

VARIABLES
    page,       \* the mounted page: composer, key, what it waits for, its view
    posts,      \* POST .../replies the server works on
    replies,    \* operator_reply_outbox with the text of its EmailMessage
    reads,      \* answers to GET .../communication-threads/:id under way
    sent,       \* history: POSTs sent so far
    confirmed,  \* history: keys whose reply was acknowledged, with its text
    left        \* history: keys that went with an unmounted page

composerVars == <<page, posts, replies, reads, sent, confirmed, left>>

-----------------------------------------------------------------------------
(* State                                                                   *)

Written == Texts \union {Blank, Suggestion}
Key == 1..(MaxSends + 2)

(* What the page knows of the newest outbound message: its key and whether *)
(* its delivery is still QUEUED or PROCESSING. 0: none.                    *)
View == [latest : Key \union {0}, open : BOOLEAN]

Page ==
    [text : Written, key : Key, sending : {"no", "post", "load"},
     drafting : BOOLEAN, view : View]

Post ==
    [id : 1..MaxSends, key : Key, text : Written, step : {"find", "insert", "winner"},
     retried : BOOLEAN, heard : BOOLEAN]

ComposerTypeOK ==
    /\ page \in Page
    /\ posts \subseteq Post
    /\ \A r \in replies : r.key \in Key /\ r.text \in Written /\ r.open \in BOOLEAN
    /\ \A a \in reads : a.snap \in View /\ a.sender \in BOOLEAN
    /\ sent \in 0..MaxSends
    /\ \A a \in confirmed : a.key \in Key /\ a.text \in Written

Fresh(key, view) ==
    [text |-> Blank, key |-> key, sending |-> "no", drafting |-> FALSE, view |-> view]

Snapshot ==
    IF replies = {} THEN [latest |-> 0, open |-> FALSE]
    ELSE LET r == CHOOSE x \in replies : \A y \in replies : y.key <= x.key
         IN  [latest |-> r.key, open |-> r.open]

ComposerInit ==
    /\ page = Fresh(1, [latest |-> 0, open |-> FALSE])
    /\ posts = {}
    /\ replies = {}
    /\ reads = {}
    /\ sent = 0
    /\ confirmed = {}
    /\ left = {}

-----------------------------------------------------------------------------
(* The composer                                                            *)

Write ==
    /\ \E t \in Texts \union {Blank} : page' = [page EXCEPT !.text = t]
    /\ UNCHANGED <<posts, replies, reads, sent, confirmed, left>>

SendReply ==
    /\ page.sending = "no" /\ page.text # Blank
    /\ sent < MaxSends
    /\ sent' = sent + 1
    /\ page' = [page EXCEPT !.sending = "post"]
    /\ posts' = posts \union {[id |-> sent + 1, key |-> page.key, text |-> page.text,
                               step |-> "find", retried |-> FALSE, heard |-> TRUE]}
    /\ UNCHANGED <<replies, reads, confirmed, left>>

Acknowledged(p) ==
    [p EXCEPT !.text = Blank, !.key = @ + 1, !.sending = "load"]

(* The catch path keeps the text and the key for another try.              *)
Refused(p) == [p EXCEPT !.sending = "no"]

(* How the page takes the end of a request it still listens to.            *)
Answer(q, ok) ==
    /\ page' = IF ~q.heard THEN page ELSE IF ok THEN Acknowledged(page) ELSE Refused(page)
    /\ confirmed' = IF q.heard /\ ok
                    THEN confirmed \union {[key |-> q.key, text |-> q.text]} ELSE confirmed
    /\ posts' = posts \ {q}

(* The answer will not arrive: the browser reports an error, the server    *)
(* does not notice.                                                        *)
LoseAnswer(q) ==
    /\ q.heard
    /\ posts' = (posts \ {q}) \union {[q EXCEPT !.heard = FALSE]}
    /\ page' = Refused(page)
    /\ UNCHANGED <<replies, reads, sent, confirmed, left>>

(* A reload, or a navigation away and back. Bound: once.                   *)
Remount ==
    /\ left = {}
    /\ page' = Fresh(page.key + 1, Snapshot)
    /\ posts' = {[q EXCEPT !.heard = FALSE] : q \in posts}
    /\ reads' = {}
    /\ left' = left \union {page.key}
    /\ UNCHANGED <<replies, sent, confirmed>>

-----------------------------------------------------------------------------
(* attemptQueueReply                                                       *)

RowsOf(q) == {r \in replies : r.key = q.key}

\* Faulty: the key alone identifies the request.
EquivalentByKey(q) == TRUE

(* resolveExisting: the very same reply, or 409.                           *)
Equivalent(q) == \A r \in RowsOf(q) : r.text = q.text

Goto(q, step) == posts' = (posts \ {q}) \union {[q EXCEPT !.step = step]}

(* A new reply needs a usable mailbox and a contact of the customer.       *)
FindExisting(q) ==
    /\ q.step = "find"
    /\ IF RowsOf(q) # {} THEN Answer(q, Equivalent(q))
       ELSE \/ Answer(q, FALSE)
            \/ Goto(q, "insert") /\ UNCHANGED <<page, confirmed>>
    /\ UNCHANGED <<replies, reads, sent, left>>

(* operator_reply_outbox is unique over (actorId, idempotencyKey).         *)
Insertable(q) == RowsOf(q) = {}

Insert(q) ==
    /\ q.step = "insert"
    /\ IF Insertable(q)
       THEN /\ replies' = replies \union {[key |-> q.key, text |-> q.text, open |-> TRUE]}
            /\ Answer(q, TRUE)
       ELSE /\ Goto(q, "winner")
            /\ UNCHANGED <<page, replies, confirmed>>
    /\ UNCHANGED <<reads, sent, left>>

(* P2034, for the same race or for an unrelated one: one more attempt.     *)
Deadlocked(q) ==
    /\ q.step = "insert"
    /\ IF q.retried THEN Answer(q, FALSE)
       ELSE /\ posts' = (posts \ {q}) \union {[q EXCEPT !.step = "find", !.retried = TRUE]}
            /\ UNCHANGED <<page, confirmed>>
    /\ UNCHANGED <<replies, reads, sent, left>>

ResolveWinner(q) ==
    /\ q.step = "winner"
    /\ Answer(q, RowsOf(q) # {} /\ Equivalent(q))
    /\ UNCHANGED <<replies, reads, sent, left>>

-----------------------------------------------------------------------------
(* Reading the thread: once after a send, and by polling                   *)

Read(sender) ==
    /\ Cardinality(reads) < MaxLoads
    /\ reads' = reads \union {[snap |-> Snapshot, sender |-> sender]}
    /\ UNCHANGED <<page, posts, replies, sent, confirmed, left>>

ReadAfterSend ==
    /\ page.sending = "load"
    /\ \A a \in reads : ~a.sender
    /\ Read(TRUE)

Poll == page.view.open /\ Read(FALSE)

(* Answers are applied in the order they arrive in.                        *)
ShowRead(a) ==
    /\ reads' = reads \ {a}
    /\ page' = [page EXCEPT !.view = a.snap, !.sending = IF a.sender THEN "no" ELSE @]
    /\ UNCHANGED <<posts, replies, sent, confirmed, left>>

LoseRead(a) ==
    /\ reads' = reads \ {a}
    /\ page' = [page EXCEPT !.sending = IF a.sender THEN "no" ELSE @]
    /\ UNCHANGED <<posts, replies, sent, confirmed, left>>

-----------------------------------------------------------------------------
(* The suggested reply                                                     *)

(* A composer that holds text asks the operator before it goes on.         *)
GenerateDraft ==
    /\ ~page.drafting
    /\ page' = [page EXCEPT !.drafting = TRUE]
    /\ UNCHANGED <<posts, replies, reads, sent, confirmed, left>>

(* generateDraft on the server writes no reply; its answer goes into the   *)
(* composer, a failure (AI disabled, no inbound message, provider) into    *)
(* the page's error line.                                                  *)
DraftArrives ==
    /\ page.drafting
    /\ \E ok \in BOOLEAN :
         page' = [page EXCEPT !.drafting = FALSE,
                              !.text = IF ok THEN Suggestion ELSE @]
    /\ UNCHANGED <<posts, replies, reads, sent, confirmed, left>>

-----------------------------------------------------------------------------
(* The outbox worker                                                       *)

Deliver(r) ==
    /\ r.open
    /\ replies' = (replies \ {r}) \union {[r EXCEPT !.open = FALSE]}
    /\ UNCHANGED <<page, posts, reads, sent, confirmed, left>>

ComposerNext ==
    \/ Write \/ SendReply \/ Remount \/ GenerateDraft \/ DraftArrives
    \/ ReadAfterSend \/ Poll
    \/ \E q \in posts : \/ FindExisting(q) \/ Insert(q) \/ Deadlocked(q)
                        \/ ResolveWinner(q) \/ LoseAnswer(q)
    \/ \E a \in reads : ShowRead(a) \/ LoseRead(a)
    \/ \E r \in replies : Deliver(r)

ComposerSpec == ComposerInit /\ [][ComposerNext]_composerVars

-----------------------------------------------------------------------------
(* Properties                                                              *)

\* ONE REPLY: whatever answers are lost and however its retries overlap on
\* the server, a reply the operator saw acknowledged is queued exactly once,
\* with exactly the text that was acknowledged.
AcknowledgedOnce ==
    \A a \in confirmed :
        /\ Cardinality({r \in replies : r.key = a.key}) = 1
        /\ \A r \in replies : r.key = a.key => r.text = a.text

\* NO REPEAT: one composition makes a second reply only after the first was
\* acknowledged, or after the operator left the page that wrote it.
NeverRepeated ==
    \A r, s \in replies :
        r.key < s.key => r.key \in left \union {a.key : a \in confirmed}

\* ONE REPLY EACH: a composition becomes one queued reply, as acknowledged.
OneReplyEach == AcknowledgedOnce /\ NeverRepeated
=============================================================================
