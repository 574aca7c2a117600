---------------------------- MODULE LegacyImport ----------------------------
(***************************************************************************)
(* LegacyImportService: the staged rows of one batch are reviewed and      *)
(* approved into live customers and subscriptions by concurrent users, the *)
(* batch may be deleted, and CustomersService deletes customers again.     *)
(* A transaction reads the snapshot of its first read (REPEATABLE READ),   *)
(* its writes wait for row locks and see what is committed; what it wrote  *)
(* shows at its commit. Reading a request's row and writing it are steps   *)
(* apart. The re-import that refreshes dates is left out.                  *)
(***************************************************************************)
EXTENDS Integers, Sequences, FiniteSets

CONSTANTS
    Rows,         \* staged rows of the batch
    Users,        \* concurrent requests
    Entities,     \* billing entities
    EntityOf,     \* row -> billing entity of its customer
    ReferenceOf,  \* row -> canonical customer it names, or None
    None,         \* absence of a row, a customer, a reference
    MaxRequests   \* bound on requests, deletions and failures

ASSUME ImportAssumption ==
    /\ EntityOf \in [Rows -> Entities]
    /\ None \notin Rows \union Int \union {"STAGED", "IN_REVIEW", "COMPLETED"}
    /\ MaxRequests \in Nat

VARIABLES
    rows,        \* row -> what is committed of it, or None once deleted
    links,       \* row -> customers of the subscriptions made from it, in
                 \* order, 0 for one deleted with its customer
    customers,   \* customers ever created, in order of commit
    lastValue,   \* billing entity -> its customer_code_sequences row
    batch,       \* the batch's status, or None once deleted
    jobs,        \* user -> the request being served
    requests,    \* requests, deletions and failures so far
    reopened,    \* history: row -> reviews written over its approval
    returned,    \* history: rows open again after APPROVED or SKIPPED
    overlapped   \* history: references with approvals that overlapped

vars == <<rows, links, customers, lastValue, batch, jobs, requests, reopened, returned, overlapped>>
live == <<links, customers, lastValue>>
history == <<reopened, returned, overlapped>>

-----------------------------------------------------------------------------
(* State                                                                   *)

RowStatus == {"REQUIRES_MANUAL_REVIEW", "READY_FOR_APPROVAL", "APPROVED", "SKIPPED"}

(* attach: 0 creates a customer; otherwise the candidate to attach to,     *)
(* None once that customer was deleted. customer: approvedCustomerId.      *)
Row == [status : RowStatus, attach : Nat \union {None}, customer : Nat \union {None}]

ASSUME NoneAssumption == None \notin Row

Customer == [reference : {ReferenceOf[r] : r \in Rows}, code : Entities \X Nat, exists : BOOLEAN]

Job ==
    [step : {"idle", "claim", "customer", "commit", "count", "status", "write", "review", "delete"},
     row : Rows \union {None},
     attach : Nat \union {None},     \* the mapping that was read
     known : SUBSET Nat,             \* customers of its reference then
     customer : Nat \union {None},   \* the customer it goes to; 0 a new one
     remaining : BOOLEAN]            \* what the count answered

Idle == [step |-> "idle", row |-> None, attach |-> 0, known |-> {}, customer |-> None,
         remaining |-> FALSE]

TypeOK ==
    /\ rows \in [Rows -> Row \union {None}]
    /\ links \in [Rows -> Seq(Nat)]
    /\ customers \in Seq(Customer)
    /\ lastValue \in [Entities -> Nat]
    /\ batch \in {"STAGED", "IN_REVIEW", "COMPLETED", None}
    /\ jobs \in [Users -> Job]
    /\ requests \in 0..MaxRequests
    /\ reopened \in [Rows -> Nat]
    /\ returned \in SUBSET Rows
    /\ overlapped \in SUBSET {ReferenceOf[r] : r \in Rows}

(* createBatch and createCanonicalBatch: rows to review, out of scope, or  *)
(* ready (canonical rows without issues).                                  *)
Init ==
    /\ rows \in [Rows -> [status : RowStatus \ {"APPROVED"}, attach : {0}, customer : {None}]]
    /\ links = [r \in Rows |-> <<>>]
    /\ customers = <<>>
    /\ lastValue = [e \in Entities |-> 0]
    /\ batch = "STAGED"
    /\ jobs = [u \in Users |-> Idle]
    /\ requests = 0
    /\ reopened = [r \in Rows |-> 0]
    /\ returned = {}
    /\ overlapped = {}

Existing == {i \in DOMAIN customers : customers[i].exists}

(* The subscriptions that row r made and that still exist.                 *)
LiveOf(r) == {n \in DOMAIN links[r] : links[r][n] # 0}

(* Uncommitted claims hold their row; an uncommitted code its sequence.    *)
RowLocked(r) == \E u \in Users : jobs[u].row = r /\ jobs[u].step \in {"customer", "commit"}
CodeLocked(e) ==
    \E u \in Users : jobs[u].step = "commit" /\ jobs[u].customer = 0 /\ EntityOf[jobs[u].row] = e

Do(u, job) == jobs' = [jobs EXCEPT ![u] = job]

Request(u, job) ==
    /\ jobs[u] = Idle
    /\ requests < MaxRequests
    /\ requests' = requests + 1
    /\ Do(u, job)

-----------------------------------------------------------------------------
(* Approval                                                                *)

Approving(u) == jobs[u].step \in {"claim", "customer", "commit"}

\* Faulty: only customers of the row's own earlier approvals are found.
OwnCustomers(r) == {i \in Existing : \E n \in DOMAIN links[r] : links[r][n] = i}

(* findFirst by sourceLegacyReference, in the snapshot of the transaction. *)
SameReference(r) ==
    {i \in Existing : ReferenceOf[r] # None /\ customers[i].reference = ReferenceOf[r]}

(* approveRow(): other statuses return the earlier approval or are refused.*)
ApproveRead(u, r) ==
    /\ rows[r] # None /\ rows[r].status = "READY_FOR_APPROVAL"
    /\ Request(u, [Idle EXCEPT !.step = "claim", !.row = r, !.attach = rows[r].attach,
                               !.known = SameReference(r)])
    /\ overlapped' =
         IF ReferenceOf[r] # None
            /\ \E v \in Users : Approving(v) /\ ReferenceOf[jobs[v].row] = ReferenceOf[r]
         THEN overlapped \union {ReferenceOf[r]} ELSE overlapped
    /\ UNCHANGED <<rows, live, batch, reopened, returned>>

\* Faulty: the claim goes by id alone.
ClaimableById(r) == rows[r] # None

Claimable(r) == rows[r] # None /\ rows[r].status = "READY_FOR_APPROVAL"

Claim(u) ==
    LET job == jobs[u]
    IN  /\ job.step = "claim" /\ ~RowLocked(job.row)
        /\ Do(u, IF Claimable(job.row) THEN [job EXCEPT !.step = "customer"] ELSE Idle)
        /\ UNCHANGED <<rows, live, batch, requests, history>>

(* ATTACH_EXISTING, a sibling's customer, or a new one under the entity's  *)
(* next code.                                                              *)
ChooseCustomer(u) ==
    LET job == jobs[u]
    IN  /\ job.step = "customer"
        /\ \/ /\ job.attach \notin {0, None}
              /\ Do(u, [job EXCEPT !.step = "commit", !.customer = job.attach])
           \/ /\ job.attach = None
              /\ Do(u, Idle)
           \/ /\ job.attach = 0
              /\ \E i \in job.known : Do(u, [job EXCEPT !.step = "commit", !.customer = i])
           \/ /\ job.attach = 0 /\ job.known = {}
              /\ ~CodeLocked(EntityOf[job.row])
              /\ Do(u, [job EXCEPT !.step = "commit", !.customer = 0])
        /\ UNCHANGED <<rows, live, batch, requests, history>>

\* Faulty: the code follows from the customers that exist.
CountedCode(e) == <<e, Len(SelectSeq(customers, LAMBDA c : c.exists /\ c.code[1] = e)) + 1>>

(* CustomerCodeService.next()                                              *)
NextCode(e) == <<e, lastValue[e] + 1>>

(* The transaction commits, unless a foreign key misses its customer.      *)
Commit(u) ==
    LET job == jobs[u]
        r == job.row
        e == EntityOf[r]
        fresh == [reference |-> ReferenceOf[r], code |-> NextCode(e), exists |-> TRUE]
        to == IF job.customer = 0 THEN Len(customers) + 1 ELSE job.customer
    IN  /\ job.step = "commit"
        /\ job.customer # 0 => job.customer \in Existing
        /\ customers' = IF job.customer = 0 THEN Append(customers, fresh) ELSE customers
        /\ lastValue' = IF job.customer = 0 THEN [lastValue EXCEPT ![e] = @ + 1] ELSE lastValue
        /\ links' = [links EXCEPT ![r] = Append(@, to)]
        /\ rows' = [rows EXCEPT ![r].status = "APPROVED", ![r].customer = to]
        /\ Do(u, [Idle EXCEPT !.step = "count"])
        /\ UNCHANGED <<batch, requests, history>>

\* Faulty: rows that wait for their approval are not counted.
ToReview == {"REQUIRES_MANUAL_REVIEW"}

Remaining == {"REQUIRES_MANUAL_REVIEW", "READY_FOR_APPROVAL"}

(* refreshBatchStatus(): the counts (no code path makes a row FAILED, and  *)
(* none commits STAGED)...                                                 *)
CountRows(u) ==
    /\ jobs[u].step = "count"
    /\ Do(u, [jobs[u] EXCEPT
                !.step = "status",
                !.remaining = \E r \in Rows : rows[r] # None /\ rows[r].status \in Remaining])
    /\ UNCHANGED <<rows, live, batch, requests, history>>

(* ...and the update by id, which fails for a deleted batch.               *)
SetBatchStatus(u) ==
    /\ jobs[u].step = "status"
    /\ batch' = IF batch = None THEN None
                ELSE IF jobs[u].remaining THEN "IN_REVIEW" ELSE "COMPLETED"
    /\ Do(u, Idle)
    /\ UNCHANGED <<rows, live, requests, history>>

-----------------------------------------------------------------------------
(* Review                                                                  *)

(* reviewRow(): the status is read before the transaction...               *)
ReviewRead(u, r) ==
    /\ rows[r] # None /\ rows[r].status # "APPROVED"
    /\ Request(u, [Idle EXCEPT !.step = "write", !.row = r])
    /\ UNCHANGED <<rows, live, batch, history>>

(* ...and the row is updated by its id alone.                              *)
ReviewWrite(u) ==
    LET r == jobs[u].row
    IN  /\ jobs[u].step = "write" /\ ~RowLocked(r)
        /\ \/ /\ rows[r] = None
              /\ Do(u, Idle)
              /\ UNCHANGED <<rows, reopened, returned>>
           \/ /\ rows[r] # None
              /\ \E attach \in {0} \union Existing :
                   rows' = [rows EXCEPT ![r].status = "READY_FOR_APPROVAL", ![r].attach = attach]
              /\ reopened' = IF rows[r].status = "APPROVED"
                             THEN [reopened EXCEPT ![r] = @ + 1] ELSE reopened
              /\ returned' = IF rows[r].status \in {"APPROVED", "SKIPPED"}
                             THEN returned \union {r} ELSE returned
              /\ Do(u, [Idle EXCEPT !.step = "review"])
        /\ UNCHANGED <<live, batch, requests, overlapped>>

ReviewBatch(u) ==
    /\ jobs[u].step = "review"
    /\ batch' = IF batch = None THEN None ELSE "IN_REVIEW"
    /\ Do(u, Idle)
    /\ UNCHANGED <<rows, live, requests, history>>

-----------------------------------------------------------------------------
(* Deletion                                                                *)

Protected(r) == rows[r].status = "APPROVED" \/ rows[r].customer # None \/ LiveOf(r) # {}

(* deleteBatch(): the count of protected rows, in the snapshot...          *)
DeleteRead(u) ==
    /\ batch # None
    /\ \A r \in Rows : ~Protected(r)
    /\ Request(u, [Idle EXCEPT !.step = "delete"])
    /\ UNCHANGED <<rows, live, batch, history>>

\* Faulty: the links do not restrict the deletion of their row.
Unrestricted == TRUE

(* legacy_import_subscription_links.import_row_id, onDelete: Restrict.     *)
Deletable == \A r \in Rows : LiveOf(r) = {}

(* ...and the deletion of every row, as it is committed by now.            *)
DeleteBatch(u) ==
    /\ jobs[u].step = "delete"
    /\ \A r \in Rows : ~RowLocked(r)
    /\ IF Deletable /\ batch # None
       THEN rows' = [r \in Rows |-> None] /\ batch' = None
       ELSE UNCHANGED <<rows, batch>>
    /\ Do(u, Idle)
    /\ UNCHANGED <<live, requests, history>>

(* CustomersService.deleteCustomer(): its subscriptions go with it, rows   *)
(* approved into it need review again. Refused while it has renewal cases, *)
(* which is another module's.                                              *)
ResetRow(row, i) ==
    IF row = None THEN None
    ELSE [row EXCEPT !.status = IF row.customer = i THEN "REQUIRES_MANUAL_REVIEW" ELSE @,
                     !.customer = IF @ = i THEN None ELSE @,
                     !.attach = IF @ = i THEN None ELSE @]

DeleteCustomer(i) ==
    /\ requests < MaxRequests
    /\ requests' = requests + 1
    /\ \A r \in Rows : rows[r] # None /\ i \in {rows[r].customer, rows[r].attach} => ~RowLocked(r)
    /\ rows' = [r \in Rows |-> ResetRow(rows[r], i)]
    /\ links' = [r \in Rows |-> [n \in DOMAIN links[r] |->
                                   IF links[r][n] = i THEN 0 ELSE links[r][n]]]
    /\ customers' = [customers EXCEPT ![i].exists = FALSE]
    /\ returned' = returned \union {r \in Rows : rows[r] # None /\ rows[r].customer = i}
    /\ UNCHANGED <<lastValue, batch, jobs, reopened, overlapped>>

(* The process dies, the transaction times out or an input is refused.     *)
Fail(u) ==
    /\ jobs[u] # Idle
    /\ requests < MaxRequests
    /\ requests' = requests + 1
    /\ Do(u, Idle)
    /\ UNCHANGED <<rows, live, batch, history>>

Next ==
    \/ \E u \in Users :
        \/ \E r \in Rows : ApproveRead(u, r) \/ ReviewRead(u, r)
        \/ Claim(u) \/ ChooseCustomer(u) \/ Commit(u) \/ CountRows(u) \/ SetBatchStatus(u)
        \/ ReviewWrite(u) \/ ReviewBatch(u)
        \/ DeleteRead(u) \/ DeleteBatch(u) \/ Fail(u)
    \/ \E i \in Existing : DeleteCustomer(i)

Spec == Init /\ [][Next]_vars

-----------------------------------------------------------------------------
(* Properties                                                              *)

\* A row becomes live once: two users who approve it at the same time, or one
\* who retries, do not double its subscriptions. Only a review written over
\* its approval lets it be approved again.
LiveOnce == \A r \in Rows : Cardinality(LiveOf(r)) <= 1 + reopened[r]

\* Rows that share a canonical customer share one live customer, in whatever
\* order they are approved, unless their approvals overlapped.
SiblingsShareCustomer ==
    \A i, j \in Existing :
        (/\ customers[i].reference # None
         /\ customers[i].reference = customers[j].reference
         /\ customers[i].reference \notin overlapped) => i = j

\* No two customers ever have the same code, deleted ones included.
CodesNeverReused ==
    \A i, j \in DOMAIN customers : customers[i].code = customers[j].code => i = j

\* Deleting a batch, even while its rows are being approved, never takes the
\* origin of a live subscription away.
LiveRowsAreKept == \A r \in Rows : rows[r] = None => LiveOf(r) = {}

\* A COMPLETED batch has no open row but those that were opened again after
\* they had been approved or skipped.
CompletedMeansDone ==
    batch = "COMPLETED" =>
        \A r \in Rows : rows[r].status \in {"REQUIRES_MANUAL_REVIEW", "READY_FOR_APPROVAL"} => r \in returned

\* "Approved source rows are immutable.": as long as its customer exists.
ApprovedRowsStay ==
    [][\A r \in Rows :
         (rows[r] # None /\ rows[r].status = "APPROVED" /\ rows'[r] # rows[r]) =>
             rows[r].customer \notin {i \in DOMAIN customers' : customers'[i].exists}]_vars

\* A review that read a row is to write it while an approval of it is under way.
ReviewedMeanwhile ==
    \E u, v \in Users :
        Approving(u) /\ jobs[v].step = "write" /\ jobs[v].row = jobs[u].row
=============================================================================
