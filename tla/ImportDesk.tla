----------------------------- MODULE ImportDesk -----------------------------
(***************************************************************************)
(* The import page (legacy-import-manager.tsx) over the staged rows of one *)
(* batch: clerks list and inspect rows, confirm their dates in a review,   *)
(* approve them into live records and upload the workbook again, which     *)
(* refreshes the rows nobody has reviewed. What this module follows is a   *)
(* row's mapping, of which its dates stand for all: who wrote it last, and *)
(* what of it went live. Who may approve at once, the batch's status and   *)
(* the customers' codes are LegacyImport's.                                *)
(* A request reads in one step and writes in another; a review's answer    *)
(* comes with its write. A deleted batch's ids never come back.            *)
(***************************************************************************)
EXTENDS Naturals

CONSTANTS
    Rows,         \* staged rows of the batch
    Importers,    \* people at the page; one request at a time each
    Dates,        \* dates a subscription may be given
    Sheet,        \* the ones the parser finds in the workbook
    Missing,      \* no row, no dates
    MaxUses       \* bound on requests

VARIABLES
    form,      \* the workbook's form: raw legacy rows or canonical sheets
    staged,    \* row -> its committed status and mapping, or Missing
    live,      \* row -> the dates its live subscription got, or Missing
    importer,  \* importer -> the page
    uses,      \* requests so far
    vouched,   \* history: row -> the mapping someone vouched for last
    met        \* history: rows whose change met another's, read before it

importDeskVars == <<form, staged, live, importer, uses, vouched, met>>
told == <<vouched, met>>

-----------------------------------------------------------------------------
(* State                                                                   *)

Status == {"REQUIRES_MANUAL_REVIEW", "READY_FOR_APPROVAL", "APPROVED"}
MaybeDates == Dates \union {Missing}
Copy == [status : Status, dates : MaybeDates]

ImportDeskAssumption ==
    /\ Sheet \in Dates
    /\ Missing \notin Rows \union Dates \union Copy
    /\ MaxUses \in Nat

ImportList == [Rows -> Copy \union {Missing}]

(* The panel over the list: the row under review, the draft of its mapping *)
(* and the status it is shown with.                                        *)
Panel == [row : Rows, draft : MaybeDates, shown : Status]

(* The request under way: what it is about and what it has read.           *)
Request ==
    [at : {"rest", "review", "reviewed", "approve", "approved", "upload", "refresh"},
     row : Rows \union {Missing}, dates : MaybeDates, seen : ImportList \union {Missing}]

Rest == [at |-> "rest", row |-> Missing, dates |-> Missing, seen |-> Missing]

ImportDeskTypeOK ==
    /\ form \in {"legacy", "canonical"}
    /\ staged \in ImportList
    /\ live \in [Rows -> MaybeDates]
    /\ importer \in [Importers -> [list : ImportList, panel : Panel \union {Missing}, request : Request]]
    /\ uses \in 0..MaxUses
    /\ vouched \in [Rows -> MaybeDates]
    /\ met \in SUBSET Rows

(* A legacy row is staged for review, by a parser that reads dates or by   *)
(* an earlier one that did not.                                            *)
LegacyRow == {[status |-> "REQUIRES_MANUAL_REVIEW", dates |-> d] : d \in {Missing, Sheet}}

(* A canonical row without issues needs no review: its sheet was reviewed. *)
(* Issues are what the classifier finds, a row or a customer that is not   *)
(* marked READY, and customers that look the same.                         *)
CanonicalStatus == {"REQUIRES_MANUAL_REVIEW", "READY_FOR_APPROVAL"}

CanonicalRow == [status : CanonicalStatus, dates : {Sheet}]

ImportDeskInit ==
    /\ form \in {"legacy", "canonical"}
    /\ staged \in [Rows -> IF form = "legacy" THEN LegacyRow ELSE CanonicalRow]
    /\ live = [r \in Rows |-> Missing]
    /\ importer = [c \in Importers |-> [list |-> staged, panel |-> Missing, request |-> Rest]]
    /\ uses = 0
    /\ vouched = [r \in Rows |->
                      IF staged[r].status = "READY_FOR_APPROVAL" THEN staged[r].dates ELSE Missing]
    /\ met = {}

-----------------------------------------------------------------------------
(* The page                                                                *)

Browse(c, list, panel) ==
    /\ importer' = [importer EXCEPT ![c].list = list, ![c].panel = panel]
    /\ UNCHANGED <<form, staged, live, uses, told>>

Send(c, request) ==
    /\ importer[c].request = Rest /\ uses < MaxUses
    /\ uses' = uses + 1
    /\ importer' = [importer EXCEPT ![c].request = request]
    /\ UNCHANGED <<form, staged, live, told>>

(* openBatch(): the list anew, and no panel.                               *)
OpenBatch(c) == Browse(c, staged, Missing)

(* inspect(): the row as it was listed, its mapping the draft.             *)
Inspect(c, r) ==
    LET row == importer[c].list[r]
    IN  /\ row # Missing
        /\ Browse(c, importer[c].list, [row |-> r, draft |-> row.dates, shown |-> row.status])

Close(c) == Browse(c, importer[c].list, Missing)

(* The form, also of a ready row for who may not approve.                  *)
Editable(c) == importer[c].panel # Missing /\ importer[c].panel.shown # "APPROVED"

(* patchSubscription(): one field of the draft, the others as they are.    *)
Patched(panel, dates) == [panel EXCEPT !.draft = dates]

EditDraft(c) ==
    /\ Editable(c)
    /\ \E d \in Dates : Browse(c, importer[c].list, Patched(importer[c].panel, d))

(* The form can be sent when nothing it requires is missing.               *)
Complete(panel) == panel.draft # Missing

(* review(). The panel may be closed, or show another row, before the      *)
(* answer comes.                                                           *)
SubmitReview(c) ==
    /\ Editable(c) /\ Complete(importer[c].panel)
    /\ Send(c, [Rest EXCEPT !.at = "review", !.row = importer[c].panel.row,
                            !.dates = importer[c].panel.draft])

(* approve(), from the list or from the panel.                             *)
Offered(c, r) ==
    \/ importer[c].list[r] # Missing /\ importer[c].list[r].status = "READY_FOR_APPROVAL"
    \/ /\ importer[c].panel # Missing
       /\ importer[c].panel.row = r /\ importer[c].panel.shown = "READY_FOR_APPROVAL"

SubmitApproval(c) ==
    \E r \in Rows : Offered(c, r) /\ Send(c, [Rest EXCEPT !.at = "approve", !.row = r])

(* upload() of the same workbook: the batch is found by its hash.          *)
UploadAgain(c) == Send(c, [Rest EXCEPT !.at = "upload"])

Answered(c, list, panel) ==
    importer' = [importer EXCEPT ![c] = [list |-> list, panel |-> panel, request |-> Rest]]

(* Refused, invalid, rolled back: the page says so and stays as it is.     *)
RefuseImport(c) ==
    /\ importer[c].request # Rest
    /\ Answered(c, importer[c].list, importer[c].panel)
    /\ UNCHANGED <<form, staged, live, uses, told>>

-----------------------------------------------------------------------------
(* The service                                                             *)

(* A request that has read what it checks goes on to its transaction.      *)
GoesOn(c, request) ==
    /\ importer' = [importer EXCEPT ![c].request = request]
    /\ UNCHANGED <<form, staged, live, uses, told>>

Is(r, status) == staged[r] # Missing /\ staged[r].status = status

(* reviewRow(): the checks, outside the transaction...                     *)
CheckReview(c) ==
    LET request == importer[c].request
    IN  /\ request.at = "review"
        /\ IF staged[request.row] = Missing \/ Is(request.row, "APPROVED") THEN RefuseImport(c)
           ELSE GoesOn(c, [request EXCEPT !.at = "reviewed"])

(* ...and the row by its id. Whatever panel is open by then says ready.    *)
WriteReview(c) ==
    LET r == importer[c].request.row
        panel == importer[c].panel
    IN  /\ importer[c].request.at = "reviewed" /\ staged[r] # Missing
        /\ staged' = [staged EXCEPT ![r] = [status |-> "READY_FOR_APPROVAL",
                                            dates |-> importer[c].request.dates]]
        /\ vouched' = [vouched EXCEPT ![r] = importer[c].request.dates]
        /\ met' = IF live[r] # Missing THEN met \union {r} ELSE met \ {r}
        /\ Answered(c, importer[c].list,
                    IF panel = Missing THEN Missing ELSE [panel EXCEPT !.shown = "READY_FOR_APPROVAL"])
        /\ UNCHANGED <<form, live, uses>>

(* approveRow(): the mapping is read with the status...                    *)
ReadMapping(c) ==
    LET request == importer[c].request
        r == request.row
    IN  /\ request.at = "approve"
        /\ CASE Is(r, "READY_FOR_APPROVAL") ->
                  GoesOn(c, [request EXCEPT !.at = "approved", !.dates = staged[r].dates])
             [] Is(r, "APPROVED") ->
                  Answered(c, staged, Missing) /\ UNCHANGED <<form, staged, live, uses, told>>
             [] OTHER -> RefuseImport(c)

(* The claim is of the row as it is now.                                   *)
Claimable(r) == Is(r, "READY_FOR_APPROVAL")

(* ...and goes live if the row can still be claimed.                       *)
GoLive(c) ==
    LET r == importer[c].request.row
        dates == importer[c].request.dates
    IN  /\ importer[c].request.at = "approved"
        /\ IF ~Claimable(r) THEN RefuseImport(c)
           ELSE /\ staged' = [staged EXCEPT ![r].status = "APPROVED"]
                /\ live' = [live EXCEPT ![r] = dates]
                /\ met' = IF staged[r].dates # dates THEN met \union {r} ELSE met
                /\ Answered(c, staged', Missing)
                /\ UNCHANGED <<form, uses, vouched>>

\* Faulty: whatever the row's status, the workbook is right about its dates.
UntouchedAny(row) == row # Missing

(* The rows a re-import may refresh.                                       *)
Untouched(row) == row # Missing /\ row.status = "REQUIRES_MANUAL_REVIEW"

(* createCanonicalBatch(): the batch is there already and stays as it is.  *)
ReusedAsIs == form = "canonical"

(* createBatch(): legacy rows are refreshed, as the transaction's snapshot *)
(* has them.                                                               *)
ReadUntouched(c) ==
    LET request == importer[c].request
    IN  /\ request.at = "upload"
        /\ IF ReusedAsIs
           THEN Answered(c, staged, Missing) /\ UNCHANGED <<form, staged, live, uses, told>>
           ELSE GoesOn(c, [request EXCEPT !.at = "refresh", !.seen = staged])

(* mergeSuggestedDates(): the workbook's dates for those it has.           *)
MergedDates(row) == [row EXCEPT !.dates = Sheet]

(* Where the snapshot says something else than the workbook.               *)
Outdated(seen) == {r \in Rows : Untouched(seen[r]) /\ MergedDates(seen[r]) # seen[r]}

(* refreshExistingBatchDates(): the mapping merged from the snapshot, each *)
(* row by its id; one that is gone undoes them all.                        *)
WriteRefreshed(c) ==
    LET changed == Outdated(importer[c].request.seen)
    IN  /\ importer[c].request.at = "refresh"
        /\ \A r \in changed : staged[r] # Missing
        /\ staged' = [r \in Rows |-> IF r \in changed THEN MergedDates(staged[r]) ELSE staged[r]]
        /\ met' = met \union {r \in changed : staged[r] # importer[c].request.seen[r]}
        /\ Answered(c, staged', Missing)
        /\ UNCHANGED <<form, live, uses, vouched>>

(* deleteBatch(), as LegacyImport has it: nothing approved, nothing live.  *)
DeleteStaged(c) ==
    /\ importer[c].request = Rest /\ uses < MaxUses
    /\ \A r \in Rows : staged[r] # Missing /\ ~Is(r, "APPROVED") /\ live[r] = Missing
    /\ staged' = [r \in Rows |-> Missing]
    /\ uses' = uses + 1
    /\ Answered(c, staged', Missing)
    /\ UNCHANGED <<form, live, told>>

(* The customer a row went to is deleted: the row needs review again, with *)
(* the mapping it has.                                                     *)
LoseCustomer(r) ==
    /\ live[r] # Missing /\ uses < MaxUses
    /\ uses' = uses + 1
    /\ live' = [live EXCEPT ![r] = Missing]
    /\ staged' = [staged EXCEPT ![r].status = "REQUIRES_MANUAL_REVIEW"]
    /\ UNCHANGED <<form, importer, told>>

ImportDeskNext ==
    \/ \E c \in Importers :
        \/ OpenBatch(c) \/ Close(c) \/ EditDraft(c) \/ \E r \in Rows : Inspect(c, r)
        \/ SubmitReview(c) \/ SubmitApproval(c) \/ UploadAgain(c) \/ RefuseImport(c)
        \/ CheckReview(c) \/ WriteReview(c) \/ ReadMapping(c) \/ GoLive(c)
        \/ ReadUntouched(c) \/ WriteRefreshed(c) \/ DeleteStaged(c)
    \/ \E r \in Rows : LoseCustomer(r)

ImportDeskSpec == ImportDeskInit /\ [][ImportDeskNext]_importDeskVars

-----------------------------------------------------------------------------
(* Properties                                                              *)

\* LIVE AS CONFIRMED: what a row gave to the live records is what the row
\* says, and what a person, or the reviewed sheet, vouched for last. Neither
\* a page that lists or drafts something older nor an upload of the same
\* workbook changes that, except where a change met another one that was
\* committed after it had read the row.
LiveAsConfirmed ==
    \A r \in Rows :
        (live[r] # Missing /\ r \notin met) =>
            staged[r] # Missing /\ live[r] = staged[r].dates /\ live[r] = vouched[r]

\* The page never says "Validated - ready for approval. All decisions
\* recorded." of a row nobody vouched for. Not so: the answer to a review
\* marks whatever panel is open by then.
ReadyIsTrue ==
    \A c \in Importers :
        (importer[c].panel # Missing /\ importer[c].panel.shown = "READY_FOR_APPROVAL") =>
            vouched[importer[c].panel.row] # Missing
=============================================================================
