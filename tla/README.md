# A TLA+ development of the CRM's renewal communication

The repository is a NestJS API (`src/apps/api`) with a web client (`src/apps/web`): it keeps customers and
their subscriptions, opens a *renewal case* for each subscription and renewal date, sends reminders by
e-mail, reads the answers from an IMAP mailbox, lets an AI classify and route them, and lets staff
do all of it by hand. MariaDB holds the state, BullMQ (Redis) runs the background jobs. Almost
every hard question about it has the same shape: several workers, requests, pages and scheduled jobs read
rows, go away (to SMTP, to an LLM, to a form, to the next statement), come back and write, while others
change what was read and processes die. The specifications here are about exactly that.

## 1. Inventory

| Part | State it keeps | Operations | What is hard | What makes it correct |
|---|---|---|---|---|
| Renewal engine (`renewal-cases/renewal-engine.service.ts`) | renewal cases, outbox rows | `evaluateAll` (daily or by hand): list, enrol overdue pages, ensure case, milestones, queue | overlapping runs of different days, stale reads, missed days, paging over rows that change, aborts | one reminder per milestone, reminders count down, a completed run owes nothing, every subscription is enrolled in the end |
| Case workflow and holds (`renewal-cases.service.ts`, `renewal-transition-policy.ts`) | status, decision and timestamps of a case; holds | manual transitions by compare-and-swap, create/release hold; the engine and the AI router write cases too | everybody acts on a status read earlier | one decision per case with the marks of that decision alone, legal transitions only |
| Reminder outbox delivery (`mail/mail-outbound.service.ts`, `mail-thread-resolution.service.ts`) | `communication_outbox` rows, their `EmailMessage`, the thread of a case | `processBatch`/`processOne`: claim, revalidate, rebind, materialize, revalidate, send, record | leases, stale reclaims, crashes around the SMTP call, changed recipients, two workers on one case | one lease holder, one addressed message per row, bounded retries, final rows stay, every reminder resolved |
| Operator reply (`communications/operator-reply*.ts`, `communication-thread-detail.tsx`) | reply outbox; the composer page and its key | idempotent submission from a page that loses answers and reloads; leased delivery with back-off | double submit, a suggestion that arrives late, retries, address changes | a composition is one reply, as acknowledged; attempts keep their distance; what is shown is where it went |
| IMAP ingest (`mail/mail-inbound-ingest.service.ts`, `imap-mailbox-reader.ts`) | UID watermark, messages | bootstrap, fetch since, ingest, UIDVALIDITY change | duplicates, skipped UIDs, two syncs at once | each message once, none lost |
| Correlation (`mail-inbound-correlation.service.ts`, `mail-inbound-sender-resolution.service.ts`) | threads, whose customer and case they are, the address book | join by reply headers, by a case hint, or begin a thread | a snapshot that others overtake; ids that only read alike; addresses that change hands | nobody gets into another's conversation, and what is doubtful waits for a person |
| AI classification and routing (`ai/*.ts`) | `classificationStatus`, classifications, routing decisions, thread status | classify, route under a lease, accept the case or ask for human review | staff, reviews, reminders and the kill switch race a leased worker | a person has the last word, one acceptance, no message is left to nobody |
| AI settings (`ai/ai-settings.service.ts`, `dynamic-llm-gateway.ts`, `settings-manager.tsx`) | the settings row; forms and model discoveries | update from a form, resolve provider and key for a call | saves that overlap, each judged by a row read earlier; two reads per call | a key of its provider, enabled only when usable |
| Mail settings and health (`mail/mail-settings.service.ts`, `*-health.service.ts`) | credentials envelope; health events | partial update from a form; record on change | merging with a stale ciphertext; recorders that overlap | credentials whole or none; the log ends with the latest verdict |
| Customers and channels (`customers/*.ts`, `customers-manager.tsx`, `customer-channels-manager.tsx`) | customers, e-mail/phone channels, the primary column, codes | create, edit, (de)activate, delete one or many; add, edit, promote, switch a channel | stale pages and snapshots, a case opened during a deletion, two promotions | one primary, the column follows, a deletion is complete or reported and never takes work along |
| Subscriptions (`subscriptions.service.ts`, `subscription-modal.tsx`) | term, renewal date, status | create, update from a copy, remove, cascade of a deactivation | the update derives from a row read before its transaction | the renewal date follows the term |
| Catalogue (`currencies/`, `service-types/`, `service-packages/`, and what a subscription copies of them) | rates with their dates, packages, copies of both on subscriptions | edit from forms, sell | a save reads row, package and rate one after the other and writes later | what a subscription keeps is of a piece |
| Workbook lines (`legacy-workbook.parser.ts`, `canonical-workbook.parser.ts`) | staged rows | classify a line, compare its customer with those there are, stage it | a line says one thing in five places, which may disagree | what is staged without an issue agrees with itself |
| Legacy import (`legacy-import/*.ts`, `legacy-import-manager.tsx`) | batch, staged rows, links to live records, customer codes | upload, review, approve, upload again, delete batch; delete customer | concurrent users over REPEATABLE READ snapshots and row locks; a page that drafts from a copy | a row is live once, as someone confirmed it; codes are never reused; nothing live loses its origin |
| The rest: identity, connection records, configuration, dashboard, audit, encryption, scripts | | single-transaction CRUD, reads, I/O | | |

Interactions: the engine inserts the rows MailOutbound sends; both, staff and the AI router write
renewal cases; the mail workers re-check a case, its holds or a mailbox before each transmission; replies
come back through the IMAP ingest, which creates the PENDING messages the AI pipeline works on and
reopens threads; a review or a staff decision may come at any moment; channels decide where
reminders and replies go; deleting a customer reaches into subscriptions, cases and import rows.

`PROJECT.json` lists all components with what is modelled of each, and under `hazards` the
places where the code above can go wrong in a way a test hardly reaches, with the property that watches
each. Four smaller ones, which no property states:

- `ai-routing.service.ts:375`: the re-check of a human-review routing reads its own REPEATABLE READ snapshot,
  so a review in between is recorded as ROUTED_TO_HUMAN_REVIEW. `RouteUpdate` does as the code does.
- `ai-classification.service.ts:188`: a message whose classification failed for good is in HUMAN_REVIEW without
  an `AiClassification`, and `createReview` refuses it: it can be resolved, never reviewed.
- `renewal-engine.service.ts:151`: an internal notice is queued on its exact day only; a day without a
  completed run loses it.
- FULFILLED cannot be reached, because nothing sets PAYMENT_CONFIRMED.

## 2. Modules

| Module | What it is |
|---|---|
| `OutboxDelivery` | abstract: what an outbox promises for a row (one addressed message, at least once; one justified resolution) |
| `MailOutbound` | the reminder worker, one action per database access; refines `OutboxDelivery` |
| `ReplyOutbound` | the reply worker, likewise; refines `OutboxDelivery` |
| `ReplyComposer` | the thread page, its requests, and `queueReply` |
| `CaseLifecycle` | abstract: the life of a renewal case |
| `RenewalCases` | the case workflow and holds, extended by `RenewalEngine` and `AiPipeline` |
| `RenewalEngine` | `evaluateAll`, one action per database access, with staff and time; refines `CaseLifecycle` |
| `InboundIngest` | overlapping IMAP syncs of one mailbox |
| `InboundCorrelation` | the thread, customer and case of an inbound message, in overlapping transactions |
| `AiPipeline` | classification, routing, human review and staff over one thread; its steps on a case are `CaseLifecycle`'s |
| `AiSettings`, `MailSettings`, `IntegrationHealth` | the settings rows with their forms; the health log |
| `Subscriptions`, `CustomerChannels`, `CustomerDirectory` | the master data with the pages that edit it |
| `LegacyImport` | review, approval, deletion of staged rows and customers: who may write when |
| `ImportDesk` | the same rows as the import page sees them: which mapping goes live |
| `WorkbookRow` | how a line of a workbook becomes such a row |
| `Catalogue` | currencies, service types, packages, and what a subscription copies of them |
| `MCOffice` | the components that share no column, side by side for TLC (twelve foci) |
| `MCInbound` | `InboundCorrelation` and `AiPipeline` side by side |
| other `MC*` | constants for TLC |
| `MailOutboundProofs`, `ReplyProofs` | theorems about the two outbox workers and the composer, proved for all values of the constants |
| `InboundIngestProofs`, `AiPipelineProofs`, `RenewalProofs`, `LegacyImportProofs` | the same, about the module they are named for |
| `SettingsProofs` | about `AiSettings`, `MailSettings`, `IntegrationHealth`, `Catalogue` |
| `CustomerRecordsProofs` | about `CustomerChannels`, `CustomerDirectory`, `Subscriptions`, `ImportDesk`, `WorkbookRow` |

A definition that begins with `\* Faulty:` is not part of a specification: it is a plausible bug,
kept beside the definition it would replace, that the run named in `PROJECT.json` must catch.

### MailOutbound and ReplyOutbound

`outbox`, `threads` are the tables; `job[w]` is where worker `w` is in `processOne` with its local
values (`snap` of `loadContext`, `token` the lease, `to`/`mid` what it will transmit); `desk` is what
staff and administrators control (holds, eligibility, primary address, routing, enabled mailboxes);
`clock` is every `ClockService.now()`. `handed`, `acked`, `reclaims` are history. The actions follow
the code's awaits: `Claim` and `ReadBack` are two statements, `Send` is apart from `Record`, each
conditional write compares `lastAttemptAt` with the token (`Owns`). SMTP answers with accepted,
transient or permanent, and each may hide a delivered message. `Crash` is a process death or a
database error anywhere. The several reads of `evaluateEligibility` are one step (each decides on
its own; a change between them is a change just before or after), and an internal rule's
`suppressOnWorkflowHold` is part of which holds stop a row.

`ReplyOutbound` has its own shape: the message exists before the row, `queuedAt` orders the batch, a row
that failed or was deferred carries the time of its next attempt (`NextDue`, `Backoff`), and only the pinned
mailbox and the recipient are checked. `mailed` remembers for each transmission the attempt, the time of its
claim and how many takeovers came before.

### ReplyComposer

`page` is the mounted thread page: composer, idempotency key, the request it waits for, what it has read
of the newest message. `posts` are requests the server works on, which go on when their answer is lost
(`LoseAnswer`); `FindExisting`, `Insert` (with the unique index over actor and key), `Deadlocked` and
`ResolveWinner` are `queueReply`'s statements. Keys are numbers: what counts is which submissions share one.
Remounting, polling, the read after a send and a suggestion arriving late are actions of their own.

### RenewalCases and RenewalEngine

A case is keyed by subscription and due date as its unique index says. A staff request is
`AskTransition` (the read and `assertLegal…`) and later `ApplyTransition` (the conditional update
and its extra data). A run of the engine is a record with the page it enrols, the subscriptions left,
the rows it planned. `Page` has the semantics of a Prisma cursor: it starts from the cursor row as
that row is now, so an edited or removed cursor subscription makes the run miss one; a foreign-key error
(`Abort`) ends the whole evaluation. What a run queues for a case is `Reminds`, `Reminders` and `Notices`, computed
as the code does; `Owed` says the same from the rules alone, and `RunsAreComplete` compares the two. `CaseLifecycle`
knows status, decision and timestamps: a run that
implements it never leaves the marks of two decisions on one case.
`RemoveSubs` is one step: the code counts the cases on its transaction's snapshot (304) and deletes later (322), with
the foreign key as the last word, which no property here can tell apart.
Left out: `lastEvaluatedAt`, evaluation decisions and audit records, which nothing reads back.

### InboundIngest

`mailbox` is the IMAP folder (external: it gets and loses messages and may be rebuilt under a new
UIDVALIDITY), `cursor` the pair `lastSyncUidValidity`, `lastSyncUid`, `stored` the inbound
`EmailMessage` rows, `syncs[s]` a `syncAll()` between two statements. `Start` is the read of the
configurations, `ReadState` and `Bootstrap` the baseline and its compare-and-swap, `Fetch` one selection
of the folder, `Ingest` one message's transaction with the unique index on `imapIdentityKey`, `Advance` the
compare-and-swap of the cursor. Every sync may fail at every step. The manual reset of a cursor, which the
code asks for after a UIDVALIDITY change, is external. `base` is history: where the cursor was
established. `Batch` assumes what the reader relies on, that the server answers a UID range in
order: it stops at the limit and sorts afterwards, so answers out of order would be passed over (`AnyBatch`). Left
out: other settings of the mail configuration (a changed host or address keeps the cursor); the thread an ingested
message joins is `InboundCorrelation`'s. A
message whose transaction fails each time holds up its mailbox; that is the code's choice.

### InboundCorrelation

`talks` are the threads, `held` the messages in the order of their commits, `ingesting[w]` a transaction with the
snapshot it began with: everything `correlate` reads is read there (REPEATABLE READ), and only the commit meets
what others have done since. `Correlate` is the order of the attempts: reply headers (`Matched`, with `Exactly` for the
column that ignores case), a case hint (`ByHint`, which a known sender must vouch for), a thread of its own
(`General`). `Sender` is the resolution of the address: a channel, or the old column for customers who have none.
`StartCase` is `resolveOrCreate`: who loses the race for a case's thread reads it afresh and joins it, whatever its
mailbox. Of a header's tokens `Tokens` keeps what is well-formed and `Primary` the first. Reminders, resolutions,
escalations, address books, deactivations and decisions go on meanwhile. What the code does and one may not expect: a
reply from a sender nobody knows stays PENDING, and so does a reply in a thread without a customer. The status floor of a
message whose body could not be parsed (ingest, 410) is left out.

### AiPipeline

`message` is `classificationStatus`, `decisions` the `AiRoutingDecision` of each message with its
lease, `jobs[w]` a BullMQ job between two statements. `Arrive` is what the correlation of a message with
the thread of a case does, a decided case included (`Landed`). Every read a later write depends on is a step
(`ReadCase`, `ReadReview`, `RouteRead`), every transaction is one (`Accept` is the guarded touch of
the message, the case's compare-and-swap and the lease, all or nothing). Staff use `RenewalCases`' own
actions, `Remind` is the engine's write. A claim and its read-back are one step here: MailOutbound
studies what happens between them. Branches that no reachable row can take (a superseded classification,
a removed case) are named in the module's header.

### AiSettings, MailSettings, IntegrationHealth

A form is opened on a copy of the row (`LoadTab`, `ReloadList`), filled, sent, judged against the row as the
service reads it (`ReadSettings`, `ReadConfig`), and written in a later step from that read. Keys, models and
passwords are told apart by the provider or account they were issued for, which is all the properties need.
A write of `AiSettings` is an upsert (`WrittenRow`): where a row was read, every column is written; where none was, what was
not typed is left as it is by then, whoever stored it (`blind` remembers such a write).
`AiSettings` also has the model discovery, whose answer may come when the form shows another provider, and
the callers that read provider and key in two queries. `IntegrationHealth` has the three recorders, each
with its own baseline: the column for SMTP, the log for IMAP and AI.

### Subscriptions, CustomerChannels, CustomerDirectory

`desk`, `clerk`, `manager` are the pages: a listing, a form filled from a copy, a request under way. A form sends
the fields its code sends: `SendsStart`, `SendsInterval` are the differences from the copy, and the server
takes `NewRenewal` from these and from the row it read before its transaction. Dates are months; the rule for
ends of months is left out. A change of a customer's status is asked for, checked (`CheckStatus`) and written with its
cascade (`SetStatus`), and a save on its way may come before or after.

In `CustomerChannels` a write is begun, written (row locks: `Waits`) and committed. A creation reads on the snapshot of its
transaction, so what it finds may be old; an update first locks. `Resolved` is the recipient resolution, and
`scalar` the column that has to agree with it.

In `CustomerDirectory` a deletion checks open cases on a snapshot and deletes later what is there then. `Referred` is the
foreign keys of a case with holds, decisions or reminders, which make the deletion fail; a deletion of
many is the page's loop over single requests with its report. `Sell`, `OpenCase`, `WorkCase`, `CloseCase` are the other
services' writes.

### LegacyImport and ImportDesk

In `LegacyImport` a transaction reads the snapshot of its first read, waits for row locks (`RowLocked`, `CodeLocked`
are derived from what other requests hold) and shows at its commit. `reviewRow` and `approveRow`
read a row first and write later. `links` remembers the subscriptions of a row in the order they were made, and
a deleted customer's as 0, so `LiveOf` is what is still there. STAGED and FAILED are never committed.

`ImportDesk` follows a row's mapping, of which its dates stand for all: from the parser through listing, panel, draft
and review to the live subscription, with the second upload of the same workbook that refreshes rows
nobody has reviewed, in the raw legacy form and the canonical form. `vouched` is what a person, or the reviewed
sheet, confirmed last; `met` are rows whose change met another one committed after it had read the row.

### WorkbookRow

`Lines` are the lines a workbook may have, each with the mentions the classifier's patterns look for (a service, a
capacity with its unit, an operating system, a phrase), dates, a term and four price columns. `ClassifyLegacyValues` is the
classifier over the catalogue it holds itself: `DetectedServiceTypes`, `TechnicalConflicts`, `StrongestType`, `Conflicts`,
`DateIssues` (with `InclusiveTermStart`, days and month ends included), `PriceIssues`. `StageRaw` and `StageCanonical` are the
two importers' loops: the first stages every line for review, the second as READY_FOR_APPROVAL when no issue is left.
`DuplicateCandidates` are existing customers that are like the line's, of its own billing entity if that is
known. Which text matches which pattern, and how alike two names are, is what the lines say. What the code
does and one may not expect: "semi-annual" reads as twelve months; "DNS hosting" always speaks of hosting too; a term that
starts on the first may end up to three days before the end of a month; a canonical line whose dates do not match its
interval, or whose suggestion the database does not offer, is staged without an issue (the classifier is not shown the
interval, 376-408).

### Catalogue

`seller[e]` is a form and, after sending, what the save has read so far: `RequireParents` and `RequireCurrency` are queries
of their own, `WriteSale` the later transaction. `quoted` and `published` are history: every rate and package that was
ever entered. Every save of a subscription takes the package's copy and the rate anew, although
`docs/operations/PHASE_2_1_PACKAGE_CLASSIFICATION_RULES.md:38` says that snapshots preserve what was sold "even if the catalog later
changes"; the form sends all fields each time, so an edit of a note re-prices. The web form is the only caller, and always sends
amount, currency and type together; a partial update over the API alone could mix. An empty specification cannot clear the
column. Amounts are whole, so rounding is not modelled; an add-on behaves as a standard package; subscriptions in
other currencies from before the migration, which have no rate until they are saved, are left out, as are the
rates an approved import row writes (legacy-import.service.ts 1086-1108).

## 3. Runs

All passing runs are exhaustive. Deadlock checking is off everywhere because each system may stop:
all rows are final, no run is active, or a bound is reached.

| Run | Instance | Shows |
|---|---|---|
| `mail_row` | 1 row, 2 workers, 2 addresses, 2 mailboxes, lease of 1 tick in 2, 2 attempts, 1 change, fair | `SoleOwner`, `IdentityPinned`, `AttemptsBounded`, `CaseMailboxPinned`, `FinalRowsStay`, `ImplementsDelivery`, `EventuallyResolved` |
| `mail_stall` | 1 row, 2 workers, but a worker may stall inside `claim()` | violation of `SoleOwner` |
| `mail_race` | 2 rows of one case, 2 workers, 2 mailboxes | violation of `CaseMailboxPinned` |
| `renewal_cycle` | 1 subscription, 3 days, 2 runs, 2 staff requests, 2 changes | `MilestonesInOrder`, `RunsAreComplete`, `ImplementsLifecycle` |
| `renewal_enrol` | 3 overdue subscriptions, pages of 1, 2 changes, fair | `EventuallyEnrolled` |
| `ingest_sync` | 2 syncs, 3 UIDs, batches of 2, 2 UIDVALIDITYs, 2 changes or failures, fair | `NoneSkipped`, `RightIdentity`, `CursorNeverBack`, `EventuallyStored` |
| `ai_thread` | two foci: 2 messages of one case, 2 workers, 1 staff request at a time, 3 changes; or 3 messages in 2 overlapping transactions, 3 customers, 1 case, 2 address books; 1,254,510 states | `HumanHasLastWord`, `OutcomesStand`, `AiAcceptsOnce`, `NothingFallsThrough` (AiPipeline), `KeptApart` (InboundCorrelation) |
| `ai_settle` | 1 message, 2 workers, 3 changes, fair | `EventuallySettled` |
| `ai_mixed` | 2 providers, 1 caller, 1 administrator | violation of `NoMixedCall` |
| `legacy_rows` | 2 sibling rows, 2 users, 9 requests | `LiveOnce`, `SiblingsShareCustomer`, `CodesNeverReused`, `LiveRowsAreKept`, `CompletedMeansDone` |
| `legacy_race` | the same, 3 requests | violation of `ApprovedRowsStay` |
| `office` | eleven components, one in focus at a time (`Catalogue` in two: rates, packages); 692,046 states | `RepliesDelivered`, `Paced`, `ShownAsSent` (ReplyOutbound), `OneReplyEach` (ReplyComposer), `TermFollowsInterval` (Subscriptions), `PrimaryInStep` (CustomerChannels), `WorkKept`, `DeletionComplete` (CustomerDirectory), `SettingsCoherent` (AiSettings), `CredentialsKept` (MailSettings), `HealthTold` (IntegrationHealth), `LiveAsConfirmed` (ImportDesk), `SilentMeansSound` (WorkbookRow), `SoldAsPublished` (Catalogue) |

`office` chooses a component in its initial state; the variables of the others keep one initial state. Those components
share no column (`Subscriptions` and `Catalogue` have different ones of the same rows, `WorkbookRow` ends where `ImportDesk`
begins), so nothing is lost by that, and the states are the sum and not the product. Where
two components do share rows, the sharing module has the other's writes as actions (`AiPipeline` the staff's and the
engine's, `CustomerDirectory` the engine's and the sales', `RenewalEngine` the subscription edits).

Why these bounds: each race above is between two actors over one or two rows, so two workers (the queue's concurrency
is 2), two operators and one or two rows show them; three UIDs with batches of two give a sync a second message in its
batch and a second batch; the changes are what staff and crashes may do, and two or three of them suffice for one
before and one after each step of interest. In `mail_row` two ticks let a lease of one tick run out and be taken over.
In `renewal_cycle` rules 0 and 2 days ahead plus a notice 1 day ahead give an exact milestone, a catch-up and a day
between. In `office` a typed text and a suggested one are two texts to confuse, two sends are a reply and its retry,
three channels are a primary, its rival and a bystander, four recordings are two overlapping pairs or a failure and a
recovery around another channel's, three import requests are a review, an approval and a second upload that meets
them. The workbook's lines differ from one that says everything once in two mentions, the registration and the label
together, or in dates and term, or in prices, customers and offers: every comparison of the classifier has a line that
only it stops. The catalogue has four saves of two rates, two packages and five deals. Three messages are one that begins
a conversation, one that cites it and a reminder, and one that cites an id that only reads the same; in the second
address book an address has two owners and another has changed hands. Back-offs are 2, 3 and 4 ticks of a clock of 4, so that the first two retries happen.

`mail_row` has one row of a case, so what it checks of `CaseMailboxPinned` is takeovers, deferrals and routing changes around one
thread; two rows and two workers violate it (`mail_race`), and section 5 proves it for any number of rows outside that race.

Symmetry is used for workers, users, operators, customers, addresses and messages, in runs without liveness.

`OneHolder` and `TriesBounded` (ReplyOutbound) and `CaseLifeGoesOn` (AiPipeline) are proved, not run. So are the type
invariants. Each module's `…TypeOK` is a conjunct of the inductive invariant its proof module
establishes, and so TLC does not spend its states on them.

Fairness. Workers: the send job repeats every minute, the recovery scans every one and five minutes, the mailbox sync
every five minutes, the evaluation every day, so work that stays possible is done (weak fairness), and a routing scan
meets each message again and again between other work (strong fairness of `StartClassify` and `StartRoute`). Time
passes. Nothing is assumed of staff or of crashes, which are bounded by `MaxChanges`: a worker that crashes for ever
resolves nothing. `EventuallyStored` speaks of folders that stay as they are and syncs that stay enabled.
`EventuallyResolved` speaks of rows that stop being blocked for good, `EventuallySettled` of settings that stay on.
`office` has no liveness: a reply nobody retries, a form nobody sends is not an error of the code.

## 4. Findings

- `mail_stall`: `claim()` reads its token back in a second statement. A worker that stalls there for
  a whole lease reads the token of the worker that took over; both own the row.
- `mail_race`: the loser of the race to create a case's thread keeps the mailbox it chose before, so
  a message leaves through a mailbox the thread is not pinned to.
- `legacy_race`: `reviewRow` checks the status it read and then updates the row by id. An approval in
  between is overwritten, and the row can be approved a second time.
- `ai_mixed`: the gateway reads the provider and the key in two queries; a save in between pairs the old
  provider with the new key, which its comment calls structurally impossible.

Their text in `PROJECT.json` quotes the comment or the message each one contradicts.

Stronger forms that TLC refutes, kept beside the properties the code does have. The runs check the weaker forms, each
with its exclusion named in the hazard it belongs to. Of some a comment does promise the stronger form (third column). The four runs above are kept because they
touch what leaves the house or who decided; each of the others shows when its definition is added to the cfg that
checks the weaker form.

| Definition | What happens instead | Promised at |
|---|---|---|
| `AiSettings!KeyOfItsProvider` | two first saves overlap: one stores a key, the other's upsert leaves it and writes its own provider | the comment of `ai-settings.service.ts` 59-70 |
| `Subscriptions!ReactivationIsDeliberate` | a save on its way, or from a form opened before a suspension, writes ACTIVE again | `customers.service.ts` 312-318, `customers-manager.tsx` 190, 206 |
| `CustomerChannels!ColumnAlwaysFollows` | a creation whose snapshot was overtaken copies an address that has lost its place | `customer-channels.service.ts` 209-214 |
| `CustomerDirectory!OpenCasesKept` | a case opened after the check goes with its customer, if nothing refers to it yet | the message at `customers.service.ts` 377 |
| `InboundCorrelation!LastIsLatest` | a later message that was committed meanwhile is forgotten in the thread's lastMessageAt | `mail-inbound-correlation.service.ts` 185 |
| `InboundCorrelation!InItsMailbox` | who comes second to a case's thread writes into the first one's mailbox | the same, 37 and 238 |
| `InboundCorrelation!EscalationStands` | the snapshot's status is written back over an escalation | |
| `Subscriptions!TermAlwaysFollows` | two updates that overlap leave a date that follows from neither | |
| `Catalogue!PackageOfItsType` | a save without a package meets one with a package of another type, or the package changes its type | |
| `Catalogue!SpecificationsToo` | a package without specifications leaves those of the package before | |
| `AiSettings!ModelOfItsProvider` | a discovery that answers late fills the form with another provider's models | |
| `IntegrationHealth!RecoveryIsRecorded` | two overlapping SMTP checks leave a HEALTHY column over an UNAVAILABLE last event | |
| `ImportDesk!ReadyIsTrue` (two rows) | the answer to a review marks whatever row's panel is open by then | |

`SilentMeansSound` with the last conjunct for canonical lines too fails in the same way: nobody compares their dates
with their interval.

Also seen: two siblings approved at once both create the canonical customer
(`SiblingsShareCustomer` is about approvals that do not overlap), and a batch status can be
overwritten by an older count.

## 5. Proofs

Every safety invariant, action property and refinement that a passing run checks, but for `KeptApart`, is also a theorem, for
every number of rows, cases, workers, users, messages and every bound, `CaseMailboxPinned` under a hypothesis that excludes its
finding. What the theorems assume:

- the modules' named assumptions on their constants (bounds are numbers, rows belong to cases, absence is not one of the
  values, one of the accounts exists), which TLC evaluates in the runs. Where a module is proved about
  together with others (`CustomerRecordsProofs`, `SettingsProofs`, and `ReplyComposer` in `ReplyProofs`) they are hypotheses
  of the theorem, and `MCOffice` asserts them of its instance;
- in `RenewalCases`, that there are finitely many subscriptions: the engine works off sets of them, page by page;
- that two workers never choose a mailbox for one case at the same time (`~Contested`), or that no review of a row overlaps an
  approval of it (`~ReviewedMeanwhile`), in the one theorem each that says so: `mail_race` and `legacy_race` show what happens
  otherwise;
- `PromptClaim`, where a theorem names it: no `claim()` lasts longer than a lease from its clock reading to its
  read-back. `mail_stall` shows what happens otherwise.

No property below is inductive. Each module states the inductive invariant first, then has one lemma for the initial
states, one per action (or per group of actions that do the same to the invariant), one that joins them, and
the theorems.

**`MailOutboundProofs`.** `TypeCorrect`, `FinalRowsNeverChange`; under `PromptClaim` `LeaseIsExclusive`,
`OneIdentity`, `OneRecipient`, `RetriesBounded` and `WorkersDeliver` (the refinement of `OutboxDelivery`); of
`CaseMailboxPinned`, `UncontestedPins` (any number of rows and workers, as long as the race of `mail_race` does not happen),
`OneRowPins` (one row per case) and, without `PromptClaim`, `OneWorkerPins` (a single worker).

1. `TypeInv` = `TypeOK` and the shape of a job at each step (what `snap`, `to`, `mid` may be there).
2. `LeaseInv`: a token the row no longer carries is older than a lease, a prompt claim never
   writes a time that old, hence two holders of one row have different tokens and only one of them the
   row's.
3. `IdentityInv` = `RecipientsAgree`, `MessageInv` (an attempted row keeps the message that was
   transmitted) and `WorkInv` (the owner's local values agree with its row). Only the owner changes
   a row (`Owns`), so others' stale values never matter.
4. `AttemptsInv`: how many attempts are left at each step.
5. `PinInv`: the mailbox of a worker that holds its row's lease is the one its case's thread is pinned to, if there is a thread.
   Only another worker that chooses a mailbox for the case meanwhile can create the thread under it (`Contested`);
   a worker that lost its lease never gets it back (`LeaseNotRegained`), so its stale mailbox does not matter. Hence the race
   of `mail_race` is the only way to break the pin.
6. `ReplyInv`: a recorded success was acknowledged and a recorded failure attempted, which the
   refinement needs.

**`ReplyProofs`.** For the worker `ReplyTypeCorrect`, `AddressShown`, `AttemptsPaced`, `RepliesAreDelivered` (the
refinement of `OutboxDelivery`), `ReplyLeaseIsExclusive` (`OneHolder`) and `RetriesAreBounded` (`TriesBounded`). In
this model the claim and its read-back are one action, which stands for `PromptClaim` here: what a slow one does is
`mail_stall`'s subject, for the same pair of statements. The argument is about claims. A claim is known by its row and
by the number of takeovers before it; `Ranked` says that only the latest has the row's token, `Knows` that what it
read is still there (it alone may write), `InTime` and `RowInv` that the row was not due, and so not claimed, before
the back-offs of its count were over, `Addressed` that the header names whom it will transmit to. `BoundInv` adds
where there is room for one more attempt: in a row that waits, and in the latest claim before its attempt; a takeover
makes room, since the attempt it follows may never have been recorded. For the composer `ComposedOnce`: `Listening`
(the page hears one request at most, under the key it holds), `KeysInTurn` (each earlier key was acknowledged or left
behind), `Queued` (one row a key, and what was acknowledged is there).

**`InboundIngestProofs`.** `TypeCorrect`, `OneRowPerMessage`, `RowsHoldTheirMessage`, `CursorHidesNothing`, `CursorMonotone`.
`NoneSkipped` is the hard one: a sync moves the cursor on the strength of what it fetched earlier.
`IngestInv` adds `FolderInv` (nobody has read ahead of the folder) and `SyncInv`, whose heart is `Prefix`: as
long as the folder keeps its UIDVALIDITY, no message between a sync's cursor and the messages it
still has to handle is missing from them. New mail has higher UIDs, so it stays a prefix; the
compare-and-swap of the cursor makes the sync's own copy the real one, and the message it moves to was
stored the step before.

**`AiPipelineProofs`.** `TypeCorrect`, `OneAiAcceptance`, `NoMessageLost`, `PeopleOverrule`, `OutcomesAreFinal`,
`RouterObeysLifecycle`. `DecisionInv` says that the outcome a decision bears is so (`Justified`: a person attends to the message, or its case
is accepted), `JobInv` that what a job is about to do still makes sense: a status it read as open may be stale, but
then the compare-and-swap of the acceptance fails, and an outcome it is about to write is justified by something
nobody takes back. `LeaseInv` counts claims against the crashes that allow them, which bounds the token.
`RouterObeysLifecycle` says that the case the router shares with staff and reminders goes on with the life
`CaseLifecycle` allows (`CaseLifeGoesOn`), as `CasesLiveTheirLife` does for the engine: every step that writes a case
is a legal move of it, and an undecided case bears no marks (`MarkInv`), so that no decision leaves those of two.

**`RenewalProofs`.** `RenewalTypeCorrect`, `RemindersInOrder`, `RunsDoTheirWork`, `CasesLiveTheirLife` (the refinement of
`CaseLifecycle`). `CaseInv`: an undecided case bears no mark of a decision, and a request was legal for the status it read.
`OutboxInv`: one row a key, and a reminder is the milestone of the day it was queued on (`Timely`); since a later day has
fewer days left, milestones come in order. `DutyInv`: what a run owes a subscription that was left in peace is done
(`Served`) or before it (`Underway`), so nothing is owed when it ends.

**`LegacyImportProofs`.** `ImportTypeCorrect`, `RowsGoLiveOnce`, `SiblingsAreOne`, `CodesAreUnique`, `OriginsAreKept`,
`CompletionIsTrue`, `UnreviewedApprovalsStay`. `RowInv` accounts for the live subscriptions of a row: one for the
approval that stands, one for each that a review wrote over. `Apart` says that claims hold different rows, and
approvals that never overlapped have different references, so that (`Sound`) the customers an approval has read are
still all there are of its reference. `CodeInv`: a code was drawn from its sequence. `BatchInv`: a count of nothing
remaining stays true until its status is written. `UnreviewedApprovalsStay` delimits `legacy_race`: where no review of
a row overlaps an approval of it, `ApprovedRowsStay` holds as the code says. `StayInv`: no review is left to write
over an approved row, and an approval went where its row says (`Drafted`), so that a deleted customer changes the rows
approved into it and no other approved row. An overlap that ends before the claim matters too: a review between the read
and the claim of an approval leaves another mapping on the approved row, which changes again when that mapping's
customer is deleted.

**`SettingsProofs`.** `SettingsStayCoherent`, `AiSettingsTyped`: a save on its way was judged against a row that, if the
server read one, was coherent (`Sound`, `Coherent`), and without a row there is no key (`Empty`); such a save writes every
column from the request and that row, and a blind one is remembered. `CredentialsAreKept`: likewise, the credentials a save
merges into were whole (`Mergeworthy`). `HealthIsTold`: where recordings of a channel never overlapped, a recorder's
baseline is what was said last (`Straight`, `Alone`). `SalesAreOfAPiece`: each row and each form on its way carries a rate
that was quoted and a package that was published (`CatalogueInv`), however many saves overlap.

**`CustomerRecordsProofs`.** `PrimaryStaysInStep` needs `LockInv`: a promotion between its write and its commit holds the
rows it demoted, they are still all the primaries there are, and another uncommitted write is of another row and no
promotion; and `FoundInv`: what an uncommitted write resolved is what its rows resolve to, or
the column says so already. `DeletionsComplete` and `WorkIsKept`: `DirInv` tracks a deletion of many (`Tracked`): each
customer it was asked for is gone, failed, still to do, or the one being checked; and the checked one had no open case
so that, cases being numbered, one that is open at the deletion is a later one, which only survives if something
refers to it. `RenewalKeepsToTerm`: a form on its way carries an interval unless its row is
historical, and a derived row no overlapping update wrote has an interval for ever: only then does an update that
leaves the term alone leave the date alone too. `ImportsAreConfirmed`: a row whose changes never met is ready with
what was vouched for, or approved and live with it (`RowTold`); an approval claims the row by its status, and whoever
finds something else there than what it read is one that has met another. `StagedWithoutDoubt`, for any set of lines: an empty set
of issues leaves no comparison that failed (`NoConflictAgrees`), so the package is the label's and everything agrees
with it; one price is left (`OnePrice`); and an inclusive term covers its months (`TermCovered`, with the calendar's
cases).

Only model-checked:

- `KeptApart`, over three messages, two overlapping transactions and the changes of section 3;
- the liveness properties `EventuallyResolved`, `EventuallyEnrolled`, `EventuallyStored` and `EventuallySettled`: fairness and
  ENABLED are outside what the prover supports;
- the counterexamples of section 4, which are facts about one instance.

What a recursive definition computes for every input could not be proved either (the prover has no induction over data); no
theorem needs it: counts are history variables, and sizes, newest and smallest elements come from the library's theorems on
finite sets and well-founded orders.

## 6. Not modelled

- Identity, sessions and access control: who may do something is not a question this development asks.
- Billing entities, technical and subscription connections, contact persons, renewal configuration, the dashboard: one transaction over one row each, or
  reads; there is no sequence of steps to get wrong. A run of the engine works from the rules it read first.
- The precedence of mailbox routes, template rendering, the reading of a workbook's cells (headers, patterns, dates in
  text), the measure of likeness between names, month ends of a subscription's term: conversions and look-ups, whose result is any
  result in the models.
- SMTP, IMAP and LLM dialogues, token requests, encryption: I/O, modelled by the replies the code distinguishes.
- Starvation of an outbox batch by fifty rows that stay deferred: real, and listed under the hazards; `EventuallyResolved` is
  about rows that fit the batch.
- The pages that send one request and keep nothing (lists, log-in, the renewal pages).
