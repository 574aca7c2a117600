---------------------------- MODULE RenewalEngine ----------------------------
(***************************************************************************)
(* RenewalEngineService.evaluateAll: a run lists the subscriptions, enrols *)
(* the overdue ones page by page, then evaluates each listed one against   *)
(* its case, holds and recipient and queues outbox rows. Runs overlap (a   *)
(* scheduled and a manual one, worker concurrency 2), with each other and  *)
(* with staff, and one action is one database access.                      *)
(* Decision and audit records and lastEvaluatedAt, which nothing reads     *)
(* back, are left out.                                                     *)
(***************************************************************************)
EXTENDS RenewalCases

CONSTANTS
    Engines,       \* concurrent evaluateAll calls
    ReminderDays,  \* daysBeforeDue of the reminder rules (unique in the schema)
    NoticeDays,    \* daysBeforeDue of the notification rules, one rule a day
    QuietDays,     \* those with suppressOnWorkflowHold
    Addresses,     \* customers' addresses
    Staff,         \* recipients of every notification rule
    PageSize       \* OVERDUE_ENROLLMENT_BATCH_SIZE

ASSUME EngineAssumption ==
    /\ ReminderDays \subseteq Nat /\ NoticeDays \subseteq Nat /\ QuietDays \subseteq NoticeDays
    /\ ReminderDays \union NoticeDays # {}
    /\ IsFiniteSet(ReminderDays \union NoticeDays)
    /\ None \notin Addresses \union Nat
    /\ PageSize \in Nat /\ PageSize > 0

VARIABLES
    subs,       \* subscription -> [state, due, contact]
    outbox,     \* rows queued so far
    runs,       \* engine -> where its run is, and its local values
    disturbed   \* history: engine -> subscriptions changed since its run began

vars == <<cases, holds, requests, today, changes, subs, outbox, runs, disturbed>>
engineVars == <<subs, outbox, runs>>

-----------------------------------------------------------------------------
(* State                                                                   *)

(* ACTIVE stands for an active subscription of an active customer; contact *)
(* is what resolvePrimaryRecipient answers for that customer.              *)
Subscription ==
    [state : {"ACTIVE", "INACTIVE", "REMOVED"}, due : Dues, contact : Addresses \union {None}]

(* days is the milestone's daysBeforeDue, at is scheduledAt.               *)
OutboxRow ==
    [case : Cases, audience : Audience, days : ReminderDays \union NoticeDays,
     to : Addresses \union Staff, at : Days]

Run ==
    [step : {"idle", "page", "enroll", "next", "inspect", "resolve", "queue"},
     asOf : Days,
     todo : SUBSET Cases,               \* `subscriptions`, still to evaluate
     batch : SUBSET Cases,              \* the page being enrolled
     cursor : Subs \union {None}, full : BOOLEAN,
     case : Cases \union {None},        \* the case being evaluated
     plan : SUBSET OutboxRow]           \* rows it has still to queue

Resting ==
    [step |-> "idle", asOf |-> 0, todo |-> {}, batch |-> {}, cursor |-> None,
     full |-> FALSE, case |-> None, plan |-> {}]

TypeOK ==
    /\ CasesTypeOK
    /\ subs \in [Subs -> Subscription]
    /\ outbox \in SUBSET OutboxRow
    /\ runs \in [Engines -> Run]
    /\ disturbed \in [Engines -> SUBSET Subs]

Init ==
    /\ CasesInit
    /\ subs \in [Subs -> Subscription]
    /\ \A s \in Subs : subs[s].state = "ACTIVE" /\ subs[s].contact # None
    /\ outbox = {}
    /\ runs = [e \in Engines |-> Resting]
    /\ disturbed = [e \in Engines |-> {}]

-----------------------------------------------------------------------------
(* Pure rules                                                              *)

Window == CHOOSE d \in ReminderDays \union NoticeDays :
            \A q \in ReminderDays \union NoticeDays : q <= d

\* Faulty: a subscription due today is neither listed nor overdue.
ListedStrictly(s, asOf) ==
    subs[s].state = "ACTIVE" /\ asOf < subs[s].due /\ subs[s].due <= asOf + Window

Listed(s, asOf) ==
    subs[s].state = "ACTIVE" /\ asOf <= subs[s].due /\ subs[s].due <= asOf + Window

Overdue(asOf) == {s \in Subs : subs[s].state = "ACTIVE" /\ subs[s].due < asOf}

(* resolveApplicableCustomerMilestone: the closest milestone the countdown *)
(* has reached; none once overdue.                                         *)
Milestone(days) ==
    LET reached == {d \in ReminderDays : d >= days}
    IN  IF days < 0 \/ reached = {} THEN None
        ELSE CHOOSE d \in reached : \A q \in reached : d <= q

Least(S, n) == {s \in S : Cardinality({q \in S : q < s}) < n}

\* Faulty: the page starts with its cursor again.
PageFromCursor(S, cursor) ==
    Least(IF cursor = None THEN S ELSE {s \in S : s >= cursor}, PageSize)

(* Prisma's cursor pagination: ids from the cursor on (none when its row   *)
(* is gone), the filter applied, the first result skipped.                 *)
Page(S, cursor) ==
    IF cursor = None THEN Least(S, PageSize)
    ELSE IF subs[cursor].state = "REMOVED" THEN {}
    ELSE LET from == {s \in S : s >= cursor}
         IN  Least(from \ Least(from, 1), PageSize)

First(S) == CHOOSE c \in S : \A q \in S : c[2] < q[2] \/ (c[2] = q[2] /\ c[1] <= q[1])
LastOf(S) == CHOOSE s \in S : \A q \in S : q <= s

DaysLeft(c, asOf) == c[2] - asOf

Row(c, audience, days, to, asOf) ==
    [case |-> c, audience |-> audience, days |-> days, to |-> to, at |-> asOf]

\* Faulty: the key of a reminder names its recipient too, as a notice's does.
KeyWithRecipient(r) == <<r.case, r.audience, r.days, r.to>>

(* idempotencyKey(idempotencyParts), unique in communication_outbox.       *)
Key(r) ==
    <<r.case, r.audience, r.days, IF r.audience = "INTERNAL" THEN r.to ELSE None>>

-----------------------------------------------------------------------------
(* A run                                                                   *)

Go(e, run) == runs' = [runs EXCEPT ![e] = run]

StartRun(e) ==
    /\ runs[e].step = "idle"
    /\ Go(e, [Resting EXCEPT
                !.step = "page", !.asOf = today,
                !.todo = {<<s, subs[s].due>> : s \in {q \in Subs : Listed(q, today)}}])
    /\ disturbed' = [disturbed EXCEPT ![e] = {}]
    /\ UNCHANGED <<caseVars, today, changes, subs, outbox>>

(* enrollOverdueSubscriptions(): one page...                               *)
ReadPage(e) ==
    LET run == runs[e]
        page == Page(Overdue(run.asOf), run.cursor)
    IN  /\ run.step = "page"
        /\ Go(e, IF page = {} THEN [run EXCEPT !.step = "next"]
                 ELSE [run EXCEPT !.step = "enroll",
                                  !.batch = {<<s, subs[s].due>> : s \in page},
                                  !.cursor = LastOf(page),
                                  !.full = Cardinality(page) = PageSize])
        /\ UNCHANGED <<caseVars, today, changes, subs, outbox, disturbed>>

(* A create for a removed subscription violates its foreign key: the whole *)
(* evaluateAll fails.                                                      *)
Abort(e, c) ==
    /\ subs[c[1]].state = "REMOVED"
    /\ Go(e, Resting)
    /\ UNCHANGED cases

(* ...and ensureCase() for each of its subscriptions.                      *)
Enroll(e) ==
    LET run == runs[e]
        c == CHOOSE p \in run.batch : \A q \in run.batch : p[1] <= q[1]
        rest == run.batch \ {c}
    IN  /\ run.step = "enroll"
        /\ \/ Abort(e, c)
           \/ /\ subs[c[1]].state # "REMOVED"
              /\ cases' = Ensured(c)
              /\ Go(e, [run EXCEPT !.batch = rest,
                                   !.step = IF rest # {} THEN "enroll"
                                            ELSE IF run.full THEN "page" ELSE "next"])
        /\ UNCHANGED <<holds, requests, today, changes, subs, outbox, disturbed>>

(* The next listed subscription, by the renewal date the list was read     *)
(* with.                                                                   *)
Ensure(e) ==
    LET run == runs[e]
        c == First(run.todo)
    IN  /\ run.step = "next" /\ run.todo # {}
        /\ \/ Abort(e, c)
           \/ /\ subs[c[1]].state # "REMOVED"
              /\ cases' = Ensured(c)
              /\ Go(e, [run EXCEPT !.todo = @ \ {c}, !.case = c, !.step = "inspect"])
        /\ UNCHANGED <<holds, requests, today, changes, subs, outbox, disturbed>>

Leave(run) == [run EXCEPT !.step = "next", !.case = None, !.plan = {}]

(* The reminder of the day is stopped by a hold...                         *)
Reminds(c, asOf) ==
    Milestone(DaysLeft(c, asOf)) # None /\ "CUSTOMER" \notin Stopped(c, asOf)

(* ...a notice of the day by a hold if its rule respects holds.            *)
Notices(c, asOf) ==
    LET due == {d \in NoticeDays : d = DaysLeft(c, asOf)}
        quiet == IF "INTERNAL" \in Stopped(c, asOf) THEN QuietDays ELSE {}
    IN  {Row(c, "INTERNAL", d, to, asOf) : d \in due \ quiet, to \in Staff}

(* The case and its holds are read once; what is queued follows from them. *)
Inspect(e) ==
    LET run == runs[e]
        c == run.case
        reminder == Reminds(c, run.asOf)
        notices == Notices(c, run.asOf)
    IN  /\ run.step = "inspect"
        /\ Go(e, IF cases[c].status \notin ReminderEligible \/ (~reminder /\ notices = {})
                 THEN Leave(run)
                 ELSE [run EXCEPT !.step = IF reminder THEN "resolve" ELSE "queue",
                                  !.plan = notices])
        /\ UNCHANGED <<caseVars, today, changes, subs, outbox, disturbed>>

Contact(s) == {subs[s].contact} \ {None}

Reminders(c, asOf) ==
    {Row(c, "CUSTOMER", Milestone(DaysLeft(c, asOf)), to, asOf) : to \in Contact(c[1])}

Resolve(e) ==
    LET run == runs[e]
        plan == run.plan \union Reminders(run.case, run.asOf)
    IN  /\ run.step = "resolve"
        /\ Go(e, IF plan = {} THEN Leave(run)
                 ELSE [run EXCEPT !.step = "queue", !.plan = plan])
        /\ UNCHANGED <<caseVars, today, changes, subs, outbox, disturbed>>

(* queueOutbox(): the customer's row first; a row whose key exists is a    *)
(* prevented duplicate and rolls the transaction back.                     *)
Queue(e) ==
    LET run == runs[e]
        reminders == {r \in run.plan : r.audience = "CUSTOMER"}
    IN  /\ run.step = "queue"
        /\ \E r \in IF reminders # {} THEN reminders ELSE run.plan :
            /\ IF \E q \in outbox : Key(q) = Key(r)
               THEN UNCHANGED <<cases, outbox>>
               ELSE /\ outbox' = outbox \union {r}
                    /\ cases' = IF r.audience = "CUSTOMER" THEN CycleStarted(r.case) ELSE cases
            /\ Go(e, IF run.plan = {r} THEN Leave(run)
                     ELSE [run EXCEPT !.plan = @ \ {r}])
        /\ UNCHANGED <<holds, requests, today, changes, subs, disturbed>>

Complete(e) == runs[e].step = "next" /\ runs[e].todo = {}

Finish(e) ==
    /\ Complete(e)
    /\ Go(e, Resting)
    /\ UNCHANGED <<caseVars, today, changes, subs, outbox, disturbed>>

Evaluate(e) ==
    \/ ReadPage(e) \/ Enroll(e) \/ Ensure(e) \/ Inspect(e)
    \/ Resolve(e) \/ Queue(e) \/ Finish(e)

-----------------------------------------------------------------------------
(* Staff and the environment                                               *)

Disturb(S) == disturbed' = [e \in Engines |-> disturbed[e] \union S]

(* A transition or a hold of a case disturbs its subscription.             *)
Work ==
    /\ Workflow
    /\ Disturb({c[1] : c \in {q \in Cases : cases'[q] # cases[q] \/ holds'[q] # holds[q]}})
    /\ UNCHANGED engineVars

Edit(s, new) ==
    /\ changes < MaxChanges
    /\ changes' = changes + 1
    /\ subs' = [subs EXCEPT ![s] = new]
    /\ Disturb({s})
    /\ UNCHANGED <<caseVars, today, outbox, runs>>

(* update(): status, renewal date; or the customer's channels change.      *)
UpdateSubscription(s) ==
    /\ subs[s].state # "REMOVED"
    /\ \E new \in Subscription :
        /\ new # subs[s] /\ new.state # "REMOVED"
        /\ Edit(s, new)

(* remove(): refused while the subscription has a case that is not CLOSED  *)
(* or in ERROR, which no case ever is.                                     *)
RemoveSubscription(s) ==
    /\ subs[s].state # "REMOVED"
    /\ \A c \in Cases : c[1] = s => cases[c] = Absent
    /\ Edit(s, [subs[s] EXCEPT !.state = "REMOVED"])

(* The process dies, or a database error ends the job.                     *)
Crash(e) ==
    /\ runs[e].step # "idle"
    /\ changes < MaxChanges
    /\ changes' = changes + 1
    /\ Go(e, Resting)
    /\ UNCHANGED <<caseVars, today, subs, outbox, disturbed>>

NextDay ==
    /\ today < MaxDay
    /\ today' = today + 1
    /\ UNCHANGED <<caseVars, changes, engineVars, disturbed>>

Next ==
    \/ \E e \in Engines : StartRun(e) \/ Evaluate(e) \/ Crash(e)
    \/ Work
    \/ \E s \in Subs : UpdateSubscription(s) \/ RemoveSubscription(s)
    \/ NextDay

Spec == Init /\ [][Next]_vars

(* The scheduler repeats the evaluation every day, also after the last one *)
(* of the model, and a run that is not interrupted goes on to its end.     *)
Fairness == WF_vars(NextDay) /\ \A e \in Engines : WF_vars(StartRun(e) \/ Evaluate(e))

FairSpec == Spec /\ Fairness

-----------------------------------------------------------------------------
(* Properties                                                              *)

\* However many runs meet a milestone, on its day or catching up later, a
\* case has one customer reminder per milestone and one notice per recipient.
OncePerMilestone ==
    \A r, q \in outbox :
        (/\ r.case = q.case /\ r.audience = q.audience /\ r.days = q.days
         /\ (r.audience = "INTERNAL" => r.to = q.to)) => r = q

\* In the order the mail worker takes them (scheduledAt), the reminders of a
\* case count down: catching up never falls back to an older milestone.
RemindersCountDown ==
    \A r, q \in outbox :
        (r.case = q.case /\ r.audience = "CUSTOMER" /\ q.audience = "CUSTOMER" /\ r.at < q.at)
            => r.days > q.days

\* The keys of the rows a run owes a subscription nobody touched while it ran:
\* the closest milestone at or above the days left, and the notices of exactly
\* that day to each of their recipients.
Owed(e, s) ==
    LET c == <<s, subs[s].due>>
        left == DaysLeft(c, runs[e].asOf)
        stopped == Stopped(c, runs[e].asOf)
    IN  {<<c, "CUSTOMER", d, None>> :
           d \in {q \in ReminderDays :
                    /\ subs[s].contact # None /\ "CUSTOMER" \notin stopped
                    /\ q >= left /\ \A n \in ReminderDays : n < q => n < left}}
        \union
        {<<c, "INTERNAL", d, to>> :
           d \in {q \in NoticeDays : q = left /\ ("INTERNAL" \in stopped => q \notin QuietDays)},
           to \in Staff}

\* A run that ends has done its work for every subscription that was left in
\* peace meanwhile, whatever happened to the others and to the other runs:
\* it has a case, and the rows its day calls for are queued.
RunsAreComplete ==
    \A e \in Engines, s \in Subs :
        LET c == <<s, subs[s].due>>
        IN  (/\ Complete(e) /\ s \notin disturbed[e]
             /\ subs[s].state = "ACTIVE" /\ DaysLeft(c, runs[e].asOf) \in 0..Window) =>
                /\ cases[c] # Absent
                /\ cases[c].status \in ReminderEligible =>
                     \A k \in Owed(e, s) : \E r \in outbox : Key(r) = k

\* A subscription that stays active with the same renewal date, listed or
\* overdue in the end, gets its renewal case, whatever runs are interrupted.
EventuallyEnrolled ==
    \A s \in Subs, d \in Dues :
        d <= MaxDay + Window =>
            (<>[](subs[s].state = "ACTIVE" /\ subs[s].due = d) => <>(cases[<<s, d>>] # Absent))

\* Reminders come once per milestone and in the order of the milestones,
\* however runs of one or several days overlap.
MilestonesInOrder == OncePerMilestone /\ RemindersCountDown
=============================================================================
