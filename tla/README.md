# Verification of the HR talent and performance system

TLA+ models of the core of the system, the TLC configurations that check them on
small instances, and proofs that TLAPS checks. Paths below are relative to `src/`;
`0020` is short for the migration `db/migrations/0020_*.sql`.

Contents: 1 the system; 2 what is hard about it; 3 the modules and the code;
4 the runs; 5 fairness; 6 the proofs; 7 where documents and code disagree;
8 what is not modelled; 9 the plan.

    tlc -workers 2 -config MCOutbox_days.cfg MCOutbox.tla
    tlapm OutboxProofs.tla

## 1. The system: inventory

A NestJS API (`apps/api`) over PostgreSQL, a React client (`apps/web`), and shell
scripts for deployment. The state of the system is the database. A good part of
its logic is there as well: triggers guard state machines, functions carry out
operations, row policies decide what a caller may see. Every request runs in one
transaction opened by `DbService.withContext()` at READ COMMITTED, which commits
when the handler returns and rolls back on any error. The API processes keep only
the flag of a running worker pass and a short-lived cache of identities. They do not
talk to each other: they meet in the tables. The second place that keeps state is the
browser: a session with the identity provider, a cache of what was fetched, and what
has been typed into a form and not been saved.

| Component | State | Operations | Interacts with | What makes it correct |
|---|---|---|---|---|
| Notification outbox and worker (`0020`, `0021`, `0043`, `notifications/`) | rows with state, attempts, due time, dedupe key | enqueue, claim, send, record sent or failed, requeue, digest, deadline scan | queued by goals, reviews, feedback, monitoring; SMTP relay | no live duplicate, nothing sent twice without cause, every row settles, a held message goes out with its digest |
| Goals and goal periods (`0007`-`0009`, `0037`, `goals/`) | goals with two signatures, targets, periods with a gate | create, edit, submit, approve, HCM approve or revise, finish, check in, set state of the period | queues messages; its attainment is read at sign-off | signatures fit the state, the HCM gate holds, outcomes are final, a frozen period is frozen |
| Review cycles and reviews (`0013`, `0014`, `0038`, `reviews/`) | instances, answers, summaries | generate, save, submit, return, calibrate, sign off, acknowledge | reads the reporting line, the attainment, form versions | answers and ratings are frozen when they should be, the score is that of the answers, sign-off is complete and final |
| Employment lifecycle (`0001`, `0029`, `0045`, `employees/`) | effective-dated periods of employment and reporting lines, status | hire, import, record a change, separate, correct | read by access rules, reviews, evaluations | periods do not overlap, no day is lost, what was true stays true |
| Scorecards and evaluations (`0032`-`0034`, `metrics/`) | evaluation, snapshot of lines, total | edit scorecards, open one or a department, score, submit, acknowledge | employment at the end of the period, outbox | the total is that of the lines, the subject is told it, an acknowledged one is final |
| Improvement plans (`0011`, `pip/`) | plan, milestones, append-only reviews | create, activate, acknowledge, review, assess, close, cancel | outbox | legal moves only, an outcome exactly when completed, no review begins after the end |
| Development plans, learning (`0023`, `0024`, `development/`) | plan, actions, assigned lessons | create, move, mark an action, assign, complete | row policies | legal moves only, a lesson and its action agree |
| KPI library, forms, competency frameworks (`0007`, `0012`, `0016`) | numbered versions, one in force | create, draft, publish | goals, reviews | at most one version in force, nobody's version is overwritten unseen |
| Scoring (`0031`, `scoring.ts`) | points of a form, answers | refuse a form, score a review | forms, reviews | every accepted form scores out of the total it declares |
| Staff import, reference data (`0018`, `0027`, `import/`, `org/`) | units, positions, ranks, first employments and lines | import a file, change, close and create in Setup | employment, access | the tree stays a tree, an import can be repeated |
| Identity link and sessions (`0006`, `auth/`, `auth.ts`) | account of an employee, a cache of a minute, the page | sign in, link, answer, retry | directory, access | one account for good, no access long after leaving, everybody with a record gets a page |
| Access grants and roles (`0002`, `0005`, `0015`, `0046`, `cli/sync-roles.ts`) | dated role assignments | sync, grant, revoke; read through the chart | every query | who reads whom fits the chart, history is kept |
| Review form on screen (`ReviewForm.tsx`) | typed answers, cached copy, calls under way | type, save, submit, leave, fetch | reviews, scoring | what is scored is what was on the screen |
| Peer review, attainment and cadence, audit, feedback, timeline, analytics, help, directory, other CLI, migrations, operations | see `PROJECT.json` | | | |

`PROJECT.json` lists all 27 parts with their status and the reason for what is left
out.

## 2. What is hard about it

Nearly every operation is "read, decide, write" at READ COMMITTED, and almost no
statement takes a lock before it decides. So the hard behaviours are of four kinds.

*Two transactions that overlap.* A trigger looks at another table (the period of a
goal, the review of an answer) and what it saw is changed by somebody else before
the commit. A function reads the id of a row and writes it by that id later. Two
publishers, two syncs or two imports meet at a unique index or a row lock. The
modules cut every transaction where such a thing can be told, and nowhere else.

*Work outside a transaction.* The worker claims rows in one transaction, talks to a
relay, and records the outcome in another. It may die between any two of these, lose
the reply of the relay or of the database, or have its rows taken back meanwhile.

*Copies that grow old.* The guard keeps an identity for a minute, a screen keeps the
review it fetched, an evaluation keeps the lines of a scorecard.

*Long legal sequences.* States are written by several operations (approve, HCM
approve, revise, edit, finish; return after sign-off; import after separation), and
each checks only what its author had in mind.

`PROJECT.json` lists 40 such hazards at their lines, with the properties that would
catch each going wrong, or a note why none does yet.

## 3. The modules and the code

| Module | Models | MC module | Proofs |
|---|---|---|---|
| `Outbox` | `0020`, `notification-worker.service.ts` | `MCOutbox` | `OutboxProofs` |
| `Goals` | `goals.service.ts`, `setPeriodState` and the gate of `kpi.service.ts`, triggers of `0008` and `0037` | `MCGoals` | `GoalsProofs` |
| `Reviews` | `reviews.service.ts`, triggers of `0013` | `MCReviews` | `ReviewsProofs` |
| `Employment` | `0045`, `employee-lifecycle.service.ts`, `employee-import.service.ts` | `MCEmployment` | `StaffProofs` |
| `Evaluations` | `metrics.service.ts`, `evaluations.service.ts`, `0033`, `0034` | `MCEvaluations` | `EvaluationsProofs` |
| `Pips`, implements `Lifecycle` | `pip.service.ts`, `0011` | `MCPips` | `PlansProofs` |
| `Versions`, implements `Register` | publishing in `kpi.service.ts`, `forms.service.ts`, `competencies.service.ts` | (none needed) | `VersionsProofs` |
| `Import` | `ph201-import.service.ts`, `employee-import.service.ts`, units and ranks of `reference-data.service.ts`, triggers of `0018`, `0027` | `MCImport` | `StaffProofs` |
| `Development`, implements `Lifecycle` | `development.service.ts`, `0023`, policies of `0024` | `MCDevelopment` | `PlansProofs` |
| `SignIn` | `auth.guard.ts`, `0006`, `auth.ts` of the client | `MCSignIn` | `AccessProofs` |
| `Roles` | `sync-roles.ts`, `hr.ts`, `app.reports_to`, `app.can_access` | `MCRoles` | `AccessProofs` |
| `Scoring` | `scoring.ts`, `scoreOf` of `reviews.service.ts` | (in `ReviewForm`) | (in `ReviewsProofs`) |
| `ReviewForm`, uses `Scoring` | `ReviewForm.tsx`, and the handlers it calls | `MCReviewForm` | `ReviewsProofs` |

`Lifecycle` (a plan is drafted, started and ends once, one way) and `Register` (numbered
versions without a gap, exactly one in force) are the abstract specifications: what the
triggers and the indexes promise, without transactions.

A proof module may hold the proofs of two components that meet. What it extends cannot
share names, so in the second component the specification and a few others carry a name of their
own: `ImportSpec`, `DevSpec`, `SignInSpec`, `FormSpec`, and `FollowsLifecycle` for the refinement of
`Lifecycle` by `Development`.

The map in `PROJECT.json` gives the lines of every definition. An MC module adds
values for the constants, the symmetry sets (the members of a set named there are
interchangeable: nothing orders or compares them except for equality, and no constant names
a single one), and sometimes an action constraint, named in section 4. The runs of
liveness properties use no symmetry.

Definitions named in the comment `Mutant:` are variants of an action or a helper that a
plausible bug would give. No specification uses them: they are there so that each property
can be seen to fail when the code is wrong. `PROJECT.json` pairs them with the properties.

### Outbox

A row has `state`, `attempts`, `due` (`available_at` has been reached), `body` (recipient,
dedupe key, mode and, for a digest, the rows it lists), and `oldUpTo` says which rows are
older than ten minutes. A worker is the pass of `tick()` it is in: `pc`, `batch`, `cur`.
`building` and `snap` are the transaction of `buildDigests()`.

| Action | Code |
|---|---|
| `Enqueue` | `enqueue_notification`: the preference of the recipient decides between pending and held; a live row with the same recipient and key turns it into nothing |
| `Claim` | `claim_notifications`: a batch of due rows becomes `sending` and the attempt is counted; `SKIP LOCKED` may hide any of them |
| `SendAccepted`, `SendRefused`, `SendUnanswered` | the three things `sendMail` can do: success, nothing went out, or it went out and the reply was lost. A digest has no address (section 7), so only refusal is possible |
| `MarkSent`, `MarkFailed` | `sent_notification` and `fail_notification`, by id, whatever the state of the row is by then |
| `MarkSentThrows`, `MarkFailedThrows`, `MarkFailedClashes` | the call fails: inside the `try` of the send, in the inner `catch`, or because putting the row back would break the unique index |
| `DigestRead`, `DigestCommit` | `buildDigests()`: requeue of stalled rows, the loop over held rows, the later UPDATE which sees more rows than the loop did |
| `Crash` | the process dies; its open transaction is undone, what it claimed stays `sending` |
| `BackoffElapses`, `Age` | time passes |

`suspect` is a history variable: the rows whose delivery is uncertain because a reply was
lost, a process died after the relay took the message, recording failed, or the row was
requeued while a worker had it. It changes no behaviour.

### Goals

A goal is its committed row: owner, state, weight, `text` (title), the signatures `by` and
`hcm`, and whether HCM left a note. A request is a transaction `tx[s]` with the row it has
written, the state of the period its triggers saw (`saw`) and the messages it queues. While
it is open it holds the row's lock. `period` is the committed row with the HCM gate, `change`
an open UPDATE of its state.

`Create`, `UpdateGoal`, `Submit`, `Approve`, `HcmApprove`, `HcmRevise`, `Finish` and `CheckIn` are the
handlers of `goals.service.ts` up to their write with its triggers; `CommitGoal`, `CommitSubmit`
(followed by `CommitNotify`, the second transaction of `submit()`), `CommitCheckIn` and `Abort` end
them. `PeriodWrite`, `PeriodCommit` and `PeriodRefused` are `setPeriodState` with the weight check of
`0008`; `SetGate` is the switch of `0037`; `Deliver` is the outbox, seen from here: a live
message goes away. `signed` and `parked` are history.

### Reviews

One employee in one cycle. `instance[r]` and `response[r]` are the review by `r` (the employee
or a supervisor) and the answer to its required question; `summary` is the row that is signed.
`score` holds the answer it was computed from, which is all the properties need. A draft is
`SaveAnswer` (the answer is written; its trigger has looked at the review) and `SaveCommit`. A
submission is `SubmitRead` (answers read and checked) and `SubmitCommit`. A sign-off is cut at its
four reads. `Generate`, `ReturnForRevision`, `Calibrate` and `Acknowledge` depend on their own locked
row alone and are one step. `ChangeSupervisor` and `AttainmentMoves` are what employment and goals
do meanwhile.

### Employment

One employee. A table of periods is a function from the first day to the exclusive end
(`until` for employment, `line` for the primary reporting line). `Hire` and `Reimport` are
`create()` and the importer; `RecordRead` and `RecordCommit` are `record_employment_event()` with the
move of the line in `employee-lifecycle.service.ts`; `SeparateRead` and `SeparateCommit` are
`separate_employee()`. The CHECK and the exclusion constraints are the guards `Valid` and
`Disjoint`: a violation fails the transaction, which is `Abort`.

### Evaluations

`item` is the scorecards, `held` who is on which; `head`, `avail` and `got` are the row of an
evaluation, what its lines are worth and what they were given. A transaction `tx[s]` is cut
where another one can come between: an opening reads the target (`OpenBegin`, or `BatchPick` in a
department) and then inserts the head with it and the lines as they are by then (`Insert`); a batch
goes on to the next person and commits at its end (`OpenCommit`). `ScoreBegin` is `assertDraft` and
the policy on the lines, `ScoreCommit` the write: a request gives points to any of the lines or takes
them away again (`pointsAwarded: null`), which makes an assessed line one that is not. A submission checks (`SubmitBegin`), sums
(`SubmitSum`) and writes (`SubmitCommit`) with the CHECKs of the row, and queues the result in the
same transaction. `AddItem`, `RemoveItem` and `Assign` are `MetricsService`. `torn` and `crossed` are
history: the scorecard changed between the two reads, scores landed after the sum.

### Lifecycle, Pips and Development

In `Pips` a row `row[p]` is a plan; an UPDATE (`Activate`, `Acknowledge`, `Close`, `Cancel`) judges and
holds it (`Updates`) until `CommitUpdate`. `AddReview` looks at the state of the plan without a lock
and `CommitReview` inserts. `Create` is followed by `RequirePlan`, which reads the plan on a second
connection before the first has committed (section 7). A row lock is the condition `~Locked(p)`: who
waits for it is simply not there yet, and judges the row it finds. Drafts and seeded active
plans stand in the initial states.

`Development` has plans, the actions of a plan, and lessons assigned for an action or for none.
`SetAssignmentState` includes the trigger that completes the action: it runs as the caller, sees
the action only if the policy lets the caller write it, and passes over one that stands completed
without waiting. `SetPlanState`, `UpdateAction` and the former hold what they wrote until `Commit` or
`Undo`. `reopened` and `unseen` are history.

The variables `lives` of `Pips` and `life` of `Development` are mapped to `state` of `Lifecycle`, and its
`Plans` are the `DevPlans` of `Development`.

### Register and Versions

A publisher reads (`ReadKpi`, `ReadTemplate`, `ReadFramework`), finds the row in force
(`FindActive`), waits for it and takes it out (`Retire`), and installs another (`Install` inserts the
next number, `PutInForce` names one that is there). The three differ in what they read and how the
UPDATE finds its row: a KPI by id, the others by `is_active`, which is looked at again after a
wait; a form whose UPDATE found nothing is answered as not permitted (`RetireNothing`). `last` and
`active` are mapped to `last` and `live` of `Register`, frameworks are its `Drafted` codes.

### Import

`org` is the committed tables: units with code, name, level, parent and what their `effective_to` is
(`ends`: none, a day to come, or a day that has come); the unit and the boss a person was first given;
the rank of a unit's position and the ladder of ranks. `transfer` is the unit somebody was
transferred to, `UnitOf` the one they are in. An import (`Upload`) is one
transaction, so it is one step: the checks of the file (`Passes`: levels, codes, loops), the codes that
are missing, the units in the order of their depth, then people, lines and ranks. It places people in
any unit with the code whose end has not come (`Homes`). `Transfer` is `record_employment_event()`
with a department, which looks at no end. An update in Setup (`UpdateUnit`, `CloseUnit` with
any date) looks at other rows in its triggers and commits later (`CommitUpdate`, `RollBack`); `EndComes`
is the day that a unit was closed with. `lineFrom`, `raced` and `admitted` are history. `StaffFile` is
what the parser hands over: typed
rows, each with a unit at least, the units in the order of `UNIT_LEVELS`.

### SignIn

The browser: `SignIn` at the provider, `OpenAnew` (a page loaded again, or a token that is no longer good by
the browser's clock), `Ask`, `Reject` (the API does not accept the token: no bearer, `jwtVerify` fails, no
subject; any token at any time, clocks that stay apart among the causes), `Hear` (a query that fails is asked once
more; a 401 leaves for the provider, whatever else the page waits for). The guard, for each
question on its own: the cache (in `Ask`), the SELECT (`Read`) and the linking UPDATE (`Link`, `CommitLink`)
of `resolve_employee_by_subject`, then the entry in the cache (`Remember`), which lives a minute
(`EntryExpires`). `Fail` is any lost connection. `Separate` and `WriteEmployee` are HR and the importer;
`employee_work_email_active_uq` looks at everybody who is not deleted, so a leaver keeps the email
until it is changed. UNIQUE `idp_subject` makes a second link of one account fail.

### Roles

`held` is `role_assignment`; `cmd[h]` is a command at a terminal, with the rows it has written and
replaced (`put`, `gone`), which are seen when it commits. A sync is `StartSync` and, for each of the
two derived roles, `Grant` (an INSERT), `Revoke` (the snapshot of the UPDATE and DELETE) and `Strike`
(its writes, once the rows are free), then `Commit` or `Rollback`. `GrantRole` is `grant-role` and
`grant-admin`. `Hire`, `Move` and `Leave` change the chart, `NewDay` is midnight. `Chain` is the walk of
`app.reports_to`, which ends `MaxDepth` lines up (64 in the code), `CanRead` is `app.can_access` for the baseline grants. No unique index guards the
assignments: two syncs may write a row each, and the properties must hold with both.

### Scoring and ReviewForm

`Scoring` is the arithmetic: which forms `assertScoringValid` accepts, the points of a line rounded to
hundredths, the score and what was available. Points may be fractions: they are counted in `Fine`-ths of
a hundredth. A form has the values of its rating scale, or none, and then its reviews get no score. `ReviewForm` is one reviewer's screen on one review.
`cache`, `stale` and `fetch` are the query of react-query (success of a call makes the copy stale; an
open screen asks again and gives up the query under way; a copy equal to the last does not
replace what was typed). `call[c]` is a save or a submission: PATCH (`ServePatch`), and for a
submission POST once that was answered (`Submits`, `ServePost`, `Posted`). `Leave` does not cancel
calls. `Return` is HR. The review is opened with an accepted form and no classification, one of the form's, or one it does not
know (`scored_classification` is free text).
`crossed` and `missed` are history: something was typed or clicked while a call was under way; a call
succeeded while an older copy was on its way to a closed screen, or failed half done.

### How they meet

Goals, reviews, evaluations and improvement plans queue rows in the outbox. `Goals` keeps the dedupe
keys and contents of the live ones in `mail`, `Evaluations` and `Pips` the last one, each with a step
for any settling that `Outbox` allows. `Reviews` sees employment as `supervisor` and goals as
`attainment`, both of which may change at any time, and `Roles` and `SignIn` see employment as people who
come, move and leave at any time: that is weaker than what `Employment` and `Goals` do, so what holds
here holds of the composition. `ReviewForm` sees the server take each call in one step: the
transactions of a call are in `Reviews`. `Scoring` is composed with `ReviewForm` as it is.

## 4. The runs

All pass. State counts are TLC's distinct states.

| Run | States | Bounds | Shows |
|---|---|---|---|
| `outbox_days` | 85,052 | 2 workers, 2 queued messages, batch 2, 2 attempts, 3 rows, 1 fault; good days and bad days (below) | `DuplicateOnlyIfSuspect`, `SentWasDelivered`; `Settles`: every live row is sent or parked in the end, whatever the relay does and although a worker may die; `QueuedDelivered`: with the relay up and no fault, what is to be sent at once reaches it |
| `goals_safety` | 1,503,214 | 1 goal, 3 people, 2 requests, weights 1 and 2 of 2, an edit, a check-in, the period written twice | `GateKept`, `SignaturesFitState`, `MailTruthful`, `OutcomeStands`, `FrozenButForLate` |
| `reviews_safety` | 989,410 | 2 supervisors, 2 requests, 1 answer or none, the attainment moves once | `SubmittedScored`, `RatingsFinal`, `NoQuietUnsubmit`, `FrozenButForLateSaves` |
| `employment_history` | 38,161 | 3 days, 2 requests, 2 places, 1 supervisor | `LineUnbroken`, `HistoryKept`, `GapsAreStale`, `SeparationStands` |
| `evaluations_safety` | 1,226,682 | 2 people who may be on 1 scorecard of 2 lines worth 1, assessed and un-assessed, 2 requests | `TargetOfLines`, `AwardedIsSum`, `SubjectToldTotal`, `AcknowledgedFinal` |
| `pips_safety` | 168,392 | 1 plan, 2 milestones, 2 outcomes, 2 reviews, 3 requests | `ImplementsLifecycle`, `LateReviewsInFlight` |
| `versions_safety` | 123,220 | a KPI, a form and a framework, 3 versions of each, 2 requests | `ImplementsRegister`, `PublishedOverWhatWasRead` |
| `import_safety` | 152,148 | 5 staff files (one is refused), 3 people, 3 names and 2 codes, 2 imports, 3 changes (2 sessions in Setup, transfers) | `CyclesSpanImports`, `ForestUnlessRaced`, `ClosedUnlessAdmitted`, `Repeatable`, `LinkedAsNamed` |
| `development_safety` | 362,504 | 1 plan with 1 action, 2 people, 1 resource, 2 dates, 2 requests | `DriftOnlyByHand`, `FollowsLifecycle` |
| `signin_safety` | 221,191 | 1 employee, 2 accounts with one email, 3 questions, 1 write by HR | `BoundForGood`, `LeaverShutOut`, `SignInSettles` |
| `roles_safety` | 856,537 | 4 people, a walk of 2 lines at most, 2 operators, 2 days, 1 change | `SeesOwnTree`, `HistoryKept` |
| `reviewform_safety` | 5,116,081 | 7 forms (4 are refused), points in thousandths, a rating of 1 or 3 or without a scale, a yes or no, 4 classifications, 2 calls, 2 typed answers | `ScoredAsShown`, `SavedMeansStored`, `ScoresOutOfTotal` |

*Constraints on steps* keep four of the runs small, and each leaves out a product of two cases, not a
case. `MCOutbox`: a day is good or bad, once. On a good one nothing external fails and there are
two rows; on a bad one there are a message and its digest, or several keyed messages sent by one
worker at a time. `MCGoals!Small`: a goal that is there for the check of the weights has no check-in and
no second request. `MCReviews!OneAtATime`: once a second supervisor has a review, one request runs at a
time. `MCEvaluations!OnlyFirstScored`: of the two people only the first is scored, and no opening
is past the first once that one's evaluation is submitted. `MCRoles!TwoInPairs`: two operators at the same
time in an organisation of two without an `hr_admin`, one operator otherwise.

*Why the bounds are enough.* Two workers or requests suffice for every interference the
code knows: a step reads or writes the rows of one goal, review or employee, and a race is
between the one that read and the one that wrote since. `Pips` has three, as a review, a closing and a
cancellation of one plan can be under way together. Two attempts stand for six: a row can
be put back and can be given up. Three rows hold a message, a second one, and the digest. One fault is
enough to lose an outcome; that a second fault makes nothing worse is part of the proofs. Three
people are an owner, a supervisor and an HCM officer; the four of `Roles` are a chain of three lines under
a walk that goes up two, so that its end matters, or a circle.
Three days let a change split a period, another split a half of it, and a separation end on, before
and after both. Two imports are one over the other; the files of `MCImport` are the shapes that matter:
nested, flat, circular, with a clash of codes, with one unit at two levels. Three versions let a
publisher be overtaken by one and by two. Calls of `ReviewForm` are made once each, so two are a draft
and a submission in any order, or a call and its retry. Larger instances were run once and hold too:
evaluations of one person with 3 requests (1,479,061) and, by one request at a time, with lines worth 2
(58,202); versions with 3 requests (5,371,348); roles of 3 people with 1 operator and 3 changes (4,813,044).
The proofs lift the bounds for the properties listed in section 6.

*Deadlock* is checked where somebody can always do something (`pips_safety`, `versions_safety`,
`development_safety`, `roles_safety`). In the other runs a bound is used up in the end
and nobody wants anything, which is where the real system idles as well.

## 5. Fairness

Two modules state liveness.

`Outbox!Fairness` is weak fairness for each worker's pass and digest pass, for the elapsing of a
backoff, and for ageing. The code justifies it: both passes run from `setInterval`, a pass clears its
flag in a `finally`, the service is started again when it dies, and time passes. Nothing is assumed of
people (they may never queue anything), of the relay (it may refuse every message), or of
crashes, which are bounded by `MaxFaults` because a worker that always dies in time settles nothing.
On a good day (`MCOutbox`) the relay takes whatever has an address, to say what is delivered when
nothing external fails.

`SignIn!FairSpec` has weak fairness for the provider's answer, for each question of an open page
and for hearing its answer, for the steps of the guard, and for the expiry of an entry; and
strong fairness for `Link`, since a request that waits for a row others take and give back gets
it in turn (PostgreSQL queues waiters). Nobody has to open a page, join or leave, and no request has to
fail. `SignInSettles` speaks of accounts that have an employee and whose tokens are accepted from some
point on, and of pages that are not opened anew for ever. Nothing makes the API accept a token: with
clocks that stay apart, or another issuer, the page circles (`ReauthenticationHelps` in section 7).
`LeaverShutOut` needs no hypothesis.

The requests of the other modules are made by people. They may be abandoned at any point, so
those modules have no fairness and no liveness.

## 6. The proofs

All are for any number of workers, rows, people, requests, days and so on, under the named
assumptions of the modules: bounds are natural numbers, `Batch`, `GiveUp`, `MaxDepth` and `Fine` are positive, the
values that stand for NULL (`None`, `Nil`, `Null`, `Nobody`, `Nothing`) are in no set they are the
absence of, a name has one derived code, every plan has an owner, and a staff file is one the
parser can hand over (`FilesAssumption`: a row that names no unit is dropped before, and the columns are read in the order of
`UNIT_LEVELS`), a form has finitely many fields, a number of points is not negative, and a scale that has values has a
highest one (`FormType`, which
is `fieldPoints`), and the people of `Roles` are finitely many. The code satisfies all of them by its types
and defaults. `Fine` is any number, so points may be any fractions that have a common denominator.

| Theorem | States |
|---|---|
| `OutboxProofs!TypeCorrect` | `TypeOK` |
| `OutboxProofs!NoSilentDuplicate` | `Custody`, hence `DuplicateOnlyIfSuspect` |
| `OutboxProofs!NoLiveDuplicate` | `DedupeUnique` |
| `OutboxProofs!HeldStaysHeld`, `SentMeansDelivered` | `HeldNeverMailedAlone`, `SentWasDelivered` |
| `GoalsProofs!TypeCorrect`, `GateCorrect`, `SignaturesCorrect`, `MailCorrect`, `OutcomeCorrect`, `FreezeCorrect` | `TypeOK`; `GateKept`; `SignaturesFitState`; `MailTruthful`; `OutcomeStands`; `FrozenButForLate` |
| `ReviewsProofs!TypeCorrect`, `ScoreCorrect`, `RatingsCorrect`, `SubmissionCorrect`, `FreezeCorrect` | of `Reviews`: `TypeOK`; `SubmittedScored`; `RatingsFinal`; `NoQuietUnsubmit` and `NeverRestarts`; `FrozenButForLateSaves` |
| `ReviewsProofs!FormTypeCorrect`, `FormScoredAsShown`, `FormSavedMeansStored`, `FormScoresOutOfTotal` | of `ReviewForm`: `FormTypeOK`; `ScoredAsShown`; `SavedMeansStored`; `ScoresOutOfTotal` |
| `StaffProofs!TypeCorrect`, `LineCorrect`, `HistoryCorrect`, `SeparationCorrect`, `GapsCorrect` | of `Employment`: `TypeOK`; `LineUnbroken`; `HistoryKept`; `SeparationStands`; `GapsAreStale` |
| `StaffProofs!ImportTypeCorrect`, `ForestCorrect`, `ClosedCorrect`, `CyclesCorrect`, `LinksCorrect`, `RepeatCorrect` | of `Import`: `ImportTypeOK`; `ForestUnlessRaced`; `ClosedUnlessAdmitted`; `CyclesSpanImports`; `LinkedAsNamed`; `Repeatable` |
| `EvaluationsProofs!TypeCorrect`, `TargetCorrect`, `TotalCorrect`, `ToldCorrect`, `AcknowledgementCorrect`, `SnapshotCorrect` | `TypeOK`; `TargetOfLines`; `AwardedIsSum`; `SubjectToldTotal`; `AcknowledgedFinal`; `LinesStand` |
| `PlansProofs!TypeCorrect`, `LifecycleCorrect`, `OutcomeCorrect`, `LateReviewsCorrect`, `ToldCorrect` | of `Pips`: `TypeOK`; `ImplementsLifecycle`; `OutcomeIffCompleted`; `LateReviewsInFlight`; `ToldWhenActive` |
| `PlansProofs!DevTypeCorrect`, `DriftCorrect`, `DevLifecycleCorrect` | of `Development`: `DevTypeOK`; `DriftOnlyByHand`; `FollowsLifecycle` |
| `VersionsProofs!TypeCorrect`, `RegisterCorrect`, `PublishedCorrect` | `TypeOK`; `ImplementsRegister`; `PublishedOverWhatWasRead` |
| `AccessProofs!SignInTypeCorrect`, `BindingCorrect` | of `SignIn`: `SignInTypeOK`; `BoundForGood` |
| `AccessProofs!RolesTypeCorrect`, `HistoryCorrect`, `TreeCorrect` | of `Roles`: `TypeOK`; `HistoryKept`; `SeesOwnTree` |

The type invariants of these modules, and `DedupeUnique`, `HeldNeverMailedAlone`, `NeverRestarts`,
`LinesStand`, `OutcomeIffCompleted` and `ToldWhenActive`, are proved and therefore in no run.

*Outbox.* "A message goes out twice only if it became suspect" is not inductive: nothing in
it says who may still send a row. `Custody` does. An unsuspected row is in at most one hand, a
pending one has not been accepted, and one that was accepted is either sent or in the hands of the
worker that is about to say so. `Delivery` strengthens the two statements about held and sent rows
with what a worker's program counter implies of the row it holds.

*Goals.* A request commits a row it computed some steps earlier, so the signatures of the
committed row say nothing until one knows what the open transactions are about to write.
`WritersReady` does: the row in hand follows from the committed one by a legal transition, carries
the signatures of its own state, and announces an approval only if it is one. It stays true because of
`Exclusive`: two open writers never hold one goal (the row lock). `OthersReady` is the same for
check-ins and for the follow-up of `submit()`, `ParkedFits` says what the history variable implies. The
invariant `IInv` joins these with the properties and `TypeOK`; the action properties follow from
it step by step.

*Reviews.* `ReadsHold` says that a submission in flight has read an answer and that a draft saw its
review unsubmitted; `ReviewsThere` that the review either of them is about exists, as no operation
removes one. With them `SubmittedScored` is inductive. One lemma, `StepOfReview`, says what any step
may do to one review, and the submission and freeze theorems read off it. `RatingsCorrect` needs no
invariant: the trigger of the summary carries it, which is why it survives any interleaving.

*Employment.* `ReadsHold` says a transaction holds on to a row that stays and that a change falls
strictly inside the period it has read; `Apart` says both tables are disjoint, `HiredStarts` that every
recorded hire begins a period, and `AbsentEmpty` that nobody has a history before they are created
(without it the first period might overwrite one). `HistoryKept` needs the first two, because a change
may shorten the period it read even when that has another end by now. `GapsAreStale` and
`SeparationStands` rest on the same facts: if the period still has the end that was read, the two
halves meet and the new half inherits that end.

*Evaluations.* `Holds` says of every transaction that what it read still holds unless the history tells
otherwise: the target an opening has read is that of the scorecard or it is `torn`, the sum a submission
has taken is that of the lines or they were `crossed`. `Apart` says no two transactions have inserted
one evaluation. `QueuedIsSubmitted` closes the argument for `SubjectToldTotal`: a message that is still
queued is of a total on record, and a second total can only be the same one, because scores that move
it set `crossed`.

*Pips.* `OneHolder` (the row lock) and `HeldJudged` (what the holder was judged on still stands) carry
the refinement: when `CommitUpdate` writes the row, the move it makes is one the state machine allows
from the row as it is. `CreatingAbsent` does the same for creations. Steps that write no plan are stutters.

*Versions.* `ReadVersion` says what a publisher has read was a version of its code, `LastInForce` that
of a KPI or form exactly the last version is in force. The numbering index makes `Install` fail for who
read an older one: what remains is `Register!Publish`. For frameworks the index on the version in
force leaves only `PutInForce`.

*Development.* What a request is about to write was judged steps ago. `Fits` says it still fits: its move of
the plan is one the trigger allows from the state the plan has, and a lesson it completes has an action
that is completed, is completed by the same request, has been taken back since, or could not be
written by the caller. `Alone` (the row locks) keeps the others' writes off the rows it holds; the one
row it has looked at without holding it is an action that stood completed, and a commit that takes
that back is what `reopened` records. `OfAPlan` and `ForAnAction` say plans come before actions and actions
before lessons, so that `CreatePlan` disturbs none of it.

*ReviewForm.* `FormIInv` follows one set of answers from the screen into a call, the database, the copy and
back. While nothing was crossed one call is under way (`Alone`), what it has stored is what it was sent
with (`SentIsStored`), and the screen shows the copy or the body of that call (`ShownInCall`); the newest
copy holds what is stored unless a fetch or a call is under way (`CopyCurrent`), and a screen without
a good copy waits for one (`ScreenWaits`). `ShownWhenSaved` is `SavedMeansStored` with the calls and
fetches that may still come; `NothingCleared` is needed because a PATCH leaves out what is blank.

`ScoresOutOfTotal` is about sums over the fields of a form. They are sums of the community modules,
defined by a recursive function on the subsets of a set, and nothing in the library says that there is
such a function. `TableThere` shows it: of the subsets without one take a set with none of the others in
it (`LeastSet`); its proper subsets have theirs, they agree where they meet (`TablesAgree`), and
together they make one for it. From that follow a sum less any one of its terms (`SumSplit`), less the terms
that are nothing (`SumSupport`), scaled (`SumScaled`), and the distance of two sums that are a little
apart in each term (`SumNear`). What one line earns is its points, rounded, at most half a
hundredth off (`LineNear`, `RoundNear`), and `ScaleTop` says a best answer is the highest value of the scale.
Then the best answers of an accepted form earn its total but for half a hundredth a line, and nobody
earns more than was available but for that (`ComputedStands`, `TotalStands`).

*Import.* An upload is one large step, so its proof is about data. `LoopsFound` shows that the walk of
`Loops` finds every circle: a file that passes has none, neither of units (`NamesForest`: of the
units of a supposed circle take one named in the leftmost column; what it hangs under is named further
left) nor of lines (`LinesForest`). Induction is replaced by the least counterexample
(`LeastNumber`, from `WFMin`). `ImportGrows` says an import only adds units: those that were there keep
their parents, so a circle would have to lie among the new ones. `NumbersInUse` makes
the number of a new unit free, `ParentsThere` keeps parents in place. For the updates of Setup `MovesSafe`
says that what the trigger found when the update began is true until its commit as long as no two
moves overlap (that is `raced`), and `UpdatesApart` that a unit being closed holds nobody who was not admitted
since; a transfer to another unit starts that account anew. `CyclesSpanImports` needs `LinesNumbered`: the lines of the next import are of no earlier one.
`Repeatable` is proved for every choice of units the second upload might make: it finds each code, each
parent and each place as the first left them.

*SignIn.* `LinkSafe` says what a request that has written its row holds on to: the row is of nobody, its
account has no row. `OneWriter` (the row lock and the unique index) says no other request is about to bind
either, so both survive until `CommitLink`. `OneRow` is the unique index, `Known` says that whoever is
answered is somebody.

*Roles.* `Replaced` says of every command that a row it takes away is still there, was to go on, and
is written back, closed as of the day of the command, if it began before that day; `Accounted` that it
writes nothing else but rows that begin on its day. `StillToCome` makes a closed copy safe
from the command's own second pass: what it strikes has an end after its day. `Apart` (row locks) keeps
another command's commit off the rows. Then the rows in force on an earlier day are the same, one for
one, before and after a commit, even on the far side of midnight.

`SeesOwnTree` speaks of who is at the end of a way of at most `MaxDepth` lines up the chart (`Above`).
`ChainIsAbove` shows that the walk of
`app.reports_to`, which takes no line twice, finds exactly those: what a walk reaches with some people
behind it (`Reached`) satisfies the equation of the recursive function, because a shortest way passes nobody
twice (`ReachedUnfolds`), and as there are finitely many people to pass nothing
else does (`WalkIs`). `Ready` says how far a sync has come that nothing has overtaken: who has a role
after the grant, whom the revocation is about to strike, who has it when it is struck. What such a sync
commits is what the staff asks for (`Synced`), and it stays until somebody is hired, moves or leaves or a
row changes. `Past` says no row begins, or ends, on a day to come, so that a new day changes nothing.

*Only model-checked*: liveness (`Settles`, `QueuedDelivered`, `LeaverShutOut`, `SignInSettles`), because
fairness is out of the prover's reach. Every safety property that a run checks is proved.

## 7. Where documents and code disagree

Each of these is a property stated from a sentence of the repository, in the last section of its
module, with a counterexample that TLC finds. They are checked apart from the passing runs, with the
configurations named here (`tlc -continue` goes on after the first violation).

`Outbox_disagreements` (module `Outbox`):

- `OnePerMilestone` (`0043:23`, "so it sends once however often the scan runs"): the unique index
  covers live rows only. Once the reminder is sent the next hourly scan queues it again.
- `HeldDelivered` (`notifications.spec.ts:399`, "nothing may be lost"): `build_digests` inserts the
  digest without `recipient_email`, which is what the worker sends to. The digest is refused until
  it is parked, and its items were marked sent when it was built.
- `NoReclaimInProgress` (`notifications.spec.ts:351`, "does not reclaim a send that is merely in
  progress"): the requeue looks at `created_at`, not at the claim, so a message that waited ten minutes
  in the queue is taken from the worker that is sending it.
- `DigestCovers`: a message held between the SELECT and the UPDATE of `build_digests` is marked sent and
  is in no digest.

`MCGoals_disagreements`:

- `NoteClearedOnResubmit`: the note of HCM is not cleared on resubmission (`0037:65` says it is).
- `SignatureCurrent`: `update()` changes weight and title of a signed goal and leaves its signatures
  (`goals.service.ts:316`).
- `LockedWeightsChecked`: a submission under way when the check runs commits before the lock, which
  locks weights that do not add up (`kpi.service.ts:137`).
- `LockedSetFrozen`: in a locked period drafts may be approved and goals cancelled (`0007:24`, "goal
  SET is frozen").
- `ClosedFrozen`: an insert that saw the period open commits after it has closed (`0007:25`).
- `ApproverNamed`: `approverName` is filled with the name of the owner (`0021:41`).
- `ApprovalTold`: both outcomes share a dedupe key, so the news of an approval is dropped while the
  message of an earlier one is live (`goals.service.ts:245`).
- `RefusalExplained`: the handler queries the violations in the transaction that has just failed
  (`kpi.service.ts:138`).

`MCReviews_disagreements`:

- `AnswersFrozen` (`0013:178`, "Answers are frozen once submitted. This is the core integrity guarantee
  of the whole phase"): the trigger reads the review without a lock. A draft whose trigger saw it
  unsubmitted commits after the submission. `FrozenButForLateSaves` says, and the proof confirms,
  that this is the only way.
- `ScoreOfAnswers`: a draft commits between the reading of the answers and the submission, which keeps
  the former score (`0031:59`).
- `SignedReviewsFinal`: a review is returned or generated after its summary was signed (`0013:202`).
- `SignedWhenComplete`: a review is returned between the count and the signature (`0038:18`).
- `SignedOnce`: of two people who sign at once the later replaces the former (`reviews.service.ts:590`).
- `SupervisorRated`: after a change of supervisor there are two supervisor reviews, and either's rating
  may become the record (`reviews.service.ts:608`).

`MCEmployment_gap`:

- `ChangesLeaveNoGap` (`employee-lifecycle.spec.ts:132`, "with no gap and no overlap"): a separation
  that read the open period closes it, by its id, after a transfer has split it. The days between
  the last day and the transfer are lost and the person who left keeps an open period.
  `GapsAreStale` says this is the only way.

`MCEvaluations_disagreements`:

- `SnapshotAtOneMoment` (`0033:18`, "at the moment it is opened"): the target is read before the lines
  are, and a line added between the two is in one and not in the other.
- `ScoresFixed` (`evaluations.service.ts:369`, "Scores are fixed once submitted"): scores whose check saw
  a draft are written after the submission, and the total stays.

`MCPips_disagreements`:

- `CreatedIsFound`: `create()` reads the plan it has just inserted through `requirePlan()`, which opens
  a transaction of its own; the plan is not committed, so it is not found, and the error rolls the
  creation back. `POST /pips` answers "PIP not found" (`pip.service.ts:285`) and creates nothing.
- `RefusedOnlyTwice` (`pip.service.ts:181`, "Only the employee named in the plan can acknowledge it,
  and only once"): the employee named in it is refused the first time as well, for want of a write
  grant on their own plan.
- `ReviewedWhileActive` (`0011:148`, "Reviews can only be recorded against an active PIP"): a review
  whose trigger saw the plan active commits after it has closed. `LateReviewsInFlight` is what remains.

`Versions_denied` (module `Versions`):

- `DeniedMayNot` (`forms.service.ts:226`, "Not permitted to modify form templates"): who waited for
  another publisher finds no row, and is told that, whatever their grants.

`MCImport_disagreements`:

- `LinkedWhateverLevels` (`ph201-import.service.ts:524`, a wrong order "would fail loudly rather than
  build a wrong tree"): a unit the file first names at a lower level is written after its children,
  which are created without a parent.
- `PlacedWhereNamed` (`ph201-import.service.ts:109`, "The NAME, not a code"): a name whose derived code
  another unit has puts its people there.
- `NobodyReportsInACircle` (`employee-import.service.ts:151`, cycles are caught "here, where the fix is
  cheap"): two files together make one.
- `UnitsFormForest` (`0018:57`, "cannot become its own ancestor"): two moves at once make a unit one.
- `LevelsDescend` (`0027:71`, "A child may not sit ABOVE its parent"): the trigger looks up, not down.
- `ClosedAreEmpty` (`0018:23`, "cannot be closed while people are still in it"): an import places
  somebody meanwhile, or later if the day lies ahead, and a transfer does at any time.
- `ClosedTakeNobody` (`reference-data.service.ts:174`, a unit is closed "as of a date. Refused if anyone
  is still assigned"): people are counted when it is closed, not on the date. Until then the import goes on
  assigning people to it, and a transfer does even afterwards. `ClosedUnlessAdmitted` says that these are
  the only ways.
- `CorrectionStands` (`reference-data.service.ts:81`, correcting a code "is safe"): the next import of the
  same file creates the unit again under the old code.

`MCDevelopment_closes`:

- `LearningCloses` (`0023:237` and `development.service.ts:296`, completing an assignment "closes that
  action too"): the trigger passes over an action that stands completed while somebody is taking it
  back, and the lesson is done and the action is not.

`MCSignIn_disagreements`:

- `SignInEnds` (`basics-signing-in.md:24`, "I signed in, but it says there is no employee record"): who
  has none is answered 401, which the client takes for an expired session: it goes to the provider,
  which signs them in again, and so on.
- `ReauthenticationHelps` (`auth.ts:149`, a token "rejected despite looking valid locally": the client
  answers "Re-authenticate rather than showing a confusing empty state"): what the provider issues next is
  rejected for the same reason, and the page of an employee circles as well.
- `RefusedOnlyUnlinked` (`auth.guard.ts:80`): of two first questions of a page one links, and the other,
  which waited for the row, finds it taken and is refused.

`MCRoles_disagreements`:

- `TrueWhenAbove` (`0002:145`, "True when `ancestor` was above `subject` in the primary reporting chain"):
  the walk ends 64 lines up.
- `ActiveSeeThemselves` (`sync-roles.ts:12`, "every active, non-deleted employee"): an employment with a
  last day still to come is closed, and the sync takes it for ended.
- `CurrentManagersSeeTheirs` (`sync-roles.ts:13`, "at least one current direct report"): a line recorded
  for a later day is the open one, and the supervisor of today loses the role.

`MCReviewForm_disagreements`:

- `SubmittedAsClicked` (`ReviewForm.tsx:82`, "Save first"): a draft being saved overtakes the submission
  and is what is submitted.
- `SavedLabel` (`ReviewForm.tsx:246`, "Saved"): what was typed while a draft was being saved is not
  stored, and the button reads "Saved".
- `BestEarnTotal` (`scoring.ts:35`, "A form that cannot produce a correct score should never be
  publishable"): each line is rounded, so three lines of 33.333, 33.333 and 33.334 are accepted for 100 and earn 99.99.
- `WithinAvailable` (`form-scoring-http.spec.ts:213`, of a score above what was available: "the arithmetic
  cannot produce this"): lines that are rounded up earn more than the total; the CHECK of `0031` fails and the
  submission with it.
- `ScoredByColumn` (`0031:35`, "Which point column was used"): a classification that the form
  does not know is taken, and every line split by classification counts for nothing.
- `BlankLowersAvailable` (`0031:36`, a form with blank lines "has a lower available"): every line counts
  as available, answered or not.

Met while reading `0045`, without a property: `0029` declares a rehire event that
`record_employment_event` refuses after a separation, because no period covers the day; an import with
a later `hired_on` opens a period and leaves the status `separated`; a separation leaves the reporting
line open; separating somebody who has a future-dated transfer fails on a CHECK instead of
a message; `correct()` can move `hired_on` away from the first period.

## 8. What is not modelled

- *Everywhere*: the text of messages, templates and reasons; which caller a row policy lets through,
  but in `Development`, `Pips` and `Roles`, where that is the point (elsewhere any caller the handler
  permits may act, so what holds does so under every set of grants).
- *In the modelled parts*: parent goals and all but one value of a target; the state of a cycle, which
  no operation on a review looks at; the reviews of department heads; names, dates and mail addresses
  in a staff file, and in `Import` transfers from a later day on (a transfer leaves the position that of the
  first unit); which of several units with one code an import takes (the one that started last: always
  the same); several scorecards at a time for one person; what a version says; the department
  scope of HR partners and unit heads, other organisations, hire dates in the future; a second window
  on one review, a fetch that fails; what is verified in a token (it is accepted or not).
- *In scores*: the error of floating-point sums, by which the total of a form may miss what it declares;
  a score of 100,000 or more, which does not fit its column; who chooses the classification (only a
  submission writes it, from its own request, so it is given with the review), and that a submission
  without a score erases it.
- *Attainment and cadence, analytics, directory, timeline*: views and queries that write nothing.
- *Evaluation definitions*: one UPDATE of one row at a time, and a snapshot a trigger takes once.
- *Peer review*: the functions of `0040` are there, no service calls them, so there is no order of calls
  to model.
- *Feedback*: messages that are only added, and a close that is never undone.
- *Audit*: triggers that append in the transaction of the write.
- *Help, other screens of the client*: they show what they fetched and send one request at a time.
- *Command-line seeds, provisioning, migrations, deployment*: one operator, before the system is in
  use; the reopening of a period, the reminders and the role sync are actions of `Goals`, `Outbox` and
  `Roles`.

## 9. The plan

Done, in the order of importance: `Outbox`, `Goals`, `Reviews`, `Employment`, `Evaluations`, `Pips`,
`Versions`, `Development`, `Import`, `SignIn`, `Roles` and `ReviewForm`, each with its proofs; `Lifecycle` and
`Register`, each with a refinement that is proved of all that implement it; `Scoring`, with the theorem of
its totals.

Left, in this order:

1. Two more abstract specifications: *Delivery* (a message is queued, may be handed over more than
   once only when its fate was unknown, and settles) implemented by `Outbox`, and *History* (one value per
   day, changed from a day on, all at once) implemented by `Employment` but for stale commits.
2. Compositions: `Goals` with `Outbox` in place of `Deliver`, `Employment` with `Reviews` in place of
   `ChangeSupervisor`.
3. `Panel` (`0039`-`0041`), once a service calls it; `Attainment` as operators against a reference.
