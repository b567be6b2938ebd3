# Verification of the Barraq backend

TLA+ models, TLC runs and TLAPS proofs for the Django/Celery backend in
`src/`: a learning platform in which students ask AI characters for quizzes,
study plans, summaries and advice, pay for the requests with a monthly
allowance, and take quizzes. The models are translated from the code; where a
document or comment promises something the code does not do, a run shows it.

## 1. Inventory

| Component | State it keeps | Operations | Talks to |
|---|---|---|---|
| Usage ledger (`subscriptions/services.py`) | `UsageLedgerEntry` rows (immutable), `SubscriptionUsage` counters per month, `UserSubscription` | reserve, commit, refund, rebuild the counters, change plan, cancel | called by AI jobs inside their transactions |
| AI job lifecycle (`ai_integration/services.py`) | `AIJob` status, external id, credit flags, result, notifications | create, progress, submit, complete, fail, cancel | ledger, materializers, outbox |
| AI job input (`ai_integration/services.py`, `serializers.py`) | the input recorded on the job, its idempotency key | validate and build from a request, build again at dispatch | sources, folders, recommendations, results |
| Dispatch (`ai_integration/tasks.py`) | `AIJobDispatchOutbox` row per job; Celery messages | dispatch, retry, sweep, cancel at the service | broker, AI service, job lifecycle |
| Reports (`ai_integration/views.py`) | `AIWebhookEvent` rows | webhook, refresh | AI service, job lifecycle |
| Feedback (`views.py`, `tasks.py`) | `AIFeedback`, `forwarded_to_ai_service` | give or edit, forward | AI service |
| Materializers (`materializers.py`) | quiz, plan, recommendation, summary, transcription and derived source rows | materialize once per job | job lifecycle |
| AI client, signing (`client.py`, `security.py`) | none (nonce cache) | request, sign, verify | AI service |
| Plans and subscription (`subscriptions`, `admin_dashboard/views.py`) | `SubscriptionPlan`, `UserSubscription`, `SubscriptionEvent` | seed, create, edit and delete a plan; change, cancel, edit a subscription | ledger, quotas |
| Sources and quotas (`sources`, `subscriptions/services.py`) | sources with their files, folders, storage used | upload, edit, process, derive, delete | plans, Celery, projects |
| Quizzes (`quizzes`) | quiz status, questions, count; attempts, answers, scores | author, publish, archive, start, answer, submit, abandon | materializers |
| Study plans (`study_plans`) | plan status and percentage, task statuses and places | create, edit, complete, skip, reopen, delete | materializers |
| Users (`users`) | account, e-mail codes, refresh tokens, reset links | register, verify, resend, log in and out, refresh, change and reset the password, edit, delete | Celery (mail), admin console |
| Admin console (`admin_dashboard`) | administrators, roles, permissions, assignments | create, edit, suspend, delete, assign, seed | users, subscriptions |
| Support (`support`) | ticket status, messages | message, close, answer, note, edit | none |
| Projects (`projects`) | projects, and the project of folders, sources, jobs and artifacts | create, edit, archive, delete, backfill | sources, AI jobs |
| Notifications, question bank, analytics, summaries, audio, subjects, students, waitlist | single rows | create, read, update | none |

Each row of every model belongs to one user, because every query of these
services filters by user: rows of different users never meet. Administrators,
their roles and the plans are the exception, and are modelled with several
actors.

### What is hard here, and what must hold

| Component | Hard behaviour | What makes it correct |
|---|---|---|
| Usage ledger | counters kept one by one beside an append-only ledger; repeated refunds; rebuilds, plan changes and the turn of the month in between; the plan's limit | the counters are what the ledger replays to; no month holds more requests than a plan allows |
| AI job lifecycle | late, repeated and reordered reports against cancellation and failure; four kinds of rows changed by one outcome | flags, ledger, result and notifications tell one story; a settled job is final; delivered and charged, or withdrawn and returned, never a mixture |
| AI job input | built twice, from a request and from what was recorded, while folders, sources and subjects move on; identical requests at once | what is sent is what was recorded and keyed; what is accepted can be sent; one job per input |
| Dispatch | a worker's three transactions with a remote call between them, worker and broker failures, Celery's retries against Beat's, unlocked writes of the outbox row | an accepted job is never lost, never sent after it is settled; it leaves the queue, and its outcome arrives unless its result is refused |
| Webhook | deliveries repeated, concurrent, conflicting and interrupted; results that are refused every time | every event is applied at most once, with its first payload, and in the end unless the job refuses its result |
| Materializers | output at and beyond every bound: indices, minutes, dates, counts | what the AI wrote passes what a person's quiz or plan must pass |
| Quiz attempts | handlers that decide on a row fetched before another handler's commit; a deadline in the middle | few active attempts; nothing settled is reopened; a result is that of the answers |
| Quiz authoring | whole-row saves, a count stored apart from the rows it counts, edits against publication and deletion | what is published can be graded and stays as it is |
| Feedback | an edit while an earlier version is forwarded; a worker that dies after the service took it | the service has the version, or the flag says it has not |
| Sources and quotas | two uploads at the limit; rows and files that outlive each other; repeated messages; folders that move | the plan's limits; a source has its file and the project of its folder; what is ready stays ready |
| Study plans | tasks completed, reopened and deleted under a derived percentage | percentage and status are those of the tasks |
| Subscription | whole-row and partial saves of one row by two administrators, beside an event log | the events tell the plan; a cancelled user is held to the free plan |
| Users | deletion by the owner against login, refresh in several transactions, password change, and an administrator's edit or deletion | an account that its owner deleted has no live token but of a handler that was late; only a whole-row save of what was read before undoes anything |
| Support | whole-row saves against messages of both sides | a final ticket says when |
| Admin console | rights read before the write and taken away in between; permissions handed on in chains | nobody hands on what he has not; a deletion leaves a super admin |
| Projects | a command that reads, then writes row by row in a long transaction, stopped, repeated, and crossed by requests, for owners that come and go | what has a project keeps one; after the command everything of an owner it served has one |

## 2. Modules

| Module | Models | Built on |
|---|---|---|
| `UsageLedger` | ledger, counters, plans, months | |
| `AIJob` | the job services and everything they change in one transaction | extends `UsageLedger` |
| `JobPromise` | abstract: a request is accepted, then delivered or withdrawn, once | |
| `AIDispatch` | outbox, Celery, workers, Beat sweep, remote service | instantiates `AIJob` |
| `AIWebhook` | `AIWebhookEvent` rows and concurrent deliveries for one job | |
| `JobInput` | what a job asks for, when it is posted and when it is sent | |
| `AIResult` | the materializers as functions of output | |
| `Feedback` | one job's feedback and its forwarding | |
| `QuizAttempts` | one student's attempts at one quiz, by overlapping requests | |
| `QuizAuthoring` | one owner's manual quizzes, by overlapping requests | |
| `StudyPlan` | one plan and its tasks, by overlapping requests | |
| `Library` | one student's sources, files and folders, requests and workers | |
| `Projects` | one user's projects, what they scope, and the backfill command | |
| `Subscription` | the plans and one user's subscription, by overlapping administrators | |
| `Account` | one account, its codes and tokens, by overlapping requests | |
| `AdminConsole` | administrators, roles and permissions, by overlapping handlers | |
| `Support` | one ticket, by overlapping handlers | |
| `MCUsageLedger`, `MCAIJob`, `MCAIDispatch`, `MCAIWebhook`, `MCQuizAttempts` | the instances for TLC | the module they are named after |
| `MCStudy` | instances of study plan, library, quiz authoring | all three |
| `MCRequests` | instances of account, console, support, feedback, input, subscription, projects, result | all eight |
| `Sums` | lemmas: induction over finite sets and numbers, sums over sets and along sequences | |
| `AIJobProofs` | theorems | `UsageLedger`, `AIJob`, `JobPromise` |
| `AIDispatchProofs` | theorems | `AIDispatch`, `AIJobProofs` |
| `AIWebhookProofs`, `QuizAttemptsProofs` | theorems | the module they are named after |
| `StudyProofs` | theorems | `QuizAuthoring`, `Library`, `StudyPlan`, `Sums` |
| `AccountProofs` | theorems | `Account`, `AdminConsole`, `Subscription`, `Projects`, `Sums` |
| `CorrespondenceProofs` | theorems | `Support`, `Feedback`, `JobInput`, `AIResult`, `Sums` |

**What is one step.** A service function that locks the row it changes and runs
in one transaction is one action, with everything it calls: `complete_job` is
`CompleteJob`, which materializes, books the commit, sets both flags, writes the
result and sends the notification. A handler whose steps are transactions of
their own, or that decides on a row fetched without a lock, is several actions,
and what it read is kept in its state (`task` and `answer` of a worker, the
`sweep`'s reading of its candidates, `request` of a quiz handler, `handler` of a
webhook delivery, `editor`, `worker`, `caller`, `asked`, `clerk`, `planClerk`,
`owner` elsewhere). Much of this code fetches a row in the view, changes the
object and calls `save()`: unless `update_fields` is given that writes every
column as it was fetched, and when the row is gone it inserts it again. The
models do the same, and their history variables (`trusted`, `exceeded`,
`revived`, `parted`, `overtaken`, `crossed`, `reinserted`, `late`, `handed`, `told`,
`shared`, `contested`) say where the code leaves overlapping requests to luck; a property
speaks of the rest.

**UsageLedger.** `reserved`, `committed` and `refunded` give the month in which
the ledger entry of a key was booked; one entry per key and operation is the
unique constraint of `UsageLedgerEntry`. `used` and `usedBy` are the counters of
each month's `SubscriptionUsage`. `Reserve`, `Commit`, `Refund` and `Rebuild`
are the four services, `ChangePlan`, `LoseEntitlement` and `NextMonth` the world
they run in. Its `Next` has the protocol callers keep to (only a reserved
request is settled, and not in both ways); `AIJob` is shown to keep to it.

**AIJob.** A job is its idempotency key, since (user, key) is unique; `status`,
`external`, the two credit flags, `materialized` and `notices` are its row, what
its materializer created and the notifications. The ledger's variables and
actions are those of `UsageLedger`. Two refinements are checked and proved:
`LedgerProtocol` (the jobs implement `UsageLedger!Spec`) and `KeepsPromise` (they
implement `JobPromise`, with the charge read off the ledger and the result off
the materialized rows rather than off the job's own flags).

**AIDispatch.** `external` is refined to the remote job it names. A Celery worker
goes `Claim`, `Submit`, `Record`, `Mark` or `SubmitFailed`, and may `Crash`
before any of them, upon which its message is delivered again (`acks_late`,
`reject_on_worker_lost`). A call may not arrive, arrive and not be answered, or
be refused for good. `SweepStart` reads the candidates with their attempt
counts, `SweepResend`, `SweepFail` and `SweepMark` act on them later. `due` and
`stale` are the two comparisons with the clock. The constant `Refusals` is why a
result may not be materialized: for what it says (or because a refresh brings no
`output.result`), or while the job has no subject, which `SubjectChanges` takes
and gives. Telling such a result changes nothing, so `ReportOutcome` needs one that
the job takes. A message lost by the broker and
a claim that skips a row locked by somebody else are both `LoseMessage`. Reports
(webhook or refresh) find a job by its recorded id. `JobProtocol` states that
all of it drives the jobs only as `AIJob` says.

**AIWebhook.** `event` is the `AIWebhookEvent` row (first payload, processed),
`handler` each delivery under way: `Receive` (`get_or_create`), `Find`, `Apply`
(the job's service call), `Mark`; `Dies` may end it early, and so does `ApplyFails`
when the job refuses the result (`Refused`). That is no fault that passes: the
payload "unusable" is refused at every delivery, and "completed" for as long as the
job lacks the subject it is materialized with (`material`).
Everything else that changes the job is `ChangeElsewhere`. `applied` is a
history variable. It keeps only the job's status: that `Apply` with a status is
what the service functions do to the whole row is `AIJob`'s matter.

**JobInput.** `body` is one request, to the job endpoint or to a source's
use-with-character endpoint. `Build` validates it and builds the input and its
key against the `world` of that moment (members of the folder, sources that
failed or are gone, the subject, recommendations, results), `Insert` finds the
key or inserts (a second identical insertion meets the constraint and returns
the first job), `Change` moves the world, and `Send` builds the input a second
time from what the job recorded. `Rules` is the table of options with bounds and
defaults of the five builders.

**AIResult.** A materializer is a function of a job and an output; `Failed` is
any exception, upon which its transaction leaves nothing. The reference
definitions it is checked against are the checks that the project's own
serializers and `publish_quiz` make of what a person writes.

**Feedback.** `GiveFeedback` writes a version and sends a message;
`TakeLetter`, `SendFeedback`, `MarkForwarded`, `ForwardFails` and
`ForwarderDies` are the task. The service may receive what it then fails to
answer.

**QuizAttempts.** `request[r]` is what a handler fetched and does next: a start's
query result, an attempt with the status it had, or what a submission will save.
`start_quiz_attempt` is `Start`, `Look`, `Create` (its lock covers only rows its
query found); `submit_quiz_attempt` is `Grade` and `Save`. `shared` is a history
variable: the attempts that two requests worked on at once.

**QuizAuthoring.** `home` and `gradable` are the question rows, `count` the stored
`questions_count`, `request[r]` the fetched quiz row that PATCH saves as a whole.
`CountRest` is apart from `DeleteQuestion` because `perform_destroy` runs in
autocommit. `DeleteQuiz` is `QuizViewSet.destroy`: the row goes (`NoQuiz`) with its
questions, and a PATCH that fetched it before inserts it again without them
(`reinserted`). `crossed` says that a publication met another request.

**StudyPlan.** `FetchStatus`, `FetchEdit`, `FetchRemove`, `FetchAdd` and
`FetchPatch` read task and plan; `Count` writes the task and derives percentage
and status (`Progress`, `update_plan_completion`); `Commit` saves the plan row;
`SaveEdit`, `SavePlan` and `DropPlan` are the handlers that do not count.
`CreatePlan` makes a plan with its generated tasks.

**Library.** `Upload` checks the quota while it holds the user row's lock and
writes the file, `SaveUpload` the row and its message (on commit); a request that
dies in between leaves the file. `StartWork` and `Work` are
`process_source_task`, `Derive` the source that a transcription leaves,
`DeleteSource` and `Unlink` a deletion of the row and then of the file. `Placed`
and `ProjectIn` are the serializers' rules for folder and project.

**Projects.** `BeginBackfill`, `BackfillFolders`, `ReadRow`, `WriteRow`,
`CommitBackfill` and `BackfillDies` are the command; what it has written in its
open transaction is apart (`command.wrote`) and locked. `here` says that the owner
is among `User.objects`; one who is not is passed over ("skipped"). `RowRequest` is what the
owner does to folders, sources and jobs, `ProjectRequest` to projects.

**Subscription.** `AskChange` and `SaveChange`, `AskCancel` and `SaveCancel` are
the row as fetched and the save with its event; `AskMemberPatch` and `SaveMemberPatch` are the
administrators' PATCH, `AskTierDestroy` and `DestroyTier` a plan's deletion in
its two ways. `told` replays the events.

**Account.** Every handler is `Call` with the row it `Read`, then its write:
`SaveProfile` and `SaveManaged` write the row, `SavePassword`, `DeleteMe` and
`SetActive` some columns. `Leave` and `DeleteMe` are the owner's deletion, which
revokes the tokens; `DeleteUser` is an administrator's, of the console or the Django
admin, which revokes none. Codes are `IssueCode`, `Guess`, `WrongGuess`,
`RightGuess`, `Expire`, `Cool`; tokens `GiveToken`, `Logout`, and a refresh in simplejwt's three
transactions: `Refresh` (the check), `Rotate` (the blacklist) and `GiveToken` (the
new token's record). `resigned` says that the account is deleted by its owner,
`late` which handlers have been at work since before. `tries`
counts the wrong guesses that were answered, beside the count that the row keeps.

**AdminConsole.** `Ask*` is what a handler reads (authentication, permission,
target, validation), the write is a second step. `Rights`, `MayGive` and
`MayTouch` are the permission rules; `PermissionMap` is `permission_map`.

**Support.** `AddMessage`, `Close`, `AnswerTicket`, `AddNote` and `PatchTicket`,
each on the ticket that `FetchTicket` read.

## 3. Runs

| Run | Question | Instance |
|---|---|---|
| `ledger` | do counters, ledger and plan limits agree? | 4 requests, 2 characters, 2 plans, 2 months |
| `ledger_plan_limit` | *violation*: does a late refund break the plan's limit? | one plan of one request |
| `jobs` | do job, flags, ledger, result and notices agree; are settled jobs final; do the jobs implement ledger and promise? | 3 requests, 2 plans, 2 months |
| `repeat_failed` | *violation*: can a failed request be made again? | same |
| `dispatch` | is an accepted job safe from workers, sweep, retries and faults? | 1 job, 2 workers that may outlive their lock, 2 attempts, 1 retry, a service without deduplication, 1 fault |
| `dispatch_live` | does it leave the queue and get its outcome? one caller at a time? | as above, with workers inside their lock, a service that deduplicates, results that are refused for good or for want of a subject |
| `dispatch_give_up` | *violation*: does the sweep only fail unsent jobs? | same |
| `webhook` | is each event applied once, and in the end? | 2 events, 2 deliveries at a time, every status, results that are refused, 1 worker that dies |
| `attempts` | do overlapping requests keep attempts sound? | 2 requests at a time, 3 attempts, 1 question |
| `attempts_settled_twice` | *violation*: is a settled attempt final? | 2 requests, 2 attempts |
| `study` | is stored progress true, do quotas, files and projects of sources hold, is what is published gradable and immutable? | 2 handlers at a time; 2 tasks, or 2 sources and a folder, or 2 quizzes and 2 questions |
| `requests` | the properties of account, console, ticket, feedback, input, result, subscription and projects | 2 handlers at a time (1 beside the backfill); see below |

**One run, several components.** The components of `study` share no variable
with each other, nor do those of `requests`. A behaviour of these runs therefore
explores one of them, its `focus`, and leaves the others as they start: the
states are the sum of the components' and not the product, and nothing is lost,
since no property and no action reads two of them. Larger components are split
into two foci by what is explored together: sources with workers and sizes, or
sources with folders; an account's codes, or its passwords and tokens; the rows
of projects, or the projects themselves.

**Bounds, and why they suffice.** *Ledger and jobs*: two months are what a late
refund needs; the paid plan allows two requests, one to `fahes`, so four keys
meet the general and the character limit with one request more than each, and
`sada` meets a limit that is not set and a feature that the free plan lacks.
*Dispatch*: jobs share nothing but the user's credit, so one job meets every
interleaving of its own messages, workers and sweep; two workers are what an
overlap needs, two attempts what the sweep's maximum needs (one resend, one
give-up), and one fault loses any one message, worker or sweep at any point.
`MaxCalls = 2` lets the service make a second job of a repeated call.
The dispatch and its outcome are explored with `Refusals` in `dispatch_live` only:
no safety property of the other two runs tells a result that is not taken from an
answer that has not come.
*Webhook*: two deliveries at a time are what a race needs, two events what
reports that overtake each other need, and all eight kinds of report are there.
*Attempts*: two requests at a time and three attempts meet two active attempts
of which one is replaced. Answers are explored in the first attempt only (the
constraint `FirstIsAnswered` of `MCQuizAttempts`): no action reads an answer but
to grade the attempt it belongs to, so the others' answers decide nothing.
`Start` stops at the bound of attempts, counting those under way.
*Study*: two tasks on one day are what a taken place and a percentage other than
0 and 100 need; `TaskWishes` and `PlanWishes` are the statuses that the rules
tell apart. The quotas of `LibraryQuotas` admit one small source, or two sources
of which not both may be recordings; folders are explored with one source, until a
folder moves away from it (`parted`).
Quizzes are followed until a publication overlaps with another request, after
which the properties say nothing, or until both of them are back after a deletion
(`MaxReinserted`); one that came back and is published anew is explored beside one
that never left.
*Requests*: two codes, two passwords, two tokens and two attempts
(`OTP_MAX_ATTEMPTS` is 5 in the code) are what a superseded code and a lost
count need. Three administrators with two system roles and one custom role, three
requests in all (`MaxServed`): enough for permissions handed on twice, and for
two deletions that cross. Three versions and one retry of a feedback. Every
request body with no options, and every option at the values around its bounds
(`SomeBodies`); a folder of up to three sources under a limit of two; one change
of the world between the request and the dispatch (`MaxDrift`), of every kind.
Every AI output of one question or two days at and around the bounds
(`SomeCases`), with the bounds scaled down (2 questions, 3 choices, 3 tasks, 1 to
2 minutes for 100, 8, 500, and 15 to 720). Two projects, one folder, source, job
and artifact, one request at a time beside the command, followed until it meets
the command and then until the command's step ends.
Deadlock is not checked where the system may stop: when a job is settled, an
event processed, a bound of requests reached.

**Symmetry** is used over workers (`dispatch`), requests and questions
(`attempts`, `attempts_settled_twice`, and in `study`, where the same values
stand for questions, tasks and sources, and over quizzes), posts and tokens (`requests`), never in
a run with liveness.

**Type invariants** are proved for every module that has one. The runs are kept
for what could go wrong.

**Fairness.** `dispatch_live` assumes weak fairness of each worker's steps, the
sweep, the two clock comparisons, and the remote service ending its jobs and
repeating its outcome until it is taken (an outcome that is refused need never be): docker-compose restarts workers and
Beat, `CELERY_BEAT_SCHEDULE` runs `reconcile_stuck_ai_jobs` for ever, time
passes, and refreshes poll what webhooks miss. Nothing obliges a student to
create, cancel or refresh, or give a job a subject, and faults are bounded. `webhook` assumes weak fairness of a
delivery's steps and strong fairness of redelivery, because the views answer a
delivery with an error status until the event is processed and the service
delivers again. Nothing bounds the results that are refused: `EventIsProcessed`
leaves out the events whose result the job refuses, until it is settled otherwise.

**What the violations show** (each is a finding of `PROJECT.json`).
- `ledger_plan_limit`: `refund_character_request` lowers the current month's
  counter for a reservation of an earlier month, which makes room for one more
  request than the plan allows. The properties of `ledger` say "unless late" for
  that reason alone, and hold in every other case.
- `repeat_failed`: after a failure the student is told to try again, and the same
  request meets the old row's idempotency key, although credit is left.
- `dispatch_give_up`: the sweep fails and refunds a job that the service has
  taken, if the last worker died between recording the id and marking the row.
- `attempts_settled_twice`: an abandonment or a submission that fetched the
  attempt earlier settles it again, and hides or replaces its result.

**Noticed without a run of its own.** What reading and modelling the code showed
besides. The three points that quote the code's own words are steps of the models
and exceptions of their properties; of the others no document promises otherwise.

- *Jobs.* A job canceled before it is sent has a row marked DISPATCHED.
  `create_job` sends no Idempotency-Key. A job canceled while it is being
  submitted stays with the service, whose id for it is not recorded. After a late
  refund the counters of both months may differ from the ledger's replay.
- *Refused results.* A result that `materialize_job` rejects is rolled back with its
  job's completion and refused again at every delivery; a refresh of a completed job
  without `output.result` does nothing. No step fails such a job: it stays
  submitted, with its credit reserved, until the student cancels it.
- *Input.* A source derived from a transcription has no file: a job about it is
  accepted and then refused at every dispatch, as is advice about an empty folder.
  A text cleared in the payload falls back to the parameters at dispatch; one that
  is too long there was not looked at before, and the accepted job is then refused.
- *Results.* `khota` asks the service for the input's dates and daily minutes, but
  `materialize_khota` (materializers.py:144-146) reads only the parameters'; a
  plan asked for in the payload is cut to 60 minutes a day. The daily limit counts
  each entry of `plan_days`, so a date named twice may exceed it. An end before the
  start meets a database constraint, not a validation. A blank cleaned transcript
  leaves no derived source though the transcript has text.
- *Attempts and authoring.* Two starts at once may leave two active attempts
  (`ActiveAttemptsBounded` says how many there may be). An answer may be written
  after its attempt was graded, when two requests share the attempt. An edit of a
  question or a PATCH that fetched the draft changes the published quiz. A PATCH
  that fetched a quiz before its DELETE ("Delete a quiz and its related attempts",
  quizzes/views.py:165) inserts it again (quizzes/services.py:117), published if it
  was, and without a question. An archived quiz can be published, although the
  endpoint speaks of drafts.
- *Study plans.* Two completions at once leave percentage and status behind, until
  the next count. A stale save inserts a deleted task or plan again.
- *Library.* PROCESSING is never committed by itself, so the checks of it at the
  process endpoint never fire. A folder that moves to another project leaves its
  sources, and a PATCH of such a source without a project is then refused. Files
  outlive a request that dies.
- *Projects.* The backfill reads, then saves, row by row: a project that the owner
  sets in between is written over. Two projects of the default title stop it for
  all later users, as does a row deleted under it. PATCH with `project: null`
  reopens the gap it closed. The command counts everyone's gaps but serves only
  `User.objects` (line 110): the rows of a deleted owner stay without a project,
  though "no source, collection, AI job, or generated artifact is left without a
  project" (lines 3-4) and the run ends as complete.
- *Subscription.* PATCH of the row saves what it fetched, without an event, over a
  concurrent change or cancellation. A change to "trialing" keeps the old end of the
  trial. A plan whose only subscription is soft-deleted cannot be deleted. A missing
  free plan resets all default plans.
- *Account.* Two wrong guesses at once count as one (users/services.py:57), and a
  slow one sets the count back of a code that was given up meanwhile. A
  deletion "revokes every outstanding refresh token so no existing session survives"
  (users/services.py:85-86), but a refresh that read the user before it records its
  new token afterwards, which works again if the account is restored and activated.
  An administrator's deletion revokes none: restored, the account has its old
  sessions. An administrator's or the owner's stale edit brings a deleted account
  back.
- *Console.* In a deletion the actor is another super admin, so the count of the
  others never decides, and it does not help when two delete each other;
  assignments, PATCH and suspension may leave none. PATCH of `is_staff` has no
  effect. An update of a role is not limited to the actor's own permissions.
- *Feedback, support.* The forwarded flag is never reset, so an edit after it is
  never forwarded. A staff answer reopens a closed ticket with `resolved_at` set.

## 4. Proofs

All theorems are about the unbounded models: any finite set of requests, any
catalogue of plans, any number of jobs, workers, months, attempts, questions,
sources and handlers at a time. They rest on the named assumptions about the
constants that each module declares (`KeysAssumption`, `PlanAssumption`,
`MonthAssumption`, `JobsAssumption` (the three before, where the dispatch uses
the jobs), `RefusalAssumption`, `RetryAssumption`, `BoundAssumption`, `QuizAssumption`,
`RequestAssumption`, `AttemptAssumption`, `WebhookAssumption`,
`AuthoringAssumption`, `LibraryAssumption`, `StudyPlanAssumption`,
`AccountAssumption`, `AdminAssumption`, `SubscriptionAssumption`,
`FeedbackAssumption`, `JobInputAssumption`, `ProjectsAssumption`,
`AIResultAssumption`), which TLC evaluates in the runs. They say that sets that
are counted are finite, that bounds are numbers, that placeholders are not
members of the sets they stand beside, and that AI output is made of the fields
and kinds of values that the first checks of it let through.

**Sums.** The library's induction theorems take an operator, which the provers at
hand cannot instantiate. Here induction is a statement about sets: among the
subsets of a finite set for which a claim fails there is a smallest one
(`SmallestSubset`), among the numbers a least one (`LeastNumber`), both from the
well-foundedness of the two orders; a claim is proved by looking at that one.
From it follows that the recursive function behind a fold exists (`SumExists`) and
is one (`SumIsOne`), hence what a sum becomes when a member joins or leaves
(`TotalWith`, `TotalWithout`), and that what is counted at some places of a
sequence sums to no more than is added up along it (`AddedInSteps`).

**AIJobProofs.** *The ledger.* `TypeCorrect` is inductive as it stands. The two ledger
properties are not: a refund decrements a counter with a clamp, so one must know
that the counter *is* the number of charged requests, not only what replaying
would give. `IInv` says so (`Exact`), that only reserved requests are refunded
(`RefundedWasReserved`), and that each counter is within some plan's limit
(`Capped`). `ReplayCountsCharged` shows that without a late refund the replay's
clamp never acts, and lemmas on cardinalities carry one booking. From `IInv`
follow `CountersReplayLedger` and `PlanNeverExceeded`.

*The jobs.* `JInv` is row types, `CreditFollowsStatus` and `OutcomeIsTold`
(the theorems `CreditsFollowStatus` and `OutcomesTold`); no strengthening beyond
it is needed, because a job's status decides its flags, entries, result and
notifications. `StepCases` reduces every step to one of five effects (accept,
advance, withdraw, deliver, or nothing to this job), which each theorem then
uses. `JobsUseLedger` proves that `AIJob` implements `UsageLedger`, so the
ledger's theorems carry over (`JobsStayWithinPlan`) and, with `JInv`, give
`StudentPaysForJobs`. `TerminalStays` is an action property from `JInv`, and
`PromiseKept` the refinement of `JobPromise`: the mapping is made pointwise
first, then each effect is an action of the promise or a stutter. What the promise
comes to, that only a delivered request costs a credit and has a result, is an
invariant of `JobPromise` and so one of the jobs (`PromisedOutcome`).

**AIDispatchProofs.** Several writers set the outbox row without looking at it, so
nothing in the row shows that an accepted job is safe. The invariant `DInv` is
about the writers: a worker that is about to write DISPATCHED knows that its job
has left "queued" (`Busy`), a sweep that is about to mark a row knows that its job
is settled (`Sweeping`), and no job comes back to "queued" (`Moves`). From it
follows `AcceptedJobsStay`. `CallsAreExclusive` holds only while a claim's lock
outlives the call made under it (the constant `SlowWorkers` is false): then a job
that is not settled has one worker at most, and its row says so (`OneClaim`,
`Guarded`). `SettledJobsAreNotSent` and the refinement `DispatchFollowsJobs` rest
on the same facts: each step of the dispatch is a step of `AIJob` or leaves the
jobs alone. The theorems of AIJobProofs are then used in an instance of that
module, shown to be about the same specification (`SameJobs`): dispatched jobs
are charged and told of as their status says (`DispatchedJobsArePaid`), and stay
as they are once settled (`SettledJobsStay`). `DispatchTypeCorrect` adds the types
of what only the dispatch keeps (`DispatchTypes`), writer by writer
(`WhoWrites`).

**AIWebhookProofs.** Why an event cannot change the job twice, without any lock
between the event's row and the job: statuses only move forward (`JobAdvances`,
with `Rank` the order), every report that changed the job left it at least as
far as that report (`AppliedHasReachedJob`), and a report the job is as far as
does not apply again (`RankOrder`). Processed rows need the same fact of reports
that were looked at and left the job alone, which holds of a job that is no
longer queued (`AppliesToKnownJob`: a queued job would ignore "validating", but
no delivery finds it before its id is recorded). `TookFirstPayload` ties a
delivery to its row. From `IInv` follow `AppliedOnce` and `ProcessedReached`.

**QuizAttemptsProofs.** `AttemptsBounded`: never more active attempts than
requests at a time. That bound is not inductive, since a start that found
nothing will add one later. The strengthening `Room` counts them before they
are there: for *every* subset T of the active attempts, |T| plus the number of
requests that will create when only T is left is at most the number of requests.
It speaks of all subsets because other requests settle attempts between a
start's query and its lock. `FoundOlder`, `FoundStarted`, `FetchedStarted` and
`InOrder` say what a start's query has seen. The strengthened invariant was
checked by TLC on larger instances (3 requests, 3 attempts; 2 and 4) before it was
proved. `RInv` is the second invariant: an attempt that is not shared is held by
one request at most (`HeldOnce`), which finds it as it fetched it (`HeldTrue`) and
will save the result of its answers (`SavesCounts`). From it follow
`ResultsAreOfAnswers` and `SettledAttemptsStay`; `SettledIsNotReopened` holds of
shared attempts too, and `WhatIsSettledStays` is the two together.

**StudyProofs.** *Quizzes* (`QInv`): a publication that overlaps with no other
request finds the quiz as it fetched it (`PublishesAlone`), and a quiz that is
published, or that a PATCH will write back as published, is sound and out of the
reach of everyone who read a draft (`FixedAreSound`). The second case is needed
because a quiz may be archived while a PATCH holds the published row. A quiz that
is deleted has no questions, and what comes back of it by a stale PATCH is left out
until it is published, and so checked, again (`reinserted`).
*Sources* (`LInv`): what a handler holds still fits what it finds when it writes
(`WorkersFit`, `PatchesAgree`): the row of a PATCH is of the kind it replaces, a
file that is unlinked belongs to no row but a revived one, and what is about to
join a folder has the folder's project. *Quotas* (`QuotaInv`): an upload or a new
folder is checked and then written, under the lock of the user's row. At most one
handler is between the two (`OneAdds`), and the room it saw is still there when it
writes, or the quota was exceeded meanwhile by what takes no lock, such as a
smaller plan or a row that comes back (`RoomKept`); every other handler makes
counts and sums no larger, or says so. *Study plans* (`PlanInv`): a handler that
met no other one since it fetched the plan has it to itself, still finds plan and
task as it fetched them, and has counted the tasks that it will write
(`EditorsRead`). `PercentIsBounded` is the rounding: at most the whole.

**AccountProofs.** *Account* (`AInv`): a handler that will save a whole row holds
one it read while the account was live (`Callers`), so no save leaves a deleted
account with what a live one had. For the tokens one must know who may still record
one: after the owner's deletion, only handlers that were at work at that moment
(`late`), because every new login or refresh finds no user (`LockedOut`). `OnlyStaleEditsUndo` shows of every other step
that it brings neither the name nor an old password back.
*Codes* (`GInv`): a wrong guess writes what it read plus one, and if no other one
at the same code is under way (`OneWrong`), what it read is still what the row
says (`Guessers`); so `GuessesStayCounted`.
*Console* (`CInv`): a handler that is about to hand on roles was checked against
rights that had been handed out, and `handed` only grows, so later losses of
those rights change nothing. `DeletionsLeaveSuperAdmin` needs (`EInv`) that a
deletion was asked for when another super admin, if there was any, would remain.
The types (`TInv`) need that every role somebody holds is there (`HeldRolesLive`):
a role that is deleted is taken from everyone in the same step.
*Subscription* (`PInv`): the rows that handlers will put back are rows, and a
subscription once made keeps one, so every save is of a plan that its event
names. *Projects* (`BackfillInv`): what the command has behind it (`Passed`) has a
project as its own transaction sees it (`PassedIsScoped`), if the owner was served, since what is inherited
and the default are projects; when it commits, that view becomes everybody's.
The types (`ScopingInv`) add what PATCH fetched and puts back (`Fetched`).

**CorrespondenceProofs.** *Support*: a ticket with a final status says when, and so
do all rows that handlers hold, since PATCH puts those back as a whole.
*Feedback*: what a worker has sent was received, and is the row's version unless
the feedback was overtaken. *Input* (`InputInv`): every job was recorded by a
`BuildTaskInput` that accepted the body in the world it names, and everything sent
is a second one of what was recorded (`SentRebuilt`). `RulesAreSound` goes through
the options of the five builders once; from it `RecordedAgain` shows that a value
that was normalized is left alone the second time, but for the texts that
`SentIsRecorded` excepts, and `ValidAgain` that it is accepted, but for
`ClearedForBad`. `OneJobForInput` needs only that the constraint looks at the jobs
as they are. *Results* (`MaterializedStaysUsable`): for quizzes, an index within
the choices marks exactly one of them. For plans, the function `Used` is shown to
satisfy the equation it is written by (`UsedIs`) and to stay within the limit
(`UsedIsWithin`); tasks that are kept have places of their own (`PlacesDiffer`), so
the minutes of an entry's tasks sum to at most what `Used` ends with, and a date
that is named once has no other tasks (`DayIsWithinLimit`).

**Model-checked only.** Liveness (`LeavesQueue`, `AnswerArrives`,
`EventIsProcessed`) and the finding `FailedRequestCanBeRepeated`, which speaks of
ENABLED, are out of the prover's reach. Every other property of a passing run is
stated by a theorem. No module declares a recursive operator.

## 5. Not modelled

- *Request signing*: HMAC, header layout, the clock window and the nonce cache are
  functions of cryptographic data; the models start behind a verified request.
- *The internal read-only endpoints* for the AI service (manifests, subjects), and
  *analytics, summaries, audio*: views over rows that other parts write.
- *Notifications* beyond those a job's end sends (their read marks), *the question
  bank*, *subjects, students, waitlist, settings*: single rows, written
  whole by their one owner.
- *Statistics and logs*: monthly upload counters, the progress log of study plans,
  activity and audit logs. Nothing reads them to decide.
- *The recognition of file formats*, *prices and texts*: data no property tells
  apart. The renaming of a plan's code is left out with them.
- *Contracts, scripts, demo data, tests and generated documentation*: not part of
  the running program. Settings and Celery's configuration appear as assumptions
  (delivery, redelivery, the Beat schedule).
- *Two users at once*, but for administrators: see section 1.

## 6. What is left

1. The renaming of a plan's code beside administrators that hold it.
2. A bound for the wrong guesses that one code takes when several requests make
   them at once: each of them may set the count back, so there are finitely many,
   but more than one per request.
