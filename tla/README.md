# A verification of ai-social-publisher

The program reads news, lets AI providers score them and write post variants,
asks an operator for approval over Telegram, a JSON API or a web console, and
publishes the approved post to Instagram. Several instances may run against
one PostgreSQL database. This directory holds TLA+ models of the way of a news
item from the news service to the published post, of the notifications, and of
the start and stop of the instances; TLC configurations that check them on
small instances; and TLAPS proofs of the safety properties for every size.

Contents: the system, the modules, what is checked, what is proved,
disagreements found, what is not modelled, the plan.

## The system

### Components

| component | state | operations | what makes it correct |
| --- | --- | --- | --- |
| job life cycle (`post/status.go`) | none | `CanTransition`, `IsTerminal` | every status written is one the table allows |
| publishing workflow (`approval/service.go`, `post/post.go`) | `post_jobs`, `post_variants`, `publish_logs` | generate, select, reselect, publish, schedule, reschedule, cancel, skip, claim, recover, repair | published at most once, reported as it is, never stuck |
| AI stages (same files) | status, `ai_retry_count`, `next_ai_retry_at`, `requested_variant_count` | claim, score, generate, park, retry | bounded retries, one verdict, nothing stuck between two statements |
| captions and previews (same files) | `caption`, `image_url` | edit, render, compare-and-set | the artwork shown belongs to the caption shown |
| news intake (`news`) | `news_candidates`, `news_scores` | sync, upsert, create, queue, score | one candidate and one job per item |
| outbox (`outbox`), Telegram client | `notification_outbox` | enqueue, lease, mark sent, mark failed, purge | no lost outcome, no duplicate without a mishap |
| scheduler (`scheduler`) | one goroutine per loop | tick, recover from a panic, stop | loops keep ticking whatever one run does, and end when told |
| accounts (`account`) | `social_accounts` | sync from the configuration | the active accounts are the configured ones |
| configuration (`config`) | none after loading | defaults, validation | what it lets through can start |
| database, migrations (`database`) | the schema, an advisory lock | connect, migrate up and down | one instance migrates at a time |
| process entry (`cmd/server`) | one process | serve, migrate, drain, close | every start and every stop ends |
| JSON API (`http`), web console (`admin`) | sessions, rate-limit tables | handlers that call the service | stale pages change nothing they should not |
| Instagram client | none here | create container, publish, dry run | an error may hide a success, a success may be a dry run |
| AI providers, media, storage | files | pure input and output | see "What is not modelled" |

### Interaction

Processes share nothing but the database. A row of `post_jobs` is the unit of
coordination: a loop lists rows, claims one with a conditional `UPDATE`
(`ClaimStatus`, `ClaimScheduledDue`) and only then performs an external
effect. Operators' requests are read-check-write: the service reads the job,
chooses a repository call from what it saw, and that call checks its own guard
under `SELECT ... FOR UPDATE` or in its `WHERE`. The two guards are not the
same, and most of what can go wrong lives between them. Messages to the
operator are rows of the outbox, written after the state they report.

### What is hard

* A claim, an Instagram call, a log row, a status and a notice are five
  effects without a common transaction; a crash, a lost answer or a failed
  statement may fall between any two.
* Recovery cannot tell a dead worker from a slow one: it fails a publishing
  job, or restarts a generation, whose worker may come back.
* Operators act on pages that are out of date.
* Leases of one minute against a service that may answer later.
* A scorer taken for dead, and the one that scores its job again, both have an
  answer; a rendering of an old caption ends after an edit.
* Instances start at once on an old schema, with configurations that may
  differ, and with a pool of connections one of which the lock keeps.
* Two windows in days, repair's lookback and the outbox's retention, whose
  relation decides whether old notices are sent again.

`PROJECT.json` lists each hazard at its line with the properties that would
catch it.

## The modules

| module | what it is |
| --- | --- |
| `JobStatus` | the states and the transition table |
| `Intake` | from a news item to a job under review: syncs, scoring, generation, retries |
| `Preview` | captions, selections, renderings and the post made of them |
| `AtomicPost` | the abstract promise `Preview` implements |
| `Publishing` | the workflow from `VARIANTS_QUEUED` to the terminal states |
| `PublishOnce` | the abstract promise `Publishing` implements |
| `PublishingInvariant` | the inductive invariant `OwnedOnce` and its parts |
| `Outbox` | the notification outbox with its senders, repair and purge |
| `Delivery` | the abstract promise `Outbox` implements, for one message |
| `Startup` | instances that start, migrate, take over accounts, serve and stop |
| `MCIntake`, `MCPreview`, `MCPublishing`, `MCOutbox`, `MCStartup` | symmetry and constant values for TLC |
| `IntakeProofs`, `PreviewProofs`, `PublishingTypes`, `PublishingProofs`, `PublishingOutcomes`, `PublishingRefines`, `OutboxProofs`, `StartupProofs` | theorems |

The modules are not composed; they meet at the states of a job, and each has
the steps of its neighbours that can reach the rows it keeps.

* `Intake` ends and `Publishing` begins in the stages of generation, and both
  have them: `Intake` has the retries and the notices, `Publishing` the
  variants that are replaced and what a late replacement does to a review.
* `Preview` has the part of a review `Publishing` passes over: the text and the
  artwork of the variants. The publisher and recovery are in both, here with
  what they read and write of a variant, there with everything else.
* `Outbox` sees of a job only that it enters and leaves the state a key is
  about (`Enter`, `Leave`), and the others see of the outbox only that a key
  was enqueued (`notices`). That is also all the packages see of each other.
* `Startup` has the loops of the others as things that tick.

Operators named "A defect" in a module are not part of the specification.
Each is a plausible slip in the code next to it; replacing the definition by
it violates one property (see "mutants" in `PROJECT.json`).

### Publishing

State. `status`, `selected`, `scheduledAt`, `updatedAt` are columns of
`post_jobs`. `edition` counts the times a job's variants were replaced: a
variant is a pair of edition and number, because replaced rows get fresh ids,
so "the id still exists" is "its edition is the current one". `media` is
`instagram_media_id` and `successLog` the id in a `publish_logs` row with
`success = TRUE`: none, the one of a post, or the synthetic one of a dry run.
`notices` are the outcome keys enqueued. `posts` is external: what Instagram
shows. `now` is the clock.

With `publish_enabled: false`, the default (`config.example.yaml:58`),
`PublishImage` returns a synthetic id and posts nothing, and everything else
goes on as if it had posted (`README.md:314-315` of the repository). `live` is
the setting a worker's instance runs with. `PublishEnabled` are the settings
that occur; each tick takes one of them, so that instances may differ and one
may be restarted with the other between two ticks, as in a rehearsal that is
switched to the real account while jobs are under way.

Processes and their program counters follow the code:

| process | code | steps |
| --- | --- | --- |
| generator | `ProcessVariantQueue`, `runVariantGeneration` | `ClaimVariants`, then `ContextMissing`, `GenerationFails` or `ReplaceVariants`, `CompleteAIStage` |
| worker | `ProcessScheduledPublishes`, `PublishApproved`, `PublishJob`, `fail` | `BeginTick`, `ClaimScheduledDue`, `ListApproved`, `NextApproved`, `LoadJob`, `ClaimPublishing`, `LoadVariant`, `PublishImage` or `PublishImageFails`, `LogSuccess`, `MarkPublished` or `MarkFailed`, `Notify`, `EndTick` |
| recoverer | `RecoverStaleJobs` | `ListStale`, `ParkStale`, `ReadLog`, `RecoverMark`, `EndRecovery` |
| operator | `SelectVariantForReview`, `QueuePublish`, `SchedulePublish` | `Begin...` reads and decides, `Commit...` is the statement |
| one-statement requests | `CancelSchedule`, `SkipJob`, `QueueVariants`, `RetryWaitingAI`, `RepairNotifications` | one action each |

One action is one database statement or transaction, or the external call; a
guard that fails is an action too, with the code's error path. Faults:
`Crash`, `CrashGenerator`, `CrashRecovery` drop a process's locals at any
step (a killed process, a panic caught by `Scheduler.safe`, a cancelled
context); `CallFails`, `ReadLogFails`, `RecoverMarkFails` and `Abandon` are
errors of single calls, with exactly the continuation the code has for each.

Abstractions. `Listing` returns any rows up to the limit, whatever the order
by. `Park` may park or fail, since the retry counter is not kept here.
Listing and claim of a variant job are one action: the claim's `WHERE`
repeats what the listing saw. A worker's steps around rendering and uploading
belong to `PublishImageFails` when they fail and are invisible when they
succeed. A missing or inactive account in `PublishJob` is a failed load, the
same early return. An AI error other than "all providers failed" returns
without a write: `CrashGenerator`. A failed call is taken to have done
nothing; a commit whose acknowledgement is lost is not modelled for database
calls, it is for Instagram and Telegram. The notices `variants-ai-failed`,
`variants-ai-exhausted` and `scheduled` are informational and left out.

### Intake

State. `stored` are the rows of `news_candidates`, by item; `status`,
`requested` (is `requested_variant_count` positive?) and `retries` are columns
of the item's job; `score` is its one row of `news_scores`, reduced to whether
it calls for a review; `notices` are outbox keys.

| process | code | steps |
| --- | --- | --- |
| sync | `SyncNews`, one category: the loop, its goroutines, manual syncs | `FetchByCategory`, then for each item `RejectItem` or `StoreItem`, `NoAccount` or `GetOrCreate`, `QueueScoring` |
| scorer | `ProcessScoringQueue`, `scoreJob` | `ClaimQueued`, then `ContextMissing`, `AllProvidersFailed` or `ProviderAnswers`, `SaveScore`, `ApplyScored`, `Decide`, `Announce` |
| generator | `ProcessVariantQueue`, `runVariantGeneration` | the same up to the answer, then `CompleteAIStage`, `Announce`; after a failure `Announce` as well |
| loops | `RetryWaitingAI`, `RecoverStaleJobs` | `List`, then `RetryWaitingAI` or `RecoverStale` row by row |
| repair | `RepairNotifications` | `RepairNotification`, one row |
| operator | `GenerateVariants`, `RegenerateVariants`, `SkipJob`, `CancelJob` | `QueueVariants`, `SkipJob`, one action each |

Every status goes through `Accepts`, the guard of `transition` under the row's
lock, or is a claim that names its source state; a refused transition is
logged and the job dropped, as in the code. `Fault` ends any process between
any two steps: a failed statement drops the job in hand, a death also the rest
of what was listed.

Abstractions. There is no clock: recovery may list any `SCORING` or
`GENERATING_VARIANTS` row at once and a parked job may be retried at once, so
no timeout or backoff protects a slow worker here, and none is needed by the
safety properties. The listing of the queue and the claim are one action, since
the claim repeats the condition. The chain of providers is one step, by what it
returns: some provider's parsed answer, or that all failed. `ReplaceVariants`
is in `Publishing`. The notice that a generation failed for now is sent but not
recorded; the one that retries are exhausted is. Batch limits (20 and 50) never
bite with one item.

### Preview

One job, from its review on. `caption` and `image` are columns of its variants;
an image stands for the caption it was rendered of, which is the only editable
thing it shows. A request of an operator is `EditCaption`
(`UpdateVariantCaption`), `SelectVariant` (`SelectVariantForReview` or
`SelectVariantForJob`) or `Queue` (`QueuePublish`, `SchedulePublish`); the first
two, and the third when it finds no artwork, go through `PreparePreview`:
`LoadVariant`, `Render`, and `SavePreview` or `PreviewOutdated`, which tries
once more and then gives up with a message. `Move` is the transition at the
end. The publisher is `LoadJob`, `ClaimPublishing`, `ReadVariant`,
`RenderFallback`, `PersistFallback`, `PublishImage`, which shows nothing in a dry
run, and `MarkJob`; `RecoverStale` may take it for dead at any point.

`SelectVariant` is one action although the service reads before it writes: what
a stale read can do to the status is in `Publishing`, and here the row is
accepted or refused as its lock finds it. `LeaveSchedule` is both
`CancelSchedule` and the promotion of a due job. Regeneration and skipping end
the story, since replaced variants have new ids. `failed` records that some
request ended with an error an operator sees.

### Startup

`proc` is what an instance is doing: its command, its place in the code, the
schema version goose goes by, the rows its `UPDATE` saw as active, its loops.
`schema`, `category` and `active` are the database, which may be found at any
version; `locker` who has the advisory lock.

`Start` is `config.Load`: defaults, then `Valid`. `Connect` decides between
migrating and not; `AcquireLock` is `migrationLock`, which keeps one connection
of the pool, so that `ReadVersion` and with it goose's statements need another
(`FreeConnection`). `ApplyMigration` and `RollBack` are goose's, one migration
each, with what the migrations do to the accounts (`MigrationUp`,
`MigrationDown`): the first creates `social_accounts` and its Down drops the
table; the second deactivates all but one account of a category and creates
the unique index, its Down drops the index; the others leave the accounts
alone. These statements need the table's exclusive lock, which a transaction of
`SyncFromConfig` keeps them from (`TableFree`); an instance that serves does
not. `Migrated` gives the advisory lock back, on errors too. `SyncFromConfig` is a
transaction at READ COMMITTED: `BeginSync` takes the snapshot of the `UPDATE`,
`Deactivate` waits for the rows another transaction has locked, `CommitSync`
upserts, under the unique index if the schema has it; `SyncFails` rolls back, or
finds no table, as with `auto_migrate: false` on an empty database.
Then the loops run (`Tick`, `JobReturns`), until `Signal`, `LoopEnds` and
`Close`; `Die` is a kill at any point, and also the return of `serve` when the
HTTP server cannot listen. goose and PostgreSQL are external, and modelled by
what the code relies on.

### PublishOnce

A job is open, taken, published, failed or dropped. Taking it is possible
once and grants one permit to show it; the permit is used or forfeited, and
may outlive the job's failure. `Publish` needs the permit to be gone, and reports
the job as posted if it is shown and as a dry run if it is not. The
refinement mapping (`Once`) reads the phase from the status, the permit from
"some worker is between its claim and the end of its Instagram call", and
counts posts, and takes the report from the media id. What the abstraction adds over the invariants is that
progress is one way: a taken job is never open again, a permit is never
granted twice.

### AtomicPost

The review as if rendering took no time: a caption is edited, and its artwork
is gone, until the post is sent off; artwork is drawn of the caption beside it;
a variant is chosen; the post waits for its time and comes back, or is sent off
for good; and what is shown is the chosen caption with its own artwork. The
mapping (`Atomic`, `ImplementsAtomicPost`) takes captions, artwork, selection and
posts from the rows, and reads the stage from the status (`stageOf`); requests,
renderings and the publisher's copies are hidden. Implementing it means that
no interleaving of renderings, saves and the publisher's four reads and writes
can be seen from outside.

### Delivery

The life of one message: written, waiting, sent, given up or purged, with the
number of its tries and how often Telegram took it. Every taking is paid for by
a writing or a mishap (`spare`). A message is settled only after it was taken,
given up only after all its tries or, if it cannot be read, before any of them
(`Refuse`), purged only when sent; a given-up message
may still be settled by a late success, and one about an outcome is never
written again (`WrittenOnce`). `Promise(k)` maps the rows of key `k` to it
(`phaseOf`); `ImplementsDelivery` says it of every key.

### Outbox

A key stands for one job state a notice is about: `Outcomes` for terminal
states, which are repaired within a lookback, and `Reviews` for the two
waiting states, which are repaired without one. `rows` counts how often the
key was written and serves as the row's id, so that an `UPDATE` by id of a
purged row finds nothing (`Found`). Senders claim, send, and mark; each keeps
its own copy of the attempt count, as `Message.Attempts` is. `legible` says
whether a row's payload decodes. One that does not is dead-lettered by the claim
itself, with no attempt counted, and the pass ends (`ClaimUndecodable`). The
payloads this version writes it can read; an undecodable one is left by another
version, and which rows are is chosen when they are written. It is assumed
that instances running together agree about a row.

Two time scales. That a lease or a backoff runs out is an action that may
happen at any moment, also while the sender is merely slow. Lookback and
retention are counted in days by `Day`. `mishaps` is a history variable: the
number of lost answers, crashes after a send, and leases outlived.

`Day` assumes that not every instance is down for a whole lookback, so that
repair, which runs at startup and every five minutes, sees each ended job at
least once. Without the assumption a notice can be lost, as in the code. Of
repair, the listing and the insert are one action: a job that leaves its
waiting state between the two would be asked about once more.

## What is checked

Run `tlc -config X.cfg M` in this directory.

| run | question | bounds | states |
| --- | --- | --- | --- |
| `publishing` | is a job shown at most once, reported as it is, and does the workflow implement `PublishOnce`? | 1 job, 1 choice, 1 generator, 2 workers, 1 recoverer, 1 operator, 2 editions, clock to 2, with and without dry runs | 823,435 |
| `publishing_operators` | does what is posted match what is selected, and is nothing promoted early by a worker? | 2 choices, 2 operators, 1 worker, 1 generator, horizon 2, no dry run | 278,110 |
| `publishing_live` | is every approved, interrupted, due or finished job seen to, and `TypeOK` under overlapping generations? | as `publishing` with 1 worker, 2 generators, horizon 2, no dry run | 92,480 |
| `intake` | one job per item, one verdict, true notices, and does every job leave the AI stages? | 1 item, 2 syncs, 2 scorers, 1 generator, 2 retries, 1 fault | 148,592 |
| `preview` | does the artwork fit the caption, is no preview lost, and does the review implement `AtomicPost`? | 2 variants, 2 captions, 3 requests | 2,084,596 |
| `startup` | does one instance migrate at a time, are the active accounts the configured ones, do starts and stops end? | 2 instances, each with any of 5 files, 3 account tables, any first version of 3 migrations, 1 loop | 116,916 |
| `outbox` | is nothing given up early, doubled without cause or written again, and does every message implement `Delivery`? | 1 outcome, 1 review, 2 senders, 2 attempts, retention 1, lookback 0, 2 rows a key | 2,160,335 |
| `outbox_live` | does a row settle, is every outcome told? | as `outbox` with 1 sender, retention 2, lookback 1 | 297,154 |
| `publishing_early`, `publishing_late_generation`, `intake_stuck`, `outbox_resent` | one disagreement each, see below | small | until the counterexample |

### The properties

`TypeOK` is each module's type invariant. In `Publishing`:

* `AtMostOnePost`: Instagram never shows a job twice, however workers,
  recovery and operators interleave.
* `OwnedOnce`: the inductive invariant, see the proofs.
* `PublishedIsPosted`: a row that says `PUBLISHED`, by the worker or by
  recovery, has the id of a post exactly if the job is on Instagram, and that
  of a dry run exactly if it is not, whichever instances publish for real. (The
  converse does not hold and is not claimed: a job failed by recovery may have
  been posted, which is why the code asks for manual reconciliation; when it
  was, the exact causes below say.) What the other properties say of a post they
  say of the instances that publish for real; a dry run only posts less.
* `NoticeMatchesOutcome`: the operator is never told an outcome the job does
  not have, and never both.
* `PostedIsSelected`: no later choice reaches a job a worker has claimed.
* `ObeysTable`: every write of a status is a move of the table from the
  status the row has at that moment, whatever the writer had read.
* `PromotedWhenDue`: a worker's promotion obeys the time in the row, not the
  time it listed.
* `ImplementsPublishOnce`: the refinement.
* `ApprovedIsTaken`, `PublishingIsResolved`, `DueIsPromoted`,
  `OutcomeIsNotified`: liveness.

In `Intake`:

* `OneCreator`: of syncs that meet a new item, in any category and any
  instance, one goes on with it, and nobody has created its job before.
* `OneVerdict`: a scorer that was taken for dead and the one that scored the
  job again do not both decide, and a decision made is not reopened.
* `NothingOrphaned`: as long as nothing has failed, a job in a state only a
  process can end is in the hands of one, although several may have been at
  it. It says which steps the recovery loop is really needed for.
* `NoticesMeanIt`: a review is asked for scored news only, variants are offered
  when they were requested, "retries exhausted" is the end, and a job at the
  limit has failed: the counter shared by two stages, two loops and three
  resets never lets one slip past.
* `ReviewAnnounced`, `AIStagesEnd`: liveness, with providers that may never
  answer.

In `Preview`:

* `ArtworkMatches`: the artwork beside a caption was rendered of it, whatever
  overlaps.
* `ImplementsAtomicPost`: the refinement. Text and image of the post belong
  together and are the last accepted edit of the selected variant
  (`PostedMatches`, one of its consequences), even though the publisher's
  fallback stores its artwork without the compare-and-set; and no step draws
  artwork of another caption or edits a post that was sent off.
* `PreviewPending`: a job ready to publish without artwork has a request at
  work on it, or an operator has seen an error. No order of edits, selections
  and renderings loses the preview silently.

In `Startup`:

* `OneMigrator`: whoever runs goose holds the lock alone, and the version it
  read is still that of the database.
* `InService`: instances of one configuration serve exactly its accounts,
  however their transactions overlap, whatever an earlier deployment left and
  whoever migrates up or down meanwhile. The exception is a roll back of the
  first migration, which drops the table under instances that serve; it lasts
  until one starts again. From the schema of the index on there are never two
  active accounts of a category, whatever the configurations. With different
  accounts in two files the active set may be a mixture, and below that schema
  it may have two of a category: nothing is claimed of either.
* `StartsUp`: with two connections in every pool every start ends, in service
  or with an error. The condition is needed: with `max_open_conns: 1`, which
  validation accepts, goose waits for the connection the lock holds.
* `StopsWhenTold`: a signalled instance ends its loops and closes.

In `Outbox`:

* `ImplementsDelivery`: the refinement. A row is marked sent only if Telegram
  took its message (`SentIsDelivered`, one of its consequences), what is sent
  stays sent until it is purged, and nothing else is ever purged.
* `DeadIsExhausted`: a message that decodes is dead-lettered only after all
  attempts, although the count compared is the sender's own copy and leases can
  be outlived; one that does not has had none.
* `DuplicatesAreMishaps`: beyond one delivery a row, each has a lost answer, a
  crash or an outlived lease of its own. Claiming alone makes no duplicate.
* `OutcomeWrittenOnce`: purge and repair together never write the notice of a
  terminal state twice.
* `RowIsSettled`, `OutcomeIsTold`: liveness. No row stays to be sent for ever,
  also not one left leased by a sender that died after Telegram took the message.

### Why the bounds are enough

Jobs meet only inside a worker's batch, where the loop treats them one after
another; every property is about one job, and the proofs cover any number.
Two workers, two generators and two operators give every race of two of a
kind, each in the run whose properties it can break; one of each kind, and of the
second kind of worker, one in a dry run, meet in `publishing`. Two editions are
enough for a review to be generated anew, and, with two generators, for an
overlapping generation to overwrite a reviewed one: `publishing_live` checks
`TypeOK` under that race, the other safety properties are left to the proofs. The clock has to pass the stale timeout (1)
and a schedule within the horizon: 2 allows both.
With one job the batch limit never cuts a listing short; starvation by a full
batch is in the plan.
In `Outbox`, two attempts separate the first, a middle and the last one, two
rows a key allow one rewrite after a purge, and `MaxMishaps` 1 lets counters
saturate only past every value `DuplicatesAreMishaps` compares. The senders
are interchangeable and declared so in the safety runs only.

In `Intake` items meet only in the list of a sync, and every property is about
one; two syncs and two scorers give each race of two of a kind, and recovery
with retry brings a job back to a second scorer while the first still has it. A
limit of 2 separates a retry granted from the one refused. One fault is enough
for every property here, since each is about one thing left undone.
In `Preview` three requests are needed: two that render while a third edits
between their reads and saves. Two captions allow an edit back to the first
text, which the compare-and-set cannot tell from no edit.
In `Startup` the files are chosen to differ in what matters: defaults, a
category moved to another account, a pool of one, an idle limit its default
makes invalid, two accounts of one category. Of the repository's five migrations the
first two change the accounts and the rest do not; three stand for them.

Deadlock is checked except in `preview`, where a published job with no request
in flight is the end of the story, and in `startup`, where two instances with
invalid files never start.

### Fairness

* Each loop is a goroutine on a ticker, `Scheduler.run`, and survives panics:
  weak fairness of each worker, recoverer, sender and of the repair of each
  key or job. Operators and generators owe nothing.
* In `Intake` likewise: weak fairness of each sync once it has news, of each
  worker, of both loops and of the repair of each item. The news service,
  operators and faults owe nothing.
* In `Startup`: calls return; strong fairness of `AcquireLock`, since PostgreSQL
  grants a lock in the order it was asked for, and of `LoopEnds`, since Go's
  `select` does not prefer one ready case for ever. That a running job returns
  is assumed: the code gives each its context and no deadline of its own.
* Time passes: weak fairness of `Tick`; leases and backoffs run out.
* `<>[][Work]_vars`: faults happen any number of times but not for ever.
  Without it nothing could be promised, since an instance may be killed at
  the same step each time.
* Instagram and Telegram owe nothing: they may fail every call. `SendFails`
  and `PublishImageFails` are work, not faults, so that every promise holds
  with services that never succeed.

`PublishingIsResolved` asks only for publishing rows whose timeout still fits
under `MaxTime`, because the model's clock stops and the real one does not.
`ApprovedIsTaken` excepts a job whose selection an overlapping generation erased,
which is the second finding.

## What is proved

The proof modules are checked by `tlapm M.tla`. Constants are arbitrary under
the assumptions `PublishingAssumption` (timeout, horizon and batch are at
least one, some setting of `publish_enabled` occurs, `NULL` is not a value) and `OutboxAssumption` (the lookback is
shorter than the retention, at least one attempt, the two kinds of keys are
disjoint), `IntakeAssumption` (at least one retry, scorers are not
generators), `PreviewAssumption` (`NULL` is no value) and `StartupAssumption`
(numbers are numbers, accounts have codes and categories, there are the two
migrations of the accounts). Nothing is assumed finite.

| theorem | says |
| --- | --- |
| `PublishingTypes!TypeCorrect` | `Spec => []TypeOK` |
| `PublishingProofs!TableObeyed` | `Spec => ObeysTable` |
| `PublishingProofs!PostedOnce` | `Spec => []AtMostOnePost` |
| `PublishingProofs!ReportedIsPosted` | `Spec => []PublishedIsPosted` |
| `PublishingOutcomes!NoticesAreTrue` | `Spec => []NoticeMatchesOutcome` |
| `PublishingOutcomes!ShownIsChosen` | `Spec => []PostedIsSelected` |
| `PublishingOutcomes!OwnedByOne` | `Spec => []OwnedOnce` |
| `PublishingOutcomes!PromotionIsDue` | `Spec => PromotedWhenDue` |
| `PublishingOutcomes!ScheduledHasTime` | `Spec => []TimeSet` |
| `PublishingOutcomes!EarlyIsOvertaken` | only an overtaken publish request approves a scheduled job early |
| `PublishingOutcomes!OnTimeUnlessOvertaken` | `Spec /\ []NoneOvertaken => NeverEarly` |
| `PublishingOutcomes!SelectionHeldUnlessLate` | `Spec /\ []NoneReplacesLate => []SelectionHeld` |
| `PublishingOutcomes!FailedIsClearUnlessUncertain` | `Spec /\ [](ErrorIsTrue /\ GivenUpClear /\ NoneOutlives) => []FailedIsClear` |
| `PublishingRefines!Refinement` | `Spec => ImplementsPublishOnce` |
| `OutboxProofs!OutboxTypes` | `Spec => []TypeOK` |
| `OutboxProofs!NoneGivenUpEarly` | `Spec => []DeadIsExhausted` |
| `OutboxProofs!MarkedIsDelivered` | `Spec => []SentIsDelivered` |
| `OutboxProofs!NeverRewritten` | `Spec => []OutcomeWrittenOnce` |
| `OutboxProofs!DuplicatesHaveCauses` | `Spec => []DuplicatesAreMishaps` |
| `OutboxProofs!OutboxImplements` | `Spec => ImplementsDelivery` |
| `OutboxProofs!PurgedStaysGoneIfDecided` | `Spec /\ []DecidedInTime => []PurgedStaysGone` |
| `IntakeProofs!IntakeTypeOK` | `Spec => []TypeOK` |
| `IntakeProofs!IntakeOneCreator` | `Spec => []OneCreator` |
| `IntakeProofs!IntakeOneVerdict` | `Spec => []OneVerdict` |
| `IntakeProofs!IntakeNothingOrphaned` | `Spec => []NothingOrphaned` |
| `IntakeProofs!IntakeNoticesMeanIt` | `Spec => []NoticesMeanIt` |
| `IntakeProofs!IntakeObeysTable` | `Spec => [][ObeysTable]_vars` |
| `IntakeProofs!NotScoredAgainUnlessListedBefore` | `Spec /\ []NoneListedBefore => []NotScoredAgain` |
| `IntakeProofs!ReviewEligibleUnlessOverwritten` | `Spec /\ []NoneOverwrites => []ReviewIsEligible` |
| `PreviewProofs!PreviewTypeOK` | `Spec => []TypeOK` |
| `PreviewProofs!PreviewArtworkMatches` | `Spec => []ArtworkMatches` |
| `PreviewProofs!PreviewPostedMatches` | `Spec => []PostedMatches` |
| `PreviewProofs!PreviewIsPending` | `Spec => []PreviewPending` |
| `PreviewProofs!PreviewImplements` | `Spec => ImplementsAtomicPost` |
| `StartupProofs!StartupTypeOK` | `Spec => []TypeOK` |
| `StartupProofs!StartupOneMigrator` | `Spec => []OneMigrator` |
| `StartupProofs!StartupInService` | `Spec => []InService` |
| `StartupProofs!MigrationsInOrder` | `Spec => [][OneMigrationAtATime]_vars` |
| `StartupProofs!OneConnectionNeverMigrates` | `Spec => [][OneConnectionBlocks]_vars` |

### The argument: publishing

"At most one post" is not inductive: nothing in a state with one post says
that no worker is about to make another. `OwnedOnce` adds what the code
relies on without saying so.

1. `NoWayBack`: no statement leads out of `PUBLISHING`, `PUBLISHED`, `FAILED`
   back to a claimable state. It follows from the table alone, through
   `TableObeyed`.
2. `Ownership`: a worker between its claim and its outcome has a job in one of
   those three states, and no two workers have the same job. A new claim needs
   `APPROVED`, hence a job without an owner.
3. `OwnersPosts`: an owner that has still to publish finds nothing posted, logged
   or reported; one past publishing has the id that says what its call did
   (`TrueID`). It needs 2, since another owner could publish, and `JobsPosts`,
   since an `APPROVED` job has neither a post nor a success in the log, and a
   logged or stored id is the true one.
4. `LogsRead`: a recoverer that read a success remembers the id that is still in
   the log, since log rows are never deleted. With 3 this makes recovery's
   `PUBLISHED` right, for posts and for dry runs.
5. `NoticesDue`: a worker about to send a notice has the terminal state in the
   row, and terminal states are final.
6. `ChoiceHeld`: from the listing on, a worker's job is out of reach of every
   statement that changes a selection except `ReplaceVariants`, which can only
   erase it.

The steps of a kind of process are summarised once (`Quiet` for all that leave
workers and posts alone, `Works` for a worker), and each part is proved from
the summaries. `Refinement` maps each step to a step of `PublishOnce` or a
stutter, with `NoWayBack` for the phases and `Ownership` for the permit.

### The argument: the other modules

In `OutboxProofs`, `DeadIsExhausted` needs that what a sender has in hand does
not exceed the row's count and decodes, as long as the row is the one it claimed
(`InHand`), and that a row that does not decode was never tried (`Untried`);
`SentIsDelivered` that a sender about to mark has delivered;
`OutcomeWrittenOnce` that the age of a sent row of an ended job never exceeds
the age of the job, so that by the time the row may be purged the job is past
the lookback. The assumption `Lookback < Retention` is used exactly there.
`DuplicatesAreMishaps` is a balance: deliveries, plus senders that may yet
deliver or have failed without, plus one if the row may be claimed again
without a mishap, are no more than rows written plus mishaps (`Balanced`). A
claim moves the one from the row to the sender, a failure gives it back, and
everything that would create one out of nothing is counted as a mishap. A row
counts as held by a sender only if the sender has the id of the present row:
one that returns to a purged and rewritten row holds nothing.

In `IntakeProofs` the properties are proved together with what syncs and
workers have in hand. `OneCreator` needs that a job exists for stored
candidates only (`Creators`); `OneVerdict` that `SCORED` is entered through
`ApplyScored` alone, which only `SCORING` allows; `NothingOrphaned` is made
inductive by naming the kind of process (`Held`), since a generator in `ask`
does not end a `SCORING` job; `NoticesMeanIt` needs that a score is saved
before the job is `SCORED` (`HasScore`), and that the retry loop, whose listing
may be old, sends to generation only what was asked for variants (`Targets`,
`WasAsked`).

In `PreviewProofs`, `PostedMatches` needs that from its load on the publisher's
variant is the selected one and from its claim on the caption stands
(`AtWork`), because no edit is accepted past `READY_TO_PUBLISH` and no
selection past `SCHEDULED`.
`PreviewPending` is not inductive: that a request is rendering does not say
that it renders the present caption. `Working` asks for a request that has
still to read the caption or has read the present one; an edit of the selected
variant starts one, and a request that finds its caption outdated either reads
again or was overtaken by an edit that left another at work.

In `StartupProofs`, the lock is held by exactly those between `AcquireLock` and
`Migrated` (`LockHeld`). `InService` needs `Covered`: with one configuration,
a transaction under way either has every active row in its snapshot or finds
the configured set in place already, so the order of commits does not matter.
Migrations that touch the accounts wait for such transactions; for the instances
that serve it takes `InPlace`: what they were left with has one account per
category, because validation asks it of the file (`Checked`), so that creating
the index again deactivates none of it.

`MigrationsInOrder` is `OneMigrator` put to use: the version goose goes by is
the database's, so each write moves the schema by one.
`OneConnectionNeverMigrates` is the other side of `StartsUp`: an instance with
one connection that reaches `ReadVersion` leaves it only by dying, and holds the
lock till then.

### The refinements

`OutboxImplements` shows for one key what each step looks like from outside
(`Seen`): a step of the module is a step of `Delivery` or a stutter, told by
what happened to the key's row. A claim is a try, a send a taking, and a mark
that finds its row (`Found`) settles or gives up. Four proved invariants
supply what the abstract guards ask for: `Reports` that a sender about to mark
has been heard, `InHand` that its own count is not beyond the row's, `Untried`
that a refused message has had no try, and
`DuplicatesAreMishaps` that there was something to spare; `OutcomeWrittenOnce`
is what makes a purged outcome final.

`PreviewImplements` needs that the publisher's copies are what the rows say when
they are used: at the save of the fallback and at the post, `AtWork` turns a
write of a copy into a write of the present caption. The compare-and-set of
`SavePreview` does the same for requests, with no invariant at all.

### The exact causes

Four promises are broken by the code, two more are made only between the
lines, and a seventh is one the code knows it cannot make. For each, a theorem says that what the run or the trace
shows is the only way it happens: without that one interleaving the promise
holds, for every number of processes and with all the faults of the module.
Each premise is about states, so it also says what a fix has to prevent.

| promise | broken only by | theorem |
| --- | --- | --- |
| a scheduled job waits for its time (`NeverEarly`) | a publish request that read the job before it was scheduled (`NoneOvertaken` fails) | `EarlyIsOvertaken`, `OnTimeUnlessOvertaken` |
| a reviewed choice stands (`SelectionHeld`) | a generator at its `ReplaceVariants` while the job, completed by another one, is reviewed (`NoneReplacesLate`) | `SelectionHeldUnlessLate` |
| no job is stuck without an owner (`CrashesLeaveNothingStuck`) | a crash or a failed call: without faults somebody has the job in hand | `IntakeNothingOrphaned` |
| a purged notice stays gone (`PurgedStaysGone`) | a review undecided when its sent row is purged (`DecidedInTime`) | `PurgedStaysGoneIfDecided` |
| a job with variants requested is not scored again (`NotScoredAgain`, `service.go:772-773`) | a retry listed before the request and granted after it (`NoneListedBefore`) | `NotScoredAgainUnlessListedBefore` |
| a review shows a score that calls for one (`ReviewIsEligible`) | a scorer taken for dead that overwrites the score (`NoneOverwrites`) | `ReviewEligibleUnlessOverwritten` |
| a failed job is not on Instagram and will not be (`FailedIsClear`) | an error that hides a post (`ErrorIsTrue` fails), a publish given up that was live or done (`GivenUpClear`), a generator that outlives its job's review (`NoneOutlives`) | `FailedIsClearUnlessUncertain` |

No premise can be left out: four promises are refuted by the runs below, the
next two by traces of about 18 states without any fault, and the last by one of
16, 18 or 20 states when its first, second or third premise is dropped.
`RecoverStaleJobs` fails a stale publish "for manual reconciliation" because its
result is uncertain (`service.go:794-796`); the theorem says when that, or any
other `FAILED`, is not to be believed. Its invariant adds to "nothing is shown"
that no worker still holds the job, since recovery may fail a job whose worker is
only slow (`ClearWhenFailed`): the success log recovery reads cannot tell a
publish that never reached Instagram from one that did or still will.

`NotScoredAgain` rests on one lemma about the whole module
(`Moved`, which also gives `IntakeObeysTable`): what a step does to the status
of a job, and by whose hand. By the table the only way back from a requested
job to scoring is from `WAITING_AI`; a sync cannot take it, since its job is
still `NEW` (`Untouched`), which leaves the retry loop and its listing.
`ReviewIsEligible` needs that a scorer about to decide holds the answer that is
in the row (`DecidesBySaved`).

### What is only model-checked

The liveness properties, which the proof system does not reach. Every invariant,
every step property and every refinement of a passing run is a theorem.

## Disagreements found

Each is a run that is expected to end in a violation.

1. `publishing_early`: `QueuePublish` reads `READY_TO_PUBLISH`, another
   operator schedules the job, and `UpdateStatus(APPROVED)` then approves it
   from `SCHEDULED`; it is published at once. `service.go:543-546` says that
   scheduling defers and the worker promotes "once the time arrives". The
   window is long when a preview has to be rendered in between.
2. `publishing_late_generation`: a generator has replaced the variants when it is
   taken for dead; the job is parked, retried and claimed by a second one. The
   late `CompleteAIStage` of the first finds the job in `GENERATING_VARIANTS`
   again and puts it up for review; an operator selects a variant; and the
   `ReplaceVariants` of the second, which is in time and has no status guard,
   erases the selection. `service.go:793-794` says "AI stages are safely
   retried".
3. `intake_stuck`: a job is created `NEW` and queued in two transactions, and
   `SCORED` is left by a third one. A crash in between leaves the job in a
   state no loop lists, and a later sync takes the item for a duplicate.
   `service.go:793-794` says that `RecoverStaleJobs` "prevents crashes from
   leaving work permanently stuck".
4. `outbox_resent`: requests for a review are repaired without a lookback, so
   one that waits longer than the retention is sent again, which
   `outbox.go:120-122` says callers must prevent.

Two more were met and are not runs.

* `RetryWaitingAI` decides by the variant count it listed and claims by the
  status alone. A job that an operator sends to generation and that is parked
  again while the loop is busy with the rest of an older listing goes back to
  scoring, where `service.go:772-773` says that such jobs "retry generation".
  See the exact causes above.
* Selecting a variant of a `SCHEDULED` job puts it back to `READY_TO_PUBLISH` and
  keeps its time, while `post.go:38-39` says the field is nil for unscheduled
  jobs. Nothing acts on the time of a job that is not `SCHEDULED`; the scheduled
  ones all have it (`ScheduledHasTime`).

## What is not modelled

* `ai`: prompts, the processes and requests of the providers, and the parsing of
  their answers. Providers are tried in order and share nothing, so only the
  result of the chain reaches another process.
* `media`, `storage`: drawing and files. `Cleanup` removes files by age and may
  take the artwork of a post scheduled close to the horizon; that hazard is
  listed without a property, since it is a relation of two configured numbers.
* `http`, `admin`: routing, authentication, sessions, CSRF tokens, pages,
  filters and formats. Their job handlers are the operators of the modules. The
  two rate limiters are a map behind one mutex: every operation is atomic.
* Listings by order and limit. A batch may be filled by jobs that fail before
  their claim every time (inactive account, selection gone); `Publishing`
  lists any rows up to the limit, which is right for safety and leaves
  starvation unsaid.
* `config`: checks of a file that decide only whether the process starts;
  flags and the `.env` file.
* Migrations up or down under the other modules: `Startup` has what they do to
  the accounts, and the others run at the latest schema. A roll back below it
  while instances serve makes their statements fail.
* goose and PostgreSQL, beyond what the code relies on: an advisory lock, row
  locks, a unique index, one transaction per migration.
* A database call that commits and reports an error. A failed call is taken to
  have done nothing; the services it matters for, Instagram and Telegram, are
  modelled with lost answers.

## Plan

Done: `JobStatus`, `Publishing`, `PublishOnce`, `Outbox`, `Delivery`, `Intake`,
`Preview`, `AtomicPost`, `Startup`, their runs, and proofs of all their safety
properties and refinements. What is left,
in this order:

1. A batch run of `Publishing` with two jobs and `BatchLimit` 1 under the order
   the listings really use, for starvation by jobs that fail before their
   claim.
2. A composition of `Preview` with `Publishing`, so that `PostedMatches` and
   `PostedIsSelected` speak of the same post when an overlapping generation replaces
   the variants.
3. The provider chain and the parsing of model output as functions, against a
   reference definition.
4. Media cleanup against the scheduling horizon.
