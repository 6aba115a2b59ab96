----------------------------- MODULE Publishing -----------------------------
(***************************************************************************)
(* Publishing a reviewed post at most once.                                *)
(*                                                                         *)
(* Several application instances share one database.  Each instance runs a *)
(* variant-work loop (a generator), a publish-approved loop (a worker) and *)
(* a stale-job-recovery loop (a recoverer); operators act through the web  *)
(* console, the JSON API and Telegram.  Each step below is one database    *)
(* call or the one external call; between two steps of a process every     *)
(* other process may run, and a process may die and lose its locals.       *)
(***************************************************************************)
EXTENDS JobStatus, Naturals, Sequences, FiniteSets

CONSTANTS
    Jobs,           \* rows of post_jobs
    Choices,        \* variant numbers: how many variants a generation offers
    Generators,     \* variant-work loops, one per instance
    Workers,        \* publish-approved loops, one per instance
    PublishEnabled, \* the values instances have for instagram.publish_enabled
    Recoverers,     \* stale-job-recovery loops, one per instance
    Operators,      \* requests in flight from operators
    StaleTimeout,   \* scheduler.stale_job_timeout_minutes, in ticks
    Horizon,        \* maxScheduleHorizon, in ticks
    BatchLimit,     \* how many rows one listing returns
    MaxTime,        \* bound: the clock stops here
    MaxEdition,     \* bound: how often a job's variants are replaced
    NULL            \* SQL NULL, and an unset local

ASSUME PublishingAssumption ==
    /\ PublishEnabled \subseteq BOOLEAN
    /\ PublishEnabled # {}
    /\ StaleTimeout \in Nat \ {0}
    /\ Horizon \in Nat \ {0}
    /\ BatchLimit \in Nat \ {0}
    /\ MaxTime \in Nat
    /\ MaxEdition \in Nat
    /\ NULL \notin Jobs \cup Nat \cup (Nat \X Choices)

\* A row of post_variants: the generation that inserted it, and its number.
\* Replaced variants get fresh ids, so an old id never names a new variant.
Variants == Nat \X Choices

VARIABLES
    status, selected, scheduledAt, updatedAt,   \* post_jobs
    edition,        \* post_variants: the generation a job's variants are of
    media,          \* post_jobs.instagram_media_id
    successLog,     \* the media id in a job's publish_logs row with success
    notices,        \* outbox keys enqueued about a job's outcome
    posts,          \* external: what Instagram shows for a job, in order
    now,            \* the wall clock
    gpc, gjob,                                  \* locals of a generator
    pc, live, pass, asOf, todo, job, variant,   \* locals of a worker
    rpc, rtodo, rjob, found,                    \* locals of a recoverer
    opc, ojob, ochoice, otime                   \* locals of an operator's request

rowVars       == <<status, selected, scheduledAt, updatedAt, edition, media>>
effectVars    == <<successLog, notices, posts>>
generatorVars == <<gpc, gjob>>
workerVars    == <<pc, live, pass, asOf, todo, job, variant>>
recovererVars == <<rpc, rtodo, rjob, found>>
operatorVars  == <<opc, ojob, ochoice, otime>>
vars == <<rowVars, effectVars, now, generatorVars, workerVars, recovererVars,
          operatorVars>>

\* No media id, the synthetic id of a dry run, or the id of a post.
MediaIDs    == {"none", "dryrun", "post"}
GeneratorPC == {"idle", "replace", "complete"}
WorkerPC    == {"idle", "next", "load", "claim", "prepare", "publish", "log",
                "mark", "fail", "notePublished", "noteFailed"}
RecovererPC == {"idle", "next", "mark"}
Stalling    == {"GENERATING_VARIANTS", "PUBLISHING"}
OperatorPC  == {"idle", "select", "reselect", "publish", "schedule",
                "reschedule"}

RowsOK ==
    /\ status \in [Jobs -> Status]
    /\ selected \in [Jobs -> Variants \cup {NULL}]
    /\ scheduledAt \in [Jobs -> Nat \cup {NULL}]
    /\ updatedAt \in [Jobs -> Nat]
    /\ edition \in [Jobs -> Nat]
    /\ media \in [Jobs -> MediaIDs]

EffectsOK ==
    /\ successLog \in [Jobs -> MediaIDs]
    /\ notices \in [Jobs -> SUBSET {"published", "job-failed"}]
    /\ posts \in [Jobs -> Seq(Variants)]

\* A process that has something in hand has the locals to go with it.
GeneratorsOK ==
    /\ gpc \in [Generators -> GeneratorPC]
    /\ gjob \in [Generators -> Jobs \cup {NULL}]
    /\ \A g \in Generators : gpc[g] # "idle" => gjob[g] \in Jobs

WorkersOK ==
    /\ pc \in [Workers -> WorkerPC]
    /\ live \in [Workers -> BOOLEAN]
    /\ pass \in [Workers -> {"scheduled", "approved"}]
    /\ asOf \in [Workers -> Nat]
    /\ todo \in [Workers -> SUBSET Jobs]
    /\ job \in [Workers -> Jobs \cup {NULL}]
    /\ variant \in [Workers -> Variants \cup {NULL}]
    /\ \A w \in Workers :
          /\ pc[w] \notin {"idle", "next"} => job[w] \in Jobs
          /\ pc[w] \in {"claim", "prepare", "publish"} => variant[w] \in Variants

RecoverersOK ==
    /\ rpc \in [Recoverers -> RecovererPC]
    /\ rtodo \in [Recoverers -> SUBSET (Jobs \X Stalling)]
    /\ rjob \in [Recoverers -> Jobs \cup {NULL}]
    /\ found \in [Recoverers -> MediaIDs]
    /\ \A r \in Recoverers : rpc[r] = "mark" => rjob[r] \in Jobs

OperatorsOK ==
    /\ opc \in [Operators -> OperatorPC]
    /\ ojob \in [Operators -> Jobs \cup {NULL}]
    /\ ochoice \in [Operators -> Variants \cup {NULL}]
    /\ otime \in [Operators -> Nat \cup {NULL}]
    /\ \A o \in Operators :
          /\ opc[o] # "idle" => ojob[o] \in Jobs
          /\ opc[o] \in {"select", "reselect"} => ochoice[o] \in Variants
          /\ opc[o] \in {"schedule", "reschedule"} => otime[o] \in Nat

TypeOK ==
    /\ RowsOK
    /\ EffectsOK
    /\ now \in Nat
    /\ GeneratorsOK
    /\ WorkersOK
    /\ RecoverersOK
    /\ OperatorsOK

\* Every job passed the first approval: its variants are to be generated.
Init ==
    /\ status = [j \in Jobs |-> "VARIANTS_QUEUED"]
    /\ selected = [j \in Jobs |-> NULL]
    /\ scheduledAt = [j \in Jobs |-> NULL]
    /\ updatedAt = [j \in Jobs |-> 0]
    /\ edition = [j \in Jobs |-> 0]
    /\ media = [j \in Jobs |-> "none"]
    /\ successLog = [j \in Jobs |-> "none"]
    /\ notices = [j \in Jobs |-> {}]
    /\ posts = [j \in Jobs |-> <<>>]
    /\ now = 0
    /\ gpc = [g \in Generators |-> "idle"]
    /\ gjob = [g \in Generators |-> NULL]
    /\ pc = [w \in Workers |-> "idle"]
    /\ live = [w \in Workers |-> FALSE]
    /\ pass = [w \in Workers |-> "scheduled"]
    /\ asOf = [w \in Workers |-> 0]
    /\ todo = [w \in Workers |-> {}]
    /\ job = [w \in Workers |-> NULL]
    /\ variant = [w \in Workers |-> NULL]
    /\ rpc = [r \in Recoverers |-> "idle"]
    /\ rtodo = [r \in Recoverers |-> {}]
    /\ rjob = [r \in Recoverers |-> NULL]
    /\ found = [r \in Recoverers |-> "none"]
    /\ opc = [o \in Operators |-> "idle"]
    /\ ojob = [o \in Operators |-> NULL]
    /\ ochoice = [o \in Operators |-> NULL]
    /\ otime = [o \in Operators |-> NULL]

-----------------------------------------------------------------------------
(* The repository.  Each operator is one statement or one transaction.     *)

\* UPDATE post_jobs SET status = to, updated_at = now().
SetStatus(j, to) ==
    /\ status' = [status EXCEPT ![j] = to]
    /\ updatedAt' = [updatedAt EXCEPT ![j] = now]

\* A defect: the status read before is trusted and the row is overwritten.
TransitionBlind(j, to) == SetStatus(j, to)

\* transition(): the row is read again under its lock, and a move the table
\* does not allow is refused.
Transition(j, to) ==
    \/ CanTransition(status[j], to) /\ SetStatus(j, to)
    \/ ~CanTransition(status[j], to) /\ UNCHANGED <<status, updatedAt>>

\* MarkPublished, which stores the media id with the state, and MarkFailed.
Record(j, outcome, id) ==
    /\ Transition(j, outcome)
    /\ media' = [media EXCEPT ![j] =
          IF outcome = "PUBLISHED" /\ CanTransition(status[j], outcome) THEN id ELSE @]

\* ParkForAIRetry: back to waiting, or FAILED when the retries are used up.
Park(j) ==
    \/ /\ CanTransition(status[j], "WAITING_AI")
       /\ \E to \in {"WAITING_AI", "FAILED"} : SetStatus(j, to)
    \/ /\ ~CanTransition(status[j], "WAITING_AI")
       /\ UNCHANGED <<status, updatedAt>>

\* A defect: the last row of a listing is dropped.
ListingShort(S) == {T \in SUBSET S : Cardinality(T) + 1 = Cardinality(S)}

\* SELECT ... LIMIT n.  Which rows come first depends on their timestamps;
\* every choice is allowed here.
Listing(S) ==
    {T \in SUBSET S : \/ T = S /\ Cardinality(S) <= BatchLimit
                      \/ Cardinality(T) = BatchLimit}

IsDue(j, t) ==
    /\ status[j] = "SCHEDULED"
    /\ scheduledAt[j] # NULL
    /\ scheduledAt[j] <= t

\* A defect: jobs left while publishing are not looked for.
StaleGenerations ==
    {p \in Jobs \X {"GENERATING_VARIANTS"} : /\ status[p[1]] = p[2]
                                           /\ updatedAt[p[1]] + StaleTimeout < now}

\* ListStaleProcessing: a row, and the status it was listed with.
StaleJobs ==
    {p \in Jobs \X Stalling : /\ status[p[1]] = p[2]
                             /\ updatedAt[p[1]] + StaleTimeout < now}

\* What a step of each kind of process leaves alone besides the rows; only
\* workers and recovery write a media id.
ByGenerator == UNCHANGED <<media, effectVars, now, workerVars, recovererVars, operatorVars>>
ByWorker    == UNCHANGED <<edition, now, generatorVars, recovererVars, operatorVars>>
ByRecoverer == UNCHANGED <<effectVars, now, generatorVars, workerVars, operatorVars>>
ByOperator  == UNCHANGED <<media, effectVars, now, generatorVars, workerVars, recovererVars>>

-----------------------------------------------------------------------------
(* The variant-work loop: claim, generate, replace, hand over for review.  *)

ClaimVariants(g) ==
    /\ gpc[g] = "idle"
    /\ \E j \in Jobs :
          /\ status[j] = "VARIANTS_QUEUED"
          /\ SetStatus(j, "GENERATING_VARIANTS")
          /\ gjob' = [gjob EXCEPT ![g] = j]
    /\ gpc' = [gpc EXCEPT ![g] = "replace"]
    /\ UNCHANGED <<selected, scheduledAt, edition>>
    /\ ByGenerator

GeneratorIdle(g) ==
    /\ gpc' = [gpc EXCEPT ![g] = "idle"]
    /\ gjob' = [gjob EXCEPT ![g] = NULL]

\* The candidate or the account of the job cannot be loaded.
ContextMissing(g) ==
    /\ gpc[g] = "replace"
    /\ Transition(gjob[g], "FAILED")
    /\ GeneratorIdle(g)
    /\ UNCHANGED <<selected, scheduledAt, edition>>
    /\ ByGenerator

\* All AI providers failed.
GenerationFails(g) ==
    /\ gpc[g] = "replace"
    /\ Park(gjob[g])
    /\ GeneratorIdle(g)
    /\ UNCHANGED <<selected, scheduledAt, edition>>
    /\ ByGenerator

\* ReplaceVariants does not look at the status of the job.
ReplaceVariants(g) ==
    /\ gpc[g] = "replace"
    /\ edition[gjob[g]] < MaxEdition
    /\ edition' = [edition EXCEPT ![gjob[g]] = @ + 1]
    /\ selected' = [selected EXCEPT ![gjob[g]] = NULL]
    /\ gpc' = [gpc EXCEPT ![g] = "complete"]
    /\ UNCHANGED <<status, scheduledAt, updatedAt, gjob>>
    /\ ByGenerator

CompleteAIStage(g) ==
    /\ gpc[g] = "complete"
    /\ Transition(gjob[g], "WAITING_VARIANT_APPROVAL")
    /\ GeneratorIdle(g)
    /\ UNCHANGED <<selected, scheduledAt, edition>>
    /\ ByGenerator

CrashGenerator(g) ==
    /\ gpc[g] # "idle"
    /\ GeneratorIdle(g)
    /\ UNCHANGED rowVars
    /\ ByGenerator

GeneratorStep(g) ==
    \/ ClaimVariants(g) \/ ContextMissing(g) \/ GenerationFails(g)
    \/ ReplaceVariants(g) \/ CompleteAIStage(g)

-----------------------------------------------------------------------------
(* The publish-approved loop: ProcessScheduledPublishes, then              *)
(* PublishApproved, each calling PublishJob for the jobs it listed.        *)

Goto(w, label) == pc' = [pc EXCEPT ![w] = label]

\* A tick: the clock is read once and the due jobs are listed.  An instance may
\* have been started anew since its last one, with publish_enabled changed.
BeginTick(w) ==
    /\ pc[w] = "idle"
    /\ asOf' = [asOf EXCEPT ![w] = now]
    /\ \E T \in Listing({j \in Jobs : IsDue(j, now)}) :
          todo' = [todo EXCEPT ![w] = T]
    /\ \E enabled \in PublishEnabled : live' = [live EXCEPT ![w] = enabled]
    /\ pass' = [pass EXCEPT ![w] = "scheduled"]
    /\ Goto(w, "next")
    /\ UNCHANGED <<rowVars, effectVars, job, variant>>
    /\ ByWorker

\* A defect: the row listed as due is promoted without looking at its time.
ClaimableDueUnchecked(w, j) == status[j] = "SCHEDULED"

\* A defect: the time must have passed, not just come.
ClaimableDueStrict(w, j) == IsDue(j, asOf[w]) /\ scheduledAt[j] < asOf[w]

\* The guard of ClaimScheduledDue's UPDATE, against the time of the tick.
ClaimableDue(w, j) == IsDue(j, asOf[w])

\* The next due job: promoted to APPROVED and published, or passed over when
\* another worker or an operator was faster.
ClaimScheduledDue(w) ==
    /\ pc[w] = "next"
    /\ pass[w] = "scheduled"
    /\ \E j \in todo[w] :
          /\ todo' = [todo EXCEPT ![w] = @ \ {j}]
          /\ \/ /\ ClaimableDue(w, j)
                /\ SetStatus(j, "APPROVED")
                /\ job' = [job EXCEPT ![w] = j]
                /\ Goto(w, "load")
             \/ /\ ~ClaimableDue(w, j)
                /\ UNCHANGED <<status, updatedAt, job, pc>>
    /\ UNCHANGED <<selected, scheduledAt, media, effectVars, live, pass, asOf, variant>>
    /\ ByWorker

ListApproved(w) ==
    /\ pc[w] = "next"
    /\ pass[w] = "scheduled"
    /\ todo[w] = {}
    /\ \E T \in Listing({j \in Jobs : status[j] = "APPROVED"}) :
          todo' = [todo EXCEPT ![w] = T]
    /\ pass' = [pass EXCEPT ![w] = "approved"]
    /\ UNCHANGED <<rowVars, effectVars, pc, live, asOf, job, variant>>
    /\ ByWorker

NextApproved(w) ==
    /\ pc[w] = "next"
    /\ pass[w] = "approved"
    /\ \E j \in todo[w] :
          /\ todo' = [todo EXCEPT ![w] = @ \ {j}]
          /\ job' = [job EXCEPT ![w] = j]
    /\ Goto(w, "load")
    /\ UNCHANGED <<rowVars, effectVars, live, pass, asOf, variant>>
    /\ ByWorker

\* The end of a tick, or of the process: the locals are gone.
WorkerIdle(w) ==
    /\ Goto(w, "idle")
    /\ live' = [live EXCEPT ![w] = FALSE]
    /\ pass' = [pass EXCEPT ![w] = "scheduled"]
    /\ asOf' = [asOf EXCEPT ![w] = 0]
    /\ todo' = [todo EXCEPT ![w] = {}]
    /\ job' = [job EXCEPT ![w] = NULL]
    /\ variant' = [variant EXCEPT ![w] = NULL]
    /\ UNCHANGED <<rowVars, effectVars>>
    /\ ByWorker

EndTick(w) ==
    /\ pc[w] = "next"
    /\ pass[w] = "approved"
    /\ todo[w] = {}
    /\ WorkerIdle(w)

\* Back to the batch, whatever became of the job in hand.
JobDone(w) ==
    /\ Goto(w, "next")
    /\ job' = [job EXCEPT ![w] = NULL]
    /\ variant' = [variant EXCEPT ![w] = NULL]

\* A defect: a job without a selected variant is claimed all the same.
LoadJobUnchecked(w) ==
    /\ pc[w] = "load"
    /\ variant' = [variant EXCEPT ![w] = selected[job[w]]]
    /\ Goto(w, "claim")
    /\ UNCHANGED <<rowVars, effectVars, live, pass, asOf, todo, job>>
    /\ ByWorker

\* PublishJob reads the job and its selected variant before it claims.
LoadJob(w) ==
    /\ pc[w] = "load"
    /\ \/ /\ selected[job[w]] # NULL
          /\ variant' = [variant EXCEPT ![w] = selected[job[w]]]
          /\ Goto(w, "claim")
          /\ UNCHANGED job
       \/ /\ selected[job[w]] = NULL
          /\ JobDone(w)
    /\ UNCHANGED <<rowVars, effectVars, live, pass, asOf, todo>>
    /\ ByWorker

\* A defect: the claim accepts a job another worker is already publishing.
ClaimableReplayed(j) == status[j] \in {"APPROVED", "PUBLISHING"}

\* The guard of ClaimStatus's UPDATE.
Claimable(j) == status[j] = "APPROVED"

ClaimPublishing(w) ==
    /\ pc[w] = "claim"
    /\ \/ /\ Claimable(job[w])
          /\ SetStatus(job[w], "PUBLISHING")
          /\ Goto(w, "prepare")
          /\ UNCHANGED <<job, variant>>
       \/ /\ ~Claimable(job[w])
          /\ JobDone(w)
          /\ UNCHANGED <<status, updatedAt>>
    /\ UNCHANGED <<selected, scheduledAt, media, effectVars, live, pass, asOf, todo>>
    /\ ByWorker

\* GetVariantByID finds the variant only while its generation lasts.
LoadVariant(w) ==
    /\ pc[w] = "prepare"
    /\ Goto(w, IF variant[w][1] = edition[job[w]] THEN "publish" ELSE "fail")
    /\ UNCHANGED <<rowVars, effectVars, live, pass, asOf, todo, job, variant>>
    /\ ByWorker

\* Instagram shows the worker's variant of its job.
Posted(w) == live[w] /\ posts' = [posts EXCEPT ![job[w]] = Append(@, variant[w])]

\* The media id PublishImage returns: Instagram's, or a synthetic one.
MediaID(w) == IF live[w] THEN "post" ELSE "dryrun"

\* A dry run succeeds and shows nothing.
PublishImage(w) ==
    /\ pc[w] = "publish"
    /\ Posted(w) \/ (~live[w] /\ UNCHANGED posts)
    /\ Goto(w, "log")
    /\ UNCHANGED <<rowVars, successLog, notices, live, pass, asOf, todo, job, variant>>
    /\ ByWorker

\* A defect: the error of the Graph API is not looked at.
PublishImageFailsIgnored(w) ==
    /\ pc[w] = "publish"
    /\ Posted(w) \/ UNCHANGED posts
    /\ Goto(w, "log")
    /\ UNCHANGED <<rowVars, successLog, notices, live, pass, asOf, todo, job, variant>>
    /\ ByWorker

\* Rendering or storing the artwork fails, in a dry run too, or the Graph API
\* answers with an error, and then the post may exist all the same.
PublishImageFails(w) ==
    /\ pc[w] = "publish"
    /\ Posted(w) \/ UNCHANGED posts
    /\ Goto(w, "fail")
    /\ UNCHANGED <<rowVars, successLog, notices, live, pass, asOf, todo, job, variant>>
    /\ ByWorker

LogSuccess(w) ==
    /\ pc[w] = "log"
    /\ successLog' = [successLog EXCEPT ![job[w]] = MediaID(w)]
    /\ Goto(w, "mark")
    /\ UNCHANGED <<rowVars, notices, posts, live, pass, asOf, todo, job, variant>>
    /\ ByWorker

\* MarkPublished and fail(): on to the notice, or back to the batch when the
\* job has moved away meanwhile.
MarkOutcome(w, from, outcome, label) ==
    /\ pc[w] = from
    /\ Record(job[w], outcome, MediaID(w))
    /\ \/ /\ CanTransition(status[job[w]], outcome)
          /\ Goto(w, label)
          /\ UNCHANGED <<job, variant>>
       \/ /\ ~CanTransition(status[job[w]], outcome)
          /\ JobDone(w)
    /\ UNCHANGED <<selected, scheduledAt, effectVars, live, pass, asOf, todo>>
    /\ ByWorker

\* A defect: success is announced whatever the row says by then.
MarkPublishedHasty(w) ==
    /\ pc[w] = "mark"
    /\ Goto(w, "notePublished")
    /\ Record(job[w], "PUBLISHED", MediaID(w))
    /\ UNCHANGED <<selected, scheduledAt, effectVars, live, pass, asOf, todo, job, variant>>
    /\ ByWorker

MarkPublished(w) == MarkOutcome(w, "mark", "PUBLISHED", "notePublished")

MarkFailed(w) == MarkOutcome(w, "fail", "FAILED", "noteFailed")

Notify(w) ==
    /\ pc[w] \in {"notePublished", "noteFailed"}
    /\ notices' = [notices EXCEPT ![job[w]] = @ \cup
           {IF pc[w] = "notePublished" THEN "published" ELSE "job-failed"}]
    /\ JobDone(w)
    /\ UNCHANGED <<rowVars, successLog, posts, live, pass, asOf, todo>>
    /\ ByWorker

\* A database call returns an error and did nothing.  A failed log insert is
\* only reported in the process log; every other error ends the work on the
\* job, and after the claim it is left in PUBLISHING.
CallFails(w) ==
    /\ \/ /\ pc[w] = "next"
          /\ pass[w] = "scheduled"
          /\ \E j \in todo[w] : todo' = [todo EXCEPT ![w] = @ \ {j}]
          /\ UNCHANGED <<pc, job, variant>>
       \/ /\ pc[w] \in {"load", "claim", "mark", "fail", "notePublished",
                        "noteFailed"}
          /\ JobDone(w)
          /\ UNCHANGED todo
       \/ /\ pc[w] \in {"prepare", "log"}
          /\ Goto(w, IF pc[w] = "prepare" THEN "fail" ELSE "mark")
          /\ UNCHANGED <<todo, job, variant>>
    /\ UNCHANGED <<rowVars, effectVars, live, pass, asOf>>
    /\ ByWorker

\* The process dies, the loop's recover catches a panic, or shutdown cancels
\* the context: what the worker had in hand is lost.
Crash(w) == pc[w] # "idle" /\ WorkerIdle(w)

WorkerStep(w) ==
    \/ BeginTick(w) \/ ClaimScheduledDue(w) \/ ListApproved(w)
    \/ NextApproved(w) \/ EndTick(w) \/ LoadJob(w) \/ ClaimPublishing(w)
    \/ LoadVariant(w) \/ PublishImage(w) \/ PublishImageFails(w)
    \/ LogSuccess(w) \/ MarkPublished(w) \/ MarkFailed(w) \/ Notify(w)

-----------------------------------------------------------------------------
(* The stale-job-recovery loop.                                            *)

ListStale(r) ==
    /\ rpc[r] = "idle"
    /\ \E T \in Listing(StaleJobs) \ {{}} : rtodo' = [rtodo EXCEPT ![r] = T]
    /\ rpc' = [rpc EXCEPT ![r] = "next"]
    /\ UNCHANGED <<rowVars, rjob, found>>
    /\ ByRecoverer

\* A job listed while generating is parked for a retry.
ParkStale(r) ==
    /\ rpc[r] = "next"
    /\ \E j \in Jobs :
          /\ <<j, "GENERATING_VARIANTS">> \in rtodo[r]
          /\ rtodo' = [rtodo EXCEPT ![r] = @ \ {<<j, "GENERATING_VARIANTS">>}]
          /\ Park(j)
    /\ UNCHANGED <<selected, scheduledAt, edition, media, rpc, rjob, found>>
    /\ ByRecoverer

\* For a job listed while publishing, SuccessfulPublishMediaID is asked first;
\* it works, or it returns an error.
AskLog(r, works) ==
    /\ rpc[r] = "next"
    /\ \E j \in Jobs :
          /\ <<j, "PUBLISHING">> \in rtodo[r]
          /\ rtodo' = [rtodo EXCEPT ![r] = @ \ {<<j, "PUBLISHING">>}]
          /\ rjob' = [rjob EXCEPT ![r] = j]
          /\ found' = [found EXCEPT ![r] = IF works THEN successLog[j] ELSE "none"]
    /\ rpc' = [rpc EXCEPT ![r] = "mark"]
    /\ UNCHANGED rowVars
    /\ ByRecoverer

ReadLog(r) == AskLog(r, TRUE)

\* A failed read counts as "no success recorded".
ReadLogFails(r) == AskLog(r, FALSE)

\* A defect: an interrupted publish is taken for a completed one.
RecoveredToAssumed(r) == "PUBLISHED"

RecoveredTo(r) == IF found[r] # "none" THEN "PUBLISHED" ELSE "FAILED"

RecovererDone(r) ==
    /\ rpc' = [rpc EXCEPT ![r] = "next"]
    /\ rjob' = [rjob EXCEPT ![r] = NULL]
    /\ found' = [found EXCEPT ![r] = "none"]
    /\ UNCHANGED rtodo

RecoverMark(r) ==
    /\ rpc[r] = "mark"
    /\ Record(rjob[r], RecoveredTo(r), found[r])
    /\ RecovererDone(r)
    /\ UNCHANGED <<selected, scheduledAt, edition>>
    /\ ByRecoverer

RecoverMarkFails(r) ==
    /\ rpc[r] = "mark"
    /\ RecovererDone(r)
    /\ UNCHANGED rowVars
    /\ ByRecoverer

RecovererIdle(r) ==
    /\ rpc' = [rpc EXCEPT ![r] = "idle"]
    /\ rtodo' = [rtodo EXCEPT ![r] = {}]
    /\ rjob' = [rjob EXCEPT ![r] = NULL]
    /\ found' = [found EXCEPT ![r] = "none"]
    /\ UNCHANGED rowVars
    /\ ByRecoverer

EndRecovery(r) == rpc[r] = "next" /\ rtodo[r] = {} /\ RecovererIdle(r)

CrashRecovery(r) == rpc[r] # "idle" /\ RecovererIdle(r)

RecovererStep(r) ==
    ListStale(r) \/ ParkStale(r) \/ ReadLog(r) \/ RecoverMark(r) \/ EndRecovery(r)

-----------------------------------------------------------------------------
(* Operators.  A request first reads the job and chooses a statement from  *)
(* what it saw, then executes that statement on the job as it is by then.  *)

Request(o, j, choice, at, label) ==
    /\ opc[o] = "idle"
    /\ opc' = [opc EXCEPT ![o] = label]
    /\ ojob' = [ojob EXCEPT ![o] = j]
    /\ ochoice' = [ochoice EXCEPT ![o] = choice]
    /\ otime' = [otime EXCEPT ![o] = at]
    /\ UNCHANGED rowVars
    /\ ByOperator

\* SelectVariantForReview, for a variant that exists when it is read.
BeginSelect(o, j, v) ==
    \/ /\ status[j] = "READY_TO_PUBLISH"
       /\ selected[j] # v
       /\ Request(o, j, v, NULL, "reselect")
    \/ /\ status[j] # "READY_TO_PUBLISH"
       /\ ~(/\ selected[j] = v
            /\ status[j] \in {"APPROVED", "PUBLISHING", "PUBLISHED"})
       /\ Request(o, j, v, NULL, "select")

\* QueuePublish
BeginPublish(o, j) ==
    /\ status[j] = "READY_TO_PUBLISH"
    /\ selected[j] # NULL
    /\ Request(o, j, NULL, NULL, "publish")

\* SchedulePublish for a time validateScheduleAt accepts: strictly in the
\* future, and no further away than the horizon.
BeginSchedule(o, j) ==
    \E at \in (now + 1) .. (now + Horizon) :
       \/ /\ status[j] = "READY_TO_PUBLISH"
          /\ selected[j] # NULL
          /\ Request(o, j, NULL, at, "schedule")
       \/ /\ status[j] = "SCHEDULED"
          /\ Request(o, j, NULL, at, "reschedule")

\* The statement of a request: applied when its own guard holds on the row as
\* it is now, refused otherwise, and answered either way.
Commit(o, label, guard, update) ==
    /\ opc[o] = label
    /\ \/ guard /\ update
       \/ ~guard /\ UNCHANGED rowVars
    /\ opc' = [opc EXCEPT ![o] = "idle"]
    /\ ojob' = [ojob EXCEPT ![o] = NULL]
    /\ ochoice' = [ochoice EXCEPT ![o] = NULL]
    /\ otime' = [otime EXCEPT ![o] = NULL]
    /\ ByOperator

\* The EXISTS of SelectVariant and ReselectVariant.
StillOffered(o) == ochoice[o][1] = edition[ojob[o]]

CommitSelect(o) ==
    Commit(o, "select",
           /\ CanTransition(status[ojob[o]], "READY_TO_PUBLISH")
           /\ StillOffered(o),
           /\ SetStatus(ojob[o], "READY_TO_PUBLISH")
           /\ selected' = [selected EXCEPT ![ojob[o]] = ochoice[o]]
           /\ UNCHANGED <<scheduledAt, edition>>)

\* A defect: the selection of a job changes in any state.
ReselectableAnytime(o) == StillOffered(o)

Reselectable(o) == status[ojob[o]] = "READY_TO_PUBLISH" /\ StillOffered(o)

CommitReselect(o) ==
    Commit(o, "reselect",
           Reselectable(o),
           /\ selected' = [selected EXCEPT ![ojob[o]] = ochoice[o]]
           /\ updatedAt' = [updatedAt EXCEPT ![ojob[o]] = now]
           /\ UNCHANGED <<status, scheduledAt, edition>>)

CommitPublish(o) ==
    Commit(o, "publish",
           CanTransition(status[ojob[o]], "APPROVED"),
           /\ SetStatus(ojob[o], "APPROVED")
           /\ UNCHANGED <<selected, scheduledAt, edition>>)

CommitSchedule(o) ==
    Commit(o, "schedule",
           /\ CanTransition(status[ojob[o]], "SCHEDULED")
           /\ selected[ojob[o]] # NULL,
           /\ SetStatus(ojob[o], "SCHEDULED")
           /\ scheduledAt' = [scheduledAt EXCEPT ![ojob[o]] = otime[o]]
           /\ UNCHANGED <<selected, edition>>)

CommitReschedule(o) ==
    Commit(o, "reschedule",
           status[ojob[o]] = "SCHEDULED",
           /\ scheduledAt' = [scheduledAt EXCEPT ![ojob[o]] = otime[o]]
           /\ updatedAt' = [updatedAt EXCEPT ![ojob[o]] = now]
           /\ UNCHANGED <<status, selected, edition>>)

\* The client goes away, or the database refuses the statement.
Abandon(o) == \E label \in OperatorPC \ {"idle"} : Commit(o, label, FALSE, FALSE)

\* Requests that are one statement.
CancelSchedule(j) ==
    /\ status[j] = "SCHEDULED"
    /\ SetStatus(j, "READY_TO_PUBLISH")
    /\ scheduledAt' = [scheduledAt EXCEPT ![j] = NULL]
    /\ UNCHANGED <<selected, edition, operatorVars>>
    /\ ByOperator

\* A defect: the job is skipped in whatever state it is.
SkipJobUnguarded(j) ==
    /\ ~IsTerminal(status[j])
    /\ SetStatus(j, "SKIPPED")
    /\ UNCHANGED <<selected, scheduledAt, edition, operatorVars>>
    /\ ByOperator

SkipJob(j) ==
    /\ CanTransition(status[j], "SKIPPED")
    /\ SetStatus(j, "SKIPPED")
    /\ UNCHANGED <<selected, scheduledAt, edition, operatorVars>>
    /\ ByOperator

\* GenerateVariants, RegenerateVariants: the selection is given up.
QueueVariants(j) ==
    /\ CanTransition(status[j], "VARIANTS_QUEUED")
    /\ SetStatus(j, "VARIANTS_QUEUED")
    /\ selected' = [selected EXCEPT ![j] = NULL]
    /\ UNCHANGED <<scheduledAt, edition, operatorVars>>
    /\ ByOperator

\* RetryWaitingAI for a job whose variants were asked for; its backoff passes
\* at any time.
RetryWaitingAI(j) ==
    /\ status[j] = "WAITING_AI"
    /\ SetStatus(j, "VARIANTS_QUEUED")
    /\ UNCHANGED <<selected, scheduledAt, edition, operatorVars>>
    /\ ByOperator

\* A defect: failures are not repaired.
RepairSuccesses(j) ==
    /\ status[j] = "PUBLISHED"
    /\ notices' = [notices EXCEPT ![j] = @ \cup {"published"}]
    /\ UNCHANGED <<rowVars, successLog, posts, now, generatorVars, workerVars,
                   recovererVars, operatorVars>>

\* RepairNotifications for a terminal job whose notice was never enqueued.
RepairNotice(j) ==
    /\ \/ /\ status[j] = "PUBLISHED"
          /\ notices' = [notices EXCEPT ![j] = @ \cup {"published"}]
       \/ /\ status[j] = "FAILED"
          /\ notices' = [notices EXCEPT ![j] = @ \cup {"job-failed"}]
    /\ UNCHANGED <<rowVars, successLog, posts, now, generatorVars, workerVars,
                   recovererVars, operatorVars>>

OperatorStep(o) ==
    \/ \E j \in Jobs : \/ \E n \in Choices : BeginSelect(o, j, <<edition[j], n>>)
                       \/ BeginPublish(o, j)
                       \/ BeginSchedule(o, j)
    \/ CommitSelect(o) \/ CommitReselect(o) \/ CommitPublish(o)
    \/ CommitSchedule(o) \/ CommitReschedule(o) \/ Abandon(o)

JobStep(j) ==
    \/ CancelSchedule(j) \/ SkipJob(j) \/ QueueVariants(j) \/ RetryWaitingAI(j)
    \/ RepairNotice(j)

Tick ==
    /\ now < MaxTime
    /\ now' = now + 1
    /\ UNCHANGED <<rowVars, effectVars, generatorVars, workerVars, recovererVars,
                   operatorVars>>

\* What the loops and the operators do, and what goes wrong.
Work ==
    \/ \E g \in Generators : GeneratorStep(g)
    \/ \E w \in Workers : WorkerStep(w)
    \/ \E r \in Recoverers : RecovererStep(r)
    \/ \E o \in Operators : OperatorStep(o)
    \/ \E j \in Jobs : JobStep(j)
    \/ Tick

Faults ==
    \/ \E g \in Generators : CrashGenerator(g)
    \/ \E w \in Workers : CallFails(w) \/ Crash(w)
    \/ \E r \in Recoverers : \/ ReadLogFails(r) \/ RecoverMarkFails(r)
                             \/ CrashRecovery(r)

Next == Work \/ Faults

Spec == Init /\ [][Next]_vars

\* The loops of every instance keep ticking and time keeps passing; operators
\* owe nothing.  Faults may come in any number, but not for ever: a step that
\* is also a fault, such as the end of a tick, stays possible.
Fairness ==
    /\ \A w \in Workers : WF_vars(WorkerStep(w))
    /\ \A r \in Recoverers : WF_vars(RecovererStep(r))
    /\ \A j \in Jobs : WF_vars(RepairNotice(j))
    /\ WF_vars(Tick)
    /\ <>[][Work]_vars

FairSpec == Spec /\ Fairness

-----------------------------------------------------------------------------
(* Properties.                                                             *)

\* How publishing implements its promise.  A worker holds the permit from its
\* claim to the end of its call to Instagram.
Holds(w, j) == pc[w] \in {"prepare", "publish"} /\ job[w] = j

phaseOf(s) ==
    CASE s = "PUBLISHING" -> "taken"
      [] s = "PUBLISHED"  -> "published"
      [] s = "FAILED"     -> "failed"
      [] s = "SKIPPED"    -> "dropped"
      [] OTHER            -> "open"

Once == INSTANCE PublishOnce WITH
    phase  <- [j \in Jobs |-> phaseOf(status[j])],
    permit <- [j \in Jobs |-> \E w \in Workers : Holds(w, j)],
    shown  <- [j \in Jobs |-> Len(posts[j])],
    report <- media

\* Publishing, with its instances, crashes and recovery, implements PublishOnce.
ImplementsPublishOnce == Once!Spec

\* PublishJob, ClaimStatus: however workers, recovery and operators interleave
\* and wherever they crash, Instagram never shows a job twice.
AtMostOnePost == \A j \in Jobs : Len(posts[j]) <= 1

\* What Instagram shows is the variant the row names, unless an overlapping generation
\* erased the selection: no later choice of an operator reaches a claimed job.
PostedIsSelected ==
    \A j \in Jobs : \A k \in 1 .. Len(posts[j]) : selected[j] \in {posts[j][k], NULL}

\* What the row of a published job has to say: the id of a post, or a dry run's.
TrueID(j) == IF posts[j] # <<>> THEN "post" ELSE "dryrun"

\* RecoverStaleJobs, MarkPublished: a job reported PUBLISHED with the id of a
\* post is on Instagram.  With a dry run's id it is not, and stays so.
PublishedIsPosted ==
    \A j \in Jobs : status[j] = "PUBLISHED" => media[j] = TrueID(j)

\* The comment on RecoverStaleJobs, "AI stages are safely retried": a retried
\* generation leaves a job that was meanwhile reviewed its selected variant.
SelectionHeld ==
    \A j \in Jobs :
       status[j] \in {"READY_TO_PUBLISH", "SCHEDULED", "APPROVED"} => selected[j] # NULL

\* The operator is told the outcome the job really has, never both outcomes:
\* the notice is enqueued after the state it reports was committed for good.
NoticeMatchesOutcome ==
    \A j \in Jobs :
       /\ "published" \in notices[j] => status[j] = "PUBLISHED"
       /\ "job-failed" \in notices[j] => status[j] = "FAILED"

\* Every status a statement writes is one the table allows from the status the
\* row had at that moment, whatever the process had read before.
StatusStep(j) ==
    status'[j] # status[j] => CanTransition(status[j], status'[j])

ObeysTable == [][\A j \in Jobs : StatusStep(j)]_vars

\* A worker's promotion comes after the time the row carries at that moment,
\* even if the schedule moved between the worker's listing and its claim.
Promotes(w, j) ==
    /\ pc[w] = "next" /\ pc'[w] = "load"
    /\ status[j] = "SCHEDULED" /\ status'[j] = "APPROVED"

PromotedWhenDue ==
    [][\A w \in Workers, j \in Jobs :
          Promotes(w, j) => scheduledAt[j] # NULL /\ scheduledAt[j] <= now]_vars

\* SchedulePublish's contract: a SCHEDULED job is approved for publishing only
\* once its time has come.
NeverEarly ==
    [][\A j \in Jobs :
          status[j] = "SCHEDULED" /\ status'[j] = "APPROVED"
             => scheduledAt[j] <= now]_vars

\* An approved job is taken up by a worker, unless an overlapping generation erased
\* its selection.
ApprovedIsTaken ==
    \A j \in Jobs :
       status[j] = "APPROVED" ~> (status[j] # "APPROVED" \/ selected[j] = NULL)

\* RecoverStaleJobs: a job whose worker died while publishing is resolved.  The
\* second conjunct asks that the model's clock still has room for the timeout.
PublishingIsResolved ==
    \A j \in Jobs :
       (status[j] = "PUBLISHING" /\ updatedAt[j] + StaleTimeout < MaxTime)
          ~> IsTerminal(status[j])

\* A job whose time has come leaves SCHEDULED, unless an operator moves it to a
\* later time.
DueIsPromoted ==
    \A j \in Jobs : IsDue(j, now) ~> (~IsDue(j, now))

\* RepairNotifications: a lost outcome notice is made up for.
OutcomeIsNotified ==
    \A j \in Jobs :
       status[j] \in {"PUBLISHED", "FAILED"} ~> notices[j] # {}
=============================================================================
