------------------------------- MODULE Intake -------------------------------
(***************************************************************************)
(* From a news item to a question for the operator.                        *)
(*                                                                         *)
(* Syncs (the news-sync loop, one goroutine per category, and the manual   *)
(* syncs) store candidates and create jobs.  Scorers and generators (the   *)
(* scoring-work and variant-work loops of the instances) ask the chain of  *)
(* AI providers.  Three more loops keep jobs moving: waiting-ai-retry,     *)
(* stale-job-recovery and notification-repair.  Each step is one database  *)
(* call or one call of the provider chain.  Any process may fail between   *)
(* two steps, and a slow one is overtaken: a job is stale whenever the     *)
(* recovery loop says so, and a retry may follow at once, whatever the     *)
(* timeout and the backoff are.                                            *)
(***************************************************************************)
EXTENDS JobStatus, Naturals, FiniteSets

CONSTANTS
    Items,          \* news items the service offers, by external id
    Syncs,          \* goroutines of SyncNews
    Scorers,        \* scoring-work loops, one per instance
    Generators,     \* variant-work loops, one per instance
    MaxRetries,     \* maxRetries of ParkForAIRetry
    MaxFaults,      \* bound: crashes and failed database calls
    NULL            \* no row, and an unset local

Workers == Scorers \cup Generators

ASSUME IntakeAssumption ==
    /\ Scorers \cap Generators = {}
    /\ MaxRetries \in Nat \ {0}
    /\ MaxFaults \in Nat
    /\ NULL \notin Items \cup Status

VARIABLES
    stored,         \* rows of news_candidates
    status,         \* post_jobs.status of the item's job, NULL before it exists
    requested,      \* post_jobs.requested_variant_count > 0
    retries,        \* post_jobs.ai_retry_count
    score,          \* the one news_scores row: would it call for a review?
    notices,        \* outbox keys enqueued about the job
    ypc, ytodo, yitem,          \* locals of a sync
    wpc, witem, verdict,        \* locals of a worker
    todo,           \* what each housekeeping loop listed and has not done
    faults          \* how many faults there were

rowVars    == <<stored, status, requested, retries, score, notices>>
syncVars   == <<ypc, ytodo, yitem>>
workerVars == <<wpc, witem, verdict>>
vars == <<rowVars, syncVars, workerVars, todo, faults>>

SyncPC   == {"idle", "store", "create", "queue"}
WorkerPC == {"idle", "ask", "save", "apply", "decide", "announce",
             "complete", "offer", "report"}
Scores   == {"none", "eligible", "ineligible"}
Notices  == {"first-approval", "variant-approval", "variants-ai-exhausted"}
Loops    == {"waiting-ai-retry", "stale-job-recovery"}

RowsOK ==
    /\ stored \in SUBSET Items
    /\ status \in [Items -> Status \cup {NULL}]
    /\ requested \in [Items -> BOOLEAN]
    /\ retries \in [Items -> 0 .. MaxRetries]
    /\ score \in [Items -> Scores]
    /\ notices \in [Items -> SUBSET Notices]

SyncsOK ==
    /\ ypc \in [Syncs -> SyncPC]
    /\ ytodo \in [Syncs -> SUBSET Items]
    /\ yitem \in [Syncs -> Items \cup {NULL}]
    /\ \A y \in Syncs : ypc[y] \in {"create", "queue"} => yitem[y] \in Items

WorkersOK ==
    /\ wpc \in [Workers -> WorkerPC]
    /\ witem \in [Workers -> Items \cup {NULL}]
    /\ verdict \in [Workers -> BOOLEAN]
    /\ \A w \in Workers : wpc[w] # "idle" => witem[w] \in Items

LoopsOK ==
    /\ todo \in [Loops -> SUBSET (Items \X Status)]
    /\ faults \in 0 .. MaxFaults

TypeOK == RowsOK /\ SyncsOK /\ WorkersOK /\ LoopsOK

Init ==
    /\ stored = {}
    /\ status = [i \in Items |-> NULL]
    /\ requested = [i \in Items |-> FALSE]
    /\ retries = [i \in Items |-> 0]
    /\ score = [i \in Items |-> "none"]
    /\ notices = [i \in Items |-> {}]
    /\ ypc = [y \in Syncs |-> "idle"]
    /\ ytodo = [y \in Syncs |-> {}]
    /\ yitem = [y \in Syncs |-> NULL]
    /\ wpc = [w \in Workers |-> "idle"]
    /\ witem = [w \in Workers |-> NULL]
    /\ verdict = [w \in Workers |-> FALSE]
    /\ todo = [l \in Loops |-> {}]
    /\ faults = 0

-----------------------------------------------------------------------------
(* The repositories.                                                       *)

SetStatus(i, to) == status' = [status EXCEPT ![i] = to]

\* Does transition() accept the move?  The row is read under its lock.
Accepts(i, to) == status[i] # NULL /\ CanTransition(status[i], to)

\* A defect: the retry that uses up the limit is still granted.
ParkOnceMore(i) ==
    /\ retries' = [retries EXCEPT ![i] = @ + 1]
    /\ SetStatus(i, IF retries[i] + 1 > MaxRetries THEN "FAILED" ELSE "WAITING_AI")

\* A defect: the retries are not counted.
ParkUncounted(i) == SetStatus(i, "WAITING_AI") /\ UNCHANGED retries

\* ParkForAIRetry on a row that may wait: one retry more, or one too many.
Park(i) ==
    /\ retries' = [retries EXCEPT ![i] = @ + 1]
    /\ SetStatus(i, IF retries[i] + 1 >= MaxRetries THEN "FAILED" ELSE "WAITING_AI")

Enqueue(i, keys) == notices' = [notices EXCEPT ![i] = @ \cup keys]

BySync   == UNCHANGED <<requested, retries, score, notices, workerVars, todo, faults>>
ByWorker == UNCHANGED <<stored, requested, syncVars, todo, faults>>
ByLoop   == UNCHANGED <<stored, requested, score, syncVars, workerVars, faults>>

-----------------------------------------------------------------------------
(* SyncNews, one category.                                                 *)

\* The service answers; a failed request ends the sync of its category.
FetchByCategory(y) ==
    /\ ypc[y] = "idle"
    /\ \E T \in SUBSET Items \ {{}} : ytodo' = [ytodo EXCEPT ![y] = T]
    /\ ypc' = [ypc EXCEPT ![y] = "store"]
    /\ UNCHANGED <<stored, status, yitem>>
    /\ BySync

\* On to the items T, or the end of the category.
NextItem(y, T) ==
    /\ ytodo' = [ytodo EXCEPT ![y] = T]
    /\ ypc' = [ypc EXCEPT ![y] = IF T = {} THEN "idle" ELSE "store"]
    /\ yitem' = [yitem EXCEPT ![y] = NULL]

\* The item is malformed or of another category.
RejectItem(y) ==
    /\ ypc[y] = "store"
    /\ \E i \in ytodo[y] : NextItem(y, ytodo[y] \ {i})
    /\ UNCHANGED <<stored, status>>
    /\ BySync

\* A defect: SyncNews does not look at the created flag.
StoreItemUnchecked(y) ==
    /\ ypc[y] = "store"
    /\ \E i \in ytodo[y] :
          /\ stored' = stored \cup {i}
          /\ ytodo' = [ytodo EXCEPT ![y] = @ \ {i}]
          /\ yitem' = [yitem EXCEPT ![y] = i]
    /\ ypc' = [ypc EXCEPT ![y] = "create"]
    /\ UNCHANGED status
    /\ BySync

\* Upsert: whoever inserts the candidate goes on with it.
StoreItem(y) ==
    /\ ypc[y] = "store"
    /\ \E i \in ytodo[y] :
          /\ stored' = stored \cup {i}
          /\ \/ /\ i \notin stored
                /\ ytodo' = [ytodo EXCEPT ![y] = @ \ {i}]
                /\ yitem' = [yitem EXCEPT ![y] = i]
                /\ ypc' = [ypc EXCEPT ![y] = "create"]
             \/ i \in stored /\ NextItem(y, ytodo[y] \ {i})
    /\ UNCHANGED status
    /\ BySync

\* ProcessCandidate finds no active account of the category.
NoAccount(y) ==
    /\ ypc[y] = "create"
    /\ NextItem(y, ytodo[y])
    /\ UNCHANGED <<stored, status>>
    /\ BySync

\* INSERT ... ON CONFLICT DO NOTHING: an existing job is left to its creator.
GetOrCreate(y) ==
    /\ ypc[y] = "create"
    /\ IF status[yitem[y]] = NULL
       THEN /\ SetStatus(yitem[y], "NEW")
            /\ ypc' = [ypc EXCEPT ![y] = "queue"]
            /\ UNCHANGED <<ytodo, yitem>>
       ELSE NextItem(y, ytodo[y]) /\ UNCHANGED status
    /\ UNCHANGED stored
    /\ BySync

QueueScoring(y) ==
    /\ ypc[y] = "queue"
    /\ IF Accepts(yitem[y], "SCORING_QUEUED")
       THEN SetStatus(yitem[y], "SCORING_QUEUED")
       ELSE UNCHANGED status
    /\ NextItem(y, ytodo[y])
    /\ UNCHANGED stored
    /\ BySync

SyncStep(y) ==
    \/ RejectItem(y) \/ StoreItem(y) \/ NoAccount(y) \/ GetOrCreate(y)
    \/ QueueScoring(y)

-----------------------------------------------------------------------------
(* ProcessScoringQueue and ProcessVariantQueue, one job.                   *)

Queued(w)  == IF w \in Scorers THEN "SCORING_QUEUED" ELSE "VARIANTS_QUEUED"
Running(w) == IF w \in Scorers THEN "SCORING" ELSE "GENERATING_VARIANTS"

Goto(w, label) == wpc' = [wpc EXCEPT ![w] = label]

WorkerIdle(w) ==
    /\ Goto(w, "idle")
    /\ witem' = [witem EXCEPT ![w] = NULL]
    /\ verdict' = [verdict EXCEPT ![w] = FALSE]

\* A defect: the row is overwritten whatever state it is in by now.
AdvanceBlind(w, to, label) ==
    /\ SetStatus(witem[w], to)
    /\ Goto(w, label)
    /\ UNCHANGED <<witem, verdict>>

\* A transition of the worker's job: on to the next label, or, when it is
\* refused, the error is logged and the job dropped.
Advance(w, to, label) ==
    \/ /\ Accepts(witem[w], to)
       /\ SetStatus(witem[w], to)
       /\ Goto(w, label)
       /\ UNCHANGED <<witem, verdict>>
    \/ /\ ~Accepts(witem[w], to)
       /\ WorkerIdle(w)
       /\ UNCHANGED status

ClaimQueued(w) ==
    /\ wpc[w] = "idle"
    /\ \E i \in Items :
          /\ status[i] = Queued(w)
          /\ SetStatus(i, Running(w))
          /\ witem' = [witem EXCEPT ![w] = i]
    /\ Goto(w, "ask")
    /\ UNCHANGED <<retries, score, notices, verdict>>
    /\ ByWorker

\* The candidate or the account of the job cannot be loaded.
ContextMissing(w) ==
    /\ wpc[w] = "ask"
    /\ IF Accepts(witem[w], "FAILED") THEN SetStatus(witem[w], "FAILED")
                                      ELSE UNCHANGED status
    /\ WorkerIdle(w)
    /\ UNCHANGED <<retries, score, notices>>
    /\ ByWorker

\* The first available provider whose answer parses wins.
ProviderAnswers(w) ==
    /\ wpc[w] = "ask"
    /\ \/ /\ w \in Scorers
          /\ \E v \in BOOLEAN : verdict' = [verdict EXCEPT ![w] = v]
          /\ Goto(w, "save")
       \/ w \in Generators /\ Goto(w, "complete") /\ UNCHANGED verdict
    /\ UNCHANGED <<status, retries, score, notices, witem>>
    /\ ByWorker

\* A defect: the error of the chain is returned, the job not parked.
AllProvidersFailedReturned(w) ==
    /\ wpc[w] = "ask"
    /\ WorkerIdle(w)
    /\ UNCHANGED <<status, retries, score, notices>>
    /\ ByWorker

AllProvidersFailed(w) ==
    /\ wpc[w] = "ask"
    /\ \/ /\ Accepts(witem[w], "WAITING_AI")
          /\ Park(witem[w])
          /\ \/ w \in Generators /\ Goto(w, "report") /\ UNCHANGED <<witem, verdict>>
             \/ w \in Scorers /\ WorkerIdle(w)
       \/ /\ ~Accepts(witem[w], "WAITING_AI")
          /\ WorkerIdle(w)
          /\ UNCHANGED <<status, retries>>
    /\ UNCHANGED <<score, notices>>
    /\ ByWorker

\* SaveScore overwrites the row, whoever scored the item before.
SaveScore(w) ==
    /\ wpc[w] = "save"
    /\ score' = [score EXCEPT ![witem[w]] =
                    IF verdict[w] THEN "eligible" ELSE "ineligible"]
    /\ Goto(w, "apply")
    /\ UNCHANGED <<status, retries, notices, witem, verdict>>
    /\ ByWorker

\* A completed stage starts the retries over.
ResetRetries(w, to) ==
    retries' = IF Accepts(witem[w], to) THEN [retries EXCEPT ![witem[w]] = 0]
                                        ELSE retries

ApplyScored(w) ==
    /\ wpc[w] = "apply"
    /\ Advance(w, "SCORED", "decide")
    /\ ResetRetries(w, "SCORED")
    /\ UNCHANGED <<score, notices>>
    /\ ByWorker

\* The worker decides by the answer it got, not by the row it saved.
Decide(w) ==
    /\ wpc[w] = "decide"
    /\ \/ verdict[w] /\ Advance(w, "WAITING_FIRST_APPROVAL", "announce")
       \/ /\ ~verdict[w]
          /\ IF Accepts(witem[w], "SKIPPED") THEN SetStatus(witem[w], "SKIPPED")
                                             ELSE UNCHANGED status
          /\ WorkerIdle(w)
    /\ UNCHANGED <<retries, score, notices>>
    /\ ByWorker

\* The new variants are in place (Publishing!ReplaceVariants).
CompleteAIStage(w) ==
    /\ wpc[w] = "complete"
    /\ Advance(w, "WAITING_VARIANT_APPROVAL", "offer")
    /\ ResetRetries(w, "WAITING_VARIANT_APPROVAL")
    /\ UNCHANGED <<score, notices>>
    /\ ByWorker

\* The notice that ends a job's turn.  That generation failed for now is not
\* recorded here: it promises nothing.
Announcement(w) ==
    CASE wpc[w] = "announce" -> {"first-approval"}
      [] wpc[w] = "offer"    -> {"variant-approval"}
      [] wpc[w] = "report"   -> IF status[witem[w]] = "FAILED"
                                THEN {"variants-ai-exhausted"} ELSE {}

Announce(w) ==
    /\ wpc[w] \in {"announce", "offer", "report"}
    /\ Enqueue(witem[w], Announcement(w))
    /\ WorkerIdle(w)
    /\ UNCHANGED <<status, retries, score>>
    /\ ByWorker

WorkerStep(w) ==
    \/ ClaimQueued(w) \/ ContextMissing(w) \/ ProviderAnswers(w)
    \/ AllProvidersFailed(w) \/ SaveScore(w) \/ ApplyScored(w) \/ Decide(w)
    \/ CompleteAIStage(w) \/ Announce(w)

-----------------------------------------------------------------------------
(* The housekeeping loops: list, then treat the rows one by one.           *)

\* A retried job goes back to the stage it was parked in, told by the variant
\* count of the row as listed.
Stage(i) == IF requested[i] THEN "VARIANTS_QUEUED" ELSE "SCORING_QUEUED"

\* A defect: generations left by a dead worker are not looked for.
ListedScoringOnly(l) ==
    IF l = "waiting-ai-retry"
    THEN {<<i, Stage(i)>> : i \in {j \in Items : status[j] = "WAITING_AI"}}
    ELSE {j \in Items : status[j] = "SCORING"} \X {"WAITING_AI"}

\* The rows a loop lists, each with the state it is to be moved to.
Listed(l) ==
    IF l = "waiting-ai-retry"
    THEN {<<i, Stage(i)>> : i \in {j \in Items : status[j] = "WAITING_AI"}}
    ELSE {j \in Items : status[j] \in {"SCORING", "GENERATING_VARIANTS"}} \X {"WAITING_AI"}

List(l) ==
    /\ todo[l] = {}
    /\ todo' = [todo EXCEPT ![l] = Listed(l)]
    /\ UNCHANGED <<status, retries, notices>>
    /\ ByLoop

Done(l, p) == todo' = [todo EXCEPT ![l] = @ \ {p}]

RetryWaitingAI ==
    \E p \in todo["waiting-ai-retry"] :
       /\ Done("waiting-ai-retry", p)
       /\ IF status[p[1]] = "WAITING_AI" THEN SetStatus(p[1], p[2])
                                         ELSE UNCHANGED status
       /\ UNCHANGED <<retries, notices>>
       /\ ByLoop

RecoverStale ==
    \E p \in todo["stale-job-recovery"] :
       /\ Done("stale-job-recovery", p)
       /\ IF Accepts(p[1], "WAITING_AI") THEN Park(p[1])
                                         ELSE UNCHANGED <<status, retries>>
       /\ UNCHANGED notices
       /\ ByLoop

\* A defect: only offers of variants are repeated.
RepairOffersOnly(i) ==
    /\ status[i] = "WAITING_VARIANT_APPROVAL"
    /\ Enqueue(i, {"variant-approval"})
    /\ UNCHANGED <<status, retries, todo>>
    /\ ByLoop

\* The notification-repair loop meets the job.  A first approval is announced
\* from the saved score, and not without one.
RepairNotification(i) ==
    /\ \/ /\ status[i] = "WAITING_FIRST_APPROVAL"
          /\ score[i] # "none"
          /\ Enqueue(i, {"first-approval"})
       \/ /\ status[i] = "WAITING_VARIANT_APPROVAL"
          /\ Enqueue(i, {"variant-approval"})
    /\ UNCHANGED <<status, retries, todo>>
    /\ ByLoop

-----------------------------------------------------------------------------
(* Operators, and what goes wrong.                                         *)

\* GenerateVariants and RegenerateVariants: the count asked for is positive.
QueueVariants(i) ==
    /\ Accepts(i, "VARIANTS_QUEUED")
    /\ SetStatus(i, "VARIANTS_QUEUED")
    /\ requested' = [requested EXCEPT ![i] = TRUE]
    /\ UNCHANGED <<stored, retries, score, notices, syncVars, workerVars, todo, faults>>

\* SkipJob and CancelJob.
SkipJob(i) ==
    /\ Accepts(i, "SKIPPED")
    /\ SetStatus(i, "SKIPPED")
    /\ UNCHANGED <<stored, requested, retries, score, notices, syncVars, workerVars,
                   todo, faults>>

\* A database call fails, or the process dies: the job in hand is dropped,
\* and with the process the rest of what it listed.
SyncFault(y) ==
    /\ ypc[y] # "idle"
    /\ \E T \in {{}, ytodo[y]} : NextItem(y, T)
    /\ UNCHANGED <<rowVars, workerVars, todo>>

WorkerFault(w) ==
    /\ wpc[w] # "idle"
    /\ WorkerIdle(w)
    /\ UNCHANGED <<rowVars, syncVars, todo>>

LoopFault(l) ==
    /\ todo[l] # {}
    /\ \E T \in {{}} \cup {todo[l] \ {p} : p \in todo[l]} :
          todo' = [todo EXCEPT ![l] = T]
    /\ UNCHANGED <<rowVars, syncVars, workerVars>>

Fault ==
    /\ faults < MaxFaults
    /\ faults' = faults + 1
    /\ \/ \E y \in Syncs : SyncFault(y)
       \/ \E w \in Workers : WorkerFault(w)
       \/ \E l \in Loops : LoopFault(l)

Next ==
    \/ \E y \in Syncs : FetchByCategory(y) \/ SyncStep(y)
    \/ \E w \in Workers : WorkerStep(w)
    \/ \E l \in Loops : List(l)
    \/ RetryWaitingAI \/ RecoverStale
    \/ \E i \in Items : RepairNotification(i) \/ QueueVariants(i) \/ SkipJob(i)
    \/ Fault

Spec == Init /\ [][Next]_vars

\* Every loop ticks and every call returns; the news service owes nothing,
\* nor does an operator.
Fairness ==
    /\ \A y \in Syncs : WF_vars(SyncStep(y))
    /\ \A w \in Workers : WF_vars(WorkerStep(w))
    /\ WF_vars(List("waiting-ai-retry") \/ RetryWaitingAI)
    /\ WF_vars(List("stale-job-recovery") \/ RecoverStale)
    /\ \A i \in Items : WF_vars(RepairNotification(i))

FairSpec == Spec /\ Fairness

-----------------------------------------------------------------------------
(* Properties.                                                             *)

\* Syncs that meet the same new item at the same time do not both go on with
\* it: the one that inserted the candidate creates the job, and nobody has
\* created it before (Upsert's created flag, looked at by SyncNews).
OneCreator ==
    \A y \in Syncs : yitem[y] # NULL =>
        /\ yitem[y] \in stored
        /\ ypc[y] = "create" => status[yitem[y]] = NULL
        /\ \A z \in Syncs : yitem[z] = yitem[y] => z = y

\* Of the scorers that work on one job because the first was taken for dead,
\* one gets to decide, and until it has the job is SCORED or was ended by
\* somebody else: no late answer reopens a decision.
OneVerdict ==
    \A w \in Scorers : wpc[w] = "decide" =>
        /\ status[witem[w]] = "SCORED" \/ IsTerminal(status[witem[w]])
        /\ \A v \in Scorers : wpc[v] = "decide" /\ witem[v] = witem[w] => v = w

\* Somebody has the job in hand.
InHand(i, labels) == \E w \in Workers : wpc[w] \in labels /\ witem[w] = i

\* Without a fault no job rests in a state only a process can end: whoever
\* brought it there is still at work, also when it was overtaken and the job
\* claimed again.
NothingOrphaned ==
    faults = 0 => \A i \in Items :
        /\ status[i] = "NEW" => \E y \in Syncs : ypc[y] = "queue" /\ yitem[y] = i
        /\ status[i] = "SCORING" => InHand(i, {"ask", "save", "apply"})
        /\ status[i] = "SCORED" => InHand(i, {"decide"})
        /\ status[i] = "GENERATING_VARIANTS" => InHand(i, {"ask", "complete"})

\* What the operator is told is so: a review is asked for scored news only,
\* variants are offered when they were requested, generation is given up
\* for good, and a job whose retries are used up is not tried again.
NoticesMeanIt ==
    \A i \in Items :
        /\ "first-approval" \in notices[i] => score[i] # "none"
        /\ "variant-approval" \in notices[i] => requested[i]
        /\ "variants-ai-exhausted" \in notices[i] => status[i] = "FAILED"
        /\ retries[i] = MaxRetries => status[i] = "FAILED"

\* A job that waits for its first approval is announced in the end, also when
\* the scorer dies between the transition and the outbox
\* (RepairNotifications), unless an operator was faster.
ReviewAnnounced ==
    \A i \in Items :
        status[i] = "WAITING_FIRST_APPROVAL" ~>
            status[i] # "WAITING_FIRST_APPROVAL" \/ "first-approval" \in notices[i]

AIStages == {"SCORING_QUEUED", "SCORING", "WAITING_AI", "VARIANTS_QUEUED",
             "GENERATING_VARIANTS"}

\* No job stays with the AI for ever, even if no provider ever answers and
\* workers die: stages are claimed, stale ones recovered, parked ones retried,
\* and the retries run out (ParkForAIRetry, RecoverStaleJobs, RetryWaitingAI).
AIStagesEnd == \A i \in Items : status[i] \in AIStages ~> status[i] \notin AIStages

\* The comment of RecoverStaleJobs: "prevents crashes from leaving work
\* permanently stuck".  Work is stuck in a state no person is asked about.
CrashesLeaveNothingStuck ==
    \A i \in Items : status[i] \in AIStages \cup {"NEW", "SCORED"} ~>
                        status[i] \notin AIStages \cup {"NEW", "SCORED"}
=============================================================================
