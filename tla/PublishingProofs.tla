-------------------------- MODULE PublishingProofs --------------------------
(***************************************************************************)
(* Proofs that publishing keeps its promises for every number of jobs,     *)
(* instances and operators, and for every bound.  First what one step can  *)
(* do to a row, a worker and Instagram, once for every action; then the    *)
(* invariants from those summaries, without looking at the actions again.  *)
(***************************************************************************)
EXTENDS PublishingTypes, PublishingInvariant

(***************************************************************************)
(* The table: every write of a status is a move it allows.                 *)
(***************************************************************************)

LEMMA StatusLookup ==
    ASSUME RowsOK, NEW j \in Jobs
    PROVE  status[j] \in Status
BY DEF RowsOK

LEMMA SetStatusStep ==
    ASSUME RowsOK, NEW j \in Jobs, NEW k \in Jobs, NEW to,
           SetStatus(k, to), CanTransition(status[k], to)
    PROVE  StatusStep(j)
BY DEF RowsOK, SetStatus, StatusStep

LEMMA TransitionStep ==
    ASSUME RowsOK, NEW j \in Jobs, NEW k \in Jobs, NEW to, Transition(k, to)
    PROVE  StatusStep(j)
BY SetStatusStep DEF Transition, StatusStep

LEMMA RecordStep ==
    ASSUME RowsOK, NEW j \in Jobs, NEW k \in Jobs, NEW outcome, NEW id,
           Record(k, outcome, id)
    PROVE  StatusStep(j)
BY TransitionStep DEF Record

LEMMA ParkStep ==
    ASSUME RowsOK, NEW j \in Jobs, NEW k \in Jobs, Park(k)
    PROVE  StatusStep(j)
<1>1. CanTransition(status[k], "WAITING_AI") => CanTransition(status[k], "FAILED")
  BY StatusLookup DEF CanTransition, allowedTransitions, Status
<1>2. QED
  BY <1>1, SetStatusStep DEF Park, StatusStep

LEMMA NamedMoves ==
    /\ CanTransition("VARIANTS_QUEUED", "GENERATING_VARIANTS")
    /\ CanTransition("SCHEDULED", "APPROVED")
    /\ CanTransition("SCHEDULED", "READY_TO_PUBLISH")
    /\ CanTransition("APPROVED", "PUBLISHING")
    /\ CanTransition("WAITING_AI", "VARIANTS_QUEUED")
BY DEF CanTransition, allowedTransitions

LEMMA GeneratorStatus ==
    ASSUME TypeOK, NEW g \in Generators, GeneratorStep(g) \/ CrashGenerator(g),
           NEW j \in Jobs
    PROVE  StatusStep(j)
<1>0. RowsOK /\ (gpc[g] # "idle" => gjob[g] \in Jobs)
  BY DEF TypeOK, GeneratorsOK
<1>1. CASE ClaimVariants(g)
  BY <1>0, <1>1, SetStatusStep, NamedMoves DEF ClaimVariants
<1>2. CASE ContextMissing(g) \/ GenerationFails(g)
  BY <1>0, <1>2, ParkStep, TransitionStep DEF ContextMissing, GenerationFails
<1>3. CASE ReplaceVariants(g)
  BY <1>3 DEF ReplaceVariants, StatusStep
<1>4. CASE CompleteAIStage(g)
  BY <1>0, <1>4, TransitionStep DEF CompleteAIStage
<1>5. CASE CrashGenerator(g)
  BY <1>5 DEF CrashGenerator, rowVars, StatusStep
<1>6. QED
  BY <1>1, <1>2, <1>3, <1>4, <1>5 DEF GeneratorStep

LEMMA WorkerStatus ==
    ASSUME TypeOK, NEW w \in Workers, WorkerStep(w) \/ CallFails(w) \/ Crash(w),
           NEW j \in Jobs
    PROVE  StatusStep(j)
<1>0. RowsOK /\ todo[w] \subseteq Jobs /\ (pc[w] \notin {"idle", "next"} => job[w] \in Jobs)
  BY DEF TypeOK, WorkersOK
<1>1. CASE ClaimScheduledDue(w)
  BY <1>0, <1>1, SetStatusStep, NamedMoves
     DEF ClaimScheduledDue, ClaimableDue, IsDue, StatusStep
<1>2. CASE ClaimPublishing(w)
  BY <1>0, <1>2, SetStatusStep, NamedMoves DEF ClaimPublishing, Claimable, StatusStep
<1>3. CASE MarkPublished(w) \/ MarkFailed(w)
  BY <1>0, <1>3, RecordStep DEF MarkPublished, MarkFailed, MarkOutcome
<1>4. CASE UNCHANGED rowVars
  BY <1>4 DEF rowVars, StatusStep
<1>5. QED
  BY <1>1, <1>2, <1>3, <1>4
     DEF WorkerStep, BeginTick, ListApproved, NextApproved, EndTick, WorkerIdle,
         LoadJob, LoadVariant, PublishImage, PublishImageFails, LogSuccess, Notify,
         CallFails, Crash

LEMMA RecovererStatus ==
    ASSUME TypeOK, NEW r \in Recoverers,
           RecovererStep(r) \/ ReadLogFails(r) \/ RecoverMarkFails(r)
              \/ CrashRecovery(r),
           NEW j \in Jobs
    PROVE  StatusStep(j)
<1>0. RowsOK /\ (rpc[r] = "mark" => rjob[r] \in Jobs)
  BY DEF TypeOK, RecoverersOK
<1>1. CASE ParkStale(r)
  BY <1>0, <1>1, ParkStep DEF ParkStale
<1>2. CASE RecoverMark(r)
  BY <1>0, <1>2, RecordStep DEF RecoverMark
<1>3. CASE UNCHANGED rowVars
  BY <1>3 DEF rowVars, StatusStep
<1>4. QED
  BY <1>1, <1>2, <1>3
     DEF RecovererStep, ListStale, ReadLog, ReadLogFails, AskLog, RecoverMarkFails,
         RecovererIdle, EndRecovery, CrashRecovery

LEMMA OperatorStatus ==
    ASSUME TypeOK, NEW o \in Operators, OperatorStep(o), NEW j \in Jobs
    PROVE  StatusStep(j)
<1>0. RowsOK /\ (opc[o] # "idle" => ojob[o] \in Jobs)
  BY DEF TypeOK, OperatorsOK
<1>1. CASE CommitSelect(o)
  BY <1>0, <1>1, SetStatusStep DEF CommitSelect, Commit, rowVars, StatusStep
<1>2. CASE CommitPublish(o)
  BY <1>0, <1>2, SetStatusStep DEF CommitPublish, Commit, rowVars, StatusStep
<1>3. CASE CommitSchedule(o)
  BY <1>0, <1>3, SetStatusStep DEF CommitSchedule, Commit, rowVars, StatusStep
<1>4. CASE UNCHANGED status
  BY <1>4 DEF StatusStep
<1>5. QED
  BY <1>1, <1>2, <1>3, <1>4
     DEF OperatorStep, BeginSelect, BeginPublish, BeginSchedule, Request, rowVars,
         CommitReselect, CommitReschedule, Abandon, Commit

LEMMA JobStepStatus ==
    ASSUME TypeOK, NEW k \in Jobs, JobStep(k), NEW j \in Jobs
    PROVE  StatusStep(j)
<1>0. RowsOK
  BY DEF TypeOK
<1>1. CASE CancelSchedule(k) \/ SkipJob(k) \/ QueueVariants(k) \/ RetryWaitingAI(k)
  BY <1>0, <1>1, SetStatusStep, NamedMoves
     DEF CancelSchedule, SkipJob, QueueVariants, RetryWaitingAI
<1>2. CASE RepairNotice(k)
  BY <1>2 DEF RepairNotice, rowVars, StatusStep
<1>3. QED
  BY <1>1, <1>2 DEF JobStep

LEMMA NextStatus ==
    ASSUME TypeOK, [Next]_vars, NEW j \in Jobs
    PROVE  StatusStep(j)
<1>1. CASE Tick \/ UNCHANGED vars
  BY <1>1 DEF Tick, vars, rowVars, StatusStep
<1>2. QED
  BY <1>1, GeneratorStatus, WorkerStatus, RecovererStatus, OperatorStatus,
     JobStepStatus DEF Next, Work, Faults

\* transition, ClaimStatus and every other writer of post_jobs.status: whatever
\* the processes had read before, the status a row gets is one the table allows
\* from the status it had.
THEOREM TableObeyed == Spec => ObeysTable
<1>1. TypeOK /\ [Next]_vars => [\A j \in Jobs : StatusStep(j)]_vars
  BY NextStatus
<1>2. QED
  BY <1>1, TypeCorrect, PTL DEF Spec, ObeysTable

\* What the table says about a job that has left the operators' hands.
LEMMA NoWayBack ==
    ASSUME TypeOK, [Next]_vars, NEW j \in Jobs
    PROVE  /\ status[j] \in Claimed => status'[j] \in Claimed
           /\ status[j] \in Committed => status'[j] \in Committed
           /\ status[j] \in {"PUBLISHED", "FAILED"} => status'[j] = status[j]
           /\ status[j] = "APPROVED" => status'[j] \in {"APPROVED", "PUBLISHING", "FAILED"}
BY NextStatus DEF StatusStep, CanTransition, allowedTransitions, Claimed, Committed

(***************************************************************************)
(* Summaries: all that the invariants need to know of a step.              *)
(***************************************************************************)

\* A row becomes PUBLISHED with the id, and keeps the one it has otherwise.
Reports(j, id) == status[j] # "PUBLISHED" /\ status'[j] = "PUBLISHED" /\ media'[j] = id

KeepsReport(j) ==
    /\ status'[j] = "PUBLISHED" => status[j] = "PUBLISHED"
    /\ media'[j] = media[j]

\* The processes other than workers publish nothing, and only recovery, having
\* read a success log, reports a job PUBLISHED, with the id it read.
Quiet ==
    /\ UNCHANGED <<workerVars, successLog, posts>>
    /\ \A j \in Jobs :
          \/ KeepsReport(j)
          \/ \E r \in Recoverers :
                /\ rpc[r] = "mark" /\ found[r] # "none" /\ rjob[r] = j
                /\ Reports(j, found[r])

\* A selection survives everything but a later selection, a request for new
\* variants or an overlapping generation; only the last reaches a committed job.
SelectionKept ==
    \A j \in Jobs : status[j] \in Committed => selected'[j] \in {selected[j], NULL}

LEMMA QuietStatus ==
    ASSUME RowsOK, NEW j \in Jobs, NEW k \in Jobs, NEW to,
           SetStatus(k, to), to # "PUBLISHED", status[j] # "PUBLISHED"
    PROVE  status'[j] # "PUBLISHED"
BY DEF RowsOK, SetStatus

\* Recording an outcome reports a job PUBLISHED with the id it is given.
LEMMA RecordReports ==
    ASSUME RowsOK, NEW j \in Jobs, NEW k \in Jobs, NEW outcome \in {"PUBLISHED", "FAILED"},
           NEW id, Record(k, outcome, id)
    PROVE  \/ KeepsReport(j)
           \/ j = k /\ outcome = "PUBLISHED" /\ Reports(j, id)
<1>1. CanTransition(status[k], "PUBLISHED") => status[k] = "PUBLISHING"
  BY StatusLookup DEF CanTransition, allowedTransitions, Status
<1>2. QED
  BY <1>1 DEF Record, Transition, SetStatus, RowsOK, KeepsReport, Reports

LEMMA GeneratorQuiet ==
    ASSUME TypeOK, NEW g \in Generators, GeneratorStep(g) \/ CrashGenerator(g)
    PROVE  Quiet /\ SelectionKept
<1>0. RowsOK /\ (gpc[g] # "idle" => gjob[g] \in Jobs)
  BY DEF TypeOK, GeneratorsOK
<1>1. UNCHANGED <<workerVars, media, successLog, posts>>
  BY DEF GeneratorStep, ClaimVariants, ContextMissing, GenerationFails, ReplaceVariants,
         CompleteAIStage, CrashGenerator, ByGenerator, effectVars
<1>2. ASSUME NEW j \in Jobs, status[j] # "PUBLISHED"
      PROVE  status'[j] # "PUBLISHED"
  BY <1>0, <1>2, QuietStatus
     DEF GeneratorStep, ClaimVariants, ContextMissing, GenerationFails, ReplaceVariants,
         CompleteAIStage, CrashGenerator, Park, Transition, rowVars
<1>3. SelectionKept
  BY <1>0 DEF GeneratorStep, ClaimVariants, ContextMissing, GenerationFails, ReplaceVariants,
              CompleteAIStage, CrashGenerator, rowVars, SelectionKept, RowsOK
<1>4. QED
  BY <1>1, <1>2, <1>3 DEF Quiet, KeepsReport

LEMMA RecovererQuiet ==
    ASSUME TypeOK, NEW r \in Recoverers,
           RecovererStep(r) \/ ReadLogFails(r) \/ RecoverMarkFails(r)
              \/ CrashRecovery(r)
    PROVE  Quiet /\ SelectionKept
<1>0. RowsOK /\ (rpc[r] = "mark" => rjob[r] \in Jobs)
  BY DEF TypeOK, RecoverersOK
<1>1. UNCHANGED <<workerVars, successLog, posts, selected>>
  BY DEF RecovererStep, ListStale, ParkStale, ReadLog, ReadLogFails, AskLog,
         RecoverMark, RecoverMarkFails, RecovererIdle, EndRecovery, CrashRecovery,
         ByRecoverer, effectVars, rowVars
<1>2. ASSUME NEW j \in Jobs
      PROVE  \/ KeepsReport(j)
             \/ /\ rpc[r] = "mark" /\ found[r] # "none" /\ rjob[r] = j
                /\ Reports(j, found[r])
  <2>1. CASE RecoverMark(r)
    <3>1. RecoveredTo(r) \in {"PUBLISHED", "FAILED"}
      BY DEF RecoveredTo
    <3>2. RecoveredTo(r) = "PUBLISHED" => found[r] # "none"
      BY DEF RecoveredTo
    <3>3. rpc[r] = "mark" /\ Record(rjob[r], RecoveredTo(r), found[r])
      BY <2>1 DEF RecoverMark
    <3>4. QED
      BY <1>0, <3>1, <3>2, <3>3, RecordReports
  <2>2. CASE ParkStale(r)
    <3>1. status[j] # "PUBLISHED" => status'[j] # "PUBLISHED"
      BY <1>0, <2>2, QuietStatus DEF ParkStale, Park
    <3>2. QED
      BY <2>2, <3>1 DEF ParkStale, KeepsReport
  <2>3. CASE UNCHANGED rowVars
    BY <2>3 DEF rowVars, KeepsReport
  <2>4. QED
    BY <2>1, <2>2, <2>3
       DEF RecovererStep, ListStale, ReadLog, ReadLogFails, AskLog,
           RecoverMarkFails, RecovererIdle, EndRecovery, CrashRecovery
<1>3. QED
  BY <1>1, <1>2 DEF Quiet, SelectionKept

LEMMA OperatorQuiet ==
    ASSUME TypeOK, NEW o \in Operators, OperatorStep(o)
    PROVE  Quiet /\ SelectionKept
<1>0. RowsOK /\ (opc[o] # "idle" => ojob[o] \in Jobs)
  BY DEF TypeOK, OperatorsOK
<1>1. UNCHANGED <<workerVars, media, successLog, posts>>
  BY DEF OperatorStep, BeginSelect, BeginPublish, BeginSchedule, Request, CommitSelect,
         CommitReselect, CommitPublish, CommitSchedule, CommitReschedule, Abandon,
         Commit, ByOperator, effectVars
<1>2. ASSUME NEW j \in Jobs, status[j] # "PUBLISHED"
      PROVE  status'[j] # "PUBLISHED"
  <2>1. CASE CommitSelect(o) \/ CommitPublish(o) \/ CommitSchedule(o)
    BY <1>0, <1>2, <2>1, QuietStatus
       DEF CommitSelect, CommitPublish, CommitSchedule, Commit, rowVars
  <2>2. CASE UNCHANGED status
    BY <1>2, <2>2
  <2>3. QED
    BY <2>1, <2>2
       DEF OperatorStep, BeginSelect, BeginPublish, BeginSchedule, Request, rowVars,
           CommitReselect, CommitReschedule, Abandon, Commit
<1>3. SelectionKept
  <2>1. CASE CommitSelect(o)
    <3>1. CanTransition(status[ojob[o]], "READY_TO_PUBLISH")
             => status[ojob[o]] \notin Committed
      BY DEF CanTransition, allowedTransitions, Claimed, Committed
    <3>2. QED
      BY <1>0, <2>1, <3>1 DEF CommitSelect, Commit, rowVars, SelectionKept, RowsOK
  <2>2. CASE CommitReselect(o)
    BY <1>0, <2>2 DEF CommitReselect, Commit, Reselectable, rowVars, SelectionKept,
                      RowsOK, Claimed, Committed
  <2>3. CASE UNCHANGED selected
    BY <2>3 DEF SelectionKept
  <2>4. QED
    BY <2>1, <2>2, <2>3
       DEF OperatorStep, BeginSelect, BeginPublish, BeginSchedule, Request, rowVars,
           CommitPublish, CommitSchedule, CommitReschedule, Abandon, Commit
<1>4. QED
  BY <1>1, <1>2, <1>3 DEF Quiet, KeepsReport

LEMMA JobStepQuiet ==
    ASSUME TypeOK, NEW k \in Jobs, JobStep(k)
    PROVE  Quiet /\ SelectionKept
<1>0. RowsOK
  BY DEF TypeOK
<1>1. UNCHANGED <<workerVars, media, successLog, posts>>
  BY DEF JobStep, CancelSchedule, SkipJob, QueueVariants, RetryWaitingAI,
         RepairNotice, ByOperator, rowVars, effectVars
<1>2. ASSUME NEW j \in Jobs, status[j] # "PUBLISHED"
      PROVE  status'[j] # "PUBLISHED"
  BY <1>0, <1>2, QuietStatus
     DEF JobStep, CancelSchedule, SkipJob, QueueVariants, RetryWaitingAI,
         RepairNotice, rowVars
<1>3. SelectionKept
  BY <1>0 DEF JobStep, CancelSchedule, SkipJob, QueueVariants, RetryWaitingAI,
              RepairNotice, rowVars, SelectionKept, RowsOK
<1>4. QED
  BY <1>1, <1>2, <1>3 DEF Quiet, KeepsReport

\* The locals of a worker are its own.
Alone(w) ==
    \A v \in Workers \ {w} :
       /\ pc'[v] = pc[v] /\ job'[v] = job[v] /\ variant'[v] = variant[v]
       /\ todo'[v] = todo[v] /\ pass'[v] = pass[v] /\ live'[v] = live[v]

LEMMA WorkerAlone ==
    ASSUME TypeOK, NEW w \in Workers, WorkerStep(w) \/ CallFails(w) \/ Crash(w)
    PROVE  Alone(w)
<1>0. WorkersOK
  BY DEF TypeOK
<1>1. CASE BeginTick(w) \/ ListApproved(w) \/ NextApproved(w)
  BY <1>0, <1>1 DEF BeginTick, ListApproved, NextApproved, Goto, Alone, WorkersOK
<1>2. CASE ClaimScheduledDue(w)
  BY <1>0, <1>2 DEF ClaimScheduledDue, Goto, Alone, WorkersOK
<1>3. CASE WorkerIdle(w)
  BY <1>0, <1>3 DEF WorkerIdle, Goto, Alone, WorkersOK
<1>4. CASE LoadJob(w) \/ ClaimPublishing(w)
  BY <1>0, <1>4 DEF LoadJob, ClaimPublishing, JobDone, Goto, Alone, WorkersOK
<1>5. CASE LoadVariant(w) \/ PublishImage(w) \/ PublishImageFails(w) \/ LogSuccess(w)
  BY <1>0, <1>5 DEF LoadVariant, PublishImage, PublishImageFails, LogSuccess, Goto,
                    Alone, WorkersOK
<1>6. CASE MarkPublished(w) \/ MarkFailed(w) \/ Notify(w)
  BY <1>0, <1>6 DEF MarkPublished, MarkFailed, MarkOutcome, Notify, JobDone, Goto,
                    Alone, WorkersOK
<1>7. CASE CallFails(w)
  BY <1>0, <1>7 DEF CallFails, JobDone, Goto, Alone, WorkersOK
<1>8. QED
  BY <1>1, <1>2, <1>3, <1>4, <1>5, <1>6, <1>7 DEF WorkerStep, EndTick, Crash

\* A worker becomes an owner by claiming an APPROVED job and otherwise keeps
\* the job and the variant it has; it publishes from "publish" only, logs and
\* marks only afterwards.
Works(w) ==
    /\ pc'[w] \in Owning =>
          /\ job'[w] = job[w] /\ variant'[w] = variant[w] /\ live'[w] = live[w]
          /\ \/ pc[w] \in Owning
             \/ /\ pc[w] = "claim" /\ pc'[w] = "prepare"
                /\ status[job[w]] = "APPROVED" /\ status'[job[w]] = "PUBLISHING"
    /\ pc'[w] \in {"prepare", "publish"} => pc[w] \in {"claim", "prepare"}
    /\ \/ UNCHANGED posts /\ (pc'[w] = "log" => pc[w] = "publish" /\ ~live[w])
       \/ pc[w] = "publish" /\ Posted(w) /\ pc'[w] \in {"log", "fail"}
    /\ pc'[w] = "mark" => pc[w] = "log"
    /\ \/ UNCHANGED successLog
       \/ /\ pc[w] = "log"
          /\ successLog' = [successLog EXCEPT ![job[w]] = MediaID(w)]
    /\ \A j \in Jobs :
          \/ KeepsReport(j)
          \/ /\ pc[w] = "mark" /\ job[w] = j /\ Reports(j, MediaID(w))
             /\ pc'[w] \notin Owning

LEMMA WorkerWorks ==
    ASSUME TypeOK, NEW w \in Workers, WorkerStep(w) \/ CallFails(w) \/ Crash(w)
    PROVE  Works(w) /\ UNCHANGED <<selected, rpc, found, rjob>>
<1>0. RowsOK /\ WorkersOK
  BY DEF TypeOK
<1>a. UNCHANGED <<selected, rpc, found, rjob>>
  BY DEF WorkerStep, BeginTick, ClaimScheduledDue, ListApproved, NextApproved,
         EndTick, WorkerIdle, LoadJob, ClaimPublishing, LoadVariant, PublishImage,
         PublishImageFails, LogSuccess, MarkPublished, MarkFailed, MarkOutcome,
         Notify, CallFails, Crash, ByWorker, recovererVars, rowVars
<1>. SUFFICES Works(w)
  BY <1>a
<1>b. pc[w] \notin {"idle", "next"} => job[w] \in Jobs
  BY <1>0 DEF WorkersOK
<1>1. CASE BeginTick(w)
  BY <1>0, <1>1 DEF BeginTick, Goto, rowVars, effectVars, Works, KeepsReport,
                    WorkersOK, Owning
<1>2. CASE ClaimScheduledDue(w)
  <2>1. ASSUME NEW j \in Jobs, status[j] # "PUBLISHED"
        PROVE  status'[j] # "PUBLISHED"
    BY <1>0, <1>2, <2>1, QuietStatus DEF ClaimScheduledDue, WorkersOK
  <2>2. QED
    BY <1>0, <1>2, <2>1 DEF ClaimScheduledDue, Goto, effectVars, Works, KeepsReport,
                            WorkersOK, Owning
<1>3. CASE ListApproved(w)
  BY <1>0, <1>3 DEF ListApproved, rowVars, effectVars, Works, KeepsReport,
                    WorkersOK, Owning
<1>4. CASE NextApproved(w)
  BY <1>0, <1>4 DEF NextApproved, Goto, rowVars, effectVars, Works, KeepsReport,
                    WorkersOK, Owning
<1>5. CASE WorkerIdle(w)
  BY <1>0, <1>5 DEF WorkerIdle, Goto, rowVars, effectVars, Works, KeepsReport,
                    WorkersOK, Owning
<1>6. CASE LoadJob(w)
  BY <1>0, <1>6 DEF LoadJob, JobDone, Goto, rowVars, effectVars, Works, KeepsReport,
                    WorkersOK, Owning
<1>7. CASE ClaimPublishing(w)
  <2>1. ASSUME NEW j \in Jobs, status[j] # "PUBLISHED"
        PROVE  status'[j] # "PUBLISHED"
    BY <1>0, <1>7, <1>b, <2>1, QuietStatus DEF ClaimPublishing
  <2>2. Claimable(job[w]) => status'[job[w]] = "PUBLISHING"
    BY <1>0, <1>7, <1>b DEF ClaimPublishing, SetStatus, RowsOK
  <2>3. QED
    BY <1>0, <1>7, <2>1, <2>2
       DEF ClaimPublishing, Claimable, JobDone, Goto, effectVars, Works, KeepsReport,
           WorkersOK, Owning
<1>8. CASE LoadVariant(w)
  BY <1>0, <1>8 DEF LoadVariant, Goto, rowVars, effectVars, Works, KeepsReport,
                    WorkersOK, Owning
<1>9. CASE PublishImage(w)
  BY <1>0, <1>9 DEF PublishImage, Goto, rowVars, Works, KeepsReport, WorkersOK, Owning
<1>10. CASE PublishImageFails(w)
  BY <1>0, <1>10 DEF PublishImageFails, Goto, rowVars, Works, KeepsReport, WorkersOK, Owning
<1>11. CASE LogSuccess(w)
  BY <1>0, <1>11 DEF LogSuccess, Goto, rowVars, Works, KeepsReport, WorkersOK, Owning
<1>12. CASE MarkPublished(w)
  <2>1. pc[w] = "mark" /\ Record(job[w], "PUBLISHED", MediaID(w)) /\ job[w] \in Jobs
    BY <1>12, <1>b DEF MarkPublished, MarkOutcome
  <2>2. \A j \in Jobs : KeepsReport(j) \/ (j = job[w] /\ Reports(j, MediaID(w)))
    BY <1>0, <2>1, RecordReports
  <2>3. QED
    BY <1>0, <1>12, <2>1, <2>2
       DEF MarkPublished, MarkOutcome, JobDone, Goto, effectVars, Works, WorkersOK, Owning
<1>13. CASE MarkFailed(w)
  <2>1. pc[w] = "fail" /\ Record(job[w], "FAILED", MediaID(w)) /\ job[w] \in Jobs
    BY <1>13, <1>b DEF MarkFailed, MarkOutcome
  <2>2. \A j \in Jobs : KeepsReport(j)
    BY <1>0, <2>1, RecordReports
  <2>3. QED
    BY <1>0, <1>13, <2>1, <2>2
       DEF MarkFailed, MarkOutcome, JobDone, Goto, effectVars, Works, WorkersOK, Owning
<1>14. CASE Notify(w)
  BY <1>0, <1>14 DEF Notify, JobDone, Goto, rowVars, Works, KeepsReport, WorkersOK, Owning
<1>15. CASE CallFails(w)
  BY <1>0, <1>15 DEF CallFails, JobDone, Goto, rowVars, effectVars, Works, KeepsReport,
                    WorkersOK, Owning
<1>16. QED
  BY <1>1, <1>2, <1>3, <1>4, <1>5, <1>6, <1>7, <1>8, <1>9, <1>10, <1>11, <1>12,
     <1>13, <1>14, <1>15 DEF WorkerStep, EndTick, Crash

LEMMA NextSummary ==
    ASSUME TypeOK, [Next]_vars
    PROVE  \/ Quiet /\ SelectionKept
           \/ \E w \in Workers :
                 Alone(w) /\ Works(w) /\ UNCHANGED <<selected, rpc, found, rjob>>
<1>1. CASE Tick \/ UNCHANGED vars
  BY <1>1 DEF Tick, vars, rowVars, effectVars, Quiet, KeepsReport, SelectionKept
<1>2. QED
  BY <1>1, GeneratorQuiet, WorkerAlone, WorkerWorks, RecovererQuiet, OperatorQuiet, JobStepQuiet
     DEF Next, Work, Faults

(***************************************************************************)
(* The parts of the invariant, one by one.                                 *)
(***************************************************************************)

LEMMA OwnerHasJob ==
    ASSUME TypeOK, NEW w \in Workers, pc[w] \in Owning
    PROVE  job[w] \in Jobs
BY DEF TypeOK, WorkersOK, Owning

\* The claim is the only way to become an owner, and an APPROVED job has none.
LEMMA OwnershipKept ==
    ASSUME TypeOK, [Next]_vars, Ownership
    PROVE  Ownership'
<1>1. CASE Quiet
  BY <1>1, OwnerHasJob, NoWayBack DEF Quiet, workerVars, Ownership
<1>2. ASSUME NEW w \in Workers, Alone(w), Works(w)
      PROVE  Ownership'
  <2>1. ASSUME NEW v \in Workers, pc'[v] \in Owning
        PROVE  status'[job'[v]] \in Claimed
    <3>1. CASE v # w
      BY <1>2, <2>1, <3>1, OwnerHasJob, NoWayBack DEF Alone, Ownership
    <3>2. CASE v = w /\ pc[w] \in Owning
      BY <1>2, <2>1, <3>2, OwnerHasJob, NoWayBack DEF Works, Ownership
    <3>3. CASE v = w /\ pc[w] \notin Owning
      BY <1>2, <2>1, <3>3 DEF Works, Claimed
    <3>4. QED
      BY <3>1, <3>2, <3>3
  <2>2. ASSUME NEW u \in Workers, NEW v \in Workers, pc'[u] \in Owning,
               pc'[v] \in Owning, job'[u] = job'[v]
        PROVE  u = v
    <3>1. ASSUME NEW x \in Workers, x # w, pc'[x] \in Owning, pc'[w] \in Owning,
                 job'[x] = job'[w]
          PROVE  FALSE
      <4>1. pc[x] \in Owning /\ job[x] = job[w]
        BY <1>2, <3>1 DEF Alone, Works
      <4>2. status[job[w]] \in Claimed
        BY <4>1 DEF Ownership
      <4>3. pc[w] \in Owning
        BY <1>2, <3>1, <4>2 DEF Works, Claimed
      <4>4. QED
        BY <3>1, <4>1, <4>3 DEF Ownership
    <3>2. CASE u = w \/ v = w
      BY <2>2, <3>1, <3>2
    <3>3. CASE u # w /\ v # w
      BY <1>2, <2>2, <3>3 DEF Alone, Ownership
    <3>4. QED
      BY <3>2, <3>3
  <2>3. QED
    BY <2>1, <2>2 DEF Ownership
<1>3. QED
  BY <1>1, <1>2, NextSummary

\* What one publishing step does to Instagram.
LEMMA PostsAfter ==
    ASSUME TypeOK, NEW w \in Workers, pc[w] = "publish", Posted(w), OwnersPosts
    PROVE  /\ job[w] \in Jobs
           /\ posts'[job[w]] = <<variant[w]>>
           /\ \A j \in Jobs \ {job[w]} : posts'[j] = posts[j]
<1>1. job[w] \in Jobs /\ posts[job[w]] = <<>>
  BY OwnerHasJob DEF Owning, OwnersPosts
<1>2. QED
  BY <1>1 DEF Posted, TypeOK, EffectsOK

LEMMA OwnersPostsKept ==
    ASSUME TypeOK, [Next]_vars, Ownership, JobsPosts, LogsRead, OwnersPosts
    PROVE  OwnersPosts'
<1>1. CASE Quiet
  <2>1. ASSUME NEW w \in Workers, pc[w] \in {"prepare", "publish"}
        PROVE  status'[job[w]] # "PUBLISHED"
    <3>1. job[w] \in Jobs
      BY <2>1, OwnerHasJob DEF Owning
    <3>2. status[job[w]] # "PUBLISHED" /\ successLog[job[w]] = "none"
      BY <2>1 DEF OwnersPosts
    <3>3. \A r \in Recoverers :
             ~(rpc[r] = "mark" /\ found[r] # "none" /\ rjob[r] = job[w])
      BY <3>2 DEF LogsRead
    <3>4. QED
      BY <1>1, <3>1, <3>2, <3>3 DEF Quiet, KeepsReport
  <2>2. QED
    BY <1>1, <2>1 DEF Quiet, workerVars, OwnersPosts, MediaID, TrueID
<1>2. ASSUME NEW w \in Workers, Alone(w), Works(w)
      PROVE  OwnersPosts'
  <2>1. ASSUME NEW v \in Workers, v # w, pc'[v] \in Owning
        PROVE  /\ posts'[job'[v]] = posts[job[v]]
               /\ successLog'[job'[v]] = successLog[job[v]]
               /\ status[job[v]] # "PUBLISHED" => status'[job'[v]] # "PUBLISHED"
               /\ pc'[v] = pc[v] /\ job'[v] = job[v] /\ live'[v] = live[v]
    <3>1. /\ pc[v] \in Owning /\ pc'[v] = pc[v] /\ job'[v] = job[v]
          /\ live'[v] = live[v] /\ job[v] \in Jobs
      BY <1>2, <2>1, OwnerHasJob DEF Alone
    <3>2. pc[w] \in Owning => job[v] # job[w]
      BY <2>1, <3>1 DEF Ownership
    <3>3. posts'[job[v]] = posts[job[v]]
      <4>1. CASE UNCHANGED posts
        BY <4>1
      <4>2. CASE pc[w] = "publish" /\ Posted(w)
        BY <3>1, <3>2, <4>2, PostsAfter DEF Owning
      <4>3. QED
        BY <1>2, <4>1, <4>2 DEF Works
    <3>4. successLog'[job[v]] = successLog[job[v]]
      BY <1>2, <3>1, <3>2 DEF Works, Owning, TypeOK, EffectsOK
    <3>5. status[job[v]] # "PUBLISHED" => status'[job[v]] # "PUBLISHED"
      BY <1>2, <3>1, <3>2 DEF Works, Owning, KeepsReport
    <3>6. QED
      BY <3>1, <3>3, <3>4, <3>5
  <2>2. ASSUME pc'[w] \in {"prepare", "publish"}
        PROVE  /\ posts'[job'[w]] = <<>>
               /\ successLog'[job'[w]] = "none"
               /\ status'[job'[w]] # "PUBLISHED"
    <3>1. /\ job'[w] = job[w] /\ UNCHANGED <<posts, successLog>>
          /\ pc[w] \in {"claim", "prepare"} /\ job[w] \in Jobs
      BY <1>2, <2>2 DEF Works, Owning, TypeOK, WorkersOK
    <3>2. CASE pc[w] = "prepare"
      <4>1. KeepsReport(job[w])
        BY <1>2, <3>1, <3>2 DEF Works
      <4>2. QED
        BY <3>1, <3>2, <4>1 DEF OwnersPosts, KeepsReport
    <3>3. CASE pc[w] = "claim"
      <4>1. status[job[w]] = "APPROVED" /\ status'[job[w]] = "PUBLISHING"
        BY <1>2, <2>2, <3>3 DEF Works, Owning
      <4>2. QED
        BY <3>1, <4>1 DEF JobsPosts, Claimed
    <3>4. QED
      BY <3>1, <3>2, <3>3
  <2>3. ASSUME pc'[w] \in {"log", "mark"}
        PROVE  MediaID(w)' = TrueID(job[w])' /\ job'[w] = job[w]
    <3>1. job'[w] = job[w] /\ live'[w] = live[w]
      BY <1>2, <2>3 DEF Works, Owning
    <3>2. CASE pc'[w] = "mark"
      BY <1>2, <3>1, <3>2 DEF Works, OwnersPosts, MediaID, TrueID
    <3>3. CASE /\ pc'[w] = "log" /\ pc[w] = "publish"
               /\ UNCHANGED posts /\ ~live[w]
      BY <3>1, <3>3 DEF OwnersPosts, MediaID, TrueID
    <3>4. CASE pc'[w] = "log" /\ pc[w] = "publish" /\ Posted(w)
      <4>1. posts'[job[w]] = <<variant[w]>> /\ live[w]
        BY <3>4, PostsAfter DEF Posted
      <4>2. QED
        BY <3>1, <4>1 DEF MediaID, TrueID
    <3>5. QED
      BY <1>2, <2>3, <3>2, <3>3, <3>4 DEF Works
  <2>4. ASSUME NEW v \in Workers
        PROVE  /\ pc'[v] \in {"prepare", "publish"} =>
                     /\ posts'[job'[v]] = <<>>
                     /\ successLog'[job'[v]] = "none"
                     /\ status'[job'[v]] # "PUBLISHED"
               /\ pc'[v] \in {"log", "mark"} => MediaID(v)' = TrueID(job[v])'
    <3>1. CASE v = w
      BY <2>2, <2>3, <3>1
    <3>2. CASE v # w
      BY <2>1, <3>2 DEF Owning, OwnersPosts, MediaID, TrueID
    <3>3. QED
      BY <3>1, <3>2
  <2>5. QED
    BY <2>4 DEF OwnersPosts
<1>3. QED
  BY <1>1, <1>2, NextSummary

LEMMA JobsPostsKept ==
    ASSUME TypeOK, [Next]_vars, Ownership, OwnersPosts, LogsRead, JobsPosts
    PROVE  JobsPosts'
<1> DEFINE Good(j) ==
              /\ Len(posts[j]) <= 1
              /\ posts[j] # <<>> \/ successLog[j] # "none" => status[j] \in Claimed
              /\ status[j] = "PUBLISHED" => media[j] = TrueID(j)
              /\ successLog[j] # "none" => successLog[j] = TrueID(j)
<1> SUFFICES ASSUME NEW j \in Jobs
             PROVE  Good(j)'
  BY DEF JobsPosts
<1>a. Good(j)
  BY DEF JobsPosts
<1>0. status[j] \in Claimed => status'[j] \in Claimed
  BY NoWayBack
<1>1. CASE Quiet
  <2>1. TrueID(j)' = TrueID(j)
    BY <1>1 DEF Quiet, TrueID
  <2>2. status'[j] = "PUBLISHED" => media'[j] = TrueID(j)
    BY <1>a, <1>1 DEF Quiet, KeepsReport, Reports, LogsRead
  <2>3. QED
    BY <1>a, <1>0, <1>1, <2>1, <2>2 DEF Quiet
<1>2. ASSUME NEW w \in Workers, Alone(w), Works(w)
      PROVE  Good(j)'
  <2>1. \/ posts'[j] = posts[j]
        \/ pc[w] = "publish" /\ job[w] = j /\ posts'[j] = <<variant[w]>>
    <3>1. CASE UNCHANGED posts
      BY <3>1
    <3>2. CASE pc[w] = "publish" /\ Posted(w)
      BY <3>2, PostsAfter
    <3>3. QED
      BY <1>2, <3>1, <3>2 DEF Works
  <2>2. \/ successLog'[j] = successLog[j]
        \/ pc[w] = "log" /\ job[w] = j /\ successLog'[j] = MediaID(w)
    BY <1>2 DEF Works, TypeOK, EffectsOK
  <2>3. KeepsReport(j) \/ (pc[w] = "mark" /\ job[w] = j /\ Reports(j, MediaID(w)))
    BY <1>2 DEF Works
  <2>4. CASE pc[w] = "publish" /\ job[w] = j /\ posts'[j] = <<variant[w]>>
    <3>1. successLog'[j] = "none" /\ status'[j] # "PUBLISHED"
      BY <2>2, <2>3, <2>4 DEF OwnersPosts, KeepsReport
    <3>2. status'[j] \in Claimed
      BY <1>0, <2>4 DEF Ownership, Owning
    <3>3. Len(posts'[j]) <= 1
      BY <2>4
    <3>4. QED
      BY <3>1, <3>2, <3>3
  <2>5. CASE posts'[j] = posts[j]
    <3>1. TrueID(j)' = TrueID(j)
      BY <2>5 DEF TrueID
    <3>2. pc[w] \in {"log", "mark"} /\ job[w] = j => MediaID(w) = TrueID(j)
      BY DEF OwnersPosts
    <3>3. pc[w] = "log" /\ job[w] = j => status[j] \in Claimed
      BY DEF Ownership, Owning
    <3>4. status'[j] = "PUBLISHED" => media'[j] = TrueID(j)
      BY <1>a, <2>3, <3>2 DEF KeepsReport, Reports
    <3>5. successLog'[j] # "none" => successLog'[j] = TrueID(j)
      BY <1>a, <2>2, <3>2
    <3>6. posts'[j] # <<>> \/ successLog'[j] # "none" => status'[j] \in Claimed
      BY <1>a, <1>0, <2>2, <2>5, <3>3
    <3>7. QED
      BY <1>a, <2>5, <3>1, <3>4, <3>5, <3>6
  <2>6. QED
    BY <2>1, <2>4, <2>5
<1>3. QED
  BY <1>1, <1>2, NextSummary

\* A success log is never deleted or changed, and recovery only believes what
\* it read.
LEMMA LogsReadKept ==
    ASSUME TypeOK, [Next]_vars, OwnersPosts, JobsPosts, LogsRead
    PROVE  LogsRead'
<1>0. \A j \in Jobs : successLog[j] # "none" => successLog'[j] = successLog[j]
  <2>1. ASSUME NEW w \in Workers, Works(w), NEW j \in Jobs, successLog[j] # "none"
        PROVE  successLog'[j] = successLog[j]
    <3>1. pc[w] = "log" /\ job[w] = j => MediaID(w) = successLog[j]
      BY <2>1 DEF OwnersPosts, JobsPosts
    <3>2. QED
      BY <2>1, <3>1 DEF Works, TypeOK, EffectsOK
  <2>2. QED
    BY <2>1, NextSummary DEF Quiet
<1>1. ASSUME NEW r \in Recoverers,
             RecovererStep(r) \/ ReadLogFails(r) \/ RecoverMarkFails(r)
                \/ CrashRecovery(r)
      PROVE  LogsRead'
  <2>1. ASSUME NEW q \in Recoverers, q # r
        PROVE  rpc'[q] = rpc[q] /\ rjob'[q] = rjob[q] /\ found'[q] = found[q]
    BY <1>1, <2>1
       DEF RecovererStep, ListStale, ParkStale, ReadLog, ReadLogFails, AskLog,
           RecoverMark, RecoverMarkFails, RecovererDone, RecovererIdle, EndRecovery,
           CrashRecovery, TypeOK, RecoverersOK
  <2>2. rpc'[r] = "mark" /\ found'[r] # "none" =>
           successLog[rjob'[r]] = found'[r] /\ rjob'[r] \in Jobs
    <3>1. CASE ReadLog(r) \/ ReadLogFails(r)
      <4>1. PICK j \in Jobs : /\ rjob' = [rjob EXCEPT ![r] = j]
                              /\ \/ found' = [found EXCEPT ![r] = successLog[j]]
                                 \/ found' = [found EXCEPT ![r] = "none"]
        BY <3>1 DEF ReadLog, ReadLogFails, AskLog
      <4>2. rjob'[r] = j /\ (found'[r] = successLog[j] \/ found'[r] = "none")
        BY <4>1 DEF TypeOK, RecoverersOK
      <4>3. QED
        BY <4>2
    <3>2. CASE ~(ReadLog(r) \/ ReadLogFails(r))
      BY <1>1, <3>2
         DEF RecovererStep, ListStale, ParkStale, RecoverMark, RecoverMarkFails,
             RecovererDone, RecovererIdle, EndRecovery, CrashRecovery, TypeOK,
             RecoverersOK
    <3>3. QED
      BY <3>1, <3>2
  <2>3. ASSUME NEW q \in Recoverers, rpc'[q] = "mark", found'[q] # "none"
        PROVE  successLog'[rjob'[q]] = found'[q]
    <3>1. CASE q = r
      BY <1>0, <2>2, <2>3, <3>1
    <3>2. CASE q # r
      BY <1>0, <2>1, <2>3, <3>2 DEF LogsRead, TypeOK, RecoverersOK
    <3>3. QED
      BY <3>1, <3>2
  <2>4. QED
    BY <2>3 DEF LogsRead
<1>2. CASE UNCHANGED recovererVars
  BY <1>0, <1>2 DEF LogsRead, recovererVars, TypeOK, RecoverersOK
<1>3. QED
  <2>1. CASE \E g \in Generators : GeneratorStep(g) \/ CrashGenerator(g)
    BY <1>2, <2>1 DEF GeneratorStep, ClaimVariants, ContextMissing, GenerationFails, ReplaceVariants,
                      CompleteAIStage, CrashGenerator, ByGenerator
  <2>2. CASE \E w \in Workers : WorkerStep(w) \/ CallFails(w) \/ Crash(w)
    BY <1>2, <2>2 DEF WorkerStep, BeginTick, ClaimScheduledDue, ListApproved,
         NextApproved, EndTick, WorkerIdle, LoadJob, ClaimPublishing, LoadVariant,
         PublishImage, PublishImageFails, LogSuccess, MarkPublished, MarkFailed,
         MarkOutcome, Notify, CallFails, Crash, ByWorker
  <2>3. CASE \E o \in Operators : OperatorStep(o)
    BY <1>2, <2>3 DEF OperatorStep, BeginSelect, BeginPublish, BeginSchedule, Request,
         CommitSelect, CommitReselect, CommitPublish, CommitSchedule,
         CommitReschedule, Abandon, Commit, ByOperator
  <2>4. CASE \E j \in Jobs : JobStep(j)
    BY <1>2, <2>4 DEF JobStep, CancelSchedule, SkipJob, QueueVariants,
         RetryWaitingAI, RepairNotice, ByOperator
  <2>5. CASE Tick \/ UNCHANGED vars
    BY <1>2, <2>5 DEF Tick, vars
  <2>6. QED
    BY <1>1, <2>1, <2>2, <2>3, <2>4, <2>5 DEF Next, Work, Faults

(***************************************************************************)
(* At most one post.                                                       *)
(***************************************************************************)

OneOwnerOnePost == Ownership /\ OwnersPosts /\ JobsPosts /\ LogsRead

LEMMA OneOwnerOnePostHolds == Spec => []OneOwnerOnePost
<1>1. Init => OneOwnerOnePost
  BY DEF Init, OneOwnerOnePost, Ownership, OwnersPosts, JobsPosts, LogsRead, Owning
<1>2. TypeOK /\ OneOwnerOnePost /\ [Next]_vars => OneOwnerOnePost'
  BY OwnershipKept, OwnersPostsKept, JobsPostsKept, LogsReadKept DEF OneOwnerOnePost
<1>3. QED
  BY <1>1, <1>2, TypeCorrect, PTL DEF Spec

\* PublishJob and ClaimStatus: with any number of instances, whatever fails and
\* whenever recovery takes a slow worker for dead, Instagram shows a job once.
THEOREM PostedOnce == Spec => []AtMostOnePost
<1>1. OneOwnerOnePost => AtMostOnePost
  BY DEF OneOwnerOnePost, JobsPosts, AtMostOnePost
<1>2. QED
  BY <1>1, OneOwnerOnePostHolds, PTL

\* MarkPublished and RecoverStaleJobs: a PUBLISHED row with the id of a post is
\* about a post that is on Instagram, and one with the id of a dry run is not,
\* however instances with and without publish_enabled are mixed.
THEOREM ReportedIsPosted == Spec => []PublishedIsPosted
<1>1. OneOwnerOnePost => PublishedIsPosted
  BY DEF OneOwnerOnePost, JobsPosts, PublishedIsPosted
<1>2. QED
  BY <1>1, OneOwnerOnePostHolds, PTL
=============================================================================
