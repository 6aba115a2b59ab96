------------------------- MODULE PublishingOutcomes -------------------------
(***************************************************************************)
(* More of what publishing promises, proved from the summaries of its      *)
(* steps: the operator is told the outcome the job has, Instagram shows    *)
(* the variant the row names, and no schedule is overtaken by a worker.    *)
(* Of what the code does not promise, the exact cause: a job approved      *)
(* early, a selection erased, a failed job that is on Instagram.           *)
(***************************************************************************)
EXTENDS PublishingProofs

(***************************************************************************)
(* Notices.                                                                *)
(***************************************************************************)

\* A notice is enqueued by a worker at its notice step, or repaired from the
\* row; the worker gets there by writing the outcome.
WorkerNotes(w) ==
    /\ pc'[w] = "notePublished" => status'[job'[w]] = "PUBLISHED"
    /\ pc'[w] = "noteFailed" => status'[job'[w]] = "FAILED"
    /\ \A j \in Jobs :
          /\ "published" \in notices'[j] =>
                \/ "published" \in notices[j]
                \/ pc[w] = "notePublished" /\ job[w] = j
          /\ "job-failed" \in notices'[j] =>
                \/ "job-failed" \in notices[j]
                \/ pc[w] = "noteFailed" /\ job[w] = j

RowNotes ==
    \A j \in Jobs :
       /\ "published" \in notices'[j] => "published" \in notices[j] \/ status[j] = "PUBLISHED"
       /\ "job-failed" \in notices'[j] => "job-failed" \in notices[j] \/ status[j] = "FAILED"

LEMMA WorkerNotesStep ==
    ASSUME TypeOK, NEW w \in Workers, WorkerStep(w) \/ CallFails(w) \/ Crash(w)
    PROVE  WorkerNotes(w)
<1>0. RowsOK /\ WorkersOK /\ EffectsOK
  BY DEF TypeOK
<1>1. CASE MarkPublished(w) \/ MarkFailed(w)
  <2>1. job[w] \in Jobs
    BY <1>0, <1>1 DEF MarkPublished, MarkFailed, MarkOutcome, WorkersOK
  <2>2. pc'[w] = "notePublished" => status'[job'[w]] = "PUBLISHED"
    BY <1>0, <1>1, <2>1
       DEF MarkPublished, MarkFailed, MarkOutcome, Record, Transition, SetStatus, JobDone, Goto,
           RowsOK, WorkersOK
  <2>3. pc'[w] = "noteFailed" => status'[job'[w]] = "FAILED"
    BY <1>0, <1>1, <2>1
       DEF MarkPublished, MarkFailed, MarkOutcome, Record, Transition, SetStatus, JobDone, Goto,
           RowsOK, WorkersOK
  <2>4. UNCHANGED notices
    BY <1>1 DEF MarkPublished, MarkFailed, MarkOutcome, effectVars
  <2>5. QED
    BY <2>2, <2>3, <2>4 DEF WorkerNotes
<1>2. CASE Notify(w)
  <2>1. pc'[w] = "next"
    BY <1>0, <1>2 DEF Notify, JobDone, Goto, WorkersOK
  <2>2. QED
    BY <1>0, <1>2, <2>1 DEF Notify, WorkerNotes, EffectsOK
<1>3. CASE ~(MarkPublished(w) \/ MarkFailed(w) \/ Notify(w))
  <2>1. pc'[w] \notin {"notePublished", "noteFailed"}
    BY <1>0, <1>3
       DEF WorkerStep, BeginTick, ClaimScheduledDue, ListApproved, NextApproved, EndTick,
           WorkerIdle, LoadJob, ClaimPublishing, LoadVariant, PublishImage,
           PublishImageFails, LogSuccess, CallFails, Crash, JobDone, Goto, WorkersOK
  <2>2. UNCHANGED notices
    BY <1>3
       DEF WorkerStep, BeginTick, ClaimScheduledDue, ListApproved, NextApproved, EndTick,
           WorkerIdle, LoadJob, ClaimPublishing, LoadVariant, PublishImage,
           PublishImageFails, LogSuccess, CallFails, Crash, effectVars
  <2>3. QED
    BY <2>1, <2>2 DEF WorkerNotes
<1>4. QED
  BY <1>1, <1>2, <1>3

LEMMA RowNotesStep ==
    ASSUME TypeOK, [Next]_vars,
           ~ \E w \in Workers : WorkerStep(w) \/ CallFails(w) \/ Crash(w)
    PROVE  RowNotes /\ UNCHANGED workerVars
<1>1. CASE \E g \in Generators : GeneratorStep(g) \/ CrashGenerator(g)
  BY <1>1 DEF GeneratorStep, ClaimVariants, ContextMissing, GenerationFails, ReplaceVariants,
              CompleteAIStage, CrashGenerator, ByGenerator, effectVars, RowNotes
<1>2. CASE \E r \in Recoverers : RecovererStep(r) \/ ReadLogFails(r)
                                    \/ RecoverMarkFails(r) \/ CrashRecovery(r)
  BY <1>2 DEF RecovererStep, ListStale, ParkStale, ReadLog, ReadLogFails, AskLog,
              RecoverMark, RecoverMarkFails, RecovererIdle, EndRecovery, CrashRecovery,
              ByRecoverer, effectVars, RowNotes
<1>3. CASE \E o \in Operators : OperatorStep(o)
  BY <1>3 DEF OperatorStep, BeginSelect, BeginPublish, BeginSchedule, Request,
              CommitSelect, CommitReselect, CommitPublish, CommitSchedule,
              CommitReschedule, Abandon, Commit, ByOperator, effectVars, RowNotes
<1>4. CASE \E j \in Jobs : RepairNotice(j)
  <2>1. PICK j \in Jobs : RepairNotice(j)
    BY <1>4
  <2>2. \A k \in Jobs \ {j} : notices'[k] = notices[k]
    BY <2>1 DEF RepairNotice, TypeOK, EffectsOK
  <2>3. \/ status[j] = "PUBLISHED" /\ notices'[j] = notices[j] \cup {"published"}
        \/ status[j] = "FAILED" /\ notices'[j] = notices[j] \cup {"job-failed"}
    BY <2>1 DEF RepairNotice, TypeOK, EffectsOK
  <2>4. UNCHANGED workerVars
    BY <2>1 DEF RepairNotice
  <2>5. QED
    BY <2>2, <2>3, <2>4 DEF RowNotes
<1>5. CASE \E j \in Jobs : \/ CancelSchedule(j) \/ SkipJob(j) \/ QueueVariants(j)
                           \/ RetryWaitingAI(j)
  BY <1>5 DEF CancelSchedule, SkipJob, QueueVariants, RetryWaitingAI, ByOperator,
              effectVars, RowNotes
<1>6. CASE Tick \/ UNCHANGED vars
  BY <1>6 DEF Tick, vars, effectVars, RowNotes
<1>7. QED
  BY <1>1, <1>2, <1>3, <1>4, <1>5, <1>6 DEF Next, Work, Faults, JobStep

LEMMA NoticesKept ==
    ASSUME TypeOK, [Next]_vars, NoticesDue, NoticeMatchesOutcome
    PROVE  NoticesDue' /\ NoticeMatchesOutcome'
<1>0. \A j \in Jobs : status[j] \in {"PUBLISHED", "FAILED"} => status'[j] = status[j]
  BY NoWayBack
<1>a. \A v \in Workers : pc[v] \in {"notePublished", "noteFailed"} => job[v] \in Jobs
  BY DEF TypeOK, WorkersOK
<1>1. ASSUME NEW w \in Workers, WorkerStep(w) \/ CallFails(w) \/ Crash(w)
      PROVE  NoticesDue' /\ NoticeMatchesOutcome'
  <2>1. Alone(w) /\ WorkerNotes(w)
    BY <1>1, WorkerAlone, WorkerNotesStep
  <2>2. NoticesDue'
    <3>1. ASSUME NEW v \in Workers, v # w
          PROVE  /\ pc'[v] = "notePublished" => status'[job'[v]] = "PUBLISHED"
                 /\ pc'[v] = "noteFailed" => status'[job'[v]] = "FAILED"
      BY <1>0, <1>a, <2>1, <3>1 DEF Alone, NoticesDue
    <3>2. QED
      BY <2>1, <3>1 DEF WorkerNotes, NoticesDue
  <2>3. NoticeMatchesOutcome'
    BY <1>0, <2>1 DEF WorkerNotes, NoticesDue, NoticeMatchesOutcome
  <2>4. QED
    BY <2>2, <2>3
<1>2. CASE RowNotes /\ UNCHANGED workerVars
  <2>1. NoticesDue'
    BY <1>0, <1>a, <1>2 DEF workerVars, NoticesDue
  <2>2. NoticeMatchesOutcome'
    BY <1>0, <1>2 DEF RowNotes, NoticeMatchesOutcome
  <2>3. QED
    BY <2>1, <2>2
<1>3. QED
  BY <1>1, <1>2, RowNotesStep

\* PublishJob, fail and RepairNotifications: the operator is never told that a
\* job was published or failed unless the job is, and stays, in that state.
THEOREM NoticesAreTrue == Spec => []NoticeMatchesOutcome
<1>1. Init => NoticesDue /\ NoticeMatchesOutcome
  BY DEF Init, NoticesDue, NoticeMatchesOutcome
<1>2. TypeOK /\ NoticesDue /\ NoticeMatchesOutcome /\ [Next]_vars
         => (NoticesDue /\ NoticeMatchesOutcome)'
  BY NoticesKept
<1>3. QED
  BY <1>1, <1>2, TypeCorrect, PTL DEF Spec

(***************************************************************************)
(* The variant that is shown.                                              *)
(***************************************************************************)

\* A worker takes up committed jobs only, and the variant it takes is the one
\* the row names.
WorkerChooses(w) ==
    /\ pass'[w] = "approved" =>
          \A j \in todo'[w] : status[j] \in Committed /\ j \in Jobs
    /\ pc'[w] \in {"load", "claim", "prepare", "publish"} =>
          /\ job'[w] \in Jobs
          /\ status[job'[w]] \in Committed \/ status'[job'[w]] \in Committed
    /\ pc'[w] \in {"claim", "prepare", "publish"} =>
          \/ selected[job'[w]] = variant'[w]
          \/ /\ pc[w] \in {"claim", "prepare", "publish"}
             /\ job'[w] = job[w] /\ variant'[w] = variant[w]

LEMMA WorkerChoosesStep ==
    ASSUME TypeOK, NEW w \in Workers, WorkerStep(w) \/ CallFails(w) \/ Crash(w),
           ChoiceHeld
    PROVE  WorkerChooses(w)
<1>0. RowsOK /\ WorkersOK
  BY DEF TypeOK
<1>1. CASE BeginTick(w) \/ WorkerIdle(w)
  BY <1>0, <1>1 DEF BeginTick, WorkerIdle, Goto, WorkersOK, WorkerChooses
<1>2. CASE ClaimScheduledDue(w)
  <2>1. pass'[w] = "scheduled" /\ pc'[w] \in {"next", "load"}
    BY <1>0, <1>2 DEF ClaimScheduledDue, Goto, WorkersOK
  <2>2. pc'[w] = "load" => job'[w] \in Jobs /\ status'[job'[w]] = "APPROVED"
    BY <1>0, <1>2 DEF ClaimScheduledDue, Goto, SetStatus, WorkersOK, RowsOK
  <2>3. QED
    BY <2>1, <2>2 DEF WorkerChooses, Committed
<1>3. CASE ListApproved(w)
  <2>1. PICK T \in Listing({j \in Jobs : status[j] = "APPROVED"}) :
           todo' = [todo EXCEPT ![w] = T]
    BY <1>3 DEF ListApproved
  <2>2. \A j \in T : j \in Jobs /\ status[j] = "APPROVED"
    BY <2>1, ListingType
  <2>3. pc'[w] = "next" /\ todo'[w] = T
    BY <1>0, <1>3, <2>1 DEF ListApproved, WorkersOK
  <2>4. QED
    BY <2>2, <2>3 DEF WorkerChooses, Committed
<1>4. CASE NextApproved(w)
  <2>1. \A j \in todo[w] : status[j] \in Committed /\ j \in Jobs
    BY <1>0, <1>4 DEF NextApproved, ChoiceHeld, WorkersOK
  <2>2. pc'[w] = "load" /\ job'[w] \in todo[w] /\ todo'[w] \subseteq todo[w]
    BY <1>0, <1>4 DEF NextApproved, Goto, WorkersOK
  <2>3. QED
    BY <2>1, <2>2 DEF WorkerChooses
<1>5. CASE UNCHANGED <<pass, todo>>
  <2>1. pass'[w] = "approved" => \A j \in todo'[w] : status[j] \in Committed /\ j \in Jobs
    BY <1>0, <1>5 DEF ChoiceHeld, WorkersOK
  <2>2. CASE LoadJob(w)
    <3>1. status[job[w]] \in Committed /\ job[w] \in Jobs
      BY <1>0, <2>2 DEF LoadJob, ChoiceHeld, WorkersOK
    <3>2. pc'[w] \in {"claim", "next"}
      BY <1>0, <2>2 DEF LoadJob, JobDone, Goto, WorkersOK
    <3>3. pc'[w] = "claim" => job'[w] = job[w] /\ variant'[w] = selected[job[w]]
      BY <1>0, <2>2 DEF LoadJob, JobDone, Goto, WorkersOK
    <3>4. QED
      BY <2>1, <3>1, <3>2, <3>3 DEF WorkerChooses
  <2>3. CASE ClaimPublishing(w) \/ LoadVariant(w)
    <3>1. status[job[w]] \in Committed /\ job[w] \in Jobs
      BY <1>0, <2>3 DEF ClaimPublishing, LoadVariant, ChoiceHeld, WorkersOK
    <3>2. pc'[w] \in {"prepare", "publish"} => job'[w] = job[w] /\ variant'[w] = variant[w]
      BY <1>0, <2>3 DEF ClaimPublishing, LoadVariant, JobDone, Goto, WorkersOK
    <3>3. pc'[w] \in {"prepare", "publish", "fail", "next"}
      BY <1>0, <2>3 DEF ClaimPublishing, LoadVariant, JobDone, Goto, WorkersOK
    <3>4. pc[w] \in {"claim", "prepare"}
      BY <2>3 DEF ClaimPublishing, LoadVariant
    <3>5. QED
      BY <2>1, <3>1, <3>2, <3>3, <3>4 DEF WorkerChooses
  <2>4. CASE pc'[w] \notin {"load", "claim", "prepare", "publish"}
    BY <2>1, <2>4 DEF WorkerChooses
  <2>5. CASE PublishImage(w) \/ PublishImageFails(w) \/ LogSuccess(w)
    BY <1>0, <2>4, <2>5 DEF PublishImage, PublishImageFails, LogSuccess, Goto, WorkersOK
  <2>6. CASE MarkPublished(w) \/ MarkFailed(w) \/ Notify(w) \/ CallFails(w)
    BY <1>0, <2>4, <2>6 DEF MarkPublished, MarkFailed, MarkOutcome, Notify, CallFails,
                            JobDone, Goto, WorkersOK
  <2>7. CASE BeginTick(w) \/ ClaimScheduledDue(w) \/ ListApproved(w) \/ NextApproved(w)
                \/ WorkerIdle(w)
    BY <1>1, <1>2, <1>3, <1>4, <2>7
  <2>8. QED
    BY <2>2, <2>3, <2>5, <2>6, <2>7 DEF WorkerStep, EndTick, Crash
<1>6. CASE CallFails(w) /\ pc[w] = "next"
  BY <1>0, <1>6 DEF CallFails, WorkersOK, WorkerChooses
<1>7. QED
  BY <1>1, <1>2, <1>3, <1>4, <1>5, <1>6
     DEF WorkerStep, EndTick, Crash, LoadJob, ClaimPublishing, LoadVariant, PublishImage,
         PublishImageFails, LogSuccess, MarkPublished, MarkFailed, MarkOutcome, Notify,
         CallFails

LEMMA ChoiceKept ==
    ASSUME TypeOK, [Next]_vars, ChoiceHeld
    PROVE  ChoiceHeld'
<1>0. \A j \in Jobs : status[j] \in Committed => status'[j] \in Committed
  BY NoWayBack
<1>a. \A v \in Workers :
         /\ todo[v] \subseteq Jobs
         /\ pc[v] \in {"load", "claim", "prepare", "publish"} => job[v] \in Jobs
  BY DEF TypeOK, WorkersOK
<1>1. ASSUME NEW w \in Workers, WorkerStep(w) \/ CallFails(w) \/ Crash(w)
      PROVE  ChoiceHeld'
  <2>1. Alone(w) /\ WorkerChooses(w) /\ UNCHANGED selected
    BY <1>1, WorkerAlone, WorkerChoosesStep, WorkerWorks
  <2>2. ASSUME NEW v \in Workers
        PROVE  /\ pass'[v] = "approved" => \A j \in todo'[v] : status'[j] \in Committed
               /\ pc'[v] \in {"load", "claim", "prepare", "publish"} =>
                     status'[job'[v]] \in Committed
               /\ pc'[v] \in {"claim", "prepare", "publish"} =>
                     selected'[job'[v]] \in {variant'[v], NULL}
    <3>1. CASE v = w
      BY <1>0, <2>1, <3>1 DEF WorkerChooses, ChoiceHeld
    <3>2. CASE v # w
      BY <1>0, <1>a, <2>1, <3>2 DEF Alone, ChoiceHeld
    <3>3. QED
      BY <3>1, <3>2
  <2>3. QED
    BY <2>2 DEF ChoiceHeld
<1>2. CASE SelectionKept /\ UNCHANGED workerVars
  BY <1>0, <1>a, <1>2 DEF SelectionKept, workerVars, ChoiceHeld
<1>3. CASE Tick \/ UNCHANGED vars
  BY <1>2, <1>3 DEF Tick, vars, rowVars, SelectionKept
<1>4. QED
  BY <1>1, <1>2, <1>3, GeneratorQuiet, RecovererQuiet, OperatorQuiet, JobStepQuiet
     DEF Next, Work, Faults, Quiet

LEMMA PostedKept ==
    ASSUME TypeOK, [Next]_vars, OneOwnerOnePost, ChoiceHeld, PostedIsSelected
    PROVE  PostedIsSelected'
<1>1. SelectionKept
  BY NextSummary DEF SelectionKept, TypeOK, RowsOK
<1>2. SUFFICES ASSUME NEW j \in Jobs, NEW k \in 1 .. Len(posts'[j])
               PROVE  selected'[j] \in {posts'[j][k], NULL}
  BY DEF PostedIsSelected
<1>3. CASE posts'[j] = posts[j]
  <2>1. selected[j] \in {posts[j][k], NULL}
    BY <1>2, <1>3 DEF PostedIsSelected
  <2>2. posts[j] # <<>>
    BY <1>2, <1>3
  <2>3. status[j] \in Committed
    BY <2>2 DEF OneOwnerOnePost, JobsPosts, Committed
  <2>4. QED
    BY <1>1, <1>3, <2>1, <2>3 DEF SelectionKept
<1>4. ASSUME NEW w \in Workers, pc[w] = "publish", Posted(w), job[w] = j
      PROVE  selected'[j] \in {posts'[j][k], NULL}
  <2>1. posts'[j] = <<variant[w]>>
    BY <1>4, PostsAfter DEF OneOwnerOnePost
  <2>2. k = 1
    BY <1>2, <2>1
  <2>3. selected[j] \in {variant[w], NULL} /\ status[j] \in Committed
    BY <1>4 DEF ChoiceHeld
  <2>4. QED
    BY <1>1, <2>1, <2>2, <2>3 DEF SelectionKept
<1>5. QED
  <2>1. CASE Quiet
    BY <1>3, <2>1 DEF Quiet
  <2>2. ASSUME NEW w \in Workers, Works(w)
        PROVE  \/ posts'[j] = posts[j]
               \/ pc[w] = "publish" /\ Posted(w) /\ job[w] = j
    <3>1. CASE UNCHANGED posts
      BY <3>1
    <3>2. CASE pc[w] = "publish" /\ Posted(w)
      <4>1. \A i \in Jobs \ {job[w]} : posts'[i] = posts[i]
        BY <3>2, PostsAfter DEF OneOwnerOnePost
      <4>2. CASE job[w] = j
        BY <3>2, <4>2
      <4>3. CASE job[w] # j
        BY <4>1, <4>3
      <4>4. QED
        BY <4>2, <4>3
    <3>3. QED
      BY <2>2, <3>1, <3>2 DEF Works
  <2>3. QED
    BY <1>3, <1>4, <2>1, <2>2, NextSummary

\* ReselectVariant, SelectVariant and QueueVariants against PublishJob: no later
\* choice of an operator reaches a job a worker has taken up, so what Instagram
\* shows is what the row names, or the row names nothing.
THEOREM ShownIsChosen == Spec => []PostedIsSelected
<1>1. Init => ChoiceHeld /\ PostedIsSelected
  BY DEF Init, ChoiceHeld, PostedIsSelected
<1>2. TypeOK /\ OneOwnerOnePost /\ ChoiceHeld /\ PostedIsSelected /\ [Next]_vars
         => (ChoiceHeld /\ PostedIsSelected)'
  BY ChoiceKept, PostedKept
<1>3. QED
  BY <1>1, <1>2, TypeCorrect, OneOwnerOnePostHolds, PTL DEF Spec

\* The inductive invariant as a whole: a claimed job has one owner until its
\* outcome is recorded, whatever recovery and the operators do meanwhile.
THEOREM OwnedByOne == Spec => []OwnedOnce
<1>1. Init => NoticesDue /\ ChoiceHeld /\ NoticeMatchesOutcome
  BY DEF Init, NoticesDue, ChoiceHeld, NoticeMatchesOutcome
<1>2. TypeOK /\ NoticesDue /\ ChoiceHeld /\ NoticeMatchesOutcome /\ [Next]_vars
         => (NoticesDue /\ ChoiceHeld /\ NoticeMatchesOutcome)'
  BY NoticesKept, ChoiceKept
<1>3. OneOwnerOnePost /\ NoticesDue /\ ChoiceHeld => OwnedOnce
  BY DEF OneOwnerOnePost, OwnedOnce
<1>4. QED
  BY <1>1, <1>2, <1>3, TypeCorrect, OneOwnerOnePostHolds, PTL DEF Spec

(***************************************************************************)
(* Promotion.                                                              *)
(***************************************************************************)

\* A worker's tick compares schedules with a clock that is never ahead.
ClockRead == \A w \in Workers : asOf[w] <= now

LEMMA NotAWorker ==
    ASSUME TypeOK, [Next]_vars,
           ~ \E w \in Workers : WorkerStep(w) \/ CallFails(w) \/ Crash(w)
    PROVE  UNCHANGED workerVars /\ now <= now' /\ now' \in Nat
<1>0. now \in Nat
  BY DEF TypeOK
<1>1. UNCHANGED workerVars
  BY RowNotesStep
<1>2. UNCHANGED now \/ Tick
  BY DEF Next, Work, Faults, vars, GeneratorStep, ClaimVariants, ContextMissing, GenerationFails,
         ReplaceVariants, CompleteAIStage, CrashGenerator, ByGenerator, RecovererStep,
         ListStale, ParkStale, ReadLog, ReadLogFails, AskLog, RecoverMark,
         RecoverMarkFails, RecovererIdle, EndRecovery, CrashRecovery, ByRecoverer,
         OperatorStep, BeginSelect, BeginPublish, BeginSchedule, Request, CommitSelect,
         CommitReselect, CommitPublish, CommitSchedule, CommitReschedule, Abandon,
         Commit, ByOperator, JobStep, CancelSchedule, SkipJob, QueueVariants,
         RetryWaitingAI, RepairNotice
<1>3. QED
  BY <1>0, <1>1, <1>2 DEF Tick

LEMMA ClockReadKept ==
    ASSUME TypeOK, [Next]_vars, ClockRead
    PROVE  ClockRead'
<1>0. WorkersOK /\ now \in Nat
  BY DEF TypeOK
<1>1. ASSUME NEW w \in Workers, WorkerStep(w) \/ CallFails(w) \/ Crash(w)
      PROVE  ClockRead'
  <2>1. UNCHANGED now
    BY <1>1 DEF WorkerStep, BeginTick, ClaimScheduledDue, ListApproved,
         NextApproved, EndTick, WorkerIdle, LoadJob, ClaimPublishing, LoadVariant,
         PublishImage, PublishImageFails, LogSuccess, MarkPublished, MarkFailed,
         MarkOutcome, Notify, CallFails, Crash, ByWorker
  <2>2. CASE BeginTick(w)
    BY <1>0, <2>1, <2>2 DEF BeginTick, ClockRead, WorkersOK
  <2>3. CASE WorkerIdle(w)
    BY <1>0, <2>1, <2>3 DEF WorkerIdle, ClockRead, WorkersOK
  <2>4. CASE UNCHANGED asOf
    BY <2>1, <2>4 DEF ClockRead
  <2>5. QED
    BY <1>1, <2>2, <2>3, <2>4
       DEF WorkerStep, ClaimScheduledDue, ListApproved, NextApproved, EndTick, LoadJob,
           ClaimPublishing, LoadVariant, PublishImage, PublishImageFails, LogSuccess,
           MarkPublished, MarkFailed, MarkOutcome, Notify, CallFails, Crash
<1>2. CASE UNCHANGED workerVars /\ now <= now' /\ now' \in Nat
  BY <1>0, <1>2 DEF workerVars, ClockRead, WorkersOK
<1>3. QED
  BY <1>1, <1>2, NotAWorker

LEMMA PromotionStep ==
    ASSUME TypeOK, [Next]_vars, ClockRead, NEW w \in Workers, NEW j \in Jobs,
           Promotes(w, j)
    PROVE  scheduledAt[j] # NULL /\ scheduledAt[j] <= now
<1>0. RowsOK /\ WorkersOK /\ now \in Nat
  BY DEF TypeOK
<1>1. WorkerStep(w) \/ CallFails(w) \/ Crash(w)
  <2>1. ASSUME NEW v \in Workers, v # w, WorkerStep(v) \/ CallFails(v) \/ Crash(v)
        PROVE  FALSE
    BY <2>1, WorkerAlone DEF Alone, Promotes
  <2>2. CASE UNCHANGED workerVars
    BY <2>2 DEF workerVars, Promotes
  <2>3. QED
    BY <2>1, <2>2, NotAWorker
<1>2. ClaimScheduledDue(w)
  <2>1. pc[w] = "next" /\ pc'[w] = "load" /\ status'[j] # status[j]
    BY DEF Promotes
  <2>2. QED
    BY <1>0, <1>1, <2>1
       DEF WorkerStep, BeginTick, ListApproved, NextApproved, EndTick, WorkerIdle,
           LoadJob, ClaimPublishing, LoadVariant, PublishImage, PublishImageFails,
           LogSuccess, MarkPublished, MarkFailed, MarkOutcome, Notify, CallFails,
           Crash, Goto, rowVars, WorkersOK
<1>3. PICK k \in todo[w] :
         \/ ClaimableDue(w, k) /\ SetStatus(k, "APPROVED")
         \/ UNCHANGED status
  BY <1>2 DEF ClaimScheduledDue
<1>4. k = j /\ ClaimableDue(w, k)
  BY <1>0, <1>3 DEF Promotes, SetStatus, RowsOK, WorkersOK
<1>5. asOf[w] \in Nat /\ asOf[w] <= now
  BY <1>0 DEF WorkersOK, ClockRead
<1>6. scheduledAt[j] # NULL /\ scheduledAt[j] <= asOf[w] /\ scheduledAt[j] \in Nat
  BY <1>0, <1>4 DEF ClaimableDue, IsDue, RowsOK
<1>7. QED
  BY <1>0, <1>5, <1>6

\* ProcessScheduledPublishes and ClaimScheduledDue: however long ago a worker
\* listed a job as due, it promotes it only if the time the row carries at that
\* moment has come; a job moved to a later time is passed over.
THEOREM PromotionIsDue == Spec => PromotedWhenDue
<1>1. Init => ClockRead
  BY DEF Init, ClockRead
<1>2. TypeOK /\ ClockRead /\ [Next]_vars => ClockRead'
  BY ClockReadKept
<1>3. TypeOK /\ ClockRead /\ [Next]_vars
         => [\A w \in Workers, j \in Jobs :
                Promotes(w, j) => scheduledAt[j] # NULL /\ scheduledAt[j] <= now]_vars
  BY PromotionStep
<1>4. QED
  BY <1>1, <1>2, <1>3, TypeCorrect, PTL DEF Spec, PromotedWhenDue

(***************************************************************************)
(* Two promises the code does not keep, and the only way it breaks each.   *)
(***************************************************************************)

\* A job on the schedule has a time.
TimeSet == \A j \in Jobs : status[j] = "SCHEDULED" => scheduledAt[j] # NULL

\* SetStatus, of a job in one state, to another than the one in question.
LEMMA SetElsewhere ==
    ASSUME RowsOK, NEW j \in Jobs, NEW k \in Jobs, NEW to, NEW s,
           SetStatus(k, to), to # s, status[j] # s
    PROVE  status'[j] # s
BY DEF RowsOK, SetStatus

\* Only a request to schedule puts a job on the schedule, and only one to cancel
\* takes the time away.
LEMMA TimeSetKept ==
    ASSUME TypeOK, [Next]_vars, TimeSet
    PROVE  TimeSet'
<1>0. RowsOK
  BY DEF TypeOK
<1>1. ASSUME NEW g \in Generators, GeneratorStep(g) \/ CrashGenerator(g)
      PROVE  TimeSet'
  <2>0. gpc[g] # "idle" => gjob[g] \in Jobs
    BY DEF TypeOK, GeneratorsOK
  <2>1. UNCHANGED scheduledAt
    BY <1>1 DEF GeneratorStep, ClaimVariants, ContextMissing, GenerationFails,
                ReplaceVariants, CompleteAIStage, CrashGenerator, rowVars
  <2>2. ASSUME NEW j \in Jobs, status[j] # "SCHEDULED"
        PROVE  status'[j] # "SCHEDULED"
    BY <1>0, <1>1, <2>0, <2>2, SetElsewhere
       DEF GeneratorStep, ClaimVariants, ContextMissing, GenerationFails, ReplaceVariants,
           CompleteAIStage, CrashGenerator, Park, Transition, rowVars
  <2>3. QED
    BY <2>1, <2>2 DEF TimeSet
<1>2. ASSUME NEW w \in Workers, WorkerStep(w) \/ CallFails(w) \/ Crash(w)
      PROVE  TimeSet'
  <2>0. todo[w] \subseteq Jobs /\ (pc[w] \notin {"idle", "next"} => job[w] \in Jobs)
    BY DEF TypeOK, WorkersOK
  <2>1. UNCHANGED scheduledAt
    BY <1>2 DEF WorkerStep, BeginTick, ClaimScheduledDue, ListApproved, NextApproved,
                EndTick, WorkerIdle, LoadJob, ClaimPublishing, LoadVariant, PublishImage,
                PublishImageFails, LogSuccess, MarkPublished, MarkFailed, MarkOutcome,
                Notify, CallFails, Crash, rowVars
  <2>2. ASSUME NEW j \in Jobs, status[j] # "SCHEDULED"
        PROVE  status'[j] # "SCHEDULED"
    <3>1. CASE ClaimScheduledDue(w)
      BY <1>0, <2>0, <2>2, <3>1, SetElsewhere DEF ClaimScheduledDue
    <3>2. CASE ClaimPublishing(w) \/ MarkPublished(w) \/ MarkFailed(w)
      BY <1>0, <2>0, <2>2, <3>2, SetElsewhere
         DEF ClaimPublishing, MarkPublished, MarkFailed, MarkOutcome, Record, Transition
    <3>3. CASE UNCHANGED rowVars
      BY <2>2, <3>3 DEF rowVars
    <3>4. QED
      BY <1>2, <3>1, <3>2, <3>3
         DEF WorkerStep, BeginTick, ListApproved, NextApproved, EndTick, WorkerIdle,
             LoadJob, LoadVariant, PublishImage, PublishImageFails, LogSuccess, Notify,
             CallFails, Crash
  <2>3. QED
    BY <2>1, <2>2 DEF TimeSet
<1>3. ASSUME NEW r \in Recoverers,
             RecovererStep(r) \/ ReadLogFails(r) \/ RecoverMarkFails(r) \/ CrashRecovery(r)
      PROVE  TimeSet'
  <2>0. rpc[r] = "mark" => rjob[r] \in Jobs
    BY DEF TypeOK, RecoverersOK
  <2>1. UNCHANGED scheduledAt
    BY <1>3 DEF RecovererStep, ListStale, ParkStale, ReadLog, ReadLogFails, AskLog,
                RecoverMark, RecoverMarkFails, RecovererIdle, EndRecovery, CrashRecovery,
                rowVars
  <2>2. ASSUME NEW j \in Jobs, status[j] # "SCHEDULED"
        PROVE  status'[j] # "SCHEDULED"
    BY <1>0, <1>3, <2>0, <2>2, SetElsewhere
       DEF RecovererStep, ListStale, ParkStale, ReadLog, ReadLogFails, AskLog,
           RecoverMark, RecoveredTo, Record, RecoverMarkFails, RecovererIdle, EndRecovery,
           CrashRecovery, Park, Transition, rowVars
  <2>3. QED
    BY <2>1, <2>2 DEF TimeSet
<1>4. ASSUME NEW o \in Operators, OperatorStep(o)
      PROVE  TimeSet'
  <2>0. /\ opc[o] # "idle" => ojob[o] \in Jobs
        /\ opc[o] \in {"schedule", "reschedule"} => otime[o] \in Nat
    BY DEF TypeOK, OperatorsOK
  <2>1. CASE CommitSchedule(o)
    BY <1>0, <2>0, <2>1, PublishingAssumption
       DEF CommitSchedule, Commit, SetStatus, RowsOK, rowVars, TimeSet
  <2>2. CASE CommitReschedule(o)
    BY <1>0, <2>0, <2>2, PublishingAssumption
       DEF CommitReschedule, Commit, RowsOK, rowVars, TimeSet
  <2>3. CASE CommitSelect(o) \/ CommitPublish(o)
    <3>1. UNCHANGED scheduledAt
      BY <2>3 DEF CommitSelect, CommitPublish, Commit, rowVars
    <3>2. ASSUME NEW j \in Jobs, status[j] # "SCHEDULED"
          PROVE  status'[j] # "SCHEDULED"
      BY <1>0, <2>0, <2>3, <3>2, SetElsewhere DEF CommitSelect, CommitPublish, Commit, rowVars
    <3>3. QED
      BY <3>1, <3>2 DEF TimeSet
  <2>4. CASE UNCHANGED <<status, scheduledAt>>
    BY <2>4 DEF TimeSet
  <2>5. QED
    BY <1>4, <2>1, <2>2, <2>3, <2>4
       DEF OperatorStep, BeginSelect, BeginPublish, BeginSchedule, Request, rowVars,
           CommitReselect, Abandon, Commit
<1>5. ASSUME NEW k \in Jobs, JobStep(k)
      PROVE  TimeSet'
  BY <1>0, <1>5 DEF JobStep, CancelSchedule, SkipJob, QueueVariants, RetryWaitingAI,
                    RepairNotice, SetStatus, RowsOK, rowVars, TimeSet
<1>6. CASE Tick \/ UNCHANGED vars
  BY <1>6 DEF Tick, vars, rowVars, TimeSet
<1>7. QED
  BY <1>1, <1>2, <1>3, <1>4, <1>5, <1>6 DEF Next, Work, Faults

\* A worker that comes to its time, or a request to publish: nobody else approves
\* a scheduled job.
LEMMA Approvers ==
    ASSUME TypeOK, [Next]_vars, NEW j \in Jobs,
           status[j] = "SCHEDULED", status'[j] = "APPROVED"
    PROVE  \/ \E w \in Workers : Promotes(w, j)
           \/ \E o \in Operators : opc[o] = "publish" /\ ojob[o] = j
<1>0. RowsOK
  BY DEF TypeOK
<1>1. ASSUME NEW g \in Generators, GeneratorStep(g) \/ CrashGenerator(g)
      PROVE  FALSE
  <2>0. gpc[g] # "idle" => gjob[g] \in Jobs
    BY DEF TypeOK, GeneratorsOK
  <2>1. QED
    BY <1>0, <1>1, <2>0, SetElsewhere
       DEF GeneratorStep, ClaimVariants, ContextMissing, GenerationFails, ReplaceVariants,
           CompleteAIStage, CrashGenerator, Park, Transition, rowVars
<1>2. ASSUME NEW w \in Workers, WorkerStep(w) \/ CallFails(w) \/ Crash(w)
      PROVE  Promotes(w, j)
  <2>0. WorkersOK
    BY DEF TypeOK
  <2>1. CASE ClaimScheduledDue(w)
    BY <1>0, <2>0, <2>1 DEF ClaimScheduledDue, Goto, WorkersOK, Promotes
  <2>2. CASE ClaimPublishing(w) \/ MarkPublished(w) \/ MarkFailed(w)
    BY <1>0, <2>0, <2>2, SetElsewhere
       DEF ClaimPublishing, MarkPublished, MarkFailed, MarkOutcome, Record, Transition, WorkersOK
  <2>3. CASE UNCHANGED rowVars
    BY <2>3 DEF rowVars
  <2>4. QED
    BY <1>2, <2>1, <2>2, <2>3
       DEF WorkerStep, BeginTick, ListApproved, NextApproved, EndTick, WorkerIdle,
           LoadJob, LoadVariant, PublishImage, PublishImageFails, LogSuccess, Notify,
           CallFails, Crash
<1>3. ASSUME NEW r \in Recoverers,
             RecovererStep(r) \/ ReadLogFails(r) \/ RecoverMarkFails(r) \/ CrashRecovery(r)
      PROVE  FALSE
  <2>0. rpc[r] = "mark" => rjob[r] \in Jobs
    BY DEF TypeOK, RecoverersOK
  <2>1. QED
    BY <1>0, <1>3, <2>0, SetElsewhere
       DEF RecovererStep, ListStale, ParkStale, ReadLog, ReadLogFails, AskLog,
           RecoverMark, RecoveredTo, Record, RecoverMarkFails, RecovererIdle, EndRecovery,
           CrashRecovery, Park, Transition, rowVars
<1>4. ASSUME NEW o \in Operators, OperatorStep(o)
      PROVE  opc[o] = "publish" /\ ojob[o] = j
  <2>0. opc[o] # "idle" => ojob[o] \in Jobs
    BY DEF TypeOK, OperatorsOK
  <2>1. CASE CommitPublish(o)
    BY <1>0, <2>0, <2>1 DEF CommitPublish, Commit, SetStatus, RowsOK, rowVars
  <2>2. CASE CommitSelect(o) \/ CommitSchedule(o)
    BY <1>0, <2>0, <2>2, SetElsewhere DEF CommitSelect, CommitSchedule, Commit, rowVars
  <2>3. CASE UNCHANGED status
    BY <2>3
  <2>4. QED
    BY <1>4, <2>1, <2>2, <2>3
       DEF OperatorStep, BeginSelect, BeginPublish, BeginSchedule, Request, rowVars,
           CommitReselect, CommitReschedule, Abandon, Commit
<1>5. ASSUME NEW k \in Jobs, JobStep(k)
      PROVE  FALSE
  BY <1>0, <1>5, SetElsewhere
     DEF JobStep, CancelSchedule, SkipJob, QueueVariants, RetryWaitingAI, RepairNotice,
         rowVars
<1>6. CASE Tick \/ UNCHANGED vars
  BY <1>6 DEF Tick, vars, rowVars
<1>7. QED
  BY <1>1, <1>2, <1>3, <1>4, <1>5, <1>6 DEF Next, Work, Faults

\* A request to publish finds the job on the schedule when it is carried out.
Overtakes(j) == \E o \in Operators : opc[o] = "publish" /\ ojob[o] = j

NoneOvertaken == \A j \in Jobs : Overtakes(j) => status[j] # "SCHEDULED"

\* QueuePublish against SchedulePublish: a scheduled job is approved before its
\* time only by a request to publish that read it before it was scheduled.
\* Neither the loops nor any other request can do it.
THEOREM EarlyIsOvertaken ==
    Spec => [][\A j \in Jobs :
                 status[j] = "SCHEDULED" /\ status'[j] = "APPROVED"
                    => \/ scheduledAt[j] # NULL /\ scheduledAt[j] <= now
                       \/ Overtakes(j)]_vars
<1>1. Init => ClockRead
  BY DEF Init, ClockRead
<1>2. TypeOK /\ ClockRead /\ [Next]_vars => ClockRead'
  BY ClockReadKept
<1>3. TypeOK /\ ClockRead /\ [Next]_vars
         => [\A j \in Jobs :
                status[j] = "SCHEDULED" /\ status'[j] = "APPROVED"
                   => \/ scheduledAt[j] # NULL /\ scheduledAt[j] <= now
                      \/ Overtakes(j)]_vars
  BY Approvers, PromotionStep DEF Overtakes
<1>4. QED
  BY <1>1, <1>2, <1>3, TypeCorrect, PTL DEF Spec

\* Every scheduled job has its time (SchedulePublish, CancelSchedule), so the
\* promotion of due jobs overlooks none.
THEOREM ScheduledHasTime == Spec => []TimeSet
<1>1. Init => TimeSet
  BY DEF Init, TimeSet
<1>2. TypeOK /\ TimeSet /\ [Next]_vars => TimeSet'
  BY TimeSetKept
<1>3. QED
  BY <1>1, <1>2, TypeCorrect, PTL DEF Spec

\* As long as no request to publish finds its job on the schedule, none is
\* approved early.
THEOREM OnTimeUnlessOvertaken == Spec /\ []NoneOvertaken => NeverEarly
<1>1. [\A j \in Jobs :
          status[j] = "SCHEDULED" /\ status'[j] = "APPROVED"
             => \/ scheduledAt[j] # NULL /\ scheduledAt[j] <= now
                \/ Overtakes(j)]_vars
      /\ NoneOvertaken
         => [\A j \in Jobs :
                status[j] = "SCHEDULED" /\ status'[j] = "APPROVED"
                   => scheduledAt[j] <= now]_vars
  BY DEF NoneOvertaken
<1>2. QED
  BY <1>1, EarlyIsOvertaken, PTL DEF NeverEarly

Chosen == {"READY_TO_PUBLISH", "SCHEDULED", "APPROVED"}

\* A generator replaces the variants of a job that was reviewed meanwhile.
ReplacesLate(g) == gpc[g] = "replace" /\ status[gjob[g]] \in Chosen

\* The selection of a chosen job goes with the state, or an overlapping generation takes
\* it.
LEMMA SelectionStep ==
    ASSUME TypeOK, [Next]_vars, SelectionHeld, NEW j \in Jobs,
           status'[j] \in Chosen, selected'[j] = NULL
    PROVE  \E g \in Generators : ReplaceVariants(g) /\ ReplacesLate(g) /\ gjob[g] = j
<1>0. RowsOK /\ (status[j] \in Chosen => selected[j] # NULL)
  BY DEF TypeOK, SelectionHeld, Chosen
<1>1. ASSUME NEW g \in Generators, GeneratorStep(g) \/ CrashGenerator(g)
      PROVE  ReplaceVariants(g) /\ ReplacesLate(g) /\ gjob[g] = j
  <2>0. gpc[g] # "idle" => gjob[g] \in Jobs
    BY DEF TypeOK, GeneratorsOK
  <2>1. CASE ReplaceVariants(g)
    BY <1>0, <2>0, <2>1 DEF ReplaceVariants, ReplacesLate, RowsOK
  <2>2. CASE UNCHANGED selected
    <3>1. status[j] \notin Chosen
      BY <1>0, <2>2
    <3>2. status'[j] \notin Chosen
      <4>1. \A s \in Chosen : status[j] # s
        BY <3>1
      <4>2. status'[j] = status[j] \/ status'[j] \in {"GENERATING_VARIANTS", "FAILED",
                                          "WAITING_AI", "WAITING_VARIANT_APPROVAL"}
        BY <1>0, <1>1, <2>0
           DEF GeneratorStep, ClaimVariants, ContextMissing, GenerationFails,
               ReplaceVariants, CompleteAIStage, CrashGenerator, Park, Transition,
               SetStatus, RowsOK, rowVars
      <4>3. QED
        BY <3>1, <4>2 DEF Chosen
    <3>3. QED
      BY <3>2
  <2>3. QED
    BY <1>1, <2>1, <2>2
       DEF GeneratorStep, ClaimVariants, ContextMissing, GenerationFails, CompleteAIStage,
           CrashGenerator, rowVars
<1>2. ASSUME NEW w \in Workers, WorkerStep(w) \/ CallFails(w) \/ Crash(w)
      PROVE  FALSE
  <2>1. UNCHANGED selected
    BY <1>2, WorkerWorks
  <2>2. StatusStep(j) /\ status[j] \notin Chosen
    BY <1>0, <1>2, <2>1, WorkerStatus
  <2>3. status'[j] # status[j]
    BY <2>2
  <2>4. CASE ClaimScheduledDue(w)
    <3>1. PICK k \in todo[w] : \/ ClaimableDue(w, k) /\ SetStatus(k, "APPROVED")
                               \/ UNCHANGED status
      BY <2>4 DEF ClaimScheduledDue
    <3>2. QED
      BY <1>0, <2>2, <2>3, <3>1 DEF ClaimableDue, IsDue, SetStatus, RowsOK, Chosen,
         TypeOK, WorkersOK
  <2>5. CASE ClaimPublishing(w) \/ MarkPublished(w) \/ MarkFailed(w)
    BY <1>0, <2>2, <2>3, <2>5
       DEF ClaimPublishing, MarkPublished, MarkFailed, MarkOutcome, Record, Transition, SetStatus,
           RowsOK, Chosen, TypeOK, WorkersOK
  <2>6. CASE UNCHANGED rowVars
    BY <2>3, <2>6 DEF rowVars
  <2>7. QED
    BY <1>2, <2>4, <2>5, <2>6
       DEF WorkerStep, BeginTick, ListApproved, NextApproved, EndTick, WorkerIdle,
           LoadJob, LoadVariant, PublishImage, PublishImageFails, LogSuccess, Notify,
           CallFails, Crash
<1>3. ASSUME NEW r \in Recoverers,
             RecovererStep(r) \/ ReadLogFails(r) \/ RecoverMarkFails(r) \/ CrashRecovery(r)
      PROVE  FALSE
  <2>0. rpc[r] = "mark" => rjob[r] \in Jobs
    BY DEF TypeOK, RecoverersOK
  <2>1. UNCHANGED selected
    BY <1>3 DEF RecovererStep, ListStale, ParkStale, ReadLog, ReadLogFails, AskLog,
                RecoverMark, RecoverMarkFails, RecovererIdle, EndRecovery, CrashRecovery,
                rowVars
  <2>2. status[j] \notin Chosen
    BY <1>0, <2>1
  <2>3. \/ status'[j] = status[j]
        \/ status'[j] \in {"WAITING_AI", "FAILED", "PUBLISHED"}
    BY <1>0, <1>3, <2>0
       DEF RecovererStep, ListStale, ParkStale, ReadLog, ReadLogFails, AskLog,
           RecoverMark, RecoveredTo, Record, RecoverMarkFails, RecovererIdle, EndRecovery,
           CrashRecovery, Park, Transition, SetStatus, RowsOK, rowVars
  <2>4. QED
    BY <2>2, <2>3 DEF Chosen
<1>4. ASSUME NEW o \in Operators, OperatorStep(o)
      PROVE  FALSE
  <2>0. /\ opc[o] # "idle" => ojob[o] \in Jobs
        /\ opc[o] \in {"select", "reselect"} => ochoice[o] \in Variants
    BY DEF TypeOK, OperatorsOK
  <2>1. NULL \notin Variants
    BY PublishingAssumption DEF Variants
  <2>2. CASE CommitSelect(o)
    BY <1>0, <2>0, <2>1, <2>2
       DEF CommitSelect, Commit, SetStatus, RowsOK, rowVars, Chosen
  <2>3. CASE CommitReselect(o)
    BY <1>0, <2>0, <2>1, <2>3 DEF CommitReselect, Commit, RowsOK, rowVars, Chosen
  <2>4. CASE CommitPublish(o) \/ CommitSchedule(o)
    <3>1. UNCHANGED selected
      BY <2>4 DEF CommitPublish, CommitSchedule, Commit, rowVars
    <3>2. status[j] \notin Chosen /\ StatusStep(j)
      BY <1>0, <1>4, <3>1, OperatorStatus
    <3>3. ~CanTransition(status[j], "APPROVED") /\ ~CanTransition(status[j], "SCHEDULED")
      BY <1>0, <3>2, StatusLookup DEF CanTransition, allowedTransitions, Chosen, Status
    <3>4. QED
      BY <1>0, <2>0, <2>4, <3>2, <3>3
         DEF CommitPublish, CommitSchedule, Commit, SetStatus, RowsOK, rowVars
  <2>5. CASE UNCHANGED <<status, selected>>
    BY <1>0, <2>5
  <2>6. QED
    BY <1>4, <2>2, <2>3, <2>4, <2>5
       DEF OperatorStep, BeginSelect, BeginPublish, BeginSchedule, Request, rowVars,
           CommitReschedule, Abandon, Commit
<1>5. ASSUME NEW k \in Jobs, JobStep(k)
      PROVE  FALSE
  BY <1>0, <1>5 DEF JobStep, CancelSchedule, SkipJob, QueueVariants, RetryWaitingAI,
                    RepairNotice, SetStatus, RowsOK, rowVars, Chosen
<1>6. CASE Tick \/ UNCHANGED vars
  BY <1>0, <1>6 DEF Tick, vars, rowVars
<1>7. QED
  BY <1>1, <1>2, <1>3, <1>4, <1>5, <1>6 DEF Next, Work, Faults

NoneReplacesLate == \A g \in Generators : ~ReplacesLate(g)

\* RecoverStaleJobs against ReplaceVariants: a job that waits to be published
\* keeps its selection as long as no generator, taken for dead or started after
\* one that was, replaces the variants of a job reviewed meanwhile; an operator,
\* the loops and every crash leave it alone.
THEOREM SelectionHeldUnlessLate == Spec /\ []NoneReplacesLate => []SelectionHeld
<1>1. Init => SelectionHeld
  BY DEF Init, SelectionHeld
<1>2. TypeOK /\ SelectionHeld /\ NoneReplacesLate /\ [Next]_vars => SelectionHeld'
  BY SelectionStep DEF NoneReplacesLate, SelectionHeld, Chosen
<1>3. QED
  BY <1>1, <1>2, TypeCorrect, PTL DEF Spec

(***************************************************************************)
(* Failed jobs that are on Instagram after all.                            *)
(***************************************************************************)

\* Nothing of the job is shown, and nobody is about to show it.
Clear(j) == posts[j] = <<>> /\ \A w \in Workers : ~Holds(w, j)

FailedIsClear == \A j \in Jobs : status[j] = "FAILED" => Clear(j)

\* An error that ended a publish is the truth about it.
ErrorIsTrue == \A w \in Workers : pc[w] = "fail" => posts[job[w]] = <<>>

\* A recoverer gives up only a publish that showed nothing and whose worker is
\* gone.
GivenUpClear ==
    \A r \in Recoverers :
       rpc[r] = "mark" /\ found[r] = "none" /\ status[rjob[r]] = "PUBLISHING" => Clear(rjob[r])

\* No generator outlives its job's whole review.
NoneOutlives ==
    \A g \in Generators : gpc[g] = "replace" => status[gjob[g]] # "PUBLISHING"

\* Who can fail a job that is being published.
FailedBy(j) ==
    \/ \E w \in Workers : MarkFailed(w) /\ job[w] = j
    \/ \E r \in Recoverers : rpc[r] = "mark" /\ found[r] = "none" /\ rjob[r] = j
    \/ \E g \in Generators : gpc[g] = "replace" /\ gjob[g] = j

LEMMA FailedByStep ==
    ASSUME TypeOK, [Next]_vars, NEW j \in Jobs,
           status[j] = "PUBLISHING", status'[j] = "FAILED"
    PROVE  FailedBy(j)
<1>0. RowsOK
  BY DEF TypeOK
<1>1. ASSUME NEW g \in Generators, GeneratorStep(g) \/ CrashGenerator(g)
      PROVE  gpc[g] = "replace" /\ gjob[g] = j
  <2>0. gpc[g] # "idle" => gjob[g] \in Jobs
    BY DEF TypeOK, GeneratorsOK
  <2>1. CASE ClaimVariants(g) \/ CompleteAIStage(g)
    BY <1>0, <2>0, <2>1, SetElsewhere DEF ClaimVariants, CompleteAIStage, Transition
  <2>2. CASE ContextMissing(g) \/ GenerationFails(g)
    BY <1>0, <2>0, <2>2
       DEF ContextMissing, GenerationFails, Park, Transition, SetStatus, RowsOK
  <2>3. CASE UNCHANGED status
    BY <2>3
  <2>4. QED
    BY <1>1, <2>1, <2>2, <2>3 DEF GeneratorStep, ReplaceVariants, CrashGenerator, rowVars
<1>2. ASSUME NEW w \in Workers, WorkerStep(w) \/ CallFails(w) \/ Crash(w)
      PROVE  MarkFailed(w) /\ job[w] = j
  <2>0. WorkersOK
    BY DEF TypeOK
  <2>1. CASE ClaimScheduledDue(w)
    <3>1. \/ UNCHANGED status
          \/ \E k \in Jobs : SetStatus(k, "APPROVED")
      BY <2>0, <2>1 DEF ClaimScheduledDue, WorkersOK
    <3>2. QED
      BY <1>0, <3>1, SetElsewhere
  <2>2. CASE ClaimPublishing(w) \/ MarkPublished(w)
    BY <1>0, <2>0, <2>2, SetElsewhere
       DEF ClaimPublishing, MarkPublished, MarkOutcome, Record, Transition, WorkersOK
  <2>3. CASE MarkFailed(w)
    BY <1>0, <2>0, <2>3
       DEF MarkFailed, MarkOutcome, Record, Transition, SetStatus, WorkersOK, RowsOK
  <2>4. CASE UNCHANGED rowVars
    BY <2>4 DEF rowVars
  <2>5. QED
    BY <1>2, <2>1, <2>2, <2>3, <2>4
       DEF WorkerStep, BeginTick, ListApproved, NextApproved, EndTick, WorkerIdle,
           LoadJob, LoadVariant, PublishImage, PublishImageFails, LogSuccess, Notify,
           CallFails, Crash
<1>3. ASSUME NEW r \in Recoverers,
             RecovererStep(r) \/ ReadLogFails(r) \/ RecoverMarkFails(r) \/ CrashRecovery(r)
      PROVE  rpc[r] = "mark" /\ found[r] = "none" /\ rjob[r] = j
  <2>0. /\ rpc[r] = "mark" => rjob[r] \in Jobs
        /\ found[r] \in MediaIDs
    BY DEF TypeOK, RecoverersOK
  <2>1. CASE ParkStale(r)
    <3>1. ~CanTransition("PUBLISHING", "WAITING_AI")
      BY DEF CanTransition, allowedTransitions
    <3>2. PICK k \in Jobs : Park(k)
      BY <2>1 DEF ParkStale
    <3>3. QED
      BY <1>0, <3>1, <3>2 DEF Park, SetStatus, RowsOK
  <2>2. CASE RecoverMark(r)
    BY <1>0, <2>0, <2>2 DEF RecoverMark, RecoveredTo, Record, Transition, SetStatus, RowsOK
  <2>3. CASE UNCHANGED rowVars
    BY <2>3 DEF rowVars
  <2>4. QED
    BY <1>3, <2>1, <2>2, <2>3
       DEF RecovererStep, ListStale, ReadLog, ReadLogFails, AskLog, RecoverMarkFails,
           RecovererIdle, EndRecovery, CrashRecovery
<1>4. ASSUME NEW o \in Operators, OperatorStep(o)
      PROVE  FALSE
  <2>0. opc[o] # "idle" => ojob[o] \in Jobs
    BY DEF TypeOK, OperatorsOK
  <2>1. QED
    BY <1>0, <1>4, <2>0, SetElsewhere
       DEF OperatorStep, BeginSelect, BeginPublish, BeginSchedule, Request, CommitSelect,
           CommitReselect, CommitPublish, CommitSchedule, CommitReschedule, Abandon,
           Commit, rowVars
<1>5. ASSUME NEW k \in Jobs, JobStep(k)
      PROVE  FALSE
  BY <1>0, <1>5, SetElsewhere
     DEF JobStep, CancelSchedule, SkipJob, QueueVariants, RetryWaitingAI, RepairNotice,
         rowVars
<1>6. CASE Tick \/ UNCHANGED vars
  BY <1>6 DEF Tick, vars, rowVars
<1>7. QED
  BY <1>1, <1>2, <1>3, <1>4, <1>5, <1>6 DEF Next, Work, Faults, FailedBy

\* A job is clear when it fails, or one of the three things happened.
LEMMA ClearWhenFailed ==
    ASSUME TypeOK, [Next]_vars, OneOwnerOnePost,
           ErrorIsTrue, GivenUpClear, NoneOutlives, NEW j \in Jobs,
           status[j] = "PUBLISHING", status'[j] = "FAILED"
    PROVE  Clear(j)'
<1>0. WorkersOK
  BY DEF TypeOK
<1>1. ASSUME NEW w \in Workers, MarkFailed(w), job[w] = j
      PROVE  Clear(j)'
  <2>1. pc[w] = "fail" /\ UNCHANGED posts /\ pc'[w] \notin {"prepare", "publish"}
    BY <1>0, <1>1 DEF MarkFailed, MarkOutcome, Goto, JobDone, effectVars, WorkersOK
  <2>2. ASSUME NEW v \in Workers, Holds(v, j)'
        PROVE  FALSE
    <3>1. v # w
      BY <2>1, <2>2 DEF Holds
    <3>2. Alone(w)
      BY <1>1, WorkerAlone DEF WorkerStep
    <3>3. pc[v] \in {"prepare", "publish"} /\ job[v] = j
      BY <2>2, <3>1, <3>2 DEF Alone, Holds
    <3>4. QED
      BY <1>1, <2>1, <3>1, <3>3 DEF OneOwnerOnePost, Ownership, Owning
  <2>3. posts[j] = <<>>
    BY <1>1, <2>1 DEF ErrorIsTrue
  <2>4. QED
    BY <2>1, <2>2, <2>3 DEF Clear
<1>2. ASSUME NEW r \in Recoverers, rpc[r] = "mark", found[r] = "none", rjob[r] = j
      PROVE  Clear(j)'
  <2>1. Clear(j)
    BY <1>2 DEF GivenUpClear
  <2>2. CASE Quiet
    BY <2>1, <2>2 DEF Quiet, workerVars, Clear, Holds
  <2>3. ASSUME NEW w \in Workers, Alone(w), Works(w)
        PROVE  Clear(j)'
    <3>1. ASSUME NEW v \in Workers
          PROVE  ~Holds(v, j)'
      <4>1. CASE v # w
        BY <2>1, <2>3, <4>1 DEF Alone, Clear, Holds
      <4>2. CASE v = w
        BY <2>1, <2>3, <4>2 DEF Works, Owning, Clear, Holds
      <4>3. QED
        BY <4>1, <4>2
    <3>2. posts'[j] = posts[j]
      BY <2>1, <2>3, PostsAfter DEF Works, Clear, Holds, OneOwnerOnePost
    <3>3. QED
      BY <2>1, <3>1, <3>2 DEF Clear
  <2>4. QED
    BY <2>2, <2>3, NextSummary
<1>3. ~ \E g \in Generators : gpc[g] = "replace" /\ gjob[g] = j
  BY DEF NoneOutlives
<1>4. QED
  BY <1>1, <1>2, <1>3, FailedByStep DEF FailedBy

LEMMA FailedIsClearKept ==
    ASSUME TypeOK, [Next]_vars, OneOwnerOnePost, FailedIsClear,
           ErrorIsTrue, GivenUpClear, NoneOutlives
    PROVE  FailedIsClear'
<1>0. SUFFICES ASSUME NEW j \in Jobs, status'[j] = "FAILED"
               PROVE  Clear(j)'
  BY DEF FailedIsClear
<1>1. CASE status[j] = "PUBLISHING"
  BY <1>0, <1>1, ClearWhenFailed
<1>2. CASE status[j] # "PUBLISHING"
  <2>1. status[j] # "PUBLISHED"
    BY <1>0, NoWayBack
  <2>2. Clear(j)
    <3>1. CASE status[j] = "FAILED"
      BY <3>1 DEF FailedIsClear
    <3>2. CASE status[j] \notin Claimed
      BY <3>2 DEF OneOwnerOnePost, Ownership, JobsPosts, Owning, Clear, Holds
    <3>3. QED
      BY <1>2, <2>1, <3>1, <3>2 DEF Claimed
  <2>3. CASE Quiet
    BY <2>2, <2>3 DEF Quiet, workerVars, Clear, Holds
  <2>4. ASSUME NEW w \in Workers, Alone(w), Works(w)
        PROVE  Clear(j)'
    <3>1. ASSUME NEW v \in Workers
          PROVE  ~Holds(v, j)'
      <4>1. CASE v # w
        BY <2>2, <2>4, <4>1 DEF Alone, Clear, Holds
      <4>2. CASE v = w
        BY <1>0, <2>2, <2>4, <4>2 DEF Works, Owning, Clear, Holds
      <4>3. QED
        BY <4>1, <4>2
    <3>2. posts'[j] = posts[j]
      BY <2>2, <2>4, PostsAfter DEF Works, Clear, Holds, OneOwnerOnePost
    <3>3. QED
      BY <2>2, <3>1, <3>2 DEF Clear
  <2>5. QED
    BY <2>3, <2>4, NextSummary
<1>3. QED
  BY <1>1, <1>2

\* RecoverStaleJobs, fail and the context of a generation: the job that failed
\* is not on Instagram and will not be, so that publishing it by hand shows it
\* once, as long as no error hides a post, no live publish is given up and no
\* generation outlives the review of its own job.
THEOREM FailedIsClearUnlessUncertain ==
    Spec /\ [](ErrorIsTrue /\ GivenUpClear /\ NoneOutlives) => []FailedIsClear
<1>1. Init => FailedIsClear
  BY DEF Init, FailedIsClear
<1>2. TypeOK /\ OneOwnerOnePost /\ FailedIsClear
      /\ (ErrorIsTrue /\ GivenUpClear /\ NoneOutlives) /\ [Next]_vars => FailedIsClear'
  BY FailedIsClearKept
<1>3. QED
  BY <1>1, <1>2, TypeCorrect, OneOwnerOnePostHolds, PTL DEF Spec
=============================================================================
