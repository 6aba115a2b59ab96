--------------------------- MODULE PublishingTypes ---------------------------
(***************************************************************************)
(* The type invariant of Publishing, for every number of jobs, instances   *)
(* and operators and every bound.                                          *)
(***************************************************************************)
EXTENDS Publishing, TLAPS

USE PublishingAssumption

(***************************************************************************)
(* What the statements of the repository do to the types of the rows.      *)
(***************************************************************************)

LEMMA SetStatusType ==
    ASSUME RowsOK, now \in Nat, NEW j \in Jobs, NEW to \in Status, SetStatus(j, to)
    PROVE  status' \in [Jobs -> Status] /\ updatedAt' \in [Jobs -> Nat]
BY DEF RowsOK, SetStatus

LEMMA TransitionType ==
    ASSUME RowsOK, now \in Nat, NEW j \in Jobs, NEW to \in Status, Transition(j, to)
    PROVE  status' \in [Jobs -> Status] /\ updatedAt' \in [Jobs -> Nat]
BY SetStatusType DEF RowsOK, Transition

LEMMA RecordType ==
    ASSUME RowsOK, now \in Nat, NEW j \in Jobs, NEW outcome \in Status,
           NEW id \in MediaIDs, Record(j, outcome, id)
    PROVE  /\ status' \in [Jobs -> Status] /\ updatedAt' \in [Jobs -> Nat]
           /\ media' \in [Jobs -> MediaIDs]
BY TransitionType DEF RowsOK, Record

LEMMA ParkType ==
    ASSUME RowsOK, now \in Nat, NEW j \in Jobs, Park(j)
    PROVE  status' \in [Jobs -> Status] /\ updatedAt' \in [Jobs -> Nat]
<1>1. {"WAITING_AI", "FAILED"} \subseteq Status
  BY DEF Status
<1>2. QED
  BY <1>1, SetStatusType DEF RowsOK, Park

\* A listing is a part of what was listed.
LEMMA ListingType ==
    ASSUME NEW S, NEW T \in Listing(S)
    PROVE  T \subseteq S
BY DEF Listing

(***************************************************************************)
(* Type correctness.  Each kind of process leaves the locals of the others *)
(* alone, so a step is checked against the parts of the state it writes.   *)
(***************************************************************************)

LEMMA GeneratorFrame ==
    ASSUME TypeOK, ByGenerator
    PROVE  (EffectsOK /\ now \in Nat /\ WorkersOK /\ RecoverersOK /\ OperatorsOK
               /\ media \in [Jobs -> MediaIDs])'
BY DEF TypeOK, ByGenerator, RowsOK, EffectsOK, WorkersOK, RecoverersOK, OperatorsOK,
       effectVars, workerVars, recovererVars, operatorVars

LEMMA WorkerFrame ==
    ASSUME TypeOK, ByWorker
    PROVE  (now \in Nat /\ edition \in [Jobs -> Nat] /\ GeneratorsOK /\ RecoverersOK
               /\ OperatorsOK)'
BY DEF TypeOK, ByWorker, RowsOK, GeneratorsOK, RecoverersOK, OperatorsOK,
       generatorVars, recovererVars, operatorVars

LEMMA RecovererFrame ==
    ASSUME TypeOK, ByRecoverer
    PROVE  (EffectsOK /\ now \in Nat /\ GeneratorsOK /\ WorkersOK /\ OperatorsOK)'
BY DEF TypeOK, ByRecoverer, EffectsOK, GeneratorsOK, WorkersOK, OperatorsOK,
       effectVars, generatorVars, workerVars, operatorVars

LEMMA OperatorFrame ==
    ASSUME TypeOK, ByOperator
    PROVE  (EffectsOK /\ now \in Nat /\ GeneratorsOK /\ WorkersOK /\ RecoverersOK
               /\ media \in [Jobs -> MediaIDs])'
BY DEF TypeOK, ByOperator, RowsOK, EffectsOK, GeneratorsOK, WorkersOK, RecoverersOK,
       effectVars, generatorVars, workerVars, recovererVars

LEMMA RowsFrame ==
    ASSUME RowsOK, UNCHANGED rowVars
    PROVE  RowsOK'
BY DEF RowsOK, rowVars

LEMMA EffectsFrame ==
    ASSUME EffectsOK, UNCHANGED effectVars
    PROVE  EffectsOK'
BY DEF EffectsOK, effectVars

LEMMA GeneratorType ==
    ASSUME TypeOK, NEW g \in Generators, GeneratorStep(g) \/ CrashGenerator(g)
    PROVE  TypeOK'
<1>0. RowsOK /\ now \in Nat /\ GeneratorsOK
  BY DEF TypeOK
<1>a. {"GENERATING_VARIANTS", "WAITING_VARIANT_APPROVAL", "FAILED"} \subseteq Status
  BY DEF Status
<1>b. ByGenerator
  BY DEF GeneratorStep, ClaimVariants, ContextMissing, GenerationFails, ReplaceVariants,
         CompleteAIStage, CrashGenerator
<1>c. SUFFICES (RowsOK /\ GeneratorsOK)'
  BY <1>b, GeneratorFrame DEF TypeOK
<1>m. media' \in [Jobs -> MediaIDs]
  BY <1>b, GeneratorFrame
<1>d. ASSUME GeneratorIdle(g)
      PROVE  GeneratorsOK'
  BY <1>0, <1>d DEF GeneratorIdle, GeneratorsOK, GeneratorPC
<1>1. CASE ClaimVariants(g)
  BY <1>0, <1>1, <1>a, <1>m, SetStatusType
     DEF ClaimVariants, RowsOK, GeneratorsOK, GeneratorPC
<1>2. CASE ContextMissing(g) \/ GenerationFails(g)
  <2>1. gjob[g] \in Jobs
    BY <1>0, <1>2 DEF ContextMissing, GenerationFails, GeneratorsOK
  <2>2. QED
    BY <1>0, <1>2, <1>a, <1>d, <1>m, <2>1, ParkType, TransitionType
       DEF ContextMissing, GenerationFails, RowsOK
<1>3. CASE ReplaceVariants(g)
  <2>1. gjob[g] \in Jobs
    BY <1>0, <1>3 DEF ReplaceVariants, GeneratorsOK
  <2>2. RowsOK'
    <3>1. edition[gjob[g]] + 1 \in Nat
      BY <1>0, <2>1 DEF RowsOK
    <3>2. edition' \in [Jobs -> Nat] /\ selected' \in [Jobs -> Variants \cup {NULL}]
      BY <1>0, <1>3, <3>1 DEF ReplaceVariants, RowsOK
    <3>3. QED
      BY <1>0, <1>3, <1>m, <3>2 DEF ReplaceVariants, RowsOK
  <2>3. GeneratorsOK'
    BY <1>0, <1>3, <2>1 DEF ReplaceVariants, GeneratorsOK, GeneratorPC
  <2>4. QED
    BY <2>2, <2>3
<1>4. CASE CompleteAIStage(g)
  <2>1. gjob[g] \in Jobs
    BY <1>0, <1>4 DEF CompleteAIStage, GeneratorsOK
  <2>2. QED
    BY <1>0, <1>4, <1>a, <1>d, <1>m, <2>1, TransitionType DEF CompleteAIStage, RowsOK
<1>5. CASE CrashGenerator(g)
  BY <1>0, <1>5, <1>d, RowsFrame DEF CrashGenerator
<1>6. QED
  BY <1>1, <1>2, <1>3, <1>4, <1>5 DEF GeneratorStep

LEMMA WorkerType ==
    ASSUME TypeOK, NEW w \in Workers, WorkerStep(w) \/ CallFails(w) \/ Crash(w)
    PROVE  TypeOK'
<1>0. RowsOK /\ EffectsOK /\ now \in Nat /\ WorkersOK
  BY DEF TypeOK
<1>a. {"APPROVED", "PUBLISHING", "PUBLISHED", "FAILED"} \subseteq Status
  BY DEF Status
<1>b. ByWorker
  BY DEF WorkerStep, BeginTick, ClaimScheduledDue, ListApproved, NextApproved,
         EndTick, WorkerIdle, LoadJob, ClaimPublishing, LoadVariant, PublishImage,
         PublishImageFails, LogSuccess, MarkPublished, MarkFailed, MarkOutcome,
         Notify, CallFails, Crash
<1>c. SUFFICES (RowsOK /\ EffectsOK /\ WorkersOK)'
  BY <1>b, WorkerFrame DEF TypeOK
<1>d. edition' \in [Jobs -> Nat]
  BY <1>b, WorkerFrame
<1>e. pc[w] \notin {"idle", "next"} => job[w] \in Jobs
  BY <1>0 DEF WorkersOK
<1>f. ASSUME JobDone(w), UNCHANGED <<live, pass, asOf, todo>>
      PROVE  WorkersOK'
  BY <1>0, <1>f DEF JobDone, Goto, WorkersOK, WorkerPC
<1>g. ASSUME UNCHANGED <<live, pass, asOf, todo, job, variant>>, NEW label \in WorkerPC,
             Goto(w, label), pc[w] \notin {"idle", "next"},
             label \in {"claim", "prepare", "publish"} => variant[w] \in Variants
      PROVE  WorkersOK'
  BY <1>0, <1>g DEF Goto, WorkersOK, WorkerPC
<1>1. CASE BeginTick(w)
  <2>1. PICK T \in Listing({j \in Jobs : IsDue(j, now)}) :
           todo' = [todo EXCEPT ![w] = T]
    BY <1>1 DEF BeginTick
  <2>2. T \subseteq Jobs
    BY <2>1, ListingType
  <2>3. WorkersOK'
    BY <1>0, <1>1, <2>1, <2>2 DEF BeginTick, Goto, WorkersOK, WorkerPC
  <2>4. QED
    BY <1>0, <1>1, <2>3, RowsFrame, EffectsFrame DEF BeginTick
<1>2. CASE ClaimScheduledDue(w)
  <2>1. RowsOK'
    BY <1>0, <1>2, <1>a, <1>d, SetStatusType DEF ClaimScheduledDue, RowsOK, WorkersOK
  <2>2. WorkersOK'
    BY <1>0, <1>2 DEF ClaimScheduledDue, Goto, WorkersOK, WorkerPC
  <2>3. QED
    BY <1>0, <1>2, <2>1, <2>2, EffectsFrame DEF ClaimScheduledDue
<1>3. CASE ListApproved(w)
  <2>1. PICK T \in Listing({j \in Jobs : status[j] = "APPROVED"}) :
           todo' = [todo EXCEPT ![w] = T]
    BY <1>3 DEF ListApproved
  <2>2. T \subseteq Jobs
    BY <2>1, ListingType
  <2>3. WorkersOK'
    BY <1>0, <1>3, <2>1, <2>2 DEF ListApproved, WorkersOK, WorkerPC
  <2>4. QED
    BY <1>0, <1>3, <2>3, RowsFrame, EffectsFrame DEF ListApproved
<1>4. CASE NextApproved(w)
  <2>1. WorkersOK'
    BY <1>0, <1>4 DEF NextApproved, Goto, WorkersOK, WorkerPC
  <2>2. QED
    BY <1>0, <1>4, <2>1, RowsFrame, EffectsFrame DEF NextApproved
<1>5. CASE WorkerIdle(w)
  <2>1. WorkersOK'
    BY <1>0, <1>5 DEF WorkerIdle, Goto, WorkersOK, WorkerPC
  <2>2. QED
    BY <1>0, <1>5, <2>1, RowsFrame, EffectsFrame DEF WorkerIdle
<1>6. CASE LoadJob(w)
  <2>1. WorkersOK'
    <3>1. CASE selected[job[w]] = NULL
      BY <1>6, <1>f, <3>1 DEF LoadJob
    <3>2. CASE selected[job[w]] # NULL
      <4>1. selected[job[w]] \in Variants
        BY <1>0, <1>6, <1>e, <3>2 DEF LoadJob, RowsOK
      <4>2. QED
        BY <1>0, <1>6, <3>2, <4>1 DEF LoadJob, Goto, WorkersOK, WorkerPC
    <3>3. QED
      BY <3>1, <3>2
  <2>2. QED
    BY <1>0, <1>6, <2>1, RowsFrame, EffectsFrame DEF LoadJob
<1>7. CASE ClaimPublishing(w)
  <2>1. RowsOK'
    BY <1>0, <1>7, <1>a, <1>d, <1>e, SetStatusType DEF ClaimPublishing, RowsOK
  <2>2. pc[w] = "claim" /\ variant[w] \in Variants
    BY <1>0, <1>7 DEF ClaimPublishing, WorkersOK
  <2>3. WorkersOK'
    BY <1>7, <1>f, <1>g, <2>2 DEF ClaimPublishing, WorkerPC
  <2>4. QED
    BY <1>0, <1>7, <2>1, <2>3, EffectsFrame DEF ClaimPublishing
<1>8. CASE LoadVariant(w)
  <2>1. pc[w] = "prepare" /\ variant[w] \in Variants
    BY <1>0, <1>8 DEF LoadVariant, WorkersOK
  <2>2. WorkersOK'
    BY <1>8, <1>g, <2>1 DEF LoadVariant, WorkerPC
  <2>3. QED
    BY <1>0, <1>8, <2>2, RowsFrame, EffectsFrame DEF LoadVariant
<1>9. CASE PublishImage(w) \/ PublishImageFails(w)
  <2>1. pc[w] = "publish" /\ variant[w] \in Variants
    BY <1>0, <1>9 DEF PublishImage, PublishImageFails, WorkersOK
  <2>2. EffectsOK'
    <3>1. CASE Posted(w)
      <4>1. Append(posts[job[w]], variant[w]) \in Seq(Variants)
        BY <1>0, <1>9, <1>e, <2>1 DEF EffectsOK
      <4>2. QED
        BY <1>0, <1>9, <3>1, <4>1 DEF PublishImage, PublishImageFails, Posted, EffectsOK
    <3>2. CASE UNCHANGED posts
      BY <1>0, <1>9, <3>2 DEF PublishImage, PublishImageFails, EffectsOK
    <3>3. QED
      BY <1>9, <3>1, <3>2 DEF PublishImage, PublishImageFails
  <2>3. WorkersOK'
    BY <1>9, <1>g, <2>1 DEF PublishImage, PublishImageFails, WorkerPC
  <2>4. QED
    BY <1>0, <1>9, <2>2, <2>3, RowsFrame DEF PublishImage, PublishImageFails
<1>10. CASE LogSuccess(w)
  <2>1. EffectsOK'
    BY <1>0, <1>10 DEF LogSuccess, EffectsOK, MediaID, MediaIDs
  <2>2. WorkersOK'
    BY <1>10, <1>g DEF LogSuccess, WorkerPC
  <2>3. QED
    BY <1>0, <1>10, <2>1, <2>2, RowsFrame DEF LogSuccess
<1>11. CASE MarkPublished(w) \/ MarkFailed(w)
  <2>1. RowsOK'
    <3>1. MediaID(w) \in MediaIDs
      BY DEF MediaID, MediaIDs
    <3>2. QED
      BY <1>0, <1>11, <1>a, <1>d, <1>e, <3>1, RecordType
         DEF MarkPublished, MarkFailed, MarkOutcome, RowsOK
  <2>2. WorkersOK'
    BY <1>11, <1>f, <1>g DEF MarkPublished, MarkFailed, MarkOutcome, WorkerPC
  <2>3. QED
    BY <1>0, <1>11, <2>1, <2>2, EffectsFrame DEF MarkPublished, MarkFailed, MarkOutcome
<1>12. CASE Notify(w)
  <2>1. EffectsOK'
    BY <1>0, <1>12 DEF Notify, EffectsOK
  <2>2. QED
    BY <1>0, <1>12, <1>f, <2>1, RowsFrame DEF Notify
<1>13. CASE CallFails(w)
  <2>1. ASSUME pc[w] = "next"
        PROVE  WorkersOK'
    BY <1>0, <1>13, <2>1 DEF CallFails, WorkersOK
  <2>2. ASSUME pc[w] \in {"prepare", "log"}
        PROVE  WorkersOK'
    BY <1>13, <1>g, <2>2 DEF CallFails, WorkerPC
  <2>3. ASSUME pc[w] \notin {"next", "prepare", "log"}
        PROVE  WorkersOK'
    BY <1>13, <1>f, <2>3 DEF CallFails
  <2>4. WorkersOK'
    BY <2>1, <2>2, <2>3
  <2>5. QED
    BY <1>0, <1>13, <2>4, RowsFrame, EffectsFrame DEF CallFails
<1>14. QED
  BY <1>1, <1>2, <1>3, <1>4, <1>5, <1>6, <1>7, <1>8, <1>9, <1>10, <1>11, <1>12, <1>13
     DEF WorkerStep, EndTick, Crash

LEMMA RecovererType ==
    ASSUME TypeOK, NEW r \in Recoverers,
           RecovererStep(r) \/ ReadLogFails(r) \/ RecoverMarkFails(r)
              \/ CrashRecovery(r)
    PROVE  TypeOK'
<1>0. RowsOK /\ now \in Nat /\ RecoverersOK /\ EffectsOK
  BY DEF TypeOK
<1>b. ByRecoverer
  BY DEF RecovererStep, ListStale, ParkStale, ReadLog, ReadLogFails, AskLog,
         RecoverMark, RecoverMarkFails, RecovererIdle, EndRecovery, CrashRecovery
<1>c. SUFFICES (RowsOK /\ RecoverersOK)'
  BY <1>b, RecovererFrame DEF TypeOK
<1>1. CASE ListStale(r)
  <2>1. PICK T \in Listing(StaleJobs) : rtodo' = [rtodo EXCEPT ![r] = T]
    BY <1>1 DEF ListStale
  <2>2. T \subseteq Jobs \X Stalling
    BY <2>1, ListingType DEF StaleJobs
  <2>3. RecoverersOK'
    BY <1>0, <1>1, <2>1, <2>2 DEF ListStale, RecoverersOK, RecovererPC
  <2>4. QED
    BY <1>0, <1>1, <2>3, RowsFrame DEF ListStale
<1>2. CASE ParkStale(r)
  <2>1. RowsOK'
    BY <1>0, <1>2, ParkType DEF ParkStale, RowsOK
  <2>2. QED
    BY <1>0, <1>2, <2>1 DEF ParkStale, RecoverersOK
<1>3. CASE ReadLog(r) \/ ReadLogFails(r)
  <2>1. PICK j \in Jobs, id \in MediaIDs :
           /\ rtodo' = [rtodo EXCEPT ![r] = @ \ {<<j, "PUBLISHING">>}]
           /\ rjob' = [rjob EXCEPT ![r] = j]
           /\ found' = [found EXCEPT ![r] = id]
           /\ rpc' = [rpc EXCEPT ![r] = "mark"]
    BY <1>0, <1>3 DEF ReadLog, ReadLogFails, AskLog, EffectsOK, MediaIDs
  <2>2. RecoverersOK'
    BY <1>0, <2>1 DEF RecoverersOK, RecovererPC
  <2>3. QED
    BY <1>0, <1>3, <2>2, RowsFrame DEF ReadLog, ReadLogFails, AskLog
<1>4. ASSUME RecovererDone(r)
      PROVE  RecoverersOK'
  BY <1>0, <1>4 DEF RecovererDone, RecoverersOK, RecovererPC, MediaIDs
<1>5. CASE RecoverMark(r)
  <2>1. rjob[r] \in Jobs /\ RecoveredTo(r) \in Status /\ found[r] \in MediaIDs
    BY <1>0, <1>5 DEF RecoverMark, RecoverersOK, RecoveredTo, Status
  <2>2. RowsOK'
    BY <1>0, <1>5, <2>1, RecordType DEF RecoverMark, RowsOK
  <2>3. QED
    BY <1>4, <1>5, <2>2 DEF RecoverMark
<1>6. CASE RecoverMarkFails(r)
  BY <1>0, <1>4, <1>6, RowsFrame DEF RecoverMarkFails
<1>7. CASE RecovererIdle(r)
  <2>1. RecoverersOK'
    BY <1>0, <1>7 DEF RecovererIdle, RecoverersOK, RecovererPC, MediaIDs
  <2>2. QED
    BY <1>0, <1>7, <2>1, RowsFrame DEF RecovererIdle
<1>8. QED
  BY <1>1, <1>2, <1>3, <1>5, <1>6, <1>7 DEF RecovererStep, EndRecovery, CrashRecovery

LEMMA OperatorType ==
    ASSUME TypeOK, NEW o \in Operators, OperatorStep(o)
    PROVE  TypeOK'
<1>0. RowsOK /\ now \in Nat /\ OperatorsOK
  BY DEF TypeOK
<1>a. {"READY_TO_PUBLISH", "APPROVED", "SCHEDULED"} \subseteq Status
  BY DEF Status
<1>b. ByOperator
  BY DEF OperatorStep, BeginSelect, BeginPublish, BeginSchedule, Request, CommitSelect,
         CommitReselect, CommitPublish, CommitSchedule, CommitReschedule, Abandon, Commit
<1>c. SUFFICES (RowsOK /\ OperatorsOK)'
  BY <1>b, OperatorFrame DEF TypeOK
<1>d. ASSUME NEW j \in Jobs, NEW choice \in Variants \cup {NULL},
             NEW at \in Nat \cup {NULL}, NEW label \in OperatorPC,
             Request(o, j, choice, at, label),
             label \in {"select", "reselect"} => choice \in Variants,
             label \in {"schedule", "reschedule"} => at \in Nat
      PROVE  (RowsOK /\ OperatorsOK)'
  <2>1. OperatorsOK'
    BY <1>0, <1>d DEF Request, OperatorsOK, OperatorPC
  <2>2. QED
    BY <1>0, <1>d, <2>1, RowsFrame DEF Request
<1>e. ASSUME opc' = [opc EXCEPT ![o] = "idle"],
             ojob' = [ojob EXCEPT ![o] = NULL],
             ochoice' = [ochoice EXCEPT ![o] = NULL],
             otime' = [otime EXCEPT ![o] = NULL]
      PROVE  OperatorsOK'
  BY <1>0, <1>e DEF OperatorsOK, OperatorPC
<1>f. opc[o] # "idle" => ojob[o] \in Jobs
  BY <1>0 DEF OperatorsOK
<1>m. media' \in [Jobs -> MediaIDs]
  BY <1>b, OperatorFrame
<1>1. CASE \E j \in Jobs : \E n \in Choices : BeginSelect(o, j, <<edition[j], n>>)
  BY <1>0, <1>1, <1>d DEF BeginSelect, OperatorPC, RowsOK, Variants
<1>2. CASE \E j \in Jobs : BeginPublish(o, j)
  BY <1>2, <1>d DEF BeginPublish, OperatorPC
<1>3. CASE \E j \in Jobs : BeginSchedule(o, j)
  <2>1. (now + 1) .. (now + Horizon) \subseteq Nat
    BY <1>0
  <2>2. QED
    BY <1>3, <1>d, <2>1 DEF BeginSchedule, OperatorPC
<1>4. CASE CommitSelect(o)
  <2>1. ochoice[o] \in Variants /\ ojob[o] \in Jobs
    BY <1>0, <1>4 DEF CommitSelect, Commit, OperatorsOK
  <2>2. RowsOK'
    BY <1>0, <1>4, <1>a, <1>m, <2>1, SetStatusType, RowsFrame
       DEF CommitSelect, Commit, RowsOK
  <2>3. QED
    BY <1>4, <1>e, <2>2 DEF CommitSelect, Commit
<1>5. CASE CommitReselect(o)
  <2>1. ochoice[o] \in Variants /\ ojob[o] \in Jobs
    BY <1>0, <1>5 DEF CommitReselect, Commit, OperatorsOK
  <2>2. RowsOK'
    BY <1>0, <1>5, <1>m, <2>1, RowsFrame DEF CommitReselect, Commit, RowsOK
  <2>3. QED
    BY <1>5, <1>e, <2>2 DEF CommitReselect, Commit
<1>6. CASE CommitPublish(o)
  <2>1. RowsOK'
    BY <1>0, <1>6, <1>a, <1>f, <1>m, SetStatusType, RowsFrame
       DEF CommitPublish, Commit, RowsOK
  <2>2. QED
    BY <1>6, <1>e, <2>1 DEF CommitPublish, Commit
<1>7. CASE CommitSchedule(o)
  <2>1. otime[o] \in Nat /\ ojob[o] \in Jobs
    BY <1>0, <1>7 DEF CommitSchedule, Commit, OperatorsOK
  <2>2. RowsOK'
    BY <1>0, <1>7, <1>a, <1>m, <2>1, SetStatusType, RowsFrame
       DEF CommitSchedule, Commit, RowsOK
  <2>3. QED
    BY <1>7, <1>e, <2>2 DEF CommitSchedule, Commit
<1>8. CASE CommitReschedule(o)
  <2>1. otime[o] \in Nat /\ ojob[o] \in Jobs
    BY <1>0, <1>8 DEF CommitReschedule, Commit, OperatorsOK
  <2>2. RowsOK'
    BY <1>0, <1>8, <1>m, <2>1, RowsFrame DEF CommitReschedule, Commit, RowsOK
  <2>3. QED
    BY <1>8, <1>e, <2>2 DEF CommitReschedule, Commit
<1>9. CASE Abandon(o)
  BY <1>0, <1>9, <1>e, RowsFrame DEF Abandon, Commit
<1>10. QED
  BY <1>1, <1>2, <1>3, <1>4, <1>5, <1>6, <1>7, <1>8, <1>9 DEF OperatorStep

LEMMA JobStepType ==
    ASSUME TypeOK, NEW j \in Jobs, JobStep(j)
    PROVE  TypeOK'
<1>0. RowsOK /\ EffectsOK /\ now \in Nat
  BY DEF TypeOK
<1>a. {"READY_TO_PUBLISH", "SKIPPED", "VARIANTS_QUEUED"} \subseteq Status
  BY DEF Status
<1>1. CASE RepairNotice(j)
  <2>1. PICK key \in {"published", "job-failed"} :
           notices' = [notices EXCEPT ![j] = @ \cup {key}]
    BY <1>1 DEF RepairNotice
  <2>2. EffectsOK'
    BY <1>0, <1>1, <2>1 DEF RepairNotice, EffectsOK
  <2>3. QED
    BY <1>0, <1>1, <2>2, RowsFrame
       DEF RepairNotice, TypeOK, GeneratorsOK, WorkersOK, RecoverersOK, OperatorsOK,
           generatorVars, workerVars, recovererVars, operatorVars
<1>2. CASE CancelSchedule(j) \/ SkipJob(j) \/ QueueVariants(j) \/ RetryWaitingAI(j)
  <2>1. ByOperator /\ UNCHANGED operatorVars
    BY <1>2 DEF CancelSchedule, SkipJob, QueueVariants, RetryWaitingAI
  <2>2. RowsOK'
    BY <1>0, <1>2, <1>a, <2>1, OperatorFrame, SetStatusType
       DEF CancelSchedule, SkipJob, QueueVariants, RetryWaitingAI, RowsOK
  <2>3. QED
    BY <2>1, <2>2, OperatorFrame DEF TypeOK, OperatorsOK, operatorVars
<1>3. QED
  BY <1>1, <1>2 DEF JobStep

LEMMA NextType == TypeOK /\ [Next]_vars => TypeOK'
<1> SUFFICES ASSUME TypeOK, [Next]_vars
             PROVE  TypeOK'
  OBVIOUS
<1>1. CASE Tick \/ UNCHANGED vars
  BY <1>1 DEF Tick, vars, TypeOK, RowsOK, EffectsOK, GeneratorsOK, WorkersOK,
              RecoverersOK, OperatorsOK, rowVars, effectVars, generatorVars,
              workerVars, recovererVars, operatorVars
<1>2. QED
  BY <1>1, GeneratorType, WorkerType, RecovererType, OperatorType, JobStepType
     DEF Next, Work, Faults

\* Every variable keeps its type, and a process that has something in hand has
\* the locals that go with it: no step of a loop or of a request dereferences a
\* job or a variant it has not got.
THEOREM TypeCorrect == Spec => []TypeOK
<1>1. Init => TypeOK
  BY DEF Init, TypeOK, RowsOK, EffectsOK, GeneratorsOK, WorkersOK, RecoverersOK,
         OperatorsOK, Status, MediaIDs, GeneratorPC, WorkerPC, RecovererPC, OperatorPC
<1>2. QED
  BY <1>1, NextType, PTL DEF Spec
=============================================================================
