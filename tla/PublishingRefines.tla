-------------------------- MODULE PublishingRefines --------------------------
(***************************************************************************)
(* Publishing implements PublishOnce: every step of the program takes a    *)
(* job, shows it, forfeits its permit, settles it or changes nothing that  *)
(* PublishOnce can see.                                                    *)
(***************************************************************************)
EXTENDS PublishingProofs

phaseBar  == [j \in Jobs |-> phaseOf(status[j])]
permitBar == [j \in Jobs |-> \E w \in Workers : Holds(w, j)]
shownBar  == [j \in Jobs |-> Len(posts[j])]

\* A step changes the status of one row at most.
OneRow(k) == \A j \in Jobs \ {k} : status'[j] = status[j]

LEMMA SetStatusOneRow ==
    ASSUME RowsOK, NEW k \in Jobs, NEW to, SetStatus(k, to)
    PROVE  OneRow(k)
BY DEF RowsOK, SetStatus, OneRow

\* A media id is written with the state PUBLISHED and at no other time.
ReportOf(k) ==
    \/ UNCHANGED media /\ (status'[k] = "PUBLISHED" => status[k] = "PUBLISHED")
    \/ /\ status[k] # "PUBLISHED" /\ status'[k] = "PUBLISHED"
       /\ \E id \in MediaIDs : media' = [media EXCEPT ![k] = id]

\* One row moves, and is not taken for publishing.
RowMoves ==
    \/ UNCHANGED <<status, media>>
    \/ \E k \in Jobs : OneRow(k) /\ status'[k] # "PUBLISHING" /\ ReportOf(k)

LEMMA SetStatusMoves ==
    ASSUME RowsOK, NEW k \in Jobs, NEW to, to \notin {"PUBLISHING", "PUBLISHED"},
           SetStatus(k, to), UNCHANGED media
    PROVE  RowMoves
<1>1. status'[k] = to
  BY DEF SetStatus, RowsOK
<1>2. QED
  BY <1>1, SetStatusOneRow DEF RowMoves, ReportOf

LEMMA RecordMoves ==
    ASSUME RowsOK, NEW k \in Jobs, NEW outcome \in {"PUBLISHED", "FAILED"},
           NEW id \in MediaIDs, Record(k, outcome, id)
    PROVE  RowMoves
<1>1. CASE ~CanTransition(status[k], outcome)
  BY <1>1 DEF Record, Transition, RowMoves, RowsOK
<1>2. CASE CanTransition(status[k], "FAILED") /\ outcome = "FAILED"
  BY <1>2, SetStatusMoves DEF Record, Transition, RowsOK
<1>3. CASE CanTransition(status[k], "PUBLISHED") /\ outcome = "PUBLISHED"
  <2>1. status[k] = "PUBLISHING"
    BY <1>3, StatusLookup DEF CanTransition, allowedTransitions, Status
  <2>2. SetStatus(k, "PUBLISHED") /\ media' = [media EXCEPT ![k] = id]
    BY <1>3 DEF Record, Transition
  <2>3. OneRow(k) /\ status'[k] = "PUBLISHED"
    BY <2>2, SetStatusOneRow DEF SetStatus, RowsOK
  <2>4. QED
    BY <2>1, <2>2, <2>3 DEF RowMoves, ReportOf
<1>4. QED
  BY <1>1, <1>2, <1>3

\* What the processes other than workers do to rows and to Instagram.
Settles == UNCHANGED <<workerVars, posts>> /\ RowMoves

LEMMA SetStatusSettles ==
    ASSUME RowsOK, NEW k \in Jobs, NEW to, to \notin {"PUBLISHING", "PUBLISHED"},
           SetStatus(k, to), UNCHANGED <<workerVars, media, posts>>
    PROVE  Settles
BY SetStatusMoves DEF Settles

LEMMA NonWorkerSettles ==
    ASSUME TypeOK, [Next]_vars,
           ~ \E w \in Workers : WorkerStep(w) \/ CallFails(w) \/ Crash(w)
    PROVE  Settles
<1>0. RowsOK
  BY DEF TypeOK
<1>1. ASSUME NEW g \in Generators, GeneratorStep(g) \/ CrashGenerator(g)
      PROVE  Settles
  <2>1. UNCHANGED <<workerVars, media, posts>>
    BY <1>1 DEF GeneratorStep, ClaimVariants, ContextMissing, GenerationFails,
                ReplaceVariants, CompleteAIStage, CrashGenerator, ByGenerator, effectVars
  <2>2. gpc[g] # "idle" => gjob[g] \in Jobs
    BY DEF TypeOK, GeneratorsOK
  <2>3. CASE ClaimVariants(g)
    BY <1>0, <2>1, <2>3, SetStatusSettles DEF ClaimVariants
  <2>4. CASE ContextMissing(g) \/ GenerationFails(g) \/ CompleteAIStage(g)
    BY <1>0, <2>1, <2>2, <2>4, SetStatusSettles
       DEF ContextMissing, GenerationFails, CompleteAIStage, Park, Transition, Settles,
           RowMoves
  <2>5. CASE UNCHANGED status
    BY <2>1, <2>5 DEF Settles, RowMoves
  <2>6. QED
    BY <1>1, <2>3, <2>4, <2>5
       DEF GeneratorStep, ReplaceVariants, CrashGenerator, rowVars
<1>2. ASSUME NEW r \in Recoverers,
             RecovererStep(r) \/ ReadLogFails(r) \/ RecoverMarkFails(r)
                \/ CrashRecovery(r)
      PROVE  Settles
  <2>1. UNCHANGED <<workerVars, posts>>
    BY <1>2 DEF RecovererStep, ListStale, ParkStale, ReadLog, ReadLogFails, AskLog,
                RecoverMark, RecoverMarkFails, RecovererIdle, EndRecovery,
                CrashRecovery, ByRecoverer, effectVars
  <2>2. rpc[r] = "mark" => rjob[r] \in Jobs
    BY DEF TypeOK, RecoverersOK
  <2>3. CASE ParkStale(r)
    BY <1>0, <2>1, <2>3, SetStatusSettles DEF ParkStale, Park, Settles, RowMoves
  <2>4. CASE RecoverMark(r)
    <3>1. found[r] \in MediaIDs /\ RecoveredTo(r) \in {"PUBLISHED", "FAILED"}
      BY DEF TypeOK, RecoverersOK, RecoveredTo
    <3>2. QED
      BY <1>0, <2>1, <2>2, <2>4, <3>1, RecordMoves DEF RecoverMark, Settles
  <2>5. CASE UNCHANGED rowVars
    BY <2>1, <2>5 DEF Settles, RowMoves, rowVars
  <2>6. QED
    BY <1>2, <2>3, <2>4, <2>5
       DEF RecovererStep, ListStale, ReadLog, ReadLogFails, AskLog, RecoverMarkFails,
           RecovererIdle, EndRecovery, CrashRecovery
<1>3. ASSUME NEW o \in Operators, OperatorStep(o)
      PROVE  Settles
  <2>1. UNCHANGED <<workerVars, media, posts>>
    BY <1>3 DEF OperatorStep, BeginSelect, BeginPublish, BeginSchedule, Request,
                CommitSelect, CommitReselect, CommitPublish, CommitSchedule,
                CommitReschedule, Abandon, Commit, ByOperator, effectVars
  <2>2. opc[o] # "idle" => ojob[o] \in Jobs
    BY DEF TypeOK, OperatorsOK
  <2>3. CASE CommitSelect(o) \/ CommitPublish(o) \/ CommitSchedule(o)
    BY <1>0, <2>1, <2>2, <2>3, SetStatusSettles
       DEF CommitSelect, CommitPublish, CommitSchedule, Commit, rowVars, Settles,
           RowMoves
  <2>4. CASE UNCHANGED status
    BY <2>1, <2>4 DEF Settles, RowMoves
  <2>5. QED
    BY <1>3, <2>3, <2>4
       DEF OperatorStep, BeginSelect, BeginPublish, BeginSchedule, Request,
           CommitReselect, CommitReschedule, Abandon, Commit, rowVars
<1>4. ASSUME NEW j \in Jobs, JobStep(j)
      PROVE  Settles
  <2>1. UNCHANGED <<workerVars, media, posts>>
    BY <1>4 DEF JobStep, CancelSchedule, SkipJob, QueueVariants, RetryWaitingAI,
                RepairNotice, ByOperator, rowVars, effectVars
  <2>2. QED
    BY <1>0, <1>4, <2>1, SetStatusSettles
       DEF JobStep, CancelSchedule, SkipJob, QueueVariants, RetryWaitingAI,
           RepairNotice, rowVars, Settles, RowMoves
<1>5. CASE Tick \/ UNCHANGED vars
  BY <1>5 DEF Tick, vars, rowVars, effectVars, Settles, RowMoves
<1>6. QED
  BY <1>1, <1>2, <1>3, <1>4, <1>5 DEF Next, Work, Faults

\* What a worker does, as PublishOnce sees it.
Claims(w) ==
    /\ pc[w] = "claim" /\ pc'[w] = "prepare"
    /\ OneRow(job[w])
    /\ status[job[w]] = "APPROVED" /\ status'[job[w]] = "PUBLISHING"
    /\ job'[w] = job[w]
    /\ UNCHANGED <<media, posts>>

Publishes(w) ==
    /\ pc[w] = "publish" /\ pc'[w] \notin {"prepare", "publish"}
    /\ Posted(w)
    /\ UNCHANGED <<status, media>>

LetsGo(w) ==
    /\ pc[w] \in {"prepare", "publish"} /\ pc'[w] \notin {"prepare", "publish"}
    /\ UNCHANGED <<status, media, posts>>

Keeps(w) ==
    /\ \/ /\ pc[w] \in {"prepare", "publish"} /\ pc'[w] \in {"prepare", "publish"}
          /\ job'[w] = job[w]
       \/ pc[w] \notin {"prepare", "publish"} /\ pc'[w] \notin {"prepare", "publish"}
    /\ UNCHANGED posts
    /\ RowMoves

LEMMA WorkerSeen ==
    ASSUME TypeOK, NEW w \in Workers, WorkerStep(w) \/ CallFails(w) \/ Crash(w)
    PROVE  Claims(w) \/ Publishes(w) \/ LetsGo(w) \/ Keeps(w)
<1>0. RowsOK /\ WorkersOK
  BY DEF TypeOK
<1>1. pc[w] \notin {"idle", "next"} => job[w] \in Jobs
  BY <1>0 DEF WorkersOK
<1>2. CASE BeginTick(w) \/ ListApproved(w) \/ NextApproved(w) \/ LoadJob(w)
              \/ LogSuccess(w) \/ Notify(w)
  BY <1>0, <1>2 DEF BeginTick, ListApproved, NextApproved, LoadJob, LogSuccess, Notify,
                    JobDone, Goto, rowVars, effectVars, WorkersOK, Keeps,
                    RowMoves
<1>3. CASE ClaimScheduledDue(w)
  <2>1. PICK j \in todo[w] : UNCHANGED status \/ SetStatus(j, "APPROVED")
    BY <1>3 DEF ClaimScheduledDue
  <2>2. j \in Jobs /\ UNCHANGED media
    BY <1>0, <1>3 DEF ClaimScheduledDue, WorkersOK
  <2>3. RowMoves
    BY <1>0, <2>1, <2>2, SetStatusMoves DEF RowMoves
  <2>4. pc[w] \notin {"prepare", "publish"} /\ pc'[w] \notin {"prepare", "publish"}
    BY <1>0, <1>3 DEF ClaimScheduledDue, Goto, WorkersOK
  <2>5. QED
    BY <1>3, <2>3, <2>4 DEF ClaimScheduledDue, effectVars, Keeps
<1>4. CASE ClaimPublishing(w)
  <2>1. CASE Claimable(job[w])
    BY <1>0, <1>1, <1>4, <2>1, SetStatusOneRow
       DEF ClaimPublishing, Claimable, SetStatus, Goto, effectVars, RowsOK, WorkersOK,
           Claims
  <2>2. CASE ~Claimable(job[w])
    BY <1>0, <1>4, <2>2 DEF ClaimPublishing, JobDone, Goto, effectVars, WorkersOK, Keeps,
                            RowMoves
  <2>3. QED
    BY <2>1, <2>2
<1>5. CASE LoadVariant(w)
  BY <1>0, <1>5 DEF LoadVariant, Goto, rowVars, effectVars, WorkersOK, Keeps,
                    LetsGo, RowMoves
<1>6. CASE PublishImage(w) \/ PublishImageFails(w)
  BY <1>0, <1>6 DEF PublishImage, PublishImageFails, Goto, rowVars, WorkersOK,
                    Publishes, LetsGo
<1>7. CASE MarkPublished(w) \/ MarkFailed(w)
  <2>1. RowMoves
    <3>1. MediaID(w) \in MediaIDs
      BY DEF MediaID, MediaIDs
    <3>2. QED
      BY <1>0, <1>1, <1>7, <3>1, RecordMoves DEF MarkPublished, MarkFailed, MarkOutcome
  <2>2. pc[w] \notin {"prepare", "publish"} /\ pc'[w] \notin {"prepare", "publish"}
    BY <1>0, <1>7 DEF MarkPublished, MarkFailed, MarkOutcome, JobDone, Goto, WorkersOK
  <2>3. UNCHANGED posts /\ job[w] \in Jobs
    BY <1>1, <1>7 DEF MarkPublished, MarkFailed, MarkOutcome, effectVars
  <2>4. QED
    BY <2>1, <2>2, <2>3 DEF Keeps
<1>8. CASE CallFails(w)
  BY <1>0, <1>8 DEF CallFails, JobDone, Goto, rowVars, effectVars, WorkersOK, Keeps,
                    LetsGo, RowMoves
<1>9. CASE WorkerIdle(w)
  BY <1>0, <1>9 DEF WorkerIdle, Goto, rowVars, effectVars, WorkersOK, Keeps,
                    LetsGo, RowMoves
<1>10. QED
  BY <1>2, <1>3, <1>4, <1>5, <1>6, <1>7, <1>8, <1>9 DEF WorkerStep, EndTick, Crash

(***************************************************************************)
(* The same in the terms of PublishOnce.                                   *)
(***************************************************************************)

LEMMA PhaseTable ==
    ASSUME NEW s \in Status, NEW t \in Status, CanTransition(s, t)
    PROVE  \/ phaseOf(t) = phaseOf(s)
           \/ t = "PUBLISHING"
           \/ t = "PUBLISHED" /\ phaseOf(s) = "taken" /\ phaseOf(t) = "published"
           \/ phaseOf(s) \in {"open", "taken"} /\ phaseOf(t) = "failed"
           \/ phaseOf(s) = "open" /\ phaseOf(t) = "dropped"
BY DEF Status, CanTransition, allowedTransitions, phaseOf

LEMMA PhaseMoves ==
    ASSUME NEW k \in Jobs, OneRow(k)
    PROVE  phaseBar' = [phaseBar EXCEPT ![k] = phaseOf(status'[k])]
BY DEF phaseBar, OneRow

\* A row that moves without being taken settles its job, or nothing is seen.
LEMMA RowSeen ==
    ASSUME TypeOK, TypeOK', [Next]_vars, JobsPosts', OwnersPosts', NEW k \in Jobs,
           OneRow(k), ReportOf(k), status'[k] # "PUBLISHING", permitBar' = permitBar,
           UNCHANGED posts
    PROVE  Once!Next \/ UNCHANGED Once!vars
<1>1. status[k] \in Status /\ status'[k] \in Status
  BY DEF TypeOK, RowsOK
<1>2. status'[k] = status[k] \/ CanTransition(status[k], status'[k])
  BY NextStatus DEF StatusStep
<1>3. phaseBar' = [phaseBar EXCEPT ![k] = phaseOf(status'[k])] /\ shownBar' = shownBar
  BY PhaseMoves DEF shownBar
<1>4. phaseBar[k] = phaseOf(status[k])
  BY DEF phaseBar
<1>5. CASE phaseOf(status'[k]) = phaseOf(status[k])
  <2>1. phaseBar' = phaseBar
    BY <1>3, <1>4, <1>5 DEF phaseBar
  <2>2. UNCHANGED media
    BY <1>1, <1>5 DEF ReportOf, phaseOf, Status
  <2>3. QED
    BY <1>3, <2>1, <2>2 DEF Once!vars, phaseBar, permitBar, shownBar
<1>6. CASE /\ status'[k] = "PUBLISHED"
           /\ phaseOf(status[k]) = "taken"
           /\ phaseOf(status'[k]) = "published"
  <2>1. PICK id \in MediaIDs : media' = [media EXCEPT ![k] = id]
    BY <1>6 DEF ReportOf, phaseOf
  <2>2. posts[k] \in Seq(Variants) /\ shownBar[k] = Len(posts[k])
    BY DEF TypeOK, EffectsOK, shownBar
  <2>3. id = IF shownBar[k] > 0 THEN "post" ELSE "dryrun"
    <3>1. media'[k] = IF posts[k] # <<>> THEN "post" ELSE "dryrun"
      BY <1>6 DEF JobsPosts, TrueID
    <3>2. media'[k] = id
      BY <2>1 DEF TypeOK, RowsOK
    <3>3. posts[k] # <<>> <=> shownBar[k] > 0
      BY <2>2
    <3>4. QED
      BY <3>1, <3>2, <3>3
  <2>4. ~permitBar[k]
    <3>1. \A w \in Workers : ~(pc'[w] \in {"prepare", "publish"} /\ job'[w] = k)
      BY <1>6 DEF OwnersPosts
    <3>2. ~permitBar'[k]
      BY <3>1 DEF permitBar, Holds
    <3>3. QED
      BY <3>2
  <2>5. Once!Publish(k)
    BY <1>3, <1>4, <1>6, <2>1, <2>3, <2>4
       DEF Once!Publish, Once!Move, phaseBar, permitBar, shownBar
  <2>6. QED
    BY <2>5 DEF Once!Next
<1>7. CASE phaseOf(status[k]) \in {"open", "taken"} /\ phaseOf(status'[k]) = "failed"
  <2>1. UNCHANGED media
    BY <1>7 DEF ReportOf, phaseOf
  <2>2. Once!Fail(k)
    BY <1>3, <1>4, <1>7, <2>1 DEF Once!Fail, Once!Move, phaseBar, permitBar, shownBar
  <2>3. QED
    BY <2>2 DEF Once!Next
<1>8. CASE phaseOf(status[k]) = "open" /\ phaseOf(status'[k]) = "dropped"
  <2>1. UNCHANGED media
    BY <1>8 DEF ReportOf, phaseOf
  <2>2. Once!Drop(k)
    BY <1>3, <1>4, <1>8, <2>1 DEF Once!Drop, Once!Move, phaseBar, permitBar, shownBar
  <2>3. QED
    BY <2>2 DEF Once!Next
<1>9. QED
  BY <1>1, <1>2, <1>5, <1>6, <1>7, <1>8, PhaseTable

\* Only one worker can hold a job's permit, so what happens to the permit is
\* decided by the worker that moves.
LEMMA PermitAfter ==
    ASSUME TypeOK, Ownership, NEW w \in Workers, Alone(w), NEW j \in Jobs
    PROVE  /\ ~Holds(w, j) /\ ~Holds(w, j)' => permitBar'[j] = permitBar[j]
           /\ Holds(w, j)' => permitBar'[j]
           /\ Holds(w, j) => permitBar[j]
           /\ Holds(w, j) /\ ~Holds(w, j)' => ~permitBar'[j]
<1>1. \A v \in Workers \ {w} : Holds(v, j)' <=> Holds(v, j)
  BY DEF Alone, Holds
<1>2. \A v \in Workers : Holds(v, j) /\ Holds(w, j) => v = w
  BY DEF Ownership, Owning, Holds
<1>3. permitBar[j] = (\E v \in Workers : Holds(v, j))
  BY DEF permitBar
<1>4. permitBar'[j] = (\E v \in Workers : Holds(v, j)')
  BY DEF permitBar
<1>5. QED
  BY <1>1, <1>2, <1>3, <1>4

LEMMA StepSeen ==
    ASSUME TypeOK, TypeOK', [Next]_vars, OneOwnerOnePost, OneOwnerOnePost'
    PROVE  Once!Next \/ UNCHANGED Once!vars
<1>0. /\ Ownership /\ OwnersPosts /\ OwnersPosts'
      /\ JobsPosts /\ JobsPosts'
  BY DEF OneOwnerOnePost
<1>1. CASE Settles
  <2>1. permitBar' = permitBar
    BY <1>1 DEF Settles, workerVars, permitBar, Holds
  <2>2. CASE UNCHANGED <<status, media>>
    BY <1>1, <2>1, <2>2 DEF Settles, Once!vars, phaseBar, permitBar, shownBar
  <2>3. CASE \E k \in Jobs : OneRow(k) /\ status'[k] # "PUBLISHING" /\ ReportOf(k)
    BY <1>0, <1>1, <2>1, <2>3, RowSeen DEF Settles
  <2>4. QED
    BY <1>1, <2>2, <2>3 DEF Settles, RowMoves
<1>2. ASSUME NEW w \in Workers, WorkerStep(w) \/ CallFails(w) \/ Crash(w)
      PROVE  Once!Next \/ UNCHANGED Once!vars
  <2>0. Alone(w) /\ (Claims(w) \/ Publishes(w) \/ LetsGo(w) \/ Keeps(w))
    BY <1>2, WorkerAlone, WorkerSeen
  <2>a. pc[w] \notin {"idle", "next"} => job[w] \in Jobs
    BY DEF TypeOK, WorkersOK
  <2>1. CASE Claims(w)
    <3>0. PICK k \in Jobs : k = job[w]
      BY <2>1, <2>a DEF Claims
    <3>1. Holds(w, k)'
      BY <2>1, <3>0 DEF Claims, Holds
    <3>2. \A j \in Jobs \ {k} : ~Holds(w, j) /\ ~Holds(w, j)'
      BY <2>1, <3>0 DEF Claims, Holds
    <3>3. permitBar' = [permitBar EXCEPT ![k] = TRUE]
      <4>1. \A j \in Jobs : permitBar'[j] \in BOOLEAN
        BY DEF permitBar
      <4>2. permitBar'[k]
        BY <1>0, <2>0, <3>1, PermitAfter
      <4>3. \A j \in Jobs \ {k} : permitBar'[j] = permitBar[j]
        BY <1>0, <2>0, <3>2, PermitAfter
      <4>4. QED
        BY <4>1, <4>2, <4>3 DEF permitBar
    <3>4. phaseBar' = [phaseBar EXCEPT ![k] = "taken"]
      BY <2>1, <3>0, PhaseMoves DEF Claims, phaseOf
    <3>5. phaseBar[k] = "open"
      BY <2>1, <3>0 DEF Claims, phaseBar, phaseOf
    <3>6. shownBar' = shownBar
      BY <2>1 DEF Claims, shownBar
    <3>7. Once!Take(k)
      BY <2>1, <3>3, <3>4, <3>5, <3>6
         DEF Claims, Once!Take, Once!Move, phaseBar, permitBar, shownBar
    <3>8. QED
      BY <3>7 DEF Once!Next
  <2>2. ASSUME Publishes(w) \/ LetsGo(w)
        PROVE  /\ job[w] \in Jobs
               /\ permitBar[job[w]]
               /\ permitBar' = [permitBar EXCEPT ![job[w]] = FALSE]
               /\ phaseBar' = phaseBar
               /\ UNCHANGED media
    <3>1. job[w] \in Jobs /\ Holds(w, job[w])
      BY <2>2, <2>a DEF Publishes, LetsGo, Holds
    <3>2. \A j \in Jobs : ~Holds(w, j)'
      BY <2>2 DEF Publishes, LetsGo, Holds
    <3>3. \A j \in Jobs \ {job[w]} : ~Holds(w, j)
      BY DEF Holds
    <3>4. \A j \in Jobs : permitBar'[j] \in BOOLEAN
      BY DEF permitBar
    <3>5. permitBar[job[w]] /\ permitBar'[job[w]] = FALSE
      BY <1>0, <2>0, <3>1, <3>2, <3>4, PermitAfter
    <3>6. \A j \in Jobs \ {job[w]} : permitBar'[j] = permitBar[j]
      BY <1>0, <2>0, <3>2, <3>3, PermitAfter
    <3>7. permitBar' = [permitBar EXCEPT ![job[w]] = FALSE]
      BY <3>5, <3>6 DEF permitBar
    <3>8. phaseBar' = phaseBar
      BY <2>2 DEF Publishes, LetsGo, phaseBar
    <3>9. UNCHANGED media
      BY <2>2 DEF Publishes, LetsGo
    <3>10. QED
      BY <3>1, <3>5, <3>7, <3>8, <3>9
  <2>3. CASE Publishes(w)
    <3>1. shownBar' = [shownBar EXCEPT ![job[w]] = @ + 1]
      <4>1. /\ job[w] \in Jobs
            /\ posts'[job[w]] = <<variant[w]>>
            /\ \A j \in Jobs \ {job[w]} : posts'[j] = posts[j]
        BY <1>0, <2>3, PostsAfter DEF Publishes
      <4>2. posts[job[w]] = <<>>
        BY <1>0, <2>3 DEF Publishes, OwnersPosts
      <4>3. Len(posts'[job[w]]) = Len(posts[job[w]]) + 1
        BY <4>1, <4>2
      <4>4. QED
        BY <4>1, <4>3 DEF shownBar
    <3>2. PICK k \in Jobs : k = job[w]
      BY <2>2, <2>3
    <3>3. Once!Show(k)
      BY <2>2, <2>3, <3>1, <3>2 DEF Once!Show, phaseBar, permitBar, shownBar
    <3>4. QED
      BY <3>3 DEF Once!Next
  <2>4. CASE LetsGo(w)
    <3>1. shownBar' = shownBar
      BY <2>4 DEF LetsGo, shownBar
    <3>2. Once!Forfeit(job[w])
      BY <2>2, <2>4, <3>1 DEF Once!Forfeit, phaseBar, permitBar, shownBar
    <3>3. QED
      BY <2>2, <2>4, <3>2 DEF Once!Next
  <2>5. CASE Keeps(w)
    <3>1. \A j \in Jobs : Holds(w, j)' <=> Holds(w, j)
      BY <2>5 DEF Keeps, Holds
    <3>2. \A j \in Jobs : permitBar'[j] = permitBar[j]
      <4>1. \A j \in Jobs : permitBar'[j] \in BOOLEAN /\ permitBar[j] \in BOOLEAN
        BY DEF permitBar
      <4>2. QED
        BY <1>0, <2>0, <3>1, <4>1, PermitAfter
    <3>3. permitBar' = permitBar
      BY <3>2 DEF permitBar
    <3>4. CASE UNCHANGED <<status, media>>
      BY <2>5, <3>3, <3>4 DEF Keeps, Once!vars, phaseBar, permitBar, shownBar
    <3>5. CASE \E k \in Jobs : OneRow(k) /\ status'[k] # "PUBLISHING" /\ ReportOf(k)
      BY <1>0, <2>5, <3>3, <3>5, RowSeen DEF Keeps
    <3>6. QED
      BY <2>5, <3>4, <3>5 DEF Keeps, RowMoves
  <2>6. QED
    BY <2>0, <2>1, <2>3, <2>4, <2>5
<1>3. QED
  BY <1>1, <1>2, NonWorkerSettles

\* The publishing subsystem, with its instances, crashes, retries and recovery,
\* does nothing but what PublishOnce allows: a job is taken once, shown at most
\* by the one who took it, and reported published with the id of a post if it
\* is shown, of a dry run if it is not.
THEOREM Refinement == Spec => ImplementsPublishOnce
<1>1. Init => Once!Init
  BY DEF Init, Once!Init, phaseOf, Holds
<1>2. TypeOK /\ TypeOK' /\ OneOwnerOnePost /\ OneOwnerOnePost' /\ [Next]_vars
         => [Once!Next]_(Once!vars)
  BY StepSeen
<1>3. QED
  BY <1>1, <1>2, TypeCorrect, OneOwnerOnePostHolds, PTL
     DEF Spec, ImplementsPublishOnce, Once!Spec
=============================================================================
