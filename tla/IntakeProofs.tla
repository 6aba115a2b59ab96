---------------------------- MODULE IntakeProofs ----------------------------
(***************************************************************************)
(* The intake for any number of items, syncs, scorers and generators, any  *)
(* limit of retries and any number of faults.                              *)
(*                                                                         *)
(* The invariants are proved together: that a status is held by a process  *)
(* of the right kind (Held) needs what syncs and workers have in hand,     *)
(* that notices mean what they say needs which scores are saved (HasScore) *)
(* and which jobs were asked for variants (WasAsked), also by a listing of *)
(* the retry loop that is old by now (Targets).                            *)
(***************************************************************************)
EXTENDS Intake, TLAPS

USE IntakeAssumption

\* A job exists for stored candidates only, and a sync that is not about to
\* create or queue one has none in hand.
Creators ==
    /\ \A i \in Items : status[i] # NULL => i \in stored
    /\ \A y \in Syncs : yitem[y] # NULL => ypc[y] \in {"create", "queue"}

Roles ==
    /\ \A w \in Scorers :
          wpc[w] \in {"idle", "ask", "save", "apply", "decide", "announce"}
    /\ \A w \in Generators : wpc[w] \in {"idle", "ask", "complete", "offer", "report"}

\* The retry loop sends to generation only what was asked for variants.
Targets ==
    \A p \in todo["waiting-ai-retry"] :
        /\ p[2] \in {"SCORING_QUEUED", "VARIANTS_QUEUED"}
        /\ p[2] = "VARIANTS_QUEUED" => requested[p[1]]

HasScore ==
    \A w \in Workers : wpc[w] \in {"apply", "decide", "announce"} => score[witem[w]] # "none"

VariantStages == {"VARIANTS_QUEUED", "GENERATING_VARIANTS", "WAITING_VARIANT_APPROVAL"}

WasAsked ==
    /\ \A i \in Items : status[i] \in VariantStages => requested[i]
    /\ \A w \in Workers : wpc[w] = "offer" => requested[witem[w]]

\* A worker of W has the job in hand.
HeldBy(W, i, labels) == \E w \in W : wpc[w] \in labels /\ witem[w] = i

HeldItem(i) ==
    /\ status[i] = "NEW" => \E y \in Syncs : ypc[y] = "queue" /\ yitem[y] = i
    /\ status[i] = "SCORING" => HeldBy(Scorers, i, {"ask", "save", "apply"})
    /\ status[i] = "SCORED" => HeldBy(Scorers, i, {"decide"})
    /\ status[i] = "GENERATING_VARIANTS" => HeldBy(Generators, i, {"ask", "complete"})

Held == faults = 0 => \A i \in Items : HeldItem(i)

Inv ==
    /\ TypeOK
    /\ Creators /\ OneCreator
    /\ Roles /\ Targets /\ HasScore /\ WasAsked
    /\ OneVerdict /\ Held /\ NoticesMeanIt

-----------------------------------------------------------------------------
(* The table of transitions, and what a write of the status does.          *)

\* The rows of the table the intake relies on, and what leads to a state.
LEMMA Table ==
    /\ CanTransition("NEW", "SCORING_QUEUED")
    /\ CanTransition("SCORING", "SCORED")
    /\ CanTransition("SCORED", "WAITING_FIRST_APPROVAL")
    /\ CanTransition("SCORED", "SKIPPED")
    /\ CanTransition("GENERATING_VARIANTS", "WAITING_VARIANT_APPROVAL")
    /\ \A s \in {"SCORING", "GENERATING_VARIANTS"} :
          CanTransition(s, "WAITING_AI") /\ CanTransition(s, "FAILED")
BY DEF CanTransition, allowedTransitions

LEMMA Sources ==
    ASSUME NEW s \in Status
    PROVE  /\ CanTransition(s, "SCORED") => s = "SCORING"
           /\ CanTransition(s, "WAITING_FIRST_APPROVAL") => s = "SCORED"
           /\ CanTransition(s, "WAITING_VARIANT_APPROVAL") => s = "GENERATING_VARIANTS"
           /\ CanTransition(s, "WAITING_AI") => s \in {"SCORING", "GENERATING_VARIANTS"}
           /\ CanTransition(s, "SCORING_QUEUED") => s \in {"NEW", "WAITING_AI"}
           /\ CanTransition(s, "VARIANTS_QUEUED") => s # "SCORED"
           /\ \A to \in Status : IsTerminal(s) => ~CanTransition(s, to)
BY DEF Status, CanTransition, allowedTransitions, IsTerminal

LEMMA StatusSet ==
    ASSUME RowsOK, NEW i \in Items, NEW to \in Status, SetStatus(i, to)
    PROVE  /\ status' \in [Items -> Status \cup {NULL}]
           /\ status'[i] = to
           /\ \A j \in Items \ {i} : status'[j] = status[j]
           /\ to # NULL
BY DEF RowsOK, SetStatus

\* A job that a worker or a loop moves exists and has not ended.
LEMMA Accepted ==
    ASSUME RowsOK, NEW i \in Items, NEW to \in Status, Accepts(i, to)
    PROVE  status[i] \in Status /\ status[i] # NULL /\ ~IsTerminal(status[i])
<1>1. status[i] \in Status /\ status[i] # NULL
  BY DEF RowsOK, Accepts
<1>2. QED
  BY <1>1, Sources DEF Accepts

-----------------------------------------------------------------------------
(* What keeps a part of the invariant.                                     *)

LEMMA CreatorsKept ==
    ASSUME Inv, UNCHANGED <<stored, syncVars>>,
           \A i \in Items : status'[i] = NULL <=> status[i] = NULL
    PROVE  (Creators /\ OneCreator /\ SyncsOK)'
BY DEF Inv, TypeOK, SyncsOK, Creators, OneCreator, syncVars

Settled(s) == s = "SCORED" \/ IsTerminal(s)

LEMMA VerdictKept ==
    ASSUME Inv,
           \A w \in Scorers : wpc'[w] = "decide" =>
              /\ wpc[w] = "decide" /\ witem'[w] = witem[w]
              /\ Settled(status[witem[w]]) => Settled(status'[witem[w]])
    PROVE  OneVerdict'
BY DEF Inv, OneVerdict, Settled

LEMMA NoticesKept ==
    ASSUME Inv,
           \A i \in Items :
              /\ notices'[i] = notices[i]
              /\ requested[i] => requested'[i]
              /\ score[i] # "none" => score'[i] # "none"
              /\ status[i] = "FAILED" => status'[i] = "FAILED"
              /\ retries'[i] = MaxRetries => status'[i] = "FAILED"
    PROVE  NoticesMeanIt'
BY DEF Inv, NoticesMeanIt

LEMMA LoopsKept ==
    ASSUME Inv, UNCHANGED <<todo, faults, requested>>
    PROVE  (LoopsOK /\ Targets)'
BY DEF Inv, TypeOK, LoopsOK, Targets

\* The parts about workers, when no worker moves and no new stage is reached.
LEMMA WorkersKept ==
    ASSUME Inv, UNCHANGED workerVars,
           \A i \in Items :
              /\ requested[i] => requested'[i]
              /\ score[i] # "none" => score'[i] # "none"
              /\ status'[i] \in VariantStages => status[i] \in VariantStages \/ requested'[i]
    PROVE  (WorkersOK /\ Roles /\ HasScore /\ WasAsked)'
BY DEF Inv, TypeOK, WorkersOK, Roles, HasScore, WasAsked, workerVars, Workers

\* The retries after a write: only a move to FAILED uses them up.
LEMMA Parked ==
    ASSUME Inv, NEW i \in Items, Accepts(i, "WAITING_AI"), Park(i)
    PROVE  /\ status'[i] \in {"WAITING_AI", "FAILED"}
           /\ status' \in [Items -> Status \cup {NULL}]
           /\ \A j \in Items \ {i} : status'[j] = status[j]
           /\ retries' \in [Items -> 0 .. MaxRetries]
           /\ \A j \in Items : retries'[j] = MaxRetries => status'[j] = "FAILED"
           /\ status[i] \in {"SCORING", "GENERATING_VARIANTS"}
<1>0. RowsOK /\ NoticesMeanIt /\ {"WAITING_AI", "FAILED"} \subseteq Status
  BY DEF Inv, TypeOK, Status
<1>1. status[i] \in {"SCORING", "GENERATING_VARIANTS"}
  BY <1>0, Accepted, Sources DEF Accepts
<1>2. retries[i] \in 0 .. MaxRetries - 1
  BY <1>0, <1>1 DEF NoticesMeanIt, RowsOK
<1>3. PICK to \in {"WAITING_AI", "FAILED"} :
         /\ SetStatus(i, to)
         /\ retries[i] + 1 = MaxRetries => to = "FAILED"
  BY <1>2 DEF Park
<1>4. /\ status'[i] = to /\ status' \in [Items -> Status \cup {NULL}]
      /\ \A j \in Items \ {i} : status'[j] = status[j]
  BY <1>0, <1>3, StatusSet
<1>5. retries' = [retries EXCEPT ![i] = retries[i] + 1]
  BY DEF Park
<1>6. retries' \in [Items -> 0 .. MaxRetries]
  BY <1>0, <1>2, <1>5 DEF RowsOK
<1>7. \A j \in Items : retries'[j] = MaxRetries => status'[j] = "FAILED"
  BY <1>0, <1>3, <1>4, <1>5 DEF RowsOK, NoticesMeanIt
<1>8. QED
  BY <1>1, <1>4, <1>6, <1>7

-----------------------------------------------------------------------------
(* The syncs.                                                              *)

\* A step of a sync moves no worker and no loop; it may create a job.
LEMMA BySyncFrame ==
    ASSUME Inv, BySync,
           \A i \in Items : status'[i] # status[i] =>
              /\ status[i] \in {NULL, "NEW", "WAITING_AI"}
              /\ status'[i] \in {"NEW", "SCORING_QUEUED"}
    PROVE  /\ (WorkersOK /\ LoopsOK /\ Roles /\ Targets /\ HasScore /\ WasAsked)'
           /\ OneVerdict' /\ NoticesMeanIt'
<1>1. UNCHANGED <<requested, retries, score, notices, workerVars, todo, faults>>
  BY DEF BySync
<1>2. (LoopsOK /\ Targets)'
  BY <1>1, LoopsKept
<1>3. (WorkersOK /\ Roles /\ HasScore /\ WasAsked)'
  BY <1>1, WorkersKept DEF VariantStages
<1>4. OneVerdict'
  <2>1. \A i \in Items : Settled(status[i]) => Settled(status'[i])
    BY DEF Settled, IsTerminal, Status
  <2>2. \A w \in Scorers : wpc[w] = "decide" => witem[w] \in Items
    BY DEF Inv, TypeOK, WorkersOK, Workers
  <2>3. QED
    BY <1>1, <2>1, <2>2, VerdictKept DEF workerVars
<1>5. NoticesMeanIt'
  <2>1. \A i \in Items : retries[i] = MaxRetries => status[i] = "FAILED"
    BY DEF Inv, NoticesMeanIt
  <2>2. NULL # "FAILED"
    BY DEF Status
  <2>3. QED
    BY <1>1, <2>1, <2>2, NoticesKept
<1>6. QED
  BY <1>2, <1>3, <1>4, <1>5

LEMMA NextItemType ==
    ASSUME SyncsOK, NEW y \in Syncs, NEW T \in SUBSET Items, NextItem(y, T)
    PROVE  /\ SyncsOK'
           /\ yitem'[y] = NULL /\ ypc'[y] \notin {"create", "queue"}
           /\ \A z \in Syncs \ {y} : ypc'[z] = ypc[z] /\ yitem'[z] = yitem[z]
BY DEF SyncsOK, SyncPC, NextItem

\* A step that gives the job in hand back and stores or creates nothing.
LEMMA NextItemInv ==
    ASSUME Inv, BySync, NEW y \in Syncs, NEW T \in SUBSET Items, NextItem(y, T),
           ypc[y] # "queue", UNCHANGED <<stored, status>>
    PROVE  Inv'
<1>0. RowsOK /\ SyncsOK /\ Creators /\ OneCreator /\ Held
  BY DEF Inv, TypeOK
<1>1. /\ (WorkersOK /\ LoopsOK /\ Roles /\ Targets /\ HasScore /\ WasAsked)'
      /\ OneVerdict' /\ NoticesMeanIt'
  BY BySyncFrame
<1>2. /\ SyncsOK'
      /\ yitem'[y] = NULL /\ ypc'[y] \notin {"create", "queue"}
      /\ \A z \in Syncs \ {y} : ypc'[z] = ypc[z] /\ yitem'[z] = yitem[z]
  BY <1>0, NextItemType
<1>3. RowsOK'
  BY <1>0 DEF RowsOK, BySync
<1>4. (Creators /\ OneCreator)'
  BY <1>0, <1>2 DEF Creators, OneCreator
<1>5. Held'
  BY <1>0, <1>2 DEF Held, HeldItem, HeldBy, BySync, workerVars
<1>6. QED
  BY <1>1, <1>2, <1>3, <1>4, <1>5 DEF Inv, TypeOK

LEMMA FetchByCategoryInv ==
    ASSUME Inv, NEW y \in Syncs, FetchByCategory(y)
    PROVE  Inv'
<1>0. RowsOK /\ SyncsOK /\ Creators /\ OneCreator /\ Held
  BY DEF Inv, TypeOK
<1>1. /\ (WorkersOK /\ LoopsOK /\ Roles /\ Targets /\ HasScore /\ WasAsked)'
      /\ OneVerdict' /\ NoticesMeanIt'
  BY BySyncFrame DEF FetchByCategory
<1>2. SyncsOK' /\ RowsOK'
  BY <1>0 DEF FetchByCategory, SyncsOK, RowsOK, BySync, SyncPC
<1>3. (Creators /\ OneCreator)'
  BY <1>0 DEF FetchByCategory, Creators, OneCreator, SyncsOK
<1>4. Held'
  BY <1>0 DEF FetchByCategory, Held, HeldItem, HeldBy, BySync, workerVars, SyncsOK
<1>5. QED
  BY <1>1, <1>2, <1>3, <1>4 DEF Inv, TypeOK

LEMMA StoreItemInv ==
    ASSUME Inv, NEW y \in Syncs, StoreItem(y)
    PROVE  Inv'
<1>0. RowsOK /\ SyncsOK /\ Creators /\ OneCreator /\ Held
  BY DEF Inv, TypeOK
<1>a. BySync /\ UNCHANGED status
  BY DEF StoreItem
<1>b. PICK i \in ytodo[y] :
         /\ stored' = stored \cup {i}
         /\ \/ /\ i \notin stored
               /\ ytodo' = [ytodo EXCEPT ![y] = @ \ {i}]
               /\ yitem' = [yitem EXCEPT ![y] = i]
               /\ ypc' = [ypc EXCEPT ![y] = "create"]
            \/ i \in stored /\ NextItem(y, ytodo[y] \ {i})
  BY DEF StoreItem
<1>c. i \in Items /\ ytodo[y] \subseteq Items /\ ypc[y] = "store"
  BY <1>0 DEF StoreItem, SyncsOK
<1>1. CASE i \in stored /\ NextItem(y, ytodo[y] \ {i})
  <2>1. stored' = stored /\ ytodo[y] \ {i} \in SUBSET Items
    BY <1>1, <1>b, <1>c
  <2>2. QED
    BY <1>1, <1>a, <1>c, <2>1, NextItemInv
<1>2. CASE /\ i \notin stored
           /\ ytodo' = [ytodo EXCEPT ![y] = @ \ {i}]
           /\ yitem' = [yitem EXCEPT ![y] = i]
           /\ ypc' = [ypc EXCEPT ![y] = "create"]
  <2>1. /\ (WorkersOK /\ LoopsOK /\ Roles /\ Targets /\ HasScore /\ WasAsked)'
        /\ OneVerdict' /\ NoticesMeanIt'
    BY <1>a, BySyncFrame
  <2>2. RowsOK'
    BY <1>0, <1>a, <1>b, <1>c DEF RowsOK, BySync
  <2>3. SyncsOK'
    BY <1>0, <1>2, <1>c DEF SyncsOK, SyncPC
  <2>4. (Creators /\ OneCreator)'
    BY <1>0, <1>2, <1>a, <1>b, <1>c DEF SyncsOK, Creators, OneCreator
  <2>5. Held'
    BY <1>0, <1>2, <1>a, <1>c DEF SyncsOK, Held, HeldItem, HeldBy, BySync, workerVars
  <2>6. QED
    BY <2>1, <2>2, <2>3, <2>4, <2>5 DEF Inv, TypeOK
<1>3. QED
  BY <1>b, <1>1, <1>2

LEMMA GetOrCreateInv ==
    ASSUME Inv, NEW y \in Syncs, GetOrCreate(y)
    PROVE  Inv'
<1>0. RowsOK /\ SyncsOK /\ Creators /\ OneCreator /\ Held
  BY DEF Inv, TypeOK
<1> DEFINE i == yitem[y]
<1>a. i \in Items /\ ytodo[y] \in SUBSET Items /\ BySync /\ UNCHANGED stored /\ ypc[y] = "create"
  BY <1>0 DEF GetOrCreate, SyncsOK
<1>b. status[i] = NULL
  BY <1>0, <1>a DEF OneCreator
<1>1. /\ SetStatus(i, "NEW")
      /\ ypc' = [ypc EXCEPT ![y] = "queue"]
      /\ UNCHANGED <<ytodo, yitem>>
  BY <1>b DEF GetOrCreate
<1>2. /\ status' \in [Items -> Status \cup {NULL}]
      /\ status'[i] = "NEW"
      /\ \A j \in Items \ {i} : status'[j] = status[j]
  BY <1>0, <1>1, <1>a, StatusSet DEF Status
<1>3. /\ (WorkersOK /\ LoopsOK /\ Roles /\ Targets /\ HasScore /\ WasAsked)'
      /\ OneVerdict' /\ NoticesMeanIt'
  BY <1>a, <1>b, <1>2, BySyncFrame
<1>4. RowsOK' /\ SyncsOK'
  BY <1>0, <1>a, <1>1, <1>2 DEF RowsOK, SyncsOK, SyncPC, BySync
<1>5. (Creators /\ OneCreator)'
  BY <1>0, <1>a, <1>1, <1>2 DEF SyncsOK, Creators, OneCreator
<1>6. Held'
  BY <1>0, <1>a, <1>1, <1>2 DEF SyncsOK, Held, HeldItem, HeldBy, BySync, workerVars
<1>7. QED
  BY <1>3, <1>4, <1>5, <1>6 DEF Inv, TypeOK

LEMMA QueueScoringInv ==
    ASSUME Inv, NEW y \in Syncs, QueueScoring(y)
    PROVE  Inv'
<1>0. RowsOK /\ SyncsOK /\ Creators /\ OneCreator /\ Held
  BY DEF Inv, TypeOK
<1> DEFINE i == yitem[y]
<1>a. /\ i \in Items /\ i # NULL /\ ytodo[y] \in SUBSET Items
      /\ BySync /\ UNCHANGED stored /\ ypc[y] = "queue"
  BY <1>0 DEF QueueScoring, SyncsOK
<1>b. Accepts(i, "SCORING_QUEUED") => status[i] \in {"NEW", "WAITING_AI"}
  BY <1>0, <1>a, Accepted, Sources DEF Accepts, Status
<1>c. status[i] = "NEW" => Accepts(i, "SCORING_QUEUED")
  BY Table DEF Accepts, Status
<1>1. /\ SyncsOK'
      /\ yitem'[y] = NULL /\ ypc'[y] \notin {"create", "queue"}
      /\ \A z \in Syncs \ {y} : ypc'[z] = ypc[z] /\ yitem'[z] = yitem[z]
  BY <1>0, <1>a, NextItemType DEF QueueScoring
<1>2. /\ status' \in [Items -> Status \cup {NULL}]
      /\ \A j \in Items \ {i} : status'[j] = status[j]
      /\ status'[i] = IF Accepts(i, "SCORING_QUEUED") THEN "SCORING_QUEUED" ELSE status[i]
  <2>1. "SCORING_QUEUED" \in Status
    BY DEF Status
  <2>2. QED
    BY <1>0, <1>a, <2>1, StatusSet DEF QueueScoring, RowsOK
<1>3. /\ (WorkersOK /\ LoopsOK /\ Roles /\ Targets /\ HasScore /\ WasAsked)'
      /\ OneVerdict' /\ NoticesMeanIt'
  BY <1>a, <1>b, <1>2, BySyncFrame
<1>4. RowsOK'
  BY <1>0, <1>a, <1>2 DEF RowsOK, BySync
<1>5. (Creators /\ OneCreator)'
  BY <1>0, <1>a, <1>1, <1>2 DEF SyncsOK, Creators, OneCreator, Accepts
<1>6. Held'
  <2>1. ASSUME NEW j \in Items, faults = 0
        PROVE  HeldItem(j)'
    <3>1. HeldItem(j) /\ UNCHANGED <<wpc, witem>>
      BY <1>0, <1>a, <2>1 DEF Held, BySync, workerVars
    <3>2. CASE j = i
      BY <1>b, <1>c, <1>2, <3>1, <3>2 DEF HeldItem, HeldBy
    <3>3. CASE j # i
      BY <1>1, <1>2, <3>1, <3>3 DEF HeldItem, HeldBy
    <3>4. QED
      BY <3>2, <3>3
  <2>2. QED
    BY <1>a, <2>1 DEF Held, BySync
<1>7. QED
  BY <1>1, <1>3, <1>4, <1>5, <1>6 DEF Inv, TypeOK

LEMMA SyncInv ==
    ASSUME Inv, NEW y \in Syncs, FetchByCategory(y) \/ SyncStep(y)
    PROVE  Inv'
<1>1. ytodo[y] \in SUBSET Items
  BY DEF Inv, TypeOK, SyncsOK
<1>2. CASE RejectItem(y)
  BY <1>1, <1>2, NextItemInv DEF RejectItem
<1>3. CASE NoAccount(y)
  BY <1>1, <1>3, NextItemInv DEF NoAccount
<1>4. QED
  BY <1>2, <1>3, FetchByCategoryInv, StoreItemInv, GetOrCreateInv, QueueScoringInv
     DEF SyncStep

-----------------------------------------------------------------------------
(* The workers.                                                            *)

\* Only w moves.
Alone(w) == \A v \in Workers \ {w} : wpc'[v] = wpc[v] /\ witem'[v] = witem[v]

LEMMA WorkerIdleType ==
    ASSUME WorkersOK, NEW w \in Workers, WorkerIdle(w)
    PROVE  WorkersOK' /\ Alone(w) /\ wpc'[w] = "idle"
BY DEF WorkersOK, WorkerIdle, WorkerPC, Goto, Alone

LEMMA GotoType ==
    ASSUME WorkersOK, NEW w \in Workers, wpc[w] # "idle", NEW label \in WorkerPC,
           Goto(w, label), UNCHANGED witem, verdict' \in [Workers -> BOOLEAN]
    PROVE  WorkersOK' /\ Alone(w) /\ wpc'[w] = label /\ witem'[w] = witem[w]
BY DEF WorkersOK, Goto, Alone

\* A worker's step leaves syncs and loops alone and creates no job.
LEMMA ByWorkerFrame ==
    ASSUME Inv, ByWorker, \A i \in Items : status'[i] = NULL <=> status[i] = NULL
    PROVE  (Creators /\ OneCreator /\ SyncsOK /\ LoopsOK /\ Targets)'
BY CreatorsKept, LoopsKept DEF ByWorker

\* Does worker w keep the job out of the hands of the loops?
Holds(w) ==
    \/ w \in Scorers /\ wpc[w] \in {"ask", "save", "apply"} /\ status[witem[w]] = "SCORING"
    \/ w \in Scorers /\ wpc[w] = "decide" /\ status[witem[w]] = "SCORED"
    \/ /\ w \in Generators /\ wpc[w] \in {"ask", "complete"}
       /\ status[witem[w]] = "GENERATING_VARIANTS"

\* A worker drops its job, after it has ended or parked it or when it held it
\* no longer.
LEMMA DropsInv ==
    ASSUME Inv, NEW w \in Workers, NEW i \in Items, wpc[w] # "idle", i = witem[w],
           ByWorker, WorkerIdle(w), RowsOK', NoticesMeanIt', UNCHANGED score,
           \A j \in Items \ {i} : status'[j] = status[j],
           \/ status'[i] = status[i] /\ ~Holds(w)
           \/ /\ status[i] # NULL
              /\ status'[i] \in {"WAITING_AI", "FAILED", "SKIPPED"}
              /\ Settled(status[i]) => Settled(status'[i])
    PROVE  Inv'
<1>0. WorkersOK /\ Roles /\ HasScore /\ WasAsked /\ Held
  BY DEF Inv, TypeOK
<1>1. WorkersOK' /\ Alone(w) /\ wpc'[w] = "idle"
  BY <1>0, WorkerIdleType
<1>2. (Creators /\ OneCreator /\ SyncsOK /\ LoopsOK /\ Targets)'
  BY ByWorkerFrame DEF Status
<1>3. Roles'
  BY <1>0, <1>1 DEF Roles, Alone, Workers
<1>4. (HasScore /\ WasAsked)'
  BY <1>0, <1>1 DEF HasScore, WasAsked, Alone, ByWorker, VariantStages
<1>5. OneVerdict'
  <2>1. \A v \in Scorers : wpc[v] = "decide" => witem[v] \in Items
    BY <1>0 DEF WorkersOK, Workers
  <2>2. QED
    BY <1>1, <2>1, VerdictKept DEF Alone, Workers
<1>6. Held'
  <2>1. ASSUME NEW j \in Items, faults = 0
        PROVE  HeldItem(j)'
    <3>1. HeldItem(j) /\ UNCHANGED <<ypc, yitem>>
      BY <1>0, <2>1 DEF Held, ByWorker, syncVars
    <3>2. CASE j = i /\ status'[i] # status[i]
      BY <3>2 DEF HeldItem
    <3>3. CASE j # i \/ status'[i] = status[i]
      BY <1>1, <3>1, <3>3 DEF HeldItem, HeldBy, Holds, Alone, Workers
    <3>4. QED
      BY <3>2, <3>3
  <2>2. QED
    BY <2>1 DEF Held, ByWorker
<1>7. QED
  BY <1>1, <1>2, <1>3, <1>4, <1>5, <1>6 DEF Inv, TypeOK

\* A move of the status of one job that has not used up its retries.
LEMMA MovedNotices ==
    ASSUME Inv, NEW i \in Items, NEW to \in Status, ~IsTerminal(status[i]), status[i] # NULL,
           SetStatus(i, to), UNCHANGED <<requested, score, notices>>,
           \A j \in Items : retries'[j] = retries[j] \/ retries'[j] = 0
    PROVE  NoticesMeanIt'
<1>1. RowsOK /\ NoticesMeanIt
  BY DEF Inv, TypeOK
<1>2. /\ status'[i] = to /\ status[i] # "FAILED"
      /\ \A j \in Items \ {i} : status'[j] = status[j]
  BY <1>1, StatusSet DEF IsTerminal
<1>3. QED
  BY <1>1, <1>2, NoticesKept DEF NoticesMeanIt

LEMMA ClaimQueuedInv ==
    ASSUME Inv, NEW w \in Workers, ClaimQueued(w)
    PROVE  Inv'
<1>0. RowsOK /\ WorkersOK /\ Roles /\ HasScore /\ WasAsked /\ Held
  BY DEF Inv, TypeOK
<1>1. PICK i \in Items :
         /\ status[i] = Queued(w)
         /\ SetStatus(i, Running(w))
         /\ witem' = [witem EXCEPT ![w] = i]
  BY DEF ClaimQueued
<1>a. Running(w) \in Status /\ Queued(w) \in Status \ {"SCORED"} /\ ~IsTerminal(Queued(w))
  BY DEF Running, Queued, Status, IsTerminal
<1>2. /\ status'[i] = Running(w) /\ status' \in [Items -> Status \cup {NULL}]
      /\ \A j \in Items \ {i} : status'[j] = status[j]
      /\ status[i] # NULL /\ status'[i] # NULL
  BY <1>0, <1>1, <1>a, StatusSet
<1>3. /\ wpc[w] = "idle" /\ wpc' = [wpc EXCEPT ![w] = "ask"] /\ ByWorker
      /\ UNCHANGED <<retries, score, notices, verdict>>
  BY DEF ClaimQueued, Goto
<1>4. WorkersOK' /\ Alone(w) /\ wpc'[w] = "ask" /\ witem'[w] = i
  BY <1>0, <1>1, <1>3 DEF WorkersOK, WorkerPC, Alone
<1>5. RowsOK'
  BY <1>0, <1>2, <1>3 DEF RowsOK, ByWorker
<1>6. (Creators /\ OneCreator /\ SyncsOK /\ LoopsOK /\ Targets)'
  BY <1>2, <1>3, ByWorkerFrame
<1>7. (Roles /\ HasScore)'
  BY <1>0, <1>3, <1>4 DEF Roles, HasScore, Alone, Workers
<1>8. WasAsked'
  BY <1>0, <1>1, <1>2, <1>3, <1>4
     DEF WasAsked, Alone, ByWorker, VariantStages, Running, Queued
<1>9. OneVerdict'
  <2>1. \A v \in Scorers : wpc[v] = "decide" => witem[v] \in Items
    BY <1>0 DEF WorkersOK, Workers
  <2>2. QED
    BY <1>1, <1>2, <1>4, <1>a, <2>1, VerdictKept DEF Alone, Workers, Settled
<1>10. NoticesMeanIt'
  BY <1>1, <1>2, <1>3, <1>a, MovedNotices DEF ByWorker
<1>11. Held'
  <2>1. ASSUME NEW j \in Items, faults = 0
        PROVE  HeldItem(j)'
    <3>1. HeldItem(j) /\ UNCHANGED <<ypc, yitem>>
      BY <1>0, <1>3, <2>1 DEF Held, ByWorker, syncVars
    <3>2. CASE j = i
      BY <1>2, <1>4, <3>2 DEF HeldItem, HeldBy, Running, Workers
    <3>3. CASE j # i
      BY <1>2, <1>3, <1>4, <3>1, <3>3 DEF HeldItem, HeldBy, Alone, Workers
    <3>4. QED
      BY <3>2, <3>3
  <2>2. QED
    BY <1>3, <2>1 DEF Held, ByWorker
<1>12. QED
  BY <1>4, <1>5, <1>6, <1>7, <1>8, <1>9, <1>10, <1>11 DEF Inv, TypeOK

\* A worker moves its job, and goes on with it.
LEMMA AdvancesInv ==
    ASSUME Inv, NEW w \in Workers, NEW i \in Items, wpc[w] # "idle", i = witem[w],
           NEW label \in WorkerPC, Goto(w, label), ByWorker,
           UNCHANGED <<witem, verdict, score>>,
           RowsOK', NoticesMeanIt', OneVerdict', Roles',
           status[i] # NULL, status'[i] \notin {NULL, "NEW", "SCORING", "GENERATING_VARIANTS"},
           \A j \in Items \ {i} : status'[j] = status[j],
           status'[i] = "SCORED" => w \in Scorers /\ label = "decide",
           status'[i] \in VariantStages => requested[i],
           label = "offer" => requested[i],
           label \in {"apply", "decide", "announce"} => score[i] # "none"
    PROVE  Inv'
<1>0. WorkersOK /\ HasScore /\ WasAsked /\ Held
  BY DEF Inv, TypeOK
<1>1. WorkersOK' /\ Alone(w) /\ wpc'[w] = label /\ witem'[w] = i
  BY <1>0, GotoType DEF WorkersOK
<1>2. (Creators /\ OneCreator /\ SyncsOK /\ LoopsOK /\ Targets)'
  BY ByWorkerFrame
<1>3. (HasScore /\ WasAsked)'
  BY <1>0, <1>1 DEF HasScore, WasAsked, Alone, ByWorker
<1>4. Held'
  <2>1. ASSUME NEW j \in Items, faults = 0
        PROVE  HeldItem(j)'
    <3>1. HeldItem(j) /\ UNCHANGED <<ypc, yitem>>
      BY <1>0, <2>1 DEF Held, ByWorker, syncVars
    <3>2. CASE j = i
      BY <1>1, <3>2 DEF HeldItem, HeldBy
    <3>3. CASE j # i
      BY <1>1, <3>1, <3>3 DEF HeldItem, HeldBy, Alone, Workers
    <3>4. QED
      BY <3>2, <3>3
  <2>2. QED
    BY <2>1 DEF Held, ByWorker
<1>5. QED
  BY <1>1, <1>2, <1>3, <1>4 DEF Inv, TypeOK

LEMMA ContextMissingInv ==
    ASSUME Inv, NEW w \in Workers, ContextMissing(w)
    PROVE  Inv'
<1>0. RowsOK /\ WorkersOK /\ NoticesMeanIt /\ "FAILED" \in Status
  BY DEF Inv, TypeOK, Status
<1> DEFINE i == witem[w]
<1>1. /\ wpc[w] = "ask" /\ i \in Items /\ WorkerIdle(w) /\ ByWorker
      /\ UNCHANGED <<retries, score, notices, requested, stored>>
  BY <1>0 DEF ContextMissing, WorkersOK, ByWorker
<1>2. CASE Accepts(i, "FAILED")
  <2>1. SetStatus(i, "FAILED")
    BY <1>2 DEF ContextMissing
  <2>2. status[i] \in Status /\ status[i] # NULL /\ ~IsTerminal(status[i])
    BY <1>0, <1>1, <1>2, Accepted
  <2>3. /\ status' \in [Items -> Status \cup {NULL}] /\ status'[i] = "FAILED"
        /\ \A j \in Items \ {i} : status'[j] = status[j]
    BY <1>0, <1>1, <2>1, StatusSet
  <2>4. RowsOK' /\ NoticesMeanIt'
    BY <1>0, <1>1, <2>1, <2>2, <2>3, MovedNotices DEF RowsOK
  <2>5. QED
    BY <1>1, <2>2, <2>3, <2>4, DropsInv DEF Settled, IsTerminal
<1>3. CASE ~Accepts(i, "FAILED")
  <2>1. UNCHANGED status
    BY <1>3 DEF ContextMissing
  <2>2. RowsOK' /\ NoticesMeanIt'
    BY <1>0, <1>1, <2>1 DEF RowsOK, NoticesMeanIt
  <2>3. ~Holds(w)
    BY <1>1, <1>3, Table DEF Holds, Accepts, Status
  <2>4. QED
    BY <1>1, <2>1, <2>2, <2>3, DropsInv
<1>4. QED
  BY <1>2, <1>3

\* The provider's answer, and the score saved of it, leave the job as it is.
LEMMA AnsweredInv ==
    ASSUME Inv, NEW w \in Workers, ProviderAnswers(w) \/ SaveScore(w)
    PROVE  Inv'
<1>0. /\ RowsOK /\ WorkersOK /\ Roles /\ HasScore /\ WasAsked /\ Held /\ NoticesMeanIt
      /\ LoopsOK
  BY DEF Inv, TypeOK
<1> DEFINE i == witem[w]
<1>1. /\ i \in Items /\ ByWorker /\ UNCHANGED <<status, retries, notices, witem>>
      /\ verdict' \in [Workers -> BOOLEAN] /\ wpc[w] # "idle"
  BY <1>0 DEF ProviderAnswers, SaveScore, WorkersOK
<1>2. PICK label \in {"save", "complete", "apply"} :
         /\ Goto(w, label)
         /\ label = "save" => wpc[w] = "ask" /\ w \in Scorers
         /\ label = "complete" => wpc[w] = "ask" /\ w \in Generators
         /\ label = "apply" => wpc[w] = "save" /\ score'[i] # "none"
  BY <1>0, <1>1 DEF ProviderAnswers, SaveScore, RowsOK
<1>3. score' \in [Items -> Scores]
      /\ \A j \in Items : score[j] # "none" => score'[j] # "none"
  BY <1>0, <1>1 DEF ProviderAnswers, SaveScore, RowsOK, Scores
<1>4. WorkersOK' /\ Alone(w) /\ wpc'[w] = label /\ witem'[w] = i
  BY <1>0, <1>1, <1>2, GotoType DEF WorkerPC
<1>5. (Creators /\ OneCreator /\ SyncsOK /\ LoopsOK /\ Targets)' /\ RowsOK'
  BY <1>0, <1>1, <1>3, ByWorkerFrame DEF RowsOK, ByWorker
<1>6. w \in Generators => wpc[w] # "save"
  BY <1>0 DEF Roles
<1>7. (Roles /\ HasScore /\ WasAsked)'
  BY <1>0, <1>1, <1>2, <1>3, <1>4, <1>6
     DEF Roles, HasScore, WasAsked, Alone, ByWorker, Workers, WorkersOK
<1>8. OneVerdict'
  BY <1>1, <1>2, <1>4, VerdictKept DEF Alone, Workers
<1>9. NoticesMeanIt'
  BY <1>0, <1>1, <1>3, NoticesKept DEF ByWorker, NoticesMeanIt
<1>10. Held'
  BY <1>0, <1>1, <1>2, <1>4, <1>6
     DEF Held, HeldItem, HeldBy, Alone, Workers, ByWorker, syncVars
<1>11. QED
  BY <1>4, <1>5, <1>7, <1>8, <1>9, <1>10 DEF Inv, TypeOK

LEMMA AllProvidersFailedInv ==
    ASSUME Inv, NEW w \in Workers, AllProvidersFailed(w)
    PROVE  Inv'
<1>0. RowsOK /\ WorkersOK /\ Roles /\ NoticesMeanIt
  BY DEF Inv, TypeOK
<1> DEFINE i == witem[w]
<1>1. /\ wpc[w] = "ask" /\ i \in Items /\ ByWorker
      /\ UNCHANGED <<score, notices, requested, stored>>
  BY <1>0 DEF AllProvidersFailed, WorkersOK, ByWorker
<1>2. CASE Accepts(i, "WAITING_AI") /\ Park(i)
  <2>1. /\ status'[i] \in {"WAITING_AI", "FAILED"}
        /\ status' \in [Items -> Status \cup {NULL}]
        /\ \A j \in Items \ {i} : status'[j] = status[j]
        /\ retries' \in [Items -> 0 .. MaxRetries]
        /\ \A j \in Items : retries'[j] = MaxRetries => status'[j] = "FAILED"
        /\ status[i] \in {"SCORING", "GENERATING_VARIANTS"}
    BY <1>1, <1>2, Parked
  <2>2. RowsOK'
    BY <1>0, <1>1, <2>1 DEF RowsOK
  <2>3. NoticesMeanIt'
    BY <1>1, <2>1, NoticesKept
  <2>4. status[i] # NULL /\ status'[i] # NULL
    BY <2>1 DEF Status
  <2>5. CASE WorkerIdle(w)
    BY <1>1, <2>1, <2>2, <2>3, <2>4, <2>5, DropsInv DEF Settled, IsTerminal
  <2>6. CASE w \in Generators /\ Goto(w, "report") /\ UNCHANGED <<witem, verdict>>
    <3>1. WorkersOK' /\ Alone(w) /\ wpc'[w] = "report"
      BY <1>0, <1>1, <2>6, GotoType DEF WorkerPC, WorkersOK
    <3>2. Roles'
      BY <1>0, <2>6, <3>1 DEF Roles, Alone, Workers
    <3>3. OneVerdict'
      <4>1. \A v \in Scorers : wpc[v] = "decide" => witem[v] \in Items
        BY <1>0 DEF WorkersOK, Workers
      <4>2. QED
        BY <2>1, <3>1, <4>1, VerdictKept DEF Alone, Workers, Settled, IsTerminal
    <3>4. QED
      BY <1>1, <2>1, <2>2, <2>3, <2>4, <2>6, <3>2, <3>3, AdvancesInv
         DEF WorkerPC, VariantStages
  <2>7. QED
    BY <1>2, <2>5, <2>6 DEF AllProvidersFailed
<1>3. CASE ~Accepts(i, "WAITING_AI") /\ WorkerIdle(w) /\ UNCHANGED <<status, retries>>
  <2>1. RowsOK' /\ NoticesMeanIt'
    BY <1>0, <1>1, <1>3 DEF RowsOK, NoticesMeanIt
  <2>2. ~Holds(w)
    BY <1>1, <1>3, Table DEF Holds, Accepts, Status
  <2>3. QED
    BY <1>1, <1>3, <2>1, <2>2, DropsInv
<1>4. QED
  BY <1>2, <1>3 DEF AllProvidersFailed

\* An accepted or refused move, and the retries that start over with it.
LEMMA AdvanceEffect ==
    ASSUME Inv, NEW w \in Workers, NEW to \in Status, NEW label \in WorkerPC,
           wpc[w] # "idle", Advance(w, to, label), ByWorker, UNCHANGED <<score, notices>>,
           ResetRetries(w, to) \/ UNCHANGED retries
    PROVE  /\ witem[w] \in Items /\ RowsOK' /\ NoticesMeanIt'
           /\ \/ /\ Accepts(witem[w], to) /\ Goto(w, label) /\ UNCHANGED <<witem, verdict>>
                 /\ status[witem[w]] \in Status \ {NULL} /\ status'[witem[w]] = to
                 /\ \A j \in Items \ {witem[w]} : status'[j] = status[j]
              \/ ~Accepts(witem[w], to) /\ WorkerIdle(w) /\ UNCHANGED status
<1>0. RowsOK /\ WorkersOK /\ NoticesMeanIt
  BY DEF Inv, TypeOK
<1> DEFINE i == witem[w]
<1>1. i \in Items
  BY <1>0 DEF WorkersOK
<1>2. retries' \in [Items -> 0 .. MaxRetries]
      /\ \A j \in Items : retries'[j] = retries[j] \/ retries'[j] = 0
  BY <1>0 DEF RowsOK, ResetRetries
<1>3. CASE /\ Accepts(i, to) /\ SetStatus(i, to)
           /\ Goto(w, label) /\ UNCHANGED <<witem, verdict>>
  <2>1. status[i] \in Status /\ status[i] # NULL /\ ~IsTerminal(status[i])
    BY <1>0, <1>1, <1>3, Accepted
  <2>2. /\ status' \in [Items -> Status \cup {NULL}] /\ status'[i] = to
        /\ \A j \in Items \ {i} : status'[j] = status[j]
    BY <1>0, <1>1, <1>3, StatusSet
  <2>3. NoticesMeanIt'
    BY <1>1, <1>2, <1>3, <2>1, MovedNotices DEF ByWorker
  <2>4. RowsOK'
    BY <1>0, <1>2, <2>2 DEF RowsOK, ByWorker
  <2>5. QED
    BY <1>1, <1>3, <2>1, <2>2, <2>3, <2>4
<1>4. CASE ~Accepts(i, to) /\ WorkerIdle(w) /\ UNCHANGED status
  <2>1. UNCHANGED retries
    BY <1>4 DEF ResetRetries
  <2>2. RowsOK' /\ NoticesMeanIt'
    BY <1>0, <1>4, <2>1 DEF RowsOK, NoticesMeanIt, ByWorker
  <2>3. QED
    BY <1>1, <1>4, <2>2
<1>5. QED
  BY <1>3, <1>4 DEF Advance

LEMMA ApplyScoredInv ==
    ASSUME Inv, NEW w \in Workers, ApplyScored(w)
    PROVE  Inv'
<1>0. WorkersOK /\ Roles /\ HasScore /\ OneVerdict /\ RowsOK
  BY DEF Inv, TypeOK
<1>a. wpc[w] = "apply" /\ ByWorker /\ UNCHANGED <<score, notices>> /\ w \in Scorers
  BY <1>0 DEF ApplyScored, Roles, Workers
<1> DEFINE i == witem[w]
<1>b. "SCORED" \in Status /\ "decide" \in WorkerPC /\ wpc[w] # "idle"
  BY <1>a DEF Status, WorkerPC
<1>1. /\ i \in Items /\ RowsOK' /\ NoticesMeanIt'
      /\ \/ /\ Accepts(i, "SCORED") /\ Goto(w, "decide") /\ UNCHANGED <<witem, verdict>>
            /\ status[i] \in Status \ {NULL} /\ status'[i] = "SCORED"
            /\ \A j \in Items \ {i} : status'[j] = status[j]
         \/ ~Accepts(i, "SCORED") /\ WorkerIdle(w) /\ UNCHANGED status
  BY <1>a, <1>b, AdvanceEffect DEF ApplyScored
<1>2. CASE /\ Accepts(i, "SCORED") /\ Goto(w, "decide") /\ UNCHANGED <<witem, verdict>>
           /\ status[i] \in Status \ {NULL} /\ status'[i] = "SCORED"
           /\ \A j \in Items \ {i} : status'[j] = status[j]
  <2>1. status[i] = "SCORING"
    BY <1>2, Sources DEF Accepts
  <2>2. WorkersOK' /\ Alone(w) /\ wpc'[w] = "decide" /\ witem'[w] = i
    BY <1>0, <1>2, <1>b, GotoType DEF WorkersOK
  <2>3. OneVerdict'
    <3>1. \A v \in Scorers : wpc[v] = "decide" => witem[v] \in Items /\ witem[v] # i
      BY <1>0, <2>1 DEF OneVerdict, WorkersOK, Workers, IsTerminal
    <3>2. QED
      BY <1>0, <1>2, <2>2, <3>1 DEF OneVerdict, Alone, Workers
  <2>4. Roles'
    BY <1>0, <1>a, <2>2 DEF Roles, Alone, Workers
  <2>5. score[i] # "none"
    BY <1>0, <1>a DEF HasScore
  <2>6. QED
    BY <1>a, <1>b, <1>1, <1>2, <2>3, <2>4, <2>5, AdvancesInv DEF VariantStages, Status
<1>3. CASE ~Accepts(i, "SCORED") /\ WorkerIdle(w) /\ UNCHANGED status
  <2>1. ~Holds(w)
    BY <1>0, <1>a, <1>3, Table DEF Holds, Roles, Accepts, Status
  <2>2. QED
    BY <1>a, <1>1, <1>3, <2>1, DropsInv
<1>4. QED
  BY <1>1, <1>2, <1>3

LEMMA CompleteAIStageInv ==
    ASSUME Inv, NEW w \in Workers, CompleteAIStage(w)
    PROVE  Inv'
<1>0. WorkersOK /\ Roles /\ WasAsked /\ RowsOK
  BY DEF Inv, TypeOK
<1>a. wpc[w] = "complete" /\ ByWorker /\ UNCHANGED <<score, notices>> /\ w \in Generators
  BY <1>0 DEF CompleteAIStage, Roles, Workers
<1> DEFINE i == witem[w]
           to == "WAITING_VARIANT_APPROVAL"
<1>b. to \in Status /\ "offer" \in WorkerPC /\ wpc[w] # "idle"
  BY <1>a DEF Status, WorkerPC
<1>1. /\ i \in Items /\ RowsOK' /\ NoticesMeanIt'
      /\ \/ /\ Accepts(i, to) /\ Goto(w, "offer") /\ UNCHANGED <<witem, verdict>>
            /\ status[i] \in Status \ {NULL} /\ status'[i] = to
            /\ \A j \in Items \ {i} : status'[j] = status[j]
         \/ ~Accepts(i, to) /\ WorkerIdle(w) /\ UNCHANGED status
  BY <1>a, <1>b, AdvanceEffect DEF CompleteAIStage
<1>2. CASE /\ Accepts(i, to) /\ Goto(w, "offer") /\ UNCHANGED <<witem, verdict>>
           /\ status[i] \in Status \ {NULL} /\ status'[i] = to
           /\ \A j \in Items \ {i} : status'[j] = status[j]
  <2>1. status[i] = "GENERATING_VARIANTS" /\ requested[i]
    BY <1>0, <1>1, <1>2, Sources DEF Accepts, WasAsked, VariantStages
  <2>2. WorkersOK' /\ Alone(w) /\ wpc'[w] = "offer"
    BY <1>0, <1>2, <1>b, GotoType DEF WorkersOK
  <2>3. OneVerdict'
    <3>1. \A v \in Scorers : wpc[v] = "decide" => witem[v] \in Items
      BY <1>0 DEF WorkersOK, Workers
    <3>2. QED
      BY <1>2, <2>1, <2>2, <3>1, VerdictKept DEF Alone, Workers, Settled, IsTerminal
  <2>4. Roles'
    BY <1>0, <1>a, <2>2 DEF Roles, Alone, Workers
  <2>5. QED
    BY <1>a, <1>b, <1>1, <1>2, <2>1, <2>3, <2>4, AdvancesInv DEF Status
<1>3. CASE ~Accepts(i, to) /\ WorkerIdle(w) /\ UNCHANGED status
  <2>1. ~Holds(w)
    BY <1>0, <1>a, <1>3, Table DEF Holds, Roles, Accepts, Status
  <2>2. QED
    BY <1>a, <1>1, <1>3, <2>1, DropsInv
<1>4. QED
  BY <1>1, <1>2, <1>3

LEMMA DecideInv ==
    ASSUME Inv, NEW w \in Workers, Decide(w)
    PROVE  Inv'
<1>0. WorkersOK /\ Roles /\ HasScore /\ OneVerdict /\ RowsOK /\ NoticesMeanIt
  BY DEF Inv, TypeOK
<1>a. /\ wpc[w] = "decide" /\ ByWorker /\ UNCHANGED <<retries, score, notices, stored, requested>>
      /\ w \in Scorers
  BY <1>0 DEF Decide, Roles, Workers, ByWorker
<1> DEFINE i == witem[w]
           to == "WAITING_FIRST_APPROVAL"
<1>b. {to, "SKIPPED"} \subseteq Status /\ "announce" \in WorkerPC /\ wpc[w] # "idle" /\ i \in Items
  BY <1>0, <1>a DEF Status, WorkerPC, WorkersOK
<1>c. Holds(w) => Accepts(i, to) /\ Accepts(i, "SKIPPED")
  BY <1>a, Table DEF Holds, Accepts, Status
<1>1. CASE Advance(w, to, "announce")
  <2>1. /\ RowsOK' /\ NoticesMeanIt'
        /\ \/ /\ Accepts(i, to) /\ Goto(w, "announce") /\ UNCHANGED <<witem, verdict>>
              /\ status[i] \in Status \ {NULL} /\ status'[i] = to
              /\ \A j \in Items \ {i} : status'[j] = status[j]
           \/ ~Accepts(i, to) /\ WorkerIdle(w) /\ UNCHANGED status
    BY <1>1, <1>a, <1>b, AdvanceEffect
  <2>2. CASE /\ Accepts(i, to) /\ Goto(w, "announce") /\ UNCHANGED <<witem, verdict>>
             /\ status[i] \in Status \ {NULL} /\ status'[i] = to
             /\ \A j \in Items \ {i} : status'[j] = status[j]
    <3>1. WorkersOK' /\ Alone(w) /\ wpc'[w] = "announce"
      BY <1>0, <2>2, <1>b, GotoType DEF WorkersOK
    <3>2. OneVerdict'
      <4>1. \A v \in Scorers : wpc[v] = "decide" /\ v # w => witem[v] \in Items \ {i}
        BY <1>0, <1>a DEF OneVerdict, WorkersOK, Workers
      <4>2. QED
        BY <2>2, <3>1, <4>1, VerdictKept DEF Alone, Workers
    <3>3. Roles'
      BY <1>0, <1>a, <3>1 DEF Roles, Alone, Workers
    <3>4. score[i] # "none"
      BY <1>0, <1>a DEF HasScore
    <3>5. QED
      BY <1>a, <1>b, <2>1, <2>2, <3>2, <3>3, <3>4, AdvancesInv DEF VariantStages, Status
  <2>3. CASE ~Accepts(i, to) /\ WorkerIdle(w) /\ UNCHANGED status
    BY <1>a, <1>b, <1>c, <2>1, <2>3, DropsInv
  <2>4. QED
    BY <2>1, <2>2, <2>3
<1>2. CASE Accepts(i, "SKIPPED") /\ SetStatus(i, "SKIPPED") /\ WorkerIdle(w)
  <2>1. status[i] \in Status /\ status[i] # NULL /\ ~IsTerminal(status[i])
    BY <1>0, <1>2, <1>b, Accepted
  <2>2. /\ status' \in [Items -> Status \cup {NULL}] /\ status'[i] = "SKIPPED"
        /\ \A j \in Items \ {i} : status'[j] = status[j]
    BY <1>0, <1>2, <1>b, StatusSet
  <2>3. RowsOK' /\ NoticesMeanIt'
    BY <1>0, <1>2, <1>a, <1>b, <2>1, <2>2, MovedNotices DEF RowsOK
  <2>4. QED
    BY <1>2, <1>a, <1>b, <2>1, <2>2, <2>3, DropsInv DEF Settled, IsTerminal
<1>3. CASE ~Accepts(i, "SKIPPED") /\ UNCHANGED status /\ WorkerIdle(w)
  <2>1. RowsOK' /\ NoticesMeanIt'
    BY <1>0, <1>3, <1>a DEF RowsOK, NoticesMeanIt
  <2>2. QED
    BY <1>3, <1>a, <1>b, <1>c, <2>1, DropsInv
<1>4. QED
  BY <1>1, <1>2, <1>3 DEF Decide

LEMMA AnnounceInv ==
    ASSUME Inv, NEW w \in Workers, Announce(w)
    PROVE  Inv'
<1>0. WorkersOK /\ Roles /\ HasScore /\ WasAsked /\ RowsOK /\ NoticesMeanIt
  BY DEF Inv, TypeOK
<1> DEFINE i == witem[w]
<1>1. /\ wpc[w] \in {"announce", "offer", "report"} /\ ByWorker /\ WorkerIdle(w)
      /\ UNCHANGED <<status, retries, score, stored, requested>> /\ i \in Items
      /\ notices' = [notices EXCEPT ![i] = @ \cup Announcement(w)]
  BY <1>0 DEF Announce, WorkersOK, ByWorker, Enqueue
<1>2. \/ Announcement(w) = {}
      \/ Announcement(w) = {"first-approval"} /\ score[i] # "none"
      \/ Announcement(w) = {"variant-approval"} /\ requested[i]
      \/ Announcement(w) = {"variants-ai-exhausted"} /\ status[i] = "FAILED"
  <2>1. CASE wpc[w] = "announce"
    BY <1>0, <2>1 DEF Announcement, HasScore
  <2>2. CASE wpc[w] = "offer"
    BY <1>0, <2>2 DEF Announcement, WasAsked
  <2>3. CASE wpc[w] = "report"
    BY <2>3 DEF Announcement
  <2>4. QED
    BY <1>1, <2>1, <2>2, <2>3
<1>3. RowsOK'
  BY <1>0, <1>1, <1>2 DEF RowsOK, Notices
<1>4. NoticesMeanIt'
  BY <1>0, <1>1, <1>2 DEF NoticesMeanIt, RowsOK
<1>5. ~Holds(w)
  BY <1>1 DEF Holds
<1>6. QED
  BY <1>1, <1>3, <1>4, <1>5, DropsInv

LEMMA WorkerInv ==
    ASSUME Inv, NEW w \in Workers, WorkerStep(w)
    PROVE  Inv'
BY ClaimQueuedInv, ContextMissingInv, AnsweredInv, AllProvidersFailedInv, ApplyScoredInv,
   DecideInv, CompleteAIStageInv, AnnounceInv DEF WorkerStep

-----------------------------------------------------------------------------
(* The housekeeping loops, the operators and the faults.                   *)

\* A step of nobody who has a job in hand: a job it moves ends or goes to a
\* state that waits for a process or a person.
LEMMA HousekeepingInv ==
    ASSUME Inv, RowsOK', LoopsOK', Targets', NoticesMeanIt',
           UNCHANGED <<stored, score, syncVars, workerVars, faults>>,
           \A i \in Items : requested[i] => requested'[i],
           \A i \in Items : status'[i] # status[i] =>
              /\ status[i] # NULL
              /\ status'[i] \notin {NULL, "NEW", "SCORING", "SCORED", "GENERATING_VARIANTS"}
              /\ Settled(status[i]) => Settled(status'[i])
              /\ status'[i] \in VariantStages => requested'[i]
    PROVE  Inv'
<1>1. (Creators /\ OneCreator /\ SyncsOK)'
  BY CreatorsKept
<1>2. (WorkersOK /\ Roles /\ HasScore /\ WasAsked)'
  <2>1. \A i \in Items : status'[i] \in VariantStages =>
            status[i] \in VariantStages \/ requested'[i]
    OBVIOUS
  <2>2. QED
    BY <2>1, WorkersKept
<1>3. OneVerdict'
  <2>1. \A w \in Scorers : wpc[w] = "decide" => witem[w] \in Items
    BY DEF Inv, TypeOK, WorkersOK, Workers
  <2>2. QED
    BY <2>1, VerdictKept DEF workerVars
<1>4. Held'
  BY DEF Inv, Held, HeldItem, HeldBy, workerVars, syncVars
<1>5. QED
  BY <1>1, <1>2, <1>3, <1>4 DEF Inv, TypeOK

LEMMA ListInv ==
    ASSUME Inv, NEW l \in Loops, List(l)
    PROVE  Inv'
<1>0. RowsOK /\ LoopsOK /\ Targets /\ NoticesMeanIt
  BY DEF Inv, TypeOK
<1>1. /\ UNCHANGED <<status, retries, notices, stored, requested, score>>
      /\ todo' = [todo EXCEPT ![l] = Listed(l)] /\ ByLoop
  BY DEF List, ByLoop
<1>2. /\ Listed(l) \in SUBSET (Items \X Status)
      /\ l = "waiting-ai-retry" => \A p \in Listed(l) :
            /\ p[2] \in {"SCORING_QUEUED", "VARIANTS_QUEUED"}
            /\ p[2] = "VARIANTS_QUEUED" => requested[p[1]]
  BY DEF Listed, Stage, Status
<1>3. LoopsOK' /\ Targets'
  BY <1>0, <1>1, <1>2 DEF LoopsOK, Targets, ByLoop, Loops
<1>4. RowsOK' /\ NoticesMeanIt'
  BY <1>0, <1>1 DEF RowsOK, NoticesMeanIt
<1>5. QED
  BY <1>1, <1>3, <1>4, HousekeepingInv DEF ByLoop

\* A loop is done with one of the rows it listed.
LEMMA DoneType ==
    ASSUME LoopsOK, Targets, NEW l \in Loops, NEW p \in todo[l], Done(l, p),
           UNCHANGED <<faults, requested>>
    PROVE  LoopsOK' /\ Targets'
BY DEF LoopsOK, Targets, Done, Loops

LEMMA RetryWaitingAIInv ==
    ASSUME Inv, RetryWaitingAI
    PROVE  Inv'
<1>0. RowsOK /\ LoopsOK /\ Targets /\ NoticesMeanIt
  BY DEF Inv, TypeOK
<1>1. PICK p \in todo["waiting-ai-retry"] :
         /\ Done("waiting-ai-retry", p)
         /\ IF status[p[1]] = "WAITING_AI" THEN SetStatus(p[1], p[2]) ELSE UNCHANGED status
         /\ UNCHANGED <<retries, notices>>
         /\ ByLoop
  BY DEF RetryWaitingAI
<1> DEFINE i == p[1]
<1>2. /\ i \in Items /\ p[2] \in {"SCORING_QUEUED", "VARIANTS_QUEUED"}
      /\ p[2] = "VARIANTS_QUEUED" => requested[i]
  BY <1>0, <1>1 DEF LoopsOK, Targets, Loops
<1>3. LoopsOK' /\ Targets' /\ UNCHANGED <<stored, requested, score>>
  BY <1>0, <1>1, DoneType DEF ByLoop, Loops
<1>4. CASE status[i] = "WAITING_AI" /\ SetStatus(i, p[2])
  <2>1. p[2] \in Status /\ status[i] # NULL /\ ~IsTerminal(status[i]) /\ ~Settled(status[i])
    BY <1>2, <1>4 DEF Status, IsTerminal, Settled
  <2>2. /\ status' \in [Items -> Status \cup {NULL}] /\ status'[i] = p[2] /\ p[2] # NULL
        /\ \A j \in Items \ {i} : status'[j] = status[j]
    BY <1>0, <1>2, <1>4, <2>1, StatusSet
  <2>3. RowsOK' /\ NoticesMeanIt'
    BY <1>0, <1>1, <1>2, <1>3, <1>4, <2>1, <2>2, MovedNotices DEF RowsOK
  <2>4. QED
    BY <1>1, <1>2, <1>3, <2>1, <2>2, <2>3, HousekeepingInv DEF ByLoop, VariantStages
<1>5. CASE UNCHANGED status
  <2>1. RowsOK' /\ NoticesMeanIt'
    BY <1>0, <1>1, <1>3, <1>5 DEF RowsOK, NoticesMeanIt
  <2>2. QED
    BY <1>1, <1>3, <1>5, <2>1, HousekeepingInv DEF ByLoop
<1>6. QED
  BY <1>1, <1>4, <1>5

LEMMA RecoverStaleInv ==
    ASSUME Inv, RecoverStale
    PROVE  Inv'
<1>0. RowsOK /\ LoopsOK /\ Targets /\ NoticesMeanIt
  BY DEF Inv, TypeOK
<1>1. PICK p \in todo["stale-job-recovery"] :
         /\ Done("stale-job-recovery", p)
         /\ IF Accepts(p[1], "WAITING_AI") THEN Park(p[1]) ELSE UNCHANGED <<status, retries>>
         /\ UNCHANGED notices
         /\ ByLoop
  BY DEF RecoverStale
<1> DEFINE i == p[1]
<1>2. i \in Items
  BY <1>0, <1>1 DEF LoopsOK, Loops
<1>3. LoopsOK' /\ Targets' /\ UNCHANGED <<stored, requested, score>>
  BY <1>0, <1>1, DoneType DEF ByLoop, Loops
<1>4. CASE Accepts(i, "WAITING_AI") /\ Park(i)
  <2>1. /\ status'[i] \in {"WAITING_AI", "FAILED"}
        /\ status' \in [Items -> Status \cup {NULL}]
        /\ \A j \in Items \ {i} : status'[j] = status[j]
        /\ retries' \in [Items -> 0 .. MaxRetries]
        /\ \A j \in Items : retries'[j] = MaxRetries => status'[j] = "FAILED"
        /\ status[i] \in {"SCORING", "GENERATING_VARIANTS"}
    BY <1>2, <1>4, Parked
  <2>2. RowsOK'
    BY <1>0, <1>1, <1>3, <2>1 DEF RowsOK
  <2>3. NoticesMeanIt'
    BY <1>1, <1>3, <2>1, NoticesKept
  <2>4. status[i] # NULL /\ status'[i] # NULL
    BY <2>1 DEF Status
  <2>5. QED
    BY <1>1, <1>3, <2>1, <2>2, <2>3, <2>4, HousekeepingInv
       DEF ByLoop, VariantStages, Settled, IsTerminal
<1>5. CASE UNCHANGED <<status, retries>>
  <2>1. RowsOK' /\ NoticesMeanIt'
    BY <1>0, <1>1, <1>3, <1>5 DEF RowsOK, NoticesMeanIt
  <2>2. QED
    BY <1>1, <1>3, <1>5, <2>1, HousekeepingInv DEF ByLoop
<1>6. QED
  BY <1>1, <1>4, <1>5

LEMMA RepairNotificationInv ==
    ASSUME Inv, NEW i \in Items, RepairNotification(i)
    PROVE  Inv'
<1>0. RowsOK /\ LoopsOK /\ Targets /\ NoticesMeanIt /\ WasAsked
  BY DEF Inv, TypeOK
<1>1. UNCHANGED <<status, retries, todo, stored, requested, score, faults>> /\ ByLoop
  BY DEF RepairNotification, ByLoop
<1>2. PICK k \in {"first-approval", "variant-approval"} :
         /\ notices' = [notices EXCEPT ![i] = @ \cup {k}]
         /\ k = "first-approval" => score[i] # "none"
         /\ k = "variant-approval" => requested[i]
  BY <1>0 DEF RepairNotification, Enqueue, WasAsked, VariantStages
<1>3. RowsOK' /\ NoticesMeanIt'
  BY <1>0, <1>1, <1>2 DEF RowsOK, NoticesMeanIt, Notices
<1>4. LoopsOK' /\ Targets'
  BY <1>1, LoopsKept
<1>5. QED
  BY <1>1, <1>3, <1>4, HousekeepingInv DEF ByLoop

LEMMA OperatorInv ==
    ASSUME Inv, NEW i \in Items, QueueVariants(i) \/ SkipJob(i)
    PROVE  Inv'
<1>0. RowsOK /\ LoopsOK /\ Targets /\ NoticesMeanIt
  BY DEF Inv, TypeOK
<1>1. PICK to \in {"VARIANTS_QUEUED", "SKIPPED"} :
         /\ Accepts(i, to) /\ SetStatus(i, to)
         /\ IF to = "VARIANTS_QUEUED" THEN requested' = [requested EXCEPT ![i] = TRUE]
                                      ELSE UNCHANGED requested
         /\ UNCHANGED <<stored, retries, score, notices, syncVars, workerVars, todo, faults>>
  BY DEF QueueVariants, SkipJob
<1>2. /\ to \in Status /\ status[i] \in Status /\ status[i] # NULL
      /\ ~IsTerminal(status[i])
      /\ to = "VARIANTS_QUEUED" => status[i] # "SCORED"
  BY <1>0, <1>1, Accepted, Sources DEF Status, Accepts
<1>3. /\ status' \in [Items -> Status \cup {NULL}] /\ status'[i] = to /\ to # NULL
      /\ \A j \in Items \ {i} : status'[j] = status[j]
  BY <1>0, <1>1, <1>2, StatusSet
<1>4. /\ requested' \in [Items -> BOOLEAN]
      /\ \A j \in Items : requested[j] => requested'[j]
      /\ to = "VARIANTS_QUEUED" => requested'[i]
  BY <1>0, <1>1 DEF RowsOK
<1>5. RowsOK'
  BY <1>0, <1>1, <1>3, <1>4 DEF RowsOK
<1>6. NoticesMeanIt'
  BY <1>0, <1>1, <1>2, <1>3, <1>4, NoticesKept DEF NoticesMeanIt, IsTerminal
<1>7. LoopsOK' /\ Targets'
  BY <1>0, <1>1, <1>4 DEF LoopsOK, Targets, Loops
<1>8. QED
  BY <1>1, <1>2, <1>3, <1>4, <1>5, <1>6, <1>7, HousekeepingInv
     DEF Settled, IsTerminal, VariantStages

LEMMA FaultInv ==
    ASSUME Inv, Fault
    PROVE  Inv'
<1>0. /\ RowsOK /\ SyncsOK /\ WorkersOK /\ LoopsOK /\ Creators /\ OneCreator /\ Roles
      /\ Targets /\ HasScore /\ WasAsked /\ OneVerdict /\ NoticesMeanIt
  BY DEF Inv, TypeOK
<1>1. faults' \in 1 .. MaxFaults /\ UNCHANGED rowVars
  BY <1>0 DEF Fault, SyncFault, WorkerFault, LoopFault, LoopsOK
<1>2. (RowsOK /\ NoticesMeanIt /\ Held)'
  BY <1>0, <1>1 DEF RowsOK, NoticesMeanIt, Held, rowVars
<1>3. ASSUME NEW y \in Syncs, SyncFault(y)
      PROVE  Inv'
  <2>1. PICK T \in SUBSET Items : NextItem(y, T)
    BY <1>0, <1>3 DEF SyncFault, SyncsOK
  <2>2. /\ SyncsOK'
        /\ yitem'[y] = NULL
        /\ \A z \in Syncs \ {y} : ypc'[z] = ypc[z] /\ yitem'[z] = yitem[z]
    BY <1>0, <2>1, NextItemType
  <2>3. (Creators /\ OneCreator)'
    BY <1>0, <1>1, <2>2 DEF Creators, OneCreator, rowVars
  <2>4. (WorkersOK /\ LoopsOK /\ Roles /\ Targets /\ HasScore /\ WasAsked /\ OneVerdict)'
    BY <1>0, <1>1, <1>3 DEF SyncFault, WorkersOK, LoopsOK, Roles, Targets, HasScore, WasAsked,
       OneVerdict, rowVars, workerVars
  <2>5. QED
    BY <1>2, <2>2, <2>3, <2>4 DEF Inv, TypeOK
<1>4. ASSUME NEW w \in Workers, WorkerFault(w)
      PROVE  Inv'
  <2>1. WorkersOK' /\ Alone(w) /\ wpc'[w] = "idle"
    BY <1>0, <1>4, WorkerIdleType DEF WorkerFault
  <2>2. (Roles /\ HasScore /\ WasAsked /\ OneVerdict)'
    BY <1>0, <1>1, <2>1 DEF Roles, HasScore, WasAsked, OneVerdict, Alone, Workers, rowVars
  <2>3. (SyncsOK /\ LoopsOK /\ Creators /\ OneCreator /\ Targets)'
    BY <1>0, <1>1, <1>4 DEF WorkerFault, SyncsOK, LoopsOK, Creators, OneCreator, Targets,
       rowVars, syncVars
  <2>4. QED
    BY <1>2, <2>1, <2>2, <2>3 DEF Inv, TypeOK
<1>5. ASSUME NEW l \in Loops, LoopFault(l)
      PROVE  Inv'
  <2>1. PICK T \in SUBSET todo[l] : todo' = [todo EXCEPT ![l] = T]
    BY <1>5 DEF LoopFault
  <2>2. (LoopsOK /\ Targets)'
    BY <1>0, <1>1, <2>1 DEF LoopsOK, Targets, Loops, rowVars
  <2>3. (SyncsOK /\ WorkersOK /\ Creators /\ OneCreator /\ Roles /\ HasScore /\ WasAsked
           /\ OneVerdict)'
    BY <1>0, <1>1, <1>5 DEF LoopFault, SyncsOK, WorkersOK, Creators, OneCreator, Roles,
       HasScore, WasAsked, OneVerdict, rowVars, syncVars, workerVars
  <2>4. QED
    BY <1>2, <2>2, <2>3 DEF Inv, TypeOK
<1>6. QED
  BY <1>3, <1>4, <1>5 DEF Fault

-----------------------------------------------------------------------------
(* The theorems.                                                           *)

LEMMA InitInv == Init => Inv
<1> SUFFICES ASSUME Init PROVE Inv
  OBVIOUS
<1>1. RowsOK
  BY DEF Init, RowsOK, Scores
<1>2. SyncsOK /\ WorkersOK
  BY DEF Init, SyncsOK, WorkersOK, SyncPC, WorkerPC
<1>3. LoopsOK
  BY DEF Init, LoopsOK
<1>4. \A i \in Items : status[i] = NULL
  BY DEF Init
<1>5. Creators /\ OneCreator /\ Held
  BY <1>4 DEF Init, Creators, OneCreator, Held, HeldItem, Status
<1>6. Roles /\ HasScore /\ OneVerdict
  BY DEF Init, Roles, HasScore, OneVerdict, Workers
<1>7. WasAsked
  BY <1>4 DEF Init, WasAsked, VariantStages, Status
<1>8. Targets
  BY DEF Init, Targets, Loops
<1>9. NoticesMeanIt
  BY DEF Init, NoticesMeanIt
<1>10. QED
  BY <1>1, <1>2, <1>3, <1>5, <1>6, <1>7, <1>8, <1>9 DEF Inv, TypeOK

LEMMA NextInv == Inv /\ [Next]_vars => Inv'
<1> SUFFICES ASSUME Inv, [Next]_vars PROVE Inv'
  OBVIOUS
<1>1. CASE UNCHANGED vars
  <2>1. UNCHANGED <<stored, status, requested, retries, score, notices, ypc, ytodo, yitem,
                    wpc, witem, verdict, todo, faults>>
    BY <1>1 DEF vars, rowVars, syncVars, workerVars
  <2>2. TypeOK'
    BY <2>1 DEF Inv, TypeOK, RowsOK, SyncsOK, WorkersOK, LoopsOK
  <2>3. QED
    BY <2>1, <2>2 DEF Inv, Creators, OneCreator, Roles, Targets, HasScore, WasAsked,
                      OneVerdict, Held, HeldItem, HeldBy, NoticesMeanIt
<1>2. QED
  BY <1>1, SyncInv, WorkerInv, ListInv, RetryWaitingAIInv, RecoverStaleInv,
     RepairNotificationInv, OperatorInv, FaultInv DEF Next

LEMMA InvHolds == Spec => []Inv
BY InitInv, NextInv, PTL DEF Spec

\* Every variable keeps its type: the retries never pass their limit, and
\* nobody works on a job it does not name.
THEOREM IntakeTypeOK == Spec => []TypeOK
<1>1. Inv => TypeOK
  BY DEF Inv
<1>2. QED
  BY <1>1, InvHolds, PTL

\* Of any number of syncs that meet a new item one creates its job (Upsert's
\* created flag).
THEOREM IntakeOneCreator == Spec => []OneCreator
<1>1. Inv => OneCreator
  BY DEF Inv
<1>2. QED
  BY <1>1, InvHolds, PTL

\* Of any number of scorers that work on a job one decides, on a job that is
\* still SCORED or was ended by somebody else (ApplyScored, transition).
THEOREM IntakeOneVerdict == Spec => []OneVerdict
<1>1. Inv => OneVerdict
  BY DEF Inv
<1>2. QED
  BY <1>1, InvHolds, PTL

\* Without a fault whoever brought a job into a state only a process can end
\* is still at work on it (ProcessScoringQueue, ProcessVariantQueue).
THEOREM IntakeNothingOrphaned == Spec => []NothingOrphaned
<1>1. Inv => NothingOrphaned
  BY DEF Inv, Held, HeldItem, HeldBy, NothingOrphaned, InHand, Workers
<1>2. QED
  BY <1>1, InvHolds, PTL

\* What the operator is told is so, and a job with its retries used up has
\* failed, for every limit (ParkForAIRetry, RepairNotifications).
THEOREM IntakeNoticesMeanIt == Spec => []NoticesMeanIt
<1>1. Inv => NoticesMeanIt
  BY DEF Inv
<1>2. QED
  BY <1>1, InvHolds, PTL

-----------------------------------------------------------------------------
(* Who moves a job, and whether it may.                                    *)

\* A step of the job along the table, of a job that exists.
Allowed(i) == status[i] \in Status /\ status[i] # NULL /\ CanTransition(status[i], status'[i])

LEMMA AcceptedMove ==
    ASSUME Inv, NEW j \in Items, NEW to \in Status, Accepts(j, to), SetStatus(j, to),
           NEW i \in Items, status'[i] # status[i]
    PROVE  i = j /\ Allowed(i) /\ status'[i] = to
BY StatusSet, Accepted DEF Inv, TypeOK, Accepts, Allowed

LEMMA ParkedMove ==
    ASSUME Inv, NEW j \in Items, Accepts(j, "WAITING_AI"), Park(j),
           NEW i \in Items, status'[i] # status[i]
    PROVE  /\ i = j /\ Allowed(i)
           /\ status[i] \in {"SCORING", "GENERATING_VARIANTS"}
           /\ status'[i] \in {"WAITING_AI", "FAILED"}
<1>1. /\ status'[j] \in {"WAITING_AI", "FAILED"}
      /\ \A k \in Items \ {j} : status'[k] = status[k]
      /\ status[j] \in {"SCORING", "GENERATING_VARIANTS"}
  BY Parked DEF Inv, TypeOK
<1>2. status[j] \in Status /\ status[j] # NULL
  BY Accepted DEF Inv, TypeOK, Status
<1>3. QED
  BY <1>1, <1>2, Table DEF Allowed

\* A sync moves the one job it has in hand.
LEMMA SyncMoves ==
    ASSUME Inv, NEW y \in Syncs, FetchByCategory(y) \/ SyncStep(y),
           NEW i \in Items, status'[i] # status[i]
    PROVE  /\ yitem[y] = i
           /\ \/ ypc[y] = "create" /\ status[i] = NULL /\ status'[i] = "NEW"
              \/ /\ ypc[y] = "queue" /\ ypc'[y] # "queue"
                 /\ Allowed(i) /\ status'[i] = "SCORING_QUEUED"
<1>0. RowsOK /\ SyncsOK
  BY DEF Inv, TypeOK
<1>1. GetOrCreate(y) \/ QueueScoring(y)
  BY DEF FetchByCategory, SyncStep, RejectItem, StoreItem, NoAccount
<1>2. CASE GetOrCreate(y)
  <2>1. yitem[y] \in Items /\ status[yitem[y]] = NULL /\ SetStatus(yitem[y], "NEW")
    BY <1>0, <1>2 DEF GetOrCreate, SyncsOK
  <2>2. QED
    BY <1>0, <1>2, <2>1, StatusSet DEF GetOrCreate, Status
<1>3. CASE QueueScoring(y)
  <2>1. yitem[y] \in Items /\ ypc[y] = "queue" /\ NextItem(y, ytodo[y])
    BY <1>0, <1>3 DEF QueueScoring, SyncsOK
  <2>2. Accepts(yitem[y], "SCORING_QUEUED") /\ SetStatus(yitem[y], "SCORING_QUEUED")
    BY <1>3 DEF QueueScoring
  <2>3. i = yitem[y] /\ Allowed(i) /\ status'[i] = "SCORING_QUEUED"
    BY <2>1, <2>2, AcceptedMove DEF Status
  <2>4. ypc'[y] # "queue"
    BY <1>0, <2>1 DEF NextItem, SyncsOK
  <2>5. QED
    BY <2>1, <2>3, <2>4
<1>4. QED
  BY <1>1, <1>2, <1>3

\* A worker moves the job it has in hand or the one it claims.
LEMMA WorkerMoves ==
    ASSUME Inv, NEW w \in Workers, WorkerStep(w), NEW i \in Items, status'[i] # status[i]
    PROVE  /\ Allowed(i)
           /\ status'[i] # "SCORING_QUEUED"
           /\ IF wpc[w] = "idle" THEN status[i] = Queued(w) ELSE witem[w] = i
           /\ status'[i] = "WAITING_FIRST_APPROVAL" => wpc[w] = "decide" /\ verdict[w]
<1>0. RowsOK /\ WorkersOK
  BY DEF Inv, TypeOK
<1>1. CASE ClaimQueued(w)
  <2>1. PICK j \in Items : status[j] = Queued(w) /\ SetStatus(j, Running(w))
    BY <1>1 DEF ClaimQueued
  <2>2. /\ Queued(w) \in Status /\ Running(w) \in Status
        /\ CanTransition(Queued(w), Running(w))
        /\ Running(w) \notin {"SCORING_QUEUED", "WAITING_FIRST_APPROVAL"}
    BY DEF Queued, Running, Status, CanTransition, allowedTransitions
  <2>3. i = j /\ status'[i] = Running(w)
    BY <1>0, <2>1, <2>2, StatusSet
  <2>4. status[i] \in Status /\ status[i] # NULL
    BY <2>1, <2>2, <2>3
  <2>5. QED
    BY <1>1, <2>1, <2>2, <2>3, <2>4 DEF Allowed, ClaimQueued
<1>2. CASE AllProvidersFailed(w)
  <2>1. witem[w] \in Items /\ wpc[w] # "idle"
    BY <1>0, <1>2 DEF AllProvidersFailed, WorkersOK
  <2>2. Accepts(witem[w], "WAITING_AI") /\ Park(witem[w])
    BY <1>2 DEF AllProvidersFailed
  <2>3. QED
    BY <2>1, <2>2, ParkedMove
<1>3. ASSUME ~ClaimQueued(w), ~AllProvidersFailed(w)
      PROVE  \E to \in {"FAILED", "SCORED", "WAITING_FIRST_APPROVAL", "SKIPPED",
                        "WAITING_VARIANT_APPROVAL"} :
                /\ wpc[w] # "idle"
                /\ to = "WAITING_FIRST_APPROVAL" => wpc[w] = "decide" /\ verdict[w]
                /\ Accepts(witem[w], to) /\ SetStatus(witem[w], to)
  BY <1>3 DEF WorkerStep, ContextMissing, ProviderAnswers, SaveScore, ApplyScored, Decide,
              CompleteAIStage, Announce, Advance
<1>4. CASE ~ClaimQueued(w) /\ ~AllProvidersFailed(w)
  <2>1. PICK to \in {"FAILED", "SCORED", "WAITING_FIRST_APPROVAL", "SKIPPED",
                     "WAITING_VARIANT_APPROVAL"} :
           /\ wpc[w] # "idle"
           /\ to = "WAITING_FIRST_APPROVAL" => wpc[w] = "decide" /\ verdict[w]
           /\ Accepts(witem[w], to) /\ SetStatus(witem[w], to)
    BY <1>3, <1>4
  <2>2. to \in Status /\ to # "SCORING_QUEUED" /\ witem[w] \in Items
    BY <1>0, <2>1 DEF Status, WorkersOK
  <2>3. QED
    BY <2>1, <2>2, AcceptedMove
<1>5. QED
  BY <1>1, <1>2, <1>4

\* A loop does not touch a NEW job, and puts one back to scoring only if it
\* listed it for that.
LEMMA LoopMoves ==
    ASSUME Inv, RetryWaitingAI \/ RecoverStale, NEW i \in Items, status'[i] # status[i]
    PROVE  /\ Allowed(i)
           /\ status[i] # "NEW" /\ status'[i] # "WAITING_FIRST_APPROVAL"
           /\ status'[i] = "SCORING_QUEUED" =>
                 \E p \in todo["waiting-ai-retry"] :
                    p[1] = i /\ p[2] = "SCORING_QUEUED" /\ status[i] = "WAITING_AI"
<1>0. RowsOK /\ LoopsOK /\ Targets
  BY DEF Inv, TypeOK
<1>1. CASE RetryWaitingAI
  <2>1. PICK p \in todo["waiting-ai-retry"] :
           status[p[1]] = "WAITING_AI" /\ SetStatus(p[1], p[2])
    BY <1>1 DEF RetryWaitingAI
  <2>2. p[1] \in Items /\ p[2] \in {"SCORING_QUEUED", "VARIANTS_QUEUED"}
    BY <1>0, <2>1 DEF LoopsOK, Targets, Loops
  <2>3. /\ p[2] \in Status /\ CanTransition("WAITING_AI", p[2])
        /\ "WAITING_AI" \in Status
    BY <2>2 DEF Status, CanTransition, allowedTransitions
  <2>4. i = p[1] /\ status'[i] = p[2]
    BY <1>0, <2>1, <2>2, <2>3, StatusSet
  <2>5. QED
    BY <2>1, <2>2, <2>3, <2>4 DEF Allowed
<1>2. CASE RecoverStale
  <2>1. PICK p \in todo["stale-job-recovery"] : Accepts(p[1], "WAITING_AI") /\ Park(p[1])
    BY <1>2 DEF RecoverStale
  <2>2. p[1] \in Items
    BY <1>0, <2>1 DEF LoopsOK, Loops
  <2>3. QED
    BY <2>1, <2>2, ParkedMove
<1>3. QED
  BY <1>1, <1>2

\* An operator does not touch a NEW job and starts no scoring.
LEMMA OperatorMoves ==
    ASSUME Inv, NEW j \in Items, QueueVariants(j) \/ SkipJob(j),
           NEW i \in Items, status'[i] # status[i]
    PROVE  /\ Allowed(i) /\ status[i] # "NEW"
           /\ status'[i] \notin {"SCORING_QUEUED", "WAITING_FIRST_APPROVAL"}
<1>1. PICK to \in {"VARIANTS_QUEUED", "SKIPPED"} : Accepts(j, to) /\ SetStatus(j, to)
  BY DEF QueueVariants, SkipJob
<1>2. i = j /\ Allowed(i) /\ status'[i] = to
  BY <1>1, AcceptedMove DEF Status
<1>3. ~CanTransition("NEW", to)
  BY <1>1 DEF CanTransition, allowedTransitions
<1>4. QED
  BY <1>1, <1>2, <1>3 DEF Allowed

\* What a step does to the status of one job, and by whose hand.
ByHand(i) ==
    \/ /\ \E y \in Syncs : yitem[y] = i /\ ypc[y] = "create"
       /\ status[i] = NULL /\ status'[i] = "NEW"
    \/ /\ \E y \in Syncs : yitem[y] = i /\ ypc[y] = "queue" /\ ypc'[y] # "queue"
       /\ Allowed(i) /\ status'[i] = "SCORING_QUEUED"
    \/ /\ \E w \in Workers :
             /\ IF wpc[w] = "idle" THEN status[i] = Queued(w) ELSE witem[w] = i
             /\ status'[i] = "WAITING_FIRST_APPROVAL" => wpc[w] = "decide" /\ verdict[w]
       /\ Allowed(i) /\ status'[i] # "SCORING_QUEUED"
    \/ /\ Allowed(i) /\ status[i] # "NEW" /\ status'[i] # "WAITING_FIRST_APPROVAL"
       /\ status'[i] = "SCORING_QUEUED" =>
             \E p \in todo["waiting-ai-retry"] :
                p[1] = i /\ p[2] = "SCORING_QUEUED" /\ status[i] = "WAITING_AI"

LEMMA Moved ==
    ASSUME Inv, [Next]_vars, NEW i \in Items, status'[i] # status[i]
    PROVE  ByHand(i)
<1>1. CASE \E y \in Syncs : FetchByCategory(y) \/ SyncStep(y)
  BY <1>1, SyncMoves DEF ByHand
<1>2. CASE \E w \in Workers : WorkerStep(w)
  BY <1>2, WorkerMoves DEF ByHand
<1>3. CASE RetryWaitingAI \/ RecoverStale
  BY <1>3, LoopMoves DEF ByHand
<1>4. CASE \E j \in Items : QueueVariants(j) \/ SkipJob(j)
  BY <1>4, OperatorMoves DEF ByHand
<1>5. CASE \/ \E l \in Loops : List(l)
           \/ \E j \in Items : RepairNotification(j)
           \/ Fault
           \/ UNCHANGED vars
  <2>1. UNCHANGED status
    BY <1>5 DEF List, RepairNotification, Fault, SyncFault, WorkerFault, LoopFault, vars,
                rowVars
  <2>2. QED
    BY <2>1
<1>6. QED
  BY <1>1, <1>2, <1>3, <1>4, <1>5 DEF Next

\* Whatever process writes it and whether it goes through transition() or
\* not (ClaimStatus and ParkForAIRetry do not), a status moves along the
\* table of status.go only, from NEW on.
ObeysTable ==
    \A i \in Items : status'[i] # status[i] =>
        IF status[i] = NULL THEN status'[i] = "NEW"
                            ELSE CanTransition(status[i], status'[i])

\* Every write of a job's status by a sync, a worker, a housekeeping loop or an
\* operator is a move of allowedTransitions, also the writes by ClaimStatus
\* and ParkForAIRetry, which do not ask CanTransition.
THEOREM IntakeObeysTable == Spec => [][ObeysTable]_vars
<1>1. Inv /\ [Next]_vars => [ObeysTable]_vars
  BY Moved DEF ByHand, Allowed, ObeysTable
<1>2. QED
  BY <1>1, InvHolds, PTL DEF Spec

-----------------------------------------------------------------------------
(* Retries go back to the stage they came from, unless listed too early.   *)

\* A job that a sync is about to queue is NEW, and no worker has it yet.
Untouched ==
    /\ \A y \in Syncs : ypc[y] = "queue" => status[yitem[y]] = "NEW"
    /\ \A w \in Workers : wpc[w] # "idle" => status[witem[w]] \notin {NULL, "NEW"}

\* The locals of a sync and of a worker change as they take up a job.
LEMMA HandsChange ==
    ASSUME Inv, [Next]_vars
    PROVE  /\ \A y \in Syncs : ypc'[y] = "queue" =>
                 \/ ypc[y] = "queue" /\ yitem'[y] = yitem[y]
                 \/ status'[yitem'[y]] = "NEW"
           /\ \A w \in Workers : wpc'[w] # "idle" =>
                 \/ wpc[w] # "idle" /\ witem'[w] = witem[w]
                 \/ status'[witem'[w]] = Running(w)
<1>0. RowsOK /\ SyncsOK /\ WorkersOK
  BY DEF Inv, TypeOK
<1>1. ASSUME NEW y \in Syncs, FetchByCategory(y) \/ SyncStep(y),
             NEW z \in Syncs, ypc'[z] = "queue"
      PROVE  \/ ypc[z] = "queue" /\ yitem'[z] = yitem[z]
             \/ status'[yitem'[z]] = "NEW"
  <2>1. CASE GetOrCreate(y)
    <3>1. CASE z = y
      BY <1>0, <1>1, <2>1, <3>1, StatusSet
         DEF GetOrCreate, NextItem, SyncsOK, SetStatus, RowsOK
    <3>2. CASE z # y
      BY <1>0, <1>1, <2>1, <3>2 DEF GetOrCreate, NextItem, SyncsOK
    <3>3. QED
      BY <3>1, <3>2
  <2>2. CASE ~GetOrCreate(y)
    BY <1>0, <1>1, <2>2
       DEF FetchByCategory, SyncStep, RejectItem, StoreItem, NoAccount, QueueScoring,
           NextItem, SyncsOK
  <2>3. QED
    BY <2>1, <2>2
<1>2. ASSUME NEW w \in Workers, WorkerStep(w), NEW v \in Workers, wpc'[v] # "idle"
      PROVE  \/ wpc[v] # "idle" /\ witem'[v] = witem[v]
             \/ status'[witem'[v]] = Running(v)
  <2>1. CASE ClaimQueued(w)
    <3>1. PICK j \in Items : /\ SetStatus(j, Running(w))
                             /\ witem' = [witem EXCEPT ![w] = j]
      BY <2>1 DEF ClaimQueued
    <3>2. wpc' = [wpc EXCEPT ![w] = "ask"] /\ status'[j] = Running(w)
      BY <1>0, <2>1, <3>1 DEF ClaimQueued, Goto, SetStatus, RowsOK
    <3>3. QED
      BY <1>0, <1>2, <3>1, <3>2 DEF WorkersOK
  <2>2. CASE ~ClaimQueued(w)
    BY <1>0, <1>2, <2>2
       DEF WorkerStep, ContextMissing, ProviderAnswers, AllProvidersFailed, SaveScore,
           ApplyScored, Decide, CompleteAIStage, Announce, Advance, WorkerIdle, Goto,
           WorkersOK
  <2>3. QED
    BY <2>1, <2>2
<1>3. CASE \E y \in Syncs : FetchByCategory(y) \/ SyncStep(y)
  <2>1. UNCHANGED workerVars
    BY <1>3 DEF FetchByCategory, SyncStep, RejectItem, StoreItem, NoAccount, GetOrCreate,
                QueueScoring, BySync
  <2>2. QED
    BY <1>1, <1>3, <2>1 DEF workerVars
<1>4. CASE \E w \in Workers : WorkerStep(w)
  <2>1. UNCHANGED syncVars
    BY <1>4 DEF WorkerStep, ClaimQueued, ContextMissing, ProviderAnswers,
                AllProvidersFailed, SaveScore, ApplyScored, Decide, CompleteAIStage,
                Announce, ByWorker
  <2>2. QED
    BY <1>2, <1>4, <2>1 DEF syncVars
<1>5. CASE \/ \E l \in Loops : List(l)
           \/ RetryWaitingAI \/ RecoverStale
           \/ \E i \in Items : RepairNotification(i) \/ QueueVariants(i) \/ SkipJob(i)
           \/ UNCHANGED vars
  <2>1. UNCHANGED <<syncVars, workerVars>>
    BY <1>5 DEF List, RetryWaitingAI, RecoverStale, RepairNotification, QueueVariants,
                SkipJob, ByLoop, vars
  <2>2. QED
    BY <2>1 DEF syncVars, workerVars
<1>6. CASE Fault
  <2>1. CASE \E y \in Syncs : SyncFault(y)
    BY <1>0, <2>1 DEF SyncFault, NextItem, SyncsOK, workerVars
  <2>2. CASE \E w \in Workers : WorkerFault(w)
    BY <1>0, <2>2 DEF WorkerFault, WorkerIdle, Goto, WorkersOK, syncVars
  <2>3. CASE \E l \in Loops : LoopFault(l)
    BY <2>3 DEF LoopFault, syncVars, workerVars
  <2>4. QED
    BY <1>6, <2>1, <2>2, <2>3 DEF Fault
<1>7. QED
  BY <1>3, <1>4, <1>5, <1>6 DEF Next

LEMMA UntouchedStays ==
    ASSUME Inv, Untouched, [Next]_vars
    PROVE  Untouched'
<1>0. SyncsOK /\ WorkersOK /\ OneCreator
  BY DEF Inv, TypeOK
<1>1. ASSUME NEW y \in Syncs, ypc'[y] = "queue"
      PROVE  status'[yitem'[y]] = "NEW"
  <2>1. CASE ypc[y] = "queue" /\ yitem'[y] = yitem[y]
    <3>1. yitem[y] \in Items /\ yitem[y] # NULL /\ status[yitem[y]] = "NEW"
      BY <1>0, <2>1 DEF SyncsOK, Untouched
    <3>2. ASSUME status'[yitem[y]] # "NEW" PROVE FALSE
      <4>1. ByHand(yitem[y])
        BY <3>1, <3>2, Moved
      <4>2. ASSUME NEW z \in Syncs, yitem[z] = yitem[y] PROVE z = y
        BY <1>0, <3>1, <4>2 DEF OneCreator
      <4>3. ~ \E w \in Workers : IF wpc[w] = "idle" THEN status[yitem[y]] = Queued(w)
                                                    ELSE witem[w] = yitem[y]
        BY <3>1 DEF Untouched, Queued
      <4>4. "NEW" # NULL
        BY DEF Status
      <4>5. QED
        BY <1>1, <3>1, <4>1, <4>2, <4>3, <4>4 DEF ByHand
    <3>3. QED
      BY <2>1, <3>2
  <2>2. QED
    BY <1>1, <2>1, HandsChange
<1>2. ASSUME NEW w \in Workers, wpc'[w] # "idle"
      PROVE  status'[witem'[w]] \notin {NULL, "NEW"}
  <2>1. CASE wpc[w] # "idle" /\ witem'[w] = witem[w]
    <3>1. witem[w] \in Items /\ status[witem[w]] \notin {NULL, "NEW"}
      BY <1>0, <2>1 DEF WorkersOK, Untouched
    <3>2. CASE status'[witem[w]] # status[witem[w]]
      <4>1. Allowed(witem[w])
        BY <3>1, <3>2, Moved DEF ByHand
      <4>2. status'[witem[w]] \in Status \ {"NEW"}
        BY <4>1 DEF Allowed, CanTransition, allowedTransitions, Status
      <4>3. QED
        BY <2>1, <4>2
    <3>3. QED
      BY <2>1, <3>1, <3>2
  <2>2. CASE status'[witem'[w]] = Running(w)
    BY <2>2 DEF Running, Status
  <2>3. QED
    BY <1>2, <2>1, <2>2, HandsChange
<1>3. QED
  BY <1>1, <1>2 DEF Untouched

ScoringStages == {"NEW", "SCORING_QUEUED", "SCORING", "SCORED", "WAITING_FIRST_APPROVAL"}

\* The comment of RetryWaitingAI: "Jobs that already had a variant count
\* requested retry generation; others retry scoring."  No job an operator asked
\* variants for is scored again or put to the first approval again.
NotScoredAgain == \A i \in Items : requested[i] => status[i] \notin ScoringStages \cup {NULL}

\* No retry about to be granted was listed before the operator's request.
NoneListedBefore ==
    \A p \in todo["waiting-ai-retry"] :
        p[2] = "SCORING_QUEUED" /\ status[p[1]] = "WAITING_AI" => ~requested[p[1]]

LEMMA RequestedMeans ==
    ASSUME [Next]_vars, Inv, NEW i \in Items, requested'[i], ~requested[i]
    PROVE  status'[i] = "VARIANTS_QUEUED"
<1>1. RowsOK
  BY DEF Inv, TypeOK
<1>2. CASE \E j \in Items : QueueVariants(j)
  BY <1>1, <1>2 DEF QueueVariants, SetStatus, RowsOK
<1>3. CASE ~ \E j \in Items : QueueVariants(j)
  <2>1. CASE \E y \in Syncs : FetchByCategory(y) \/ SyncStep(y)
    BY <2>1 DEF FetchByCategory, SyncStep, RejectItem, StoreItem, NoAccount, GetOrCreate,
                QueueScoring, BySync
  <2>2. CASE \E w \in Workers : WorkerStep(w)
    BY <2>2 DEF WorkerStep, ClaimQueued, ContextMissing, ProviderAnswers,
                AllProvidersFailed, SaveScore, ApplyScored, Decide, CompleteAIStage,
                Announce, ByWorker
  <2>3. QED
    BY <1>3, <2>1, <2>2
       DEF Next, List, RetryWaitingAI, RecoverStale, RepairNotification, SkipJob, ByLoop,
           Fault, SyncFault, WorkerFault, LoopFault, vars, rowVars
<1>4. QED
  BY <1>2, <1>3

LEMMA NotScoredAgainStays ==
    ASSUME Inv, Untouched, NotScoredAgain, NoneListedBefore, [Next]_vars
    PROVE  NotScoredAgain'
<1>1. ASSUME NEW i \in Items, requested'[i], status'[i] \in ScoringStages \cup {NULL}
      PROVE  FALSE
  <2>1. requested[i] /\ status[i] \notin ScoringStages \cup {NULL}
    BY <1>1, RequestedMeans DEF NotScoredAgain, ScoringStages, Status
  <2>2. ByHand(i) /\ Allowed(i)
    BY <1>1, <2>1, Moved DEF ByHand
  <2>3. status[i] = "WAITING_AI" /\ status'[i] = "SCORING_QUEUED"
    BY <1>1, <2>1, <2>2
       DEF Allowed, ScoringStages, CanTransition, allowedTransitions, Status
  <2>4. \A y \in Syncs : ~(yitem[y] = i /\ ypc[y] = "queue")
    BY <2>3 DEF Untouched
  <2>5. status[i] # NULL
    BY <2>1
  <2>6. \E p \in todo["waiting-ai-retry"] : p[1] = i /\ p[2] = "SCORING_QUEUED"
    BY <2>2, <2>3, <2>4, <2>5 DEF ByHand
  <2>7. QED
    BY <2>1, <2>3, <2>6 DEF NoneListedBefore
<1>2. QED
  BY <1>1 DEF NotScoredAgain

\* The comment of RetryWaitingAI holds as long as no retry is granted that was
\* listed before the operator asked for variants; without that it does not:
\* ClaimStatus compares the state, not the count the decision was based on.
THEOREM NotScoredAgainUnlessListedBefore ==
    Spec /\ []NoneListedBefore => []NotScoredAgain
<1>1. Init => Untouched /\ NotScoredAgain
  BY DEF Init, Untouched, NotScoredAgain, Workers
<1>2. Inv /\ Untouched /\ NotScoredAgain /\ NoneListedBefore /\ [Next]_vars
         => Untouched' /\ NotScoredAgain'
  BY UntouchedStays, NotScoredAgainStays
<1>3. QED
  BY <1>1, <1>2, InvHolds, PTL DEF Spec

-----------------------------------------------------------------------------
(* What the operator is asked to review, unless a score was overwritten.   *)

Saved(answer) == IF answer THEN "eligible" ELSE "ineligible"

\* A job waits for its first approval with a saved score that calls for one:
\* the score RepairNotifications sends and the console shows.
ReviewIsEligible ==
    \A i \in Items : status[i] = "WAITING_FIRST_APPROVAL" => score[i] = "eligible"

\* A scorer that is about to decide decides by the score in the row.
DecidesBySaved ==
    \A w \in Scorers : wpc[w] \in {"apply", "decide"} => score[witem[w]] = Saved(verdict[w])

\* No scorer, late by now, is about to put another answer in the place of the
\* score a review waits with or another scorer decides by.
NoneOverwrites ==
    \A w \in Scorers : wpc[w] = "save" /\ score[witem[w]] # Saved(verdict[w]) =>
        /\ status[witem[w]] # "WAITING_FIRST_APPROVAL"
        /\ \A v \in Scorers : witem[v] = witem[w] => wpc[v] \notin {"apply", "decide"}

\* The scores, and what a scorer holds when it decides.
LEMMA ScoreMoves ==
    ASSUME Inv, [Next]_vars
    PROVE  /\ \A i \in Items : score'[i] # score[i] =>
                 \E w \in Scorers : /\ wpc[w] = "save" /\ witem[w] = i
                                    /\ score'[i] = Saved(verdict[w])
           /\ \A w \in Scorers : wpc'[w] \in {"apply", "decide"} =>
                 /\ witem'[w] = witem[w] /\ verdict'[w] = verdict[w]
                 /\ \/ wpc[w] \in {"apply", "decide"}
                    \/ score'[witem[w]] = Saved(verdict[w])
<1>0. RowsOK /\ WorkersOK /\ Roles
  BY DEF Inv, TypeOK
<1>1. CASE \E w \in Workers : SaveScore(w)
  <2>1. PICK w \in Workers : SaveScore(w)
    BY <1>1
  <2>2. w \in Scorers /\ wpc[w] = "save" /\ witem[w] \in Items
    BY <1>0, <2>1 DEF SaveScore, Roles, Workers, WorkersOK
  <2>3. /\ score' = [score EXCEPT ![witem[w]] = Saved(verdict[w])]
        /\ wpc' = [wpc EXCEPT ![w] = "apply"] /\ UNCHANGED <<witem, verdict>>
    BY <2>1 DEF SaveScore, Saved, Goto
  <2>4. QED
    BY <1>0, <2>2, <2>3 DEF RowsOK, WorkersOK, Workers
<1>2. CASE \E w \in Workers : WorkerStep(w) /\ ~SaveScore(w)
  <2>1. PICK w \in Workers : WorkerStep(w) /\ ~SaveScore(w)
    BY <1>2
  <2>2. UNCHANGED score
    BY <2>1 DEF WorkerStep, ClaimQueued, ContextMissing, ProviderAnswers,
                AllProvidersFailed, ApplyScored, Decide, CompleteAIStage, Announce
  <2>3. ASSUME NEW v \in Scorers, wpc'[v] \in {"apply", "decide"}
        PROVE  /\ witem'[v] = witem[v] /\ verdict'[v] = verdict[v]
               /\ wpc[v] \in {"apply", "decide"}
    <3>1. CASE v # w
      BY <1>0, <2>1, <2>3, <3>1
         DEF WorkerStep, ClaimQueued, ContextMissing, ProviderAnswers, AllProvidersFailed,
             ApplyScored, Decide, CompleteAIStage, Announce, Advance, WorkerIdle, Goto,
             WorkersOK, Workers
    <3>2. CASE v = w
      BY <1>0, <2>1, <2>3, <3>2
         DEF WorkerStep, ClaimQueued, ContextMissing, ProviderAnswers, AllProvidersFailed,
             ApplyScored, Decide, CompleteAIStage, Announce, Advance, WorkerIdle, Goto,
             WorkersOK, Workers
    <3>3. QED
      BY <3>1, <3>2
  <2>4. QED
    BY <2>2, <2>3
<1>3. CASE Fault
  <2>1. UNCHANGED score
    BY <1>3 DEF Fault, SyncFault, WorkerFault, LoopFault, rowVars
  <2>2. CASE \E w \in Workers : WorkerFault(w)
    BY <1>0, <2>1, <2>2 DEF WorkerFault, WorkerIdle, Goto, WorkersOK, Workers
  <2>3. CASE ~ \E w \in Workers : WorkerFault(w)
    BY <1>3, <2>1, <2>3 DEF Fault, SyncFault, LoopFault, workerVars
  <2>4. QED
    BY <2>2, <2>3
<1>4. CASE \/ \E y \in Syncs : FetchByCategory(y) \/ SyncStep(y)
           \/ \E l \in Loops : List(l)
           \/ RetryWaitingAI \/ RecoverStale
           \/ \E i \in Items : RepairNotification(i) \/ QueueVariants(i) \/ SkipJob(i)
           \/ UNCHANGED vars
  <2>1. UNCHANGED <<score, workerVars>>
    BY <1>4 DEF FetchByCategory, SyncStep, RejectItem, StoreItem, NoAccount, GetOrCreate,
                QueueScoring, BySync, List, RetryWaitingAI, RecoverStale,
                RepairNotification, QueueVariants, SkipJob, ByLoop, vars, rowVars
  <2>2. QED
    BY <2>1 DEF workerVars
<1>5. QED
  BY <1>1, <1>2, <1>3, <1>4 DEF Next

LEMMA EligibleStays ==
    ASSUME Inv, ReviewIsEligible, DecidesBySaved, NoneOverwrites, [Next]_vars
    PROVE  (ReviewIsEligible /\ DecidesBySaved)'
<1>0. WorkersOK
  BY DEF Inv, TypeOK
<1>1. ASSUME NEW w \in Scorers, wpc'[w] \in {"apply", "decide"}
      PROVE  score'[witem'[w]] = Saved(verdict'[w])
  <2>1. witem'[w] = witem[w] /\ verdict'[w] = verdict[w]
    BY <1>1, ScoreMoves
  <2>2. CASE wpc[w] \in {"apply", "decide"}
    <3>1. score[witem[w]] = Saved(verdict[w]) /\ witem[w] \in Items
      BY <1>0, <2>2 DEF DecidesBySaved, WorkersOK, Workers
    <3>2. score'[witem[w]] = score[witem[w]]
      BY <2>2, <3>1, ScoreMoves DEF NoneOverwrites
    <3>3. QED
      BY <2>1, <3>1, <3>2
  <2>3. QED
    BY <1>1, <2>1, <2>2, ScoreMoves
<1>2. ASSUME NEW i \in Items, status'[i] = "WAITING_FIRST_APPROVAL"
      PROVE  score'[i] = "eligible"
  <2>1. CASE status[i] = "WAITING_FIRST_APPROVAL"
    BY <2>1, ScoreMoves DEF ReviewIsEligible, NoneOverwrites
  <2>2. CASE status[i] # "WAITING_FIRST_APPROVAL"
    <3>1. ByHand(i)
      BY <1>2, <2>2, Moved
    <3>2. PICK w \in Workers : /\ wpc[w] = "decide" /\ verdict[w]
                               /\ witem[w] = i
      BY <1>2, <3>1 DEF ByHand
    <3>3. w \in Scorers
      BY <3>2 DEF Inv, Roles, Workers
    <3>4. score[i] = Saved(TRUE) /\ score[i] = "eligible"
      BY <3>2, <3>3 DEF DecidesBySaved, Saved
    <3>5. ASSUME score'[i] # score[i] PROVE FALSE
      <4>1. PICK v \in Scorers : /\ wpc[v] = "save" /\ witem[v] = i
                                /\ score'[i] = Saved(verdict[v])
        BY <3>5, ScoreMoves
      <4>2. score[witem[v]] # Saved(verdict[v]) /\ witem[w] = witem[v]
        BY <3>2, <3>5, <4>1
      <4>3. QED
        BY <3>2, <3>3, <4>1, <4>2 DEF NoneOverwrites
    <3>6. QED
      BY <3>4, <3>5
  <2>3. QED
    BY <2>1, <2>2
<1>3. QED
  BY <1>1, <1>2 DEF ReviewIsEligible, DecidesBySaved

\* What a repaired notice shows called for the review, as long as no scorer
\* that was taken for dead overwrites the one score of the item (SaveScore,
\* which looks at neither the job nor the score it replaces).
THEOREM ReviewEligibleUnlessOverwritten ==
    Spec /\ []NoneOverwrites => []ReviewIsEligible
<1>1. Init => ReviewIsEligible /\ DecidesBySaved
  BY DEF Init, ReviewIsEligible, DecidesBySaved, Workers, Status
<1>2. Inv /\ ReviewIsEligible /\ DecidesBySaved /\ NoneOverwrites /\ [Next]_vars
         => (ReviewIsEligible /\ DecidesBySaved)'
  BY EligibleStays
<1>3. QED
  BY <1>1, <1>2, InvHolds, PTL DEF Spec
=============================================================================
