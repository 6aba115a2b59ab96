---------------------------- MODULE PreviewProofs ----------------------------
(***************************************************************************)
(* The preview for any number of variants, captions and requests.          *)
(*                                                                         *)
(* Three facts carry the proofs.  Once the publisher has loaded the job,   *)
(* the selection stands and, once it has claimed it, the caption does too  *)
(* (AtWork); so what it posts stays the last accepted edit (OnTheWay).  A  *)
(* job that may yet be approved and shows no artwork has a request that    *)
(* still has to read the caption, or has read the one it has now (Working).*)
(***************************************************************************)
EXTENDS Preview, TLAPS

USE PreviewAssumption

Past == {"PUBLISHING", "PUBLISHED", "FAILED"}

\* A variant is selected before the job leaves its review.
Chosen == status # "WAITING_VARIANT_APPROVAL" => selected # NULL

\* What the publisher has in hand is what the rows say.
AtWork ==
    /\ wpc # "idle" => wvariant = selected /\ status \in Past \cup {"APPROVED"}
    /\ wpc \notin {"idle", "claim"} => status \in Past
    /\ wpc \in {"render", "persist", "publish"} => wtext = caption[wvariant]
    /\ wpc \in {"persist", "publish"} => wart = wtext

OnTheWay == posts # {} => status \in Past

\* Request r will find the caption the selected variant has now.
WorksOn(r) ==
    \/ pc[r] = "load"
    \/ pc[r] \in {"render", "save"} /\ variant[r] = selected /\ seen[r] = caption[selected]

Working ==
    /\ status \in {"READY_TO_PUBLISH", "SCHEDULED"}
    /\ image[selected] = NULL
    /\ ~failed
    => \E r \in Requests : WorksOn(r)

Inv ==
    /\ TypeOK /\ Chosen /\ AtWork /\ OnTheWay
    /\ ArtworkMatches /\ PostedMatches /\ Working

-----------------------------------------------------------------------------
(* Helpers of the requests.                                                *)

LEMMA PrepareType ==
    ASSUME RequestsOK, NEW r \in Requests, NEW g \in Goals, Prepare(r, g)
    PROVE  /\ RequestsOK'
           /\ pc'[r] = "load"
           /\ \A q \in Requests \ {r} :
                 pc'[q] = pc[q] /\ variant'[q] = variant[q] /\ seen'[q] = seen[q]
BY DEF RequestsOK, Prepare, Goto, Goals

LEMMA ReturnType ==
    ASSUME RequestsOK, NEW r \in Requests, Return(r)
    PROVE  /\ RequestsOK'
           /\ \A q \in Requests \ {r} :
                 pc'[q] = pc[q] /\ variant'[q] = variant[q] /\ seen'[q] = seen[q]
BY DEF RequestsOK, Return, Goto, Goals

LEMMA ProceedType ==
    ASSUME RequestsOK, NEW r \in Requests, Proceed(r)
    PROVE  /\ RequestsOK'
           /\ \A q \in Requests \ {r} :
                 pc'[q] = pc[q] /\ variant'[q] = variant[q] /\ seen'[q] = seen[q]
<1>1. CASE Return(r)
  BY <1>1, ReturnType
<1>2. CASE /\ Goto(r, IF goal[r] = "queue" THEN "queue" ELSE "move")
           /\ UNCHANGED <<goal, variant, seen, tries>>
  BY <1>2 DEF RequestsOK, Goto
<1>3. QED
  BY <1>1, <1>2 DEF Proceed

\* Where an accepted transition of an operator may lead.
LEMMA Moves ==
    ASSUME NEW s \in Reviewed, NEW g \in Goals \cup {"READY_TO_PUBLISH"},
           CanTransition(s, g)
    PROVE  /\ s \in {"WAITING_VARIANT_APPROVAL", "READY_TO_PUBLISH", "SCHEDULED"}
           /\ g \in {"READY_TO_PUBLISH", "APPROVED", "SCHEDULED"}
           /\ s = "WAITING_VARIANT_APPROVAL" => g = "READY_TO_PUBLISH"
BY DEF Reviewed, Goals, CanTransition, allowedTransitions

\* Where an accepted transition of the publisher may lead.
LEMMA Ends ==
    ASSUME NEW s \in Past, NEW to \in {"PUBLISHED", "FAILED"}
    PROVE  (IF CanTransition(s, to) THEN to ELSE s) \in Past
BY DEF Past

\* While an operator may still touch the post, nothing is posted and the
\* publisher is not at work.
LEMMA Untouched ==
    ASSUME Inv, status \in {"WAITING_VARIANT_APPROVAL", "READY_TO_PUBLISH", "SCHEDULED"}
    PROVE  wpc = "idle" /\ posts = {}
BY DEF Inv, AtWork, OnTheWay, Past

\* A step that leaves the rows, posts and publisher alone, and the other
\* requests, keeps what is not about requests.
LEMMA RequestFrame ==
    ASSUME Inv, UNCHANGED <<rowVars, posts, publisherVars>>, RequestsOK',
           failed' \in BOOLEAN, Working'
    PROVE  Inv'
BY DEF Inv, TypeOK, RowsOK, PublisherOK, Chosen, AtWork, OnTheWay, ArtworkMatches,
       PostedMatches, rowVars, publisherVars

\* What a request that was not the witness, or has become one, means for the
\* preview when rows do not change.
LEMMA StillWorking ==
    ASSUME Working, NEW r \in Requests, UNCHANGED rowVars, failed => failed',
           \A q \in Requests \ {r} :
              pc'[q] = pc[q] /\ variant'[q] = variant[q] /\ seen'[q] = seen[q],
           WorksOn(r) => WorksOn(r)' \/ failed'
    PROVE  Working'
BY DEF Working, WorksOn, rowVars

-----------------------------------------------------------------------------
(* The steps of a request.                                                 *)

LEMMA EditCaptionInv ==
    ASSUME Inv, NEW r \in Requests, EditCaption(r)
    PROVE  Inv'
<1>1. PICK v \in Variants, c \in Captions :
         /\ caption' = [caption EXCEPT ![v] = c]
         /\ image' = [image EXCEPT ![v] = NULL]
         /\ IF v = selected THEN Prepare(r, "preview") ELSE UNCHANGED requestVars
  BY DEF EditCaption
<1>2. /\ wpc = "idle" /\ posts = {}
      /\ UNCHANGED <<status, selected, failed, posts, wpc, wvariant, wtext, wart>>
  BY Untouched DEF EditCaption, ByRequest, publisherVars
<1>3. RequestsOK' /\ (v = selected => pc'[r] = "load")
  BY <1>1, PrepareType DEF Inv, TypeOK, RequestsOK, requestVars, Goals
<1>4. TypeOK'
  BY <1>1, <1>2, <1>3 DEF Inv, TypeOK, RowsOK, PublisherOK
<1>5. (Chosen /\ AtWork /\ OnTheWay /\ PostedMatches)'
  BY <1>2 DEF Inv, Chosen, AtWork, OnTheWay, PostedMatches
<1>6. ArtworkMatches'
  BY <1>1 DEF Inv, TypeOK, RowsOK, ArtworkMatches
<1>7. Working'
  <2>1. CASE v = selected
    BY <2>1, <1>3 DEF Working, WorksOn
  <2>2. CASE v # selected
    <3>1. UNCHANGED requestVars /\ selected' = selected
      BY <1>1, <1>2, <2>2
    <3>2. status # "WAITING_VARIANT_APPROVAL" =>
             caption'[selected] = caption[selected] /\ image'[selected] = image[selected]
      BY <1>1, <2>2 DEF Inv, TypeOK, RowsOK, Chosen
    <3>3. QED
      BY <1>2, <3>1, <3>2 DEF Inv, Working, WorksOn, requestVars
  <2>3. QED
    BY <2>1, <2>2
<1>8. QED
  BY <1>4, <1>5, <1>6, <1>7 DEF Inv

LEMMA SelectVariantInv ==
    ASSUME Inv, NEW r \in Requests, SelectVariant(r)
    PROVE  Inv'
<1>1. PICK v \in Variants : selected' = v
  BY DEF SelectVariant
<1>2. PICK g \in {"preview", "queue"} : Prepare(r, g)
  BY DEF SelectVariant
<1>3. status \in {"WAITING_VARIANT_APPROVAL", "READY_TO_PUBLISH", "SCHEDULED"}
  BY Moves DEF SelectVariant, Inv, TypeOK, RowsOK
<1>4. /\ wpc = "idle" /\ posts = {} /\ status' = "READY_TO_PUBLISH"
      /\ UNCHANGED <<caption, image, failed, posts, wpc, wvariant, wtext, wart>>
  BY <1>3, Untouched DEF SelectVariant, ByRequest, publisherVars
<1>5. RequestsOK' /\ pc'[r] = "load"
  BY <1>2, PrepareType DEF Inv, TypeOK, Goals
<1>6. TypeOK'
  BY <1>1, <1>4, <1>5 DEF Inv, TypeOK, RowsOK, PublisherOK, Reviewed
<1>7. (Chosen /\ AtWork /\ OnTheWay /\ PostedMatches /\ ArtworkMatches)'
  BY <1>1, <1>4 DEF Inv, Chosen, AtWork, OnTheWay, PostedMatches, ArtworkMatches
<1>8. Working'
  BY <1>5 DEF Working, WorksOn
<1>9. QED
  BY <1>6, <1>7, <1>8 DEF Inv

LEMMA SavePreviewInv ==
    ASSUME Inv, NEW r \in Requests, SavePreview(r)
    PROVE  Inv'
<1> DEFINE v == variant[r]
<1>1. /\ v \in Variants /\ seen[r] \in Captions /\ caption[v] = seen[r]
      /\ image' = [image EXCEPT ![v] = seen[r]]
      /\ UNCHANGED <<status, selected, caption, failed, posts, wpc, wvariant, wtext, wart>>
  BY DEF SavePreview, Inv, TypeOK, RequestsOK, ByRequest, publisherVars
<1>2. /\ RequestsOK'
      /\ \A q \in Requests \ {r} :
            pc'[q] = pc[q] /\ variant'[q] = variant[q] /\ seen'[q] = seen[q]
  BY ProceedType DEF SavePreview, Inv, TypeOK
<1>3. TypeOK'
  BY <1>1, <1>2 DEF Inv, TypeOK, RowsOK, PublisherOK
<1>4. (Chosen /\ AtWork /\ OnTheWay /\ PostedMatches)'
  BY <1>1 DEF Inv, Chosen, AtWork, OnTheWay, PostedMatches
<1>5. ArtworkMatches'
  BY <1>1 DEF Inv, TypeOK, RowsOK, ArtworkMatches
<1>6. Working'
  <2>1. CASE v = selected
    BY <1>1, <2>1 DEF Inv, TypeOK, RowsOK, Working
  <2>2. CASE v # selected
    <3>1. ~WorksOn(r)
      BY <2>2 DEF WorksOn, SavePreview
    <3>2. status # "WAITING_VARIANT_APPROVAL" => image'[selected] = image[selected]
      BY <1>1, <2>2 DEF Inv, TypeOK, RowsOK, Chosen
    <3>3. QED
      BY <1>1, <1>2, <3>1, <3>2 DEF Inv, Working, WorksOn
  <2>3. QED
    BY <2>1, <2>2
<1>7. QED
  BY <1>3, <1>4, <1>5, <1>6 DEF Inv

LEMMA MoveInv ==
    ASSUME Inv, NEW r \in Requests, Move(r)
    PROVE  Inv'
<1> DEFINE accepted == CanTransition(status, goal[r])
<1>1. /\ UNCHANGED <<selected, caption, image, failed, posts, wpc, wvariant, wtext, wart>>
      /\ status' = IF accepted THEN goal[r] ELSE status
  BY DEF Move, ByRequest, publisherVars
<1>2. /\ RequestsOK'
      /\ \A q \in Requests \ {r} :
            pc'[q] = pc[q] /\ variant'[q] = variant[q] /\ seen'[q] = seen[q]
  BY ReturnType DEF Move, Inv, TypeOK
<1>3. goal[r] \in Goals /\ status \in Reviewed
  BY DEF Inv, TypeOK, RowsOK, RequestsOK
<1>4. accepted => /\ status \in {"READY_TO_PUBLISH", "SCHEDULED"}
                  /\ status' \in {"APPROVED", "SCHEDULED"}
                  /\ wpc = "idle" /\ posts = {}
  <2>1. goal[r] # "READY_TO_PUBLISH"
    BY <1>3 DEF Goals
  <2>2. QED
    BY <1>1, <1>3, <2>1, Moves, Untouched
<1>5. TypeOK'
  BY <1>1, <1>2, <1>3, <1>4 DEF Inv, TypeOK, RowsOK, PublisherOK, Reviewed
<1>6. (Chosen /\ AtWork /\ OnTheWay /\ PostedMatches /\ ArtworkMatches)'
  BY <1>1, <1>4 DEF Inv, Chosen, AtWork, OnTheWay, PostedMatches, ArtworkMatches
<1>7. Working'
  <2>1. ~WorksOn(r)
    BY DEF Move, WorksOn
  <2>2. QED
    BY <1>1, <1>2, <1>4, <2>1 DEF Inv, Working, WorksOn
<1>8. QED
  BY <1>5, <1>6, <1>7 DEF Inv

\* The other steps of a request leave the rows alone.
LEMMA ReadingInv ==
    ASSUME Inv, NEW r \in Requests,
           \/ LoadVariant(r) \/ Render(r) \/ PreviewOutdated(r)
           \/ RequestFails(r) \/ Queue(r) \/ NotQueued(r)
    PROVE  Inv'
<1>0. RowsOK /\ RequestsOK /\ Working /\ failed \in BOOLEAN
  BY DEF Inv, TypeOK
<1>1. CASE LoadVariant(r)
  <2>1. /\ RequestsOK'
        /\ \A q \in Requests \ {r} :
              pc'[q] = pc[q] /\ variant'[q] = variant[q] /\ seen'[q] = seen[q]
    BY <1>0, <1>1 DEF LoadVariant, Goto, RowsOK, RequestsOK
  <2>2. WorksOn(r)'
    BY <1>0, <1>1 DEF LoadVariant, Goto, RequestsOK, RowsOK, WorksOn, rowVars
  <2>3. QED
    BY <1>0, <1>1, <2>1, <2>2, RequestFrame, StillWorking
       DEF LoadVariant, ByRequest
<1>2. CASE Render(r)
  <2>1. /\ RequestsOK'
        /\ \A q \in Requests \ {r} :
              pc'[q] = pc[q] /\ variant'[q] = variant[q] /\ seen'[q] = seen[q]
        /\ WorksOn(r) => WorksOn(r)'
    BY <1>0, <1>2 DEF Render, Goto, RequestsOK, WorksOn, rowVars
  <2>2. QED
    BY <1>0, <1>2, <2>1, RequestFrame, StillWorking DEF Render, ByRequest
<1>3. CASE PreviewOutdated(r)
  <2>1. ~WorksOn(r)
    BY <1>3 DEF PreviewOutdated, WorksOn
  <2>2. /\ RequestsOK'
        /\ \A q \in Requests \ {r} :
              pc'[q] = pc[q] /\ variant'[q] = variant[q] /\ seen'[q] = seen[q]
    <3>1. CASE Return(r)
      BY <1>0, <3>1, ReturnType
    <3>2. CASE /\ tries' = [tries EXCEPT ![r] = 2]
               /\ Goto(r, "load")
               /\ UNCHANGED <<goal, variant, seen>>
      BY <1>0, <3>2 DEF RequestsOK, Goto
    <3>3. QED
      BY <1>3, <3>1, <3>2 DEF PreviewOutdated
  <2>3. UNCHANGED <<rowVars, failed>>
    BY <1>3 DEF PreviewOutdated
  <2>4. QED
    BY <1>0, <1>3, <2>1, <2>2, <2>3, RequestFrame, StillWorking
       DEF PreviewOutdated, ByRequest
<1>4. CASE RequestFails(r)
  <2>1. RequestsOK' /\ UNCHANGED rowVars /\ failed' = TRUE
    BY <1>0, <1>4, ReturnType DEF RequestFails, ReturnError
  <2>2. Working'
    BY <2>1 DEF Working
  <2>3. QED
    BY <1>4, <2>1, <2>2, RequestFrame DEF RequestFails, ByRequest
<1>5. CASE Queue(r)
  <2>1. /\ RequestsOK'
        /\ \A q \in Requests \ {r} :
              pc'[q] = pc[q] /\ variant'[q] = variant[q] /\ seen'[q] = seen[q]
    BY <1>0, <1>5 DEF Queue, Goto, RequestsOK, Goals
  <2>2. ~WorksOn(r)
    BY <1>5 DEF Queue, WorksOn
  <2>3. QED
    BY <1>0, <1>5, <2>1, <2>2, RequestFrame, StillWorking DEF Queue, ByRequest
<1>6. CASE NotQueued(r)
  <2>1. ~WorksOn(r)
    BY <1>6 DEF NotQueued, WorksOn
  <2>2. QED
    BY <1>0, <1>6, <2>1, ReturnType, RequestFrame, StillWorking
       DEF NotQueued, ByRequest
<1>7. QED
  BY <1>1, <1>2, <1>3, <1>4, <1>5, <1>6

-----------------------------------------------------------------------------
(* The schedule and the publisher.                                         *)

LEMMA LeaveScheduleInv ==
    ASSUME Inv, LeaveSchedule
    PROVE  Inv'
<1>1. /\ wpc = "idle" /\ posts = {} /\ status = "SCHEDULED"
      /\ status' \in {"READY_TO_PUBLISH", "APPROVED"}
      /\ UNCHANGED <<selected, caption, image, failed, requestVars, posts,
                     wpc, wvariant, wtext, wart>>
  BY Untouched DEF LeaveSchedule, ByRequest, publisherVars
<1>2. TypeOK'
  BY <1>1 DEF Inv, TypeOK, RowsOK, RequestsOK, PublisherOK, Reviewed, requestVars
<1>3. (Chosen /\ AtWork /\ OnTheWay /\ PostedMatches /\ ArtworkMatches)'
  BY <1>1 DEF Inv, Chosen, AtWork, OnTheWay, PostedMatches, ArtworkMatches
<1>4. Working'
  BY <1>1 DEF Inv, Working, WorksOn, requestVars
<1>5. QED
  BY <1>2, <1>3, <1>4 DEF Inv

\* The publisher does not look at requests: what it must not break is the
\* rest, and the preview only while the job may still be approved.
LEMMA PublisherFrame ==
    ASSUME Inv, ByPublisher, RowsOK', PublisherOK', AtWork', OnTheWay', ArtworkMatches',
           PostedMatches', Chosen',
           status' \in Past \cup {"APPROVED"} \/ UNCHANGED <<status, image>>
    PROVE  Inv'
<1>1. UNCHANGED <<selected, caption, requestVars, failed>>
  BY DEF ByPublisher
<1>2. TypeOK'
  BY <1>1 DEF Inv, TypeOK, RequestsOK, requestVars
<1>3. Working'
  BY <1>1 DEF Inv, Working, WorksOn, requestVars, Past
<1>4. QED
  BY <1>2, <1>3 DEF Inv

LEMMA PublisherInv ==
    ASSUME Inv, PublisherStep
    PROVE  Inv'
<1>0. /\ RowsOK /\ PublisherOK /\ Chosen /\ AtWork /\ OnTheWay
      /\ ArtworkMatches /\ PostedMatches
  BY DEF Inv, TypeOK
<1>a. ByPublisher /\ UNCHANGED <<selected, caption>>
  BY DEF PublisherStep, LoadJob, ClaimPublishing, ReadVariant, RenderFallback,
         PersistFallback, PublishImage, MarkJob, RecoverStale, ByPublisher
<1>1. CASE LoadJob
  <2>1. RowsOK' /\ PublisherOK'
    BY <1>0, <1>1, <1>a DEF LoadJob, RowsOK, PublisherOK
  <2>2. (AtWork /\ OnTheWay /\ ArtworkMatches /\ PostedMatches /\ Chosen)'
    BY <1>0, <1>1, <1>a DEF LoadJob, AtWork, OnTheWay, ArtworkMatches, PostedMatches, Chosen
  <2>3. QED
    BY <1>1, <1>a, <2>1, <2>2, PublisherFrame DEF LoadJob
<1>2. CASE ClaimPublishing
  <2>1. RowsOK' /\ PublisherOK'
    BY <1>0, <1>2, <1>a DEF ClaimPublishing, RowsOK, PublisherOK, Reviewed
  <2>2. (AtWork /\ OnTheWay /\ ArtworkMatches /\ PostedMatches /\ Chosen)'
    BY <1>0, <1>2, <1>a
       DEF ClaimPublishing, AtWork, OnTheWay, ArtworkMatches, PostedMatches, Chosen, Past
  <2>3. QED
    BY <1>2, <1>a, <2>1, <2>2, PublisherFrame DEF ClaimPublishing, Past
<1>3. CASE ReadVariant
  <2>1. wvariant \in Variants /\ image[wvariant] \in {caption[wvariant], NULL}
    BY <1>0, <1>3 DEF ReadVariant, PublisherOK, ArtworkMatches
  <2>2. RowsOK' /\ PublisherOK'
    BY <1>0, <1>3, <1>a, <2>1 DEF ReadVariant, RowsOK, PublisherOK
  <2>3. (AtWork /\ OnTheWay /\ ArtworkMatches /\ PostedMatches /\ Chosen)'
    BY <1>0, <1>3, <1>a, <2>1
       DEF ReadVariant, AtWork, OnTheWay, ArtworkMatches, PostedMatches, Chosen
  <2>4. QED
    BY <1>3, <1>a, <2>2, <2>3, PublisherFrame DEF ReadVariant
<1>4. CASE RenderFallback
  <2>1. RowsOK' /\ PublisherOK'
    BY <1>0, <1>4, <1>a DEF RenderFallback, RowsOK, PublisherOK
  <2>2. (AtWork /\ OnTheWay /\ ArtworkMatches /\ PostedMatches /\ Chosen)'
    BY <1>0, <1>4, <1>a
       DEF RenderFallback, AtWork, OnTheWay, ArtworkMatches, PostedMatches, Chosen
  <2>3. QED
    BY <1>4, <1>a, <2>1, <2>2, PublisherFrame DEF RenderFallback
<1>5. CASE PersistFallback
  <2>1. wvariant \in Variants /\ wart \in Captions /\ wart = caption[wvariant]
    BY <1>0, <1>5 DEF PersistFallback, PublisherOK, AtWork
  <2>2. RowsOK' /\ PublisherOK'
    BY <1>0, <1>5, <1>a, <2>1 DEF PersistFallback, RowsOK, PublisherOK
  <2>3. ArtworkMatches'
    BY <1>0, <1>5, <1>a, <2>1 DEF PersistFallback, RowsOK, ArtworkMatches
  <2>4. (AtWork /\ OnTheWay /\ PostedMatches /\ Chosen)'
    BY <1>0, <1>5, <1>a DEF PersistFallback, AtWork, OnTheWay, PostedMatches, Chosen
  <2>5. status' \in Past
    BY <1>0, <1>5 DEF PersistFallback, AtWork
  <2>6. QED
    BY <1>a, <2>2, <2>3, <2>4, <2>5, PublisherFrame
<1>6. CASE PublishImage
  <2>1. /\ wtext \in Captions /\ wart = wtext /\ wvariant = selected
        /\ wvariant \in Variants /\ wtext = caption[selected] /\ status \in Past
    BY <1>0, <1>6 DEF PublishImage, PublisherOK, AtWork
  <2>2. RowsOK' /\ PublisherOK'
    BY <1>0, <1>6, <1>a, <2>1 DEF PublishImage, RowsOK, PublisherOK
  <2>3. PostedMatches'
    BY <1>0, <1>6, <1>a, <2>1 DEF PublishImage, PostedMatches
  <2>4. (AtWork /\ OnTheWay /\ ArtworkMatches /\ Chosen)'
    BY <1>0, <1>6, <1>a, <2>1 DEF PublishImage, AtWork, OnTheWay, ArtworkMatches, Chosen
  <2>5. QED
    BY <1>6, <1>a, <2>2, <2>3, <2>4, PublisherFrame DEF PublishImage
<1>7. CASE MarkJob
  <2>1. status \in Past /\ status' \in Past
    BY <1>0, <1>7, Ends DEF MarkJob, AtWork
  <2>2. RowsOK' /\ PublisherOK'
    BY <1>0, <1>7, <1>a, <2>1 DEF MarkJob, RowsOK, PublisherOK, Past, Reviewed
  <2>3. (AtWork /\ OnTheWay /\ ArtworkMatches /\ PostedMatches /\ Chosen)'
    BY <1>0, <1>7, <1>a, <2>1
       DEF MarkJob, AtWork, OnTheWay, ArtworkMatches, PostedMatches, Chosen, Past
  <2>4. QED
    BY <1>a, <2>1, <2>2, <2>3, PublisherFrame
<1>8. CASE RecoverStale
  <2>1. status \in Past /\ status' \in Past /\ UNCHANGED <<image, posts, publisherVars>>
    BY <1>8 DEF RecoverStale, Past
  <2>2. RowsOK' /\ PublisherOK'
    BY <1>0, <1>a, <2>1 DEF RowsOK, PublisherOK, publisherVars, Past, Reviewed
  <2>3. (AtWork /\ OnTheWay /\ ArtworkMatches /\ PostedMatches /\ Chosen)'
    BY <1>0, <1>a, <2>1
       DEF AtWork, OnTheWay, ArtworkMatches, PostedMatches, Chosen, publisherVars, Past
  <2>4. QED
    BY <1>a, <2>1, <2>2, <2>3, PublisherFrame
<1>9. QED
  BY <1>1, <1>2, <1>3, <1>4, <1>5, <1>6, <1>7, <1>8 DEF PublisherStep

-----------------------------------------------------------------------------
(* The theorems.                                                           *)

LEMMA InitInv == Init => Inv
<1> SUFFICES ASSUME Init PROVE Inv
  OBVIOUS
<1>1. TypeOK
  <2>1. RowsOK
    BY DEF Init, RowsOK, Reviewed
  <2>2. RequestsOK
    BY DEF Init, RequestsOK, Goals
  <2>3. PublisherOK /\ failed \in BOOLEAN
    BY DEF Init, PublisherOK
  <2>4. QED
    BY <2>1, <2>2, <2>3 DEF TypeOK
<1>2. Chosen /\ AtWork /\ OnTheWay /\ ArtworkMatches /\ PostedMatches /\ Working
  BY DEF Init, Chosen, AtWork, OnTheWay, ArtworkMatches, PostedMatches, Working
<1>3. QED
  BY <1>1, <1>2 DEF Inv

LEMMA NextInv == Inv /\ [Next]_vars => Inv'
<1> SUFFICES ASSUME Inv, [Next]_vars PROVE Inv'
  OBVIOUS
<1>1. ASSUME NEW r \in Requests, RequestStep(r)
      PROVE  Inv'
  BY <1>1, EditCaptionInv, SelectVariantInv, SavePreviewInv, MoveInv, ReadingInv
     DEF RequestStep
<1>2. CASE UNCHANGED vars
  BY <1>2 DEF Inv, TypeOK, RowsOK, RequestsOK, PublisherOK, Chosen, AtWork, OnTheWay,
              ArtworkMatches, PostedMatches, Working, WorksOn, vars, rowVars,
              requestVars, publisherVars
<1>3. QED
  BY <1>1, <1>2, LeaveScheduleInv, PublisherInv DEF Next

LEMMA InvHolds == Spec => []Inv
BY InitInv, NextInv, PTL DEF Spec

\* Every variable keeps its type, and every local is set where it is used.
THEOREM PreviewTypeOK == Spec => []TypeOK
<1>1. Inv => TypeOK
  BY DEF Inv
<1>2. QED
  BY <1>1, InvHolds, PTL

\* The artwork of a variant was rendered of the caption it has now, for any
\* number of slow renderings and edits (SetVariantImageURLForCaption,
\* UpdateVariantCaption, and the unconditional SetVariantImageURL).
THEOREM PreviewArtworkMatches == Spec => []ArtworkMatches
<1>1. Inv => ArtworkMatches
  BY DEF Inv
<1>2. QED
  BY <1>1, InvHolds, PTL

\* What is posted is of one piece and the last accepted edit of the selected
\* variant (PublishJob reads the variant after its claim).
THEOREM PreviewPostedMatches == Spec => []PostedMatches
<1>1. Inv => PostedMatches
  BY DEF Inv
<1>2. QED
  BY <1>1, InvHolds, PTL

\* A job ready to publish without a preview has a request at work on it, or
\* an operator was told (PreparePreview's retry, UpdateVariantCaption's report
\* that the variant is selected).
THEOREM PreviewIsPending == Spec => []PreviewPending
<1>1. Inv => PreviewPending
  BY DEF Inv, Working, WorksOn, PreviewPending
<1>2. QED
  BY <1>1, InvHolds, PTL

-----------------------------------------------------------------------------
(* The promise: the review behaves like AtomicPost.  Requests only read,   *)
(* but for an edit, a choice, a saved preview and an accepted move.        *)

Same == UNCHANGED <<caption, image, selected, stageOf, posts>>

\* A step of the review, as AtomicPost sees it.
Seen == Same \/ Atomic!Next

LEMMA SameStage ==
    ASSUME UNCHANGED status
    PROVE  UNCHANGED stageOf
BY DEF stageOf

LEMMA ReviewStage ==
    ASSUME status \in {"WAITING_VARIANT_APPROVAL", "READY_TO_PUBLISH"}
    PROVE  stageOf = "review"
BY DEF stageOf

LEMMA SentStage ==
    ASSUME status \in Past \cup {"APPROVED"}
    PROVE  stageOf = "sent"
BY DEF stageOf, Past

LEMMA EditSeen ==
    ASSUME NEW r \in Requests, EditCaption(r)
    PROVE  Atomic!Edit
<1>1. UNCHANGED <<selected, stageOf, posts>>
  BY SameStage DEF EditCaption, ByRequest
<1>2. \E v \in Variants, c \in Captions :
         caption' = [caption EXCEPT ![v] = c] /\ image' = [image EXCEPT ![v] = NULL]
  BY DEF EditCaption
<1>3. stageOf = "review"
  BY ReviewStage DEF EditCaption
<1>4. QED
  BY <1>1, <1>2, <1>3 DEF Atomic!Edit

LEMMA SelectSeen ==
    ASSUME Inv, NEW r \in Requests, SelectVariant(r)
    PROVE  Atomic!Choose
<1>1. status \in {"WAITING_VARIANT_APPROVAL", "READY_TO_PUBLISH", "SCHEDULED"}
  BY Moves DEF SelectVariant, Inv, TypeOK, RowsOK
<1>2. stageOf \in {"review", "waiting"}
  BY <1>1 DEF stageOf
<1>3. stageOf' = "review"
  BY DEF SelectVariant, stageOf
<1>4. UNCHANGED <<caption, image, posts>> /\ \E v \in Variants : selected' = v
  BY DEF SelectVariant, ByRequest
<1>5. QED
  BY <1>2, <1>3, <1>4 DEF Atomic!Choose

\* The compare-and-set makes a late rendering a drawing of the text that
\* stands.
LEMMA SaveSeen ==
    ASSUME Inv, NEW r \in Requests, SavePreview(r)
    PROVE  Atomic!Draw
<1>1. variant[r] \in Variants /\ image' = [image EXCEPT ![variant[r]] = caption[variant[r]]]
  BY DEF SavePreview, Inv, TypeOK, RequestsOK
<1>2. UNCHANGED <<caption, selected, stageOf, posts>>
  BY SameStage DEF SavePreview, ByRequest
<1>3. QED
  BY <1>1, <1>2 DEF Atomic!Draw

\* A move that is refused is none; one that is accepted approves or schedules
\* a selection.
LEMMA MoveSeen ==
    ASSUME Inv, NEW r \in Requests, Move(r)
    PROVE  Seen
<1>1. /\ UNCHANGED <<caption, image, selected, posts>>
      /\ status' = IF CanTransition(status, goal[r]) THEN goal[r] ELSE status
  BY DEF Move, ByRequest
<1>2. status \in Reviewed /\ goal[r] \in Goals
  BY DEF Inv, TypeOK, RowsOK, RequestsOK
<1>3. CASE ~CanTransition(status, goal[r])
  BY <1>1, <1>3, SameStage DEF Seen, Same
<1>4. CASE CanTransition(status, goal[r])
  <2>1. goal[r] # "READY_TO_PUBLISH"
    BY <1>2 DEF Goals
  <2>2. /\ status \in {"READY_TO_PUBLISH", "SCHEDULED"}
        /\ status' \in {"APPROVED", "SCHEDULED"}
    BY <1>1, <1>2, <1>4, <2>1, Moves
  <2>3. selected # NULL
    BY <2>2 DEF Inv, Chosen
  <2>4. CASE status' = "APPROVED"
    <3>1. stageOf \in {"review", "waiting"} /\ stageOf' = "sent"
      BY <2>2, <2>4 DEF stageOf
    <3>2. Atomic!Send
      BY <1>1, <2>3, <3>1 DEF Atomic!Send
    <3>3. QED
      BY <3>2 DEF Seen, Atomic!Next
  <2>5. CASE status' = "SCHEDULED"
    <3>1. stageOf' = "waiting"
      BY <2>5 DEF stageOf
    <3>2. CASE status = "READY_TO_PUBLISH"
      <4>1. Atomic!Schedule
        BY <1>1, <2>3, <3>1, <3>2, ReviewStage DEF Atomic!Schedule
      <4>2. QED
        BY <4>1 DEF Seen, Atomic!Next
    <3>3. CASE status = "SCHEDULED"
      BY <1>1, <2>5, <3>3, SameStage DEF Seen, Same
    <3>4. QED
      BY <2>2, <3>2, <3>3
  <2>6. QED
    BY <2>2, <2>4, <2>5
<1>5. QED
  BY <1>3, <1>4

LEMMA RequestSeen ==
    ASSUME Inv, NEW r \in Requests, RequestStep(r)
    PROVE  Seen
<1>1. CASE \/ LoadVariant(r) \/ Render(r) \/ PreviewOutdated(r)
           \/ RequestFails(r) \/ Queue(r) \/ NotQueued(r)
  <2>1. UNCHANGED <<rowVars, posts>>
    BY <1>1 DEF LoadVariant, Render, PreviewOutdated, RequestFails, ReturnError, Queue,
                NotQueued, ByRequest
  <2>2. QED
    BY <2>1, SameStage DEF Seen, Same, rowVars
<1>2. QED
  BY <1>1, EditSeen, SelectSeen, SaveSeen, MoveSeen DEF RequestStep, Seen, Atomic!Next

\* Cancelling takes the post back to review; its time sends it off.
LEMMA LeaveSeen ==
    ASSUME Inv, LeaveSchedule
    PROVE  Seen
<1>1. UNCHANGED <<caption, image, selected, posts>> /\ stageOf = "waiting"
  BY DEF LeaveSchedule, ByRequest, stageOf
<1>2. selected # NULL
  BY DEF LeaveSchedule, Inv, Chosen
<1>3. CASE status' = "READY_TO_PUBLISH"
  <2>1. stageOf' = "review"
    BY <1>3 DEF stageOf
  <2>2. QED
    BY <1>1, <2>1 DEF Atomic!Cancel, Atomic!Next, Seen
<1>4. CASE status' = "APPROVED"
  <2>1. stageOf' = "sent"
    BY <1>4 DEF stageOf
  <2>2. QED
    BY <1>1, <1>2, <2>1 DEF Atomic!Send, Atomic!Next, Seen
<1>5. QED
  BY <1>3, <1>4 DEF LeaveSchedule

\* The publisher stores artwork of the text that stands, and shows that text.
LEMMA PublisherSeen ==
    ASSUME Inv, PublisherStep
    PROVE  Seen
<1>0. AtWork /\ PublisherOK /\ PostedMatches /\ UNCHANGED <<caption, selected>>
  BY DEF Inv, TypeOK, PublisherStep, LoadJob, ClaimPublishing, ReadVariant, RenderFallback,
         PersistFallback, PublishImage, MarkJob, RecoverStale, ByPublisher
<1>1. CASE LoadJob \/ ReadVariant \/ RenderFallback
  <2>1. UNCHANGED <<status, image, posts>>
    BY <1>1 DEF LoadJob, ReadVariant, RenderFallback
  <2>2. QED
    BY <1>0, <2>1, SameStage DEF Seen, Same
<1>2. CASE ClaimPublishing \/ MarkJob \/ RecoverStale
  <2>1. /\ UNCHANGED <<image, posts>>
        /\ status \in Past \cup {"APPROVED"} /\ status' \in Past \cup {"APPROVED"}
    <3>1. CASE ClaimPublishing
      BY <3>1 DEF ClaimPublishing, Past
    <3>2. CASE MarkJob
      BY <1>0, <3>2, Ends DEF MarkJob, AtWork
    <3>3. CASE RecoverStale
      BY <3>3 DEF RecoverStale, Past
    <3>4. QED
      BY <1>2, <3>1, <3>2, <3>3
  <2>2. stageOf = "sent"
    BY <2>1, SentStage
  <2>3. stageOf' = "sent"
    BY <2>1 DEF stageOf, Past
  <2>4. QED
    BY <1>0, <2>1, <2>2, <2>3 DEF Seen, Same
<1>3. CASE PersistFallback
  <2>1. wvariant \in Variants /\ wart = caption[wvariant]
    BY <1>0, <1>3 DEF PersistFallback, PublisherOK, AtWork
  <2>2. UNCHANGED <<stageOf, posts>>
    BY <1>3, SameStage DEF PersistFallback
  <2>3. CASE UNCHANGED image
    BY <1>0, <2>2, <2>3 DEF Seen, Same
  <2>4. CASE image' = [image EXCEPT ![wvariant] = wart]
    BY <1>0, <2>1, <2>2, <2>4 DEF Atomic!Draw, Atomic!Next, Seen
  <2>5. QED
    BY <1>3, <2>3, <2>4 DEF PersistFallback
<1>4. CASE PublishImage /\ posts' = posts
  <2>1. UNCHANGED <<status, image, posts>>
    BY <1>4 DEF PublishImage
  <2>2. QED
    BY <1>0, <2>1, SameStage DEF Seen, Same
<1>5. CASE PublishImage /\ posts' # posts
  <2>1. wtext = caption[selected] /\ wart = caption[selected] /\ stageOf = "sent"
    BY <1>0, <1>5, SentStage DEF PublishImage, AtWork
  <2>2. posts' = {[text |-> caption[selected], art |-> caption[selected]]}
    <3>1. posts \subseteq {[text |-> caption[selected], art |-> caption[selected]]}
      <4>1. \A p \in posts : p \in [text : Captions, art : Captions]
        BY DEF Inv, TypeOK, RowsOK
      <4>2. QED
        BY <1>0, <4>1 DEF PostedMatches
    <3>2. QED
      BY <1>5, <2>1, <3>1 DEF PublishImage
  <2>3. UNCHANGED <<image, stageOf>>
    BY <1>5, SameStage DEF PublishImage
  <2>4. QED
    BY <1>0, <2>1, <2>2, <2>3 DEF Atomic!Show, Atomic!Next, Seen
<1>6. QED
  BY <1>1, <1>2, <1>3, <1>4, <1>5 DEF PublisherStep

\* The review implements AtomicPost, for any number of variants, captions and
\* requests (UpdateVariantCaption, PreparePreview, QueuePublish, PublishJob).
THEOREM PreviewImplements == Spec => ImplementsAtomicPost
<1>1. Init => Atomic!Init
  <2>1. Init => stageOf = "review"
    BY DEF Init, stageOf
  <2>2. QED
    BY <2>1 DEF Init, Atomic!Init
<1>2. Inv /\ [Next]_vars => [Atomic!Next]_(Atomic!vars)
  <2>1. SUFFICES ASSUME Inv, [Next]_vars PROVE Seen
    BY DEF Seen, Same, Atomic!vars
  <2>2. CASE UNCHANGED vars
    BY <2>2, SameStage DEF vars, rowVars, Seen, Same
  <2>3. QED
    BY <2>1, <2>2, RequestSeen, LeaveSeen, PublisherSeen DEF Next
<1>3. QED
  BY <1>1, <1>2, InvHolds, PTL DEF Spec, ImplementsAtomicPost, Atomic!Spec
=============================================================================
