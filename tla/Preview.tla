------------------------------ MODULE Preview ------------------------------
(***************************************************************************)
(* The caption an operator edits, the artwork rendered of it, and the two  *)
(* together on Instagram.                                                  *)
(*                                                                         *)
(* One job under review.  Requests of operators edit captions, select a    *)
(* variant, queue or schedule the post; each prepares the preview it finds *)
(* missing: read the selected variant, render and store the artwork, save  *)
(* its URL if the caption still stands.  The publisher posts what it reads *)
(* after its claim and renders the artwork itself when there is none.      *)
(* Artwork stands for the caption it was rendered of: nothing else it      *)
(* shows can be edited.  Each step is one transaction or one rendering.    *)
(* A job sent back to the generator or skipped leaves the module: its      *)
(* variants get new ids, or are never looked at again.                     *)
(***************************************************************************)
EXTENDS JobStatus, Naturals

CONSTANTS
    Variants,       \* rows of post_variants of the job
    Captions,       \* texts a caption may have
    Requests,       \* requests in flight from operators
    NULL            \* SQL NULL, an empty image_url, an unset local

ASSUME PreviewAssumption == NULL \notin Variants \cup Captions

VARIABLES
    status, selected,               \* post_jobs
    caption, image,                 \* post_variants: the text, what the artwork shows
    posts,                          \* external: what Instagram shows
    pc, goal, variant, seen, tries, \* locals of a request
    wpc, wvariant, wtext, wart,     \* locals of the publisher
    failed                          \* did a request end with an error?

rowVars       == <<status, selected, caption, image>>
requestVars   == <<pc, goal, variant, seen, tries>>
publisherVars == <<wpc, wvariant, wtext, wart>>
vars == <<rowVars, posts, requestVars, publisherVars, failed>>

Reviewed == {"WAITING_VARIANT_APPROVAL", "READY_TO_PUBLISH", "SCHEDULED",
             "APPROVED", "PUBLISHING", "PUBLISHED", "FAILED"}
Goals    == {"preview", "queue", "APPROVED", "SCHEDULED"}

RowsOK ==
    /\ status \in Reviewed
    /\ selected \in Variants \cup {NULL}
    /\ caption \in [Variants -> Captions]
    /\ image \in [Variants -> Captions \cup {NULL}]
    /\ posts \in SUBSET [text : Captions, art : Captions]

RequestsOK ==
    /\ pc \in [Requests -> {"idle", "queue", "load", "render", "save", "move"}]
    /\ goal \in [Requests -> Goals]
    /\ variant \in [Requests -> Variants \cup {NULL}]
    /\ seen \in [Requests -> Captions \cup {NULL}]
    /\ tries \in [Requests -> 1 .. 2]
    /\ \A r \in Requests : pc[r] \in {"render", "save"} =>
          variant[r] \in Variants /\ seen[r] \in Captions

PublisherOK ==
    /\ wpc \in {"idle", "claim", "read", "render", "persist", "publish", "mark"}
    /\ wvariant \in Variants \cup {NULL}
    /\ wtext \in Captions \cup {NULL}
    /\ wart \in Captions \cup {NULL}
    /\ wpc # "idle" => wvariant \in Variants
    /\ wpc \in {"render", "persist", "publish"} => wtext \in Captions
    /\ wpc \in {"persist", "publish"} => wart \in Captions

TypeOK == RowsOK /\ RequestsOK /\ PublisherOK /\ failed \in BOOLEAN

\* The variants were just generated: nothing is rendered yet.
Init ==
    /\ status = "WAITING_VARIANT_APPROVAL"
    /\ selected = NULL
    /\ caption \in [Variants -> Captions]
    /\ image = [v \in Variants |-> NULL]
    /\ posts = {}
    /\ pc = [r \in Requests |-> "idle"]
    /\ goal = [r \in Requests |-> "preview"]
    /\ variant = [r \in Requests |-> NULL]
    /\ seen = [r \in Requests |-> NULL]
    /\ tries = [r \in Requests |-> 1]
    /\ wpc = "idle"
    /\ wvariant = NULL
    /\ wtext = NULL
    /\ wart = NULL
    /\ failed = FALSE

-----------------------------------------------------------------------------
(* A request: where it goes next.                                          *)

Goto(r, label) == pc' = [pc EXCEPT ![r] = label]

\* PreparePreview, on behalf of the goal g.
Prepare(r, g) ==
    /\ Goto(r, "load")
    /\ goal' = [goal EXCEPT ![r] = g]
    /\ tries' = [tries EXCEPT ![r] = 1]
    /\ UNCHANGED <<variant, seen>>

Return(r) ==
    /\ Goto(r, "idle")
    /\ goal' = [goal EXCEPT ![r] = "preview"]
    /\ variant' = [variant EXCEPT ![r] = NULL]
    /\ seen' = [seen EXCEPT ![r] = NULL]
    /\ tries' = [tries EXCEPT ![r] = 1]

\* The operator gets an error.
ReturnError(r) ==
    /\ Return(r)
    /\ failed' = TRUE
    /\ UNCHANGED rowVars

ByRequest == UNCHANGED <<posts, publisherVars>>

-----------------------------------------------------------------------------
(* Editing and selecting.                                                  *)

\* A defect: the artwork of the old caption is left in place.
EditCaptionKeepsArt(r) ==
    /\ pc[r] = "idle"
    /\ status \in {"WAITING_VARIANT_APPROVAL", "READY_TO_PUBLISH"}
    /\ \E v \in Variants, c \in Captions :
          /\ caption' = [caption EXCEPT ![v] = c]
          /\ IF v = selected THEN Prepare(r, "preview") ELSE UNCHANGED requestVars
    /\ UNCHANGED <<status, selected, image, failed>>
    /\ ByRequest

\* A defect: whether the variant is selected is not reported.
EditCaptionQuiet(r) ==
    /\ pc[r] = "idle"
    /\ status \in {"WAITING_VARIANT_APPROVAL", "READY_TO_PUBLISH"}
    /\ \E v \in Variants, c \in Captions :
          /\ caption' = [caption EXCEPT ![v] = c]
          /\ image' = [image EXCEPT ![v] = NULL]
    /\ UNCHANGED <<status, selected, requestVars, failed>>
    /\ ByRequest

\* A defect: a caption may be edited when the post is on its way.
EditCaptionLate(r) ==
    /\ pc[r] = "idle"
    /\ \E v \in Variants, c \in Captions :
          /\ caption' = [caption EXCEPT ![v] = c]
          /\ image' = [image EXCEPT ![v] = NULL]
          /\ IF v = selected THEN Prepare(r, "preview") ELSE UNCHANGED requestVars
    /\ UNCHANGED <<status, selected, failed>>
    /\ ByRequest

\* UpdateVariantCaption clears the artwork with the caption, in one
\* transaction; the selected variant gets a new preview.
EditCaption(r) ==
    /\ pc[r] = "idle"
    /\ status \in {"WAITING_VARIANT_APPROVAL", "READY_TO_PUBLISH"}
    /\ \E v \in Variants, c \in Captions :
          /\ caption' = [caption EXCEPT ![v] = c]
          /\ image' = [image EXCEPT ![v] = NULL]
          /\ IF v = selected THEN Prepare(r, "preview") ELSE UNCHANGED requestVars
    /\ UNCHANGED <<status, selected, failed>>
    /\ ByRequest

\* SelectVariantForReview, for the console; SelectVariantForJob goes on to
\* QueuePublish.  A reviewed job may be reselected as it is.
SelectVariant(r) ==
    /\ pc[r] = "idle"
    /\ status = "READY_TO_PUBLISH" \/ CanTransition(status, "READY_TO_PUBLISH")
    /\ status' = "READY_TO_PUBLISH"
    /\ \E v \in Variants : selected' = v
    /\ \E g \in {"preview", "queue"} : Prepare(r, g)
    /\ UNCHANGED <<caption, image, failed>>
    /\ ByRequest

-----------------------------------------------------------------------------
(* PreparePreview.                                                         *)

\* The selection and the caption it has now.
LoadVariant(r) ==
    /\ pc[r] = "load"
    /\ selected # NULL
    /\ variant' = [variant EXCEPT ![r] = selected]
    /\ seen' = [seen EXCEPT ![r] = caption[selected]]
    /\ Goto(r, "render")
    /\ UNCHANGED <<rowVars, goal, tries, failed>>
    /\ ByRequest

\* RenderPostImage and Upload.
Render(r) ==
    /\ pc[r] = "render"
    /\ Goto(r, "save")
    /\ UNCHANGED <<rowVars, goal, variant, seen, tries, failed>>
    /\ ByRequest

\* What a request does with its preview in place.
Proceed(r) ==
    \/ goal[r] = "preview" /\ Return(r)
    \/ /\ goal[r] # "preview"
       /\ Goto(r, IF goal[r] = "queue" THEN "queue" ELSE "move")
       /\ UNCHANGED <<goal, variant, seen, tries>>

\* A defect: the artwork is saved whatever the caption is by now.
SavePreviewBlind(r) ==
    /\ pc[r] = "save"
    /\ image' = [image EXCEPT ![variant[r]] = seen[r]]
    /\ Proceed(r)
    /\ UNCHANGED <<status, selected, caption, failed>>
    /\ ByRequest

\* SetVariantImageURLForCaption: a compare and set on the caption.
SavePreview(r) ==
    /\ pc[r] = "save"
    /\ caption[variant[r]] = seen[r]
    /\ image' = [image EXCEPT ![variant[r]] = seen[r]]
    /\ Proceed(r)
    /\ UNCHANGED <<status, selected, caption, failed>>
    /\ ByRequest

\* A defect: nobody counts the attempts.
PreviewOutdatedAgain(r) ==
    /\ pc[r] = "save"
    /\ caption[variant[r]] # seen[r]
    /\ tries' = [tries EXCEPT ![r] = @ + 1]
    /\ Goto(r, "load")
    /\ UNCHANGED <<rowVars, goal, variant, seen, failed>>
    /\ ByRequest

\* The caption changed meanwhile: once more, then the operator is told.
PreviewOutdated(r) ==
    /\ pc[r] = "save"
    /\ caption[variant[r]] # seen[r]
    /\ \/ /\ tries[r] = 1
          /\ tries' = [tries EXCEPT ![r] = 2]
          /\ Goto(r, "load")
          /\ UNCHANGED <<rowVars, goal, variant, seen, failed>>
       \/ tries[r] = 2 /\ Return(r) /\ UNCHANGED <<rowVars, failed>>
    /\ ByRequest

\* Rendering or storing fails, a database call fails, the process dies.
RequestFails(r) ==
    /\ pc[r] # "idle"
    /\ ReturnError(r)
    /\ ByRequest

-----------------------------------------------------------------------------
(* QueuePublish and SchedulePublish.                                       *)

\* The job and its selected variant are read; a missing preview is prepared.
Queue(r) ==
    /\ status = "READY_TO_PUBLISH"
    /\ selected # NULL
    /\ pc[r] \in {"idle", "queue"}
    /\ \E g \in IF pc[r] = "queue" THEN {"APPROVED"} ELSE {"APPROVED", "SCHEDULED"} :
          goal' = [goal EXCEPT ![r] = g]
    /\ Goto(r, IF image[selected] = NULL THEN "load" ELSE "move")
    /\ tries' = [tries EXCEPT ![r] = 1]
    /\ UNCHANGED <<rowVars, variant, seen, failed>>
    /\ ByRequest

\* SelectVariantForJob finds the job past review, or gone.
NotQueued(r) ==
    /\ pc[r] = "queue"
    /\ status # "READY_TO_PUBLISH"
    /\ Return(r)
    /\ UNCHANGED <<rowVars, failed>>
    /\ ByRequest

\* A transition of the job to the goal; it approves whatever is selected.
Move(r) ==
    /\ pc[r] = "move"
    /\ status' = IF CanTransition(status, goal[r]) THEN goal[r] ELSE status
    /\ Return(r)
    /\ UNCHANGED <<selected, caption, image, failed>>
    /\ ByRequest

\* CancelSchedule, and ClaimScheduledDue when the time has come.
LeaveSchedule ==
    /\ status = "SCHEDULED"
    /\ status' \in {"READY_TO_PUBLISH", "APPROVED"}
    /\ UNCHANGED <<selected, caption, image, failed, requestVars>>
    /\ ByRequest

-----------------------------------------------------------------------------
(* PublishJob.                                                             *)

ByPublisher == UNCHANGED <<selected, caption, requestVars, failed>>

LoadJob ==
    /\ wpc = "idle"
    /\ status = "APPROVED"
    /\ selected # NULL
    /\ wvariant' = selected
    /\ wpc' = "claim"
    /\ UNCHANGED <<status, image, posts, wtext, wart>>
    /\ ByPublisher

ClaimPublishing ==
    /\ wpc = "claim"
    /\ status = "APPROVED"
    /\ status' = "PUBLISHING"
    /\ wpc' = "read"
    /\ UNCHANGED <<image, posts, wvariant, wtext, wart>>
    /\ ByPublisher

\* The variant is read after the claim.
ReadVariant ==
    /\ wpc = "read"
    /\ wtext' = caption[wvariant]
    /\ wart' = image[wvariant]
    /\ wpc' = IF image[wvariant] = NULL THEN "render" ELSE "publish"
    /\ UNCHANGED <<status, image, posts, wvariant>>
    /\ ByPublisher

RenderFallback ==
    /\ wpc = "render"
    /\ wart' = wtext
    /\ wpc' = "persist"
    /\ UNCHANGED <<status, image, posts, wvariant, wtext>>
    /\ ByPublisher

\* SetVariantImageURL does not look at the caption, and its error is ignored.
PersistFallback ==
    /\ wpc = "persist"
    /\ image' = [image EXCEPT ![wvariant] = wart] \/ UNCHANGED image
    /\ wpc' = "publish"
    /\ UNCHANGED <<status, posts, wvariant, wtext, wart>>
    /\ ByPublisher

\* A dry run succeeds and shows nothing.
PublishImage ==
    /\ wpc = "publish"
    /\ posts' \in {posts, posts \cup {[text |-> wtext, art |-> wart]}}
    /\ wpc' = "mark"
    /\ UNCHANGED <<status, image, wvariant, wtext, wart>>
    /\ ByPublisher

\* MarkPublished, or an error on the way; a refused transition is logged.
MarkJob ==
    /\ wpc \notin {"idle", "claim"}
    /\ \E to \in {"PUBLISHED", "FAILED"} :
          /\ to = "PUBLISHED" => wpc = "mark"
          /\ status' = IF CanTransition(status, to) THEN to ELSE status
    /\ wpc' = "idle"
    /\ wvariant' = NULL
    /\ wtext' = NULL
    /\ wart' = NULL
    /\ UNCHANGED <<image, posts>>
    /\ ByPublisher

\* RecoverStaleJobs takes the publisher for dead; it may still be at work.
\* A logged success, a dry run's too, makes the job PUBLISHED.
RecoverStale ==
    /\ status = "PUBLISHING"
    /\ \E to \in {"PUBLISHED", "FAILED"} :
          /\ to = "PUBLISHED" => wpc = "mark"
          /\ status' = to
    /\ UNCHANGED <<image, posts, publisherVars>>
    /\ ByPublisher

PublisherStep ==
    \/ LoadJob \/ ClaimPublishing \/ ReadVariant \/ RenderFallback
    \/ PersistFallback \/ PublishImage \/ MarkJob \/ RecoverStale

RequestStep(r) ==
    \/ EditCaption(r) \/ SelectVariant(r) \/ LoadVariant(r) \/ Render(r)
    \/ SavePreview(r) \/ PreviewOutdated(r) \/ RequestFails(r)
    \/ Queue(r) \/ NotQueued(r) \/ Move(r)

Next ==
    \/ \E r \in Requests : RequestStep(r)
    \/ LeaveSchedule
    \/ PublisherStep

Spec == Init /\ [][Next]_vars

-----------------------------------------------------------------------------
(* Properties.                                                             *)

\* The artwork shown for a caption was rendered of that caption, however slow
\* the rendering was and however often the caption was edited meanwhile.
ArtworkMatches == \A v \in Variants : image[v] \in {caption[v], NULL}

\* What is posted is of one piece and is the last accepted edit of the
\* selected variant: nothing changes a caption once the post is on its way.
PostedMatches ==
    \A p \in posts : p.art = p.text /\ selected # NULL /\ p.text = caption[selected]

\* How the review implements AtomicPost.
stageOf ==
    CASE status \in {"WAITING_VARIANT_APPROVAL", "READY_TO_PUBLISH"} -> "review"
      [] status = "SCHEDULED" -> "waiting"
      [] status \in {"APPROVED", "PUBLISHING", "PUBLISHED", "FAILED"} -> "sent"

Atomic == INSTANCE AtomicPost WITH
    text <- caption,
    art <- image,
    chosen <- selected,
    stage <- stageOf,
    shown <- posts

\* Slow renderings, overlapping requests and a publisher taken for dead do not
\* show: the review behaves as if each preview were drawn, and the post shown,
\* in one step.
ImplementsAtomicPost == Atomic!Spec

\* A job ready to publish without a preview has a request at work on it, or
\* an operator was told of an error: no interleaving of edits, selections and
\* renderings loses the preview silently.
PreviewPending ==
    /\ status = "READY_TO_PUBLISH"
    /\ image[selected] = NULL
    /\ ~failed
    => \E r \in Requests : pc[r] \in {"load", "render", "save"}
=============================================================================
