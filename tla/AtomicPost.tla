----------------------------- MODULE AtomicPost -----------------------------
(***************************************************************************)
(* What the review promises about one post, as if rendering took no time   *)
(* and the publisher read everything at once: captions are edited and a    *)
(* variant is chosen until the post is sent off, artwork is always drawn   *)
(* of the caption beside it, and Instagram shows the chosen caption with   *)
(* the artwork of that very caption.                                       *)
(***************************************************************************)
CONSTANTS Variants, Captions, NULL

VARIABLES
    text,       \* the caption of each variant
    art,        \* the caption its artwork shows, or NULL
    chosen,     \* the variant to be shown, or NULL
    stage,      \* is the post in review, waiting for its time, or on its way?
    shown       \* what Instagram shows

vars == <<text, art, chosen, stage, shown>>

TypeOK ==
    /\ text \in [Variants -> Captions]
    /\ art \in [Variants -> Captions \cup {NULL}]
    /\ chosen \in Variants \cup {NULL}
    /\ stage \in {"review", "waiting", "sent"}
    /\ shown \in SUBSET [text : Captions, art : Captions]

Init ==
    /\ text \in [Variants -> Captions]
    /\ art = [v \in Variants |-> NULL]
    /\ chosen = NULL
    /\ stage = "review"
    /\ shown = {}

Edit ==
    /\ stage = "review"
    /\ \E v \in Variants, c \in Captions :
          /\ text' = [text EXCEPT ![v] = c]
          /\ art' = [art EXCEPT ![v] = NULL]
    /\ UNCHANGED <<chosen, stage, shown>>

\* Choosing takes a post that waits for its time back to review.
Choose ==
    /\ stage \in {"review", "waiting"}
    /\ stage' = "review"
    /\ \E v \in Variants : chosen' = v
    /\ UNCHANGED <<text, art, shown>>

Draw ==
    /\ \E v \in Variants : art' = [art EXCEPT ![v] = text[v]]
    /\ UNCHANGED <<text, chosen, stage, shown>>

Schedule ==
    /\ stage = "review"
    /\ chosen # NULL
    /\ stage' = "waiting"
    /\ UNCHANGED <<text, art, chosen, shown>>

Cancel ==
    /\ stage = "waiting"
    /\ stage' = "review"
    /\ UNCHANGED <<text, art, chosen, shown>>

\* There is no way back.
Send ==
    /\ stage \in {"review", "waiting"}
    /\ chosen # NULL
    /\ stage' = "sent"
    /\ UNCHANGED <<text, art, chosen, shown>>

Show ==
    /\ stage = "sent"
    /\ shown' = {[text |-> text[chosen], art |-> text[chosen]]}
    /\ UNCHANGED <<text, art, chosen, stage>>

Next == Edit \/ Choose \/ Draw \/ Schedule \/ Cancel \/ Send \/ Show

Spec == Init /\ [][Next]_vars
=============================================================================
