----------------------------- MODULE JobStatus -----------------------------
(***************************************************************************)
(* The life cycle of a post job, internal/post/status.go: the states, the  *)
(* transitions the repository accepts and the terminal states.  Every      *)
(* write of a job's status in the other modules goes through CanTransition *)
(* or names the exact state it starts from, as the SQL does.               *)
(***************************************************************************)

Status ==
    {"NEW", "SCORING_QUEUED", "SCORING", "WAITING_AI", "SCORED",
     "WAITING_FIRST_APPROVAL", "VARIANTS_QUEUED", "GENERATING_VARIANTS",
     "WAITING_VARIANT_APPROVAL", "READY_TO_PUBLISH", "SCHEDULED", "APPROVED",
     "PUBLISHING", "PUBLISHED", "SKIPPED", "FAILED"}

allowedTransitions == [
    NEW                      |-> {"SCORING_QUEUED", "FAILED"},
    SCORING_QUEUED           |-> {"SCORING", "FAILED"},
    SCORING                  |-> {"WAITING_AI", "SCORED", "FAILED"},
    WAITING_AI               |-> {"SCORING_QUEUED", "VARIANTS_QUEUED", "FAILED",
                                  "SKIPPED"},
    SCORED                   |-> {"WAITING_FIRST_APPROVAL", "SKIPPED", "FAILED"},
    WAITING_FIRST_APPROVAL   |-> {"VARIANTS_QUEUED", "SKIPPED", "FAILED"},
    VARIANTS_QUEUED          |-> {"GENERATING_VARIANTS", "SKIPPED", "FAILED"},
    GENERATING_VARIANTS      |-> {"WAITING_VARIANT_APPROVAL", "WAITING_AI",
                                  "FAILED"},
    WAITING_VARIANT_APPROVAL |-> {"READY_TO_PUBLISH", "VARIANTS_QUEUED",
                                  "SKIPPED", "FAILED"},
    READY_TO_PUBLISH         |-> {"SCHEDULED", "APPROVED", "VARIANTS_QUEUED",
                                  "SKIPPED", "FAILED"},
    SCHEDULED                |-> {"APPROVED", "READY_TO_PUBLISH", "SKIPPED",
                                  "FAILED"},
    APPROVED                 |-> {"PUBLISHING", "FAILED"},
    PUBLISHING               |-> {"PUBLISHED", "FAILED"},
    PUBLISHED                |-> {},
    SKIPPED                  |-> {},
    FAILED                   |-> {}]

\* A job may only move along the table; staying in place is not a transition.
CanTransition(from, to) == to \in allowedTransitions[from]

IsTerminal(s) == s \in {"PUBLISHED", "SKIPPED", "FAILED"}
=============================================================================
