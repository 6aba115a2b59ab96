---------------------------- MODULE PublishOnce -----------------------------
(***************************************************************************)
(* What publishing promises, whatever the number of instances and however  *)
(* they fail.  A job is taken for publishing once.  Taking it grants one   *)
(* permit to show it on Instagram; the permit is used or forfeited, and it *)
(* may outlive the job's failure, because the worker holding it can be     *)
(* slow.  A job ends published when its permit is gone, and its report     *)
(* tells whether it is shown or was only rehearsed.                        *)
(***************************************************************************)
EXTENDS Naturals

CONSTANT Jobs

VARIABLES
    phase,      \* what has become of the job
    permit,     \* some worker may still show it
    shown,      \* how often Instagram shows it
    report      \* how its publishing is reported

vars == <<phase, permit, shown, report>>

Phases  == {"open", "taken", "published", "failed", "dropped"}
Reports == {"none", "dryrun", "post"}

TypeOK ==
    /\ phase \in [Jobs -> Phases]
    /\ permit \in [Jobs -> BOOLEAN]
    /\ shown \in [Jobs -> Nat]
    /\ report \in [Jobs -> Reports]

Init ==
    /\ phase = [j \in Jobs |-> "open"]
    /\ permit = [j \in Jobs |-> FALSE]
    /\ shown = [j \in Jobs |-> 0]
    /\ report = [j \in Jobs |-> "none"]

Move(j, from, to) == phase[j] \in from /\ phase' = [phase EXCEPT ![j] = to]

Take(j) ==
    /\ Move(j, {"open"}, "taken")
    /\ permit' = [permit EXCEPT ![j] = TRUE]
    /\ UNCHANGED <<shown, report>>

Show(j) ==
    /\ permit[j]
    /\ permit' = [permit EXCEPT ![j] = FALSE]
    /\ shown' = [shown EXCEPT ![j] = @ + 1]
    /\ UNCHANGED <<phase, report>>

Forfeit(j) ==
    /\ permit[j]
    /\ permit' = [permit EXCEPT ![j] = FALSE]
    /\ UNCHANGED <<phase, shown, report>>

Publish(j) ==
    /\ ~permit[j]
    /\ Move(j, {"taken"}, "published")
    /\ report' = [report EXCEPT ![j] = IF shown[j] > 0 THEN "post" ELSE "dryrun"]
    /\ UNCHANGED <<permit, shown>>

Fail(j) ==
    Move(j, {"open", "taken"}, "failed") /\ UNCHANGED <<permit, shown, report>>

Drop(j) == Move(j, {"open"}, "dropped") /\ UNCHANGED <<permit, shown, report>>

Next ==
    \E j \in Jobs :
       Take(j) \/ Show(j) \/ Forfeit(j) \/ Publish(j) \/ Fail(j) \/ Drop(j)

Spec == Init /\ [][Next]_vars
=============================================================================
