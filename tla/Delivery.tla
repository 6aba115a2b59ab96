------------------------------ MODULE Delivery ------------------------------
(***************************************************************************)
(* What the notification outbox promises about one message, whatever the   *)
(* number of instances and however they fail.  The message waits until it  *)
(* is sent, or is given up after all its tries; a late success may still   *)
(* settle it.  One that cannot be read is given up untried.  Only what was *)
(* sent is purged, and the notice of an outcome never comes back.          *)
(* Telegram takes the message once for each time it was written, and once  *)
(* more for each mishap.                                                   *)
(***************************************************************************)
EXTENDS Naturals

CONSTANTS
    WrittenOnce,    \* is a purged message gone for good?
    MaxAttempts     \* tries before it is given up

VARIABLES
    phase,      \* what has become of the message
    legible,    \* it can be read as it was written
    tries,      \* how often it was tried since it was written
    taken,      \* how often Telegram took it
    spare       \* how often Telegram may yet take it

vars == <<phase, legible, tries, taken, spare>>

Phases == {"unwritten", "waiting", "sent", "givenup", "purged"}

TypeOK ==
    /\ phase \in Phases
    /\ legible \in BOOLEAN
    /\ tries \in Nat
    /\ taken \in Nat
    /\ spare \in Nat

Init ==
    /\ phase = "unwritten"
    /\ legible = TRUE
    /\ tries = 0
    /\ taken = 0
    /\ spare = 0

Written == phase # "unwritten"

Write ==
    /\ phase = "unwritten" \/ (phase = "purged" /\ ~WrittenOnce)
    /\ phase' = "waiting"
    /\ legible' \in BOOLEAN
    /\ tries' = 0
    /\ spare' = spare + 1
    /\ UNCHANGED taken

Try ==
    /\ phase = "waiting"
    /\ legible
    /\ tries' = tries + 1
    /\ UNCHANGED <<phase, legible, taken, spare>>

Take ==
    /\ Written
    /\ spare > 0
    /\ spare' = spare - 1
    /\ taken' = taken + 1
    /\ UNCHANGED <<phase, legible, tries>>

\* A mishap: nobody can tell any more whether the message was taken.
Lose ==
    /\ Written
    /\ spare' = spare + 1
    /\ UNCHANGED <<phase, legible, tries, taken>>

\* Telegram takes the message and its answer is lost.
TakeUnheard ==
    /\ Written
    /\ taken' = taken + 1
    /\ UNCHANGED <<phase, legible, tries, spare>>

Settle ==
    /\ phase \in {"waiting", "givenup"}
    /\ legible
    /\ taken > 0
    /\ phase' = "sent"
    /\ UNCHANGED <<legible, tries, taken, spare>>

GiveUp ==
    /\ phase = "waiting"
    /\ tries >= MaxAttempts
    /\ phase' = "givenup"
    /\ UNCHANGED <<legible, tries, taken, spare>>

Refuse ==
    /\ phase = "waiting"
    /\ ~legible
    /\ tries = 0
    /\ phase' = "givenup"
    /\ UNCHANGED <<legible, tries, taken, spare>>

Purge ==
    /\ phase = "sent"
    /\ phase' = "purged"
    /\ legible' = TRUE
    /\ tries' = 0
    /\ UNCHANGED <<taken, spare>>

Next ==
    \/ Write \/ Try \/ Take \/ Lose \/ TakeUnheard
    \/ Settle \/ GiveUp \/ Refuse \/ Purge

Spec == Init /\ [][Next]_vars
=============================================================================
