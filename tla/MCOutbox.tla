------------------------------ MODULE MCOutbox ------------------------------
(* Small instances of Outbox.  Senders are interchangeable; only the runs   *)
(* without liveness properties say so.                                      *)
EXTENDS Outbox, TLC

Symmetry == Permutations(Senders)
=============================================================================
