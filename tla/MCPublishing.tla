---------------------------- MODULE MCPublishing ----------------------------
(***************************************************************************)
(* Instances of Publishing for TLC.  Processes of one kind run the same    *)
(* code, so permuting them permutes behaviours and no safety property      *)
(* tells them apart.                                                       *)
(***************************************************************************)
EXTENDS PublishingInvariant, TLC

Symmetry ==
    Permutations(Workers) \cup Permutations(Generators)
        \cup Permutations(Operators) \cup Permutations(Choices)
=============================================================================
