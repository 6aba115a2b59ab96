----------------------------- MODULE MCPreview -----------------------------
(* Instances of Preview for TLC. *)
EXTENDS Preview, TLC

\* Nothing tells variants, captions and requests apart.
Symmetry == Permutations(Variants) \cup Permutations(Captions) \cup Permutations(Requests)
=============================================================================
