--------------------------- MODULE MCGroupSamples ---------------------------
(***************************************************************************)
(* GroupSamples for TLC: the samples of a group are interchangeable.       *)
(***************************************************************************)
EXTENDS GroupSamples, TLC

Symmetry == Permutations(Samples)
=============================================================================
