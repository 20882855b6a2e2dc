-------------------------- MODULE MCDisaggTraining --------------------------
(***************************************************************************)
(* DisaggTraining for TLC: the groups are interchangeable model values.    *)
(***************************************************************************)
EXTENDS DisaggInvariants, TLC

Symmetry == Permutations(Groups)
=============================================================================
