-------------------------- MODULE DurableTraining --------------------------
(***************************************************************************)
(* What a resumable training run promises: a checkpoint is taken whole, and *)
(* a run that stops continues from the last one as if nothing that followed *)
(* it had happened.  The state of a run is opaque here; what matters is     *)
(* that all of its parts (step, weights, data position, buffer) come back   *)
(* from the same moment.                                                   *)
(***************************************************************************)
CONSTANTS
  Fresh,         \* the state of a run that has not started
  Advances(_, _) \* whether one step of the program may lead from one to the other

VARIABLES
  live,    \* the state of the run
  durable  \* the state that a restart recovers

Init == live = Fresh /\ durable = Fresh

Advance  == Advances(live, live') /\ UNCHANGED durable
Commit   == durable' = live /\ UNCHANGED live
RollBack == live' = durable /\ UNCHANGED durable

Spec == Init /\ [][Advance \/ Commit \/ RollBack]_<<live, durable>>
=============================================================================
