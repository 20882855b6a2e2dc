--------------------------- MODULE GroupLifecycle ---------------------------
(***************************************************************************)
(* The life of one prompt group, as everybody who handles it may rely on:  *)
(* DisaggTraining for each of its groups, and GroupSamples, where the      *)
(* group is made of samples that are generated by different requests.      *)
(***************************************************************************)
EXTENDS RolloutGroup

CONSTANT TotalSteps

VARIABLES
  r,        \* the group record
  weights,  \* the train step whose weights the engine holds
  paused,   \* whether some rollout worker aborts
  step      \* next_consumer_step

vars == <<r, weights, paused, step>>

InFlight == r.stage \in {"running", "aborting"}

Init ==
  /\ r = FromDataset
  /\ weights = 0
  /\ paused = FALSE
  /\ step = 1

\* Fresh groups, and aborted or expired ones of the buffer, are generated.
Launch ==
  /\ \/ r.stage = "dataset"
     \/ r.stage = "buffer" /\ r.status \in {"ABORTED", "EXPIRED"}
  /\ r' = Launched(r, weights, paused)
  /\ UNCHANGED <<weights, paused, step>>

Pause ==
  /\ paused' = TRUE
  /\ r' = IF InFlight THEN [r EXCEPT !.stage = "aborting"] ELSE r
  /\ UNCHANGED <<weights, step>>

Continue ==
  /\ paused' = FALSE
  /\ UNCHANGED <<r, weights, step>>

Return ==
  /\ InFlight
  /\ r' \in Returned(r) \union Failed
  /\ UNCHANGED <<weights, paused, step>>

\* cancel_all, at any time before the group is put.
Cancel ==
  /\ InFlight \/ r.stage = "finished"
  /\ r' = FromDataset
  /\ UNCHANGED <<weights, paused, step>>

\* No label is newer than the weights.
Put ==
  /\ r.stage = "finished"
  /\ \E modelStep \in 0 .. weights : r' = PutGroup(r, modelStep, step)
  /\ UNCHANGED <<weights, paused, step>>

NextStep ==
  /\ step <= TotalSteps
  /\ step' = step + 1
  /\ r' = RefreshGroup(r, step')
  /\ UNCHANGED <<weights, paused>>

\* A taken group is not refreshed, whether or not the step moves on with it.
Take ==
  /\ r.stage = "buffer"
  /\ r.status = "COMPLETED"
  /\ r' = [r EXCEPT !.stage = "batch"]
  /\ step' \in {step, step + 1}
  /\ UNCHANGED <<weights, paused>>

Train ==
  /\ r.stage = "batch"
  /\ r' = FromDataset
  /\ UNCHANGED <<weights, paused, step>>

\* New weights meet no request of the group.
UpdateWeights ==
  /\ ~ InFlight
  /\ r.stage # "finished"
  /\ weights' \in (weights + 1) .. step
  /\ paused' \in {paused, FALSE}
  /\ UNCHANGED <<r, step>>

Next ==
  \/ Launch \/ Pause \/ Continue \/ Return \/ Cancel \/ Put \/ NextStep \/ Take
  \/ Train \/ UpdateWeights

Spec == Init /\ [][Next]_vars
=============================================================================
