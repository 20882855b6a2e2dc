---------------------------- MODULE RolloutGroup ----------------------------
(***************************************************************************)
(* A prompt group as the rollout pipeline handles it, whatever the number  *)
(* of its samples: what the engine, ReplayBuffer.put and refresh_staleness *)
(* make of it.  GroupSamples derives this view from the samples.           *)
(***************************************************************************)
EXTENDS Staleness

CONSTANTS
  TailTrigger,   \* tail_batch_trigger_size, 0 disables the tail batch
  Partial        \* enable_partial_rollout

ASSUME GroupAssumption == TailTrigger \in Nat /\ Partial \in BOOLEAN

(***************************************************************************)
(* stage says who holds the group; ver is the oldest model_step recorded   *)
(* for its tokens (min of response_model_steps), and act, which no code    *)
(* can see, the step of the oldest weights that really generated them;     *)
(* since is the step of the engine's weights when the request was sent,    *)
(* and gained says that generation added tokens no version is recorded for *)
(* yet.                                                                    *)
(***************************************************************************)
Stages == {"dataset", "running", "aborting", "finished", "buffer", "batch"}
Statuses == {"INIT", "COMPLETED", "ABORTED", "EXPIRED", "FAILED", "FILTERED",
             "RAISED"}  \* not a Status: its task ended with an exception

GroupRecord ==
  [stage: Stages, status: Statuses, ver: Nat \union {NoTokens},
   act: Nat \union {NoTokens}, since: Nat \union {NoTokens}, gained: BOOLEAN]

FromDataset == [stage |-> "dataset", status |-> "INIT",
                ver |-> NoTokens, act |-> NoTokens, since |-> NoTokens,
                gained |-> FALSE]

\* reset_rollout_response drops the tokens; without a tail batch no code ever
\* samples an expired group again, so its identity is free.
ExpiredGroup ==
  IF TailTrigger = 0 THEN FromDataset
  ELSE [FromDataset EXCEPT !.stage = "buffer", !.status = "EXPIRED"]

-----------------------------------------------------------------------------
\* spawn_one: the request goes to an engine that generates or aborts.
Launched(r, weights, paused) ==
  [r EXCEPT !.status = "INIT", !.since = weights,
            !.stage = IF paused THEN "aborting" ELSE "running"]

\* What is left of a group's earlier tokens.  With partial rollout all of them;
\* without it the aborted samples start over and the completed ones stay, so
\* the oldest token left may be a later one.
Kept(r) ==
  IF Partial \/ r.ver = NoTokens THEN {[ver |-> r.ver, act |-> r.act]}
  ELSE {[ver |-> NoTokens, act |-> NoTokens]} \union
       {k \in [ver: r.ver .. r.since, act: r.act .. r.since] : k.ver <= k.act}

\* What the engine may return: only an interrupted group comes back ABORTED, and
\* a group may come back with no new token.
Returned(r) ==
  {[stage |-> "finished", status |-> outcome, ver |-> k.ver,
    act |-> IF gained THEN OldestVersion(k.act, r.since) ELSE k.act,
    since |-> NoTokens, gained |-> gained] :
      outcome \in {"COMPLETED"} \union (IF r.stage = "aborting" THEN {"ABORTED"} ELSE {}),
      k \in Kept(r), gained \in BOOLEAN}

\* FILTERED stands for a completed group is_valid_sample_fn is going to reject;
\* nothing is known of the tokens of a group that will never be used.
Failed == {[FromDataset EXCEPT !.stage = "finished", !.status = outcome] :
             outcome \in {"FAILED", "FILTERED", "RAISED"}}

\* Mutant: the newest version instead of the oldest.
VersionedNewest(r, step) ==
  [r EXCEPT !.stage = "buffer", !.gained = FALSE,
            !.ver = IF r.gained THEN step ELSE r.ver]

\* update_sample_version: the new tokens get the producer's model_step.
Versioned(r, step) ==
  [r EXCEPT !.stage = "buffer", !.gained = FALSE,
            !.ver = IF r.gained THEN OldestVersion(r.ver, step) ELSE r.ver]

\* Mutant: put without maybe_expire_group.
PutUnexpired(r, modelStep, trainStep) ==
  IF r.status \in {"FAILED", "FILTERED"} THEN FromDataset ELSE Versioned(r, modelStep)

\* ReplayBuffer.put.  A FAILED or FILTERED group stays in storage but no query
\* but the leftover counters ever matches it again.
PutGroup(r, modelStep, trainStep) ==
  LET v == Versioned(r, modelStep) IN
  CASE r.status \in {"FAILED", "FILTERED"} -> FromDataset
    [] r.status \in {"COMPLETED", "ABORTED"} /\ IsStale(v.ver, trainStep)
         -> ExpiredGroup
    [] OTHER -> v

\* Mutant: the step of the refresh is off by one.
RefreshLate(r, step) ==
  IF /\ r.stage = "buffer"
     /\ r.status \in {"COMPLETED", "ABORTED"}
     /\ IsStale(r.ver, step - 1)
  THEN ExpiredGroup
  ELSE r

\* ReplayBuffer.refresh_staleness for one group.
RefreshGroup(r, step) ==
  IF /\ r.stage = "buffer"
     /\ r.status \in {"COMPLETED", "ABORTED"}
     /\ IsStale(r.ver, step)
  THEN ExpiredGroup
  ELSE r
=============================================================================
