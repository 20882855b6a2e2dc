------------------------ MODULE GroupSamples_proofs ------------------------
(***************************************************************************)
(* Machine-checked proofs about the samples of a group, for every number   *)
(* of samples, tokens, retries and steps, with and without partial         *)
(* rollout: versions and tokens stay aligned and truthful, budgets hold, a *)
(* batch is complete, and the samples together live the life of the group  *)
(* that GroupLifecycle describes.                                          *)
(***************************************************************************)
EXTENDS GroupSamples, RolloutGroup_proofs, FiniteSetTheorems, TLAPS

USE StalenessAssumption, GroupAssumption, SamplesAssumption

-----------------------------------------------------------------------------
(***************************************************************************)
(* The inductive invariant.                                                *)
(***************************************************************************)
Versions   == 0 .. TotalSteps + 1
SampleType == [status: Statuses, ids: Seq(Versions), steps: Seq(Versions),
               end: {"no", "eos", "stop"}]

\* A token has a version that is not newer, or none yet, and then it comes from
\* the weights w of the engine.
Labelled(smp, w) ==
  /\ Len(smp.steps) <= Len(smp.ids)
  /\ \A i \in 1 .. Len(smp.steps) : smp.steps[i] <= smp.ids[i]
  /\ \A i \in 1 .. Len(smp.ids) : i > Len(smp.steps) => smp.ids[i] = w

Blank(smp) == smp.ids = <<>> /\ smp.steps = <<>> /\ smp.end = "no"

\* What is true of a sample, whoever holds it.
SampleOK(smp, w) ==
  /\ Labelled(smp, w)
  /\ smp.status \in {"INIT", "EXPIRED"} => Blank(smp)
  /\ smp.status = "COMPLETED" => smp.ids # <<>>
  /\ smp.end # "no" => smp.ids # <<>> /\ smp.end \in EndKinds
  /\ Len(smp.ids) <= MaxTokens

\* What is true of a sample whose request is at c.
CallOK(smp, c) ==
  /\ c.at # "none"
  /\ c.at = "sent" => smp.status \in {"INIT", "COMPLETED", "ABORTED", "EXPIRED"}
  /\ c.at \in {"post", "wait"} => smp.end # "eos" /\ (Partial \/ Blank(smp))
  /\ c.at = "done" => smp.status \in {"COMPLETED", "ABORTED", "FAILED"}

StageInv ==
  /\ stage = "dataset" => \A s \in Samples : sample[s].status = "INIT"
  /\ stage = "flight" => \A s \in Samples : CallOK(sample[s], call[s])
  /\ stage = "finished" /\ outcome # "RAISED" =>
       \A s \in Samples : /\ sample[s].status \in {"COMPLETED", "ABORTED", "FAILED"}
                          /\ sample[s].status = "FAILED" => outcome = "FAILED"
  /\ Stored => \A s \in Samples :
       /\ sample[s].status \in {"COMPLETED", "ABORTED", "EXPIRED"}
       /\ Len(sample[s].steps) = Len(sample[s].ids)
       /\ outcome = "COMPLETED" => sample[s].status = "COMPLETED"
  /\ stage = "batch" => outcome = "COMPLETED"

\* The requests, the workers and the clocks hold values of their types.
OthersTyped ==
  /\ call \in [Samples -> [at: {"none", "sent", "post", "wait", "done"},
                           attempt: 0 .. MaxRetry]]
  /\ flag \in [Samples -> BOOLEAN]
  /\ hit \subseteq Samples
  /\ weights \in Versions
  /\ step \in 1 .. TotalSteps + 1

SamplesInv ==
  /\ sample \in [Samples -> SampleType]
  /\ stage \in {"dataset", "flight", "finished", "buffer", "batch"}
  /\ outcome \in Statuses
  /\ OthersTyped
  /\ \A s \in Samples : SampleOK(sample[s], weights)
  /\ StageInv

-----------------------------------------------------------------------------
(***************************************************************************)
(* One sample.                                                             *)
(***************************************************************************)
\* A function on 1 .. n is a sequence.
LEMMA ArrayIsSeq ==
  ASSUME NEW S, NEW n \in Nat, NEW f \in [1 .. n -> S]
  PROVE  f \in Seq(S) /\ Len(f) = n
  OBVIOUS

\* Before the first request a sample is blank.
LEMMA FreshOK ==
  ASSUME NEW w \in Versions
  PROVE  FreshSample \in SampleType /\ Blank(FreshSample) /\ SampleOK(FreshSample, w)
  BY DEF FreshSample, SampleType, Statuses, Blank, SampleOK, Labelled

\* reset_rollout_response leaves a blank sample, whatever its status becomes.
LEMMA ResetOK ==
  ASSUME NEW smp \in SampleType, NEW w \in Versions, NEW st \in {"INIT", "EXPIRED"}
  PROVE  LET new == [Reset(smp) EXCEPT !.status = st]
         IN new \in SampleType /\ new.status = st /\ Blank(new) /\ SampleOK(new, w)
  <1> DEFINE new == [Reset(smp) EXCEPT !.status = st]
  <1>1. Reset(smp) \in SampleType /\ Blank(Reset(smp))
    <2> DEFINE with(e) == [smp EXCEPT !.ids = e, !.steps = e, !.end = "no"]
    <2>1. \A e \in Seq(Versions) :
            with(e) \in SampleType /\ with(e).ids = e /\ with(e).steps = e /\ with(e).end = "no"
      BY DEF SampleType
    <2>2. <<>> \in Seq(Versions) /\ Reset(smp) = with(<<>>)
      BY DEF Reset
    <2> HIDE DEF with
    <2>3. /\ with(<<>>) \in SampleType
          /\ with(<<>>).ids = <<>> /\ with(<<>>).steps = <<>> /\ with(<<>>).end = "no"
      BY <2>1, <2>2, Zenon
    <2>4. Blank(Reset(smp))
      BY <2>2, <2>3, Zenon DEF Blank
    <2> QED BY <2>2, <2>3, <2>4, Zenon
  <1>2. new \in SampleType /\ new.status = st /\ Blank(new)
    BY <1>1 DEF SampleType, Statuses, Blank
  <1> HIDE DEF new
  <1>3. SampleOK(new, w)
    BY <1>2 DEF Blank, SampleOK, Labelled
  <1> QED BY <1>2, <1>3 DEF new

\* A status that says nothing of the tokens.
LEMMA RestatusOK ==
  ASSUME NEW smp \in SampleType, NEW w \in Versions, SampleOK(smp, w),
         NEW st \in {"ABORTED", "FAILED"}
  PROVE  LET new == [smp EXCEPT !.status = st]
         IN new \in SampleType /\ new.status = st /\ SampleOK(new, w)
  BY DEF SampleType, Statuses, SampleOK, Labelled

\* A sample with tokens may be completed without a request.
LEMMA CompletedOK ==
  ASSUME NEW smp \in SampleType, NEW w \in Versions, SampleOK(smp, w),
         smp.status = "COMPLETED" \/ NothingLeft(smp)
  PROVE  LET new == [smp EXCEPT !.status = "COMPLETED"]
         IN new \in SampleType /\ new.status = "COMPLETED" /\ SampleOK(new, w)
  <1>1. smp.ids # <<>>
    <2>1. CASE smp.status = "COMPLETED" \/ smp.end = "eos"
      BY <2>1 DEF SampleOK
    <2>2. CASE Remaining(smp) <= 0
      BY <2>2 DEF Remaining, SampleType
    <2> QED BY <2>1, <2>2 DEF NothingLeft
  <1> QED
    BY <1>1 DEF SampleType, Statuses, SampleOK, Labelled

\* What the request starts from is as good as what was sent.
LEMMA PreparedOK ==
  ASSUME NEW smp \in SampleType, NEW w \in Versions, SampleOK(smp, w)
  PROVE  /\ Prepared(smp) \in SampleType
         /\ SampleOK(Prepared(smp), w)
         /\ Prepared(smp) = smp \/ (~ Partial /\ Blank(Prepared(smp)))
  BY ResetOK DEF Prepared

\* The tokens of a response, n of them new.
LEMMA ExtendedTokens ==
  ASSUME weights \in Versions, NEW smp \in SampleType, Partial \/ Blank(smp),
         NEW n \in Nat
  PROVE  /\ Extended(smp, n) \in Seq(Versions)
         /\ Len(Extended(smp, n)) = Len(smp.ids) + n
         /\ \A i \in 1 .. Len(smp.ids) : Extended(smp, n)[i] = smp.ids[i]
         /\ \A i \in 1 .. Len(smp.ids) + n :
              i > Len(smp.ids) => Extended(smp, n)[i] = weights
  <1> DEFINE old == IF Partial THEN smp.ids ELSE <<>>
             new == [i \in 1 .. n |-> weights]
  <1>1. new \in Seq(Versions) /\ Len(new) = n
    OBVIOUS
  <1>2. old \in Seq(Versions) /\ old = smp.ids
    BY DEF SampleType, Blank
  <1>3. Extended(smp, n) = old \o new
    BY DEF Extended
  <1>4. \A i \in 1 .. n : new[i] = weights
    OBVIOUS
  <1> HIDE DEF old, new
  <1>5. /\ old \o new \in Seq(Versions)
        /\ Len(old \o new) = Len(old) + n
        /\ \A i \in 1 .. Len(old) : (old \o new)[i] = old[i]
        /\ \A i \in 1 .. Len(old) + n : i > Len(old) => (old \o new)[i] = new[i - Len(old)]
    BY <1>1, <1>2
  <1>6. \A i \in 1 .. Len(old) + n : i > Len(old) => (old \o new)[i] = weights
    BY <1>2, <1>4, <1>5
  <1> QED BY <1>2, <1>3, <1>5, <1>6

\* A response that fits into the budget.
LEMMA ExtendedOK ==
  ASSUME weights \in Versions, NEW smp \in SampleType, SampleOK(smp, weights),
         Partial \/ Blank(smp), NEW n \in Nat, n <= Remaining(smp),
         NEW new \in SampleType, new.status \in {"COMPLETED", "ABORTED"},
         new.status = "COMPLETED" => n > 0,
         new.ids = Extended(smp, n), new.steps = smp.steps,
         new.end # "no" => new.end \in EndKinds /\ (n > 0 \/ new.end = smp.end)
  PROVE  SampleOK(new, weights)
  <1>1. /\ Len(new.ids) = Len(smp.ids) + n
        /\ \A i \in 1 .. Len(smp.ids) : new.ids[i] = smp.ids[i]
        /\ \A i \in 1 .. Len(smp.ids) + n : i > Len(smp.ids) => new.ids[i] = weights
    <2>1. /\ Len(Extended(smp, n)) = Len(smp.ids) + n
          /\ \A i \in 1 .. Len(smp.ids) : Extended(smp, n)[i] = smp.ids[i]
          /\ \A i \in 1 .. Len(smp.ids) + n : i > Len(smp.ids) => Extended(smp, n)[i] = weights
      BY ExtendedTokens
    <2> QED BY <2>1, Zenon
  <1>2. smp.ids \in Seq(Versions) /\ smp.steps \in Seq(Versions)
    BY DEF SampleType
  <1>3. Len(new.ids) <= MaxTokens
    BY <1>1, <1>2 DEF Remaining, Blank
  <1>4. Labelled(new, weights)
    <2>1. Len(new.steps) <= Len(new.ids)
      BY <1>1, <1>2 DEF SampleOK, Labelled
    <2>2. \A i \in 1 .. Len(new.steps) : new.steps[i] <= new.ids[i]
      BY <1>1, <1>2 DEF SampleOK, Labelled
    <2>3. \A i \in 1 .. Len(new.ids) : i > Len(new.steps) => new.ids[i] = weights
      <3> SUFFICES ASSUME NEW i \in 1 .. Len(new.ids), i > Len(new.steps)
                   PROVE  new.ids[i] = weights
        OBVIOUS
      <3>1. CASE i <= Len(smp.ids)
        BY <3>1, <1>1, <1>2 DEF SampleOK, Labelled
      <3>2. CASE i > Len(smp.ids)
        BY <3>2, <1>1, <1>2
      <3> QED BY <3>1, <3>2, <1>2
    <2> QED BY <2>1, <2>2, <2>3 DEF Labelled
  <1>5. (new.status = "COMPLETED" \/ new.end # "no") => Len(new.ids) > 0
    BY <1>1, <1>2 DEF SampleOK
  <1>6. new.ids = <<>> => Len(new.ids) = 0
    OBVIOUS
  <1> QED
    BY <1>3, <1>4, <1>5, <1>6 DEF SampleOK

\* update_sample_version gives every token a version, none newer than its weights.
LEMMA VersionedOK ==
  ASSUME NEW smp \in SampleType, NEW w \in Versions, SampleOK(smp, w),
         NEW modelStep \in 0 .. w
  PROVE  LET new == VersionedSample(smp, modelStep)
         IN /\ new \in SampleType
            /\ SampleOK(new, w)
            /\ Len(new.steps) = Len(new.ids)
            /\ new.status = smp.status
            /\ new.ids = smp.ids
  <1> DEFINE new == VersionedSample(smp, modelStep)
             versions == [i \in 1 .. Len(smp.ids) |->
                            IF i <= Len(smp.steps) THEN smp.steps[i] ELSE modelStep]
  <1>1. smp.ids \in Seq(Versions) /\ smp.steps \in Seq(Versions)
    BY DEF SampleType
  <1>2. Len(smp.steps) <= Len(smp.ids)
    BY DEF SampleOK, Labelled
  <1>3. (IF Len(smp.ids) > Len(smp.steps) THEN Len(smp.ids) ELSE Len(smp.steps)) = Len(smp.ids)
    BY <1>1, <1>2
  <1>4. new = [smp EXCEPT !.steps = versions]
    BY <1>3 DEF VersionedSample
  <1>5. /\ versions \in Seq(Versions) /\ Len(versions) = Len(smp.ids)
        /\ \A i \in 1 .. Len(smp.ids) : versions[i] <= smp.ids[i]
    <2>1. modelStep \in Versions
      BY DEF Versions
    <2>2. \A i \in 1 .. Len(smp.ids) : versions[i] \in Versions
      BY <1>1, <2>1
    <2>3. versions \in [1 .. Len(smp.ids) -> Versions]
      BY <2>2
    <2>4. versions \in Seq(Versions) /\ Len(versions) = Len(smp.ids)
      <3> HIDE DEF versions
      <3> QED BY <1>1, <2>3, ArrayIsSeq
    <2>5. \A i \in 1 .. Len(smp.ids) : versions[i] <= smp.ids[i]
      BY <1>1, <1>2 DEF SampleOK, Labelled
    <2> QED BY <2>4, <2>5
  <1> HIDE DEF versions, new
  <1>6. /\ new \in SampleType /\ new.steps = versions /\ new.ids = smp.ids
        /\ new.status = smp.status /\ new.end = smp.end
    BY <1>4, <1>5 DEF SampleType
  <1>7. Labelled(new, w)
    BY <1>1, <1>5, <1>6 DEF Labelled
  <1>8. smp.ids = <<>> => versions = <<>>
    BY <1>5
  <1>9. SampleOK(new, w)
    BY <1>1, <1>6, <1>7, <1>8 DEF SampleOK, Blank
  <1> QED BY <1>5, <1>6, <1>9 DEF new

-----------------------------------------------------------------------------
(***************************************************************************)
(* The group.                                                              *)
(***************************************************************************)
\* get_group_status: completed if nothing is wrong with any sample, failed as
\* soon as one failed.
LEMMA GroupStatusFacts ==
  ASSUME NEW grp \in [Samples -> SampleType]
  PROVE  /\ GroupStatus(grp) \in Statuses
         /\ GroupStatus(grp) = "COMPLETED" =>
              \A s \in Samples : grp[s].status \notin {"FAILED", "ABORTED", "EXPIRED"}
         /\ (\E s \in Samples : grp[s].status = "FAILED") => GroupStatus(grp) = "FAILED"
  <1> DEFINE found == {i \in DOMAIN StatusPriority :
                         \E s \in Samples : grp[s].status = StatusPriority[i]}
  <1>1. /\ DOMAIN StatusPriority = 1 .. 4
        /\ StatusPriority[1] = "FAILED" /\ StatusPriority[2] = "ABORTED"
        /\ StatusPriority[3] = "EXPIRED" /\ StatusPriority[4] = "FILTERED"
    BY DEF StatusPriority
  <1>2. \A i \in found : i \in {1, 2, 3, 4} /\ StatusPriority[i] \in Statuses \ {"COMPLETED"}
    BY <1>1 DEF Statuses
  <1>3. CASE found = {}
    <2>1. GroupStatus(grp) = "COMPLETED"
      BY <1>3 DEF GroupStatus
    <2>2. \A i \in 1 .. 4 : \A s \in Samples : grp[s].status # StatusPriority[i]
      BY <1>1, <1>3
    <2>3. \A s \in Samples : grp[s].status \notin {"FAILED", "ABORTED", "EXPIRED"}
      BY <1>1, <2>2
    <2> QED BY <2>1, <2>3 DEF Statuses
  <1>4. CASE found # {}
    <2>1. GroupStatus(grp) = StatusPriority[Min(found)]
      BY <1>4 DEF GroupStatus
    <2>2. \E x \in found : \A y \in found : x <= y
      <3> HIDE DEF found
      <3>1. CASE 1 \in found
        BY <3>1, <1>2
      <3>2. CASE 1 \notin found /\ 2 \in found
        BY <3>2, <1>2
      <3>3. CASE 1 \notin found /\ 2 \notin found /\ 3 \in found
        BY <3>3, <1>2
      <3>4. CASE 1 \notin found /\ 2 \notin found /\ 3 \notin found
        BY <3>4, <1>2, <1>4
      <3> QED BY <3>1, <3>2, <3>3, <3>4
    <2>3. Min(found) \in found /\ \A y \in found : Min(found) <= y
      <3> HIDE DEF found
      <3> QED BY <2>2 DEF Min
    <2>4. GroupStatus(grp) \in Statuses \ {"COMPLETED"}
      BY <2>1, <2>3, <1>2
    <2>5. (\E s \in Samples : grp[s].status = "FAILED") => 1 \in found
      BY <1>1
    <2>6. 1 \in found => Min(found) = 1
      <3> HIDE DEF found
      <3> QED BY <2>3, <1>2
    <2> QED BY <2>1, <2>4, <2>5, <2>6, <1>1
  <1> QED BY <1>3, <1>4

\* A group nobody can find any more.
LEMMA DroppedInv ==
  ASSUME OthersTyped', Dropped
  PROVE  SamplesInv'
  <1>1. /\ sample' = [s \in Samples |-> FreshSample]
        /\ stage' = "dataset" /\ outcome' = "INIT"
    BY DEF Dropped
  <1>2. weights' \in Versions
    BY DEF OthersTyped
  <1>3. FreshSample \in SampleType /\ SampleOK(FreshSample, weights')
    BY <1>2, FreshOK
  <1>4. FreshSample.status = "INIT"
    BY DEF FreshSample
  <1>5. sample' \in [Samples -> SampleType]
    BY <1>1, <1>3
  <1>6. \A s \in Samples : SampleOK(sample'[s], weights') /\ sample'[s].status = "INIT"
    BY <1>1, <1>3, <1>4
  <1>7. StageInv'
    BY <1>1, <1>6 DEF StageInv, Stored
  <1> QED BY <1>1, <1>5, <1>6, <1>7 DEF SamplesInv, Statuses

\* An expired group is blank, or nobody can find it.
LEMMA ExpiredInv ==
  ASSUME OthersTyped', NEW grp \in [Samples -> SampleType], Expire(grp)
  PROVE  SamplesInv'
  <1>1. CASE TailTrigger = 0
    BY <1>1, DroppedInv DEF Expire
  <1>2. CASE TailTrigger # 0
    <2> DEFINE new(s) == [Reset(grp[s]) EXCEPT !.status = "EXPIRED"]
    <2>1. stage' = "buffer" /\ outcome' = "EXPIRED" /\ sample' = [s \in Samples |-> new(s)]
      BY <1>2 DEF Expire
    <2>2. weights' \in Versions
      BY DEF OthersTyped
    <2>3. \A s \in Samples : /\ new(s) \in SampleType /\ new(s).status = "EXPIRED"
                             /\ Blank(new(s)) /\ SampleOK(new(s), weights')
      BY <2>2, ResetOK
    <2> HIDE DEF new
    <2>4. sample' \in [Samples -> SampleType]
      BY <2>1, <2>3
    <2>5. \A s \in Samples : /\ SampleOK(sample'[s], weights')
                             /\ sample'[s].status = "EXPIRED" /\ Blank(sample'[s])
      BY <2>1, <2>3
    <2>6. \A s \in Samples : Len(sample'[s].steps) = Len(sample'[s].ids)
      BY <2>5 DEF Blank
    <2>7. StageInv'
      BY <2>1, <2>5, <2>6 DEF StageInv, Stored
    <2> QED BY <2>1, <2>4, <2>5, <2>7 DEF SamplesInv, Statuses
  <1> QED BY <1>1, <1>2

-----------------------------------------------------------------------------
(***************************************************************************)
(* The request of one sample.                                              *)
(***************************************************************************)
\* A step that moves one request on.
LEMMA CallInv ==
  ASSUME SamplesInv, stage = "flight", NEW s \in Samples,
         NEW smp \in SampleType, SampleOK(smp, weights),
         NEW c \in [at: {"none", "sent", "post", "wait", "done"}, attempt: 0 .. MaxRetry],
         CallOK(smp, c),
         sample' = [sample EXCEPT ![s] = smp], call' = [call EXCEPT ![s] = c],
         UNCHANGED <<stage, outcome, flag, hit, launched, clockVars>>
  PROVE  SamplesInv'
  <1>1. OthersTyped'
    BY DEF SamplesInv, OthersTyped, clockVars
  <1>2. sample' \in [Samples -> SampleType]
    BY DEF SamplesInv
  <1>3. weights' = weights /\ stage' = stage /\ outcome' = outcome
    BY DEF clockVars
  <1>4. \A t \in Samples : /\ sample'[t] = IF t = s THEN smp ELSE sample[t]
                           /\ call'[t] = IF t = s THEN c ELSE call[t]
    BY DEF SamplesInv, OthersTyped
  <1>5. \A t \in Samples : SampleOK(sample'[t], weights')
    BY <1>3, <1>4 DEF SamplesInv
  <1>6. \A t \in Samples : CallOK(sample'[t], call'[t])
    BY <1>4 DEF SamplesInv, StageInv
  <1>7. StageInv'
    BY <1>3, <1>6 DEF StageInv, Stored
  <1> QED BY <1>1, <1>2, <1>3, <1>5, <1>7 DEF SamplesInv

\* The request returns with a sample that is as good as the one that was sent.
LEMMA ReturnInv ==
  ASSUME SamplesInv, stage = "flight", NEW s \in Samples,
         NEW smp \in SampleType, SampleOK(smp, weights),
         smp.status \in {"COMPLETED", "ABORTED", "FAILED"}, Return(s, smp)
  PROVE  SamplesInv'
  <1> DEFINE c == [at |-> "done", attempt |-> 0]
  <1>1. /\ c \in [at: {"none", "sent", "post", "wait", "done"}, attempt: 0 .. MaxRetry]
        /\ CallOK(smp, c)
    BY DEF CallOK
  <1>2. /\ sample' = [sample EXCEPT ![s] = smp] /\ call' = [call EXCEPT ![s] = c]
        /\ UNCHANGED <<stage, outcome, flag, hit, launched, clockVars>>
    BY DEF Return
  <1> HIDE DEF c
  <1> QED BY <1>1, <1>2, CallInv

-----------------------------------------------------------------------------
(***************************************************************************)
(* The actions.                                                            *)
(***************************************************************************)
\* The first group comes from the dataset.
LEMMA InitSamples == Init => SamplesInv
  <1> SUFFICES ASSUME Init PROVE SamplesInv
    OBVIOUS
  <1>1. /\ sample = [s \in Samples |-> FreshSample]
        /\ stage = "dataset" /\ outcome = "INIT" /\ weights = 0
    BY DEF Init
  <1>2. 0 \in Versions
    BY DEF Versions
  <1>3. /\ FreshSample \in SampleType /\ SampleOK(FreshSample, 0)
        /\ FreshSample.status = "INIT"
    BY <1>2, FreshOK DEF FreshSample
  <1>4. OthersTyped
    BY <1>2 DEF Init, OthersTyped, NoCalls
  <1>5. sample \in [Samples -> SampleType]
    BY <1>1, <1>3
  <1>6. \A s \in Samples : SampleOK(sample[s], weights) /\ sample[s].status = "INIT"
    BY <1>1, <1>3
  <1>7. StageInv
    BY <1>1, <1>6 DEF StageInv, Stored
  <1> QED BY <1>1, <1>4, <1>5, <1>6, <1>7 DEF SamplesInv, Statuses

\* generate_group sends every sample of a group that is neither completed nor lost.
LEMMA LaunchInv == SamplesInv /\ Launch => SamplesInv'
  <1> SUFFICES ASSUME SamplesInv, Launch PROVE SamplesInv'
    OBVIOUS
  <1>1. /\ stage' = "flight" /\ outcome' = "INIT"
        /\ call' = [s \in Samples |-> [at |-> "sent", attempt |-> 0]]
        /\ sample' = sample /\ weights' = weights /\ step' = step /\ flag' = flag
        /\ hit' = {s \in Samples : flag[s]}
    BY DEF Launch, clockVars
  <1>2. OthersTyped'
    BY <1>1 DEF SamplesInv, OthersTyped
  <1>3. \A s \in Samples : sample[s].status \in {"INIT", "COMPLETED", "ABORTED", "EXPIRED"}
    BY DEF Launch, SamplesInv, StageInv, Stored
  <1>4. \A s \in Samples : call'[s].at = "sent"
    BY <1>1
  <1>5. \A s \in Samples : CallOK(sample[s], call'[s])
    BY <1>3, <1>4 DEF CallOK
  <1>6. StageInv'
    BY <1>1, <1>5 DEF StageInv, Stored
  <1> QED BY <1>1, <1>2, <1>6 DEF SamplesInv, Statuses

\* No request of the worker leaves the invariant.
LEMMA WorkerInv ==
  ASSUME SamplesInv, NEW s \in Samples, WorkerNext(s)
  PROVE  SamplesInv'
  <1> DEFINE smp == sample[s]
             pre == Prepared(smp)
             at(where, k) == [at |-> where, attempt |-> k]
  <1>1. smp \in SampleType /\ SampleOK(smp, weights) /\ weights \in Versions
    BY DEF SamplesInv, OthersTyped
  <1>2. pre \in SampleType /\ SampleOK(pre, weights)
    BY <1>1, PreparedOK
  <1>3. /\ call[s] \in [at: {"none", "sent", "post", "wait", "done"}, attempt: 0 .. MaxRetry]
        /\ stage = "flight" => CallOK(smp, call[s])
    BY DEF SamplesInv, OthersTyped, StageInv
  <1>4. \A st \in {"ABORTED", "FAILED"} :
          LET new == [smp EXCEPT !.status = st]
          IN new \in SampleType /\ new.status = st /\ SampleOK(new, weights)
    BY <1>1, RestatusOK
  <1>5. CASE RefuseCall(s)
    BY <1>4, <1>5, ReturnInv DEF RefuseCall, CallAt
  <1>6. CASE SkipCall(s)
    <2>1. /\ pre.status = "COMPLETED" \/ NothingLeft(pre)
          /\ stage = "flight" /\ Return(s, [pre EXCEPT !.status = "COMPLETED"])
      BY <1>6 DEF SkipCall, CallAt
    <2> HIDE DEF pre
    <2>2. LET new == [pre EXCEPT !.status = "COMPLETED"]
          IN new \in SampleType /\ new.status = "COMPLETED" /\ SampleOK(new, weights)
      BY <1>1, <1>2, <2>1, CompletedOK
    <2> QED BY <2>1, <2>2, ReturnInv
  <1>7. CASE AcceptCall(s)
    <2> DEFINE c == [call[s] EXCEPT !.at = "post"]
    <2>1. /\ stage = "flight" /\ call[s].at = "sent"
          /\ pre.status # "COMPLETED" /\ ~ NothingLeft(pre)
          /\ sample' = [sample EXCEPT ![s] = pre] /\ call' = [call EXCEPT ![s] = c]
          /\ UNCHANGED <<stage, outcome, flag, hit, launched, clockVars>>
      BY <1>7 DEF AcceptCall, CallAt, SamplesInv, OthersTyped
    <2>2. /\ c \in [at: {"none", "sent", "post", "wait", "done"}, attempt: 0 .. MaxRetry]
          /\ c.at = "post"
      BY <1>3
    <2>3. Partial \/ Blank(pre)
      <3>1. CASE pre = smp
        <4>1. smp.status \in {"INIT", "ABORTED", "EXPIRED"}
          BY <1>3, <2>1, <3>1 DEF CallOK
        <4>2. CASE smp.status = "ABORTED" /\ ~ Partial
          BY <1>1, <4>2, ResetOK DEF Prepared
        <4>3. CASE smp.status \in {"INIT", "EXPIRED"}
          BY <1>1, <3>1, <4>3 DEF SampleOK
        <4> QED BY <4>1, <4>2, <4>3
      <3>2. CASE pre # smp
        BY <1>1, <3>2, PreparedOK
      <3> QED BY <3>1, <3>2
    <2>4. pre.end # "eos"
      BY <2>1 DEF NothingLeft
    <2> HIDE DEF pre, c
    <2>5. CallOK(pre, c)
      BY <2>2, <2>3, <2>4 DEF CallOK
    <2> QED BY <1>2, <2>1, <2>2, <2>5, CallInv
  <1>8. CASE PostRequest(s)
    <2> DEFINE c == [call[s] EXCEPT !.at = "wait"]
    <2>1. /\ stage = "flight" /\ call[s].at = "post"
          /\ sample' = [sample EXCEPT ![s] = smp] /\ call' = [call EXCEPT ![s] = c]
          /\ UNCHANGED <<stage, outcome, flag, hit, launched, clockVars>>
      BY <1>8 DEF PostRequest, CallAt, SamplesInv, OthersTyped
    <2>2. /\ c \in [at: {"none", "sent", "post", "wait", "done"}, attempt: 0 .. MaxRetry]
          /\ c.at = "wait"
      BY <1>3
    <2>3. CallOK(smp, c)
      BY <1>3, <2>1, <2>2 DEF CallOK
    <2> HIDE DEF smp, c
    <2> QED BY <1>1, <2>1, <2>2, <2>3, CallInv
  <1>9. CASE AbortCall(s)
    BY <1>4, <1>9, ReturnInv DEF AbortCall, CallAt
  <1>10. CASE CompleteResponse(s)
    <2>1. PICK n \in 1 .. Remaining(smp), end \in EndKinds \union {"no"} :
            Return(s, [smp EXCEPT !.status = "COMPLETED", !.end = end,
                                  !.ids = Extended(smp, n)])
      BY <1>10 DEF CompleteResponse
    <2> DEFINE new == [smp EXCEPT !.status = "COMPLETED", !.end = end,
                                  !.ids = Extended(smp, n)]
    <2>2. stage = "flight" /\ (Partial \/ Blank(smp))
      BY <1>3, <1>10 DEF CompleteResponse, CallAt, CallOK
    <2>3. n \in Nat /\ n > 0 /\ n <= Remaining(smp)
      <3>1. Remaining(smp) \in Int
        BY <1>1 DEF Remaining, SampleType
      <3> QED BY <3>1
    <2>4. Extended(smp, n) \in Seq(Versions)
      BY <1>1, <2>2, <2>3, ExtendedTokens
    <2>5. end \in {"no", "eos", "stop"} /\ (end # "no" => end \in EndKinds)
      OBVIOUS
    <2>6. /\ new \in SampleType /\ new.status = "COMPLETED" /\ new.end = end
          /\ new.ids = Extended(smp, n) /\ new.steps = smp.steps
      BY <1>1, <2>4, <2>5 DEF SampleType, Statuses
    <2> HIDE DEF new, smp
    <2>7. SampleOK(new, weights)
      BY <1>1, <2>2, <2>3, <2>5, <2>6, ExtendedOK
    <2> QED BY <2>1, <2>2, <2>6, <2>7, ReturnInv DEF new
  <1>11. CASE AbortedResponse(s)
    <2>1. PICK n \in 0 .. Remaining(smp) - 1 :
            Return(s, [smp EXCEPT !.status = "ABORTED", !.ids = Extended(smp, n)])
      BY <1>11 DEF AbortedResponse
    <2> DEFINE new == [smp EXCEPT !.status = "ABORTED", !.ids = Extended(smp, n)]
    <2>2. stage = "flight" /\ (Partial \/ Blank(smp))
      BY <1>3, <1>11 DEF AbortedResponse, CallAt, CallOK
    <2>3. n \in Nat /\ n <= Remaining(smp)
      <3>1. Remaining(smp) \in Int
        BY <1>1 DEF Remaining, SampleType
      <3> QED BY <3>1
    <2>4. Extended(smp, n) \in Seq(Versions)
      BY <1>1, <2>2, <2>3, ExtendedTokens
    <2>5. /\ new \in SampleType /\ new.status = "ABORTED" /\ new.end = smp.end
          /\ new.ids = Extended(smp, n) /\ new.steps = smp.steps
      BY <1>1, <2>4 DEF SampleType, Statuses
    <2>6. smp.end # "no" => smp.end \in EndKinds
      BY <1>1 DEF SampleOK
    <2> HIDE DEF new, smp
    <2>7. SampleOK(new, weights)
      BY <1>1, <2>2, <2>3, <2>5, <2>6, ExtendedOK
    <2> QED BY <2>1, <2>2, <2>5, <2>7, ReturnInv DEF new
  <1>12. CASE Retry(s)
    <2> DEFINE c == [at |-> "post", attempt |-> call[s].attempt + 1]
    <2>1. PICK st \in {smp.status, "FAILED"} : sample' = [sample EXCEPT ![s].status = st]
      BY <1>12 DEF Retry
    <2> DEFINE new == [smp EXCEPT !.status = st]
    <2>2. /\ stage = "flight" /\ call[s].at = "wait" /\ call[s].attempt < MaxRetry
          /\ call' = [call EXCEPT ![s] = c] /\ sample' = [sample EXCEPT ![s] = new]
          /\ UNCHANGED <<stage, outcome, flag, hit, launched, clockVars>>
      BY <1>12, <2>1 DEF Retry, CallAt, SamplesInv
    <2>3. /\ c \in [at: {"none", "sent", "post", "wait", "done"}, attempt: 0 .. MaxRetry]
          /\ c.at = "post"
      BY <1>3, <2>2
    <2>4. new \in SampleType /\ SampleOK(new, weights)
      <3>1. CASE st = "FAILED"
        BY <1>4, <3>1
      <3>2. CASE st = smp.status
        <4>1. new = smp
          BY <1>1, <3>2 DEF SampleType
        <4> QED BY <1>1, <4>1
      <3> QED BY <3>1, <3>2
    <2>5. /\ new.end = smp.end /\ new.ids = smp.ids /\ new.steps = smp.steps
      BY <1>1 DEF SampleType
    <2>6. smp.end # "eos" /\ (Partial \/ Blank(smp))
      BY <1>3, <2>2 DEF CallOK
    <2> HIDE DEF new, c
    <2>7. CallOK(new, c)
      BY <2>3, <2>5, <2>6 DEF CallOK, Blank
    <2> QED BY <2>2, <2>3, <2>4, <2>7, CallInv
  <1>13. CASE FailCall(s)
    BY <1>4, <1>13, ReturnInv DEF FailCall
  <1>14. CASE RaiseCall(s)
    <2>1. /\ stage' = "finished" /\ outcome' = "RAISED" /\ call' = NoCalls /\ hit' = {}
          /\ sample' = sample /\ flag' = flag /\ weights' = weights /\ step' = step
      BY <1>14 DEF RaiseCall, NoneInFlight, clockVars
    <2>2. OthersTyped'
      BY <2>1 DEF SamplesInv, OthersTyped, NoCalls
    <2>3. StageInv'
      BY <2>1 DEF StageInv, Stored
    <2> QED BY <2>1, <2>2, <2>3 DEF SamplesInv, Statuses
  <1> QED
    BY <1>5, <1>6, <1>7, <1>8, <1>9, <1>10, <1>11, <1>12, <1>13, <1>14 DEF WorkerNext

\* gather returns when every request has: the group fails with any of its samples.
LEMMA GatherInv == SamplesInv /\ Gather => SamplesInv'
  <1> SUFFICES ASSUME SamplesInv, Gather PROVE SamplesInv'
    OBVIOUS
  <1>1. /\ stage = "flight" /\ \A s \in Samples : call[s].at = "done"
        /\ stage' = "finished" /\ call' = NoCalls /\ hit' = {}
        /\ sample' = sample /\ flag' = flag /\ weights' = weights /\ step' = step
    BY DEF Gather, NoneInFlight, clockVars
  <1>2. OthersTyped'
    BY <1>1 DEF SamplesInv, OthersTyped, NoCalls
  <1>3. \A s \in Samples : sample[s].status \in {"COMPLETED", "ABORTED", "FAILED"}
    BY <1>1 DEF SamplesInv, StageInv, CallOK
  <1>4. /\ GroupStatus(sample) \in Statuses
        /\ (\E s \in Samples : sample[s].status = "FAILED") => GroupStatus(sample) = "FAILED"
    BY GroupStatusFacts DEF SamplesInv
  <1>5. outcome' = GroupStatus(sample) \/ (GroupStatus(sample) = "COMPLETED" /\ outcome' = "FILTERED")
    BY DEF Gather
  <1>6. outcome' \in Statuses
    BY <1>4, <1>5 DEF Statuses
  <1>7. \A s \in Samples : sample[s].status = "FAILED" => outcome' = "FAILED"
    BY <1>4, <1>5
  <1>8. StageInv'
    BY <1>1, <1>3, <1>7 DEF StageInv, Stored
  <1> QED BY <1>1, <1>2, <1>6, <1>8 DEF SamplesInv

\* A task that is cancelled, or claimed although it raised, leaves nothing behind.
LEMMA CancelInv == SamplesInv /\ Cancel => SamplesInv'
  <1> SUFFICES ASSUME SamplesInv, Cancel PROVE SamplesInv'
    OBVIOUS
  <1>1. OthersTyped'
    BY DEF SamplesInv, OthersTyped, Cancel, NoneInFlight, NoCalls, clockVars
  <1> QED BY <1>1, DroppedInv DEF Cancel

\* What put_generated_group stores has a version for every token and no failed sample.
LEMMA PutInv == SamplesInv /\ Put => SamplesInv'
  <1> SUFFICES ASSUME SamplesInv, Put PROVE SamplesInv'
    OBVIOUS
  <1>1. PICK modelStep \in 0 .. weights :
          LET grp == [s \in Samples |-> VersionedSample(sample[s], modelStep)]
          IN IF outcome \in {"FAILED", "FILTERED"} THEN Dropped
             ELSE IF AnyStale(grp, step) THEN Expire(grp)
             ELSE /\ stage' = "buffer"
                  /\ outcome' = GroupStatus(grp)
                  /\ sample' = grp
    BY DEF Put
  <1> DEFINE grp == [s \in Samples |-> VersionedSample(sample[s], modelStep)]
  <1>2. /\ stage = "finished" /\ outcome # "RAISED"
        /\ call' = call /\ flag' = flag /\ hit' = hit /\ weights' = weights /\ step' = step
    BY DEF Put, clockVars
  <1>3. OthersTyped' /\ weights \in Versions
    BY <1>2 DEF SamplesInv, OthersTyped
  <1>4. \A s \in Samples : /\ grp[s] \in SampleType /\ SampleOK(grp[s], weights)
                           /\ Len(grp[s].steps) = Len(grp[s].ids)
                           /\ grp[s].status = sample[s].status
    <2>1. \A s \in Samples : sample[s] \in SampleType /\ SampleOK(sample[s], weights)
      BY DEF SamplesInv
    <2>2. \A s \in Samples : grp[s] = VersionedSample(sample[s], modelStep)
      OBVIOUS
    <2> HIDE DEF grp
    <2>3. \A s \in Samples : LET new == VersionedSample(sample[s], modelStep)
                             IN /\ new \in SampleType /\ SampleOK(new, weights)
                                /\ Len(new.steps) = Len(new.ids)
                                /\ new.status = sample[s].status
      BY <1>3, <2>1, VersionedOK
    <2> QED BY <2>2, <2>3
  <1>5. grp \in [Samples -> SampleType]
    BY <1>4
  <1> HIDE DEF grp
  <1>6. CASE outcome \in {"FAILED", "FILTERED"}
    BY <1>1, <1>3, <1>6, DroppedInv
  <1>7. CASE outcome \notin {"FAILED", "FILTERED"} /\ AnyStale(grp, step)
    BY <1>1, <1>3, <1>5, <1>7, ExpiredInv DEF grp
  <1>8. CASE outcome \notin {"FAILED", "FILTERED"} /\ ~ AnyStale(grp, step)
    <2>1. stage' = "buffer" /\ outcome' = GroupStatus(grp) /\ sample' = grp
      BY <1>1, <1>8 DEF grp
    <2>2. \A s \in Samples : grp[s].status \in {"COMPLETED", "ABORTED"}
      BY <1>2, <1>4, <1>8 DEF SamplesInv, StageInv
    <2>3. /\ GroupStatus(grp) \in Statuses
          /\ GroupStatus(grp) = "COMPLETED" =>
               \A s \in Samples : grp[s].status \notin {"FAILED", "ABORTED", "EXPIRED"}
      BY <1>5, GroupStatusFacts
    <2>4. \A s \in Samples : /\ sample'[s].status \in {"COMPLETED", "ABORTED", "EXPIRED"}
                             /\ Len(sample'[s].steps) = Len(sample'[s].ids)
                             /\ outcome' = "COMPLETED" => sample'[s].status = "COMPLETED"
      BY <1>4, <2>1, <2>2, <2>3
    <2>5. StageInv'
      BY <2>1, <2>4 DEF StageInv, Stored
    <2>6. \A s \in Samples : SampleOK(sample'[s], weights')
      BY <1>2, <1>4, <2>1
    <2> QED BY <1>3, <1>5, <2>1, <2>3, <2>5, <2>6 DEF SamplesInv
  <1> QED BY <1>6, <1>7, <1>8

\* The refresh of get_batch expires the group or leaves it alone.
LEMMA NextStepInv == SamplesInv /\ NextStep => SamplesInv'
  <1> SUFFICES ASSUME SamplesInv, NextStep PROVE SamplesInv'
    OBVIOUS
  <1>1. OthersTyped'
    BY DEF SamplesInv, OthersTyped, NextStep
  <1>2. CASE Expire(sample)
    BY <1>1, <1>2, ExpiredInv DEF SamplesInv
  <1>3. CASE UNCHANGED <<stage, outcome, sample>>
    BY <1>1, <1>3 DEF SamplesInv, StageInv, Stored, NextStep
  <1> QED BY <1>2, <1>3 DEF NextStep

\* New weights reach the engine while no request is under way.
LEMMA WeightsInv == SamplesInv /\ UpdateWeights => SamplesInv'
  <1> SUFFICES ASSUME SamplesInv, UpdateWeights PROVE SamplesInv'
    OBVIOUS
  <1>1. /\ stage \in {"dataset", "buffer", "batch"}
        /\ sample' = sample /\ call' = call /\ stage' = stage /\ outcome' = outcome
        /\ flag' = flag /\ hit' = hit /\ step' = step /\ weights' \in (weights + 1) .. step
    BY DEF UpdateWeights, SamplesInv
  <1>2. OthersTyped'
    BY <1>1 DEF SamplesInv, OthersTyped, Versions
  <1>3. \A s \in Samples : SampleOK(sample[s], weights')
    <2> SUFFICES ASSUME NEW s \in Samples PROVE SampleOK(sample[s], weights')
      OBVIOUS
    <2>1. sample[s] \in SampleType /\ SampleOK(sample[s], weights)
      BY DEF SamplesInv
    <2>2. Len(sample[s].steps) = Len(sample[s].ids)
      <3>1. CASE stage = "dataset"
        BY <2>1, <3>1 DEF SamplesInv, StageInv, SampleOK, Blank
      <3>2. CASE stage \in {"buffer", "batch"}
        BY <3>2 DEF SamplesInv, StageInv, Stored
      <3> QED BY <1>1, <3>1, <3>2
    <2>3. Labelled(sample[s], weights')
      BY <2>1, <2>2 DEF SampleOK, Labelled, SampleType
    <2> QED BY <2>1, <2>3 DEF SampleOK
  <1>4. StageInv'
    BY <1>1 DEF SamplesInv, StageInv, Stored
  <1> QED BY <1>1, <1>2, <1>3, <1>4 DEF SamplesInv

\* Every step preserves the invariant.
LEMMA SamplesStep == SamplesInv /\ [Next]_vars => SamplesInv'
  <1> SUFFICES ASSUME SamplesInv, [Next]_vars PROVE SamplesInv'
    OBVIOUS
  <1>1. CASE TakeBatch
    <2>1. OthersTyped'
      BY <1>1 DEF SamplesInv, OthersTyped, TakeBatch, clockVars
    <2> QED BY <1>1, <2>1 DEF SamplesInv, StageInv, Stored, TakeBatch, clockVars
  <1>2. CASE TrainOneBatch
    <2>1. OthersTyped'
      BY <1>2 DEF SamplesInv, OthersTyped, TrainOneBatch, clockVars
    <2> QED BY <1>2, <2>1, DroppedInv DEF TrainOneBatch
  <1>3. ASSUME NEW s \in Samples, PauseWorker(s) \/ ContinueWorker(s)
        PROVE  SamplesInv'
    <2>1. OthersTyped'
      BY <1>3 DEF SamplesInv, OthersTyped, PauseWorker, ContinueWorker, clockVars
    <2> QED
      BY <1>3, <2>1 DEF SamplesInv, StageInv, Stored, PauseWorker, ContinueWorker, clockVars
  <1>4. CASE UNCHANGED vars
    BY <1>4 DEF vars, SamplesInv, OthersTyped, StageInv, Stored
  <1> QED
    BY <1>1, <1>2, <1>3, <1>4, LaunchInv, GatherInv, CancelInv, PutInv, NextStepInv,
       WeightsInv, WorkerInv DEF Next

-----------------------------------------------------------------------------
(***************************************************************************)
(* The theorems.                                                           *)
(***************************************************************************)
\* Samples, requests and the group's stage fit together in every reachable state.
THEOREM Invariance == Spec => []SamplesInv
  BY InitSamples, SamplesStep, PTL DEF Spec

\* The fields of samples, requests and workers keep their types.
THEOREM TypeCorrect == Spec => []TypeOK
  <1>1. SamplesInv => TypeOK
    BY DEF SamplesInv, OthersTyped, TypeOK, SampleType, Versions
  <1> QED BY <1>1, Invariance, PTL

\* A stored group has one version per token, however often its samples were
\* aborted, continued, reset or retried.
THEOREM Aligned == Spec => []VersionsAligned
  <1>1. SamplesInv => VersionsAligned
    BY DEF SamplesInv, StageInv, VersionsAligned
  <1> QED BY <1>1, Invariance, PTL

\* No stored token claims newer weights than those that generated it.
THEOREM NotOverstated == Spec => []TokensNeverOverstated
  <1>1. ASSUME SamplesInv, Stored, NEW s \in Samples, NEW i \in DOMAIN sample[s].ids
        PROVE  i \in DOMAIN sample[s].steps /\ sample[s].steps[i] <= sample[s].ids[i]
    <2>1. /\ sample[s] \in SampleType /\ Labelled(sample[s], weights)
          /\ Len(sample[s].steps) = Len(sample[s].ids)
      BY <1>1 DEF SamplesInv, StageInv, SampleOK
    <2>2. i \in 1 .. Len(sample[s].steps)
      BY <1>1, <2>1 DEF SampleType
    <2> QED BY <2>1, <2>2 DEF Labelled, SampleType
  <1>2. SamplesInv => TokensNeverOverstated
    BY <1>1 DEF TokensNeverOverstated
  <1> QED BY <1>2, Invariance, PTL

\* The response of a sample never outgrows max_tokens.
THEOREM BudgetKept == Spec => []WithinBudget
  <1>1. SamplesInv => WithinBudget
    BY DEF SamplesInv, SampleOK, WithinBudget
  <1> QED BY <1>1, Invariance, PTL

\* A batch holds completed samples with responses only.
THEOREM BatchesComplete == Spec => []BatchIsComplete
  <1>1. SamplesInv => BatchIsComplete
    BY DEF SamplesInv, StageInv, SampleOK, Stored, BatchIsComplete
  <1> QED BY <1>1, Invariance, PTL

\* When every early end of a response is a token of the worker's eos_token, no
\* response that ended is sent to the engine again (stop_tokens shows that the
\* assumption is needed).
THEOREM EndedStaysEnded ==
  ASSUME "stop" \notin EndKinds
  PROVE  Spec => []NothingAfterEnd
  <1>1. ASSUME SamplesInv, NEW s \in Samples, CallAt(s, "wait")
        PROVE  sample[s].end = "no"
    <2>1. CallOK(sample[s], call[s]) /\ SampleOK(sample[s], weights)
      BY <1>1 DEF SamplesInv, StageInv, CallAt
    <2> QED BY <1>1, <2>1 DEF CallAt, CallOK, SampleOK
  <1>2. SamplesInv => NothingAfterEnd
    BY <1>1 DEF NothingAfterEnd
  <1> QED BY <1>2, Invariance, PTL

-----------------------------------------------------------------------------
(***************************************************************************)
(* With partial rollout tokens are only added.                             *)
(***************************************************************************)
\* A sequence that agrees with a longer one is a prefix of it.
LEMMA PrefixOK ==
  ASSUME NEW a \in Seq(Versions), NEW b \in Seq(Versions), Len(a) <= Len(b),
         \A i \in 1 .. Len(a) : b[i] = a[i]
  PROVE  IsPrefix(a, b)
  <1>1. SubSeq(a, 1, Len(a)) = SubSeq(b, 1, Len(a))
    OBVIOUS
  <1> QED BY <1>1 DEF IsPrefix

\* A sample keeps the tokens it had in the state before.
KeepsTokens(s) == IsPrefix(sample[s].ids, sample'[s].ids)

\* A sample whose tokens are the same, or that was extended.
LEMMA KeptOK ==
  ASSUME SamplesInv, Partial, NEW s \in Samples,
         \/ sample'[s].ids = sample[s].ids
         \/ \E n \in Nat : sample'[s].ids = Extended(sample[s], n)
  PROVE  KeepsTokens(s)
  <1>1. sample[s] \in SampleType /\ sample[s].ids \in Seq(Versions) /\ weights \in Versions
    BY DEF SamplesInv, SampleType, OthersTyped
  <1>2. CASE sample'[s].ids = sample[s].ids
    BY <1>1, <1>2, PrefixOK DEF KeepsTokens
  <1>3. CASE \E n \in Nat : sample'[s].ids = Extended(sample[s], n)
    <2>1. PICK n \in Nat : sample'[s].ids = Extended(sample[s], n)
      BY <1>3
    <2>2. /\ Extended(sample[s], n) \in Seq(Versions)
          /\ Len(Extended(sample[s], n)) = Len(sample[s].ids) + n
          /\ \A i \in 1 .. Len(sample[s].ids) : Extended(sample[s], n)[i] = sample[s].ids[i]
      BY <1>1, ExtendedTokens
    <2>3. IsPrefix(sample[s].ids, Extended(sample[s], n))
      <3> DEFINE ids == Extended(sample[s], n)
      <3> HIDE DEF ids
      <3>1. /\ ids \in Seq(Versions) /\ Len(ids) = Len(sample[s].ids) + n
            /\ \A i \in 1 .. Len(sample[s].ids) : ids[i] = sample[s].ids[i]
        BY <2>2, Zenon DEF ids
      <3>2. Len(sample[s].ids) <= Len(ids)
        BY <1>1, <3>1
      <3>3. IsPrefix(sample[s].ids, ids)
        BY <1>1, <3>1, <3>2, PrefixOK
      <3> QED BY <3>3, Zenon DEF ids
    <2> QED BY <2>1, <2>3, Zenon DEF KeepsTokens
  <1> QED BY <1>2, <1>3

\* A step of a request: with partial rollout nothing is reset.
LEMMA WorkerKeeps ==
  ASSUME SamplesInv, Partial, NEW t \in Samples, WorkerNext(t), NEW s \in Samples
  PROVE  KeepsTokens(s)
  <1> DEFINE smp == sample[t]
  <1>1. smp \in SampleType /\ sample \in [Samples -> SampleType]
    BY DEF SamplesInv
  <1>2. Prepared(smp) = smp
    BY DEF Prepared
  <1>3. ASSUME NEW x, x.ids = smp.ids \/ (\E n \in Nat : x.ids = Extended(smp, n)),
               sample' = [sample EXCEPT ![t] = x]
        PROVE  KeepsTokens(s)
    <2>1. CASE s = t
      BY <1>1, <1>3, <2>1, KeptOK
    <2>2. CASE s # t
      BY <1>1, <1>3, <2>2, KeptOK
    <2> QED BY <2>1, <2>2
  <1>4. \A st : [smp EXCEPT !.status = st].ids = smp.ids
    BY <1>1 DEF SampleType
  <1>5. CASE RefuseCall(t) \/ AbortCall(t) \/ FailCall(t)
    <2>1. \E st : sample' = [sample EXCEPT ![t] = [smp EXCEPT !.status = st]]
      BY <1>5 DEF RefuseCall, AbortCall, FailCall, Return
    <2> QED BY <1>3, <1>4, <2>1
  <1>6. CASE SkipCall(t)
    <2>1. sample' = [sample EXCEPT ![t] = [smp EXCEPT !.status = "COMPLETED"]]
      BY <1>2, <1>6 DEF SkipCall, Return
    <2> QED BY <1>3, <1>4, <2>1
  <1>7. CASE AcceptCall(t)
    BY <1>2, <1>3, <1>7 DEF AcceptCall
  <1>8. CASE PostRequest(t) \/ RaiseCall(t)
    BY <1>8, KeptOK DEF PostRequest, RaiseCall
  <1>9. CASE CompleteResponse(t)
    <2>1. PICK n \in 1 .. Remaining(smp), end \in EndKinds \union {"no"} :
            sample' = [sample EXCEPT ![t] = [smp EXCEPT !.status = "COMPLETED", !.end = end,
                                                        !.ids = Extended(smp, n)]]
      BY <1>9 DEF CompleteResponse, Return
    <2>2. n \in Nat
      BY <1>1 DEF Remaining, SampleType
    <2>3. [smp EXCEPT !.status = "COMPLETED", !.end = end, !.ids = Extended(smp, n)].ids
            = Extended(smp, n)
      BY <1>1 DEF SampleType
    <2> QED BY <1>3, <2>1, <2>2, <2>3
  <1>10. CASE AbortedResponse(t)
    <2>1. PICK n \in 0 .. Remaining(smp) - 1 :
            sample' = [sample EXCEPT ![t] = [smp EXCEPT !.status = "ABORTED",
                                                        !.ids = Extended(smp, n)]]
      BY <1>10 DEF AbortedResponse, Return
    <2>2. n \in Nat
      BY <1>1 DEF Remaining, SampleType
    <2>3. [smp EXCEPT !.status = "ABORTED", !.ids = Extended(smp, n)].ids = Extended(smp, n)
      BY <1>1 DEF SampleType
    <2> QED BY <1>3, <2>1, <2>2, <2>3
  <1>11. CASE Retry(t)
    <2>1. PICK st : sample' = [sample EXCEPT ![t] = [smp EXCEPT !.status = st]]
      BY <1>11 DEF Retry
    <2> QED BY <1>3, <1>4, <2>1
  <1> QED
    BY <1>5, <1>6, <1>7, <1>8, <1>9, <1>10, <1>11 DEF WorkerNext

\* Nor does the group lose tokens, unless it is dropped or expires.
LEMMA StepKeeps ==
  ASSUME SamplesInv, Partial, [Next]_vars, stage' # "dataset", outcome' # "EXPIRED",
         NEW s \in Samples
  PROVE  KeepsTokens(s)
  <1>1. CASE UNCHANGED sample
    BY <1>1, KeptOK
  <1>2. CASE Cancel \/ TrainOneBatch
    BY <1>2 DEF Cancel, TrainOneBatch, Dropped
  <1>3. CASE Put
    <2>1. PICK modelStep \in 0 .. weights :
            sample' = [t \in Samples |-> VersionedSample(sample[t], modelStep)]
      BY <1>3 DEF Put, Dropped, Expire
    <2>2. sample[s] \in SampleType
      BY DEF SamplesInv
    <2>3. VersionedSample(sample[s], modelStep).ids = sample[s].ids
      BY <2>2 DEF VersionedSample, SampleType
    <2>4. sample'[s] = VersionedSample(sample[s], modelStep)
      BY <2>1
    <2> QED BY <2>3, <2>4, KeptOK
  <1>4. CASE NextStep
    BY <1>1, <1>4 DEF NextStep, Expire, Dropped
  <1>5. ASSUME NEW t \in Samples, WorkerNext(t)
        PROVE  KeepsTokens(s)
    BY <1>5, WorkerKeeps
  <1>6. CASE \/ Launch \/ Gather \/ TakeBatch \/ UpdateWeights \/ UNCHANGED vars
             \/ \E t \in Samples : PauseWorker(t) \/ ContinueWorker(t)
    BY <1>1, <1>6 DEF Launch, Gather, TakeBatch, UpdateWeights, vars, PauseWorker, ContinueWorker
  <1> QED BY <1>2, <1>3, <1>4, <1>5, <1>6 DEF Next

\* With partial rollout no step loses a token of a group that is kept.
THEOREM NoTokenLost == Spec => TokensKept
  <1>1. SamplesInv /\ [Next]_vars =>
          [Partial /\ stage' # "dataset" /\ outcome' # "EXPIRED" =>
             \A s \in Samples : IsPrefix(sample[s].ids, sample'[s].ids)]_vars
    BY StepKeeps DEF KeepsTokens
  <1> QED BY <1>1, Invariance, PTL DEF Spec, TokensKept

-----------------------------------------------------------------------------
(***************************************************************************)
(* The samples as one group record.                                        *)
(***************************************************************************)
\* The versions of a group, its tokens, and its tokens that have a version.
Labels(grp) ==
  {x \in Versions : \E s \in Samples : \E i \in 1 .. Len(grp[s].steps) : x = grp[s].steps[i]}
Tokens(grp) ==
  {x \in Versions : \E s \in Samples : \E i \in 1 .. Len(grp[s].ids) : x = grp[s].ids[i]}
OldTokens(grp) ==
  {x \in Versions : \E s \in Samples : \E i \in 1 .. Len(grp[s].steps) : x = grp[s].ids[i]}

Gained(grp) == \E s \in Samples : Len(grp[s].ids) > Len(grp[s].steps)

LeastOf(S) == IF S = {} THEN NoTokens ELSE Min(S)

\* What is left of the tokens the group was launched with, as in Kept.
LeftOf(grp) == [ver |-> LeastOf(Labels(grp)), act |-> LeastOf(OldTokens(grp))]
Sent == [ver |-> launched.ver, act |-> launched.act, since |-> weights]

\* No token of the group is from newer weights.
Past(grp, w) == \A s \in Samples : \A i \in 1 .. Len(grp[s].ids) : grp[s].ids[i] <= w

\* A request is aborted only by a pause since the launch, and the tokens that
\* are left are among those Kept allows.
FlightInv ==
  /\ \A s \in Samples : flag[s] => s \in hit
  /\ \A s \in Samples : call[s].at = "done" /\ sample[s].status = "ABORTED" => hit # {}
  /\ LeftOf(sample) \in Kept(Sent)

FinishedInv ==
  /\ outcome \in {"COMPLETED", "ABORTED", "FAILED", "FILTERED", "RAISED"}
  /\ outcome \in {"COMPLETED", "ABORTED"} => outcome = GroupStatus(sample)

LifeInv ==
  /\ SamplesInv
  /\ Past(sample, weights)
  /\ launched \in [ver : Versions \cup {NoTokens}, act : Versions \cup {NoTokens}]
  /\ stage = "flight" => FlightInv
  /\ stage = "finished" => FinishedInv

-----------------------------------------------------------------------------
(***************************************************************************)
(* Oldest versions.                                                        *)
(***************************************************************************)
\* A set of naturals has a least element, which Min gives.
LEMMA MinOfNats ==
  ASSUME NEW S \in SUBSET Nat, S # {}
  PROVE  Min(S) \in S /\ \A x \in S : Min(S) <= x
  <1> DEFINE Below == {0 .. x : x \in S}
  <1>1. Below \subseteq FiniteSubsetsOf(Nat)
    <2>1. ASSUME NEW x \in S PROVE 0 .. x \in SUBSET Nat /\ IsFiniteSet(0 .. x)
      BY FS_Interval
    <2> QED
      BY <2>1 DEF FiniteSubsetsOf
  <1>2. Below # {} /\ IsWellFoundedOn(StrictSubsetOrdering(Nat), FiniteSubsetsOf(Nat))
    BY FS_StrictSubsetOrderingWellFounded
  <1>3. \E t \in Below : \A u \in Below : ~ (<<u, t>> \in StrictSubsetOrdering(Nat))
    <2> HIDE DEF Below
    <2> QED
      BY <1>1, <1>2, WFMin
  <1>4. PICK x \in S : \A y \in S : ~ (<<0 .. y, 0 .. x>> \in StrictSubsetOrdering(Nat))
    BY <1>3
  <1>5. ASSUME NEW y \in S PROVE x <= y
    <2> SUFFICES ASSUME y < x PROVE FALSE
      OBVIOUS
    <2>1. 0 .. y \in SUBSET (0 .. x) /\ x \in 0 .. x /\ x \notin 0 .. y /\ 0 .. x \subseteq Nat
      OBVIOUS
    <2> QED
      BY <2>1, <1>4 DEF StrictSubsetOrdering
  <1> QED
    BY <1>5 DEF Min

\* The least of a set of versions, or NoTokens if there is none.
LEMMA LeastFacts ==
  ASSUME NEW S \in SUBSET Nat
  PROVE  /\ LeastOf(S) \in Nat \cup {NoTokens}
         /\ LeastOf(S) = NoTokens <=> S = {}
         /\ S # {} => LeastOf(S) \in S
         /\ \A x \in S : LeastOf(S) <= x
  <1>1. CASE S = {}
    BY <1>1 DEF LeastOf
  <1>2. CASE S # {}
    <2>1. LeastOf(S) \in S /\ \A x \in S : LeastOf(S) <= x
      BY <1>2, MinOfNats DEF LeastOf
    <2>2. LeastOf(S) \in Nat
      BY <2>1
    <2>3. LeastOf(S) # NoTokens
      BY <2>2 DEF NoTokens
    <2> QED
      BY <1>2, <2>1, <2>2, <2>3
  <1> QED
    BY <1>1, <1>2

\* What is left is not older, or nothing is left.
LEMMA LeastOfFewer ==
  ASSUME NEW T \in SUBSET Nat, NEW S \in SUBSET T
  PROVE  LeastOf(S) = NoTokens \/ (LeastOf(S) \in Nat /\ LeastOf(T) \in Nat /\ LeastOf(T) <= LeastOf(S))
  <1>1. S \in SUBSET Nat
    OBVIOUS
  <1>2. CASE S = {}
    BY <1>2 DEF LeastOf
  <1>3. CASE S # {}
    <2>1. LeastOf(S) \in S /\ T # {}
      BY <1>1, <1>3, LeastFacts
    <2>2. LeastOf(T) \in T /\ LeastOf(T) <= LeastOf(S)
      BY <2>1, LeastFacts
    <2> QED
      BY <2>1, <2>2
  <1> QED
    BY <1>2, <1>3

\* One more version.
LEMMA LeastOfMore ==
  ASSUME NEW S \in SUBSET Nat, NEW w \in Nat
  PROVE  LeastOf(S \cup {w}) = OldestVersion(LeastOf(S), w)
  <1> DEFINE T == S \cup {w}
  <1>1. T \in SUBSET Nat /\ T # {}
    OBVIOUS
  <1>2. /\ LeastOf(T) \in T /\ \A x \in T : LeastOf(T) <= x
        /\ LeastOf(T) \in Nat
    <2> HIDE DEF T
    <2> QED
      BY <1>1, LeastFacts
  <1>3. w # NoTokens
    BY DEF NoTokens
  <1>4. CASE S = {}
    <2>1. LeastOf(S) = NoTokens
      BY <1>4 DEF LeastOf
    <2>2. LeastOf(T) = w
      BY <1>2, <1>4
    <2> QED
      BY <2>1, <2>2 DEF OldestVersion
  <1>5. CASE S # {}
    <2>1. /\ LeastOf(S) \in S /\ \A x \in S : LeastOf(S) <= x
          /\ LeastOf(S) # NoTokens /\ LeastOf(S) \in Nat
      BY <1>5, LeastFacts
    <2>2. LeastOf(T) <= LeastOf(S) /\ LeastOf(T) <= w
      BY <1>2, <2>1
    <2>3. CASE LeastOf(T) = w
      BY <1>2, <1>3, <2>1, <2>2, <2>3 DEF OldestVersion
    <2>4. CASE LeastOf(T) \in S
      <3>1. LeastOf(T) = LeastOf(S)
        <4>1. LeastOf(S) <= LeastOf(T) /\ LeastOf(S) \in Nat
          BY <2>1, <2>4
        <4> QED
          BY <4>1, <2>2, <1>2
      <3> QED
        BY <1>3, <2>1, <2>2, <3>1 DEF OldestVersion
    <2> QED
      BY <1>2, <2>3, <2>4
  <1> QED
    BY <1>4, <1>5

\* Versions are numbers.
LEMMA VersionsAreNats == Versions \in SUBSET Nat
  BY DEF Versions

\* The sets of versions and tokens are those Oldest looks at.
LEMMA OldestOf ==
  ASSUME NEW grp \in [Samples -> SampleType]
  PROVE  OldestLabel(grp) = LeastOf(Labels(grp)) /\ OldestToken(grp) = LeastOf(Tokens(grp))
  <1>1. ASSUME NEW seq \in [Samples -> Seq(Versions)]
        PROVE  UNION {Range(seq[s]) : s \in Samples}
                 = {x \in Versions : \E s \in Samples : \E i \in 1 .. Len(seq[s]) : x = seq[s][i]}
    <2>1. \A s \in Samples : Range(seq[s]) = {x \in Versions : \E i \in 1 .. Len(seq[s]) : x = seq[s][i]}
      <3> TAKE s \in Samples
      <3>1. seq[s] \in Seq(Versions)
        OBVIOUS
      <3>2. DOMAIN seq[s] = 1 .. Len(seq[s]) /\ \A i \in 1 .. Len(seq[s]) : seq[s][i] \in Versions
        BY <3>1
      <3> QED
        BY <3>2 DEF Range
    <2> QED
      BY <2>1
  <1>2. \A s \in Samples : grp[s].steps \in Seq(Versions) /\ grp[s].ids \in Seq(Versions)
    BY DEF SampleType
  <1>3. OldestLabel(grp) = LeastOf(Labels(grp))
    <2> DEFINE seq == [s \in Samples |-> grp[s].steps]
    <2>1. seq \in [Samples -> Seq(Versions)] /\ \A s \in Samples : seq[s] = grp[s].steps
      BY <1>2
    <2>2. OldestLabel(grp) = Oldest(seq)
      BY DEF OldestLabel
    <2> HIDE DEF seq
    <2>3. UNION {Range(seq[s]) : s \in Samples} = Labels(grp)
      <3>1. UNION {Range(seq[s]) : s \in Samples}
              = {x \in Versions : \E s \in Samples : \E i \in 1 .. Len(seq[s]) : x = seq[s][i]}
        BY <1>1, <2>1
      <3>2. \A x : (\E s \in Samples : \E i \in 1 .. Len(seq[s]) : x = seq[s][i])
                   <=> (\E s \in Samples : \E i \in 1 .. Len(grp[s].steps) : x = grp[s].steps[i])
        BY <2>1, Zenon
      <3> QED
        BY <3>1, <3>2, Zenon DEF Labels
    <2> QED
      BY <2>2, <2>3 DEF Oldest, LeastOf
  <1>4. OldestToken(grp) = LeastOf(Tokens(grp))
    <2> DEFINE seq == [s \in Samples |-> grp[s].ids]
    <2>1. seq \in [Samples -> Seq(Versions)] /\ \A s \in Samples : seq[s] = grp[s].ids
      BY <1>2
    <2>2. OldestToken(grp) = Oldest(seq)
      BY DEF OldestToken
    <2> HIDE DEF seq
    <2>3. UNION {Range(seq[s]) : s \in Samples} = Tokens(grp)
      <3>1. UNION {Range(seq[s]) : s \in Samples}
              = {x \in Versions : \E s \in Samples : \E i \in 1 .. Len(seq[s]) : x = seq[s][i]}
        BY <1>1, <2>1
      <3>2. \A x : (\E s \in Samples : \E i \in 1 .. Len(seq[s]) : x = seq[s][i])
                   <=> (\E s \in Samples : \E i \in 1 .. Len(grp[s].ids) : x = grp[s].ids[i])
        BY <2>1, Zenon
      <3> QED
        BY <3>1, <3>2, Zenon DEF Tokens
    <2> QED
      BY <2>2, <2>3 DEF Oldest, LeastOf
  <1> QED
    BY <1>3, <1>4

\* Generation added tokens of the engine's weights, and no others.
LEMMA TokensSplit ==
  ASSUME NEW grp \in [Samples -> SampleType], NEW w \in Versions,
         \A s \in Samples : Labelled(grp[s], w)
  PROVE  OldestToken(grp) = IF Gained(grp) THEN OldestVersion(LeastOf(OldTokens(grp)), w)
                            ELSE LeastOf(OldTokens(grp))
  <1>1. \A s \in Samples : Len(grp[s].steps) \in Nat /\ Len(grp[s].ids) \in Nat
    BY DEF SampleType
  <1>2. \A s \in Samples : Len(grp[s].steps) <= Len(grp[s].ids)
    BY DEF Labelled
  <1>3. OldTokens(grp) \subseteq Tokens(grp)
    BY <1>1, <1>2 DEF OldTokens, Tokens
  <1>4. CASE Gained(grp)
    <2>1. PICK s \in Samples : Len(grp[s].ids) > Len(grp[s].steps)
      BY <1>4 DEF Gained
    <2>2. Len(grp[s].ids) \in 1 .. Len(grp[s].ids) /\ grp[s].ids[Len(grp[s].ids)] = w
      BY <2>1, <1>1 DEF Labelled
    <2>3. w \in Tokens(grp)
      BY <2>2 DEF Tokens
    <2>4. ASSUME NEW x \in Tokens(grp) PROVE x \in OldTokens(grp) \/ x = w
      <3>0. PICK t \in Samples : \E i \in 1 .. Len(grp[t].ids) : x = grp[t].ids[i]
        BY <2>4 DEF Tokens
      <3>1. PICK i \in 1 .. Len(grp[t].ids) : x = grp[t].ids[i]
        BY <3>0
      <3>2. CASE i <= Len(grp[t].steps)
        BY <3>1, <3>2, <1>1, <2>4 DEF OldTokens, Tokens
      <3>3. CASE i > Len(grp[t].steps)
        BY <3>1, <3>3, <1>1 DEF Labelled
      <3> QED
        BY <3>2, <3>3, <1>1
    <2>5. Tokens(grp) = OldTokens(grp) \cup {w}
      BY <2>3, <2>4, <1>3
    <2>6. OldTokens(grp) \in SUBSET Nat /\ w \in Nat
      BY VersionsAreNats DEF OldTokens
    <2> QED
      BY <1>4, <2>5, <2>6, OldestOf, LeastOfMore
  <1>5. CASE ~ Gained(grp)
    <2>1. \A s \in Samples : Len(grp[s].ids) = Len(grp[s].steps)
      BY <1>5, <1>1, <1>2 DEF Gained
    <2>2. Tokens(grp) = OldTokens(grp)
      BY <2>1 DEF Tokens, OldTokens
    <2> QED
      BY <1>5, <2>2, OldestOf
  <1> QED
    BY <1>4, <1>5

\* The oldest version of a group is not newer than its oldest token that has one.
LEMMA LeftOrder ==
  ASSUME NEW grp \in [Samples -> SampleType], NEW w \in Versions,
         \A s \in Samples : Labelled(grp[s], w)
  PROVE  /\ LeftOf(grp).ver \in Versions \cup {NoTokens} /\ LeftOf(grp).act \in Versions \cup {NoTokens}
         /\ LeftOf(grp).ver <= LeftOf(grp).act
         /\ LeftOf(grp).ver = NoTokens <=> LeftOf(grp).act = NoTokens
  <1>1. Labels(grp) \in SUBSET Versions /\ OldTokens(grp) \in SUBSET Versions
    BY DEF Labels, OldTokens
  <1>2. \A s \in Samples : /\ Len(grp[s].steps) \in Nat /\ Len(grp[s].ids) \in Nat
                           /\ Len(grp[s].steps) <= Len(grp[s].ids)
                           /\ \A i \in 1 .. Len(grp[s].steps) :
                                /\ grp[s].steps[i] \in Versions /\ grp[s].ids[i] \in Versions
                                /\ grp[s].steps[i] <= grp[s].ids[i]
    <2> TAKE s \in Samples
    <2>1. grp[s].steps \in Seq(Versions) /\ grp[s].ids \in Seq(Versions)
      BY DEF SampleType
    <2> QED
      BY <2>1 DEF Labelled
  <1>3. Labels(grp) = {} <=> OldTokens(grp) = {}
    <2>1. \A s \in Samples : \A i \in 1 .. Len(grp[s].steps) :
            grp[s].steps[i] \in Labels(grp) /\ grp[s].ids[i] \in OldTokens(grp)
      BY <1>2 DEF Labels, OldTokens
    <2> QED
      BY <2>1 DEF Labels, OldTokens
  <1>4. LeftOf(grp).ver = LeastOf(Labels(grp)) /\ LeftOf(grp).act = LeastOf(OldTokens(grp))
    BY DEF LeftOf
  <1>5. CASE OldTokens(grp) = {}
    BY <1>3, <1>4, <1>5 DEF LeastOf, NoTokens
  <1>6. CASE OldTokens(grp) # {}
    <2>1. /\ LeastOf(OldTokens(grp)) \in OldTokens(grp)
          /\ LeastOf(Labels(grp)) \in Labels(grp)
          /\ \A x \in Labels(grp) : LeastOf(Labels(grp)) <= x
          /\ LeastOf(OldTokens(grp)) # NoTokens /\ LeastOf(Labels(grp)) # NoTokens
      BY <1>1, <1>3, <1>6, VersionsAreNats, LeastFacts
    <2>0. PICK s \in Samples :
            \E i \in 1 .. Len(grp[s].steps) : LeastOf(OldTokens(grp)) = grp[s].ids[i]
      BY <2>1 DEF OldTokens
    <2>2. PICK i \in 1 .. Len(grp[s].steps) : LeastOf(OldTokens(grp)) = grp[s].ids[i]
      BY <2>0
    <2>3. LeastOf(Labels(grp)) <= grp[s].steps[i] /\ grp[s].steps[i] <= grp[s].ids[i]
      BY <2>1, <2>2, <1>2 DEF Labels
    <2>4. LeastOf(Labels(grp)) \in Nat /\ grp[s].steps[i] \in Nat /\ grp[s].ids[i] \in Nat
      BY <2>1, <1>1, <1>2, VersionsAreNats
    <2> QED
      BY <1>1, <1>4, <2>1, <2>2, <2>3, <2>4
  <1> QED
    BY <1>5, <1>6

-----------------------------------------------------------------------------
(***************************************************************************)
(* What is left of the tokens while the requests are under way.            *)
(***************************************************************************)
\* What is left is not newer than the engine's weights.
LEMMA LeftPast ==
  ASSUME NEW grp \in [Samples -> SampleType], NEW w \in Versions,
         \A s \in Samples : Labelled(grp[s], w), Past(grp, w)
  PROVE  LeftOf(grp).ver <= w /\ LeftOf(grp).act <= w
  <1>1. /\ LeftOf(grp).ver \in Versions \cup {NoTokens} /\ LeftOf(grp).act \in Versions \cup {NoTokens}
        /\ LeftOf(grp).ver <= LeftOf(grp).act
    BY LeftOrder
  <1>2. LeftOf(grp).act = LeastOf(OldTokens(grp)) /\ OldTokens(grp) \in SUBSET Nat
    BY VersionsAreNats DEF LeftOf, OldTokens
  <1>3. CASE OldTokens(grp) = {}
    BY <1>1, <1>2, <1>3 DEF LeastOf, NoTokens, Versions
  <1>4. CASE OldTokens(grp) # {}
    <2>1. LeftOf(grp).act \in OldTokens(grp)
      BY <1>2, <1>4, LeastFacts
    <2>2. PICK s \in Samples : \E i \in 1 .. Len(grp[s].steps) : LeftOf(grp).act = grp[s].ids[i]
      BY <2>1 DEF OldTokens
    <2>3. Len(grp[s].steps) \in Nat /\ Len(grp[s].ids) \in Nat /\ Len(grp[s].steps) <= Len(grp[s].ids)
      BY DEF SampleType, Labelled
    <2>4. LeftOf(grp).act <= w
      BY <2>2, <2>3 DEF Past
    <2> QED
      BY <1>1, <2>4 DEF Versions, NoTokens
  <1> QED
    BY <1>3, <1>4

\* A request adds tokens of the engine's weights, or starts over.
Grown(old, new) ==
  /\ new.steps = old.steps
  /\ Len(old.ids) <= Len(new.ids)
  /\ \A i \in 1 .. Len(old.ids) : new.ids[i] = old.ids[i]
  /\ \A i \in 1 .. Len(new.ids) : i > Len(old.ids) => new.ids[i] = weights

Emptied(new) == new.steps = <<>> /\ new.ids = <<>>

\* A request that only adds tokens leaves what is left as it is.
LEMMA GrownLeft ==
  ASSUME NEW grp \in [Samples -> SampleType], NEW t \in Samples, NEW new \in SampleType,
         Labelled(grp[t], weights), Grown(grp[t], new)
  PROVE  LeftOf([grp EXCEPT ![t] = new]) = LeftOf(grp)
  <1> DEFINE after == [grp EXCEPT ![t] = new]
  <1>1. /\ \A s \in Samples : s # t => after[s] = grp[s]
        /\ after[t] = new
    OBVIOUS
  <1> HIDE DEF after
  <1>2. Len(grp[t].steps) \in Nat /\ Len(grp[t].ids) \in Nat /\ Len(grp[t].steps) <= Len(grp[t].ids)
    BY DEF SampleType, Labelled
  <1>3. \A s \in Samples : after[s].steps = grp[s].steps
    BY <1>1 DEF Grown
  <1>4. \A s \in Samples : \A i \in 1 .. Len(grp[s].steps) : after[s].ids[i] = grp[s].ids[i]
    BY <1>1, <1>2 DEF Grown
  <1>5. Labels(after) = Labels(grp)
    BY <1>3 DEF Labels
  <1>6. OldTokens(after) = OldTokens(grp)
    BY <1>3, <1>4 DEF OldTokens
  <1> QED
    BY <1>5, <1>6 DEF LeftOf, after

\* A request that starts over leaves fewer of the earlier tokens.
LEMMA EmptiedLeft ==
  ASSUME NEW grp \in [Samples -> SampleType], NEW t \in Samples, NEW new \in SampleType,
         Emptied(new)
  PROVE  /\ Labels([grp EXCEPT ![t] = new]) \subseteq Labels(grp)
         /\ OldTokens([grp EXCEPT ![t] = new]) \subseteq OldTokens(grp)
  <1> DEFINE after == [grp EXCEPT ![t] = new]
  <1>1. /\ \A s \in Samples : s # t => after[s] = grp[s]
        /\ after[t] = new
    OBVIOUS
  <1> HIDE DEF after
  <1>2. Len(after[t].steps) = 0
    BY <1>1 DEF Emptied
  <1>3. \A s \in Samples : \A i \in 1 .. Len(after[s].steps) : after[s] = grp[s]
    BY <1>1, <1>2
  <1>4. Labels(after) \subseteq Labels(grp)
    BY <1>3 DEF Labels
  <1>5. OldTokens(after) \subseteq OldTokens(grp)
    BY <1>3 DEF OldTokens
  <1> QED
    BY <1>4, <1>5 DEF after

\* Without partial rollout any part of what is left may be left.
LEMMA KeptFewer ==
  ASSUME ~ Partial, weights \in Versions,
         launched \in [ver : Versions \cup {NoTokens}, act : Versions \cup {NoTokens}],
         NEW grp \in [Samples -> SampleType], NEW after \in [Samples -> SampleType],
         \A s \in Samples : Labelled(grp[s], weights),
         \A s \in Samples : Labelled(after[s], weights),
         Past(after, weights),
         Labels(after) \subseteq Labels(grp), OldTokens(after) \subseteq OldTokens(grp),
         LeftOf(grp) \in Kept(Sent)
  PROVE  LeftOf(after) \in Kept(Sent)
  <1> DEFINE k == LeftOf(grp)
             j == LeftOf(after)
  <1>1. /\ k = [ver |-> k.ver, act |-> k.act] /\ j = [ver |-> j.ver, act |-> j.act]
        /\ k.ver = LeastOf(Labels(grp)) /\ k.act = LeastOf(OldTokens(grp))
        /\ j.ver = LeastOf(Labels(after)) /\ j.act = LeastOf(OldTokens(after))
    BY DEF LeftOf
  <1> HIDE DEF k, j
  <1>2. /\ k.ver \in Versions \cup {NoTokens} /\ k.act \in Versions \cup {NoTokens}
        /\ k.ver = NoTokens <=> k.act = NoTokens
    BY LeftOrder DEF k
  <1>3. /\ j.ver \in Versions \cup {NoTokens} /\ j.act \in Versions \cup {NoTokens}
        /\ j.ver <= j.act
        /\ j.ver = NoTokens <=> j.act = NoTokens
    BY LeftOrder DEF j
  <1>4. j.ver <= weights /\ j.act <= weights
    BY LeftPast DEF j
  <1>5. /\ j.ver = NoTokens \/ (j.ver \in Nat /\ k.ver \in Nat /\ k.ver <= j.ver)
        /\ j.act = NoTokens \/ (j.act \in Nat /\ k.act \in Nat /\ k.act <= j.act)
    <2>1. Labels(grp) \in SUBSET Nat /\ OldTokens(grp) \in SUBSET Nat
      BY VersionsAreNats DEF Labels, OldTokens
    <2> QED
      BY <1>1, <2>1, LeastOfFewer
  <1>6. Sent.ver = launched.ver /\ Sent.act = launched.act /\ Sent.since = weights
    BY DEF Sent
  <1>7. launched.ver \in Versions \cup {NoTokens} /\ launched.act \in Versions \cup {NoTokens}
    OBVIOUS
  <1>8. CASE launched.ver = NoTokens
    <2>1. Kept(Sent) = {[ver |-> launched.ver, act |-> launched.act]}
      BY <1>6, <1>8 DEF Kept
    <2>2. k.ver = NoTokens /\ k.act = NoTokens
      BY <2>1, <1>2, <1>8 DEF k
    <2>3. j.ver = NoTokens /\ j.act = NoTokens
      BY <2>2, <1>3, <1>5 DEF NoTokens
    <2>4. j = k
      BY <1>1, <2>2, <2>3
    <2> QED
      BY <2>4 DEF j, k
  <1>9. CASE launched.ver # NoTokens
    <2>1. Kept(Sent) = {[ver |-> NoTokens, act |-> NoTokens]} \union
            {x \in [ver : launched.ver .. weights, act : launched.act .. weights] : x.ver <= x.act}
      BY <1>6, <1>9 DEF Kept
    <2>2. CASE j.ver = NoTokens
      BY <1>1, <1>3, <2>1, <2>2 DEF j
    <2>3. CASE j.ver # NoTokens
      <3>1. j.act # NoTokens /\ k.ver # NoTokens /\ k.act # NoTokens
        BY <1>2, <1>3, <1>5, <2>3 DEF NoTokens
      <3>2. launched.ver <= k.ver /\ launched.act <= k.act
        <4>1. k \in Kept(Sent)
          BY DEF k
        <4> QED
          BY <4>1, <2>1, <3>1
      <3>3. j.ver \in launched.ver .. weights /\ j.act \in launched.act .. weights
        BY <1>2, <1>3, <1>4, <1>5, <1>7, <2>3, <3>1, <3>2 DEF Versions, NoTokens
      <3>4. j \in [ver : launched.ver .. weights, act : launched.act .. weights]
        BY <1>1, <3>3
      <3> QED
        BY <3>4, <1>3, <2>1 DEF j
    <2> QED
      BY <2>2, <2>3
  <1> QED
    BY <1>8, <1>9

\* Every step of a request leaves the group in flight, with the others' samples as
\* they were.
Moved(t, new, at) ==
  /\ stage = "flight" /\ new \in SampleType
  /\ sample' = [sample EXCEPT ![t] = new]
  /\ call'[t].at = at /\ \A s \in Samples : s # t => call'[s] = call[s]
  /\ UNCHANGED <<stage, outcome, flag, hit, launched, clockVars>>
  /\ at = "done" /\ new.status = "ABORTED" => flag[t] \/ t \in hit
  /\ Grown(sample[t], new) \/ (~ Partial /\ Emptied(new))

\* Whatever the worker does with a request, short of raising, is such a step.
LEMMA WorkerMoves ==
  ASSUME SamplesInv, NEW t \in Samples, WorkerNext(t), ~ RaiseCall(t)
  PROVE  \E new, at : Moved(t, new, at)
  <1> DEFINE smp == sample[t]
  <1>1. smp \in SampleType /\ sample \in [Samples -> SampleType] /\ weights \in Versions
    BY DEF SamplesInv, OthersTyped
  <1>2. call \in [Samples -> [at : {"none", "sent", "post", "wait", "done"},
                             attempt : 0 .. MaxRetry]]
    BY DEF SamplesInv, OthersTyped
  <1>3. stage = "flight" => CallOK(smp, call[t])
    BY DEF SamplesInv, StageInv
  <1>4. ASSUME NEW new \in SampleType, stage = "flight", Return(t, new),
               new.status = "ABORTED" => flag[t] \/ t \in hit,
               Grown(smp, new) \/ (~ Partial /\ Emptied(new))
        PROVE  Moved(t, new, "done")
    BY <1>2, <1>4 DEF Moved, Return
  <1>5. ASSUME NEW st \in Statuses
        PROVE  LET new == [smp EXCEPT !.status = st]
               IN new \in SampleType /\ new.status = st /\ Grown(smp, new)
    <2>1. /\ [smp EXCEPT !.status = st] \in SampleType
          /\ [smp EXCEPT !.status = st].status = st
          /\ [smp EXCEPT !.status = st].ids = smp.ids
          /\ [smp EXCEPT !.status = st].steps = smp.steps
      BY <1>1 DEF SampleType
    <2>2. Len(smp.ids) \in Nat
      BY <1>1 DEF SampleType
    <2> QED
      BY <2>1, <2>2 DEF Grown
  <1>6. CASE RefuseCall(t) \/ AbortCall(t) \/ FailCall(t)
    <2>1. /\ stage = "flight"
          /\ \E st \in {"ABORTED", "FAILED"} :
               /\ Return(t, [smp EXCEPT !.status = st])
               /\ st = "ABORTED" => flag[t] \/ t \in hit
      BY <1>6 DEF RefuseCall, AbortCall, FailCall, CallAt
    <2> QED
      BY <1>4, <1>5, <2>1 DEF Statuses
  <1>7. ASSUME NEW new \in SampleType, new = Prepared(smp) \/ new = [Prepared(smp) EXCEPT !.status = "COMPLETED"]
        PROVE  Grown(smp, new) \/ (~ Partial /\ Emptied(new))
    <2>1. /\ Prepared(smp) \in SampleType
          /\ Prepared(smp) = smp \/ (~ Partial /\ Blank(Prepared(smp)))
      BY <1>1, PreparedOK DEF SamplesInv
    <2>2. new.steps = Prepared(smp).steps /\ new.ids = Prepared(smp).ids
      BY <1>7, <2>1 DEF SampleType
    <2>3. CASE Prepared(smp) = smp
      <3>1. Len(smp.ids) \in Nat
        BY <1>1 DEF SampleType
      <3> QED
        BY <2>2, <2>3, <3>1 DEF Grown
    <2> QED
      BY <2>1, <2>2, <2>3 DEF Emptied, Blank
  <1>8. CASE SkipCall(t)
    <2> DEFINE new == [Prepared(smp) EXCEPT !.status = "COMPLETED"]
    <2>1. stage = "flight" /\ Return(t, new)
      BY <1>8 DEF SkipCall, CallAt
    <2>2. new \in SampleType /\ new.status = "COMPLETED"
      <3>1. Prepared(smp) \in SampleType
        BY <1>1, PreparedOK DEF SamplesInv
      <3> QED
        BY <3>1 DEF SampleType, Statuses
    <2>3. Grown(smp, new) \/ (~ Partial /\ Emptied(new))
      BY <1>7, <2>2
    <2> HIDE DEF new
    <2> QED
      BY <1>4, <2>1, <2>2, <2>3
  <1>9. CASE AcceptCall(t)
    <2>1. /\ stage = "flight" /\ sample' = [sample EXCEPT ![t] = Prepared(smp)]
          /\ call'[t].at = "post" /\ \A s \in Samples : s # t => call'[s] = call[s]
          /\ UNCHANGED <<stage, outcome, flag, hit, launched, clockVars>>
      BY <1>9, <1>2 DEF AcceptCall, CallAt
    <2>2. Prepared(smp) \in SampleType
      BY <1>1, PreparedOK DEF SamplesInv
    <2>3. Moved(t, Prepared(smp), "post")
      BY <1>7, <2>1, <2>2 DEF Moved
    <2> QED
      BY <2>3
  <1>10. CASE PostRequest(t)
    <2>1. /\ stage = "flight" /\ sample' = sample
          /\ call'[t].at = "wait" /\ \A s \in Samples : s # t => call'[s] = call[s]
          /\ UNCHANGED <<stage, outcome, flag, hit, launched, clockVars>>
      BY <1>10, <1>2 DEF PostRequest, CallAt
    <2>2. sample' = [sample EXCEPT ![t] = smp]
      BY <1>1, <2>1
    <2>3. Grown(smp, smp)
      BY <1>1 DEF Grown, SampleType
    <2>4. Moved(t, smp, "wait")
      BY <1>1, <2>1, <2>2, <2>3 DEF Moved
    <2> QED
      BY <2>4
  <1>11. ASSUME NEW n \in Nat, NEW new \in SampleType, CallAt(t, "wait"),
                new.ids = Extended(smp, n), new.steps = smp.steps
         PROVE  Grown(smp, new)
    <2>1. Partial \/ Blank(smp)
      BY <1>3, <1>11 DEF CallAt, CallOK
    <2>2. /\ Len(Extended(smp, n)) = Len(smp.ids) + n
          /\ \A i \in 1 .. Len(smp.ids) : Extended(smp, n)[i] = smp.ids[i]
          /\ \A i \in 1 .. Len(smp.ids) + n :
               i > Len(smp.ids) => Extended(smp, n)[i] = weights
      BY <1>1, <2>1, ExtendedTokens
    <2>3. Len(smp.ids) \in Nat
      BY <1>1 DEF SampleType
    <2>4. /\ Len(new.ids) = Len(smp.ids) + n
          /\ \A i \in 1 .. Len(smp.ids) : new.ids[i] = smp.ids[i]
          /\ \A i \in 1 .. Len(smp.ids) + n : i > Len(smp.ids) => new.ids[i] = weights
      BY <1>11, <2>2, Zenon
    <2> QED
      BY <1>11, <2>3, <2>4 DEF Grown
  <1>12. CASE CompleteResponse(t)
    <2>1. PICK n \in 1 .. Remaining(smp), end \in EndKinds \union {"no"} :
            Return(t, [smp EXCEPT !.status = "COMPLETED", !.end = end,
                                  !.ids = Extended(smp, n)])
      BY <1>12 DEF CompleteResponse
    <2> DEFINE new == [smp EXCEPT !.status = "COMPLETED", !.end = end,
                                  !.ids = Extended(smp, n)]
    <2>2. CallAt(t, "wait") /\ stage = "flight" /\ (Partial \/ Blank(smp))
      BY <1>3, <1>12 DEF CompleteResponse, CallAt, CallOK
    <2>3. n \in Nat
      BY <1>1 DEF Remaining, SampleType
    <2>4. Extended(smp, n) \in Seq(Versions)
      BY <1>1, <2>2, <2>3, ExtendedTokens
    <2>5. end \in {"no", "eos", "stop"}
      OBVIOUS
    <2>6. /\ new \in SampleType /\ new.status = "COMPLETED"
          /\ new.ids = Extended(smp, n) /\ new.steps = smp.steps
      BY <1>1, <2>4, <2>5 DEF SampleType, Statuses
    <2>7. Return(t, new)
      BY <2>1
    <2> HIDE DEF new
    <2>8. Grown(smp, new)
      BY <1>11, <2>2, <2>3, <2>6
    <2> QED
      BY <1>4, <2>2, <2>6, <2>7, <2>8
  <1>13. CASE AbortedResponse(t)
    <2>1. PICK n \in 0 .. Remaining(smp) - 1 :
            Return(t, [smp EXCEPT !.status = "ABORTED", !.ids = Extended(smp, n)])
      BY <1>13 DEF AbortedResponse
    <2> DEFINE new == [smp EXCEPT !.status = "ABORTED", !.ids = Extended(smp, n)]
    <2>2. /\ CallAt(t, "wait") /\ stage = "flight" /\ (Partial \/ Blank(smp))
          /\ t \in hit
      BY <1>3, <1>13 DEF AbortedResponse, CallAt, CallOK
    <2>3. n \in Nat
      BY <1>1 DEF Remaining, SampleType
    <2>4. Extended(smp, n) \in Seq(Versions)
      BY <1>1, <2>2, <2>3, ExtendedTokens
    <2>5. /\ new \in SampleType /\ new.ids = Extended(smp, n) /\ new.steps = smp.steps
      BY <1>1, <2>4 DEF SampleType, Statuses
    <2>6. Return(t, new)
      BY <2>1
    <2> HIDE DEF new
    <2>7. Grown(smp, new)
      BY <1>11, <2>2, <2>3, <2>5
    <2> QED
      BY <1>4, <2>2, <2>5, <2>6, <2>7
  <1>14. CASE Retry(t)
    <2>1. PICK st \in {smp.status, "FAILED"} : sample' = [sample EXCEPT ![t].status = st]
      BY <1>14 DEF Retry
    <2> DEFINE new == [smp EXCEPT !.status = st]
    <2>2. /\ stage = "flight" /\ sample' = [sample EXCEPT ![t] = new]
          /\ call'[t].at = "post" /\ \A s \in Samples : s # t => call'[s] = call[s]
          /\ UNCHANGED <<stage, outcome, flag, hit, launched, clockVars>>
      BY <1>14, <1>2, <2>1 DEF Retry, CallAt, SamplesInv
    <2>3. st \in Statuses
      BY <1>1 DEF SampleType, Statuses
    <2>4. new \in SampleType /\ Grown(smp, new)
      BY <1>5, <2>3
    <2> HIDE DEF new
    <2>5. Moved(t, new, "post")
      BY <2>2, <2>4 DEF Moved
    <2> QED
      BY <2>5
  <1> QED
    BY <1>6, <1>8, <1>9, <1>10, <1>12, <1>13, <1>14 DEF WorkerNext

-----------------------------------------------------------------------------
(***************************************************************************)
(* The invariant behind the group record.                                  *)
(***************************************************************************)
\* When every token has a version, all tokens are left.
LEMMA AlignedLeft ==
  ASSUME NEW grp \in [Samples -> SampleType],
         \A s \in Samples : Len(grp[s].steps) = Len(grp[s].ids)
  PROVE  /\ LeftOf(grp) = [ver |-> OldestLabel(grp), act |-> OldestToken(grp)]
         /\ ~ Gained(grp)
  <1>1. \A s \in Samples : Len(grp[s].steps) \in Nat /\ Len(grp[s].ids) \in Nat
    BY DEF SampleType
  <1>2. OldTokens(grp) = Tokens(grp)
    BY DEF OldTokens, Tokens
  <1> QED
    BY <1>1, <1>2, OldestOf DEF LeftOf, Gained

\* A group without tokens.
LEMMA BlankGroup ==
  ASSUME NEW grp \in [Samples -> SampleType], \A s \in Samples : Blank(grp[s])
  PROVE  /\ OldestLabel(grp) = NoTokens /\ OldestToken(grp) = NoTokens
         /\ ~ Gained(grp) /\ \A w : Past(grp, w)
  <1>1. \A s \in Samples : Len(grp[s].steps) = 0 /\ Len(grp[s].ids) = 0
    BY DEF Blank
  <1>2. Labels(grp) = {} /\ Tokens(grp) = {}
    BY <1>1 DEF Labels, Tokens
  <1> QED
    BY <1>1, <1>2, OldestOf DEF LeastOf, Gained, Past

\* All tokens a group is launched with are among those it may keep.
LEMMA AllKept ==
  ASSUME NEW grp \in [Samples -> SampleType], NEW w \in Versions,
         \A s \in Samples : Labelled(grp[s], w), Past(grp, w)
  PROVE  LeftOf(grp) \in Kept([ver |-> LeftOf(grp).ver, act |-> LeftOf(grp).act, since |-> w])
  <1> DEFINE k == LeftOf(grp)
  <1>1. k = [ver |-> k.ver, act |-> k.act]
    BY DEF LeftOf
  <1>2. /\ k.ver \in Versions \cup {NoTokens} /\ k.act \in Versions \cup {NoTokens}
        /\ k.ver <= k.act
        /\ k.ver = NoTokens <=> k.act = NoTokens
        /\ k.ver <= w /\ k.act <= w
    BY LeftOrder, LeftPast
  <1> HIDE DEF k
  <1>3. CASE k.ver # NoTokens
    <2>1. k.ver \in k.ver .. w /\ k.act \in k.act .. w
      BY <1>2, <1>3 DEF Versions
    <2>2. k \in [ver : k.ver .. w, act : k.act .. w]
      BY <1>1, <2>1
    <2> QED
      BY <1>1, <1>2, <2>2 DEF Kept, k
  <1> QED
    BY <1>1, <1>3 DEF Kept, k

\* The group status is the status of one of its samples, unless all is well.
LEMMA GroupStatusOf ==
  ASSUME NEW grp \in [Samples -> SampleType]
  PROVE  \/ GroupStatus(grp) = "COMPLETED"
         \/ \E s \in Samples : grp[s].status = GroupStatus(grp)
  <1> DEFINE found == {i \in DOMAIN StatusPriority :
                         \E s \in Samples : grp[s].status = StatusPriority[i]}
  <1>1. found \in SUBSET Nat
    BY DEF StatusPriority
  <1>2. CASE found = {}
    BY <1>2 DEF GroupStatus
  <1>3. CASE found # {}
    <2>1. GroupStatus(grp) = StatusPriority[Min(found)]
      BY <1>3 DEF GroupStatus
    <2>2. Min(found) \in found
      <3> HIDE DEF found
      <3> QED
        BY <1>1, <1>3, MinOfNats
    <2> QED
      BY <2>1, <2>2
  <1> QED
    BY <1>2, <1>3

\* The status is all get_group_status looks at.
LEMMA GroupStatusSame ==
  ASSUME NEW a, NEW b, \A s \in Samples : a[s].status = b[s].status
  PROVE  GroupStatus(a) = GroupStatus(b)
  <1>1. {i \in DOMAIN StatusPriority : \E s \in Samples : a[s].status = StatusPriority[i]}
          = {i \in DOMAIN StatusPriority : \E s \in Samples : b[s].status = StatusPriority[i]}
    OBVIOUS
  <1> QED
    BY <1>1 DEF GroupStatus

\* The first group.
LEMMA InitLife == Init => LifeInv
  <1> SUFFICES ASSUME Init PROVE LifeInv
    OBVIOUS
  <1>1. SamplesInv
    BY InitSamples
  <1>2. Past(sample, weights)
    <2>1. \A s \in Samples : sample[s].ids = <<>>
      BY DEF Init, FreshSample
    <2> QED
      BY <2>1 DEF Past
  <1>3. launched \in [ver : Versions \cup {NoTokens}, act : Versions \cup {NoTokens}]
    BY DEF Init, NoVersions
  <1>4. stage = "dataset"
    BY DEF Init
  <1> QED
    BY <1>1, <1>2, <1>3, <1>4 DEF LifeInv

\* A request is sent: every token of the group has a version.
LEMMA LaunchLife == LifeInv /\ Launch => LifeInv'
  <1> SUFFICES ASSUME LifeInv, Launch PROVE LifeInv'
    OBVIOUS
  <1>1. SamplesInv /\ SamplesInv' /\ Past(sample, weights)
    BY LaunchInv DEF LifeInv
  <1>2. /\ stage' = "flight"
        /\ \A s \in Samples : call'[s].at = "sent"
        /\ hit' = {s \in Samples : flag[s]} /\ flag' = flag
        /\ launched' = [ver |-> OldestLabel(sample), act |-> OldestToken(sample)]
        /\ sample' = sample /\ weights' = weights
    BY DEF Launch, clockVars
  <1>3. /\ sample \in [Samples -> SampleType] /\ weights \in Versions
        /\ \A s \in Samples : Labelled(sample[s], weights)
    BY <1>1 DEF SamplesInv, OthersTyped, SampleOK
  <1>4. \A s \in Samples : Len(sample[s].steps) = Len(sample[s].ids)
    BY <1>1 DEF Launch, SamplesInv, StageInv, SampleOK, Blank, Stored
  <1>5. LeftOf(sample) = launched'
    BY <1>2, <1>3, <1>4, AlignedLeft
  <1>6. launched' \in [ver : Versions \cup {NoTokens}, act : Versions \cup {NoTokens}]
    BY <1>3, <1>5, LeftOrder DEF LeftOf
  <1>7. LeftOf(sample) \in Kept([ver |-> launched'.ver, act |-> launched'.act, since |-> weights])
    BY <1>1, <1>3, <1>5, AllKept
  <1>8. LeftOf(sample') \in Kept(Sent')
    BY <1>2, <1>7 DEF Sent
  <1>9. FlightInv'
    BY <1>2, <1>8 DEF FlightInv
  <1> QED
    BY <1>1, <1>2, <1>6, <1>9 DEF LifeInv

\* One request moves on.
LEMMA WorkerLife ==
  ASSUME LifeInv, NEW t \in Samples, WorkerNext(t)
  PROVE  LifeInv'
  <1>1. SamplesInv /\ SamplesInv' /\ Past(sample, weights)
    BY WorkerInv DEF LifeInv
  <1>2. /\ sample \in [Samples -> SampleType] /\ weights \in Versions
        /\ \A s \in Samples : Labelled(sample[s], weights)
    BY <1>1 DEF SamplesInv, OthersTyped, SampleOK
  <1>3. CASE RaiseCall(t)
    <2>1. /\ stage' = "finished" /\ outcome' = "RAISED" /\ launched' = NoVersions
          /\ sample' = sample /\ weights' = weights
      BY <1>3 DEF RaiseCall, NoneInFlight, clockVars
    <2>2. launched' \in [ver : Versions \cup {NoTokens}, act : Versions \cup {NoTokens}]
      BY <2>1 DEF NoVersions
    <2> QED
      BY <1>1, <2>1, <2>2 DEF LifeInv, FinishedInv
  <1>4. CASE ~ RaiseCall(t)
    <2>1. PICK new, at : Moved(t, new, at)
      BY <1>1, <1>4, WorkerMoves
    <2>2. /\ stage = "flight" /\ stage' = "flight" /\ new \in SampleType
          /\ sample' = [sample EXCEPT ![t] = new] /\ weights' = weights
          /\ call'[t].at = at /\ \A s \in Samples : s # t => call'[s] = call[s]
          /\ flag' = flag /\ hit' = hit /\ launched' = launched
          /\ at = "done" /\ new.status = "ABORTED" => flag[t] \/ t \in hit
          /\ Grown(sample[t], new) \/ (~ Partial /\ Emptied(new))
      BY <2>1 DEF Moved, clockVars
    <2>3. /\ FlightInv
          /\ launched \in [ver : Versions \cup {NoTokens}, act : Versions \cup {NoTokens}]
      BY <2>2 DEF LifeInv
    <2>4. \A s \in Samples : sample'[s] = IF s = t THEN new ELSE sample[s]
      BY <1>2, <2>2
    <2>5. Past(sample', weights)
      <3> SUFFICES ASSUME NEW s \in Samples, NEW i \in 1 .. Len(sample'[s].ids)
                   PROVE  sample'[s].ids[i] <= weights
        BY DEF Past
      <3>1. CASE s # t
        BY <1>1, <2>4, <3>1 DEF Past
      <3>2. CASE s = t /\ Emptied(new)
        BY <2>4, <3>2 DEF Emptied
      <3>3. CASE s = t /\ Grown(sample[t], new)
        <4>1. Len(sample[t].ids) \in Nat
          BY <1>2 DEF SampleType
        <4>2. CASE i <= Len(sample[t].ids)
          <5>1. i \in 1 .. Len(sample[t].ids) /\ new.ids[i] = sample[t].ids[i]
            BY <3>3, <4>1, <4>2 DEF Grown
          <5> QED
            BY <1>1, <2>4, <3>3, <5>1 DEF Past
        <4>3. CASE i > Len(sample[t].ids)
          <5>1. new.ids[i] = weights
            BY <2>4, <3>3, <4>3 DEF Grown
          <5> QED
            BY <1>2, <2>4, <3>3, <5>1 DEF Versions
        <4> QED
          BY <4>1, <4>2, <4>3
      <3> QED
        BY <2>2, <3>1, <3>2, <3>3
    <2>6. LeftOf(sample') \in Kept(Sent)
      <3>1. CASE Grown(sample[t], new)
        BY <1>2, <2>2, <2>3, <3>1, GrownLeft DEF FlightInv
      <3>2. CASE ~ Partial /\ Emptied(new)
        <4>1. /\ Labels(sample') \subseteq Labels(sample)
              /\ OldTokens(sample') \subseteq OldTokens(sample)
          BY <1>2, <2>2, <3>2, EmptiedLeft
        <4>2. /\ sample' \in [Samples -> SampleType]
              /\ \A s \in Samples : Labelled(sample'[s], weights)
          BY <1>1, <2>2 DEF SamplesInv, SampleOK
        <4>3. LeftOf(sample) \in Kept(Sent)
          BY <2>3 DEF FlightInv
        <4> QED
          BY <1>2, <2>3, <2>5, <3>2, <4>1, <4>2, <4>3, KeptFewer
      <3> QED
        BY <2>2, <3>1, <3>2
    <2>7. FlightInv'
      <3>1. Sent' = Sent
        BY <2>2 DEF Sent
      <3>2. ASSUME NEW s \in Samples, call'[s].at = "done", sample'[s].status = "ABORTED"
            PROVE  hit # {}
        <4>1. CASE s # t
          BY <2>2, <2>3, <2>4, <3>2, <4>1 DEF FlightInv
        <4>2. CASE s = t
          BY <2>2, <2>3, <2>4, <3>2, <4>2 DEF FlightInv
        <4> QED
          BY <4>1, <4>2
      <3> QED
        BY <2>2, <2>3, <2>6, <3>1, <3>2 DEF FlightInv
    <2> QED
      BY <1>1, <2>2, <2>3, <2>5, <2>7 DEF LifeInv
  <1> QED
    BY <1>3, <1>4

\* The group is put together: ABORTED needs a pause since the launch.
LEMMA GatherLife == LifeInv /\ Gather => LifeInv'
  <1> SUFFICES ASSUME LifeInv, Gather PROVE LifeInv'
    OBVIOUS
  <1>1. SamplesInv /\ SamplesInv' /\ Past(sample, weights)
    BY GatherInv DEF LifeInv
  <1>2. /\ stage' = "finished" /\ launched' = NoVersions
        /\ sample' = sample /\ weights' = weights
        /\ outcome' = GroupStatus(sample) \/ outcome' = "FILTERED"
    BY DEF Gather, NoneInFlight, clockVars
  <1>3. launched' \in [ver : Versions \cup {NoTokens}, act : Versions \cup {NoTokens}]
    BY <1>2 DEF NoVersions
  <1>4. \A s \in Samples : sample[s].status \in {"COMPLETED", "ABORTED", "FAILED"}
    BY <1>1 DEF Gather, SamplesInv, StageInv, CallOK
  <1>5. sample \in [Samples -> SampleType]
    BY <1>1 DEF SamplesInv
  <1>6. GroupStatus(sample) \in {"COMPLETED", "ABORTED", "FAILED"}
    BY <1>4, <1>5, GroupStatusOf
  <1>7. FinishedInv'
    BY <1>2, <1>6 DEF FinishedInv
  <1> QED
    BY <1>1, <1>2, <1>3, <1>7 DEF LifeInv

\* A group that loses its tokens, or keeps them outside the engine.
LEMMA PutAwayLife ==
  ASSUME LifeInv, SamplesInv', stage' \notin {"flight", "finished"},
         Past(sample', weights'), launched' \in {launched, NoVersions}
  PROVE  LifeInv'
  <1>1. launched' \in [ver : Versions \cup {NoTokens}, act : Versions \cup {NoTokens}]
    BY DEF LifeInv, NoVersions
  <1> QED
    BY <1>1 DEF LifeInv

\* A group without tokens has none from newer weights.
LEMMA DroppedPast ==
  ASSUME NEW grp \in [Samples -> SampleType], Dropped \/ Expire(grp), weights' \in Versions
  PROVE  stage' \in {"dataset", "buffer"} /\ Past(sample', weights')
  <1>1. CASE Dropped
    <2>1. stage' = "dataset" /\ \A s \in Samples : sample'[s].ids = <<>>
      BY <1>1 DEF Dropped, FreshSample
    <2> QED
      BY <2>1 DEF Past
  <1>2. CASE TailTrigger # 0 /\ Expire(grp)
    <2> DEFINE new(s) == [Reset(grp[s]) EXCEPT !.status = "EXPIRED"]
    <2>1. stage' = "buffer" /\ sample' = [s \in Samples |-> new(s)]
      BY <1>2 DEF Expire
    <2>2. \A s \in Samples : Blank(new(s))
      BY ResetOK
    <2> HIDE DEF new
    <2>3. \A s \in Samples : sample'[s].ids = <<>>
      BY <2>1, <2>2 DEF Blank
    <2> QED
      BY <2>1, <2>3 DEF Past
  <1> QED
    BY <1>1, <1>2 DEF Expire

\* The samples of a group that is put have a version for every token.
LEMMA PutSamples ==
  ASSUME SamplesInv, NEW modelStep \in 0 .. weights
  PROVE  LET grp == [s \in Samples |-> VersionedSample(sample[s], modelStep)]
         IN /\ grp \in [Samples -> SampleType]
            /\ \A s \in Samples : /\ Len(grp[s].steps) = Len(grp[s].ids)
                                  /\ grp[s].ids = sample[s].ids
                                  /\ grp[s].status = sample[s].status
  <1>1. \A s \in Samples : LET new == VersionedSample(sample[s], modelStep)
                           IN /\ new \in SampleType
                              /\ Len(new.steps) = Len(new.ids)
                              /\ new.status = sample[s].status
                              /\ new.ids = sample[s].ids
    BY VersionedOK DEF SamplesInv, OthersTyped
  <1> QED
    BY <1>1

\* The other actions.
LEMMA PutLife == LifeInv /\ Put => LifeInv'
  <1> SUFFICES ASSUME LifeInv, Put PROVE LifeInv'
    OBVIOUS
  <1>1. SamplesInv /\ SamplesInv' /\ Past(sample, weights)
    BY PutInv DEF LifeInv
  <1>2. PICK modelStep \in 0 .. weights :
          LET grp == [s \in Samples |-> VersionedSample(sample[s], modelStep)]
          IN IF outcome \in {"FAILED", "FILTERED"} THEN Dropped
             ELSE IF AnyStale(grp, step) THEN Expire(grp)
             ELSE /\ stage' = "buffer"
                  /\ outcome' = GroupStatus(grp)
                  /\ sample' = grp
    BY DEF Put
  <1>3. weights' = weights /\ launched' = launched
    BY DEF Put, clockVars
  <1> DEFINE grp == [s \in Samples |-> VersionedSample(sample[s], modelStep)]
  <1>4. Past(grp, weights)
    <2>1. \A s \in Samples : grp[s].ids = sample[s].ids
      BY <1>1, PutSamples
    <2> HIDE DEF grp
    <2> QED
      BY <1>1, <2>1 DEF Past
  <1>5. (Dropped \/ Expire(grp)) \/ (stage' = "buffer" /\ sample' = grp)
    BY <1>2
  <1>7. grp \in [Samples -> SampleType] /\ weights' \in Versions
    BY <1>1, PutSamples DEF SamplesInv, OthersTyped
  <1> HIDE DEF grp
  <1>6. stage' \in {"dataset", "buffer"} /\ Past(sample', weights')
    BY <1>3, <1>4, <1>5, <1>7, DroppedPast
  <1> QED
    BY <1>1, <1>3, <1>6, PutAwayLife

\* The refresh of get_batch.
LEMMA NextStepLife == LifeInv /\ NextStep => LifeInv'
  <1> SUFFICES ASSUME LifeInv, NextStep PROVE LifeInv'
    OBVIOUS
  <1>1. SamplesInv /\ SamplesInv'
    BY NextStepInv DEF LifeInv
  <1>2. flag' = flag /\ call' = call /\ hit' = hit /\ launched' = launched /\ weights' = weights
    BY DEF NextStep
  <1>3. CASE Expire(sample)
    <2>1. stage' \in {"dataset", "buffer"} /\ Past(sample', weights')
      BY <1>1, <1>3, DroppedPast DEF SamplesInv, OthersTyped
    <2> QED
      BY <1>1, <1>2, <2>1, PutAwayLife
  <1>4. CASE UNCHANGED <<stage, outcome, sample>>
    <2>1. sample' = sample /\ stage' = stage /\ outcome' = outcome
      BY <1>4
    <2>2. Sent' = Sent
      BY <1>2 DEF Sent
    <2>3. FlightInv => FlightInv'
      BY <1>2, <2>1, <2>2 DEF FlightInv
    <2>4. FinishedInv => FinishedInv'
      BY <2>1 DEF FinishedInv
    <2> QED
      BY <1>1, <1>2, <2>1, <2>3, <2>4 DEF LifeInv
  <1> QED
    BY <1>3, <1>4 DEF NextStep

\* Newer weights make no token newer.
LEMMA WeightsLife == LifeInv /\ UpdateWeights => LifeInv'
  <1> SUFFICES ASSUME LifeInv, UpdateWeights PROVE LifeInv'
    OBVIOUS
  <1>1. SamplesInv /\ SamplesInv' /\ Past(sample, weights)
    BY WeightsInv DEF LifeInv
  <1>2. /\ stage' \notin {"flight", "finished"} /\ sample' = sample /\ launched' = launched
        /\ weights' \in (weights + 1) .. step
    BY DEF UpdateWeights
  <1>3. weights \in Nat /\ weights' \in Nat /\ weights <= weights'
    BY <1>1, <1>2 DEF SamplesInv, OthersTyped, Versions
  <1>4. Past(sample, weights')
    <2> SUFFICES ASSUME NEW s \in Samples, NEW i \in 1 .. Len(sample[s].ids)
                 PROVE  sample[s].ids[i] <= weights'
      BY DEF Past
    <2>1. sample[s].ids \in Seq(Versions)
      BY <1>1 DEF SamplesInv, SampleType
    <2>2. sample[s].ids[i] \in Versions
      BY <2>1
    <2>3. sample[s].ids[i] \in Nat
      BY <2>2, VersionsAreNats
    <2> QED
      BY <1>1, <1>3, <2>3 DEF Past
  <1> QED
    BY <1>1, <1>2, <1>4, PutAwayLife

\* Every step preserves the invariant.
LEMMA LifeStep == LifeInv /\ [Next]_vars => LifeInv'
  <1> SUFFICES ASSUME LifeInv, [Next]_vars PROVE LifeInv'
    OBVIOUS
  <1>1. SamplesInv'
    BY SamplesStep DEF LifeInv
  <1>2. CASE Cancel \/ TrainOneBatch
    <2>1. Dropped /\ launched' \in {launched, NoVersions}
      BY <1>2 DEF Cancel, TrainOneBatch, NoneInFlight
    <2>2. stage' = "dataset" /\ Past(sample', weights')
      BY <1>1, <2>1, DroppedPast DEF Dropped, LifeInv, SamplesInv, OthersTyped
    <2> QED
      BY <1>1, <2>1, <2>2, PutAwayLife
  <1>3. CASE TakeBatch
    <2>1. /\ stage' \notin {"flight", "finished"} /\ launched' = launched
          /\ sample' = sample /\ weights' = weights
      BY <1>3 DEF TakeBatch, clockVars
    <2>2. Past(sample', weights')
      BY <2>1 DEF LifeInv
    <2> QED
      BY <1>1, <2>1, <2>2, PutAwayLife
  <1>4. ASSUME NEW t \in Samples, PauseWorker(t) \/ ContinueWorker(t)
        PROVE  LifeInv'
    <2>1. /\ sample' = sample /\ call' = call /\ stage' = stage /\ outcome' = outcome
          /\ launched' = launched /\ weights' = weights
          /\ stage = "flight" => hit \subseteq hit'
          /\ \A s \in Samples : stage = "flight" /\ flag'[s] => flag[s] \/ s \in hit'
      BY <1>4 DEF PauseWorker, ContinueWorker, clockVars, LifeInv, SamplesInv, OthersTyped
    <2>2. Sent' = Sent
      BY <2>1 DEF Sent
    <2>3. stage = "flight" => FlightInv'
      BY <2>1, <2>2 DEF FlightInv, LifeInv
    <2> QED
      BY <1>1, <2>1, <2>3 DEF LifeInv, FinishedInv
  <1>5. CASE UNCHANGED vars
    <2>1. Sent' = Sent
      BY <1>5 DEF vars, clockVars, Sent
    <2> QED
      BY <1>1, <1>5, <2>1 DEF vars, clockVars, LifeInv, FlightInv, FinishedInv
  <1> QED
    BY <1>2, <1>3, <1>4, <1>5, LaunchLife, GatherLife, PutLife, NextStepLife, WeightsLife,
       WorkerLife DEF Next

-----------------------------------------------------------------------------
(***************************************************************************)
(* Each sample asks, the group is as stale as its oldest version.          *)
(***************************************************************************)
\* maybe_expire_group decides as the record's oldest version does.
LEMMA StaleGroup ==
  ASSUME NEW grp \in [Samples -> SampleType], NEW at \in Nat
  PROVE  AnyStale(grp, at) <=> IsStale(OldestLabel(grp), at)
  <1> DEFINE oldest(s) == IF grp[s].steps = <<>> THEN NoTokens ELSE Min(Range(grp[s].steps))
             L == OldestLabel(grp)
  <1>1. \A v \in Nat \cup {NoTokens} : IsStale(v, at) <=> v # NoTokens /\ at - v - 1 >= StaleThreshold
    BY ThresholdType DEF IsStale, SeqStaleness, CalculateSeqStaleness
  <1>2. Labels(grp) \in SUBSET Nat /\ L = LeastOf(Labels(grp))
    BY VersionsAreNats, OldestOf DEF Labels
  <1>3. \A s \in Samples : /\ Range(grp[s].steps) \subseteq Labels(grp)
                           /\ Range(grp[s].steps) = {} <=> grp[s].steps = <<>>
    <2> TAKE s \in Samples
    <2>1. grp[s].steps \in Seq(Versions)
      BY DEF SampleType
    <2>2. DOMAIN grp[s].steps = 1 .. Len(grp[s].steps)
          /\ \A i \in 1 .. Len(grp[s].steps) : grp[s].steps[i] \in Versions
      BY <2>1
    <2>3. grp[s].steps = <<>> <=> Len(grp[s].steps) = 0
      BY <2>1
    <2>4. Range(grp[s].steps) = {grp[s].steps[i] : i \in 1 .. Len(grp[s].steps)}
      BY <2>2, Zenon DEF Range
    <2>5. \A i \in 1 .. Len(grp[s].steps) : grp[s].steps[i] \in Labels(grp)
      BY <2>2 DEF Labels
    <2>6. Len(grp[s].steps) \in Nat
      BY <2>1
    <2>7. Len(grp[s].steps) # 0 => 1 \in 1 .. Len(grp[s].steps)
      BY <2>6
    <2>8. Len(grp[s].steps) = 0 => 1 .. Len(grp[s].steps) = {}
      OBVIOUS
    <2>9. Range(grp[s].steps) \subseteq Labels(grp)
      BY <2>4, <2>5
    <2>10. ASSUME Len(grp[s].steps) = 0 PROVE Range(grp[s].steps) = {}
      BY <2>4, <2>8, <2>10
    <2>11. ASSUME Len(grp[s].steps) # 0 PROVE Range(grp[s].steps) # {}
      <3>1. grp[s].steps[1] \in {grp[s].steps[i] : i \in 1 .. Len(grp[s].steps)}
        BY <2>7, <2>11
      <3> QED
        BY <3>1, <2>4
    <2> QED
      BY <2>3, <2>9, <2>10, <2>11
  <1>4. \A s \in Samples : oldest(s) = LeastOf(Range(grp[s].steps))
    BY <1>3 DEF LeastOf
  <1>5. AnyStale(grp, at) <=> \E s \in Samples : IsStale(oldest(s), at)
    BY DEF AnyStale
  <1> HIDE DEF oldest, L
  <1>6. ASSUME NEW s \in Samples, IsStale(oldest(s), at) PROVE IsStale(L, at)
    <2>1. Range(grp[s].steps) \in SUBSET Nat
      BY <1>2, <1>3
    <2>2. oldest(s) \in Nat \cup {NoTokens}
      BY <1>4, <2>1, LeastFacts
    <2>3. oldest(s) # NoTokens /\ at - oldest(s) - 1 >= StaleThreshold
      BY <1>1, <1>6, <2>2
    <2>4. oldest(s) \in Labels(grp)
      BY <1>3, <1>4, <2>1, <2>3, LeastFacts
    <2>5. L \in Nat /\ L # NoTokens /\ L <= oldest(s)
      BY <1>2, <2>4, LeastFacts
    <2> QED
      BY <1>1, <2>2, <2>3, <2>5, ThresholdType
  <1>7. ASSUME IsStale(L, at) PROVE \E s \in Samples : IsStale(oldest(s), at)
    <2>1. L \in Nat \cup {NoTokens}
      BY <1>2, LeastFacts
    <2>2. L # NoTokens /\ at - L - 1 >= StaleThreshold
      BY <1>1, <1>7, <2>1
    <2>3. L \in Labels(grp)
      BY <1>2, <2>2, LeastFacts
    <2>4. PICK s \in Samples : \E i \in 1 .. Len(grp[s].steps) : L = grp[s].steps[i]
      BY <2>3 DEF Labels
    <2>5. L \in Range(grp[s].steps)
      BY <2>4 DEF Range, SampleType
    <2>6. Range(grp[s].steps) \in SUBSET Nat
      BY <1>2, <1>3
    <2>7. oldest(s) \in Nat /\ oldest(s) # NoTokens /\ oldest(s) <= L
      BY <1>4, <2>5, <2>6, LeastFacts
    <2>8. IsStale(oldest(s), at)
      BY <1>1, <2>1, <2>2, <2>7, ThresholdType
    <2> QED
      BY <2>8
  <1> QED
    BY <1>5, <1>6, <1>7 DEF L

-----------------------------------------------------------------------------
(***************************************************************************)
(* The refinement.                                                         *)
(***************************************************************************)
\* The two specifications read one record in the same way.
LEMMA SameRecord ==
  /\ Lifecycle!FromDataset = FromDataset
  /\ \A r, w, p : Lifecycle!Launched(r, w, p) = Launched(r, w, p)
  /\ \A r, s : Lifecycle!RefreshGroup(r, s) = RefreshGroup(r, s)
  /\ \A r, m, s : Lifecycle!PutGroup(r, m, s) = PutGroup(r, m, s)
  <1>1. Lifecycle!FromDataset = FromDataset
    BY DEF Lifecycle!FromDataset, FromDataset, Lifecycle!NoTokens, NoTokens
  <1>2. Lifecycle!ExpiredGroup = ExpiredGroup
    BY <1>1 DEF Lifecycle!ExpiredGroup, ExpiredGroup
  <1>3. \A v, s : Lifecycle!IsStale(v, s) = IsStale(v, s)
    BY DEF Lifecycle!IsStale, IsStale, Lifecycle!SeqStaleness, SeqStaleness,
       Lifecycle!StaleThreshold, StaleThreshold, Lifecycle!CalculateSeqStaleness,
       CalculateSeqStaleness, Lifecycle!NoTokens, NoTokens
  <1>4. \A r, m : Lifecycle!Versioned(r, m) = Versioned(r, m)
    BY DEF Lifecycle!Versioned, Versioned, Lifecycle!OldestVersion, OldestVersion,
       Lifecycle!NoTokens, NoTokens
  <1>5. \A r, w, p : Lifecycle!Launched(r, w, p) = Launched(r, w, p)
    BY DEF Lifecycle!Launched, Launched
  <1>6. \A r, s : Lifecycle!RefreshGroup(r, s) = RefreshGroup(r, s)
    BY <1>2, <1>3 DEF Lifecycle!RefreshGroup, RefreshGroup
  <1>7. \A r, m, s : Lifecycle!PutGroup(r, m, s) = PutGroup(r, m, s)
    BY <1>1, <1>2, <1>3, <1>4 DEF Lifecycle!PutGroup, PutGroup
  <1> QED
    BY <1>1, <1>5, <1>6, <1>7

\* What the engine may return is the same, too.
LEMMA SameReturn ==
  /\ \A r : Lifecycle!Returned(r) = Returned(r)
  /\ Lifecycle!Failed = Failed
  <1>1. \A r : Lifecycle!Kept(r) = Kept(r)
    BY DEF Lifecycle!Kept, Kept, Lifecycle!NoTokens, NoTokens
  <1>2. \A a, b : Lifecycle!OldestVersion(a, b) = OldestVersion(a, b)
    BY DEF Lifecycle!OldestVersion, OldestVersion, Lifecycle!NoTokens, NoTokens
  <1>3. Lifecycle!NoTokens = NoTokens
    BY DEF Lifecycle!NoTokens, NoTokens
  <1>4. ASSUME NEW r PROVE Lifecycle!Returned(r) = Returned(r)
    BY <1>1, <1>2, <1>3 DEF Lifecycle!Returned, Returned
  <1>5. Lifecycle!Failed = Failed
    BY SameRecord, Zenon DEF Lifecycle!Failed, Failed
  <1> QED
    BY <1>4, <1>5

\* The record of a group in flight, and of one somebody holds.
FlightRecord(h, l, w) ==
  [stage |-> IF h = {} THEN "running" ELSE "aborting", status |-> "INIT",
   ver |-> l.ver, act |-> l.act, since |-> w, gained |-> FALSE]

HeldRecord(where, status, grp) ==
  [stage |-> where, status |-> status, ver |-> OldestLabel(grp), act |-> OldestToken(grp),
   since |-> NoTokens, gained |-> Gained(grp)]

Unusable == {"FAILED", "FILTERED", "RAISED"}

\* The view, before and after a step.
LEMMA Views ==
  /\ stage = "dataset" => Record = FromDataset
  /\ stage' = "dataset" => Record' = FromDataset
  /\ stage = "flight" => Record = FlightRecord(hit, launched, weights)
  /\ stage' = "flight" => Record' = FlightRecord(hit', launched', weights')
  /\ stage = "finished" /\ outcome \in Unusable =>
       Record = [FromDataset EXCEPT !.stage = "finished", !.status = outcome]
  /\ stage' = "finished" /\ outcome' \in Unusable =>
       Record' = [FromDataset EXCEPT !.stage = "finished", !.status = outcome']
  /\ stage \in {"buffer", "batch"} \/ (stage = "finished" /\ outcome \notin Unusable) =>
       Record = HeldRecord(stage, outcome, sample)
  /\ stage' \in {"buffer", "batch"} \/ (stage' = "finished" /\ outcome' \notin Unusable) =>
       Record' = HeldRecord(stage', outcome', sample')
  BY Zenon DEF Record, FlightRecord, HeldRecord, Unusable, Gained

Paused == \E s \in Samples : flag[s]

\* A step of the group, or none.
Lives == Lifecycle!Next \/ UNCHANGED <<Record, Paused, weights, step>>

\* The record an expired group has.
LEMMA ExpireView ==
  ASSUME NEW grp \in [Samples -> SampleType], Expire(grp), weights' \in Versions
  PROVE  Record' = ExpiredGroup
  <1>1. CASE TailTrigger = 0
    BY <1>1, Views DEF Expire, Dropped, ExpiredGroup
  <1>2. CASE TailTrigger # 0
    <2> DEFINE new == [s \in Samples |-> [Reset(grp[s]) EXCEPT !.status = "EXPIRED"]]
    <2>1. stage' = "buffer" /\ outcome' = "EXPIRED" /\ sample' = new
      BY <1>2 DEF Expire
    <2>2. new \in [Samples -> SampleType] /\ \A s \in Samples : Blank(new[s])
      BY ResetOK
    <2> HIDE DEF new
    <2>3. OldestLabel(new) = NoTokens /\ OldestToken(new) = NoTokens /\ ~ Gained(new)
      BY <2>2, BlankGroup
    <2>4. Gained(new) = FALSE
      BY <2>3, Zenon DEF Gained
    <2>5. Record' = HeldRecord("buffer", "EXPIRED", new)
      BY <2>1, Views
    <2> QED
      BY <1>2, <2>3, <2>4, <2>5 DEF HeldRecord, ExpiredGroup, FromDataset
  <1> QED
    BY <1>1, <1>2

\* The first group comes from the dataset there as well.
LEMMA InitLifecycle == Init => Lifecycle!Init
  <1> SUFFICES ASSUME Init PROVE Lifecycle!Init
    OBVIOUS
  <1>1. Record = FromDataset /\ weights = 0 /\ step = 1
    BY Views DEF Init
  <1>2. Paused = FALSE
    BY DEF Init, Paused
  <1> QED
    BY <1>1, <1>2, SameRecord DEF Lifecycle!Init, Paused

\* The clocks and the engine's flags, seen together, do not move.
Still == weights' = weights /\ step' = step /\ Paused' = Paused

\* The workers' flags seen together.
LEMMA SameFlags == flag' = flag => Paused' = Paused
  BY DEF Paused

\* generate_group sends the group off.
LEMMA LaunchLives == LifeInv /\ Launch => Lives
  <1> SUFFICES ASSUME LifeInv, Launch PROVE Lives
    OBVIOUS
  <1>1. SamplesInv
    BY DEF LifeInv
  <1>2. /\ stage' = "flight" /\ flag' = flag /\ weights' = weights /\ step' = step
        /\ hit' = {s \in Samples : flag[s]}
        /\ launched' = [ver |-> OldestLabel(sample), act |-> OldestToken(sample)]
        /\ \/ stage = "dataset"
           \/ stage = "buffer" /\ outcome \in {"ABORTED", "EXPIRED"}
    BY DEF Launch, clockVars
  <1>3. hit' = {} <=> ~ Paused
    BY <1>2 DEF Paused
  <1>4. Record' = FlightRecord(hit', launched', weights)
    BY <1>2, Views
  <1> DEFINE to == IF Paused THEN "aborting" ELSE "running"
  <1>8. /\ Record' = [stage |-> to, status |-> "INIT", ver |-> launched'.ver,
                      act |-> launched'.act, since |-> weights, gained |-> FALSE]
        /\ \A r : Launched(r, weights, Paused)
                   = [r EXCEPT !.status = "INIT", !.since = weights, !.stage = to]
    BY <1>3, <1>4, Zenon DEF FlightRecord, Launched
  <1> HIDE DEF to
  <1>9. ASSUME NEW where, NEW status,
               Record = [stage |-> where, status |-> status, ver |-> launched'.ver,
                         act |-> launched'.act, since |-> NoTokens, gained |-> FALSE]
        PROVE  Record' = Launched(Record, weights, Paused)
    <2>1. Launched(Record, weights, Paused)
            = [Record EXCEPT !.status = "INIT", !.since = weights, !.stage = to]
      BY <1>8, Zenon
    <2>2. [Record EXCEPT !.status = "INIT", !.since = weights, !.stage = to]
            = [stage |-> to, status |-> "INIT", ver |-> launched'.ver,
               act |-> launched'.act, since |-> weights, gained |-> FALSE]
      <3> DEFINE new == [Record EXCEPT !.status = "INIT", !.since = weights, !.stage = to]
      <3>1. Record \in [stage : {where}, status : {status}, ver : {launched'.ver},
                        act : {launched'.act}, since : {NoTokens}, gained : {FALSE}]
        BY <1>9
      <3>2. new \in [stage : {to}, status : {"INIT"}, ver : {launched'.ver},
                     act : {launched'.act}, since : {weights}, gained : {FALSE}]
        BY <3>1
      <3> HIDE DEF new
      <3>3. new = [stage |-> to, status |-> "INIT", ver |-> launched'.ver,
                   act |-> launched'.act, since |-> weights, gained |-> FALSE]
        BY <3>2
      <3> QED
        BY <3>3 DEF new
    <2> QED
      BY <1>8, <2>1, <2>2, Zenon
  <1>10. launched'.ver = OldestLabel(sample) /\ launched'.act = OldestToken(sample)
    BY <1>2
  <1>5. sample \in [Samples -> SampleType]
    BY <1>1 DEF SamplesInv
  <1>6. CASE stage = "dataset"
    <2>1. \A s \in Samples : Blank(sample[s])
      BY <1>1, <1>6 DEF SamplesInv, StageInv, SampleOK
    <2>2. OldestLabel(sample) = NoTokens /\ OldestToken(sample) = NoTokens
      BY <1>5, <2>1, BlankGroup
    <2>3. Record = FromDataset
      BY <1>6, Views
    <2>5. Record = [stage |-> "dataset", status |-> "INIT", ver |-> launched'.ver,
                    act |-> launched'.act, since |-> NoTokens, gained |-> FALSE]
      BY <1>10, <2>2, <2>3 DEF FromDataset
    <2>4. Record' = Launched(Record, weights, Paused) /\ Record.stage = "dataset"
      BY <1>9, <2>5
    <2> QED
      BY <1>2, <2>4, SameRecord, SameFlags DEF Lives, Lifecycle!Next, Lifecycle!Launch, Paused
  <1>7. CASE stage = "buffer" /\ outcome \in {"ABORTED", "EXPIRED"}
    <2>1. Record = HeldRecord("buffer", outcome, sample)
      BY <1>7, Views
    <2>2. ~ Gained(sample)
      BY <1>1, <1>5, <1>7, AlignedLeft DEF SamplesInv, StageInv, Stored
    <2>3. Gained(sample) = FALSE
      BY <2>2, Zenon DEF Gained
    <2>5. Record = [stage |-> "buffer", status |-> outcome, ver |-> launched'.ver,
                    act |-> launched'.act, since |-> NoTokens, gained |-> FALSE]
      BY <1>10, <2>1, <2>3 DEF HeldRecord
    <2>4. /\ Record' = Launched(Record, weights, Paused)
          /\ Record.stage = "buffer" /\ Record.status \in {"ABORTED", "EXPIRED"}
      BY <1>7, <1>9, <2>5
    <2> QED
      BY <1>2, <2>4, SameRecord, SameFlags DEF Lives, Lifecycle!Next, Lifecycle!Launch, Paused
  <1> QED
    BY <1>2, <1>6, <1>7

\* A group that comes back.
LEMMA ReturnLives ==
  ASSUME LifeInv, stage = "flight", flag' = flag, weights' = weights, step' = step,
         Record' \in Returned(Record) \cup Failed
  PROVE  Lives
  <1>1. Record.stage \in {"running", "aborting"}
    BY Views DEF FlightRecord
  <1>2. Lifecycle!Return
    BY <1>1, SameReturn, SameFlags DEF Lifecycle!Return, Lifecycle!InFlight, Paused
  <1> QED
    BY <1>2 DEF Lives, Lifecycle!Next

\* A step of a request is none of the group, unless it raises.
LEMMA WorkerLives ==
  ASSUME LifeInv, NEW t \in Samples, WorkerNext(t)
  PROVE  Lives
  <1>1. CASE RaiseCall(t)
    <2>1. /\ stage = "flight" /\ stage' = "finished" /\ outcome' = "RAISED"
          /\ flag' = flag /\ weights' = weights /\ step' = step
      BY <1>1 DEF RaiseCall, CallAt, clockVars
    <2>2. Record' \in Failed
      BY <2>1, Views DEF Failed, Unusable
    <2> QED
      BY <2>1, <2>2, ReturnLives
  <1>2. CASE ~ RaiseCall(t)
    <2>1. \E new, at : Moved(t, new, at)
      BY <1>2, WorkerMoves DEF LifeInv
    <2>2. /\ stage = "flight" /\ stage' = stage /\ flag' = flag /\ hit' = hit
          /\ launched' = launched /\ weights' = weights /\ step' = step
      BY <2>1 DEF Moved, clockVars
    <2>3. Record' = Record
      BY <2>2, Views
    <2> QED
      BY <2>2, <2>3, SameFlags DEF Lives
  <1> QED
    BY <1>1, <1>2

\* gather puts together one of the groups the engine may return.
LEMMA GatherLives == LifeInv /\ Gather => Lives
  <1> SUFFICES ASSUME LifeInv, Gather PROVE Lives
    OBVIOUS
  <1>1. SamplesInv
    BY DEF LifeInv
  <1>2. /\ stage = "flight" /\ stage' = "finished" /\ sample' = sample /\ flag' = flag
        /\ weights' = weights /\ step' = step
        /\ \A s \in Samples : call[s].at = "done"
        /\ outcome' = GroupStatus(sample) \/ outcome' = "FILTERED"
    BY DEF Gather, clockVars
  <1>3. FinishedInv'
    BY <1>2, GatherLife DEF LifeInv
  <1>4. CASE outcome' \in Unusable
    <2>1. Record' \in Failed
      BY <1>2, <1>4, Views DEF Failed, Unusable
    <2> QED
      BY <1>2, <2>1, ReturnLives
  <1>5. CASE outcome' \notin Unusable
    <2>1. outcome' = GroupStatus(sample) /\ outcome' \in {"COMPLETED", "ABORTED"}
      BY <1>2, <1>3, <1>5 DEF FinishedInv, Unusable
    <2>2. Record' = HeldRecord("finished", outcome', sample)
      BY <1>2, <1>5, Views
    <2>3. Record = FlightRecord(hit, launched, weights)
      BY <1>2, Views
    <2>4. outcome' = "ABORTED" => hit # {}
      <3> SUFFICES ASSUME outcome' = "ABORTED" PROVE hit # {}
        OBVIOUS
      <3>1. sample \in [Samples -> SampleType]
        BY <1>1 DEF SamplesInv
      <3>2. PICK s \in Samples : sample[s].status = "ABORTED"
        BY <2>1, <3>1, GroupStatusOf
      <3> QED
        BY <1>2, <3>2 DEF LifeInv, FlightInv
    <2>5. outcome' \in {"COMPLETED"} \cup (IF Record.stage = "aborting" THEN {"ABORTED"} ELSE {})
      BY <2>1, <2>3, <2>4 DEF FlightRecord
    <2> DEFINE k == LeftOf(sample)
    <2>6. k \in Kept(Record)
      <3>1. LeftOf(sample) \in Kept(Sent)
        BY <1>2 DEF LifeInv, FlightInv
      <3>2. Kept(Sent) = Kept(Record)
        BY <2>3 DEF Kept, Sent, FlightRecord
      <3> QED
        BY <3>1, <3>2
    <2>7. /\ OldestLabel(sample) = k.ver
          /\ OldestToken(sample) = IF Gained(sample) THEN OldestVersion(k.act, weights) ELSE k.act
      <3>1. /\ sample \in [Samples -> SampleType] /\ weights \in Versions
            /\ \A s \in Samples : Labelled(sample[s], weights)
        BY <1>1 DEF SamplesInv, OthersTyped, SampleOK
      <3> QED
        BY <3>1, OldestOf, TokensSplit DEF LeftOf
    <2>8. Gained(sample) \in BOOLEAN
      BY Zenon DEF Gained
    <2>9. Record.since = weights
      BY <2>3 DEF FlightRecord
    <2> HIDE DEF k
    <2>10. Record' \in Returned(Record)
      BY <2>2, <2>5, <2>6, <2>7, <2>8, <2>9 DEF Returned, HeldRecord
    <2> QED
      BY <1>2, <2>10, ReturnLives
  <1> QED
    BY <1>4, <1>5

\* update_sample_version on the samples is Versioned on the record.
LEMMA VersionsGrow ==
  ASSUME LifeInv, NEW modelStep \in 0 .. weights,
         NEW grp, grp = [s \in Samples |-> VersionedSample(sample[s], modelStep)]
  PROVE  /\ OldestLabel(grp) = IF Gained(sample) THEN OldestVersion(OldestLabel(sample), modelStep)
                               ELSE OldestLabel(sample)
         /\ OldestToken(grp) = OldestToken(sample)
         /\ ~ Gained(grp)
  <1>1. /\ sample \in [Samples -> SampleType] /\ weights \in Versions
        /\ \A s \in Samples : Labelled(sample[s], weights)
    BY DEF LifeInv, SamplesInv, OthersTyped, SampleOK
  <1>2. /\ grp \in [Samples -> SampleType]
        /\ \A s \in Samples : Len(grp[s].steps) = Len(grp[s].ids) /\ grp[s].ids = sample[s].ids
    BY PutSamples DEF LifeInv
  <1>3. \A s \in Samples : Len(sample[s].steps) \in Nat /\ Len(sample[s].ids) \in Nat
                           /\ Len(sample[s].steps) <= Len(sample[s].ids)
    BY <1>1 DEF SampleType, Labelled
  <1>4. ASSUME NEW s \in Samples, NEW i \in 1 .. Len(sample[s].ids)
        PROVE  grp[s].steps[i] = IF i <= Len(sample[s].steps) THEN sample[s].steps[i] ELSE modelStep
    <2> DEFINE versions == [j \in 1 .. Len(sample[s].ids) |->
                              IF j <= Len(sample[s].steps) THEN sample[s].steps[j] ELSE modelStep]
    <2>1. (IF Len(sample[s].ids) > Len(sample[s].steps) THEN Len(sample[s].ids)
           ELSE Len(sample[s].steps)) = Len(sample[s].ids)
      BY <1>3
    <2>2. grp[s] = [sample[s] EXCEPT !.steps = versions]
      BY <2>1 DEF VersionedSample
    <2>3. grp[s].steps = versions
      <3> HIDE DEF versions
      <3> QED
        BY <1>1, <2>2 DEF SampleType
    <2> QED
      BY <2>3
  <1>5. \A s \in Samples : Len(grp[s].steps) = Len(sample[s].ids)
    BY <1>2
  <1>6. modelStep \in Versions
    BY <1>1 DEF Versions
  <1>7. Labels(sample) \in SUBSET Nat /\ modelStep \in Nat
    BY <1>6, VersionsAreNats DEF Labels
  <1>8. ~ Gained(grp)
    BY <1>2, AlignedLeft
  <1>9. Tokens(grp) = Tokens(sample)
    BY <1>2 DEF Tokens
  <1>10. CASE Gained(sample)
    <2>1. Labels(grp) \subseteq Labels(sample) \cup {modelStep}
      <3> SUFFICES ASSUME NEW x \in Labels(grp), x # modelStep PROVE x \in Labels(sample)
        OBVIOUS
      <3>1. PICK s \in Samples : \E i \in 1 .. Len(grp[s].steps) : x = grp[s].steps[i]
        BY DEF Labels
      <3>2. PICK i \in 1 .. Len(sample[s].ids) : x = grp[s].steps[i]
        BY <1>5, <3>1
      <3>3. i <= Len(sample[s].steps) /\ x = sample[s].steps[i]
        BY <1>4, <3>2
      <3>4. i \in 1 .. Len(sample[s].steps)
        BY <1>3, <3>3
      <3> QED
        BY <3>3, <3>4 DEF Labels
    <2>2. Labels(sample) \subseteq Labels(grp)
      <3> SUFFICES ASSUME NEW x \in Labels(sample) PROVE x \in Labels(grp)
        OBVIOUS
      <3>1. PICK s \in Samples : \E i \in 1 .. Len(sample[s].steps) : x = sample[s].steps[i]
        BY DEF Labels
      <3>2. PICK i \in 1 .. Len(sample[s].steps) : x = sample[s].steps[i]
        BY <3>1
      <3>3. i \in 1 .. Len(sample[s].ids) /\ i <= Len(sample[s].steps)
        BY <1>3
      <3>4. x = grp[s].steps[i] /\ i \in 1 .. Len(grp[s].steps)
        BY <1>4, <1>5, <3>2, <3>3
      <3> QED
        BY <3>4 DEF Labels
    <2>3. modelStep \in Labels(grp)
      <3>1. PICK s \in Samples : Len(sample[s].ids) > Len(sample[s].steps)
        BY <1>10 DEF Gained
      <3>2. Len(sample[s].ids) \in 1 .. Len(sample[s].ids)
        BY <1>3, <3>1
      <3>3. grp[s].steps[Len(sample[s].ids)] = modelStep
        BY <1>3, <1>4, <3>1, <3>2
      <3> QED
        BY <1>5, <1>6, <3>2, <3>3 DEF Labels
    <2>4. Labels(grp) = Labels(sample) \cup {modelStep}
      BY <2>1, <2>2, <2>3
    <2> QED
      BY <1>1, <1>2, <1>7, <1>8, <1>9, <1>10, <2>4, OldestOf, LeastOfMore
  <1>11. CASE ~ Gained(sample)
    <2>1. \A s \in Samples : Len(sample[s].steps) = Len(sample[s].ids)
      BY <1>3, <1>11 DEF Gained
    <2>2. \A s \in Samples : \A i \in 1 .. Len(sample[s].steps) : grp[s].steps[i] = sample[s].steps[i]
      BY <1>4, <2>1
    <2>3. Labels(grp) = Labels(sample)
      BY <1>5, <2>1, <2>2 DEF Labels
    <2> QED
      BY <1>1, <1>2, <1>8, <1>9, <1>11, <2>3, OldestOf
  <1> QED
    BY <1>10, <1>11

\* put_generated_group decides for the samples as PutGroup does for the record.
LEMMA PutLives == LifeInv /\ Put => Lives
  <1> SUFFICES ASSUME LifeInv, Put PROVE Lives
    OBVIOUS
  <1>1. SamplesInv /\ SamplesInv'
    BY PutInv DEF LifeInv
  <1>2. PICK modelStep \in 0 .. weights :
          LET grp == [s \in Samples |-> VersionedSample(sample[s], modelStep)]
          IN IF outcome \in {"FAILED", "FILTERED"} THEN Dropped
             ELSE IF AnyStale(grp, step) THEN Expire(grp)
             ELSE /\ stage' = "buffer"
                  /\ outcome' = GroupStatus(grp)
                  /\ sample' = grp
    BY DEF Put
  <1>3. /\ stage = "finished" /\ outcome # "RAISED"
        /\ flag' = flag /\ weights' = weights /\ step' = step
    BY DEF Put, clockVars
  <1> DEFINE grp == [s \in Samples |-> VersionedSample(sample[s], modelStep)]
  <1>4. /\ grp \in [Samples -> SampleType]
        /\ \A s \in Samples : grp[s].status = sample[s].status
    BY <1>1, PutSamples
  <1>5. /\ OldestLabel(grp) = IF Gained(sample) THEN OldestVersion(OldestLabel(sample), modelStep)
                              ELSE OldestLabel(sample)
        /\ OldestToken(grp) = OldestToken(sample)
        /\ ~ Gained(grp)
    BY VersionsGrow
  <1>6. /\ outcome \in {"FAILED", "FILTERED"} => Dropped
        /\ outcome \notin {"FAILED", "FILTERED"} =>
             /\ AnyStale(grp, step) => Expire(grp)
             /\ ~ AnyStale(grp, step) => /\ stage' = "buffer" /\ outcome' = GroupStatus(grp)
                                         /\ sample' = grp
    BY <1>2
  <1> HIDE DEF grp
  <1>7. ASSUME Record.stage = "finished", Record' = PutGroup(Record, modelStep, step)
        PROVE  Lives
    <2>1. Lifecycle!Put
      BY <1>3, <1>7, SameRecord, SameFlags DEF Lifecycle!Put, Paused
    <2> QED
      BY <2>1 DEF Lives, Lifecycle!Next
  <1>8. CASE outcome \in {"FAILED", "FILTERED"}
    <2>1. Record = [FromDataset EXCEPT !.stage = "finished", !.status = outcome]
      BY <1>3, <1>8, Views DEF Unusable
    <2>2. Record' = FromDataset
      BY <1>6, <1>8, Views DEF Dropped
    <2>3. Record.stage = "finished" /\ Record.status = outcome
      BY <2>1 DEF FromDataset
    <2>4. Record' = PutGroup(Record, modelStep, step)
      BY <1>8, <2>2, <2>3 DEF PutGroup
    <2> QED
      BY <1>7, <2>3, <2>4
  <1>9. CASE outcome \notin {"FAILED", "FILTERED"}
    <2>1. outcome \in {"COMPLETED", "ABORTED"} /\ outcome = GroupStatus(sample)
      BY <1>3, <1>9 DEF LifeInv, FinishedInv
    <2>2. Record = HeldRecord("finished", outcome, sample)
      BY <1>3, <2>1, Views DEF Unusable
    <2>3. Gained(grp) = FALSE
      BY <1>5, Zenon DEF Gained
    <2>4. Gained(sample) \in BOOLEAN
      BY Zenon DEF Gained
    <2>5. Versioned(Record, modelStep) = HeldRecord("buffer", outcome, grp)
      <3> DEFINE ver == IF Record.gained THEN OldestVersion(Record.ver, modelStep) ELSE Record.ver
                 new == [Record EXCEPT !.stage = "buffer", !.gained = FALSE, !.ver = ver]
      <3>1. /\ Record.gained = Gained(sample) /\ Record.ver = OldestLabel(sample)
            /\ Record \in [stage : {"finished"}, status : {outcome}, ver : {OldestLabel(sample)},
                           act : {OldestToken(sample)}, since : {NoTokens}, gained : BOOLEAN]
        BY <2>2, <2>4 DEF HeldRecord
      <3>2. ver = OldestLabel(grp)
        BY <1>5, <3>1
      <3>3. Versioned(Record, modelStep) = new
        BY Zenon DEF Versioned
      <3> HIDE DEF ver
      <3>4. new \in [stage : {"buffer"}, status : {outcome}, ver : {ver},
                     act : {OldestToken(sample)}, since : {NoTokens}, gained : {FALSE}]
        BY <3>1
      <3> HIDE DEF new
      <3>5. new = [stage |-> "buffer", status |-> outcome, ver |-> ver,
                   act |-> OldestToken(sample), since |-> NoTokens, gained |-> FALSE]
        BY <3>4
      <3> QED
        BY <1>5, <2>3, <3>2, <3>3, <3>5, Zenon DEF HeldRecord
    <2>6. /\ Record.stage = "finished" /\ Record.status = outcome
          /\ Versioned(Record, modelStep).ver = OldestLabel(grp)
      BY <2>2, <2>5 DEF HeldRecord
    <2>7. AnyStale(grp, step) <=> IsStale(OldestLabel(grp), step)
      BY <1>1, <1>4, StaleGroup DEF SamplesInv, OthersTyped
    <2>8. CASE AnyStale(grp, step)
      <3>1. Record' = ExpiredGroup
        BY <1>1, <1>4, <1>6, <1>9, <2>8, ExpireView DEF SamplesInv, OthersTyped
      <3>2. PutGroup(Record, modelStep, step) = ExpiredGroup
        BY <2>1, <2>6, <2>7, <2>8 DEF PutGroup
      <3> QED
        BY <1>7, <2>6, <3>1, <3>2
    <2>9. CASE ~ AnyStale(grp, step)
      <3>1. stage' = "buffer" /\ outcome' = outcome /\ sample' = grp
        BY <1>4, <1>6, <1>9, <2>1, <2>9, GroupStatusSame
      <3>2. Record' = HeldRecord("buffer", outcome, grp)
        BY <3>1, Views
      <3>3. PutGroup(Record, modelStep, step) = Versioned(Record, modelStep)
        BY <2>1, <2>6, <2>7, <2>9 DEF PutGroup
      <3> QED
        BY <1>7, <2>5, <2>6, <3>2, <3>3
    <2> QED
      BY <2>8, <2>9
  <1> QED
    BY <1>8, <1>9

\* Where a group is, the record says, too.
LEMMA StageOf ==
  ASSUME SamplesInv
  PROVE  /\ stage = "flight" <=> Record.stage \in {"running", "aborting"}
         /\ stage \in {"dataset", "finished", "buffer", "batch"} => Record.stage = stage
         /\ stage \in {"buffer", "batch"} => /\ Record.status = outcome
                                             /\ Record.ver = OldestLabel(sample)
  <1>1. CASE stage = "dataset"
    BY <1>1, Views DEF FromDataset
  <1>2. CASE stage = "flight"
    BY <1>2, Views DEF FlightRecord
  <1>3. CASE stage = "finished" /\ outcome \in Unusable
    BY <1>3, Views DEF FromDataset
  <1>4. CASE stage \in {"buffer", "batch"} \/ (stage = "finished" /\ outcome \notin Unusable)
    BY <1>4, Views DEF HeldRecord
  <1> QED
    BY <1>1, <1>2, <1>3, <1>4 DEF SamplesInv

\* refresh_staleness decides for the samples as RefreshGroup does for the record.
LEMMA NextStepLives == LifeInv /\ NextStep => Lives
  <1> SUFFICES ASSUME LifeInv, NextStep PROVE Lives
    OBVIOUS
  <1>1. SamplesInv
    BY DEF LifeInv
  <1>2. /\ step <= TotalSteps /\ step' = step + 1 /\ step' \in Nat
        /\ flag' = flag /\ hit' = hit /\ launched' = launched /\ weights' = weights
        /\ weights \in Versions /\ sample \in [Samples -> SampleType]
    BY <1>1 DEF NextStep, SamplesInv, OthersTyped
  <1> DEFINE expires == /\ stage = "buffer" /\ outcome \in {"COMPLETED", "ABORTED"}
                        /\ AnyStale(sample, step')
  <1>3. /\ expires => Expire(sample)
        /\ ~ expires => UNCHANGED <<stage, outcome, sample>>
    BY DEF NextStep
  <1>4. AnyStale(sample, step') <=> IsStale(OldestLabel(sample), step')
    BY <1>2, StaleGroup
  <1>5. Record' = RefreshGroup(Record, step')
    <2>1. CASE expires
      <3>1. Record' = ExpiredGroup
        BY <1>2, <1>3, <2>1, ExpireView
      <3> QED
        BY <1>1, <1>4, <2>1, <3>1, StageOf DEF RefreshGroup
    <2>2. CASE ~ expires
      <3>1. Record' = Record
        BY <1>1, <1>2, <1>3, <2>2, Views DEF SamplesInv
      <3>2. Record.stage = "buffer" => stage = "buffer"
        BY <1>1, StageOf DEF SamplesInv
      <3> QED
        BY <1>1, <1>4, <2>2, <3>1, <3>2, StageOf DEF RefreshGroup
    <2> QED
      BY <2>1, <2>2
  <1>6. Lifecycle!NextStep
    BY <1>2, <1>5, SameRecord, SameFlags DEF Lifecycle!NextStep, Paused
  <1> QED
    BY <1>6 DEF Lives, Lifecycle!Next

\* Every step of the samples is a step in the life of the group, or none.
LEMMA NextLives ==
  ASSUME LifeInv, Next
  PROVE  Lives
  <1>0. SamplesInv
    BY DEF LifeInv
  <1>1. CASE Cancel
    <2>1. /\ stage \in {"flight", "finished"} /\ stage' = "dataset"
          /\ flag' = flag /\ weights' = weights /\ step' = step
      BY <1>1 DEF Cancel, Dropped, clockVars
    <2>2. Record.stage \in {"running", "aborting", "finished"} /\ Record' = FromDataset
      BY <1>0, <2>1, StageOf, Views
    <2>3. Lifecycle!Cancel
      BY <2>1, <2>2, SameRecord, SameFlags DEF Lifecycle!Cancel, Lifecycle!InFlight, Paused
    <2> QED
      BY <2>3 DEF Lives, Lifecycle!Next
  <1>2. CASE TakeBatch
    <2>1. /\ stage = "buffer" /\ outcome = "COMPLETED" /\ stage' = "batch" /\ outcome' = outcome
          /\ sample' = sample /\ flag' = flag /\ weights' = weights /\ step' = step
      BY <1>2 DEF TakeBatch, clockVars
    <2>2. /\ Record = HeldRecord("buffer", "COMPLETED", sample)
          /\ Record' = HeldRecord("batch", "COMPLETED", sample)
      BY <2>1, Views
    <2>3. /\ Record.stage = "buffer" /\ Record.status = "COMPLETED"
          /\ Record' = [Record EXCEPT !.stage = "batch"]
      BY <2>2 DEF HeldRecord
    <2>4. Lifecycle!Take
      BY <2>1, <2>3, SameFlags DEF Lifecycle!Take, Paused
    <2> QED
      BY <2>4 DEF Lives, Lifecycle!Next
  <1>3. CASE TrainOneBatch
    <2>1. /\ stage = "batch" /\ stage' = "dataset"
          /\ flag' = flag /\ weights' = weights /\ step' = step
      BY <1>3 DEF TrainOneBatch, Dropped, clockVars
    <2>2. Record.stage = "batch" /\ Record' = FromDataset
      BY <1>0, <2>1, StageOf, Views
    <2>3. Lifecycle!Train
      BY <2>1, <2>2, SameRecord, SameFlags DEF Lifecycle!Train, Paused
    <2> QED
      BY <2>3 DEF Lives, Lifecycle!Next
  <1>4. CASE UpdateWeights
    <2>1. /\ stage \in {"dataset", "buffer", "batch"} /\ stage' = stage /\ outcome' = outcome
          /\ sample' = sample /\ flag' = flag /\ step' = step
          /\ weights' \in (weights + 1) .. step
      BY <1>0, <1>4 DEF UpdateWeights, SamplesInv
    <2>2. Record' = Record /\ Record.stage \in {"dataset", "buffer", "batch"}
      BY <1>0, <2>1, StageOf, Views
    <2>3. Lifecycle!UpdateWeights
      BY <2>1, <2>2, SameFlags DEF Lifecycle!UpdateWeights, Lifecycle!InFlight, Paused
    <2> QED
      BY <2>3 DEF Lives, Lifecycle!Next
  <1>5. ASSUME NEW t \in Samples, PauseWorker(t) PROVE Lives
    <2>1. /\ flag' = [flag EXCEPT ![t] = TRUE] /\ sample' = sample /\ stage' = stage
          /\ outcome' = outcome /\ launched' = launched /\ weights' = weights /\ step' = step
          /\ stage = "flight" => t \in hit'
      BY <1>5 DEF PauseWorker, clockVars
    <2>2. Paused' = TRUE
      BY <1>0, <2>1 DEF Paused, SamplesInv, OthersTyped
    <2>3. CASE stage = "flight"
      <3>1. hit' # {}
        BY <2>1, <2>3
      <3>2. /\ Record = FlightRecord(hit, launched, weights)
            /\ Record' = FlightRecord(hit', launched, weights)
        BY <2>1, <2>3, Views
      <3>3. Record' = [Record EXCEPT !.stage = "aborting"]
        <4> DEFINE where == IF hit = {} THEN "running" ELSE "aborting"
        <4>1. /\ Record = [stage |-> where, status |-> "INIT", ver |-> launched.ver,
                           act |-> launched.act, since |-> weights, gained |-> FALSE]
              /\ Record' = [stage |-> "aborting", status |-> "INIT", ver |-> launched.ver,
                            act |-> launched.act, since |-> weights, gained |-> FALSE]
          BY <3>1, <3>2, Zenon DEF FlightRecord
        <4> HIDE DEF where
        <4> DEFINE new == [Record EXCEPT !.stage = "aborting"]
        <4>2. Record \in [stage : {where}, status : {"INIT"}, ver : {launched.ver},
                          act : {launched.act}, since : {weights}, gained : {FALSE}]
          BY <4>1
        <4>3. new \in [stage : {"aborting"}, status : {"INIT"}, ver : {launched.ver},
                       act : {launched.act}, since : {weights}, gained : {FALSE}]
          BY <4>2
        <4> HIDE DEF new
        <4>4. new = Record'
          BY <4>1, <4>3
        <4> QED
          BY <4>4 DEF new
      <3>4. Lifecycle!InFlight
        BY <1>0, <2>3, StageOf DEF Lifecycle!InFlight
      <3>5. Lifecycle!Pause
        BY <2>1, <2>2, <3>3, <3>4 DEF Lifecycle!Pause, Paused
      <3> QED
        BY <3>5 DEF Lives, Lifecycle!Next
    <2>4. CASE stage # "flight"
      <3>1. Record' = Record
        BY <1>0, <2>1, <2>4, Views DEF SamplesInv
      <3>2. ~ Lifecycle!InFlight
        BY <1>0, <2>4, StageOf DEF Lifecycle!InFlight
      <3>3. Lifecycle!Pause
        BY <2>1, <2>2, <3>1, <3>2 DEF Lifecycle!Pause, Paused
      <3> QED
        BY <3>3 DEF Lives, Lifecycle!Next
    <2> QED
      BY <2>3, <2>4
  <1>6. ASSUME NEW t \in Samples, ContinueWorker(t) PROVE Lives
    <2>1. /\ flag[t] /\ hit' = hit /\ sample' = sample /\ stage' = stage
          /\ outcome' = outcome /\ launched' = launched /\ weights' = weights /\ step' = step
      BY <1>6 DEF ContinueWorker, clockVars
    <2>2. Record' = Record
      BY <1>0, <2>1, Views DEF SamplesInv
    <2>3. Paused = TRUE /\ Paused' \in BOOLEAN
      BY <2>1, Zenon DEF Paused
    <2>4. CASE Paused' = TRUE
      BY <2>1, <2>2, <2>3, <2>4 DEF Lives
    <2>5. CASE Paused' = FALSE
      <3>1. Lifecycle!Continue
        BY <2>1, <2>2, <2>5 DEF Lifecycle!Continue, Paused
      <3> QED
        BY <3>1 DEF Lives, Lifecycle!Next
    <2> QED
      BY <2>3, <2>4, <2>5
  <1> QED
    BY <1>1, <1>2, <1>3, <1>4, <1>5, <1>6, LaunchLives, GatherLives, PutLives, NextStepLives,
       WorkerLives DEF Next

\* A step that changes nothing is one of the record as well.
LEMMA StutterLives == UNCHANGED vars => UNCHANGED Lifecycle!vars
  <1> SUFFICES ASSUME UNCHANGED vars PROVE UNCHANGED Lifecycle!vars
    OBVIOUS
  <1>1. /\ stage' = stage /\ outcome' = outcome /\ sample' = sample /\ flag' = flag
        /\ hit' = hit /\ launched' = launched /\ weights' = weights /\ step' = step
    BY DEF vars, clockVars
  <1>2. Record' = Record
    BY <1>1 DEF Record, OldestLabel, OldestToken, Oldest
  <1> QED
    BY <1>1, <1>2, SameFlags DEF Lifecycle!vars, Paused

\* Samples, retries and per-worker flags implement the life of a group that
\* DisaggTraining is built from.
THEOREM LifecycleImplemented == Spec => ImplementsLifecycle
  <1>1. Lives => [Lifecycle!Next]_Lifecycle!vars
    BY DEF Lives, Lifecycle!vars, Paused
  <1>2. LifeInv /\ [Next]_vars => [Lifecycle!Next]_Lifecycle!vars
    BY <1>1, NextLives, StutterLives
  <1> QED
    BY <1>2, InitLife, LifeStep, InitLifecycle, PTL
    DEF Spec, ImplementsLifecycle, Lifecycle!Spec
=============================================================================
