---------------------------- MODULE GroupSamples ----------------------------
(***************************************************************************)
(* One prompt group, sample by sample: agent_loop.generate_group sends one *)
(* request per sample, each to a rollout worker with its own abort flag    *)
(* and its own retries (RolloutWorker.generate), and puts the group        *)
(* together when the last one has returned.  Pauses, retries, partial      *)
(* results and completed samples inside an aborted group mix freely.       *)
(***************************************************************************)
EXTENDS RolloutGroup, SequencesExt

CONSTANTS
  Samples,     \* the samples of the group (prompt_repeat_k of them)
  MaxTokens,   \* sample_params.max_tokens
  MaxRetry,    \* max_retry_per_sample
  EndKinds,    \* how a response may stop early: "eos" on a token of the
               \* worker's eos_token, "stop" on another stop token or string
  TotalSteps   \* bound of the model: train steps

ASSUME SamplesAssumption ==
  /\ Samples # {} /\ IsFiniteSet(Samples)
  /\ MaxTokens \in Nat \ {0}
  /\ MaxRetry \in Nat
  /\ EndKinds \subseteq {"eos", "stop"}
  /\ TotalSteps \in Nat \ {0}

VARIABLES
  sample,    \* the RolloutStates: status, response_ids (each token stands for
             \* the weights that generated it), response_model_steps, and how
             \* the response ended, "no" if it was cut
  call,      \* where the request of each sample is, and its attempt
  stage,     \* who holds the group, as in RolloutGroup; "flight" for both
             \* stages of a group in generation
  outcome,   \* the group status put stores; from gather on, that it will
  flag,      \* receive_abort_request of the worker that serves each sample
  hit,       \* workers that were paused since the group was launched
  launched,  \* the versions of the group when it was launched
  weights,   \* the train step whose weights the engines hold
  step       \* next_consumer_step

vars == <<sample, call, stage, outcome, flag, hit, launched, weights, step>>
clockVars == <<weights, step>>

-----------------------------------------------------------------------------
\* What sample_from_dataloader returns.
FreshSample == [status |-> "INIT", ids |-> <<>>, steps |-> <<>>, end |-> "no"]

\* Mutant: reset_rollout_response forgets response_model_steps.
ResetKeepsSteps(s) == [s EXCEPT !.ids = <<>>, !.end = "no"]

\* reset_rollout_response.
Reset(s) == [s EXCEPT !.ids = <<>>, !.steps = <<>>, !.end = "no"]

\* Mutant: the group counts as completed as soon as nothing failed.
GroupStatusHasty(grp) ==
  IF \E s \in Samples : grp[s].status = "FAILED" THEN "FAILED"
  ELSE IF \E s \in Samples : grp[s].status = "COMPLETED" THEN "COMPLETED"
  ELSE grp[CHOOSE s \in Samples : TRUE].status

\* get_group_status: the first of these that some sample has.
StatusPriority == <<"FAILED", "ABORTED", "EXPIRED", "FILTERED">>
GroupStatus(grp) ==
  LET found == {i \in DOMAIN StatusPriority :
                  \E s \in Samples : grp[s].status = StatusPriority[i]}
  IN IF found = {} THEN "COMPLETED" ELSE StatusPriority[Min(found)]

\* Mutant: every token gets the newest version.
VersionedSampleAll(s, modelStep) ==
  [s EXCEPT !.steps = [i \in 1 .. Len(s.ids) |-> modelStep]]

\* update_sample_version: tokens without a version get this one.
VersionedSample(s, modelStep) ==
  [s EXCEPT !.steps =
     [i \in 1 .. IF Len(s.ids) > Len(s.steps) THEN Len(s.ids) ELSE Len(s.steps) |->
        IF i <= Len(s.steps) THEN s.steps[i] ELSE modelStep]]

\* The oldest of the versions in the sequences seq[s].
Oldest(seq) ==
  LET all == UNION {Range(seq[s]) : s \in Samples}
  IN IF all = {} THEN NoTokens ELSE Min(all)

OldestLabel(grp) == Oldest([s \in Samples |-> grp[s].steps])
OldestToken(grp) == Oldest([s \in Samples |-> grp[s].ids])

\* maybe_expire_group asks every sample; the group is as stale as its oldest.
AnyStale(grp, at) == \E s \in Samples :
  IsStale(IF grp[s].steps = <<>> THEN NoTokens ELSE Min(Range(grp[s].steps)), at)

-----------------------------------------------------------------------------
NoCalls == [s \in Samples |-> [at |-> "none", attempt |-> 0]]
NoVersions == [ver |-> NoTokens, act |-> NoTokens]

Init ==
  /\ sample = [s \in Samples |-> FreshSample]
  /\ call = NoCalls
  /\ stage = "dataset"
  /\ outcome = "INIT"
  /\ flag = [s \in Samples |-> FALSE]
  /\ hit = {}
  /\ launched = NoVersions
  /\ weights = 0
  /\ step = 1

\* The group goes back to the dataset: nobody can find it any more.
Dropped ==
  /\ stage' = "dataset"
  /\ outcome' = "INIT"
  /\ sample' = [s \in Samples |-> FreshSample]

NoneInFlight ==
  /\ call' = NoCalls
  /\ hit' = {}
  /\ launched' = NoVersions

\* generate_group: a request per sample, whatever the sample's status is.
Launch ==
  /\ stage = "dataset" \/ (stage = "buffer" /\ outcome \in {"ABORTED", "EXPIRED"})
  /\ stage' = "flight"
  /\ outcome' = "INIT"
  /\ call' = [s \in Samples |-> [at |-> "sent", attempt |-> 0]]
  /\ hit' = {s \in Samples : flag[s]}
  /\ launched' = [ver |-> OldestLabel(sample), act |-> OldestToken(sample)]
  /\ UNCHANGED <<sample, flag, clockVars>>

-----------------------------------------------------------------------------
(***************************************************************************)
(* RolloutWorker.generate for one sample.  While a request is on its way,  *)
(* the state below is the worker's copy of it.                             *)
(***************************************************************************)
\* The request returns with this sample.
Return(s, smp) ==
  /\ sample' = [sample EXCEPT ![s] = smp]
  /\ call' = [call EXCEPT ![s] = [at |-> "done", attempt |-> 0]]
  /\ UNCHANGED <<stage, outcome, flag, hit, launched, clockVars>>

CallAt(s, where) == stage = "flight" /\ call[s].at = where

\* The abort flag is looked at before the sample is.
RefuseCall(s) ==
  /\ CallAt(s, "sent")
  /\ flag[s]
  /\ Return(s, [sample[s] EXCEPT !.status = "ABORTED"])

\* What the request starts from: with partial rollout the tokens so far.
Prepared(smp) ==
  IF ~ Partial /\ smp.status = "ABORTED" THEN [Reset(smp) EXCEPT !.status = "INIT"]
  ELSE smp

\* Mutant: preprocess does not subtract the tokens so far.
RemainingAll(smp) == MaxTokens

\* preprocess: the budget that is left; without partial rollout all of it.
Remaining(smp) == IF Partial THEN MaxTokens - Len(smp.ids) ELSE MaxTokens

\* Mutant: the last input token is not looked at.
NothingLeftByLength(smp) == Remaining(smp) <= 0

NothingLeft(smp) == Remaining(smp) <= 0 \/ smp.end = "eos"

\* A completed sample of an aborted group, and one with nothing left to do.
SkipCall(s) ==
  LET smp == Prepared(sample[s])
  IN /\ CallAt(s, "sent")
     /\ ~ flag[s]
     /\ smp.status = "COMPLETED" \/ NothingLeft(smp)
     /\ Return(s, [smp EXCEPT !.status = "COMPLETED"])

AcceptCall(s) ==
  LET smp == Prepared(sample[s])
  IN /\ CallAt(s, "sent")
     /\ ~ flag[s]
     /\ smp.status # "COMPLETED" /\ ~ NothingLeft(smp)
     /\ sample' = [sample EXCEPT ![s] = smp]
     /\ call' = [call EXCEPT ![s].at = "post"]
     /\ UNCHANGED <<stage, outcome, flag, hit, launched, clockVars>>

\* _safe_post_request looks at the flag again before it sends.
PostRequest(s) ==
  /\ CallAt(s, "post")
  /\ ~ flag[s]
  /\ call' = [call EXCEPT ![s].at = "wait"]
  /\ UNCHANGED <<sample, stage, outcome, flag, hit, launched, clockVars>>

\* Before the request is sent, or because the engine did not answer it within
\* abort_timeout; what it generated is lost.
AbortCall(s) ==
  /\ (CallAt(s, "post") /\ flag[s]) \/ (CallAt(s, "wait") /\ s \in hit)
  /\ Return(s, [sample[s] EXCEPT !.status = "ABORTED"])

\* Mutant: postprocess drops the earlier tokens.
ExtendedOver(smp, n) == [i \in 1 .. n |-> weights]

\* postprocess appends to the tokens so far; without partial rollout the
\* response replaces them.
Extended(smp, n) == (IF Partial THEN smp.ids ELSE <<>>) \o [i \in 1 .. n |-> weights]

\* The response ends at a stop token or because the budget is used up.
CompleteResponse(s) ==
  /\ CallAt(s, "wait")
  /\ \E n \in 1 .. Remaining(sample[s]) :
       \E end \in EndKinds \union (IF n = Remaining(sample[s]) THEN {"no"} ELSE {}) :
         Return(s, [sample[s] EXCEPT !.status = "COMPLETED", !.end = end,
                                     !.ids = Extended(sample[s], n)])

\* The engine aborted the request after some tokens, or before the first.
AbortedResponse(s) ==
  /\ CallAt(s, "wait")
  /\ s \in hit
  /\ \E n \in 0 .. Remaining(sample[s]) - 1 :
       Return(s, [sample[s] EXCEPT !.status = "ABORTED", !.ids = Extended(sample[s], n)])

\* Mutant: the attempts are not counted.
RetryForever(s) ==
  /\ CallAt(s, "wait")
  /\ call' = [call EXCEPT ![s].at = "post"]
  /\ sample' = sample
  /\ UNCHANGED <<stage, outcome, flag, hit, launched, clockVars>>

\* Mutant: one attempt too many.
RetryOnceMore(s) ==
  /\ CallAt(s, "wait")
  /\ call[s].attempt <= MaxRetry
  /\ call' = [call EXCEPT ![s] = [at |-> "post", attempt |-> call[s].attempt + 1]]
  /\ UNCHANGED <<sample, stage, outcome, flag, hit, launched, clockVars>>

\* A retryable error, or an invalid response, which marks the sample FAILED
\* until the next attempt says otherwise.
Retry(s) ==
  /\ CallAt(s, "wait")
  /\ call[s].attempt < MaxRetry
  /\ call' = [call EXCEPT ![s] = [at |-> "post", attempt |-> call[s].attempt + 1]]
  /\ \E st \in {sample[s].status, "FAILED"} : sample' = [sample EXCEPT ![s].status = st]
  /\ UNCHANGED <<stage, outcome, flag, hit, launched, clockVars>>

\* The last attempt failed, the error is not retryable, the router has no
\* worker, or the controller's own timeout ends the call.
FailCall(s) ==
  /\ stage = "flight"
  /\ call[s].at \in {"sent", "post", "wait"}
  /\ Return(s, [sample[s] EXCEPT !.status = "FAILED"])

\* An unknown HTTP error raises RuntimeError, and gather passes it on at once.  The
\* requests of the other samples go on, but their answers reach nobody.
RaiseCall(s) ==
  /\ CallAt(s, "wait")
  /\ stage' = "finished"
  /\ outcome' = "RAISED"
  /\ NoneInFlight
  /\ UNCHANGED <<sample, flag, clockVars>>

-----------------------------------------------------------------------------
\* The gather in generate_group.  Whether is_valid_sample_fn will accept a
\* completed group is chosen here, ahead of put_generated_group.
Gather ==
  /\ stage = "flight"
  /\ \A s \in Samples : call[s].at = "done"
  /\ stage' = "finished"
  /\ outcome' \in {GroupStatus(sample)} \union
                 (IF GroupStatus(sample) = "COMPLETED" THEN {"FILTERED"} ELSE {})
  /\ NoneInFlight
  /\ UNCHANGED <<sample, flag, clockVars>>

\* cancel_all, or a claimed task that raised.
Cancel ==
  /\ stage \in {"flight", "finished"}
  /\ Dropped
  /\ NoneInFlight
  /\ UNCHANGED <<flag, clockVars>>

\* Expired samples lose their response; without a tail batch nobody samples
\* the group again.
Expire(grp) ==
  IF TailTrigger = 0 THEN Dropped
  ELSE /\ stage' = "buffer"
       /\ outcome' = "EXPIRED"
       /\ sample' = [s \in Samples |-> [Reset(grp[s]) EXCEPT !.status = "EXPIRED"]]

\* put_generated_group and ReplayBuffer.put, by a producer whose model_step is
\* not newer than the weights.
Put ==
  /\ stage = "finished" /\ outcome # "RAISED"
  /\ \E modelStep \in 0 .. weights :
       LET grp == [s \in Samples |-> VersionedSample(sample[s], modelStep)]
       IN IF outcome \in {"FAILED", "FILTERED"} THEN Dropped
          ELSE IF AnyStale(grp, step) THEN Expire(grp)
          ELSE /\ stage' = "buffer"
               /\ outcome' = GroupStatus(grp)
               /\ sample' = grp
  /\ UNCHANGED <<call, flag, hit, launched, clockVars>>

\* get_batch moves next_consumer_step and refreshes the buffer.
NextStep ==
  /\ step <= TotalSteps
  /\ step' = step + 1
  /\ IF /\ stage = "buffer"
        /\ outcome \in {"COMPLETED", "ABORTED"}
        /\ AnyStale(sample, step')
     THEN Expire(sample)
     ELSE UNCHANGED <<stage, outcome, sample>>
  /\ UNCHANGED <<call, flag, hit, launched, weights>>

TakeBatch ==
  /\ stage = "buffer"
  /\ outcome = "COMPLETED"
  /\ stage' = "batch"
  /\ UNCHANGED <<sample, call, outcome, flag, hit, launched, clockVars>>

TrainOneBatch ==
  /\ stage = "batch"
  /\ Dropped
  /\ UNCHANGED <<call, flag, hit, launched, clockVars>>

\* pause_generation and continue_generation reach each worker on its own.
PauseWorker(s) ==
  /\ ~ flag[s]
  /\ flag' = [flag EXCEPT ![s] = TRUE]
  /\ hit' = IF stage = "flight" THEN hit \union {s} ELSE hit
  /\ UNCHANGED <<sample, call, stage, outcome, launched, clockVars>>

ContinueWorker(s) ==
  /\ flag[s]
  /\ flag' = [flag EXCEPT ![s] = FALSE]
  /\ UNCHANGED <<sample, call, stage, outcome, hit, launched, clockVars>>

\* QuietEngineAtSync of DisaggTraining: no request meets new weights.
UpdateWeights ==
  /\ stage \notin {"flight", "finished"}
  /\ weights' \in (weights + 1) .. step
  /\ UNCHANGED <<sample, call, stage, outcome, flag, hit, launched, step>>

WorkerNext(s) ==
  \/ RefuseCall(s) \/ SkipCall(s) \/ AcceptCall(s) \/ PostRequest(s) \/ AbortCall(s)
  \/ CompleteResponse(s) \/ AbortedResponse(s) \/ Retry(s) \/ FailCall(s)
  \/ RaiseCall(s)

Next ==
  \/ Launch \/ Gather \/ Cancel \/ Put \/ NextStep \/ TakeBatch \/ TrainOneBatch
  \/ UpdateWeights
  \/ \E s \in Samples : WorkerNext(s) \/ PauseWorker(s) \/ ContinueWorker(s)

Spec == Init /\ [][Next]_vars

\* Every request is answered or runs into a timeout, and gather resumes.
FairSpec ==
  /\ Spec
  /\ \A s \in Samples : WF_vars(WorkerNext(s))
  /\ WF_vars(Gather)

-----------------------------------------------------------------------------
(***************************************************************************)
(* Properties.                                                             *)
(***************************************************************************)
\* Every field of the samples, requests and workers holds a value the code can
\* give it.
TypeOK ==
  /\ sample \in [Samples -> [status: Statuses, ids: Seq(0 .. TotalSteps + 1),
                             steps: Seq(0 .. TotalSteps + 1), end: {"no", "eos", "stop"}]]
  /\ call \in [Samples -> [at: {"none", "sent", "post", "wait", "done"},
                           attempt: 0 .. MaxRetry]]
  /\ stage \in {"dataset", "flight", "finished", "buffer", "batch"}
  /\ outcome \in Statuses
  /\ flag \in [Samples -> BOOLEAN]
  /\ hit \subseteq Samples
  /\ weights \in 0 .. TotalSteps + 1
  /\ step \in 1 .. TotalSteps + 1

Stored == stage \in {"buffer", "batch"}

\* response_model_steps has one entry per token of response_ids whenever the
\* group is stored ("same length as response_ids", RolloutState), although a
\* sample is extended, replaced and reset on different paths.
VersionsAligned ==
  Stored => \A s \in Samples : Len(sample[s].steps) = Len(sample[s].ids)

\* Token by token, no version is newer than the weights that generated it.
TokensNeverOverstated ==
  Stored => \A s \in Samples : \A i \in DOMAIN sample[s].ids :
              i \in DOMAIN sample[s].steps /\ sample[s].steps[i] <= sample[s].ids[i]

\* However often a response is cut and continued, it stays within max_tokens.
WithinBudget == \A s \in Samples : Len(sample[s].ids) <= MaxTokens

\* A response that has ended is never sent to the engine again.
NothingAfterEnd ==
  \A s \in Samples : CallAt(s, "wait") => sample[s].end = "no"

\* Training takes a group only when each of its samples is completed and has a
\* response, however the group was put together.
BatchIsComplete ==
  stage = "batch" =>
    \A s \in Samples : sample[s].status = "COMPLETED" /\ sample[s].ids # <<>>

\* With partial rollout the tokens of a sample are never lost, except with the
\* whole group: a cut response is continued, not replaced.
TokensKept ==
  [][Partial /\ stage' # "dataset" /\ outcome' # "EXPIRED" =>
       \A s \in Samples : IsPrefix(sample[s].ids, sample'[s].ids)]_vars

\* The group record the rest of the pipeline works with.
Record ==
  CASE stage = "dataset" -> FromDataset
    [] stage = "finished" /\ outcome \in {"FAILED", "FILTERED", "RAISED"} ->
         [FromDataset EXCEPT !.stage = "finished", !.status = outcome]
    [] stage = "flight" ->
         [stage |-> IF hit = {} THEN "running" ELSE "aborting", status |-> "INIT",
          ver |-> launched.ver, act |-> launched.act, since |-> weights, gained |-> FALSE]
    [] OTHER ->
         [stage |-> stage, status |-> outcome, ver |-> OldestLabel(sample),
          act |-> OldestToken(sample), since |-> NoTokens,
          gained |-> \E s \in Samples : Len(sample[s].ids) > Len(sample[s].steps)]

\* Samples, retries and per-worker flags implement the life of a group that
\* DisaggTraining is built from.
Lifecycle == INSTANCE GroupLifecycle WITH
  r <- Record, paused <- \E s \in Samples : flag[s]

ImplementsLifecycle == Lifecycle!Spec

\* Every launched group comes back, is dropped or is put, whatever its workers
\* refuse, abort, retry or lose.
GroupReturns == stage = "flight" ~> stage # "flight"
=============================================================================
