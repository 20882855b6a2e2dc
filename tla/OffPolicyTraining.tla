-------------------------- MODULE OffPolicyTraining --------------------------
(***************************************************************************)
(* What disaggregated training promises, whoever keeps the books: groups   *)
(* are generated while the trainer trains, every optimizer step takes one  *)
(* full batch of groups whose oldest token is younger than the staleness   *)
(* threshold, and the engine's weights are replaced only when it generates *)
(* nothing.  No buffer, no status, no event: those are the means.          *)
(***************************************************************************)
EXTENDS Staleness, FiniteSets

CONSTANTS
  Groups,      \* identities of prompt groups
  BatchSize,   \* groups per optimizer step
  TotalSteps   \* train steps of the run

VARIABLES
  running,     \* groups the engine is generating
  oldest,      \* the weights that generated each group's oldest token
  batch,       \* the groups the optimizer is training on
  step,        \* the train step the trainer is at
  weights      \* the train step whose weights the engine holds

vars == <<running, oldest, batch, step, weights>>

Init ==
  /\ running = {}
  /\ oldest = [g \in Groups |-> NoTokens]
  /\ batch = {}
  /\ step = 0
  /\ weights = 0

\* Any idle groups are sent to the engine.
Launch ==
  /\ \E S \in SUBSET (Groups \ (running \union batch)) : running' = running \union S
  /\ UNCHANGED <<oldest, batch, step, weights>>

\* The engine returns a group: with all, some or none of its earlier tokens,
\* with tokens of the present weights or without any.
Return(g) ==
  /\ g \in running
  /\ running' = running \ {g}
  /\ \E kept \in {oldest[g], NoTokens} \union (oldest[g] .. weights),
        new \in {weights, NoTokens} :
       oldest' = [oldest EXCEPT ![g] = OldestVersion(kept, new)]
  /\ UNCHANGED <<batch, step, weights>>

\* Groups are given up, in the buffer or by cancelling their requests.
Discard ==
  /\ \E S \in SUBSET (Groups \ batch) :
       /\ running' = running \ S
       /\ oldest' = [g \in Groups |-> IF g \in S THEN NoTokens ELSE oldest[g]]
  /\ UNCHANGED <<batch, step, weights>>

\* The trainer moves on, skipping at most what it chose not to train.
NextStep ==
  /\ batch = {}
  /\ step < TotalSteps
  /\ step' = step + 1
  /\ \E S \in SUBSET Groups :
       oldest' = [g \in Groups |-> IF g \in S \ running THEN NoTokens ELSE oldest[g]]
  /\ UNCHANGED <<running, batch, weights>>

\* A full batch of fresh groups; others may expire at the same time.
Take ==
  /\ batch = {}
  /\ \E S \in SUBSET (Groups \ running), X \in SUBSET (Groups \ running) :
       /\ Cardinality(S) = BatchSize
       /\ \A g \in S : SeqStaleness(oldest[g], step) < StaleThreshold
       /\ batch' = S
       /\ oldest' = [g \in Groups |-> IF g \in X \ S THEN NoTokens ELSE oldest[g]]
  /\ UNCHANGED <<running, step, weights>>

Train ==
  /\ batch # {}
  /\ batch' = {}
  /\ oldest' = [g \in Groups |-> IF g \in batch THEN NoTokens ELSE oldest[g]]
  /\ UNCHANGED <<running, step, weights>>

\* The engine moves to the weights of the present step.
UpdateWeights ==
  /\ running = {}
  /\ batch = {}
  /\ weights < step
  /\ weights' = step
  /\ UNCHANGED <<running, oldest, batch, step>>

Next ==
  \/ Launch
  \/ \E g \in Groups : Return(g)
  \/ Discard \/ NextStep \/ Take \/ Train \/ UpdateWeights

Spec == Init /\ [][Next]_vars
=============================================================================
