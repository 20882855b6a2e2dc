------------------------ MODULE RolloutGroup_proofs ------------------------
(***************************************************************************)
(* Lemmas about one prompt group: what the record operators of             *)
(* RolloutGroup return, and in whose hands they leave the group.           *)
(***************************************************************************)
EXTENDS RolloutGroup, TLAPS

USE StalenessAssumption, GroupAssumption

-----------------------------------------------------------------------------
(***************************************************************************)
(* The staleness arithmetic.                                               *)
(***************************************************************************)
\* calculate_stale_threshold returns a positive number of steps.
LEMMA ThresholdType == StaleThreshold \in Nat \ {0}
  <1>1. MaxStaleness + 1 \in Nat \ {0} /\ SyncInterval \in Nat \ {0}
    OBVIOUS
  <1>2. \A a, b \in Nat \ {0} : a * b \in Nat \ {0}
    OBVIOUS
  <1> QED BY <1>1, <1>2 DEF StaleThreshold

\* The oldest of two versions is a version.
LEMMA OldestType ==
  ASSUME NEW a \in Nat \union {NoTokens}, NEW b \in Nat \union {NoTokens}
  PROVE  OldestVersion(a, b) \in Nat \union {NoTokens}
  BY DEF OldestVersion

\* Older tokens are staler.
LEMMA StalerWhenOlder ==
  ASSUME NEW v \in Nat \union {NoTokens}, NEW a \in Nat \union {NoTokens},
         v <= a, v = NoTokens <=> a = NoTokens, NEW step \in Nat,
         ~ IsStale(v, step)
  PROVE  SeqStaleness(a, step) < StaleThreshold
  BY ThresholdType DEF IsStale, SeqStaleness, CalculateSeqStaleness, NoTokens

-----------------------------------------------------------------------------
(***************************************************************************)
(* What happens to one group.                                              *)
(***************************************************************************)
\* A fresh group is a group record.
LEMMA DatasetType == FromDataset \in GroupRecord
  BY DEF FromDataset, GroupRecord, Stages, Statuses, NoTokens

\* An expired group is a group record.
LEMMA ExpiredType == ExpiredGroup \in GroupRecord
  BY DatasetType DEF ExpiredGroup, FromDataset, GroupRecord, Stages, Statuses, NoTokens

\* update_sample_version returns a group record.
LEMMA VersionedType ==
  ASSUME NEW r \in GroupRecord, NEW step \in Nat
  PROVE  Versioned(r, step) \in GroupRecord
  BY OldestType DEF Versioned, GroupRecord, Stages

\* ReplayBuffer.put returns a group record.
LEMMA PutType ==
  ASSUME NEW r \in GroupRecord, NEW step \in Nat, NEW at \in Nat
  PROVE  PutGroup(r, step, at) \in GroupRecord
  BY DatasetType, ExpiredType, VersionedType DEF PutGroup

\* refresh_staleness returns a group record.
LEMMA RefreshType ==
  ASSUME NEW r \in GroupRecord, NEW step \in Nat
  PROVE  RefreshGroup(r, step) \in GroupRecord
  BY ExpiredType DEF RefreshGroup

\* What schedule_one does to the group it sends.
LEMMA LaunchedRecord ==
  ASSUME NEW r \in GroupRecord, NEW w \in Nat, NEW p \in BOOLEAN
  PROVE  /\ Launched(r, w, p) \in GroupRecord
         /\ Launched(r, w, p).stage \in {"running", "aborting"}
         /\ Launched(r, w, p).status = "INIT"
         /\ Launched(r, w, p).since = w
         /\ Launched(r, w, p).ver = r.ver
         /\ Launched(r, w, p).act = r.act
         /\ Launched(r, w, p).gained = r.gained
  <1> DEFINE to == IF p THEN "aborting" ELSE "running"
  <1>1. to \in {"aborting", "running"}
    OBVIOUS
  <1>2. Launched(r, w, p) = [r EXCEPT !.status = "INIT", !.since = w, !.stage = to]
    BY DEF Launched
  <1> HIDE DEF to
  <1> QED BY <1>1, <1>2 DEF GroupRecord, Stages, Statuses

\* The tokens a group keeps are no worse labelled than all of them were.
LEMMA KeptOrder ==
  ASSUME NEW r \in GroupRecord, r.ver <= r.act, r.ver = NoTokens <=> r.act = NoTokens,
         NEW k \in Kept(r)
  PROVE  /\ k.ver \in Nat \union {NoTokens} /\ k.act \in Nat \union {NoTokens}
         /\ k.ver <= k.act
         /\ k.ver = NoTokens <=> k.act = NoTokens
  BY DEF Kept, GroupRecord, NoTokens

\* What is kept of a group carries versions.
LEMMA KeptType ==
  ASSUME NEW r \in GroupRecord, NEW k \in Kept(r)
  PROVE  k.ver \in Nat \union {NoTokens} /\ k.act \in Nat \union {NoTokens}
  <1>1. r.ver \in Nat \union {NoTokens} /\ r.act \in Nat \union {NoTokens}
    BY DEF GroupRecord
  <1>2. CASE Partial \/ r.ver = NoTokens
    BY <1>1, <1>2 DEF Kept
  <1>3. CASE ~ (Partial \/ r.ver = NoTokens)
    BY <1>1, <1>3 DEF Kept, NoTokens
  <1> QED BY <1>2, <1>3

\* What the engine returns is a group record in the hands of a done task.
LEMMA ReturnedType ==
  ASSUME NEW r \in GroupRecord, NEW s \in Returned(r)
  PROVE  s \in GroupRecord /\ s.stage = "finished"
  <1>1. PICK outcome \in {"COMPLETED", "ABORTED"}, k \in Kept(r), gained \in BOOLEAN :
          s = [stage |-> "finished", status |-> outcome, ver |-> k.ver,
               act |-> IF gained THEN OldestVersion(k.act, r.since) ELSE k.act,
               since |-> NoTokens, gained |-> gained]
    BY DEF Returned
  <1> DEFINE new == IF gained THEN OldestVersion(k.act, r.since) ELSE k.act
  <1>2. new \in Nat \union {NoTokens} /\ k.ver \in Nat \union {NoTokens}
    BY KeptType, OldestType DEF GroupRecord
  <1> HIDE DEF new
  <1> QED BY <1>1, <1>2 DEF GroupRecord, Stages, Statuses, new

\* A group that failed, was filtered or raised has no token left that anyone looks at.
LEMMA FailedRecord ==
  ASSUME NEW s \in Failed
  PROVE  /\ s \in GroupRecord
         /\ s.stage = "finished"
         /\ s.ver = NoTokens /\ s.act = NoTokens
         /\ s.gained = FALSE
         /\ s.ver <= s.act
  <1>1. PICK outcome \in {"FAILED", "FILTERED", "RAISED"} :
          s = [FromDataset EXCEPT !.stage = "finished", !.status = outcome]
    BY DEF Failed
  <1>2. s = [stage |-> "finished", status |-> outcome, ver |-> NoTokens,
             act |-> NoTokens, since |-> NoTokens, gained |-> FALSE]
    BY <1>1 DEF FromDataset
  <1>3. s \in GroupRecord
    BY <1>2 DEF GroupRecord, Stages, Statuses
  <1>4. NoTokens <= NoTokens
    BY DEF NoTokens
  <1> QED BY <1>2, <1>3, <1>4

-----------------------------------------------------------------------------
(***************************************************************************)
(* Who holds a group after put_generated_group and refresh_staleness.      *)
(***************************************************************************)
\* After put the group is in the buffer or nobody can find it any more.
LEMMA PutStage ==
  ASSUME NEW r \in GroupRecord, NEW step \in Nat, NEW at \in Nat
  PROVE  PutGroup(r, step, at).stage \in {"dataset", "buffer"}
  BY DEF PutGroup, Versioned, ExpiredGroup, FromDataset, GroupRecord

\* refresh_staleness leaves a group alone or expires a group of the buffer.
LEMMA RefreshStage ==
  ASSUME NEW r \in GroupRecord, NEW step \in Nat
  PROVE  RefreshGroup(r, step) = r
         \/ /\ r.stage = "buffer"
            /\ RefreshGroup(r, step) = ExpiredGroup
  BY DEF RefreshGroup

\* An expired group has lost its tokens.
LEMMA ExpiredStage ==
  /\ ExpiredGroup.stage \in {"dataset", "buffer"}
  /\ ExpiredGroup.status \in {"INIT", "EXPIRED"}
  /\ ExpiredGroup.ver = NoTokens
  /\ ExpiredGroup.act = NoTokens
  /\ ExpiredGroup.gained = FALSE
  BY DEF ExpiredGroup, FromDataset
=============================================================================
