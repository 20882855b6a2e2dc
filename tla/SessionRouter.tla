--------------------------- MODULE SessionRouter ---------------------------
(***************************************************************************)
(* SessionRouter: the rollout worker that serves a session.  A session     *)
(* stays with its worker while that is active, sessions that have not been *)
(* seen for max_idle_seconds are forgotten, the table keeps max_sessions   *)
(* of them, and new sessions take the active workers in turn.              *)
(*                                                                         *)
(* get_worker holds the router's lock and never awaits: it is one step.    *)
(* The active flags are read one at a time, but between a pause and the    *)
(* next recovery they only go down, so that reading them all at the moment *)
(* of the last read gives the same answer.                                 *)
(***************************************************************************)
EXTENDS Integers, SequencesExt

CONSTANTS
  Sessions,     \* session ids
  NumWorkers,   \* len(worker_infos)
  MaxSessions,  \* max_sessions
  MaxIdle       \* max_idle_seconds, in the unit of the clock

ASSUME RouterAssumption ==
  /\ NumWorkers \in Nat \ {0}
  /\ MaxSessions \in Nat \ {0}
  /\ MaxIdle \in Nat

Ranks    == 0 .. NumWorkers - 1
NoWorker == -1

VARIABLES
  map,    \* OrderedDict: entries in the order of their insertion
  cycler  \* the rank that _worker_cycler yields next

routerVars == <<map, cycler>>

RouterInit == map = <<>> /\ cycler = 0

Idle(entry, now) == now - entry.used > MaxIdle

\* _evict_expired stops at the first entry that is not idle.
EvictExpired(m, now) ==
  LET fresh == {i \in 1 .. Len(m) : ~ Idle(m[i], now)}
  IN IF fresh = {} THEN <<>> ELSE SubSeq(m, Min(fresh), Len(m))

\* _evict_lru_to_capacity.
EvictLru(m) == SubSeq(m, Max({Len(m) - MaxSessions, 0}) + 1, Len(m))

\* _choose_next_active_worker: how many ranks are skipped, at most one round.
Skipped(active) == {k \in Ranks : active[(cycler + k) % NumWorkers]}

\* Mutant: the cycle runs past its end.
AfterUnwrapped(rank) == rank + 1
After(rank) == (rank + 1) % NumWorkers

\* Mutant: the entry goes to the front of the table.
TouchedFirst(others, entry) == <<entry>> \o others

\* The entry of a known session is popped and goes to the end of the table.
Touched(others, entry) == Append(others, entry)

\* Mutant: a session does not come back to its worker.
Forgets(entry, active) == FALSE

\* The worker of a known session is active.
Sticks(entry, active) == active[entry.rank]

\* Where the session is in the table: the keys of a dictionary are unique.
At(m, session) == {i \in DOMAIN m : m[i].session = session}

\* pop: the other entries keep their order.
Popped(m, session) ==
  IF At(m, session) = {} THEN m ELSE RemoveAt(m, CHOOSE i \in At(m, session) : TRUE)

\* get_worker(session) returns `worker', NoWorker for None.
GetWorker(session, active, now, worker) ==
  LET kept   == EvictExpired(map, now)
      others == Popped(kept, session)
      entry  == [session |-> session, rank |-> worker, used |-> now]
  IN \/ \E i \in At(kept, session) :
          /\ Sticks(kept[i], active)
          /\ worker = kept[i].rank
          /\ map' = Touched(others, entry)
          /\ UNCHANGED cycler
     \/ /\ \A i \in At(kept, session) : ~ Sticks(kept[i], active)
        /\ \/ /\ Skipped(active) # {}
              /\ worker = (cycler + Min(Skipped(active))) % NumWorkers
              /\ cycler' = After(worker)
              /\ map' = EvictLru(Append(others, entry))
           \/ /\ Skipped(active) = {}
              /\ worker = NoWorker
              /\ map' = others
              /\ UNCHANGED cycler
=============================================================================
