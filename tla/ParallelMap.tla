----------------------------- MODULE ParallelMap -----------------------------
(***************************************************************************)
(* parallel_map: run_parallel of synsema-runtime/src/parallel.rs inside    *)
(* ScopedFreeze::run of synsema-core/src/frozen.rs.  The caller freezes    *)
(* what the items read, creates the workers, joins every one, thaws, and   *)
(* only then looks at the outcome.  Workers take items from a counter and  *)
(* stop at the first error.                                                *)
(*                                                                         *)
(* The atomics are Relaxed: a worker may not see yet that another one gave *)
(* up, but it always sees its own store.                                   *)
(***************************************************************************)
EXTENDS Naturals, FiniteSets

CONSTANTS N,            \* items
          Limit         \* the `limit` argument

ASSUME PmapAssumption == N \in Nat \ {0} /\ Limit \in Nat

Item == 0 .. N - 1
NoError == N

Threads == LET l == IF Limit < 1 THEN 1 ELSE Limit IN IF l < N THEN l ELSE N
Worker == 0 .. Threads - 1

VARIABLES caller,       \* where the caller is: spawn, join, thawed, returned
          spawned, joined,      \* workers created, and joined, in order
          spawnError,   \* a thread could not be created
          pc, at,       \* pc[w], and the item w holds
          next,         \* the shared counter
          raised,       \* the workers that stored `aborted`
          error,        \* the index in `error`
          slot,         \* slot[i]: empty, value or failed
          fails,        \* the items whose task fails
          result

callerVars == <<caller, spawned, joined, spawnError, result>>
shared == <<next, raised, error, slot>>
vars == <<callerVars, shared, pc, at, fails>>

Init ==
    /\ caller = "spawn" /\ spawned = 0 /\ joined = 0 /\ spawnError = FALSE
    /\ pc = [w \in Worker |-> "unborn"]
    /\ at = [w \in Worker |-> 0]
    /\ next = 0 /\ raised = {} /\ error = NoError
    /\ slot = [i \in Item |-> "empty"]
    /\ fails \in SUBSET Item
    /\ result = "none"

-----------------------------------------------------------------------------
(* The caller creates the workers, up to the first that cannot be.         *)
Spawn ==
    /\ caller = "spawn" /\ spawned < Threads
    /\ pc' = [pc EXCEPT ![spawned] = "take"]
    /\ spawned' = spawned + 1
    /\ UNCHANGED <<caller, joined, spawnError, result, shared, at, fails>>

(* Mutant: the error returns without waiting for the workers there are.     *)
SpawnFailsUnjoined ==
    /\ caller = "spawn" /\ spawned < Threads
    /\ spawnError' = TRUE
    /\ caller' = "thawed"
    /\ UNCHANGED <<spawned, joined, result, shared, pc, at, fails>>

SpawnFails ==
    /\ caller = "spawn" /\ spawned < Threads
    /\ spawnError' = TRUE
    /\ caller' = "join"
    /\ UNCHANGED <<spawned, joined, result, shared, pc, at, fails>>

SpawnsEnd ==
    /\ caller = "spawn" /\ spawned = Threads
    /\ caller' = "join"
    /\ UNCHANGED <<spawned, joined, spawnError, result, shared, pc, at, fails>>

(* `next.fetch_add(1)`.                                                    *)
(* Mutant: the counter is read and written back in two steps, so that two   *)
(* workers may get the same item.                                           *)
TakeTorn(w) ==
    /\ pc[w] = "take"
    /\ at' = [at EXCEPT ![w] = next]
    /\ \E n \in {next, next + 1} : next' = n
    /\ pc' = [pc EXCEPT ![w] = "check"]
    /\ UNCHANGED <<callerVars, raised, error, slot, fails>>

Take(w) ==
    /\ pc[w] = "take"
    /\ at' = [at EXCEPT ![w] = next]
    /\ next' = next + 1
    /\ pc' = [pc EXCEPT ![w] = "check"]
    /\ UNCHANGED <<callerVars, raised, error, slot, fails>>

(* No item left, or a store of `aborted` seen.                             *)
(* Mutant: the last item is taken for the end.                              *)
StopEarly(w) ==
    /\ pc[w] = "check"
    /\ at[w] + 1 >= N \/ raised # {}
    /\ pc' = [pc EXCEPT ![w] = "done"]
    /\ UNCHANGED <<callerVars, shared, at, fails>>

Stop(w) ==
    /\ pc[w] = "check"
    /\ at[w] >= N \/ raised # {}
    /\ pc' = [pc EXCEPT ![w] = "done"]
    /\ UNCHANGED <<callerVars, shared, at, fails>>

Begin(w) ==
    /\ pc[w] = "check"
    /\ at[w] < N /\ w \notin raised
    /\ pc' = [pc EXCEPT ![w] = "run"]
    /\ UNCHANGED <<callerVars, shared, at, fails>>

(* The task of the item returns, fails or panics.  A failing item leaves   *)
(* its lineage in the slot and its error, if no lower item has.            *)
Succeed(w) ==
    /\ pc[w] = "run" /\ at[w] \notin fails
    /\ slot' = [slot EXCEPT ![at[w]] = "value"]
    /\ pc' = [pc EXCEPT ![w] = "take"]
    /\ UNCHANGED <<callerVars, next, raised, error, at, fails>>

(* Mutant: the last error stands.                                           *)
FailLast(w) ==
    /\ pc[w] = "run" /\ at[w] \in fails
    /\ slot' = [slot EXCEPT ![at[w]] = "failed"]
    /\ error' = at[w]
    /\ pc' = [pc EXCEPT ![w] = "raise"]
    /\ UNCHANGED <<callerVars, next, raised, at, fails>>

Fail(w) ==
    /\ pc[w] = "run" /\ at[w] \in fails
    /\ slot' = [slot EXCEPT ![at[w]] = "failed"]
    /\ error' = IF at[w] < error THEN at[w] ELSE error
    /\ pc' = [pc EXCEPT ![w] = "raise"]
    /\ UNCHANGED <<callerVars, next, raised, at, fails>>

Raise(w) ==
    /\ pc[w] = "raise"
    /\ raised' = raised \cup {w}
    /\ pc' = [pc EXCEPT ![w] = "take"]
    /\ UNCHANGED <<callerVars, next, error, slot, at, fails>>

Panic(w) ==
    /\ pc[w] = "run"
    /\ pc' = [pc EXCEPT ![w] = "panicked"]
    /\ UNCHANGED <<callerVars, shared, at, fails>>

(* The caller joins the workers in order, panicked ones too.               *)
(* Mutant: a worker that panicked never counts as ended.                    *)
JoinDoneOnly ==
    /\ caller = "join" /\ joined < spawned
    /\ pc[joined] = "done"
    /\ joined' = joined + 1
    /\ UNCHANGED <<caller, spawned, spawnError, result, shared, pc, at, fails>>

Join ==
    /\ caller = "join" /\ joined < spawned
    /\ pc[joined] \in {"done", "panicked"}
    /\ joined' = joined + 1
    /\ UNCHANGED <<caller, spawned, spawnError, result, shared, pc, at, fails>>

Thaw ==
    /\ caller = "join" /\ joined = spawned
    /\ caller' = "thawed"
    /\ UNCHANGED <<spawned, joined, spawnError, result, shared, pc, at, fails>>

Outcome ==
    CASE spawnError -> "spawn_error"
      [] ~spawnError /\ \E w \in Worker : pc[w] = "panicked" -> "panic"
      [] ~spawnError /\ (\A w \in Worker : pc[w] # "panicked") /\ error # NoError -> "error"
      [] OTHER -> "ok"

Return ==
    /\ caller = "thawed"
    /\ caller' = "returned"
    /\ result' = Outcome
    /\ UNCHANGED <<spawned, joined, spawnError, shared, pc, at, fails>>

WorkerStep(w) ==
    Take(w) \/ Stop(w) \/ Begin(w) \/ Succeed(w) \/ Fail(w) \/ Raise(w) \/ Panic(w)

CallerStep == Spawn \/ SpawnFails \/ SpawnsEnd \/ Join \/ Thaw \/ Return

Next == CallerStep \/ \E w \in Worker : WorkerStep(w)

Spec == Init /\ [][Next]_vars

(* Threads are scheduled, and the tasks of the items return.               *)
FairSpec == Spec /\ WF_vars(CallerStep) /\ \A w \in Worker : WF_vars(WorkerStep(w))

-----------------------------------------------------------------------------
Ended(w) == pc[w] \in {"unborn", "done", "panicked"}
Holds(w) == pc[w] \in {"check", "run"}

(* Counters, slots and workers have their types.                           *)
TypeOK ==
    /\ caller \in {"spawn", "join", "thawed", "returned"}
    /\ spawned \in 0 .. Threads /\ joined \in 0 .. spawned
    /\ spawnError \in BOOLEAN
    /\ pc \in [Worker -> {"unborn", "take", "check", "run", "raise", "done", "panicked"}]
    /\ at \in [Worker -> Nat]
    /\ next \in Nat /\ raised \subseteq Worker /\ error \in 0 .. N
    /\ slot \in [Item -> {"empty", "value", "failed"}]
    /\ fails \subseteq Item
    /\ result \in {"none", "ok", "error", "panic", "spawn_error"}

(* The frozen values are thawed only when no worker is left that could     *)
(* read them, also when a thread could not be created or one panicked.     *)
ThawedAlone == caller \in {"thawed", "returned"} => \A w \in Worker : Ended(w)

(* An item is run once: two workers never hold the same one, and the slot  *)
(* of an item that is held is still empty.                                 *)
ItemsRunOnce ==
    \A w \in Worker : Holds(w) =>
        /\ at[w] < next
        /\ at[w] < N => slot[at[w]] = "empty"
        /\ \A v \in Worker \ {w} : Holds(v) => at[v] # at[w]

(* A list comes back only when every item ran and succeeded: no slot is    *)
(* filled in with Nothing, though workers stop early.                      *)
OkIsComplete ==
    result = "ok" => \A i \in Item : slot[i] = "value" /\ i \notin fails

(* The error is that of the least item that ran and failed.                *)
ErrorIsLeastRun ==
    result = "error" => /\ error \in fails
                        /\ \A i \in Item : slot[i] = "failed" => error <= i

(* The caller of parallel_map gets the whole list or the error of the      *)
(* least item that ran, whatever the workers did and in whatever order.    *)
ResultIsRight == OkIsComplete /\ ErrorIsLeastRun

(* Of the items before the reported error, fewer than there are workers    *)
(* were passed over.                                                       *)
FewPassedOver ==
    result = "error" => Cardinality({i \in Item : i < error /\ slot[i] = "empty"}) < Threads

(* If the tasks return, so does parallel_map.                              *)
Returns == <>(caller = "returned")

(* The error is that of the least failing item, as for `apply`.            *)
LowestError == result = "error" => \A i \in fails : error <= i
==============================================================================
