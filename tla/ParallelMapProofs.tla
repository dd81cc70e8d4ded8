-------------------------- MODULE ParallelMapProofs --------------------------
(***************************************************************************)
(* Proofs about ParallelMap, for any number of items and any limit.  The   *)
(* invariant adds to the properties what ties the caller's counters to the *)
(* workers (CallerInv), each slot to the item's fate (SlotInv), and every  *)
(* item taken to the worker that still holds it (CoverInv).                *)
(***************************************************************************)
EXTENDS ParallelMap, FiniteSetTheorems, TLAPS

(* Workers exist in order, all of them unless one could not be created,    *)
(* and those joined have ended.                                            *)
CallerInv ==
    /\ \A w \in Worker : pc[w] = "unborn" <=> w >= spawned
    /\ \A w \in Worker : w < joined => Ended(w)
    /\ caller # "spawn" => spawnError \/ spawned = Threads
    /\ caller \in {"thawed", "returned"} => joined = spawned
    /\ caller # "returned" => result = "none"
    /\ caller = "returned" => result = Outcome

(* A slot tells what its item did; the error is the least of the failed;   *)
(* nobody raises the flag before there is an error.                        *)
SlotInv ==
    /\ \A i \in Item : i >= next => slot[i] = "empty"
    /\ \A i \in Item : slot[i] = "value" => i \notin fails
    /\ \A i \in Item : slot[i] = "failed" => i \in fails /\ error <= i
    /\ error # NoError => slot[error] = "failed"
    /\ raised # {} => error # NoError
    /\ \A w \in Worker : pc[w] = "raise" => error # NoError
    /\ \A w \in Worker : pc[w] = "run" => at[w] \in Item

(* While nothing failed: an item taken is done or still held, unless its   *)
(* worker panicked; and a worker ends only when no item is left.           *)
CoverInv ==
    /\ error = NoError /\ (\A w \in Worker : pc[w] # "panicked") =>
           \A i \in Item : i < next /\ slot[i] = "empty" =>
               \E w \in Worker : Holds(w) /\ at[w] = i
    /\ \A w \in Worker : pc[w] = "done" /\ error = NoError => next >= N

IInv == TypeOK /\ CallerInv /\ ItemsRunOnce /\ SlotInv /\ CoverInv

(* There is at least one worker, and no more workers than items.           *)
LEMMA ThreadsBounds == Threads \in 1 .. N
  BY PmapAssumption DEF Threads

(* The invariant holds when run_parallel starts.                           *)
LEMMA InitInv == Init => IInv
  <1> SUFFICES ASSUME Init PROVE IInv
    OBVIOUS
  <1> USE PmapAssumption, ThreadsBounds DEF Init, Worker, Item, NoError
  <1>1. TypeOK
    <2>1. fails \subseteq Item /\ raised \subseteq Worker
      OBVIOUS
    <2>2. /\ spawned \in 0 .. Threads /\ joined \in 0 .. spawned
          /\ next \in Nat /\ error \in 0 .. N
      OBVIOUS
    <2>3. /\ pc \in [Worker -> {"unborn"}] /\ at \in [Worker -> Nat]
          /\ slot \in [Item -> {"empty"}]
      OBVIOUS
    <2>4. spawnError \in BOOLEAN
      OBVIOUS
    <2> QED BY <2>1, <2>2, <2>3, <2>4 DEF TypeOK
  <1>2. CallerInv BY DEF CallerInv
  <1>3. ItemsRunOnce BY DEF ItemsRunOnce, Holds
  <1>4. SlotInv BY DEF SlotInv
  <1>5. CoverInv BY DEF CoverInv
  <1> QED BY <1>1, <1>2, <1>3, <1>4, <1>5 DEF IInv

(* Every step of the caller preserves it.                                  *)
LEMMA CallerKeeps == ASSUME IInv, CallerStep PROVE IInv'
  <1> USE PmapAssumption, ThreadsBounds
      DEF IInv, TypeOK, Worker, Item, NoError, callerVars, shared, Ended, Holds
  <1>1. CASE Spawn
    <2>1. TypeOK' BY <1>1 DEF Spawn
    <2>2. CallerInv' BY <1>1 DEF Spawn, CallerInv
    <2>3. ItemsRunOnce' BY <1>1 DEF Spawn, ItemsRunOnce
    <2>4. SlotInv' BY <1>1 DEF Spawn, SlotInv
    <2>5. CoverInv' BY <1>1 DEF Spawn, CoverInv, CallerInv
    <2> QED BY <2>1, <2>2, <2>3, <2>4, <2>5
  <1>2. CASE SpawnFails
    BY <1>2 DEF SpawnFails, CallerInv, ItemsRunOnce, SlotInv, CoverInv
  <1>3. CASE SpawnsEnd
    BY <1>3 DEF SpawnsEnd, CallerInv, ItemsRunOnce, SlotInv, CoverInv
  <1>4. CASE Join
    <2>1. CallerInv' BY <1>4 DEF Join, CallerInv
    <2> QED BY <1>4, <2>1 DEF Join, ItemsRunOnce, SlotInv, CoverInv
  <1>5. CASE Thaw
    BY <1>5 DEF Thaw, CallerInv, ItemsRunOnce, SlotInv, CoverInv
  <1>6. CASE Return
    <2>1. CallerInv' /\ result' \in {"ok", "error", "panic", "spawn_error"}
      BY <1>6 DEF Return, CallerInv, Outcome
    <2> QED BY <1>6, <2>1 DEF Return, ItemsRunOnce, SlotInv, CoverInv
  <1> QED BY <1>1, <1>2, <1>3, <1>4, <1>5, <1>6 DEF CallerStep

(* A worker takes a step only while the caller waits for it.               *)
LEMMA WorkersRunFrozen ==
  ASSUME IInv, NEW w \in Worker, ~Ended(w)
  PROVE  caller \in {"spawn", "join"} /\ w < spawned /\ w >= joined
  BY PmapAssumption, ThreadsBounds DEF IInv, TypeOK, CallerInv, Worker, Ended

(* Every step of a worker preserves it.                                    *)
LEMMA WorkerKeeps == ASSUME IInv, NEW w \in Worker, WorkerStep(w) PROVE IInv'
  <1> USE PmapAssumption, ThreadsBounds DEF IInv, TypeOK, Worker, Item, NoError, callerVars, shared
  <1>0. /\ ~Ended(w)
        /\ pc' = [pc EXCEPT ![w] = pc'[w]]
        /\ pc'[w] # "unborn"
        /\ UNCHANGED callerVars
    BY DEF WorkerStep, Take, Stop, Begin, Succeed, Fail, Raise, Panic, Ended
  <1>1. caller \in {"spawn", "join"} /\ w < spawned /\ w >= joined
    BY <1>0, WorkersRunFrozen
  <1>2. CallerInv'
    BY <1>0, <1>1 DEF CallerInv, Ended
  <1>3. CASE Take(w)
    <2>1. TypeOK' BY <1>3 DEF Take
    <2>2. ItemsRunOnce' BY <1>3 DEF Take, ItemsRunOnce, SlotInv, Holds
    <2>3. SlotInv' BY <1>3 DEF Take, SlotInv
    <2>4. ASSUME error' = NoError, \A v \in Worker : pc'[v] # "panicked",
                 NEW i \in Item, i < next', slot'[i] = "empty"
          PROVE  \E v \in Worker : Holds(v)' /\ at'[v] = i
      <3>1. CASE i = next
        BY <1>3, <3>1 DEF Take, Holds
      <3>2. CASE i # next
        <4>1. PICK v \in Worker : Holds(v) /\ at[v] = i
          BY <1>3, <2>4, <3>2 DEF Take, CoverInv
        <4> QED BY <1>3, <4>1 DEF Take, Holds
      <3> QED BY <3>1, <3>2
    <2>5. \A v \in Worker : pc'[v] = "done" /\ error' = NoError => next' >= N
      BY <1>3 DEF Take, CoverInv
    <2>6. CoverInv'
      BY <2>4, <2>5, <1>3 DEF CoverInv, Take
    <2> QED BY <1>2, <2>1, <2>2, <2>3, <2>6
  <1>4. CASE Stop(w)
    <2>1. ItemsRunOnce' BY <1>4 DEF Stop, ItemsRunOnce, Holds
    <2>2. SlotInv' BY <1>4 DEF Stop, SlotInv
    <2>3. CoverInv' BY <1>4 DEF Stop, CoverInv, SlotInv, ItemsRunOnce, Holds
    <2> QED BY <1>2, <1>4, <2>1, <2>2, <2>3 DEF Stop
  <1>5. CASE Begin(w)
    <2>1. ItemsRunOnce' BY <1>5 DEF Begin, ItemsRunOnce, Holds
    <2>2. SlotInv' BY <1>5 DEF Begin, SlotInv
    <2>3. CoverInv' BY <1>5 DEF Begin, CoverInv, Holds
    <2> QED BY <1>2, <1>5, <2>1, <2>2, <2>3 DEF Begin
  <1>6. CASE Succeed(w)
    <2>1. at[w] \in Item /\ at[w] < next /\ slot[at[w]] = "empty"
      BY <1>6 DEF Succeed, SlotInv, ItemsRunOnce, Holds
    <2>2. TypeOK' BY <1>6, <2>1 DEF Succeed
    <2>3. ItemsRunOnce' BY <1>6, <2>1 DEF Succeed, ItemsRunOnce, Holds
    <2>4. SlotInv' BY <1>6, <2>1 DEF Succeed, SlotInv
    <2>5. CoverInv' BY <1>6, <2>1 DEF Succeed, CoverInv, Holds
    <2> QED BY <1>2, <2>2, <2>3, <2>4, <2>5
  <1>7. CASE Fail(w)
    <2>1. at[w] \in Item /\ at[w] < next /\ slot[at[w]] = "empty"
      BY <1>7 DEF Fail, SlotInv, ItemsRunOnce, Holds
    <2>2. TypeOK' /\ error' \in Item BY <1>7, <2>1 DEF Fail
    <2>3. ItemsRunOnce' BY <1>7, <2>1 DEF Fail, ItemsRunOnce, Holds
    <2>4. SlotInv' BY <1>7, <2>1 DEF Fail, SlotInv
    <2>5. CoverInv' BY <1>7, <2>2 DEF Fail, CoverInv
    <2> QED BY <1>2, <2>2, <2>3, <2>4, <2>5
  <1>8. CASE Raise(w)
    <2>1. ItemsRunOnce' BY <1>8 DEF Raise, ItemsRunOnce, Holds
    <2>2. SlotInv' BY <1>8 DEF Raise, SlotInv
    <2>3. CoverInv' BY <1>8 DEF Raise, CoverInv, SlotInv
    <2> QED BY <1>2, <1>8, <2>1, <2>2, <2>3 DEF Raise
  <1>9. CASE Panic(w)
    <2>1. ItemsRunOnce' BY <1>9 DEF Panic, ItemsRunOnce, Holds
    <2>2. SlotInv' BY <1>9 DEF Panic, SlotInv
    <2>3. CoverInv' BY <1>9 DEF Panic, CoverInv
    <2> QED BY <1>2, <1>9, <2>1, <2>2, <2>3 DEF Panic
  <1> QED BY <1>3, <1>4, <1>5, <1>6, <1>7, <1>8, <1>9 DEF WorkerStep

(* The invariant holds in every state run_parallel reaches.                *)
THEOREM Invariance == Spec => []IInv
  <1>1. IInv /\ [Next]_vars => IInv'
    <2> SUFFICES ASSUME IInv, [Next]_vars PROVE IInv'
      OBVIOUS
    <2>1. CASE UNCHANGED vars
      BY <2>1 DEF IInv, TypeOK, CallerInv, ItemsRunOnce, SlotInv, CoverInv, vars,
         callerVars, shared, Ended, Holds, Outcome
    <2> QED BY <2>1, CallerKeeps, WorkerKeeps DEF Next
  <1> QED BY <1>1, InitInv, PTL DEF Spec

(* The counters, slots and workers keep their types.                       *)
THEOREM TypeCorrect == Spec => []TypeOK
  <1>1. IInv => TypeOK BY DEF IInv
  <1> QED BY <1>1, Invariance, PTL

(* What run_parallel froze is thawed when no worker is left, whatever      *)
(* failed.                                                                 *)
THEOREM ThawIsSafe == Spec => []ThawedAlone
  <1>1. IInv => ThawedAlone
    BY PmapAssumption, ThreadsBounds DEF IInv, TypeOK, CallerInv, ThawedAlone, Ended, Worker
  <1> QED BY <1>1, Invariance, PTL

(* No item is run twice.                                                   *)
THEOREM NoItemTwice == Spec => []ItemsRunOnce
  <1>1. IInv => ItemsRunOnce BY DEF IInv
  <1> QED BY <1>1, Invariance, PTL

(* A result that is a list holds the value of every item.                  *)
THEOREM OkMeansAll == Spec => []OkIsComplete
  <1>1. IInv => OkIsComplete
    <2> SUFFICES ASSUME IInv, result = "ok", NEW i \in Item
                 PROVE  slot[i] = "value" /\ i \notin fails
      BY DEF OkIsComplete
    <2> USE PmapAssumption, ThreadsBounds DEF IInv, TypeOK, Worker, Item, NoError
    <2>1. caller = "returned" /\ Outcome = "ok"
      BY DEF CallerInv
    <2>2. ~spawnError /\ error = N /\ \A w \in Worker : pc[w] # "panicked"
      BY <2>1 DEF Outcome
    <2>3. \A w \in Worker : pc[w] = "done"
      BY <2>1, <2>2 DEF CallerInv, Ended
    <2>4. next >= N
      BY <2>2, <2>3 DEF CoverInv
    <2>5. slot[i] # "empty"
      BY <2>2, <2>3, <2>4 DEF CoverInv, Holds
    <2>6. slot[i] # "failed"
      BY <2>2 DEF SlotInv
    <2> QED BY <2>5, <2>6 DEF SlotInv
  <1> QED BY <1>1, Invariance, PTL

(* The error returned is that of an item that failed, and no lower item    *)
(* ran and failed.                                                         *)
THEOREM LeastOfThoseRun == Spec => []ErrorIsLeastRun
  <1>1. IInv => ErrorIsLeastRun
    <2> SUFFICES ASSUME IInv, result = "error" PROVE ErrorIsLeastRun
      BY DEF ErrorIsLeastRun
    <2>1. error # NoError
      BY DEF IInv, CallerInv, Outcome
    <2> QED BY <2>1, PmapAssumption DEF ErrorIsLeastRun, IInv, TypeOK, SlotInv, Item, NoError
  <1> QED BY <1>1, Invariance, PTL

(* What parallel_map returns is right, for every number of items and every *)
(* limit.                                                                  *)
THEOREM ResultCorrect == Spec => []ResultIsRight
  BY OkMeansAll, LeastOfThoseRun, PTL DEF ResultIsRight

-----------------------------------------------------------------------------
(* How many items are passed over.  An item that was taken and left no     *)
(* trace is the last its worker took, and the worker that met the error    *)
(* went on to higher items.                                                *)
PassedInv ==
    /\ (\A w \in Worker : pc[w] # "panicked") =>
           \A i \in Item : i < next /\ slot[i] = "empty" =>
               \E w \in Worker : pc[w] \in {"check", "run", "done"} /\ at[w] = i
    /\ error # NoError => error < next /\ \E w \in Worker : at[w] >= error

LEMMA PassedInvKept == IInv /\ PassedInv /\ [Next]_vars => PassedInv'
  <1> SUFFICES ASSUME IInv, PassedInv, [Next]_vars PROVE PassedInv'
    OBVIOUS
  <1> USE PmapAssumption, ThreadsBounds DEF PassedInv
  <1>1. CASE UNCHANGED vars
    BY <1>1 DEF vars, shared
  <1>2. CASE CallerStep
    <2>1. UNCHANGED <<shared, at>>
      BY <1>2 DEF CallerStep, Spawn, SpawnFails, SpawnsEnd, Join, Thaw, Return
    <2>2. CASE Spawn
      <3>1. pc' = [pc EXCEPT ![spawned] = "take"] /\ pc[spawned] = "unborn" /\ spawned \in Worker
        BY <2>2 DEF Spawn, IInv, TypeOK, CallerInv, Worker
      <3> QED BY <2>1, <3>1 DEF shared, IInv, TypeOK
    <2>3. CASE ~Spawn
      <3>1. UNCHANGED pc
        BY <1>2, <2>3 DEF CallerStep, SpawnFails, SpawnsEnd, Join, Thaw, Return
      <3> QED BY <2>1, <3>1 DEF shared
    <2> QED BY <2>2, <2>3
  <1>3. ASSUME NEW w \in Worker, Take(w) PROVE PassedInv'
    <2>1. /\ pc[w] = "take" /\ next' = next + 1 /\ UNCHANGED <<error, slot>>
          /\ \A v \in Worker : /\ pc'[v] = IF v = w THEN "check" ELSE pc[v]
                              /\ at'[v] = IF v = w THEN next ELSE at[v]
      BY <1>3 DEF Take, IInv, TypeOK
    <2>2. next \in Nat /\ error \in Nat /\ (\A v \in Worker : at[v] \in Nat) /\ Item \subseteq Nat
      BY DEF IInv, TypeOK, Item
    <2>3. ASSUME \A v \in Worker : pc'[v] # "panicked", NEW i \in Item, i < next', slot'[i] = "empty"
          PROVE  \E v \in Worker : pc'[v] \in {"check", "run", "done"} /\ at'[v] = i
      <3>1. CASE i = next
        BY <2>1, <3>1
      <3>2. CASE i # next
        <4>1. i < next
          BY <2>1, <2>2, <2>3, <3>2
        <4>2. \A v \in Worker : pc[v] # "panicked"
          BY <2>1, <2>3
        <4>3. PICK v \in Worker : pc[v] \in {"check", "run", "done"} /\ at[v] = i
          BY <2>1, <2>3, <4>1, <4>2
        <4> QED BY <2>1, <4>3
      <3> QED BY <3>1, <3>2
    <2>4. error' # NoError => error' < next' /\ \E v \in Worker : at'[v] >= error'
      BY <2>1, <2>2
    <2> QED BY <2>3, <2>4
  <1>4. ASSUME NEW w \in Worker, Stop(w) \/ Begin(w) \/ Raise(w) \/ Panic(w)
        PROVE  PassedInv'
    <2>1. /\ UNCHANGED <<error, slot, next, at>>
          /\ \A v \in Worker \ {w} : pc'[v] = pc[v]
          /\ pc[w] \in {"check", "run", "raise"} /\ pc'[w] \in {"done", "run", "take", "panicked"}
          /\ pc[w] # "raise" => pc'[w] \in {"done", "run", "panicked"}
      BY <1>4 DEF Stop, Begin, Raise, Panic, shared, IInv, TypeOK
    <2> QED BY <2>1
  <1>5. ASSUME NEW w \in Worker, Succeed(w) \/ Fail(w)
        PROVE  PassedInv'
    <2>1. at[w] \in Item /\ at[w] < next
      BY <1>5 DEF Succeed, Fail, IInv, SlotInv, ItemsRunOnce, Holds
    <2>2. /\ pc[w] = "run" /\ UNCHANGED <<next, at>> /\ slot'[at[w]] # "empty"
          /\ \A i \in Item \ {at[w]} : slot'[i] = slot[i]
          /\ \A v \in Worker \ {w} : pc'[v] = pc[v]
          /\ pc'[w] # "panicked"
      BY <1>5, <2>1 DEF Succeed, Fail, IInv, TypeOK
    <2>3. error' = error \/ (error' = at[w] /\ at[w] < error)
      BY <1>5 DEF Succeed, Fail
    <2>4. error' = error => error # NoError \/ Succeed(w)
      BY <1>5, <2>1 DEF Fail, NoError, Item
    <2>5. (\A v \in Worker : pc'[v] # "panicked") =>
              \A i \in Item : i < next /\ slot'[i] = "empty" =>
                  \E v \in Worker : pc'[v] \in {"check", "run", "done"} /\ at[v] = i
      BY <2>2
    <2>6. error' # NoError => error' < next /\ \E v \in Worker : at[v] >= error'
      BY <2>1, <2>3 DEF IInv, TypeOK, Item
    <2> QED BY <2>2, <2>5, <2>6
  <1> QED BY <1>1, <1>2, <1>3, <1>4, <1>5 DEF Next, WorkerStep

(* Of the items below the reported error fewer than there are workers were *)
(* not run: each worker passes over one at most, and one reported.         *)
THEOREM FewArePassedOver == Spec => []FewPassedOver
  <1>1. Init => PassedInv
    BY PmapAssumption DEF Init, PassedInv, Item, NoError
  <1>2. IInv /\ PassedInv => FewPassedOver
    <2> DEFINE S == {i \in Item : i < error /\ slot[i] = "empty"}
    <2> SUFFICES ASSUME IInv, PassedInv, result = "error"
                 PROVE  Cardinality(S) < Threads
      BY DEF FewPassedOver
    <2> USE PmapAssumption, ThreadsBounds
    <2>1. caller = "returned" /\ Outcome = "error"
      BY DEF IInv, CallerInv
    <2>2. ~spawnError /\ error # NoError /\ \A w \in Worker : pc[w] # "panicked"
      BY <2>1 DEF Outcome
    <2>3. error < next /\ error \in Nat /\ next \in Nat
      BY <2>2 DEF PassedInv, IInv, TypeOK
    <2>4. PICK v \in Worker : at[v] >= error
      BY <2>2 DEF PassedInv
    <2>5. \A i \in S : \E w \in Worker \ {v} : at[w] = i
      <3> SUFFICES ASSUME NEW i \in S PROVE \E w \in Worker \ {v} : at[w] = i
        OBVIOUS
      <3>1. PICK w \in Worker : at[w] = i
        BY <2>2, <2>3 DEF PassedInv, Item
      <3>2. w # v
        BY <2>3, <2>4, <3>1 DEF Item
      <3> QED BY <3>1, <3>2
    <2> DEFINE f == [i \in S |-> CHOOSE w \in Worker \ {v} : at[w] = i]
    <2>6. \A i \in S : f[i] \in Worker \ {v} /\ at[f[i]] = i
      BY <2>5
    <2> HIDE DEF f, S
    <2>7. f \in [S -> Worker \ {v}]
      BY <2>6 DEF f
    <2>8. f \in Injection(S, Worker \ {v})
      BY <2>6, <2>7 DEF Injection, IsInjective
    <2>9. IsFiniteSet(Worker) /\ Cardinality(Worker) = Threads
      BY FS_Interval DEF Worker
    <2>10. IsFiniteSet(Worker \ {v}) /\ Cardinality(Worker \ {v}) = Threads - 1
      BY <2>4, <2>9, FS_RemoveElement
    <2>11. IsFiniteSet(S) /\ Cardinality(S) <= Threads - 1
      BY <2>8, <2>10, FS_Injection
    <2>12. Cardinality(S) \in Nat
      BY <2>11, FS_CardinalityType
    <2> QED BY <2>11, <2>12
  <1> QED BY <1>1, <1>2, PassedInvKept, Invariance, PTL DEF Spec
==============================================================================
