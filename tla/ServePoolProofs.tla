---------------------------- MODULE ServePoolProofs ----------------------------
(***************************************************************************)
(* Proofs about ServePool, for any threads and any limits.  The invariant  *)
(* is three properties together: the counters say how many threads are in  *)
(* each state, so a step that changes a counter is compared with the one   *)
(* or two threads it moves (OneMoves, TwoMove).  JobsGetThreads is not     *)
(* inductive with them: JobsInv, in the second half, is what it rests on.  *)
(***************************************************************************)
EXTENDS ServePool, FiniteSetTheorems, TLAPS

IInv == TypeOK /\ CountersExact /\ NoLostWakeup

One(x, S) == IF x \in S THEN 1 ELSE 0

(* How many elements of D the function f sends into S.                     *)
Count(f, D, S) == Cardinality({x \in D : f[x] \in S})

(* The numbers of threads and submitters CountersExact speaks of.          *)
Running == Cardinality(At({"running"}))
Absent == Cardinality(At({"absent"}))
Idling == Cardinality(At({"idle", "recv", "got"}))
Arriving == Cardinality(At({"starting"}))
Waiters == Cardinality(At({"growing", "waiting"}))
Holding == Cardinality(At({"got", "claim"}))
Growing == Cardinality(At({"growing"}))
Asleep == Cardinality(At({"asleep"}))
Awake == Cardinality(At({"woken"}))
Sending == Cardinality(Sub({"send", "send_grow"}))
Making == Cardinality(Sub({"send_grow", "grow"}))

Counts ==
    /\ permits = Cardinality(Fixed) - Running
    /\ threads = MaxThreads - Absent + Making + Growing
    /\ idle = Idling
    /\ starting = Arriving + Making + Growing
    /\ waiting = Waiters
    /\ queued = Sending + channel + Holding

Numbers ==
    /\ Running \in Nat /\ Absent \in 0 .. MaxThreads /\ Idling \in Nat /\ Arriving \in Nat
    /\ Waiters \in Nat /\ Holding \in Nat /\ Growing \in Nat /\ Asleep \in Nat
    /\ Awake \in Nat /\ Sending \in Nat /\ Making \in Nat
    /\ Cardinality(Fixed) \in Nat /\ MaxThreads \in Nat

(* What one or two threads do in a step.                                   *)
Moves(t, b) == \A x \in Thread : pc'[x] = IF x = t THEN b ELSE pc[x]
Hands(r, b) == \A x \in Submitter : sub'[x] = IF x = r THEN b ELSE sub[x]
MoveBoth(t, b, u, c) ==
    \A x \in Thread : pc'[x] = IF x = u THEN c ELSE IF x = t THEN b ELSE pc[x]

SameBut(f, g, D, t) == \A x \in D \ {t} : g[x] = f[x]

(* A function changed at one place gains or loses that place only.         *)
LEMMA CountMoves ==
  ASSUME NEW D, IsFiniteSet(D), NEW f, NEW g, NEW t \in D, NEW S,
         SameBut(f, g, D, t)
  PROVE  /\ Count(f, D, S) \in Nat
         /\ Count(g, D, S) = Count(f, D, S) - One(f[t], S) + One(g[t], S)
  <1> DEFINE A == {x \in D : f[x] \in S}
             B == {x \in D : g[x] \in S}
  <1>1. IsFiniteSet(A)
    BY FS_Subset, A \in SUBSET D
  <1>2. Cardinality(A) \in Nat
    BY <1>1, FS_CardinalityType
  <1>3. CASE g[t] \in S
    <2>1. B = A \cup {t}
      BY <1>3 DEF SameBut
    <2>2. Cardinality(B) = IF t \in A THEN Cardinality(A) ELSE Cardinality(A) + 1
      BY <1>1, <2>1, FS_AddElement
    <2> QED BY <1>2, <1>3, <2>2 DEF Count, One
  <1>4. CASE g[t] \notin S
    <2>1. B = A \ {t}
      BY <1>4 DEF SameBut
    <2>2. Cardinality(B) = IF t \in A THEN Cardinality(A) - 1 ELSE Cardinality(A)
      BY <1>1, <2>1, FS_RemoveElement
    <2> QED BY <1>2, <1>4, <2>2 DEF Count, One
  <1> QED BY <1>3, <1>4

(* There are finitely many threads, as many as the limit.                  *)
LEMMA ThreadsFinite == IsFiniteSet(Thread) /\ Cardinality(Thread) = MaxThreads
                       /\ MaxThreads \in Nat /\ Cardinality(Fixed) \in Nat
  <1>1. Fixed \cap Extra = {} /\ Cardinality({}) = 0
    BY PoolAssumption, FS_EmptySet
  <1>2. Cardinality(Fixed) \in Nat /\ Cardinality(Extra) \in Nat
    BY PoolAssumption, FS_CardinalityType
  <1>3. /\ IsFiniteSet(Fixed \cup Extra)
        /\ Cardinality(Fixed \cup Extra)
              = Cardinality(Fixed) + Cardinality(Extra) - Cardinality(Fixed \cap Extra)
    BY PoolAssumption, FS_Union
  <1> QED BY <1>1, <1>2, <1>3 DEF Thread, MaxThreads

(* The numbers are numbers.                                                *)
LEMMA AreNumbers == Numbers
  <1>1. \A S : Cardinality(At(S)) \in 0 .. MaxThreads
    <2> SUFFICES ASSUME NEW S PROVE Cardinality(At(S)) \in 0 .. MaxThreads
      OBVIOUS
    <2>1. At(S) \in SUBSET Thread
      BY DEF At
    <2>2. IsFiniteSet(At(S)) /\ Cardinality(At(S)) <= MaxThreads
      BY <2>1, ThreadsFinite, FS_Subset
    <2> QED BY <2>2, ThreadsFinite, FS_CardinalityType
  <1>2. \A S : Cardinality(Sub(S)) \in Nat
    BY PoolAssumption, FS_Subset, FS_CardinalityType DEF Sub
  <1> QED
    BY <1>1, <1>2, ThreadsFinite DEF Numbers, Running, Absent, Idling, Arriving,
       Waiters, Holding, Growing, Asleep, Awake, Sending, Making

(* Nobody sleeps exactly when the number of sleepers is zero.              *)
LEMMA NobodySleeps == At({"asleep"}) = {} <=> Asleep = 0
  BY ThreadsFinite, FS_Subset, FS_EmptySet, At({"asleep"}) \in SUBSET Thread DEF At, Asleep

(* CountersExact in these words.                                           *)
LEMMA InNumbers == CountersExact <=> Counts
  <1> SUFFICES /\ Reserved = Making + Growing
    BY AreNumbers DEF CountersExact, Counts, Numbers, Running, Absent, Idling, Arriving,
       Waiters, Holding, Sending
  <1> QED BY DEF Reserved, Making, Growing

(* How many threads are in some states after one, or two, have moved.      *)
LEMMA ThreadMoves ==
  ASSUME NEW t \in Thread, NEW b, Moves(t, b), NEW S
  PROVE  Cardinality(At(S)') = Cardinality(At(S)) - One(pc[t], S) + One(b, S)
  <1>1. pc'[t] = b /\ SameBut(pc, pc', Thread, t)
    BY DEF Moves, SameBut
  <1>2. Count(pc', Thread, S) = Count(pc, Thread, S) - One(pc[t], S) + One(pc'[t], S)
    BY <1>1, ThreadsFinite, CountMoves
  <1>3. Count(pc, Thread, S) = Cardinality(At(S)) /\ Count(pc', Thread, S) = Cardinality(At(S)')
    BY DEF Count, At
  <1> QED BY <1>1, <1>2, <1>3

LEMMA TwoThreadsMove ==
  ASSUME NEW t \in Thread, NEW b, NEW u \in Thread, NEW c, u # t, MoveBoth(t, b, u, c), NEW S
  PROVE  Cardinality(At(S)') = Cardinality(At(S)) - One(pc[t], S) + One(b, S)
                                - One(pc[u], S) + One(c, S)
  <1> DEFINE g == [x \in Thread |-> IF x = t THEN b ELSE pc[x]]
  <1>1. /\ g[t] = b /\ g[u] = pc[u] /\ pc'[u] = c
        /\ SameBut(pc, g, Thread, t) /\ SameBut(g, pc', Thread, u)
    BY DEF MoveBoth, SameBut
  <1> HIDE DEF g
  <1>2. /\ Count(pc, Thread, S) \in Nat
        /\ Count(g, Thread, S) = Count(pc, Thread, S) - One(pc[t], S) + One(g[t], S)
    BY <1>1, ThreadsFinite, CountMoves
  <1>3. Count(pc', Thread, S) = Count(g, Thread, S) - One(g[u], S) + One(pc'[u], S)
    BY <1>1, ThreadsFinite, CountMoves
  <1>4. Count(pc, Thread, S) = Cardinality(At(S)) /\ Count(pc', Thread, S) = Cardinality(At(S)')
    BY DEF Count, At
  <1> QED BY <1>1, <1>2, <1>3, <1>4 DEF One

(* One thread moves: each number changes by that thread.                   *)
LEMMA OneMoves ==
  ASSUME NEW t \in Thread, NEW b, Moves(t, b)
  PROVE  /\ Running' = Running - One(pc[t], {"running"}) + One(b, {"running"})
         /\ Absent' = Absent - One(pc[t], {"absent"}) + One(b, {"absent"})
         /\ Idling' = Idling - One(pc[t], {"idle", "recv", "got"}) + One(b, {"idle", "recv", "got"})
         /\ Arriving' = Arriving - One(pc[t], {"starting"}) + One(b, {"starting"})
         /\ Waiters' = Waiters - One(pc[t], {"growing", "waiting"}) + One(b, {"growing", "waiting"})
         /\ Holding' = Holding - One(pc[t], {"got", "claim"}) + One(b, {"got", "claim"})
         /\ Growing' = Growing - One(pc[t], {"growing"}) + One(b, {"growing"})
         /\ Asleep' = Asleep - One(pc[t], {"asleep"}) + One(b, {"asleep"})
         /\ Awake' = Awake - One(pc[t], {"woken"}) + One(b, {"woken"})
  BY ThreadMoves
     DEF Running, Absent, Idling, Arriving, Waiters, Holding, Growing, Asleep, Awake

(* Two threads move.                                                       *)
LEMMA TwoMove ==
  ASSUME NEW t \in Thread, NEW b, NEW u \in Thread, NEW c, u # t, MoveBoth(t, b, u, c)
  PROVE  /\ Running' = Running - One(pc[t], {"running"}) + One(b, {"running"})
                - One(pc[u], {"running"}) + One(c, {"running"})
         /\ Absent' = Absent - One(pc[t], {"absent"}) + One(b, {"absent"})
                - One(pc[u], {"absent"}) + One(c, {"absent"})
         /\ Idling' = Idling - One(pc[t], {"idle", "recv", "got"}) + One(b, {"idle", "recv", "got"})
                - One(pc[u], {"idle", "recv", "got"}) + One(c, {"idle", "recv", "got"})
         /\ Arriving' = Arriving - One(pc[t], {"starting"}) + One(b, {"starting"})
                - One(pc[u], {"starting"}) + One(c, {"starting"})
         /\ Waiters' = Waiters - One(pc[t], {"growing", "waiting"}) + One(b, {"growing", "waiting"})
                - One(pc[u], {"growing", "waiting"}) + One(c, {"growing", "waiting"})
         /\ Holding' = Holding - One(pc[t], {"got", "claim"}) + One(b, {"got", "claim"})
                - One(pc[u], {"got", "claim"}) + One(c, {"got", "claim"})
         /\ Growing' = Growing - One(pc[t], {"growing"}) + One(b, {"growing"})
                - One(pc[u], {"growing"}) + One(c, {"growing"})
         /\ Asleep' = Asleep - One(pc[t], {"asleep"}) + One(b, {"asleep"})
                - One(pc[u], {"asleep"}) + One(c, {"asleep"})
         /\ Awake' = Awake - One(pc[t], {"woken"}) + One(b, {"woken"})
                - One(pc[u], {"woken"}) + One(c, {"woken"})
  BY TwoThreadsMove
     DEF Running, Absent, Idling, Arriving, Waiters, Holding, Growing, Asleep, Awake

(* One submitter moves.                                                    *)
LEMMA SubmitterMoves ==
  ASSUME NEW r \in Submitter, NEW b, Hands(r, b)
  PROVE  /\ Sending' = Sending - One(sub[r], {"send", "send_grow"})
                              + One(b, {"send", "send_grow"})
         /\ Making' = Making - One(sub[r], {"send_grow", "grow"})
                            + One(b, {"send_grow", "grow"})
  <1>1. ASSUME NEW S
        PROVE  Cardinality(Sub(S)') = Cardinality(Sub(S)) - One(sub[r], S) + One(b, S)
    <2>1. sub'[r] = b /\ SameBut(sub, sub', Submitter, r)
      BY DEF Hands, SameBut
    <2> IsFiniteSet(Submitter)
      BY PoolAssumption
    <2>2. Count(sub', Submitter, S)
             = Count(sub, Submitter, S) - One(sub[r], S) + One(sub'[r], S)
      BY <2>1, CountMoves
    <2>3. /\ Count(sub, Submitter, S) = Cardinality(Sub(S))
          /\ Count(sub', Submitter, S) = Cardinality(Sub(S)')
      BY DEF Count, Sub
    <2> QED BY <2>1, <2>2, <2>3
  <1> QED BY <1>1 DEF Sending, Making

(* Nobody moves.                                                           *)
LEMMA NoThreadMoves ==
  ASSUME UNCHANGED pc
  PROVE  UNCHANGED <<Running, Absent, Idling, Arriving, Waiters, Holding, Growing,
                     Asleep, Awake>>
  BY DEF Running, Absent, Idling, Arriving, Waiters, Holding, Growing, Asleep, Awake, At

LEMMA NoSubmitterMoves == ASSUME UNCHANGED sub PROVE UNCHANGED <<Sending, Making>>
  BY DEF Sending, Making, Sub

(* The invariant in numbers: what the steps below preserve.                *)
NumInv == Counts /\ (Asleep # 0 => permits <= Awake)

LEMMA InvInNumbers == IInv <=> TypeOK /\ NumInv
  BY InNumbers, NobodySleeps DEF IInv, NumInv, NoLostWakeup, Awake

(* The same for the next state, and that numbers stay numbers.             *)
LEMMA NextInNumbers == ASSUME TypeOK', NumInv' PROVE IInv'
  BY InvInNumbers, PTL

LEMMA NextNumbers == Numbers'
  BY AreNumbers, PTL

(* The counters are numbers when they count.                               *)
Typed == /\ permits \in Int /\ threads \in Nat /\ idle \in Nat
         /\ starting \in Nat /\ waiting \in Nat

LEMMA CountersTyped == NumInv => Typed
  BY AreNumbers DEF NumInv, Counts, Numbers, Typed

LEMMA NextTyped == NumInv' => Typed'
  BY CountersTyped, PTL

(* The invariant holds when the pool is made.                              *)
LEMMA InitInv == Init => IInv
  <1> SUFFICES ASSUME Init PROVE IInv
    OBVIOUS
  <1>1. TypeOK
    <2>1. Cardinality(Fixed) \in 0 .. MaxThreads
      BY PoolAssumption, FS_CardinalityType DEF MaxThreads
    <2>2. pc \in [Thread -> ThreadState] /\ sub \in [Submitter -> SubmitterState]
      BY DEF Init, ThreadState, SubmitterState
    <2>3. /\ permits \in Int /\ threads \in 0 .. MaxThreads /\ queued \in 0 .. MaxQueued
      BY <2>1, PoolAssumption DEF Init
    <2> QED BY <2>2, <2>3 DEF Init, TypeOK
  <1>2. At({"absent"}) = Extra
    BY PoolAssumption DEF Init, At, Thread
  <1>3. \A S : "loop" \notin S /\ "absent" \notin S => At(S) = {}
    BY DEF Init, At
  <1>4. \A S : "away" \notin S => Sub(S) = {}
    BY DEF Init, Sub
  <1>5. Cardinality({}) = 0 /\ Absent = Cardinality(Extra)
    BY FS_EmptySet, <1>2 DEF Absent
  <1>6. /\ Running = 0 /\ Idling = 0 /\ Arriving = 0 /\ Waiters = 0 /\ Holding = 0
        /\ Growing = 0 /\ Asleep = 0 /\ Sending = 0 /\ Making = 0
    BY <1>3, <1>4, <1>5 DEF Running, Idling, Arriving, Waiters, Holding, Growing, Asleep,
       Sending, Making
  <1>7. Counts
    BY <1>5, <1>6, PoolAssumption, FS_CardinalityType DEF Init, Counts, MaxThreads
  <1> QED BY <1>1, <1>6, <1>7, InvInNumbers DEF NumInv

(* The steps that move one thread to a given state.                        *)
LEMMA ThreadSteps ==
  ASSUME IInv, NEW t \in Thread,
         \/ Idle(t) \/ LockRx(t) \/ Recv(t) \/ NotIdle(t) \/ Started(t)
         \/ WakesAlone(t) \/ Return(t) \/ TakeBack(t)
  PROVE  IInv'
  <1> TypeOK /\ NumInv /\ Numbers /\ Numbers'
    BY AreNumbers, NextNumbers, InvInNumbers
  <1> USE DEF Go
  <1>1. CASE Idle(t)
    <2>1. pc[t] = "loop" /\ Moves(t, "idle") /\ UNCHANGED sub
      BY <1>1 DEF Idle, Moves, TypeOK
    <2>2. /\ Idling' = Idling + 1
          /\ UNCHANGED <<Running, Absent, Arriving, Waiters, Holding, Growing, Asleep, Awake>>
      BY <2>1, OneMoves DEF One, Numbers
    <2>3. UNCHANGED <<Sending, Making>>
      BY <2>1, NoSubmitterMoves
    <2>4. NumInv'
      BY <2>2, <2>3, <1>1 DEF Idle, Numbers, NumInv, Counts, TypeOK
    <2>5. pc' \in [Thread -> ThreadState] /\ UNCHANGED <<sub, refused>>
      BY <1>1 DEF Idle, TypeOK, ThreadState
    <2>6. TypeOK'
      BY <2>4, <2>5, NextTyped, <1>1 DEF Idle, TypeOK, Typed
    <2> QED BY <2>4, <2>6, NextInNumbers
  <1>2. CASE LockRx(t)
    <2>1. pc[t] = "idle" /\ Moves(t, "recv") /\ UNCHANGED sub
      BY <1>2 DEF LockRx, Moves, TypeOK
    <2>2. /\ UNCHANGED <<Running, Absent, Idling, Arriving, Waiters, Holding, Growing, Asleep, Awake>>
      BY <2>1, OneMoves DEF One, Numbers
    <2>3. UNCHANGED <<Sending, Making>>
      BY <2>1, NoSubmitterMoves
    <2>4. NumInv'
      BY <2>2, <2>3, <1>2 DEF LockRx, Numbers, NumInv, Counts, TypeOK
    <2>5. pc' \in [Thread -> ThreadState] /\ UNCHANGED <<sub, refused>>
      BY <1>2 DEF LockRx, TypeOK, ThreadState
    <2>6. TypeOK'
      BY <2>4, <2>5, NextTyped, <1>2 DEF LockRx, TypeOK, Typed
    <2> QED BY <2>4, <2>6, NextInNumbers
  <1>3. CASE Recv(t)
    <2>1. pc[t] = "recv" /\ Moves(t, "got") /\ UNCHANGED sub
      BY <1>3 DEF Recv, Moves, TypeOK
    <2>2. /\ Holding' = Holding + 1
          /\ UNCHANGED <<Running, Absent, Idling, Arriving, Waiters, Growing, Asleep, Awake>>
      BY <2>1, OneMoves DEF One, Numbers
    <2>3. UNCHANGED <<Sending, Making>>
      BY <2>1, NoSubmitterMoves
    <2>4. NumInv'
      BY <2>2, <2>3, <1>3 DEF Recv, Numbers, NumInv, Counts, TypeOK
    <2>5. pc' \in [Thread -> ThreadState] /\ UNCHANGED <<sub, refused>>
      BY <1>3 DEF Recv, TypeOK, ThreadState
    <2>6. TypeOK'
      BY <2>4, <2>5, NextTyped, <1>3 DEF Recv, TypeOK, Typed
    <2> QED BY <2>4, <2>6, NextInNumbers
  <1>4. CASE NotIdle(t)
    <2>1. pc[t] = "got" /\ Moves(t, "claim") /\ UNCHANGED sub
      BY <1>4 DEF NotIdle, Moves, TypeOK
    <2>2. /\ Idling' = Idling - 1
          /\ UNCHANGED <<Running, Absent, Arriving, Waiters, Holding, Growing, Asleep, Awake>>
      BY <2>1, OneMoves DEF One, Numbers
    <2>3. UNCHANGED <<Sending, Making>>
      BY <2>1, NoSubmitterMoves
    <2>4. NumInv'
      BY <2>2, <2>3, <1>4 DEF NotIdle, Numbers, NumInv, Counts, TypeOK
    <2>5. pc' \in [Thread -> ThreadState] /\ UNCHANGED <<sub, refused>>
      BY <1>4 DEF NotIdle, TypeOK, ThreadState
    <2>6. TypeOK'
      BY <2>4, <2>5, NextTyped, <1>4 DEF NotIdle, TypeOK, Typed
    <2> QED BY <2>4, <2>6, NextInNumbers
  <1>5. CASE Started(t)
    <2>1. pc[t] = "starting" /\ Moves(t, "look") /\ UNCHANGED sub
      BY <1>5 DEF Started, Moves, TypeOK
    <2>2. /\ Arriving' = Arriving - 1
          /\ UNCHANGED <<Running, Absent, Idling, Waiters, Holding, Growing, Asleep, Awake>>
      BY <2>1, OneMoves DEF One, Numbers
    <2>3. UNCHANGED <<Sending, Making>>
      BY <2>1, NoSubmitterMoves
    <2>4. NumInv'
      BY <2>2, <2>3, <1>5 DEF Started, Numbers, NumInv, Counts, TypeOK
    <2>5. pc' \in [Thread -> ThreadState] /\ UNCHANGED <<sub, refused>>
      BY <1>5 DEF Started, TypeOK, ThreadState
    <2>6. TypeOK'
      BY <2>4, <2>5, NextTyped, <1>5 DEF Started, TypeOK, Typed
    <2> QED BY <2>4, <2>6, NextInNumbers
  <1>6. CASE WakesAlone(t)
    <2>1. pc[t] = "asleep" /\ Moves(t, "woken") /\ UNCHANGED sub
      BY <1>6 DEF WakesAlone, Moves, TypeOK
    <2>2. /\ Asleep' = Asleep - 1
          /\ Awake' = Awake + 1
          /\ UNCHANGED <<Running, Absent, Idling, Arriving, Waiters, Holding, Growing>>
      BY <2>1, OneMoves DEF One, Numbers
    <2>3. UNCHANGED <<Sending, Making>>
      BY <2>1, NoSubmitterMoves
    <2>4. NumInv'
      BY <2>2, <2>3, <1>6 DEF WakesAlone, Numbers, NumInv, Counts, TypeOK
    <2>5. pc' \in [Thread -> ThreadState] /\ UNCHANGED <<sub, refused>>
      BY <1>6 DEF WakesAlone, TypeOK, ThreadState
    <2>6. TypeOK'
      BY <2>4, <2>5, NextTyped, <1>6 DEF WakesAlone, TypeOK, Typed
    <2> QED BY <2>4, <2>6, NextInNumbers
  <1>7. CASE Return(t)
    <2>1. pc[t] = "waiting" /\ Moves(t, "running") /\ UNCHANGED sub
      BY <1>7 DEF Return, Moves, TypeOK
    <2>2. /\ Running' = Running + 1
          /\ Waiters' = Waiters - 1
          /\ UNCHANGED <<Absent, Idling, Arriving, Holding, Growing, Asleep, Awake>>
      BY <2>1, OneMoves DEF One, Numbers
    <2>3. UNCHANGED <<Sending, Making>>
      BY <2>1, NoSubmitterMoves
    <2>4. NumInv'
      BY <2>2, <2>3, <1>7 DEF Return, Numbers, NumInv, Counts, TypeOK
    <2>5. pc' \in [Thread -> ThreadState] /\ UNCHANGED <<sub, refused>>
      BY <1>7 DEF Return, TypeOK, ThreadState
    <2>6. TypeOK'
      BY <2>4, <2>5, NextTyped, <1>7 DEF Return, TypeOK, Typed
    <2> QED BY <2>4, <2>6, NextInNumbers
  <1>8. CASE TakeBack(t)
    <2>1. pc[t] = "lent" /\ Moves(t, "running") /\ UNCHANGED sub
      BY <1>8 DEF TakeBack, Moves, TypeOK
    <2>2. /\ Running' = Running + 1
          /\ UNCHANGED <<Absent, Idling, Arriving, Waiters, Holding, Growing, Asleep, Awake>>
      BY <2>1, OneMoves DEF One, Numbers
    <2>3. UNCHANGED <<Sending, Making>>
      BY <2>1, NoSubmitterMoves
    <2>4. NumInv'
      BY <2>2, <2>3, <1>8 DEF TakeBack, Numbers, NumInv, Counts, TypeOK
    <2>5. pc' \in [Thread -> ThreadState] /\ UNCHANGED <<sub, refused>>
      BY <1>8 DEF TakeBack, TypeOK, ThreadState
    <2>6. TypeOK'
      BY <2>4, <2>5, NextTyped, <1>8 DEF TakeBack, TypeOK, Typed
    <2> QED BY <2>4, <2>6, NextInNumbers
  <1> QED BY <1>1, <1>2, <1>3, <1>4, <1>5, <1>6, <1>7, <1>8

LEMMA SumIsNat == \A i, j, k \in Nat : i + j + k \in Nat
  OBVIOUS

(* A thread with a job takes a permit or goes to sleep.                    *)
LEMMA PermitSteps ==
  ASSUME IInv, NEW t \in Thread, Claim(t) \/ Woken(t)
  PROVE  IInv'
  <1> TypeOK /\ NumInv /\ Numbers /\ Numbers'
    BY AreNumbers, NextNumbers, InvInNumbers
  <1> DEFINE b == IF permits > 0 THEN "running" ELSE "asleep"
  <1>1. Moves(t, b) /\ UNCHANGED <<sub, refused>> /\ pc' \in [Thread -> ThreadState]
    BY DEF Claim, Woken, TakePermit, Go, Moves, TypeOK, ThreadState
  <1>2. UNCHANGED <<Sending, Making>>
    BY <1>1, NoSubmitterMoves
  <1>3. CASE Claim(t)
    <2>1. /\ UNCHANGED <<Absent, Idling, Arriving, Waiters, Growing, Awake>>
          /\ Holding' = Holding - 1
          /\ Running' = Running + One(b, {"running"})
          /\ Asleep' = Asleep + One(b, {"asleep"})
      BY <1>1, <1>3, OneMoves DEF Claim, One, Numbers
    <2>2. NumInv'
      BY <1>2, <1>3, <2>1 DEF Claim, TakePermit, One, Numbers, NumInv, Counts, TypeOK
    <2>3. TypeOK'
      <3>1. queued' = queued - 1 /\ channel' = channel
        BY <1>3 DEF Claim, TakePermit
      <3>2. queued' \in 0 .. MaxQueued
        <4>1. queued' \in Nat
          <5>1. channel' \in Nat /\ Sending' \in Nat /\ Holding' \in Nat
            BY <3>1 DEF Numbers, TypeOK
          <5>2. queued' = Sending' + channel' + Holding'
            BY <2>2 DEF NumInv, Counts
          <5>3. Sending' + channel' + Holding' \in Nat
            BY <5>1, SumIsNat, Zenon
          <5> QED BY <5>2, <5>3, Zenon
        <4> QED BY <3>1, <4>1, PoolAssumption DEF TypeOK
      <3> QED BY <1>1, <1>3, <2>2, <3>1, <3>2, NextTyped DEF Claim, TakePermit, TypeOK, Typed
    <2> QED BY <2>2, <2>3, NextInNumbers
  <1>4. CASE Woken(t)
    <2>1. /\ UNCHANGED <<Absent, Idling, Arriving, Waiters, Holding, Growing>>
          /\ Awake' = Awake - 1
          /\ Running' = Running + One(b, {"running"})
          /\ Asleep' = Asleep + One(b, {"asleep"})
      BY <1>1, <1>4, OneMoves DEF Woken, One, Numbers
    <2>2. NumInv'
      BY <1>2, <1>4, <2>1 DEF Woken, TakePermit, One, Numbers, NumInv, Counts, TypeOK
    <2>3. TypeOK'
      BY <1>1, <1>4, <2>2, NextTyped DEF Woken, TakePermit, TypeOK, Typed
    <2> QED BY <2>2, <2>3, NextInNumbers
  <1> QED BY <1>3, <1>4

(* An extra thread looks at the channel, and retires or looks again.       *)
LEMMA ExtraSteps ==
  ASSUME IInv, NEW t \in Thread, Look(t) \/ Retire(t)
  PROVE  IInv'
  <1> TypeOK /\ NumInv /\ Numbers /\ Numbers'
    BY AreNumbers, NextNumbers, InvInNumbers
  <1>1. CASE Look(t)
    <2> DEFINE b == IF channel' = channel THEN "check" ELSE "claim"
    <2>1. /\ pc[t] = "look" /\ Moves(t, b) /\ UNCHANGED <<sub, refused>>
          /\ pc' \in [Thread -> ThreadState] /\ channel' \in Nat
      BY <1>1 DEF Look, Go, Moves, TypeOK, ThreadState
    <2>2. UNCHANGED <<Sending, Making>>
      BY <2>1, NoSubmitterMoves
    <2>3. /\ UNCHANGED <<Running, Absent, Idling, Arriving, Waiters, Growing, Asleep, Awake>>
          /\ Holding' = Holding + One(b, {"claim"})
      BY <2>1, OneMoves DEF One, Numbers
    <2>4. NumInv'
      BY <1>1, <2>2, <2>3 DEF Look, One, Numbers, NumInv, Counts, TypeOK
    <2>5. TypeOK'
      BY <1>1, <2>1, <2>4, NextTyped DEF Look, TypeOK, Typed
    <2> QED BY <2>4, <2>5, NextInNumbers
  <1>2. CASE Retire(t)
    <2> DEFINE b == IF queued = 0 THEN "absent" ELSE "look"
    <2>1. /\ pc[t] = "check" /\ Moves(t, b) /\ UNCHANGED <<sub, refused>>
          /\ pc' \in [Thread -> ThreadState]
      BY <1>2 DEF Retire, Go, Moves, TypeOK, ThreadState
    <2>2. UNCHANGED <<Sending, Making>>
      BY <2>1, NoSubmitterMoves
    <2>3. /\ UNCHANGED <<Running, Idling, Arriving, Waiters, Holding, Growing, Asleep, Awake>>
          /\ Absent' = Absent + One(b, {"absent"})
      BY <2>1, OneMoves DEF One, Numbers
    <2>4. NumInv'
      BY <1>2, <2>2, <2>3 DEF Retire, One, Numbers, NumInv, Counts, TypeOK
    <2>5. TypeOK'
      BY <1>2, <2>1, <2>4, NextTyped, ThreadsFinite DEF Retire, TypeOK, Typed
    <2> QED BY <2>4, <2>5, NextInNumbers
  <1> QED BY <1>1, <1>2

(* A permit is given up: by the end of a job, a wait or a lent permit.     *)
(* Either nobody sleeps, or one who does is woken.                         *)
LEMMA Notified ==
  ASSUME TypeOK, NEW t \in Thread, NEW b \in {"loop", "look", "waiting", "growing", "lent"},
         pc[t] = "running", Notify([pc EXCEPT ![t] = b])
  PROVE  /\ pc' \in [Thread -> ThreadState]
         /\ UNCHANGED <<Absent, Idling, Arriving, Holding>>
         /\ Running' = Running - 1
         /\ Waiters' = Waiters + One(b, {"growing", "waiting"})
         /\ Growing' = Growing + One(b, {"growing"})
         /\ \/ Asleep = 0 /\ Asleep' = 0
            \/ Asleep # 0 /\ Awake' = Awake + 1
  <1> Numbers
    BY AreNumbers
  <1>1. CASE At({"asleep"}) = {}
    <2>1. Moves(t, b) /\ pc' \in [Thread -> ThreadState]
      BY <1>1 DEF Notify, Moves, TypeOK, ThreadState
    <2>2. Asleep = 0
      BY <1>1, NobodySleeps
    <2> QED BY <2>1, <2>2, OneMoves DEF One, Numbers
  <1>2. CASE At({"asleep"}) # {}
    <2>1. PICK u \in At({"asleep"}) : pc' = [[pc EXCEPT ![t] = b] EXCEPT ![u] = "woken"]
      BY <1>2 DEF Notify
    <2>2. u \in Thread /\ u # t /\ pc[u] = "asleep"
      BY DEF At
    <2>3. MoveBoth(t, b, u, "woken") /\ pc' \in [Thread -> ThreadState]
      BY <2>1, <2>2 DEF MoveBoth, TypeOK, ThreadState
    <2>4. Asleep # 0
      BY <1>2, NobodySleeps
    <2> QED BY <2>2, <2>3, <2>4, TwoMove DEF One, Numbers
  <1> QED BY <1>1, <1>2

LEMMA GivingSteps ==
  ASSUME IInv, NEW t \in Thread, End(t) \/ Lend(t) \/ Wait(t)
  PROVE  IInv'
  <1> TypeOK /\ NumInv /\ Numbers /\ Numbers'
    BY AreNumbers, NextNumbers, InvInNumbers
  <1>1. UNCHANGED <<sub, refused>> /\ UNCHANGED <<Sending, Making>>
    <2>1. UNCHANGED <<sub, refused>>
      BY DEF End, Lend, Wait
    <2> QED BY <2>1, NoSubmitterMoves
  <1>2. CASE End(t) \/ Lend(t)
    <2>1. PICK b \in {"loop", "look", "lent"} :
             pc[t] = "running" /\ Notify([pc EXCEPT ![t] = b])
      BY <1>2 DEF End, Lend
    <2>2. NumInv'
      <3>1. /\ UNCHANGED <<Absent, Idling, Arriving, Holding, Waiters, Growing>>
            /\ Running' = Running - 1
            /\ (Asleep = 0 /\ Asleep' = 0) \/ (Asleep # 0 /\ Awake' = Awake + 1)
        <4>1. One(b, {"growing", "waiting"}) = 0 /\ One(b, {"growing"}) = 0
          BY <2>1 DEF One
        <4>2. /\ UNCHANGED <<Absent, Idling, Arriving, Holding>>
              /\ Running' = Running - 1
              /\ Waiters' = Waiters + One(b, {"growing", "waiting"})
              /\ Growing' = Growing + One(b, {"growing"})
              /\ (Asleep = 0 /\ Asleep' = 0) \/ (Asleep # 0 /\ Awake' = Awake + 1)
          BY <2>1, Notified
        <4> QED BY <4>1, <4>2 DEF Numbers
      <3>2. permits' = permits + 1 /\ UNCHANGED <<threads, idle, starting, waiting, queued, channel>>
        BY <1>2 DEF End, Lend
      <3>3. Counts'
        <4>1. permits = Cardinality(Fixed) - Running /\ Running \in Nat /\ Cardinality(Fixed) \in Nat
          BY DEF Numbers, NumInv, Counts
        <4>2. permits' = Cardinality(Fixed) - Running'
          BY <3>1, <3>2, <4>1
        <4> QED BY <1>1, <3>1, <3>2, <4>2 DEF NumInv, Counts
      <3>4. Asleep' # 0 => permits' <= Awake'
        BY <3>1, <3>2 DEF Numbers, NumInv, TypeOK
      <3> QED BY <3>3, <3>4 DEF NumInv
    <2>3. TypeOK'
      BY <1>1, <1>2, <2>1, <2>2, Notified, NextTyped DEF End, Lend, TypeOK, Typed
    <2> QED BY <2>2, <2>3, NextInNumbers
  <1>3. CASE Wait(t)
    <2> DEFINE grow == NeedsThread(queued, waiting + 1, permits + 1)
               b == IF grow THEN "growing" ELSE "waiting"
    <2>1. /\ pc[t] = "running" /\ Notify([pc EXCEPT ![t] = b]) /\ Reserve(grow)
          /\ waiting' = waiting + 1 /\ permits' = permits + 1
          /\ UNCHANGED <<idle, queued, channel>>
      BY <1>3 DEF Wait
    <2>2. /\ pc' \in [Thread -> ThreadState]
          /\ UNCHANGED <<Absent, Idling, Arriving, Holding>>
          /\ Running' = Running - 1 /\ Waiters' = Waiters + 1
          /\ Growing' = Growing + (IF grow THEN 1 ELSE 0)
          /\ (Asleep = 0 /\ Asleep' = 0) \/ (Asleep # 0 /\ Awake' = Awake + 1)
      BY <2>1, Notified DEF One
    <2>3. /\ threads' = threads + (IF grow THEN 1 ELSE 0)
          /\ starting' = starting + (IF grow THEN 1 ELSE 0)
          /\ threads' \in 0 .. MaxThreads
      BY <2>1 DEF Reserve, NeedsThread, TypeOK, Numbers
    <2> HIDE DEF grow
    <2>4. NumInv'
      <3>1. Counts'
        <4> DEFINE extra == IF grow THEN 1 ELSE 0
        <4>1. extra \in Nat
          OBVIOUS
        <4>2. Growing' = Growing + extra /\ threads' = threads + extra /\ starting' = starting + extra
          BY <2>2, <2>3
        <4> HIDE DEF extra
        <4> permits \in Int /\ threads \in Int
          BY DEF TypeOK, Numbers
        <4>3. permits' = Cardinality(Fixed) - Running'
          BY <2>1, <2>2 DEF Numbers, NumInv, Counts
        <4>4. threads' = MaxThreads - Absent' + Making' + Growing'
          BY <1>1, <2>2, <4>1, <4>2 DEF Numbers, NumInv, Counts
        <4>5. starting' = Arriving' + Making' + Growing'
          BY <1>1, <2>2, <4>1, <4>2 DEF Numbers, NumInv, Counts
        <4>6. waiting' = Waiters' /\ idle' = Idling' /\ queued' = Sending' + channel' + Holding'
          BY <1>1, <2>1, <2>2 DEF NumInv, Counts
        <4> QED BY <4>3, <4>4, <4>5, <4>6 DEF Counts
      <3>2. Asleep' # 0 => permits' <= Awake'
        <4> permits \in Int /\ Awake \in Nat
          BY DEF TypeOK, Numbers
        <4> QED BY <2>1, <2>2 DEF NumInv
      <3> QED BY <3>1, <3>2 DEF NumInv
    <2>5. TypeOK'
      BY <1>1, <2>1, <2>2, <2>3, <2>4, NextTyped DEF TypeOK, Typed
    <2> QED BY <2>4, <2>5, NextInNumbers
  <1> QED BY <1>2, <1>3

(* The thread that made the pool grow spawns the extra one and waits.      *)
LEMMA WaitGrowsStep ==
  ASSUME IInv, NEW t \in Thread, WaitGrows(t)
  PROVE  IInv'
  <1> TypeOK /\ NumInv /\ Numbers /\ Numbers'
    BY AreNumbers, NextNumbers, InvInNumbers
  <1>1. UNCHANGED <<sub, Sending, Making>> /\ pc[t] = "growing"
    BY NoSubmitterMoves DEF WaitGrows
  <1>2. CASE pc' = [pc EXCEPT ![t] = "waiting"]
             /\ threads' = threads - 1 /\ starting' = starting - 1 /\ refused' = TRUE
    <2>1. Moves(t, "waiting") /\ pc' \in [Thread -> ThreadState]
      BY <1>2 DEF Moves, TypeOK, ThreadState
    <2>2. /\ UNCHANGED <<Running, Absent, Idling, Arriving, Waiters, Holding, Asleep, Awake>>
          /\ Growing' = Growing - 1
      BY <1>1, <2>1, OneMoves DEF One, Numbers
    <2>3. NumInv'
      BY <1>1, <1>2, <2>2 DEF WaitGrows, Numbers, NumInv, Counts, TypeOK
    <2>4. TypeOK'
      BY <1>1, <1>2, <2>1, <2>3, NextTyped, ThreadsFinite DEF WaitGrows, TypeOK, Typed
    <2> QED BY <2>3, <2>4, NextInNumbers
  <1>3. ASSUME NEW x \in Extra, pc[x] = "absent",
               pc' = [pc EXCEPT ![x] = "starting", ![t] = "waiting"],
               UNCHANGED <<threads, starting, refused>>
        PROVE  IInv'
    <2>1. x \in Thread /\ t # x
      BY <1>1, <1>3 DEF Thread
    <2>2. MoveBoth(x, "starting", t, "waiting") /\ pc' \in [Thread -> ThreadState]
      BY <1>3, <2>1 DEF MoveBoth, TypeOK, ThreadState
    <2>3. /\ UNCHANGED <<Running, Idling, Waiters, Holding, Asleep, Awake>>
          /\ Absent' = Absent - 1 /\ Arriving' = Arriving + 1 /\ Growing' = Growing - 1
      BY <1>1, <1>3, <2>1, <2>2, TwoMove DEF One, Numbers
    <2>4. NumInv'
      BY <1>1, <1>3, <2>3 DEF WaitGrows, Numbers, NumInv, Counts, TypeOK
    <2>5. TypeOK'
      BY <1>1, <1>3, <2>2, <2>4, NextTyped DEF WaitGrows, TypeOK, Typed
    <2> QED BY <2>4, <2>5, NextInNumbers
  <1> QED BY <1>2, <1>3 DEF WaitGrows, Go

(* The steps of a submitter.                                               *)
LEMMA SubmitterSteps ==
  ASSUME IInv, NEW r \in Submitter, Submit(r) \/ Send(r) \/ SubmitGrows(r)
  PROVE  IInv'
  <1> TypeOK /\ NumInv /\ Numbers /\ Numbers'
    BY AreNumbers, NextNumbers, InvInNumbers
  <1>1. CASE Submit(r)
    <2> DEFINE grow == NeedsThread(queued + 1, waiting, permits)
               b == IF grow THEN "send_grow" ELSE "send"
    <2>1. /\ sub[r] = "away" /\ Hands(r, b) /\ sub' \in [Submitter -> SubmitterState]
          /\ queued' = queued + 1 /\ queued' \in 0 .. MaxQueued /\ Reserve(grow)
          /\ UNCHANGED <<permits, idle, waiting, channel, pc, refused>>
      BY <1>1, PoolAssumption DEF Submit, Hands, TypeOK, SubmitterState
    <2>2. /\ Sending' = Sending + 1
          /\ Making' = Making + (IF grow THEN 1 ELSE 0)
      BY <2>1, SubmitterMoves DEF One, Numbers
    <2>3. /\ threads' = threads + (IF grow THEN 1 ELSE 0)
          /\ starting' = starting + (IF grow THEN 1 ELSE 0)
          /\ threads' \in 0 .. MaxThreads
      BY <2>1 DEF Reserve, NeedsThread, TypeOK, Numbers
    <2>4. UNCHANGED <<Running, Absent, Idling, Arriving, Waiters, Holding, Growing,
                      Asleep, Awake>>
      BY <2>1, NoThreadMoves
    <2> HIDE DEF grow
    <2>5. NumInv'
      BY <2>1, <2>2, <2>3, <2>4 DEF Numbers, NumInv, Counts, TypeOK
    <2>6. TypeOK'
      BY <2>1, <2>3, <2>5, NextTyped DEF TypeOK, Typed
    <2> QED BY <2>5, <2>6, NextInNumbers
  <1>2. CASE Send(r)
    <2> DEFINE b == IF sub[r] = "send" THEN "away" ELSE "grow"
    <2>1. /\ sub[r] \in {"send", "send_grow"} /\ Hands(r, b)
          /\ sub' \in [Submitter -> SubmitterState] /\ channel' = channel + 1
          /\ UNCHANGED <<permits, threads, idle, starting, waiting, queued, pc, refused>>
      BY <1>2 DEF Send, Hands, TypeOK, SubmitterState
    <2>2. Sending' = Sending - 1 /\ UNCHANGED Making
      BY <2>1, SubmitterMoves DEF One, Numbers
    <2>3. UNCHANGED <<Running, Absent, Idling, Arriving, Waiters, Holding, Growing,
                      Asleep, Awake>>
      BY <2>1, NoThreadMoves
    <2>4. NumInv'
      BY <2>1, <2>2, <2>3 DEF Numbers, NumInv, Counts, TypeOK
    <2>5. TypeOK'
      BY <2>1, <2>4, NextTyped DEF TypeOK, Typed
    <2> QED BY <2>4, <2>5, NextInNumbers
  <1>3. CASE SubmitGrows(r)
    <2>1. /\ sub[r] = "grow" /\ Hands(r, "away") /\ SpawnExtra
          /\ sub' \in [Submitter -> SubmitterState]
          /\ UNCHANGED <<permits, idle, waiting, queued, channel>>
      BY <1>3 DEF SubmitGrows, Hands, TypeOK, SubmitterState
    <2>2. UNCHANGED Sending /\ Making' = Making - 1
      BY <2>1, SubmitterMoves DEF One, Numbers
    <2>3. CASE threads' = threads - 1 /\ starting' = starting - 1 /\ refused' = TRUE
               /\ UNCHANGED pc
      <3>1. UNCHANGED <<Running, Absent, Idling, Arriving, Waiters, Holding, Growing,
                        Asleep, Awake>>
        BY <2>3, NoThreadMoves
      <3>2. NumInv'
        BY <2>1, <2>2, <2>3, <3>1 DEF Numbers, NumInv, Counts, TypeOK
      <3>3. TypeOK'
        BY <2>1, <2>3, <3>2, NextTyped, ThreadsFinite DEF TypeOK, Typed
      <3> QED BY <3>2, <3>3, NextInNumbers
    <2>4. ASSUME NEW x \in Extra, pc[x] = "absent", Go(x, "starting"),
                 UNCHANGED <<threads, starting, refused>>
          PROVE  IInv'
      <3>1. x \in Thread /\ Moves(x, "starting") /\ pc' \in [Thread -> ThreadState]
        BY <2>4 DEF Go, Moves, Thread, TypeOK, ThreadState
      <3>2. /\ UNCHANGED <<Running, Idling, Waiters, Holding, Growing, Asleep, Awake>>
            /\ Absent' = Absent - 1 /\ Arriving' = Arriving + 1
        BY <2>4, <3>1, OneMoves DEF One, Numbers
      <3>3. NumInv'
        BY <2>1, <2>2, <2>4, <3>2 DEF Numbers, NumInv, Counts, TypeOK
      <3>4. TypeOK'
        BY <2>1, <2>4, <3>1, <3>3, NextTyped DEF TypeOK, Typed
      <3> QED BY <3>3, <3>4, NextInNumbers
    <2> QED BY <2>1, <2>3, <2>4 DEF SpawnExtra
  <1> QED BY <1>1, <1>2, <1>3

(* Every step preserves the invariant.                                     *)
LEMMA StepInv == IInv /\ [Next]_vars => IInv'
  <1> SUFFICES ASSUME IInv, [Next]_vars PROVE IInv'
    OBVIOUS
  <1>1. CASE UNCHANGED vars
    BY <1>1 DEF vars, IInv, TypeOK, CountersExact, Reserved, NoLostWakeup, At, Sub
  <1>2. ASSUME NEW r \in Submitter, Submit(r) \/ Send(r) \/ SubmitGrows(r) PROVE IInv'
    BY <1>2, SubmitterSteps
  <1>3. ASSUME NEW t \in Thread,
               PoolStep(t) \/ WakesAlone(t) \/ End(t) \/ Wait(t) \/ Lend(t)
        PROVE  IInv'
    BY <1>3, ThreadSteps, PermitSteps, ExtraSteps, GivingSteps, WaitGrowsStep DEF PoolStep
  <1> QED BY <1>1, <1>2, <1>3 DEF Next

(* The counters of the pool agree with the threads they count, in every    *)
(* behaviour.                                                              *)
THEOREM Invariance == Spec => []IInv
  <1>1. Init => IInv
    BY InitInv
  <1>2. IInv /\ [Next]_vars => IInv'
    BY StepInv
  <1> QED BY <1>1, <1>2, PTL DEF Spec

(* The pool never has more threads than its limit, however many submitters *)
(* and waiting threads decide to make one at once.                         *)
THEOREM TypeCorrect == Spec => []TypeOK
  BY Invariance, PTL DEF IInv

(* PoolState counts exactly what it says: no permit is lost or made by     *)
(* waits, lent permits, panics or threads the system refuses.              *)
THEOREM CountersCorrect == Spec => []CountersExact
  BY Invariance, PTL DEF IInv

(* No wake-up of the condition variable is lost, though debts are paid     *)
(* without notifying and notified threads may find the permit gone.        *)
THEOREM WakeupsReach == Spec => []NoLostWakeup
  BY Invariance, PTL DEF IInv

-----------------------------------------------------------------------------
(* JobsGetThreads.  Jobs nobody took, threads on their way to the channel, *)
(* and threads that are about to take a permit.                            *)
Jobs == channel + Sending
(* Threads that look for a job, or will before they sleep.                 *)
Seeking == Cardinality(At({"loop", "idle", "recv", "starting", "look", "check"}))
(* Threads with a job in their hands or lent to one.                       *)
Busy == Cardinality(At({"got", "claim", "woken", "lent"}))

(* What is inductive is a bound on both sides: there is a seeker for every *)
(* job or for every permit nobody is about to take.  One job more, or one  *)
(* permit more, either finds a seeker more or makes the pool grow.         *)
Served ==
    \/ threads = MaxThreads \/ refused
    \/ Jobs <= Seeking + Making + Growing
    \/ permits <= Busy + Seeking + Making + Growing

(* Only the extra threads come and go.                                     *)
FixedStay == \A f \in Fixed : pc[f] \notin {"absent", "starting", "look", "check"}

(* The strengthening under which JobsGetThreads is inductive.              *)
JobsInv == FixedStay /\ Served

(* The two numbers are numbers.                                            *)
SeekTyped == Seeking \in Nat /\ Busy \in Nat

(* They are, in every state,                                               *)
LEMMA SeekNumbers == SeekTyped
  <1>1. \A S : IsFiniteSet(At(S))
    <2>1. \A S : At(S) \in SUBSET Thread
      BY DEF At
    <2> QED BY <2>1, ThreadsFinite, FS_Subset
  <1> QED BY <1>1, FS_CardinalityType DEF SeekTyped, Seeking, Busy

(* and after every step.                                                   *)
LEMMA NextSeekNumbers == SeekTyped'
  BY SeekNumbers, PTL

(* How Seeking and Busy change when one thread moves, and when two do.     *)
LEMMA SeekMoves ==
  ASSUME NEW t \in Thread, NEW b, Moves(t, b)
  PROVE  /\ Seeking' = Seeking
                - One(pc[t], {"loop", "idle", "recv", "starting", "look", "check"})
                + One(b, {"loop", "idle", "recv", "starting", "look", "check"})
         /\ Busy' = Busy - One(pc[t], {"got", "claim", "woken", "lent"})
                         + One(b, {"got", "claim", "woken", "lent"})
  BY ThreadMoves DEF Seeking, Busy

(* What the two numbers become when two threads move at once.              *)
LEMMA SeekBothMove ==
  ASSUME NEW t \in Thread, NEW b, NEW u \in Thread, NEW c, u # t, MoveBoth(t, b, u, c)
  PROVE  /\ Seeking' = Seeking
                - One(pc[t], {"loop", "idle", "recv", "starting", "look", "check"})
                + One(b, {"loop", "idle", "recv", "starting", "look", "check"})
                - One(pc[u], {"loop", "idle", "recv", "starting", "look", "check"})
                + One(c, {"loop", "idle", "recv", "starting", "look", "check"})
         /\ Busy' = Busy - One(pc[t], {"got", "claim", "woken", "lent"})
                         + One(b, {"got", "claim", "woken", "lent"})
                         - One(pc[u], {"got", "claim", "woken", "lent"})
                         + One(c, {"got", "claim", "woken", "lent"})
  BY TwoThreadsMove DEF Seeking, Busy

(* They change only when a thread moves.                                   *)
LEMMA NoSeekMoves == ASSUME UNCHANGED pc PROVE UNCHANGED <<Seeking, Busy>>
  BY DEF Seeking, Busy, At

(* A union has at most as many elements as its parts.                      *)
LEMMA UnionBound ==
  ASSUME NEW A, NEW B, IsFiniteSet(A), IsFiniteSet(B)
  PROVE  /\ IsFiniteSet(A \cup B) /\ Cardinality(A) \in Nat /\ Cardinality(B) \in Nat
         /\ Cardinality(A \cup B) \in Nat /\ Cardinality(A \cup B) <= Cardinality(A) + Cardinality(B)
  <1>1. /\ IsFiniteSet(A \cup B)
        /\ Cardinality(A \cup B) = Cardinality(A) + Cardinality(B) - Cardinality(A \cap B)
    BY FS_Union
  <1>2. IsFiniteSet(A \cap B)
    BY FS_Subset, A \cap B \in SUBSET A
  <1>3. Cardinality(A) \in Nat /\ Cardinality(B) \in Nat /\ Cardinality(A \cap B) \in Nat
        /\ Cardinality(A \cup B) \in Nat
    BY <1>1, <1>2, FS_CardinalityType
  <1> QED BY <1>1, <1>3

(* A thread counted as idle or starting will look at the channel, unless   *)
(* it has a job already.                                                   *)
LEMMA IdleSeek == Idling + Arriving <= Seeking + Holding
  <1> DEFINE A == At({"idle", "recv", "got"})
             B == At({"starting"})
             C == At({"loop", "idle", "recv", "starting", "look", "check"})
             D == At({"got", "claim"})
  <1>1. IsFiniteSet(A) /\ IsFiniteSet(B) /\ IsFiniteSet(C) /\ IsFiniteSet(D)
    <2>1. A \in SUBSET Thread /\ B \in SUBSET Thread /\ C \in SUBSET Thread /\ D \in SUBSET Thread
      BY DEF At
    <2> QED BY <2>1, ThreadsFinite, FS_Subset
  <1>2. A \cap B = {} /\ A \cup B \in SUBSET (C \cup D)
    BY DEF At
  <1> HIDE DEF A, B, C, D
  <1>3. Cardinality(A \cup B) = Cardinality(A) + Cardinality(B)
    <2>1. Cardinality(A \cup B) = Cardinality(A) + Cardinality(B) - Cardinality(A \cap B)
      BY <1>1, FS_Union
    <2>2. Cardinality(A \cap B) = 0
      BY <1>2, FS_EmptySet
    <2> QED BY <1>1, <2>1, <2>2, UnionBound
  <1>4. IsFiniteSet(C \cup D) /\ Cardinality(C \cup D) <= Cardinality(C) + Cardinality(D)
    BY <1>1, UnionBound
  <1>5. Cardinality(A \cup B) <= Cardinality(C \cup D)
    BY <1>2, <1>4, FS_Subset
  <1>6. Cardinality(A) + Cardinality(B) <= Cardinality(C) + Cardinality(D)
    BY <1>1, <1>3, <1>4, <1>5, UnionBound
  <1> QED BY <1>6 DEF A, B, C, D, Idling, Arriving, Seeking, Holding

(* A free permit belongs to a fixed thread that looks for a job, is about  *)
(* to take it back, sleeps or waits: the running ones hold theirs.         *)
LEMMA FreePermits ==
  ASSUME TypeOK, NumInv, FixedStay
  PROVE  permits <= Busy + Seeking + Asleep + Waiters
  <1> DEFINE R == At({"running"})
             B == At({"got", "claim", "woken", "lent"})
             S == At({"loop", "idle", "recv", "starting", "look", "check"})
             A == At({"asleep"})
             W == At({"growing", "waiting"})
  <1>1. IsFiniteSet(R) /\ IsFiniteSet(B) /\ IsFiniteSet(S) /\ IsFiniteSet(A) /\ IsFiniteSet(W)
    <2>1. /\ R \in SUBSET Thread /\ B \in SUBSET Thread /\ S \in SUBSET Thread
          /\ A \in SUBSET Thread /\ W \in SUBSET Thread
      BY DEF At
    <2> QED BY <2>1, ThreadsFinite, FS_Subset
  <1>2. Fixed \in SUBSET (R \cup (B \cup (S \cup (A \cup W))))
    <2> SUFFICES ASSUME NEW f \in Fixed PROVE f \in R \cup (B \cup (S \cup (A \cup W)))
      OBVIOUS
    <2>1. f \in Thread /\ pc[f] \in ThreadState /\ pc[f] # "absent"
      BY DEF TypeOK, FixedStay, Thread
    <2> QED BY <2>1 DEF At, ThreadState
  <1> HIDE DEF R, B, S, A, W
  <1>3. /\ IsFiniteSet(A \cup W) /\ Cardinality(A \cup W) <= Cardinality(A) + Cardinality(W)
        /\ Cardinality(A \cup W) \in Nat /\ Cardinality(A) \in Nat /\ Cardinality(W) \in Nat
    BY <1>1, UnionBound
  <1>4. /\ IsFiniteSet(S \cup (A \cup W)) /\ Cardinality(S) \in Nat
        /\ Cardinality(S \cup (A \cup W)) <= Cardinality(S) + Cardinality(A \cup W)
        /\ Cardinality(S \cup (A \cup W)) \in Nat
    BY <1>1, <1>3, UnionBound
  <1>5. /\ IsFiniteSet(B \cup (S \cup (A \cup W))) /\ Cardinality(B) \in Nat
        /\ Cardinality(B \cup (S \cup (A \cup W))) <= Cardinality(B) + Cardinality(S \cup (A \cup W))
        /\ Cardinality(B \cup (S \cup (A \cup W))) \in Nat
    BY <1>1, <1>4, UnionBound
  <1>6. /\ IsFiniteSet(R \cup (B \cup (S \cup (A \cup W)))) /\ Cardinality(R) \in Nat
        /\ Cardinality(R \cup (B \cup (S \cup (A \cup W))))
              <= Cardinality(R) + Cardinality(B \cup (S \cup (A \cup W)))
        /\ Cardinality(R \cup (B \cup (S \cup (A \cup W)))) \in Nat
    BY <1>1, <1>5, UnionBound
  <1>7. Cardinality(Fixed) <= Cardinality(R \cup (B \cup (S \cup (A \cup W))))
        /\ Cardinality(Fixed) \in Nat
    BY <1>2, <1>6, FS_Subset, FS_CardinalityType, PoolAssumption
  <1>8. Cardinality(Fixed) <= Cardinality(R) + Cardinality(B) + Cardinality(S)
                                + Cardinality(A) + Cardinality(W)
    BY <1>3, <1>4, <1>5, <1>6, <1>7
  <1>9. permits = Cardinality(Fixed) - Cardinality(R)
    BY DEF NumInv, Counts, Running, R
  <1>10. permits <= Cardinality(B) + Cardinality(S) + Cardinality(A) + Cardinality(W)
    BY <1>3, <1>4, <1>5, <1>6, <1>7, <1>8, <1>9
  <1> QED BY <1>10 DEF B, S, A, W, Busy, Seeking, Asleep, Waiters

(* No permit to take, or no job to take.                                   *)
LEMMA NothingToServe ==
  ASSUME \/ permits' \in Int /\ permits' <= 0
         \/ Jobs' = 0
  PROVE  Served'
  <1>1. \A i, j, k, l \in Nat : i + j + k \in Nat /\ i + j + k + l \in Nat
    OBVIOUS
  <1>2. /\ Seeking' + Making' + Growing' \in Nat
        /\ Busy' + Seeking' + Making' + Growing' \in Nat
    <2>1. Seeking' \in Nat /\ Busy' \in Nat
      BY NextSeekNumbers DEF SeekTyped
    <2>2. Making' \in Nat /\ Growing' \in Nat
      BY NextNumbers DEF Numbers
    <2> QED BY <1>1, <2>1, <2>2, Zenon
  <1>3. ASSUME NEW m \in Nat, NEW n \in Nat, NEW p, NEW q,
               (p \in Int /\ p <= 0) \/ q = 0
        PROVE  q <= m \/ p <= n
    BY <1>3
  <1>4. Jobs' <= Seeking' + Making' + Growing' \/ permits' <= Busy' + Seeking' + Making' + Growing'
    BY <1>2, <1>3
  <1> QED BY <1>4 DEF Served

(* All the facts about numbers that a step needs.                          *)
Known ==
    /\ TypeOK /\ NumInv /\ Numbers /\ SeekTyped /\ Idling + Arriving <= Seeking + Holding
    /\ permits <= Busy + Seeking + Asleep + Waiters /\ FixedStay /\ Served

(* What the invariants say of the numbers.                                 *)
LEMMA AreKnown == IInv /\ JobsInv => Known
  BY InvInNumbers, AreNumbers, SeekNumbers, IdleSeek, FreePermits DEF Known, JobsInv

(* JobsInv holds before the first request.                                 *)
LEMMA InitJobs == Init => JobsInv
  <1> SUFFICES ASSUME Init PROVE JobsInv
    OBVIOUS
  <1>1. FixedStay
    BY DEF Init, FixedStay, Thread
  <1>2. Sub({"send", "send_grow"}) = {} /\ channel = 0
    BY DEF Init, Sub
  <1>3. Jobs = 0
    BY <1>2, FS_EmptySet DEF Jobs, Sending
  <1> QED BY <1>1, <1>3, SeekNumbers, AreNumbers DEF JobsInv, Served, SeekTyped, Numbers

(* Steps of one thread that change neither side, or both alike.            *)
LEMMA ThreadsServe ==
  ASSUME IInv, JobsInv, NEW t \in Thread,
         \/ Idle(t) \/ LockRx(t) \/ Recv(t) \/ NotIdle(t) \/ Started(t)
         \/ WakesAlone(t) \/ Return(t) \/ TakeBack(t)
  PROVE  JobsInv'
  <1> Known /\ Numbers' /\ SeekTyped'
    BY AreKnown, NextNumbers, NextSeekNumbers
  <1>1. UNCHANGED <<sub, refused, threads>> /\ UNCHANGED <<Sending, Making>>
    <2>1. UNCHANGED <<sub, refused, threads>>
      BY DEF Idle, LockRx, Recv, NotIdle, Started, WakesAlone, Return, TakeBack
    <2> QED BY <2>1, NoSubmitterMoves
  <1> USE DEF Go
  <1>2. ASSUME NEW b \in {"idle", "recv", "got", "claim", "look", "woken", "running"},
               Moves(t, b), b = "look" <=> pc[t] = "starting", pc[t] # "growing"
        PROVE  FixedStay' /\ UNCHANGED Growing
    <2>1. UNCHANGED Growing
      BY <1>2, OneMoves DEF One, Known, Numbers
    <2> QED BY <1>2, <2>1 DEF Moves, Known, FixedStay, Thread
  <1>3. CASE Idle(t)
    <2>1. pc[t] = "loop" /\ Moves(t, "idle") /\ UNCHANGED <<permits, channel>>
      BY <1>3 DEF Idle, Moves, Known, TypeOK
    <2>2. UNCHANGED <<Seeking, Busy>>
      BY <2>1, SeekMoves DEF One, Known, SeekTyped
    <2>3. FixedStay' /\ UNCHANGED Growing
      BY <1>2, <2>1
    <2> QED BY <1>1, <2>1, <2>2, <2>3 DEF Known, JobsInv, Served, Jobs, SeekTyped, Numbers,
           TypeOK
  <1>4. CASE LockRx(t)
    <2>1. pc[t] = "idle" /\ Moves(t, "recv") /\ UNCHANGED <<permits, channel>>
      BY <1>4 DEF LockRx, Moves, Known, TypeOK
    <2>2. UNCHANGED <<Seeking, Busy>>
      BY <2>1, SeekMoves DEF One, Known, SeekTyped
    <2>3. FixedStay' /\ UNCHANGED Growing
      BY <1>2, <2>1
    <2> QED BY <1>1, <2>1, <2>2, <2>3 DEF Known, JobsInv, Served, Jobs, SeekTyped, Numbers,
           TypeOK
  <1>5. CASE Recv(t)
    <2>1. pc[t] = "recv" /\ Moves(t, "got") /\ UNCHANGED permits /\ channel' = channel - 1
      BY <1>5 DEF Recv, Moves, Known, TypeOK
    <2>2. Seeking' = Seeking - 1 /\ Busy' = Busy + 1
      BY <2>1, SeekMoves DEF One, Known, SeekTyped
    <2>3. FixedStay' /\ UNCHANGED Growing
      BY <1>2, <2>1
    <2> QED BY <1>1, <2>1, <2>2, <2>3 DEF Known, JobsInv, Served, Jobs, SeekTyped, Numbers,
           TypeOK
  <1>6. CASE NotIdle(t)
    <2>1. pc[t] = "got" /\ Moves(t, "claim") /\ UNCHANGED <<permits, channel>>
      BY <1>6 DEF NotIdle, Moves, Known, TypeOK
    <2>2. UNCHANGED <<Seeking, Busy>>
      BY <2>1, SeekMoves DEF One, Known, SeekTyped
    <2>3. FixedStay' /\ UNCHANGED Growing
      BY <1>2, <2>1
    <2> QED BY <1>1, <2>1, <2>2, <2>3 DEF Known, JobsInv, Served, Jobs, SeekTyped, Numbers,
           TypeOK
  <1>7. CASE Started(t)
    <2>1. pc[t] = "starting" /\ Moves(t, "look") /\ UNCHANGED <<permits, channel>>
      BY <1>7 DEF Started, Moves, Known, TypeOK
    <2>2. UNCHANGED <<Seeking, Busy>>
      BY <2>1, SeekMoves DEF One, Known, SeekTyped
    <2>3. FixedStay' /\ UNCHANGED Growing
      BY <1>2, <2>1
    <2> QED BY <1>1, <2>1, <2>2, <2>3 DEF Known, JobsInv, Served, Jobs, SeekTyped, Numbers,
           TypeOK
  <1>8. CASE WakesAlone(t)
    <2>1. pc[t] = "asleep" /\ Moves(t, "woken") /\ UNCHANGED <<permits, channel>>
      BY <1>8 DEF WakesAlone, Moves, Known, TypeOK
    <2>2. UNCHANGED Seeking /\ Busy' = Busy + 1
      BY <2>1, SeekMoves DEF One, Known, SeekTyped
    <2>3. FixedStay' /\ UNCHANGED Growing
      BY <1>2, <2>1
    <2> QED BY <1>1, <2>1, <2>2, <2>3 DEF Known, JobsInv, Served, Jobs, SeekTyped, Numbers,
           TypeOK
  <1>9. CASE Return(t)
    <2>1. pc[t] = "waiting" /\ Moves(t, "running") /\ UNCHANGED channel /\ permits' = permits - 1
      BY <1>9 DEF Return, Moves, Known, TypeOK
    <2>2. UNCHANGED <<Seeking, Busy>>
      BY <2>1, SeekMoves DEF One, Known, SeekTyped
    <2>3. FixedStay' /\ UNCHANGED Growing
      BY <1>2, <2>1
    <2> QED BY <1>1, <2>1, <2>2, <2>3 DEF Known, JobsInv, Served, Jobs, SeekTyped, Numbers,
           TypeOK
  <1>10. CASE TakeBack(t)
    <2>1. pc[t] = "lent" /\ Moves(t, "running") /\ UNCHANGED channel /\ permits' = permits - 1
      BY <1>10 DEF TakeBack, Moves, Known, TypeOK
    <2>2. UNCHANGED Seeking /\ Busy' = Busy - 1
      BY <2>1, SeekMoves DEF One, Known, SeekTyped
    <2>3. FixedStay' /\ UNCHANGED Growing
      BY <1>2, <2>1
    <2> QED BY <1>1, <2>1, <2>2, <2>3 DEF Known, JobsInv, Served, Jobs, SeekTyped, Numbers,
           TypeOK
  <1> QED BY <1>3, <1>4, <1>5, <1>6, <1>7, <1>8, <1>9, <1>10

(* With a permit it runs; without one, none is free.                       *)
LEMMA PermitsServe ==
  ASSUME IInv, JobsInv, NEW t \in Thread, Claim(t) \/ Woken(t)
  PROVE  JobsInv'
  <1> Known /\ Numbers' /\ SeekTyped'
    BY AreKnown, NextNumbers, NextSeekNumbers
  <1> DEFINE b == IF permits > 0 THEN "running" ELSE "asleep"
  <1>1. /\ Moves(t, b) /\ UNCHANGED <<sub, refused, threads, channel>>
        /\ permits' = IF permits > 0 THEN permits - 1 ELSE permits
        /\ pc[t] \in {"claim", "woken"}
    BY DEF Claim, Woken, TakePermit, Go, Moves, Known, TypeOK
  <1>2. UNCHANGED <<Sending, Making>>
    BY <1>1, NoSubmitterMoves
  <1>3. UNCHANGED Seeking /\ Busy' = Busy - 1
    BY <1>1, SeekMoves DEF One, Known, SeekTyped
  <1>4. UNCHANGED Growing
    BY <1>1, OneMoves DEF One, Known, Numbers
  <1>5. FixedStay'
    BY <1>1 DEF Moves, Known, FixedStay, Thread
  <1>6. Served'
    <2>1. CASE permits > 0
      BY <1>1, <1>2, <1>3, <1>4, <2>1 DEF Known, Served, Jobs, SeekTyped, Numbers, TypeOK
    <2>2. CASE ~(permits > 0)
      <3>1. permits' \in Int /\ permits' <= 0
        BY <1>1, <2>2 DEF Known, TypeOK
      <3> QED BY <3>1, NothingToServe
    <2> QED BY <2>1, <2>2
  <1> QED BY <1>5, <1>6 DEF JobsInv

(* An extra thread that finds a job has it; it retires when there is none. *)
LEMMA ExtrasServe ==
  ASSUME IInv, JobsInv, NEW t \in Thread, Look(t) \/ Retire(t)
  PROVE  JobsInv'
  <1> Known /\ Numbers' /\ SeekTyped'
    BY AreKnown, NextNumbers, NextSeekNumbers
  <1>1. UNCHANGED <<sub, refused, permits>> /\ UNCHANGED <<Sending, Making>>
    <2>1. UNCHANGED <<sub, refused, permits>>
      BY DEF Look, Retire
    <2> QED BY <2>1, NoSubmitterMoves
  <1>2. CASE Look(t)
    <2> DEFINE b == IF channel' = channel THEN "check" ELSE "claim"
    <2>1. /\ pc[t] = "look" /\ Moves(t, b) /\ UNCHANGED threads
          /\ channel' = channel \/ channel' = channel - 1
      BY <1>2 DEF Look, Go, Moves, Known, TypeOK
    <2>2. /\ Seeking' = Seeking - One(b, {"claim"}) /\ Busy' = Busy + One(b, {"claim"})
      BY <2>1, SeekMoves DEF One, Known, SeekTyped
    <2>3. UNCHANGED Growing
      BY <2>1, OneMoves DEF One, Known, Numbers
    <2>4. FixedStay'
      BY <2>1 DEF Moves, Known, FixedStay, Thread
    <2>5. Served'
      BY <1>1, <2>1, <2>2, <2>3 DEF One, Known, Served, Jobs, SeekTyped, Numbers, TypeOK
    <2> QED BY <2>4, <2>5 DEF JobsInv
  <1>3. CASE Retire(t)
    <2> DEFINE b == IF queued = 0 THEN "absent" ELSE "look"
    <2>1. /\ pc[t] = "check" /\ Moves(t, b) /\ UNCHANGED channel
          /\ queued # 0 => UNCHANGED threads
      BY <1>3 DEF Retire, Go, Moves, Known, TypeOK
    <2>2. UNCHANGED Busy /\ (queued # 0 => UNCHANGED Seeking)
      BY <2>1, SeekMoves DEF One, Known, SeekTyped
    <2>3. UNCHANGED Growing
      BY <2>1, OneMoves DEF One, Known, Numbers
    <2>4. FixedStay'
      BY <2>1 DEF Moves, Known, FixedStay, Thread
    <2>5. Served'
      <3>1. CASE queued = 0
        <4>1. Jobs' = 0
          BY <1>1, <2>1, <3>1 DEF Known, NumInv, Counts, Numbers, TypeOK, Jobs
        <4> QED BY <4>1, NothingToServe
      <3>2. CASE queued # 0
        BY <1>1, <2>1, <2>2, <2>3, <3>2 DEF Known, Served, Jobs
      <3> QED BY <3>1, <3>2
    <2> QED BY <2>4, <2>5 DEF JobsInv
  <1> QED BY <1>2, <1>3

(* Who gives a permit up seeks, lends it or waits; who is woken takes it.  *)
LEMMA NotifiedSeek ==
  ASSUME TypeOK, NEW t \in Thread, NEW b \in {"loop", "look", "waiting", "growing", "lent"},
         pc[t] = "running", Notify([pc EXCEPT ![t] = b]),
         FixedStay, b = "look" => t \notin Fixed
  PROVE  /\ Seeking' = Seeking + One(b, {"loop", "look"})
         /\ \/ Busy' = Busy + One(b, {"lent"})
            \/ Busy' = Busy + One(b, {"lent"}) + 1
         /\ FixedStay'
  <1> SeekTyped
    BY SeekNumbers
  <1>1. CASE At({"asleep"}) = {}
    <2>1. Moves(t, b)
      BY <1>1 DEF Notify, Moves, TypeOK
    <2>2. FixedStay'
      BY <2>1 DEF Moves, FixedStay, Thread
    <2> QED BY <2>1, <2>2, SeekMoves DEF One, SeekTyped
  <1>2. CASE At({"asleep"}) # {}
    <2>1. PICK u \in At({"asleep"}) : pc' = [[pc EXCEPT ![t] = b] EXCEPT ![u] = "woken"]
      BY <1>2 DEF Notify
    <2>2. u \in Thread /\ u # t /\ pc[u] = "asleep"
      BY DEF At
    <2>3. MoveBoth(t, b, u, "woken")
      BY <2>1, <2>2 DEF MoveBoth, TypeOK
    <2>4. FixedStay'
      BY <2>3 DEF MoveBoth, FixedStay, Thread
    <2> QED BY <2>2, <2>3, <2>4, SeekBothMove DEF One, SeekTyped
  <1> QED BY <1>1, <1>2

(* The steps that give a job to a thread preserve JobsInv.                 *)
LEMMA GivingServes ==
  ASSUME IInv, JobsInv, NEW t \in Thread, End(t) \/ Lend(t) \/ Wait(t)
  PROVE  JobsInv'
  <1> Known /\ Numbers' /\ SeekTyped'
    BY AreKnown, NextNumbers, NextSeekNumbers
  <1>1. /\ UNCHANGED <<sub, refused, queued, channel, idle>> /\ UNCHANGED <<Sending, Making>>
        /\ permits' = permits + 1 /\ pc[t] = "running"
    <2>1. UNCHANGED <<sub, refused, queued, channel, idle>> /\ permits' = permits + 1 /\ pc[t] = "running"
      BY DEF End, Lend, Wait
    <2> QED BY <2>1, NoSubmitterMoves
  <1>2. CASE End(t) \/ Lend(t)
    <2>1. PICK b \in {"loop", "look", "lent"} :
             Notify([pc EXCEPT ![t] = b]) /\ (b = "look" => t \notin Fixed)
      BY <1>2 DEF End, Lend
    <2>2. /\ Seeking' = Seeking + One(b, {"loop", "look"})
          /\ \/ Busy' = Busy + One(b, {"lent"})
             \/ Busy' = Busy + One(b, {"lent"}) + 1
          /\ FixedStay'
      BY <1>1, <2>1, NotifiedSeek DEF Known
    <2>3. Growing' = Growing
      <3>1. Growing' = Growing + One(b, {"growing"})
        BY <1>1, <2>1, Notified DEF Known
      <3> QED BY <2>1, <3>1 DEF One, Known, Numbers
    <2>4. UNCHANGED threads
      BY <1>2 DEF End, Lend
    <2>5. \E d, e \in 0 .. 2 : Seeking' = Seeking + d /\ Busy' = Busy + e /\ d + e >= 1
      BY <2>1, <2>2 DEF One, Known, SeekTyped
    <2>6. PICK d \in 0 .. 2, e \in 0 .. 2 : Seeking' = Seeking + d /\ Busy' = Busy + e /\ d + e >= 1
      BY <2>5
    <2>7. Served'
      BY <1>1, <2>3, <2>4, <2>6 DEF Known, Served, Jobs, SeekTyped, Numbers, TypeOK
    <2> QED BY <2>2, <2>7 DEF JobsInv
  <1>3. CASE Wait(t)
    <2> DEFINE grow == NeedsThread(queued, waiting + 1, permits + 1)
               b == IF grow THEN "growing" ELSE "waiting"
    <2>1. Notify([pc EXCEPT ![t] = b]) /\ Reserve(grow)
      BY <1>3 DEF Wait
    <2>2. Seeking' = Seeking /\ (Busy' = Busy \/ Busy' = Busy + 1) /\ FixedStay'
      <3>1. /\ b \in {"loop", "look", "waiting", "growing", "lent"} /\ b # "look"
            /\ One(b, {"loop", "look"}) = 0 /\ One(b, {"lent"}) = 0
        BY DEF One
      <3> HIDE DEF b
      <3>2. /\ Seeking' = Seeking + One(b, {"loop", "look"})
            /\ \/ Busy' = Busy + One(b, {"lent"})
               \/ Busy' = Busy + One(b, {"lent"}) + 1
            /\ FixedStay'
        BY <1>1, <2>1, <3>1, NotifiedSeek DEF Known
      <3> QED BY <3>1, <3>2 DEF Known, SeekTyped
    <2>3. Growing' = Growing + (IF grow THEN 1 ELSE 0)
      BY <1>1, <2>1, Notified DEF Known, One
    <2>4. CASE grow
      <3>1. Growing' = Growing + 1 /\ threads # MaxThreads
        <4>1. threads # MaxThreads
          BY <2>4 DEF NeedsThread, Known, TypeOK, Numbers
        <4> HIDE DEF grow
        <4> QED BY <2>3, <2>4, <4>1
      <3> HIDE DEF grow
      <3>2. CASE refused
        BY <1>1, <2>2, <3>2 DEF JobsInv, Served
      <3>3. CASE Jobs <= Seeking + Making + Growing
        <4>1. Jobs' <= Seeking' + Making' + Growing'
          BY <1>1, <2>2, <3>1, <3>3 DEF Jobs, Known, SeekTyped, Numbers, TypeOK
        <4> QED BY <2>2, <4>1 DEF JobsInv, Served
      <3>4. CASE permits <= Busy + Seeking + Making + Growing
        <4>1. permits' <= Busy' + Seeking' + Making' + Growing'
          <5>1. PICK e \in 0 .. 1 : Busy' = Busy + e
            BY <2>2 DEF Known, SeekTyped
          <5> QED BY <1>1, <2>2, <3>1, <3>4, <5>1 DEF Known, SeekTyped, Numbers, TypeOK
        <4> QED BY <2>2, <4>1 DEF JobsInv, Served
      <3> QED BY <3>1, <3>2, <3>3, <3>4 DEF Known, Served
    <2>5. CASE ~grow
      <3>1. Growing' = Growing /\ threads' = threads
        BY <2>1, <2>3, <2>5 DEF Reserve, Known, Numbers
      <3>2. \/ queued <= idle + starting \/ permits + 1 <= 0 \/ threads = MaxThreads
        BY <2>5 DEF NeedsThread, Known, TypeOK, Numbers
      <3>3. CASE queued <= idle + starting
        <4>1. Jobs <= Seeking + Making + Growing
          BY <3>3 DEF Known, NumInv, Counts, Jobs, SeekTyped, Numbers, TypeOK
        <4> QED BY <1>1, <2>2, <3>1, <4>1 DEF JobsInv, Served, Jobs
      <3>4. CASE permits + 1 <= 0
        <4>1. permits' \in Int /\ permits' <= 0
          BY <1>1, <3>4 DEF Known, TypeOK
        <4> QED BY <2>2, <4>1, NothingToServe DEF JobsInv
      <3>5. CASE threads = MaxThreads
        BY <2>2, <3>1, <3>5 DEF JobsInv, Served
      <3> QED BY <3>2, <3>3, <3>4, <3>5
    <2> QED BY <2>4, <2>5
  <1> QED BY <1>2, <1>3

(* The reserved thread starts, or is refused.                              *)
LEMMA WaitGrowsServes ==
  ASSUME IInv, JobsInv, NEW t \in Thread, WaitGrows(t)
  PROVE  JobsInv'
  <1> Known /\ Numbers' /\ SeekTyped'
    BY AreKnown, NextNumbers, NextSeekNumbers
  <1>1. /\ UNCHANGED <<sub, permits, channel>> /\ pc[t] = "growing"
        /\ UNCHANGED <<Sending, Making>>
    BY NoSubmitterMoves DEF WaitGrows
  <1>2. CASE pc' = [pc EXCEPT ![t] = "waiting"] /\ refused' = TRUE
    <2>1. Moves(t, "waiting")
      BY <1>2 DEF Moves, Known, TypeOK
    <2> QED BY <1>1, <1>2, <2>1 DEF Moves, JobsInv, Served, Known, FixedStay, Thread
  <1>3. ASSUME NEW x \in Extra, pc[x] = "absent",
               pc' = [pc EXCEPT ![x] = "starting", ![t] = "waiting"],
               UNCHANGED <<threads, starting, refused>>
        PROVE  JobsInv'
    <2>1. x \in Thread /\ t # x
      BY <1>1, <1>3 DEF Thread
    <2>2. MoveBoth(x, "starting", t, "waiting")
      BY <1>3, <2>1 DEF MoveBoth, Known, TypeOK
    <2>3. Growing' = Growing - 1
      BY <1>1, <1>3, <2>1, <2>2, TwoMove DEF One, Known, Numbers
    <2>4. Seeking' = Seeking + 1 /\ Busy' = Busy
      BY <1>1, <1>3, <2>1, <2>2, SeekBothMove DEF One, Known, SeekTyped
    <2>5. FixedStay'
      BY <2>2, PoolAssumption DEF MoveBoth, Known, FixedStay, Thread
    <2> QED BY <1>1, <1>3, <2>3, <2>4, <2>5
            DEF JobsInv, Known, Served, Jobs, SeekTyped, Numbers, TypeOK
  <1> QED BY <1>2, <1>3 DEF WaitGrows, Go

(* One job more finds a thread counted idle or starting for it, or the     *)
(* pool grows; if nobody waits, every free permit has a fixed thread that  *)
(* seeks (or sleeps, with a woken one for each).                           *)
LEMMA SubmittersServe ==
  ASSUME IInv, JobsInv, NEW r \in Submitter, Submit(r) \/ Send(r) \/ SubmitGrows(r)
  PROVE  JobsInv'
  <1> Known /\ Numbers' /\ SeekTyped'
    BY AreKnown, NextNumbers, NextSeekNumbers
  <1>1. CASE Submit(r)
    <2> DEFINE grow == NeedsThread(queued + 1, waiting, permits)
               b == IF grow THEN "send_grow" ELSE "send"
    <2>1. /\ sub[r] = "away" /\ Hands(r, b) /\ Reserve(grow)
          /\ UNCHANGED <<permits, idle, waiting, channel, pc, refused>>
      BY <1>1, PoolAssumption DEF Submit, Hands, Known, TypeOK
    <2>2. Sending' = Sending + 1 /\ Making' = Making + (IF grow THEN 1 ELSE 0)
      BY <2>1, SubmitterMoves DEF One, Known, Numbers
    <2>3. UNCHANGED <<Seeking, Busy, Growing>> /\ FixedStay'
      BY <2>1, NoThreadMoves, NoSeekMoves DEF FixedStay, Known
    <2>4. CASE grow
      <3>1. Making' = Making + 1 /\ threads # MaxThreads
        <4>1. threads # MaxThreads
          BY <2>4 DEF NeedsThread, Known, TypeOK, Numbers
        <4> HIDE DEF grow
        <4> QED BY <2>2, <2>4, <4>1
      <3> HIDE DEF grow
      <3>2. Jobs' = Jobs + 1
        BY <2>1, <2>2 DEF Jobs, Known, Numbers, TypeOK
      <3>3. CASE refused
        BY <2>1, <2>3, <3>3 DEF JobsInv, Served
      <3>4. CASE Jobs <= Seeking + Making + Growing
        <4>1. Jobs' <= Seeking' + Making' + Growing'
          BY <2>3, <3>1, <3>2, <3>4 DEF Jobs, Known, SeekTyped, Numbers, TypeOK
        <4> QED BY <2>3, <4>1 DEF JobsInv, Served
      <3>5. CASE permits <= Busy + Seeking + Making + Growing
        <4>1. permits' <= Busy' + Seeking' + Making' + Growing'
          BY <2>1, <2>3, <3>1, <3>5 DEF Known, SeekTyped, Numbers, TypeOK
        <4> QED BY <2>3, <4>1 DEF JobsInv, Served
      <3> QED BY <3>1, <3>3, <3>4, <3>5 DEF Known, Served
    <2>5. CASE ~grow
      <3>1. Making' = Making /\ threads' = threads
        BY <2>1, <2>2, <2>5 DEF Reserve, Known, Numbers
      <3>2. \/ queued + 1 <= idle + starting \/ permits <= 0 \/ waiting = 0 \/ threads = MaxThreads
        BY <2>5 DEF NeedsThread, Known, TypeOK, Numbers
      <3>3. CASE queued + 1 <= idle + starting
        <4>1. Jobs + 1 <= Seeking + Making + Growing
          BY <3>3 DEF Known, NumInv, Counts, Jobs, SeekTyped, Numbers, TypeOK
        <4>2. Jobs' = Jobs + 1
          BY <2>1, <2>2 DEF Jobs, Known, Numbers, TypeOK
        <4> QED BY <2>3, <3>1, <4>1, <4>2 DEF JobsInv, Served
      <3>4. CASE permits <= 0
        <4>1. permits' \in Int /\ permits' <= 0
          BY <2>1, <3>4 DEF Known, TypeOK
        <4> QED BY <2>3, <4>1, NothingToServe DEF JobsInv
      <3>5. CASE waiting = 0
        <4>1. Waiters = 0
          BY <3>5 DEF Known, NumInv, Counts
        <4>2. permits <= Busy + Seeking
          <5>1. CASE Asleep = 0
            BY <4>1, <5>1 DEF Known, SeekTyped, Numbers, TypeOK
          <5>2. CASE Asleep # 0
            <6>1. permits <= Awake
              BY <5>2 DEF Known, NumInv
            <6>2. Awake <= Busy
              <7>1. At({"woken"}) \in SUBSET At({"got", "claim", "woken", "lent"})
                BY DEF At
              <7>2. At({"got", "claim", "woken", "lent"}) \in SUBSET Thread
                BY DEF At
              <7> QED BY <7>1, <7>2, ThreadsFinite, FS_Subset DEF Awake, Busy
            <6> QED BY <6>1, <6>2 DEF Known, SeekTyped, Numbers, TypeOK
          <5> QED BY <5>1, <5>2
        <4>3. permits' <= Busy' + Seeking' + Making' + Growing'
          BY <2>1, <2>3, <3>1, <4>2 DEF Known, SeekTyped, Numbers, TypeOK
        <4> QED BY <2>3, <4>3 DEF JobsInv, Served
      <3>6. CASE threads = MaxThreads
        BY <2>3, <3>1, <3>6 DEF JobsInv, Served
      <3> QED BY <3>2, <3>3, <3>4, <3>5, <3>6
    <2> QED BY <2>4, <2>5
  <1>2. CASE Send(r)
    <2> DEFINE b == IF sub[r] = "send" THEN "away" ELSE "grow"
    <2>1. /\ sub[r] \in {"send", "send_grow"} /\ Hands(r, b) /\ channel' = channel + 1
          /\ UNCHANGED <<permits, threads, pc, refused>>
      BY <1>2 DEF Send, Hands, Known, TypeOK
    <2>2. Sending' = Sending - 1 /\ UNCHANGED Making
      BY <2>1, SubmitterMoves DEF One, Known, Numbers
    <2>3. UNCHANGED <<Seeking, Busy, Growing>> /\ FixedStay'
      BY <2>1, NoThreadMoves, NoSeekMoves DEF FixedStay, Known
    <2>4. Jobs' = Jobs
      BY <2>1, <2>2 DEF Jobs, Known, Numbers, TypeOK
    <2> QED BY <2>1, <2>2, <2>3, <2>4 DEF JobsInv, Known, Served
  <1>3. CASE SubmitGrows(r)
    <2>1. /\ sub[r] = "grow" /\ Hands(r, "away") /\ SpawnExtra /\ UNCHANGED <<permits, channel>>
      BY <1>3 DEF SubmitGrows, Hands, Known, TypeOK
    <2>2. UNCHANGED Sending /\ Making' = Making - 1
      BY <2>1, SubmitterMoves DEF One, Known, Numbers
    <2>3. CASE refused' = TRUE /\ UNCHANGED pc
      BY <2>3 DEF JobsInv, Served, Known, FixedStay
    <2>4. ASSUME NEW x \in Extra, pc[x] = "absent", Go(x, "starting"),
                 UNCHANGED <<threads, starting, refused>>
          PROVE  JobsInv'
      <3>1. x \in Thread /\ Moves(x, "starting")
        BY <2>4 DEF Go, Moves, Thread, Known, TypeOK
      <3>2. UNCHANGED Growing
        BY <2>4, <3>1, OneMoves DEF One, Known, Numbers
      <3>3. Seeking' = Seeking + 1 /\ Busy' = Busy
        BY <2>4, <3>1, SeekMoves DEF One, Known, SeekTyped
      <3>4. FixedStay'
        BY <3>1, PoolAssumption DEF Moves, Known, FixedStay, Thread
      <3> QED BY <2>1, <2>2, <2>4, <3>2, <3>3, <3>4
              DEF JobsInv, Known, Served, Jobs, SeekTyped, Numbers, TypeOK
    <2> QED BY <2>1, <2>3, <2>4 DEF SpawnExtra
  <1> QED BY <1>1, <1>2, <1>3

(* Every step of the pool preserves JobsInv.                               *)
LEMMA StepJobs == IInv /\ JobsInv /\ [Next]_vars => JobsInv'
  <1> SUFFICES ASSUME IInv, JobsInv, [Next]_vars PROVE JobsInv'
    OBVIOUS
  <1>1. CASE UNCHANGED vars
    <2>1. UNCHANGED <<pc, sub, channel, threads, refused, permits>>
      BY <1>1 DEF vars
    <2> QED BY <2>1, NoThreadMoves, NoSeekMoves, NoSubmitterMoves
            DEF JobsInv, FixedStay, Served, Jobs
  <1>2. ASSUME NEW r \in Submitter, Submit(r) \/ Send(r) \/ SubmitGrows(r) PROVE JobsInv'
    BY <1>2, SubmittersServe
  <1>3. ASSUME NEW t \in Thread,
               PoolStep(t) \/ WakesAlone(t) \/ End(t) \/ Wait(t) \/ Lend(t)
        PROVE  JobsInv'
    BY <1>3, ThreadsServe, PermitsServe, ExtrasServe, GivingServes, WaitGrowsServes DEF PoolStep
  <1> QED BY <1>1, <1>2, <1>3 DEF Next

(* No job is left without a thread while a permit is free because others   *)
(* wait: needs_thread, evaluated when a job is counted and when a wait     *)
(* begins, is enough, whatever happens between two evaluations.            *)
THEOREM JobsServed == Spec => []JobsGetThreads
  <1>1. Init => JobsInv
    BY InitJobs
  <1>2. IInv /\ JobsInv /\ [Next]_vars => JobsInv'
    BY StepJobs
  <1>3. IInv /\ JobsInv => JobsGetThreads
    <2> SUFFICES ASSUME IInv, JobsInv PROVE JobsGetThreads
      OBVIOUS
    <2>1. Known
      BY AreKnown
    <2>2. Seekers = Seeking + (Making + Growing)
      BY DEF Seekers, Seeking, Reserved, Making, Growing
    <2>3. CASE Seekers > 0
      BY <2>3 DEF JobsGetThreads
    <2>4. CASE ~(Seekers > 0)
      <3>1. Seeking + Making + Growing = 0
        BY <2>1, <2>2, <2>4 DEF Known, SeekTyped, Numbers
      <3>2. threads = MaxThreads \/ refused \/ Jobs = 0 \/ permits <= Busy
        BY <2>1, <3>1 DEF Known, Served, Jobs, SeekTyped, Numbers, TypeOK
      <3> QED BY <3>2 DEF JobsGetThreads, Jobs, Sending, Busy
    <2> QED BY <2>3, <2>4
  <1> QED BY <1>1, <1>2, <1>3, Invariance, PTL DEF Spec
================================================================================
