------------------------------- MODULE ServePool -------------------------------
(***************************************************************************)
(* The interpreter pool of serve (synsema-stdlib/src/server.rs): fixed     *)
(* threads that block on the channel of jobs, a permit of CPU per running  *)
(* job, and extra threads made only while others wait for I/O.  A thread   *)
(* that begins to wait gives its permit up (synsema-core/src/waiting.rs)   *)
(* and takes it back on credit, so permits may be negative.                *)
(*                                                                         *)
(* Every section of PoolShared.state's lock is one action.  What a job     *)
(* does is its own choice: it may wait, lend its permit, and end (a panic  *)
(* ends it too).  Jobs are alike, so the channel is their number.  The     *)
(* pool belongs to the process: the channel is never closed, and the fixed *)
(* threads were all created.                                               *)
(***************************************************************************)
EXTENDS Integers, FiniteSets

CONSTANTS Fixed, Extra,     \* threads; Extra has max_waiting of them
          Submitter,        \* threads that hand jobs to the pool
          MaxQueued         \* bound: jobs counted and not yet taken

ASSUME PoolAssumption ==
    /\ IsFiniteSet(Fixed) /\ Fixed # {} /\ IsFiniteSet(Extra) /\ IsFiniteSet(Submitter)
    /\ Fixed \cap Extra = {} /\ MaxQueued \in Nat

Thread == Fixed \cup Extra
MaxThreads == Cardinality(Fixed) + Cardinality(Extra)       \* max_threads

ThreadState == {"loop", "idle", "recv", "got", "absent", "starting", "look", "check",
                "claim", "asleep", "woken", "running", "growing", "waiting", "lent"}
SubmitterState == {"away", "send", "send_grow", "grow"}

VARIABLES permits, threads, idle, starting, waiting, queued,    \* PoolState
          channel,      \* jobs sent and not received
          pc,           \* where each thread is
          sub,          \* where each submitter is
          refused       \* the system has refused an extra thread

vars == <<permits, threads, idle, starting, waiting, queued, channel, pc, sub, refused>>

At(states) == {t \in Thread : pc[t] \in states}
Sub(states) == {s \in Submitter : sub[s] \in states}

Go(t, state) == pc' = [pc EXCEPT ![t] = state]

Init ==
    /\ permits = Cardinality(Fixed) /\ threads = Cardinality(Fixed)
    /\ idle = 0 /\ starting = 0 /\ waiting = 0 /\ queued = 0 /\ channel = 0
    /\ pc = [t \in Thread |-> IF t \in Fixed THEN "loop" ELSE "absent"]
    /\ sub = [s \in Submitter |-> "away"]
    /\ refused = FALSE

(* needs_thread, with the counters as the caller has just changed them.    *)
NeedsThread(q, w, p) == q > idle + starting /\ w > 0 /\ p > 0 /\ threads < MaxThreads

(* reserve_extra: decides and counts the thread in the same section.       *)
(* Mutant: nothing is counted as starting.                                 *)
ReserveUncounted(needed) ==
    /\ threads' = IF needed THEN threads + 1 ELSE threads
    /\ UNCHANGED starting

Reserve(needed) ==
    /\ threads' = IF needed THEN threads + 1 ELSE threads
    /\ starting' = IF needed THEN starting + 1 ELSE starting

(* cv.notify_one: one of the sleeping threads, if there is any.            *)
Notify(f) ==
    IF At({"asleep"}) = {} THEN pc' = f
    ELSE \E w \in At({"asleep"}) : pc' = [f EXCEPT ![w] = "woken"]

(* spawn_worker(extra): the thread starts, or the system refuses it and    *)
(* both counts go back.                                                    *)
SpawnExtra ==
    \/ \E x \in Extra :
          /\ pc[x] = "absent"
          /\ Go(x, "starting")
          /\ UNCHANGED <<threads, starting, refused>>
    \/ /\ threads' = threads - 1 /\ starting' = starting - 1
       /\ refused' = TRUE
       /\ UNCHANGED pc

(* submit counts the job before it sends it, and spawns last.              *)
Submit(s) ==
    LET grow == NeedsThread(queued + 1, waiting, permits) IN
    /\ sub[s] = "away" /\ queued < MaxQueued
    /\ queued' = queued + 1
    /\ Reserve(grow)
    /\ sub' = [sub EXCEPT ![s] = IF grow THEN "send_grow" ELSE "send"]
    /\ UNCHANGED <<permits, idle, waiting, channel, pc, refused>>

Send(s) ==
    /\ sub[s] \in {"send", "send_grow"}
    /\ channel' = channel + 1
    /\ sub' = [sub EXCEPT ![s] = IF @ = "send" THEN "away" ELSE "grow"]
    /\ UNCHANGED <<permits, threads, idle, starting, waiting, queued, pc, refused>>

SubmitGrows(s) ==
    /\ sub[s] = "grow"
    /\ SpawnExtra
    /\ sub' = [sub EXCEPT ![s] = "away"]
    /\ UNCHANGED <<permits, idle, waiting, queued, channel>>

(* A fixed thread counts itself idle, takes the lock of rx, receives under *)
(* it, and only then is not idle any more.                                 *)
Idle(t) ==
    /\ pc[t] = "loop"
    /\ idle' = idle + 1
    /\ Go(t, "idle")
    /\ UNCHANGED <<permits, threads, starting, waiting, queued, channel, sub, refused>>

LockRx(t) ==
    /\ pc[t] = "idle" /\ At({"recv"}) = {}
    /\ Go(t, "recv")
    /\ UNCHANGED <<permits, threads, idle, starting, waiting, queued, channel, sub, refused>>

Recv(t) ==
    /\ pc[t] = "recv" /\ channel > 0
    /\ channel' = channel - 1
    /\ Go(t, "got")
    /\ UNCHANGED <<permits, threads, idle, starting, waiting, queued, sub, refused>>

NotIdle(t) ==
    /\ pc[t] = "got"
    /\ idle' = idle - 1
    /\ Go(t, "claim")
    /\ UNCHANGED <<permits, threads, starting, waiting, queued, channel, sub, refused>>

(* extra_take: stops counting as starting, then looks at the channel       *)
(* without ever blocking on it, and retires only if no job is counted.     *)
Started(t) ==
    /\ pc[t] = "starting"
    /\ starting' = starting - 1
    /\ Go(t, "look")
    /\ UNCHANGED <<permits, threads, idle, waiting, queued, channel, sub, refused>>

Look(t) ==
    /\ pc[t] = "look"
    /\ IF At({"recv"}) = {} /\ channel > 0
       THEN channel' = channel - 1 /\ Go(t, "claim")
       ELSE Go(t, "check") /\ UNCHANGED channel
    /\ UNCHANGED <<permits, threads, idle, starting, waiting, queued, sub, refused>>

(* Mutant: it stays for the next job, as a fixed thread does.              *)
RetireNever(t) ==
    /\ pc[t] = "check"
    /\ Go(t, "look")
    /\ UNCHANGED threads
    /\ UNCHANGED <<permits, idle, starting, waiting, queued, channel, sub, refused>>

Retire(t) ==
    /\ pc[t] = "check"
    /\ IF queued = 0
       THEN threads' = threads - 1 /\ Go(t, "absent")
       ELSE Go(t, "look") /\ UNCHANGED threads
    /\ UNCHANGED <<permits, idle, starting, waiting, queued, channel, sub, refused>>

(* A thread with a job takes a permit or sleeps until there is one.        *)
TakePermit(t) ==
    /\ IF permits > 0
       THEN permits' = permits - 1 /\ Go(t, "running")
       ELSE Go(t, "asleep") /\ UNCHANGED permits
    /\ UNCHANGED <<threads, idle, starting, waiting, channel, sub, refused>>

Claim(t) ==
    /\ pc[t] = "claim"
    /\ queued' = queued - 1
    /\ TakePermit(t)

Woken(t) ==
    /\ pc[t] = "woken"
    /\ TakePermit(t)
    /\ UNCHANGED queued

(* Condvar::wait may also return with nobody having notified.              *)
WakesAlone(t) ==
    /\ pc[t] = "asleep"
    /\ Go(t, "woken")
    /\ UNCHANGED <<permits, threads, idle, starting, waiting, queued, channel, sub, refused>>

(* The job ended, or panicked, and the thread goes for the next one.       *)
(* Mutant: nobody is told of the permit.                                   *)
EndUnnotified(t) ==
    /\ pc[t] = "running"
    /\ permits' = permits + 1
    /\ Go(t, IF t \in Fixed THEN "loop" ELSE "look")
    /\ UNCHANGED <<threads, idle, starting, waiting, queued, channel, sub, refused>>

End(t) ==
    /\ pc[t] = "running"
    /\ permits' = permits + 1
    /\ Notify([pc EXCEPT ![t] = IF t \in Fixed THEN "loop" ELSE "look"])
    /\ UNCHANGED <<threads, idle, starting, waiting, queued, channel, sub, refused>>

(* on_wait(true): an outermost waiting() section, or the end of a          *)
(* resumed() callback inside one.                                          *)
(* Mutant: a wait never makes the pool grow.                               *)
WaitUngrown(t) ==
    /\ pc[t] = "running"
    /\ waiting' = waiting + 1 /\ permits' = permits + 1
    /\ Notify([pc EXCEPT ![t] = "waiting"])
    /\ UNCHANGED <<threads, idle, starting, queued, channel, sub, refused>>

Wait(t) ==
    LET grow == NeedsThread(queued, waiting + 1, permits + 1) IN
    /\ pc[t] = "running"
    /\ waiting' = waiting + 1 /\ permits' = permits + 1
    /\ Reserve(grow)
    /\ Notify([pc EXCEPT ![t] = IF grow THEN "growing" ELSE "waiting"])
    /\ UNCHANGED <<idle, queued, channel, sub, refused>>

WaitGrows(t) ==
    /\ pc[t] = "growing"
    /\ \/ \E x \in Extra :
             /\ pc[x] = "absent"
             /\ pc' = [pc EXCEPT ![x] = "starting", ![t] = "waiting"]
             /\ UNCHANGED <<threads, starting, refused>>
       \/ /\ threads' = threads - 1 /\ starting' = starting - 1
          /\ refused' = TRUE
          /\ Go(t, "waiting")
    /\ UNCHANGED <<permits, idle, waiting, queued, channel, sub>>

(* on_wait(false): back on credit, without blocking; nobody is notified.   *)
Return(t) ==
    /\ pc[t] = "waiting"
    /\ waiting' = waiting - 1 /\ permits' = permits - 1
    /\ Go(t, "running")
    /\ UNCHANGED <<threads, idle, starting, queued, channel, sub, refused>>

(* A job of on_every_worker lends its permit while it waits for the other  *)
(* sweeps (for as long as the window, so it may always stop), which does   *)
(* not count as waiting.                                                   *)
Lend(t) ==
    /\ pc[t] = "running"
    /\ permits' = permits + 1
    /\ Notify([pc EXCEPT ![t] = "lent"])
    /\ UNCHANGED <<threads, idle, starting, waiting, queued, channel, sub, refused>>

TakeBack(t) ==
    /\ pc[t] = "lent"
    /\ permits' = permits - 1
    /\ Go(t, "running")
    /\ UNCHANGED <<threads, idle, starting, waiting, queued, channel, sub, refused>>

PoolStep(t) ==
    \/ Idle(t) \/ LockRx(t) \/ Recv(t) \/ NotIdle(t)
    \/ Started(t) \/ Look(t) \/ Retire(t)
    \/ Claim(t) \/ Woken(t)
    \/ WaitGrows(t) \/ Return(t) \/ TakeBack(t)

Next ==
    \/ \E s \in Submitter : Submit(s) \/ Send(s) \/ SubmitGrows(s)
    \/ \E t \in Thread : PoolStep(t) \/ WakesAlone(t) \/ End(t) \/ Wait(t) \/ Lend(t)

(* Threads run, waits end (every one has a time limit), and a job ends     *)
(* however often it waits.                                                 *)
Fairness ==
    /\ \A s \in Submitter : WF_vars(Send(s)) /\ WF_vars(SubmitGrows(s))
    /\ \A t \in Thread : WF_vars(PoolStep(t)) /\ SF_vars(End(t))

Spec == Init /\ [][Next]_vars /\ Fairness
--------------------------------------------------------------------------------
(* Types; and the threads never pass the limit, because the decision to    *)
(* make one and its count are one section of the lock.                     *)
TypeOK ==
    /\ permits \in Int /\ threads \in 0 .. MaxThreads /\ idle \in Nat /\ starting \in Nat
    /\ waiting \in Nat /\ queued \in 0 .. MaxQueued /\ channel \in Nat
    /\ pc \in [Thread -> ThreadState] /\ sub \in [Submitter -> SubmitterState]
    /\ refused \in BOOLEAN

Reserved == Cardinality(Sub({"send_grow", "grow"})) + Cardinality(At({"growing"}))

(* Every counter of PoolState is what it says it counts, through waits,    *)
(* lent permits, panics and refused threads: a permit is free, or in a     *)
(* running job, or missing because a thread came back on credit.           *)
CountersExact ==
    /\ permits = Cardinality(Fixed) - Cardinality(At({"running"}))
    /\ threads = MaxThreads - Cardinality(At({"absent"})) + Reserved
    /\ idle = Cardinality(At({"idle", "recv", "got"}))
    /\ starting = Cardinality(At({"starting"})) + Reserved
    /\ waiting = Cardinality(At({"growing", "waiting"}))
    /\ queued = Cardinality(Sub({"send", "send_grow"})) + channel
                    + Cardinality(At({"got", "claim"}))

(* No wake-up is lost: while a thread sleeps with a job in its hands,      *)
(* every free permit has a woken thread on its way to it.                  *)
NoLostWakeup == At({"asleep"}) # {} => permits <= Cardinality(At({"woken"}))

(* Threads that will look at the channel without waiting for anything.     *)
Seekers == Cardinality(At({"loop", "idle", "recv", "starting", "look", "check"})) + Reserved

(* No job is left without a thread: while a thread waits for I/O and its   *)
(* permit is free (nobody who holds a job is about to take it), a job that *)
(* nobody took has a thread on its way, unless the pool is at its limit or *)
(* a thread was refused.  Lent permits do not count: they are not meant to *)
(* make the pool grow.                                                     *)
JobsGetThreads ==
    \/ channel + Cardinality(Sub({"send", "send_grow"})) = 0
    \/ At({"growing", "waiting"}) = {}
    \/ permits <= Cardinality(At({"got", "claim", "woken", "lent"}))
    \/ threads = MaxThreads
    \/ refused
    \/ Seekers > 0

(* When requests stop coming, every job accepted is run, every permit is   *)
(* back and every extra thread has ended.                                  *)
AtRest ==
    /\ queued = 0 /\ permits = Cardinality(Fixed) /\ threads = Cardinality(Fixed)
    /\ \A f \in Fixed : pc[f] \in {"idle", "recv"}
Settles == <>[][\A s \in Submitter : ~Submit(s)]_vars => <>[]AtRest
================================================================================
