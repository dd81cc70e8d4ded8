--------------------------------- MODULE Cron ---------------------------------
(***************************************************************************)
(* The scheduler of synsema-stdlib/src/cron.rs: named jobs, each with its  *)
(* own detached thread, that any interpreter of the process may register,  *)
(* replace and cancel, and that may be registered before the scheduler     *)
(* starts.  Time is left out: a wait may end at any moment.                *)
(***************************************************************************)
EXTENDS Naturals, FiniteSets

CONSTANTS Job,          \* registrations, each made once
          Name,
          NoJob,
          MaxRegistrars,\* bound: threads inside schedule() at once
          MaxTicks      \* bound: ticks of one job

ASSUME CronAssumption ==
    /\ NoJob \notin Job
    /\ MaxRegistrars \in Nat \ {0}
    /\ MaxTicks \in Nat \ {0}

VARIABLES jobs,         \* jobs[n]: the job the table holds for n
          started,      \* CronScheduler.started
          phase,        \* phase[j]: where job j is
          name, repeats,        \* how j was registered
          cancelled,    \* cancelled[j]: its flag
          threads,      \* threads[j]: threads ever created for j
          runCount, errors,     \* its counters
          (* What really happened, for the properties:                     *)
          during        \* during[j]: who was inside schedule() with j's name when j was inserted

cronVars == <<jobs, started, phase, name, repeats, cancelled, threads, runCount, errors, during>>

(* `registering`: schedule() has cancelled the old job and not yet taken   *)
(* the lock again.  `waiting` and `running`: the job's thread lives.       *)
Phase == {"none", "registering", "pending", "waiting", "running", "over"}

Registering == {j \in Job : phase[j] = "registering"}
Alive(j) == phase[j] \in {"waiting", "running"}

CronInit ==
    /\ jobs = [n \in Name |-> NoJob]
    /\ started \in BOOLEAN      \* CronScheduler::new or deferred
    /\ phase = [j \in Job |-> "none"]
    /\ name \in [Job -> Name]
    /\ repeats \in [Job -> BOOLEAN]
    /\ cancelled = [j \in Job |-> FALSE]
    /\ threads = [j \in Job |-> 0]
    /\ runCount = [j \in Job |-> 0]
    /\ errors = [j \in Job |-> 0]
    /\ during = [j \in Job |-> {}]

(* A handle that leaves the table takes its pending task with it.          *)
Dropped(ph, J) == [j \in Job |-> IF j \in J /\ ph[j] = "pending" THEN "over" ELSE ph[j]]

(* cancel(name), under the lock.                                           *)
CancelName(n) ==
    /\ jobs' = [jobs EXCEPT ![n] = NoJob]
    /\ cancelled' = [j \in Job |-> cancelled[j] \/ j = jobs[n]]

(* schedule(), first half.                                                 *)
(* Mutant: the old job is forgotten but not cancelled.                      *)
RegisterUncancelled(j) ==
    /\ phase[j] = "none"
    /\ Cardinality(Registering) < MaxRegistrars
    /\ jobs' = [jobs EXCEPT ![name[j]] = NoJob]
    /\ phase' = [Dropped(phase, {jobs[name[j]]}) EXCEPT ![j] = "registering"]
    /\ UNCHANGED <<started, name, repeats, cancelled, threads, runCount, errors, during>>

Register(j) ==
    /\ phase[j] = "none"
    /\ Cardinality(Registering) < MaxRegistrars
    /\ CancelName(name[j])
    /\ phase' = [Dropped(phase, {jobs[name[j]]}) EXCEPT ![j] = "registering"]
    /\ UNCHANGED <<started, name, repeats, threads, runCount, errors, during>>

(* History: the other registrations of j's name that are inside schedule().*)
Rivals(j) == {k \in Registering \ {j} : name[k] = name[j]}

(* schedule(), second half: spawn or leave pending, decided under the same *)
(* lock as start(), and insert over whatever is there.                     *)
(* Mutant: a job registered while the scheduler starts stays pending.       *)
InsertPending(j) ==
    /\ phase[j] = "registering"
    /\ phase' = [Dropped(phase, {jobs[name[j]]}) EXCEPT ![j] = "pending"]
    /\ jobs' = [jobs EXCEPT ![name[j]] = j]
    /\ during' = [during EXCEPT ![j] = Rivals(j)]
    /\ UNCHANGED <<started, name, repeats, cancelled, threads, runCount, errors>>

Insert(j) ==
    /\ phase[j] = "registering"
    /\ phase' = [Dropped(phase, {jobs[name[j]]})
                    EXCEPT ![j] = IF started THEN "waiting" ELSE "pending"]
    /\ threads' = [threads EXCEPT ![j] = IF started THEN @ + 1 ELSE @]
    /\ jobs' = [jobs EXCEPT ![name[j]] = j]
    /\ during' = [during EXCEPT ![j] = Rivals(j)]
    /\ UNCHANGED <<started, name, repeats, cancelled, runCount, errors>>

(* start(): idempotent.                                                    *)
Start ==
    LET taken == {j \in Job : jobs[name[j]] = j /\ phase[j] = "pending"} IN
    /\ started' = TRUE
    /\ phase' = [j \in Job |-> IF j \in taken THEN "waiting" ELSE phase[j]]
    /\ threads' = [j \in Job |-> IF j \in taken THEN threads[j] + 1 ELSE threads[j]]
    /\ UNCHANGED <<jobs, name, repeats, cancelled, runCount, errors, during>>

Cancel(n) ==
    /\ jobs[n] # NoJob
    /\ CancelName(n)
    /\ phase' = Dropped(phase, {jobs[n]})
    /\ UNCHANGED <<started, name, repeats, threads, runCount, errors, during>>

(* cancel_all(), also when the scheduler is dropped.                       *)
CancelAll ==
    LET held == {jobs[n] : n \in Name} IN
    /\ jobs' = [n \in Name |-> NoJob]
    /\ cancelled' = [j \in Job |-> cancelled[j] \/ j \in held]
    /\ phase' = Dropped(phase, held)
    /\ UNCHANGED <<started, name, repeats, threads, runCount, errors, during>>

(* The job's thread: the wait ends, the flag is looked at, the task runs,  *)
(* its end is counted, and a repeating job waits again.                    *)
(* Mutant: a repeating job is not stopped by its flag.                      *)
QuitOneShot(j) ==
    /\ phase[j] = "waiting" /\ cancelled[j] /\ ~repeats[j]
    /\ phase' = [phase EXCEPT ![j] = "over"]
    /\ UNCHANGED <<jobs, started, name, repeats, cancelled, threads, runCount, errors, during>>

Quit(j) ==
    /\ phase[j] = "waiting" /\ cancelled[j]
    /\ phase' = [phase EXCEPT ![j] = "over"]
    /\ UNCHANGED <<jobs, started, name, repeats, cancelled, threads, runCount, errors, during>>

Fire(j) ==
    /\ phase[j] = "waiting" /\ ~cancelled[j]
    /\ runCount[j] + errors[j] < MaxTicks
    /\ phase' = [phase EXCEPT ![j] = "running"]
    /\ UNCHANGED <<jobs, started, name, repeats, cancelled, threads, runCount, errors, during>>

(* Mutant: a job goes over after its first error.                           *)
TaskEndsOnError(j, ok) ==
    /\ phase[j] = "running"
    /\ phase' = [phase EXCEPT ![j] = IF repeats[j] /\ ok THEN "waiting" ELSE "over"]
    /\ runCount' = [runCount EXCEPT ![j] = IF ok THEN @ + 1 ELSE @]
    /\ errors' = [errors EXCEPT ![j] = IF ok THEN @ ELSE @ + 1]
    /\ UNCHANGED <<jobs, started, name, repeats, cancelled, threads, during>>

TaskEnds(j, ok) ==
    /\ phase[j] = "running"
    /\ phase' = [phase EXCEPT ![j] = IF repeats[j] THEN "waiting" ELSE "over"]
    /\ runCount' = [runCount EXCEPT ![j] = IF ok THEN @ + 1 ELSE @]
    /\ errors' = [errors EXCEPT ![j] = IF ok THEN @ ELSE @ + 1]
    /\ UNCHANGED <<jobs, started, name, repeats, cancelled, threads, during>>

Thread(j) == Quit(j) \/ Fire(j) \/ \E ok \in BOOLEAN : TaskEnds(j, ok)

CronNext ==
    \/ \E j \in Job : Register(j) \/ Insert(j) \/ Thread(j)
    \/ \E n \in Name : Cancel(n)
    \/ Start \/ CancelAll

CronSpec == CronInit /\ [][CronNext]_cronVars

(* Threads are scheduled, waits end (park_timeout), and tasks return.      *)
FairSpec == CronSpec /\ \A j \in Job : WF_cronVars(Insert(j) \/ Thread(j))

-----------------------------------------------------------------------------
(* The table, the flags and the counters have their types.                 *)
CronTypeOK ==
    /\ jobs \in [Name -> Job \cup {NoJob}]
    /\ phase \in [Job -> Phase]
    /\ cancelled \in [Job -> BOOLEAN]
    /\ \A j \in Job : runCount[j] + errors[j] <= MaxTicks

(* Its thread may still fire, and the table no longer holds it: nobody can *)
(* replace it, cancel it or stop it at the end.                            *)
Orphan(j) == Alive(j) /\ ~cancelled[j] /\ jobs[name[j]] # j

(* A job is orphaned only by a registration of its name that had already   *)
(* cancelled, and not yet inserted, when the job went into the table: any  *)
(* number of threads may be inside schedule(), start(), cancel() and       *)
(* cancel_all() at once, and nothing else ever loses a job that can fire.  *)
OrphansOverlapped ==
    \A j \in Job : Orphan(j) =>
        \E k \in during[j] : phase[k] \notin {"none", "registering"}

(* What the header says of a name that is registered again.  It does not   *)
(* hold: two threads inside schedule() for one name both cancel first.     *)
NoOrphanJob == \A j \in Job : ~Orphan(j)

(* Registration racing with start() neither loses a job nor starts it      *)
(* twice: once started, no job of the table is left pending, and a job has *)
(* one thread for its whole life.                                          *)
StartedOnce ==
    /\ started => \A n \in Name : jobs[n] # NoJob => phase[jobs[n]] # "pending"
    /\ \A j \in Job : threads[j] <= 1

(* A repeating job keeps firing whatever its task returns, until cancelled *)
(* (or until the bound on ticks).                                          *)
KeepsFiring ==
    \A j \in Job : phase[j] = "waiting" /\ repeats[j]
                       ~> cancelled[j] \/ runCount[j] + errors[j] = MaxTicks

(* A cancelled job's thread ends, after the task it may be running.        *)
CancelledEnds ==
    \A j \in Job : cancelled[j] ~> ~Alive(j)
===============================================================================
