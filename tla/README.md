# Synsema: a TLA+ verification of the parts where threads meet

Synsema (`src/engine`) is a language runtime in Rust: a lexer, parser, tree interpreter and VM, a
native tier, and around them a runtime that serves HTTP requests, launches agents on threads, keeps
shared state, schedules jobs and publishes events. Each interpreter is sequential. What a unit test
hardly reaches is in the runtime, where handlers, agents, jobs and publishers meet on shared
structures. This directory models that part, checks it with TLC on small instances, and proves some
of it with TLAPS for every instance.

Paths below are relative to `src/engine/crates/`.

## 1. Inventory

| component | state | operations | who calls it |
|---|---|---|---|
| Blackboard and run journal, `synsema-agents/src/blackboard.rs` | `data`, `chains` of versions, `runs` (RunState) behind one mutex | write, delete, close_run, agent_started, agent_done | interpreter statements; `serve.rs` and `engine.rs` at the start and end of a run and of an agent |
| Swarm, `synsema-agents/src/swarm.rs`, `synsema-runtime/src/engine.rs` | agent table, cancellation tokens, queued signals, thread handles, `run_cut` | register, set_state, signal, wait_for, stop_agent, add_thread, join_round | spawn, signal, wait_for and agent_stop statements; `join_agents` at the end of a program |
| Runs of serve, `synsema-runtime/src/serve.rs` | RunCut of a run, thread scope, AgentLive, scope of each agent and signal | with_serve_interp, spawn_agent, RunCut::set, drop_signals_of | one worker thread per request, one thread per agent |
| Shared state of serve, same file | SharedState (a map behind one mutex), a thread-local journal | state_set, state_merge, state_cas, state_delete, state_incr, finish_state_journal | handlers, agents, the top level |
| Cron, `synsema-stdlib/src/cron.rs` | job table, `started`, a flag and two counters per job | schedule, start, cancel, cancel_all, one thread per job | any interpreter of the process |
| Bus, `synsema-agents/src/bus.rs`, hub in `synsema-stdlib/src/ws.rs` | subscriber list; a queue, byte count, error and drop counters per subscriber | subscribe, publish, push, try_recv, unsubscribe | any interpreter of the process |
| parallel_map, `synsema-runtime/src/parallel.rs`, `synsema-core/src/frozen.rs` | item counter, `aborted`, slots, the least error | create workers, take, run, join, thaw | one interpreter, its scoped threads |
| Worker pool of serve, `synsema-stdlib/src/server.rs`, `synsema-core/src/waiting.rs` | PoolState (permits, threads, idle, starting, waiting, queued), a channel, a condition variable | submit, take a job, wait and return, lend a permit, retire | handlers, `on_every_worker`, every builtin that blocks |
| Approvals with a continuation, `synsema-llm/src/human.rs`, `synsema-runtime/src/serve.rs` | a file of pending rows, a continuation per process, the threads of the tasks | defer, answer, expire, run the task, give back, clear the continuation | `approve ... then` gates, requests of `/approvals`, a watcher thread, the shutdown |
| Memory, `synsema-agents/src/memory.rs`, `synsema-runtime/src/persistence.rs`, `run_program.rs` | entries and an id counter in each process, the version of each row it has seen, a base on disk | remember, forget, save by row, load, reload | builtins; the start of a program; the return of a child |
| HTTP server, spend ceilings, rules and progress, watches | connections; counters; files | accept, reserve, save | not modelled: see section 9 |
| Language core, native tier, JIT, heap, labels, capabilities, providers, inference, hosts | per interpreter, or none | sequential functions, I/O | not modelled: see section 9 |

How they interact: a serve entry arms the state journal and opens a run; the agents it launches write
the blackboard and signal under the run's scope; whichever thread of the run is cut by the flow check
marks the run, and whichever is last undoes or confirms it. The blackboard is told in one lock
section; the swarm's queue is cleaned in another. Outside serve a program has one implicit run, joined
as a whole at its end. Handlers run on the worker pool, which grows while some of them wait. Two serve
processes may share the file of pending approvals, and a program and its children (or two programs)
the base of a memory: there the actors are processes, which crash and restart.

What is hard, and what must hold:

- **Interleaving.** Versions of several runs lie in one chain; one is undone while others lie above
  and below. An undone run must be as if it had never written.
- **Atomicity.** The flow check of a write and the write are two steps, so a thread may write after
  its run was undone. That entry must go too.
- **Ordering.** Owner and agents of a run end in any order, and agents launch agents. A run is
  confirmed or undone once, by its last part, and rightly.
- **Partial failure.** A thread cannot be created, or panics: nothing may be left counted, frozen or
  waiting.
- **Liveness.** exit() ends a program whatever its agents do; a cancelled agent or job ends.
- **Resource bounds.** Chains stay compact, queues within their limits, and no event is lost unseen.
  Permits taken back on credit are neither made nor lost, and no job sleeps beside a free permit.
- **Crashes and restarts, stale copies.** A row of the approvals file is settled once whoever shares
  the file and whoever dies; a process that saves from an old copy neither overwrites nor revives.

The file `PROJECT.json` lists each hazard with its line and the properties aimed at it.

## 2. Modules

| module | models | lines it stands for |
|---|---|---|
| `RunJournal` | what the journal promises: what each key holds in every world in which some of the open runs never wrote | abstract |
| `Blackboard` | chains, RunState, every method that changes them; `Journal` is the refinement mapping | blackboard.rs |
| `BlackboardProofs` | inductive invariant, refinement | |
| `Swarm`, `SwarmProofs` | agents of a program under `run` and `test`, and the end of the program | swarm.rs, engine.rs |
| `ServeRuns`, `ServeRunsProofs` | runs of serve: the threads that drive `Blackboard`, which it extends | serve.rs, engine.rs, swarm.rs |
| `StateJournal` | shared state of serve and its undo | serve.rs |
| `Cron` | the scheduler | cron.rs |
| `Bus` | the bus and the reading half of the hub | bus.rs, ws.rs |
| `SmallComponentsProofs` | proofs about `Cron`, `StateJournal` and `Bus`, which share nothing (hence `CronSpec`, `StateSpec`, `BusSpec`) | |
| `ParallelMap`, `ParallelMapProofs` | the pool of parallel_map | parallel.rs, frozen.rs |
| `ServePool`, `ServePoolProofs` | the interpreter pool of serve | server.rs, waiting.rs |
| `Approvals`, `ApprovalsProofs` | approvals that do not wait, over a file two processes may share | human.rs, serve.rs |
| `Memory`, `MemoryProofs` | the entries of a declared memory and its base, shared with children and other programs | memory.rs, persistence.rs, run_program.rs, engine.rs |
| `MC*` | symmetry sets and constants for TLC | |

One action is one section under a lock, or the steps of one thread that touch nothing another thread
sees. Where the code leaves a lock and takes it again, there are two actions and a value of `pc` in
between. Definitions commented `Mutant` are never used by a specification: each is a plausible bug in
the definition after it, and stands beside it to show what a property would catch.

**Blackboard.** Every public method holds the mutex for its whole body, so each is one action. `data`
and `chain` are the two maps, `runs[r]` the RunState of the journal's list (its default when the run
is not in the list). `owner` and `agents` are not in the code's struct: they say which threads of the
run are really alive, so that the journal's own counters can be compared with them. `Record`,
`RollbackChain`, `CommitChain` and `Compact` are the four functions on a chain.

**Swarm.** `table[a]` is AgentInfo.state, `cancel[a]` its token, `pc[t]` where the thread stands
between two lock sections: registered (in the table, without a thread), launched (with a thread, not
in the list), failing and erred (around `set_error` and the error signal), cutting. `join` holds the
locals of `join_agents`: after exit() a sweep that stops agents comes before each round of joins, and
`stop_agent` looks at the state and cancels in two steps. An agent whose interpreter is cancelled
begins no statement (`Free`).

**ServeRuns.** A thread is named by its run (the owner) or is an agent. `body`, then `ending` (the
block is over), `closing` (it has read the RunCut, outside the lock), `dropping` (the journal said
undone), `closed` (its scope is cleared), `ended`. `share` and `signal` are between the flow check and
the write. The module extends `Blackboard`, and an entry is the scope of its writer, so `Val` is the
runs and `NoRun`.
`Preamble` names the run whose owner is the program's top level, whose thread has no scope. `own[t]`
says that this thread was itself cut or is unwinding, `hit[r]` that some part of the run was.

**StateJournal.** One action per builtin, since each holds the store's lock, and one for
`finish_state_journal`. state_set, state_merge and a state_cas that succeeds are the same change. The
variables after `ops` are history: what really happened to a key, which the journal must agree with.
`form[r][k]` says how request r has changed k so far: only by increments, by a mix that ends with a set
or a delete, or by one that ends with an increment (`stray`). `before[r][k]` is the value it found, and
`alone[r][k]` says that nobody else has changed the key since.

**Cron.** `schedule` is two lock sections, `Register` and `Insert`, and any number of threads may be
between the two. The time a wait takes is left out: a wait may end at any moment. `during[j]` is
history: the registrations of its name that were under way when job j went into the table.

**Bus.** `publish` copies the list of subscribers under the bus's lock and pushes under each
subscriber's own; `targets[p]` are the pushes still due. An event is a publisher, a number and a size.
As in the code, room is decided by the counter `bytes`, and what is subtracted from it saturates: that
the counter is the sum of the queue is for `QueueBounded` to say.

**ParallelMap.** `raised` is the set of workers that stored `aborted`: the atomics are Relaxed, so
another worker may or may not see it, while a worker sees its own. Joins order everything before the
caller's reads.

**ServePool.** One action per section of `PoolShared.state`'s lock; the other locks show in `pc`
(`recv` holds the lock of the receiver). `submit` is three steps: count, send, spawn. What a job does
is free: it may wait (`Wait`, `Return`), lend its permit (`Lend`, `TakeBack`) and end. `Notify` wakes
one sleeper, which must look at the permits again (`Woken`); a sleeper may also wake alone. `refused`
records that the system refused an extra thread: the code then leaves the job to the fixed ones.

**Approvals.** An operation on the file holds its lock from the read to the rename, so it is one
action; what the code reads before it (the clone of the continuation) is a step of its own: `Answer`
and `Look`. `phase[p]` goes through the order of `close_serve_run`: the continuation is cleared, the
list of tasks is taken, the tasks are awaited within the grace, what serve held is dropped. `starts`
and `lost` are history. A row given back keeps nothing of its answer, as in the code.

**Memory.** Each process has its entries `mem`, the versions it has `seen`, and an id counter. The
store's mutex is held from a write to the end of its save and for a whole reload, so `up[p]` has one
phase at a time; each row is a statement of its own, so `SaveRow` is a step and others come in
between. An entry is the number of its creation and whether it is active. A child is one call of
run_program: it may be killed at any step, and its return makes the parent save what is pending and
then read the base. Saves may fail, row by row; reads succeed (section 9).

## 3. Runs

Bounds are in the `.cfg` files. Times depend on the machine; each takes under two minutes.

| run | instance | question | why the bound is enough |
|---|---|---|---|
| `journal_runs` | 3 runs, 1 key, 2 values, 1 agent per run | do the chains implement `RunJournal`, stay compact, and end each run once? | three runs and the unscoped world give every relative order of a version, one above and one below, also A, B, A, which compacting merges. Keys are independent; several are covered by the proof |
| `swarm_join` | main, 2 agents, 1 channel | does the program join everyone, withhold a late cut, report early errors; do cancelled agents end and does exit() return? | the second agent may be launched by the first at any moment of the join, and stopped by it. A third agent was checked once for the safety properties (2.3 million states) |
| `serve_runs` | a request and the top level, 2 agents, at most 3 threads in all, 1 signal | does a run end in the one right way, in every order of its threads, and does undoing it spare the other and take all its own? | three threads are one run with two agents (siblings or a chain) or two runs with one agent of either; they race on one RunCut, one key and one queue. Two runs with two agents were checked once (10.8 million states) |
| `state_undo` | 2 requests and a thread without journal, 1 key; 3 operations of one request, 2 of the others | is an undo exact when it can be, and harmless otherwise? | two operations are the least in which the second may overwrite what the journal knows of the first, three hold every mix of set, delete and increment that leaves a form and returns to it; three actors give a foreign write before and after. Three operations for all were checked once (5 minutes) |
| `cron_table` | 2 registrations by 2 threads, 1 or 2 names, 3 ticks | is a job that can fire lost only by two registrations that overlap; has it one thread; does it fire until cancelled? | a replacement involves an old and a new job, one after the other or both inside `schedule`; two names separate cancelling one from cancelling all. Three registrations of one name, at most two at once, were checked once |
| `bus_queues` | 2 publishers with 3 events each, 2 subscriptions (1 at a time), sizes below, at and above the byte limit | are queues bounded, losses counted, and the newest kept? | a queue of two overflows by number and by bytes, and one event is larger than the whole limit |
| `pmap_items` | 4 items, 3 workers | is the result right, also with failures, panics and threads that cannot be created; does the call return? | more items than workers, every set of failing items, and two workers to pass over items of a third |
| `pool_jobs` | 2 fixed and 2 extra threads, 2 submitters, 2 jobs in the queue | are the counters exact and wake-ups not lost; does every job get a thread; does the pool settle? | two waits at once drive the permits below zero; two extra threads reach the limit and retire while two submits are half done |
| `approvals_handoff` | 2 processes of one program, started 3 times in all, 2 rows (one of another program), 1 request at a time | is each approval settled once and in the end, whatever processes share the file, and are foreign rows spared? | both processes take from the file at once, each may be in any phase of its shutdown, and one is started again after a crash |
| `approvals_shutdown` | the same | does a shutdown wait for the tasks it took? **Violated** | |
| `memory_children` | a program started twice, one child, 3 entries | does an entry on disk survive, stay forgotten, and reach the parent? | one entry from before the child, one made by each while both run; the program's second start reads what the first left |
| `memory_shared` | two programs with one memory, 3 entries | does an entry survive? **Violated** | |

`CHECK_DEADLOCK FALSE` stands where the system ends by design: a program that reported its result,
requests and subscriptions that are each made once, operations that ran up to their bound, processes
that may stay down.

The type invariants of all components are proved (section 7), so the runs need not check them.

## 4. Fairness

- `Swarm`, `ServeRuns`: the operating system schedules every thread, so each step of the *runtime* is
  weakly fair. A block of the program may run for ever; only after its token is cancelled does the
  interpreter end it, at the next statement (`exec_block`). A wait returns at the latest at its
  deadline, which every `wait_for` has. `RunsResolve` therefore assumes that blocks end.
- `Cron`: `park_timeout` returns and tasks return.
- `ParallelMap`: threads run and the items' tasks return.
- `ServePool`: threads run, waits end (each has a limit), and a job ends however often it waits: weak
  fairness of each thread's steps, strong fairness of `End`, because a job that waits again and again
  may end only while it runs.
- `Approvals`: the watcher ticks, created threads run, a request that began goes on, time passes.
  `Resolves` speaks of a process that stays up with its watcher, so it needs no fairness of `Serve`.
- `Memory`: a process goes on with a save and a reload it began; a child ends, at the latest at the
  limit of its call; the thread that waits for the store's mutex gets it (strong fairness of
  `Return`, since the parent may write in between).

## 5. What the violations show

Each is in `PROJECT.json` under "findings", with the sentence it contradicts.

- **A shutdown may cut the task of an approval** (`human.rs`, `settle_expired`). The watcher clones
  the continuation and takes the rows that are due afterwards. If `close_serve_run` clears the
  continuation and takes the list of tasks in between, the row has left the file and its task's thread
  is in a list nobody awaits. The process ends and the answer is lost, without a crash and within the
  grace. A request of `/approvals` that the grace cut off has the same window, but then the grace is
  over.
- **Two programs with one memory overwrite each other's entries** (`memory.rs`, `next_id`). Only a
  child of run_program marks its ids. Two programs started by hand load the same counter and give
  their next entries one id; the second save replaces the first's row.

## 6. Disagreements and observations

Disagreements with a comment, next to the two of section 5. Each has a configuration that reproduces it
(`tlc -config X.cfg M`); the property it names does not hold, and is not counted among the results.

- **exit() may not return** (`engine.rs:1602`, `join_agents`; `MCSwarm_exit.cfg`, `ExitAlwaysReturns`). A
  round first stops the agents in the table and then drains the list of threads. An agent that registers
  after the sweep and is added to the list before the drain is joined in this round without having been
  stopped. If it loops, exit() waits for ever (`engine.rs:1589` says that new ones are stopped too).
  `ExitReturns` shows that nothing else keeps exit() from returning.
- **An orphan cron job** (`cron.rs:261`, `schedule`; `MCCron_orphan.cfg`, `NoOrphanJob`). Cancelling the
  old job and inserting the new one are two lock sections. Two threads registering one name both cancel
  first and insert after; the job inserted first leaves the table with its flag unset and fires for ever
  (`cron.rs:16`: "Mismo nombre = reemplaza el job anterior (se cancela primero)"). `OrphansOverlapped`
  shows that nothing else loses a job.
- **The undo leaves an increment that came after a set** (`serve.rs:1579`, `journal_state_incr`;
  `MCStateJournal_mixed.cfg`, `MixIsUndone`). After state_set and state_incr of one key by one request
  the journal keeps the value of the set as `mine`: `journal_state_incr` returns early and state_incr
  does not call `journal_state_write`. The undo then finds another value than `mine` and leaves what the
  request wrote, although nobody else touched the key. The comment there says "el `mine` lo actualiza
  `journal_state_write` en cada escritura posterior", and `serve.rs:1519` that what a cut request wrote
  cannot outlive it. A set or delete after the increment repairs it; `UndoRestores` shows that every
  other mix is undone.
- **The error of parallel_map is not always the least** (`parallel.rs:234`; `MCParallelMap_lowest.cfg`,
  `LowestError`). A worker that has taken item i looks at `aborted` before it runs i. If a higher item
  has failed by then, i never runs (`parallel.rs:7` says that the error is the one of `apply`). What
  does hold is `ResultIsRight` and `FewPassedOver`.
- **An undo of shared state may change what others confirmed** (`serve.rs:1632`;
  `MCStateJournal_spares.cfg`, `UndoSparesOthers`). It compares values, not writers: a request that set
  an equal value and confirmed loses its write; and a delta is subtracted from a number that someone
  else set (`serve.rs:1519` says that an undo does not overwrite what others confirmed).
- **A child that outlives its parent forgets an entry that is not its own** (`persistence.rs:221`;
  `MCMemory_orphans.cfg`, `EntriesSurvive` with `Orphans`). On Unix the child of a killed program goes on
  (`proc.rs:985`). The first load of a memory counts ids from the active rows only: after the entry with
  the highest id was forgotten, the restarted program gives that id again. The child still has the old
  entry in its copy, forgets it under that id, and its save makes the new entry inactive
  (`skills/synsema/memory.md:59`: "a crash loses nothing already written").

Observed while modelling:

- Increments before the first state_set of a request are not undone, as the comment in
  `journal_state_write` says; and undoing the increments of an absent key, or of a text, leaves 0 there.
  `UndoRestores` states both.
- If request A sets a key, B overwrites it, A is undone and then B is, B puts back the value of A.
- `set_error` makes an agent inactive before its `__agent_error` signal is queued. A `wait_for` on
  that channel may give up in between.
- The thread's scope is cleared before the `__agent_error` signal of an agent is queued, so a later
  undo of the run does not drop it. `UndoneLeavesNoSignal` speaks of the signals with a scope.
- The top level has no scope, so what it shares itself survives the cut of its run.
  `UndoneLeavesNoEntry` speaks of the entries written under a scope.
- With `drop_oldest`, an event larger than the byte limit is kept alone in its queue; `QueueBounded`
  states exactly that exception.
- A row that is given back to the approvals file has lost the answer it got, though the answer was
  accepted: it may be answered again, otherwise, or expire.
- If the thread of a task, or the watcher's own, cannot be created, the row is lost with a line on the
  console, or nothing expires any more without one. `Resolves` is conditional on the watcher.
- The first load of a memory counts ids from the active rows only. After the entry with the highest id
  was forgotten, a restarted program gives that id again, and the forgotten row is replaced.
- `read_memory` returns on an error without a word: a first load that fails leaves an empty memory and
  the id counter at 0, so the next entries replace rows that are in the base.

## 7. Proofs

TLAPS checks every leaf with SMT, Zenon and PTL. Only the named assumptions of the component modules
are used; TLC evaluates them in every run. Each invariant was first checked by TLC as an invariant of
the component's run.

**`BlackboardProofs`** (`BlackboardAssumption`: the marks NoRun, Absent and Live are none of the runs
or values; `MaxAgents` is a natural). `Inv` is type correctness with `ChainCompact`,
`KeysCoverVersions` and `RunStateMatchesThreads`. Each needs the others: a commit removes every
version of a run only if the run's `keys` cover them, a forgotten run has no keys and so must have no
versions, and one version per run is what lets an undo leave a compact chain. The first lemmas are
about finite chains (`Retain` keeps order, `Compact` of any chain is good). `Refinement` shows that
`WorldOf` maps each step: `record` followed by the new entry is `Write`, rollback is `Undo`, commit is
`Commit`, and compacting changes no world. As the abstract specification has one world per set of
runs, the refinement says of every interleaving that undoing a run is as if it had never written.

**`SwarmProofs`** (`SwarmAssumption`: the marks are no agents; `MaxPending` is positive). An agent may
be registered, be launched, and launch others while the program already joins, so "every handle in the
list was joined" says little. `CoverInv`: a living agent is in the list, in the current round, or
still with the thread that launched it. `ForestInv`: in every set of agents one is not being launched
by another of the set, since an agent is registered before it can launch anyone. When a round finds
the list empty, the set of the living agents would have such an agent, whose launcher could only be
the program, which has ended: so the set is empty, and `AllJoined` follows. `ErrorInv` keeps what
exit() stops apart from what was in error before.

**`ServePoolProofs`** (`PoolAssumption`: finite sets, enough threads for the fixed ones). The invariant
of the counters is the properties themselves. `CountersExact` compares each counter of PoolState with
the number of threads in some states; every step moves one thread or two, and a few lemmas say by how
much that changes such a number, so each action becomes arithmetic. `JobsGetThreads` is not inductive:
it speaks of a free permit and a job, and a step may bring either. `Served` bounds both: unless the
pool is at its limit, the jobs nobody took are at most the threads looking for one or being made, or
the permits are at most those and the threads about to take one. One job more makes the pool grow
where the first bound would break, one permit more where the second would.

**`ServeRunsProofs`** (`ServeAssumption`: agents are no runs, an entry is a run or `NoRun`, and the
journal is given as many agents as there are). Threads and journal are proved together: `ServeInv` is
the blackboard's `Inv` with

- `Launches` and `Counts`: the journal's agents of a run are those registered in its scope that have
  not yet told it that they are done, launched or not, and its owner flag is the owner's thread;
- `Causes`: a part that was cut has left a trace in the RunCut, in a thread on its way to close, or in
  the journal's own flag, which is what makes a thread that reads the RunCut too early harmless;
- `Results`: a run that is closed is undone exactly when some part of it was hit;
- `DropsAhead`: a signal of an undone run is queued only while a thread of the run has still to drop;
- `Entries`: every version of a chain holds the entry of its own run, and what lies below the versions
  is absent, written outside any run, or an entry of a confirmed run. Compaction and undo of *other*
  runs move entries down a chain, so `UndoneLeavesNoEntry` needs this of every chain, not of one run.

`JournalStep` shows that each step of a thread is a step of `Blackboard` or leaves it alone; this gives
`Inv` for free, and `ServeImplementsJournal`: under real threads the blackboard is still the abstract
journal.

**`ApprovalsProofs`** (`ApprovalsAssumption`). Each step leaves every row where it is or moves some
rows to one place (`MovesTo`). A lemma shows once that this keeps "exactly one place"; the proof of an
action says only which rows move where.

**`MemoryProofs`** (`MemoryAssumption`, and `Alone`: one root, whose children end with it. Without
`Alone` the properties are false: section 5 and the last observation of section 6). `RowInv`: a copy
of an entry is Fresh, made here and not yet on disk, or Known, the same entry the base has under that
id, and then saving it can only forget. `OwnerInv`: a process counts past every id of its own tag that
anyone holds, which rests on what a load and a reload do to the counter. `AgreeInv` is what holds
between a program and its base once no child is left to return.

**`ParallelMapProofs`** (`PmapAssumption`: at least one item, `Limit` a natural). `IInv` ties the
caller's counters to the workers (`CallerInv`), each slot to its item (`SlotInv`), and every item
taken to the worker that still holds it (`CoverInv`). The last is what makes `OkIsComplete` inductive:
without an error or a panic no item taken is lost, and workers end only when there are none left.
`PassedInv` says that an item passed over is the last its worker took, which maps such items one to
one to the workers other than the one that went past the error (`FewPassedOver`).

**`SmallComponentsProofs`** holds the proofs of three components, each from its own assumption alone.

*Cron* (`CronAssumption`). `TableInv` and `ThreadInv` say what the table may hold and when a job has its
thread. `OverlapInv` makes `OrphansOverlapped` inductive for any number of threads inside `schedule`: a
thread between its two lock sections has emptied the place of its name, so a job found there was
inserted meanwhile and has that thread's registration in its `during`.

*StateJournal* (`StateAssumption`). `DeltaInv`: on a key that is only incremented, the entry of each
request is what it added and the store is the sum of what was kept. `FormInv`: the kind of an entry
follows from the operations of its request, and its `prev` is the value before the first set or delete,
whatever others do to the key. `AloneInv`: on a key nobody else changed, the entry leads from the value
now to the value before, unless the last operation of a mix was an increment. `MineInv`: what an entry
says its request left is no text the request could not set. The two action properties follow.

*Bus* (`BusAssumption`: sizes are naturals, the limits positive). `SumOfSizes` is a recursive function
of a queue. No prover here does induction, but a set of naturals has a least element: `SumIs` shows
that the function has the value of any running totals of the queue by looking at the least place where
they could differ, and `TotalsExist` that there are some. An event appended, a prefix dropped and a
head taken are then equations (`SumAppend`, `SumSplit`, `SumTail`), and the saturating subtraction never
saturates. `Newest` is the property of one queue as a function of what was read and what was pushed;
dropping from the front and appending the next event keep it. `BusIInv` adds that a reader's handle is
on the bus and that a failed subscription is empty.

| theorem | states |
|---|---|
| `BlackboardProofs!TypeCorrect`, `ChainsStayCompact`, `CountersMatch`, `NoVersionIsMissed`, `VersionsBelongToRunningRuns`, `Refinement` | `TypeOK`, `ChainCompact`, `RunStateMatchesThreads`, `KeysCoverVersions`, `OnlyRunningRunsHoldVersions`, `ImplementsJournal` |
| `SwarmProofs!TypeCorrect`, `AllAreJoined`, `CutWithheld`, `EarlyReported` | `TypeOK`, `AllJoined`, `CutIsWithheld`, `EarlyErrorsReported` |
| `ServePoolProofs!TypeCorrect`, `CountersCorrect`, `WakeupsReach`, `JobsServed` | `TypeOK`, `CountersExact`, `NoLostWakeup`, `JobsGetThreads` |
| `ServeRunsProofs!ServeTypeCorrect`, `OutcomesAreRight`, `RunsStayOpen`, `NoUndoneEntry`, `NoUndoneSignal`, `ServeImplementsJournal` | `ServeTypeOK`, `OutcomeIsRight`, `ThreadsKeepRunOpen`, `UndoneLeavesNoEntry`, `UndoneLeavesNoSignal`, `ImplementsJournal` |
| `ApprovalsProofs!TypeCorrect`, `InOnePlace`, `CalledOnce`, `ForeignSafe` | `TypeOK`, `OnePlace`, `RunsOnce`, `ForeignSpared` |
| `MemoryProofs!TypeCorrect`, `EntriesSafe`, `ForgottenStays`, `MemoryKeeps`, `QuietCorrect`, under `Alone` | `TypeOK`, `EntriesSurvive`, `NoComeback`, `MemoryOnlyForgets`, `QuietAgrees` |
| `SmallComponentsProofs!CronTypeCorrect`, `StartsOnce`, `OrphansOnlyByOverlap` | `CronTypeOK`, `StartedOnce`, `OrphansOverlapped` |
| `ParallelMapProofs!TypeCorrect`, `ThawIsSafe`, `NoItemTwice`, `OkMeansAll`, `LeastOfThoseRun`, `ResultCorrect`, `FewArePassedOver` | `TypeOK`, `ThawedAlone`, `ItemsRunOnce`, `OkIsComplete`, `ErrorIsLeastRun`, `ResultIsRight`, `FewPassedOver` |
| `SmallComponentsProofs!StateTypeCorrect`, `CountersExact`, `UndoIsExact`, `ForeignTextSafe` | `StateTypeOK`, `CounterExact`, `UndoRestores`, `ForeignTextSurvives` |
| `SmallComponentsProofs!BusTypeCorrect`, `QueuesBounded`, `NothingLostInSilence`, `NewestKept` | `BusTypeOK`, `QueueBounded`, `NoSilentLoss`, `KeepsTheNewest` |

Every safety property of a passing run is proved here for all values of the constants. The theorems
of `MemoryProofs` assume `Alone`: this is the case in which the properties are true (sections 5 and 6
say how they fail in the others), and the one the passing run checks.
Only model-checked: every liveness property (the prover has no rule for fairness or ENABLED).

## 8. Plan

What a next step would be, most useful first:

1. Approvals that wait: the gates that block a handler until an answer or its deadline, with the two
   sides of `respond` and `handle`.
2. The rules and the progress of a declared memory, on the base `Memory` already has.
3. Watches, and the part of the hub that closes handles while another thread reads them.

## 9. Not modelled, and why

- Of the blackboard: author, time, version number and history of an entry, the event log (no builtin
  shows them), and watchers (never registered by the runtime).
- Of the swarm: output held back, the texts of errors, the builtins that only read the table.
- Of serve: the cache of interpreters and the resets between requests; labels themselves. A cut is an
  input that may come at any step.
- Of the shared state: floats, which round, so that subtracting does not give back what was; and
  64-bit wrapping, which commutes with the undo.
- Of the cron: dates and `next_run`, which is only displayed. Of the bus: topic patterns (every
  subscriber matches) and wake-ups.
- Of the approvals: gates that wait for their answer, notices, the reading of the file and its
  permissions. Of the memory: rules (the last writer's row stands), progress (a reload skips a task
  with an unsaved step, whole), decisions, and reads of the base that fail (section 6).
- Of the worker pool: the closing of the channel when the server is dropped, and the creation of the
  fixed threads, which comes before any job. The HTTP server in the same file (accepting, routing,
  streams) is asynchronous network I/O; of its shutdown only the order of the phases appears, in
  `Approvals`.
- Spend ceilings: one lock section goes from the comparison with the ceilings to both counters, so
  threads do not interleave in it; what is left is a sequential sum.
- The lexer, parser, interpreter, VM, native tier, JIT and heap: sequential, and their state is out of
  a model checker's reach. Providers, inference, sockets, processes, the daemon and the command line:
  I/O around outside services. Capabilities and labels: pure functions over data.
- `resource_lock.rs` is used only by its own tests.
