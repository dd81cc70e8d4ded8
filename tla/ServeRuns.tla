------------------------------ MODULE ServeRuns ------------------------------
(***************************************************************************)
(* The runs of `serve` with labels: the threads of with_serve_interp and   *)
(* spawn_agent over the blackboard's journal, the queue of signals and the *)
(* RunCut the threads of one run share.  A thread asks the journal to undo *)
(* or confirm in one lock section, drops the run's signals in another, and *)
(* reads the RunCut outside both.                                          *)
(*                                                                         *)
(* An entry of the blackboard is the scope of its writer, and each run is  *)
(* entered once: a RunCut is a fresh Arc that agents, signals and the      *)
(* agent table keep alive.                                                 *)
(***************************************************************************)
EXTENDS Blackboard

CONSTANTS Agent,        \* the agents that can be launched
          Preamble,     \* the run of the program's top level (may be outside Run)
          MaxSignals,   \* bound: signals of the program in the queue
          MaxThreads    \* bound: runs entered and agents launched

(* No bound of the blackboard's own is met, and an entry names its writer.  *)
ASSUME ServeAssumption ==
    /\ Val = Run \cup {NoRun}
    /\ IsFiniteSet(Agent) /\ MaxAgents = Cardinality(Agent)
    /\ Agent \cap (Run \cup {NoRun}) = {}

VARIABLES cutFlag,      \* cutFlag[r]: the RunCut of r is set
          scope,        \* scope[a]: AgentInfo.scope, the run that launched a
          pc,           \* pc[t]: where thread t is; an owner's thread is named by its run
          on,           \* on[t]: the agent t is launching
          own,          \* own[t]: AgentLive.cut, the label stop, or an unwinding thread
          arg,          \* arg[t]: the `cut` argument t computed for the journal
          failed,       \* failed[a]: the agent's block gave an ordinary error
          signals,      \* Swarm.pending of one channel: the scope of each sender
          hit,          \* hit[r]: some part of r was cut or panicked
          outcome       \* outcome[r]: what became of r

serveVars == <<vars, cutFlag, scope, pc, on, own, arg, failed, signals, hit, outcome>>

Thread == Run \cup Agent
RunOf(t) == IF t \in Agent THEN scope[t] ELSE t

(* thread_scope(): nothing sets it while the top level runs.               *)
ThreadScope(t) == IF t = Preamble THEN NoRun ELSE RunOf(t)

ServeInit ==
    /\ Init
    /\ cutFlag = [r \in Run |-> FALSE]
    /\ scope = [a \in Agent |-> NoRun]
    /\ pc = [t \in Thread |-> "idle"]
    /\ on = [t \in Thread |-> NoRun]
    /\ own = [t \in Thread |-> FALSE]
    /\ arg = [t \in Thread |-> FALSE]
    /\ failed = [a \in Agent |-> FALSE]
    /\ signals = <<>>
    /\ hit = [r \in Run |-> FALSE]
    /\ outcome = [r \in Run |-> "open"]

Started == {r \in Run : pc[r] # "idle"} \cup {a \in Agent : scope[a] # NoRun}

(* Agents are named in the order in which they are launched.               *)
NextAgent == CHOOSE a \in Agent : Agent \subseteq Started \/ a \notin Started

Goes(t, from, to) == pc[t] = from /\ pc' = [pc EXCEPT ![t] = to]

-----------------------------------------------------------------------------
(* with_serve_interp, or the top level of the program, begins.             *)
Enter(r) ==
    /\ Goes(r, "idle", "body")
    /\ Cardinality(Started) < MaxThreads
    /\ OpenRun(r)
    /\ UNCHANGED <<cutFlag, scope, on, own, arg, failed, signals, hit, outcome>>

(* sink_check of share and signal: a run already cut writes no more.       *)
SinkCheck(t, sink) ==
    /\ Goes(t, "body", sink)
    /\ ~cutFlag[RunOf(t)]
    /\ sink = "signal" =>
           Len(signals) + Cardinality({u \in Thread : pc[u] = "signal"}) < MaxSignals
    /\ UNCHANGED <<vars, cutFlag, scope, on, own, arg, failed, signals, hit, outcome>>

Share(t, k) ==
    /\ Goes(t, "share", "body")
    /\ Write(ThreadScope(t), k, ThreadScope(t))
    /\ UNCHANGED <<cutFlag, scope, on, own, arg, failed, signals, hit, outcome>>

Signal(t) ==
    /\ Goes(t, "signal", "body")
    /\ signals' = Append(signals, ThreadScope(t))
    /\ UNCHANGED <<vars, cutFlag, scope, on, own, arg, failed, hit, outcome>>

(* wait_for takes the oldest signal, whoever sent it.                      *)
Take(t) ==
    /\ pc[t] = "body"
    /\ signals # <<>>
    /\ signals' = Tail(signals)
    /\ UNCHANGED <<vars, cutFlag, scope, pc, on, own, arg, failed, hit, outcome>>

(* spawn_agent: the agent counts before its thread exists.                 *)
(* Mutant: the count is left to the agent's own thread (Launched below      *)
(* would do it), so that the launcher may end first.                        *)
SpawnUncounted(t, a) ==
    /\ Goes(t, "body", "launching")
    /\ a = NextAgent /\ a \notin Started
    /\ Cardinality(Started) < MaxThreads
    /\ scope' = [scope EXCEPT ![a] = RunOf(t)]
    /\ on' = [on EXCEPT ![t] = a]
    /\ UNCHANGED <<vars, cutFlag, own, arg, failed, signals, hit, outcome>>

Spawn(t, a) ==
    /\ Goes(t, "body", "launching")
    /\ a = NextAgent /\ a \notin Started
    /\ Cardinality(Started) < MaxThreads
    /\ AgentStarted(RunOf(t))
    /\ scope' = [scope EXCEPT ![a] = RunOf(t)]
    /\ on' = [on EXCEPT ![t] = a]
    /\ UNCHANGED <<cutFlag, own, arg, failed, signals, hit, outcome>>

Launched(t) ==
    /\ pc[t] = "launching"
    /\ pc' = [pc EXCEPT ![t] = "body", ![on[t]] = "body"]
    /\ UNCHANGED <<vars, cutFlag, scope, on, own, arg, failed, signals, hit, outcome>>

(* No thread could be created: the closure is dropped, and with it the     *)
(* AgentLive; then the launching thread panics.                            *)
(* Mutant: the closure does not hold the count, which stays for ever.       *)
LaunchFailsCounted(t) ==
    /\ pc[t] = "launching"
    /\ pc' = [pc EXCEPT ![t] = "unwinding", ![on[t]] = "ended"]
    /\ own' = [own EXCEPT ![t] = TRUE]
    /\ hit' = [hit EXCEPT ![RunOf(t)] = TRUE]
    /\ UNCHANGED <<vars, cutFlag, scope, on, arg, failed, signals, outcome>>

LaunchFails(t) ==
    /\ pc[t] = "launching"
    /\ pc' = [pc EXCEPT ![t] = "unwinding", ![on[t]] = "ending"]
    /\ own' = [own EXCEPT ![t] = TRUE]
    /\ hit' = [hit EXCEPT ![RunOf(t)] = TRUE]
    /\ UNCHANGED <<vars, cutFlag, scope, on, arg, failed, signals, outcome>>

Unwind(t) ==
    /\ Goes(t, "unwinding", "ending")
    /\ pc[on[t]] = "ended"
    /\ UNCHANGED <<vars, cutFlag, scope, on, own, arg, failed, signals, hit, outcome>>

-----------------------------------------------------------------------------
(* The block of t ends: well; with an ordinary error; cut by the flow      *)
(* check; or unwinding.  redact_for_host turns the end of a run already    *)
(* cut into a cut.                                                         *)
EndOk(t) ==
    /\ Goes(t, "body", "ending")
    /\ ~cutFlag[RunOf(t)]
    /\ UNCHANGED <<vars, cutFlag, scope, on, own, arg, failed, signals, hit, outcome>>

EndError(a) ==
    /\ Goes(a, "body", "ending")
    /\ ~cutFlag[RunOf(a)]
    /\ failed' = [failed EXCEPT ![a] = TRUE]
    /\ UNCHANGED <<vars, cutFlag, scope, on, own, arg, signals, hit, outcome>>

(* An agent sets the RunCut before it tells the journal, unless it was     *)
(* cancelled; the owner only marks its own label stop.  A cut of the top   *)
(* level ends the program.                                                 *)
EndCut(t, cancelled) ==
    /\ Goes(t, "body", "ending")
    /\ t # Preamble
    /\ own' = [own EXCEPT ![t] = TRUE]
    /\ hit' = [hit EXCEPT ![RunOf(t)] = TRUE]
    /\ cutFlag' = [cutFlag EXCEPT ![RunOf(t)] = @ \/ (t \in Agent /\ ~cancelled)]
    /\ UNCHANGED <<vars, scope, on, arg, failed, signals, outcome>>

Panic(t) ==
    /\ Goes(t, "body", "ending")
    /\ t # Preamble
    /\ own' = [own EXCEPT ![t] = TRUE]
    /\ hit' = [hit EXCEPT ![RunOf(t)] = TRUE]
    /\ UNCHANGED <<vars, cutFlag, scope, on, arg, failed, signals, outcome>>

(* The argument is computed before the journal's lock is taken.            *)
(* Mutant: only the shared flag is read, not the part's own cut.            *)
ReadCutFlagOnly(t) ==
    /\ Goes(t, "ending", "closing")
    /\ arg' = [arg EXCEPT ![t] = cutFlag[RunOf(t)]]
    /\ UNCHANGED <<vars, cutFlag, scope, on, own, failed, signals, hit, outcome>>

ReadCut(t) ==
    /\ Goes(t, "ending", "closing")
    /\ arg' = [arg EXCEPT ![t] = own[t] \/ cutFlag[RunOf(t)]]
    /\ UNCHANGED <<vars, cutFlag, scope, on, own, failed, signals, hit, outcome>>

(* Blackboard::close_run or agent_done.                                    *)
Close(t) ==
    LET r == RunOf(t)
        undo == arg[t] \/ runs[r].cut
        over == IF t \in Agent THEN runs[r].closed /\ runs[r].live = 1 ELSE runs[r].live = 0
    IN  /\ Goes(t, "closing", IF undo THEN "dropping" ELSE "closed")
        /\ IF t \in Agent THEN AgentDone(r, arg[t]) ELSE CloseRun(r, arg[t])
        /\ outcome' = [outcome EXCEPT ![r] = IF undo THEN "undone"
                                             ELSE IF over THEN "confirmed" ELSE @]
        /\ UNCHANGED <<cutFlag, scope, on, own, arg, failed, signals, hit>>

(* Swarm::drop_signals_of, when the journal said the run was undone.       *)
(* Mutant: the signals of a cut run are left in the queue.                  *)
DropSignalsNot(t) ==
    /\ Goes(t, "dropping", "closed")
    /\ UNCHANGED <<vars, cutFlag, scope, on, own, arg, failed, signals, hit, outcome>>

DropSignals(t) ==
    /\ Goes(t, "dropping", "closed")
    /\ signals' = Retain(signals, {i \in DOMAIN signals : signals[i] # RunOf(t)})
    /\ UNCHANGED <<vars, cutFlag, scope, on, own, arg, failed, hit, outcome>>

(* set_thread_scope(None); an agent that failed then signals its error.    *)
Leave(t) ==
    /\ Goes(t, "closed", "ended")
    /\ ~(t \in Agent /\ failed[t])
    /\ UNCHANGED <<vars, cutFlag, scope, on, own, arg, failed, signals, hit, outcome>>

SignalError(a) ==
    /\ Goes(a, "closed", "ended")
    /\ failed[a]
    /\ signals' = Append(signals, NoRun)
    /\ UNCHANGED <<vars, cutFlag, scope, on, own, arg, failed, hit, outcome>>

Program(t) ==
    \/ \E sink \in {"share", "signal"} : SinkCheck(t, sink)
    \/ \E k \in Key : Share(t, k)
    \/ \E a \in Agent : Spawn(t, a)
    \/ \E cancelled \in BOOLEAN : EndCut(t, cancelled)
    \/ Signal(t) \/ Take(t) \/ EndOk(t) \/ Panic(t)

Runtime(t) ==
    \/ Launched(t) \/ LaunchFails(t) \/ Unwind(t)
    \/ ReadCut(t) \/ Close(t) \/ DropSignals(t) \/ Leave(t)

ServeNext ==
    \/ \E r \in Run : Enter(r)
    \/ \E a \in Agent : EndError(a) \/ SignalError(a)
    \/ \E t \in Thread : Program(t) \/ Runtime(t)

ServeSpec == ServeInit /\ [][ServeNext]_serveVars

(* Threads are scheduled; whether a block ever ends is up to the program.  *)
Fairness ==
    /\ \A t \in Thread : WF_serveVars(Runtime(t) \/ Signal(t) \/ \E k \in Key : Share(t, k))
    /\ \A a \in Agent : WF_serveVars(SignalError(a))

FairSpec == ServeSpec /\ Fairness

-----------------------------------------------------------------------------
Over(r) == pc[r] \in {"dropping", "closed", "ended"} /\ agents[r] = 0

(* Threads, flags and results have their types, and the journal its own.   *)
ServeTypeOK ==
    /\ TypeOK
    /\ pc \in [Thread -> {"idle", "body", "share", "signal", "launching", "unwinding",
                          "ending", "closing", "dropping", "closed", "ended"}]
    /\ scope \in [Agent -> Run \cup {NoRun}]
    /\ on \in [Thread -> Agent \cup {NoRun}]
    /\ own \in [Thread -> BOOLEAN] /\ arg \in [Thread -> BOOLEAN]
    /\ cutFlag \in [Run -> BOOLEAN] /\ hit \in [Run -> BOOLEAN]
    /\ failed \in [Agent -> BOOLEAN]
    /\ signals \in Seq(Run \cup {NoRun})
    /\ outcome \in [Run -> {"open", "confirmed", "undone"}]

(* A run that ended was undone exactly when some part of it was cut or     *)
(* unwound, though each thread reads the RunCut outside the lock and they  *)
(* end in any order: never a third result, never an undo without a cause.  *)
OutcomeIsRight ==
    \A r \in Run : Over(r) => outcome[r] = IF hit[r] THEN "undone" ELSE "confirmed"

(* A thread that still runs the program of r keeps r open in the journal,  *)
(* from before it exists until after its last statement.                   *)
ThreadsKeepRunOpen ==
    \A t \in Thread : pc[t] \in {"body", "share", "signal", "launching", "ending"}
                          => Running(RunOf(t))

(* When the last thread of an undone run has left, no entry it wrote is    *)
(* visible or can become visible again.                                    *)
UndoneLeavesNoEntry ==
    \A r \in Run : Over(r) /\ outcome[r] = "undone" =>
        \A k \in Key : /\ data[k] # r
                       /\ chain[k].base # r
                       /\ \A i \in DOMAIN chain[k].versions : chain[k].versions[i].entry # r

Left(r) == Over(r) /\ \A t \in Thread : RunOf(t) = r => pc[t] = "ended"

(* When every thread of an undone run has left, none of its signals is     *)
(* queued, whichever threads sent them and between whatever drops.         *)
UndoneLeavesNoSignal ==
    \A r \in Run : Left(r) /\ outcome[r] = "undone" =>
        \A i \in DOMAIN signals : signals[i] # r

(* If every block ends, every run entered is confirmed or undone: the      *)
(* count of live agents comes back to zero on every path.                  *)
RunsResolve ==
    (\A t \in Thread : []<>(pc[t] \notin {"body", "share", "signal", "launching"})) =>
        \A r \in Run : pc[r] = "body" ~> Over(r)
==============================================================================
