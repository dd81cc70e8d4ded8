-------------------------------- MODULE Swarm --------------------------------
(***************************************************************************)
(* The agents of one program under `run` or `test`: the table, the tokens, *)
(* the signals and the thread list of synsema-agents/src/swarm.rs, the     *)
(* thread of an agent (spawn_agent and the wait_for hook in engine.rs) and *)
(* the end of the program, join_agents, which waits for every agent and,   *)
(* after exit(), stops them first.                                         *)
(*                                                                         *)
(* One action is one section under a lock, or the steps of one thread that *)
(* touch nothing another thread sees.  Timeouts may fire at any moment.    *)
(***************************************************************************)
EXTENDS Naturals, FiniteSets

CONSTANTS Agent,        \* the agents that can be registered
          Main,         \* the program's own thread
          Chan,         \* a channel the program signals on
          Nobody,       \* no agent, no channel
          MaxPending    \* bound: signals queued on one channel

ASSUME SwarmAssumption ==
    /\ {Main, Chan, Nobody} \cap Agent = {}
    /\ Cardinality({Main, Chan, Nobody}) = 3
    /\ MaxPending \in Nat \ {0}

VARIABLES table,        \* table[a]: AgentInfo.state
          cancel,       \* cancel[a]: AgentInfo.cancel
          pc,           \* pc[t]: where thread t is
          on,           \* on[t]: the agent t is launching, or the channel it waits on
          threads,      \* Swarm.threads: handles not yet taken by a round of joins
          pending,      \* pending[c]: signals queued on c; an agent stands for its
                        \* channel __agent_error:<id>
          runCut,       \* Swarm.run_cut is set
          join,         \* the locals of join_agents
          early,        \* the agents in Error when the program ended
          report        \* what the result says

vars == <<table, cancel, pc, on, threads, pending, runCut, join, early, report>>

Thread == Agent \cup {Main}
Channel == Agent \cup {Chan}

AgentState == {"none", "starting", "working", "waiting", "done", "error", "stopped"}
Active == {"starting", "working", "waiting"}

Init ==
    /\ table = [a \in Agent |-> "none"]
    /\ cancel = [a \in Agent |-> FALSE]
    /\ pc = [t \in Thread |-> IF t = Main THEN "body" ELSE "none"]
    /\ on = [t \in Thread |-> Nobody]
    /\ threads = {}
    /\ pending = [c \in Channel |-> 0]
    /\ runCut = FALSE
    /\ join = [at |-> "main", exited |-> FALSE, todo |-> {}, hit |-> Nobody,
               stopped |-> {}, round |-> {}]
    /\ early = {}
    /\ report = [ready |-> FALSE, withheld |-> FALSE, errors |-> {}]

Goes(t, from, to) == pc[t] = from /\ pc' = [pc EXCEPT ![t] = to]

(* Swarm::set_state and its variants: a no-op for a name that is not an    *)
(* agent's, such as main.                                                  *)
SetState(t, s) ==
    table' = IF t \in Agent THEN [table EXCEPT ![t] = s] ELSE table

(* Thread t begins a statement: exec_block looks at the token before each. *)
Free(t) == pc[t] = "body" /\ (t \in Agent => ~cancel[t])

-----------------------------------------------------------------------------
(* spawn_agent, in the launching thread t: register, create the thread,    *)
(* add its handle.                                                         *)
Register(t, a) ==
    /\ Free(t) /\ Goes(t, "body", "registered")
    /\ table[a] = "none"
    /\ table' = [table EXCEPT ![a] = "starting"]
    /\ on' = [on EXCEPT ![t] = a]
    /\ UNCHANGED <<cancel, threads, pending, runCut, join, early, report>>

Launch(t) ==
    /\ pc[t] = "registered"
    /\ pc' = [pc EXCEPT ![t] = "launched", ![on[t]] = "setup"]
    /\ UNCHANGED <<table, cancel, on, threads, pending, runCut, join, early, report>>

(* No thread could be created: the launching thread panics, and the agent  *)
(* stays registered.                                                       *)
LaunchFails(t) ==
    /\ Goes(t, "registered", IF t = Main THEN "ended" ELSE "finished")
    /\ join' = IF t = Main THEN [join EXCEPT !.at = "drain"] ELSE join
    /\ early' = IF t = Main THEN {a \in Agent : table[a] = "error"} ELSE early
    /\ UNCHANGED <<table, cancel, on, threads, pending, runCut, report>>

(* Mutant: the handle is not kept.                                          *)
AddThreadNot(t) ==
    /\ Goes(t, "launched", "body")
    /\ on' = [on EXCEPT ![t] = Nobody]
    /\ UNCHANGED <<table, cancel, threads, pending, runCut, join, early, report>>

AddThread(t) ==
    /\ Goes(t, "launched", "body")
    /\ threads' = threads \cup {on[t]}
    /\ on' = [on EXCEPT ![t] = Nobody]
    /\ UNCHANGED <<table, cancel, pending, runCut, join, early, report>>

-----------------------------------------------------------------------------
(* An agent's thread.                                                      *)
(* Mutant: the interpreter keeps its own fresh token.                       *)
StartWorkingFreshToken(a) ==
    /\ Goes(a, "setup", "body")
    /\ SetState(a, "working")
    /\ cancel' = [cancel EXCEPT ![a] = FALSE]
    /\ UNCHANGED <<on, threads, pending, runCut, join, early, report>>

StartWorking(a) ==
    /\ Goes(a, "setup", "body")
    /\ SetState(a, "working")
    /\ UNCHANGED <<cancel, on, threads, pending, runCut, join, early, report>>

Signal(t) ==
    /\ Free(t)
    /\ pending[Chan] < MaxPending
    /\ pending' = [pending EXCEPT ![Chan] = @ + 1]
    /\ UNCHANGED <<table, cancel, pc, on, threads, runCut, join, early, report>>

(* agent_stop(id): Swarm::stop_agent.  The token is cancelled after the    *)
(* lock is left; here in one step, since nothing reads the token of an     *)
(* agent that ends in between.                                             *)
StopAgent(t, a) ==
    /\ Free(t)
    /\ table[a] \in Active
    /\ cancel' = [cancel EXCEPT ![a] = TRUE]
    /\ UNCHANGED <<table, pc, on, threads, pending, runCut, join, early, report>>

(* The wait_for hook: WAITING, wait_for_signal_cancellable, WORKING.       *)
WaitFor(t, c) ==
    /\ Free(t) /\ Goes(t, "body", "waiting")
    /\ SetState(t, "waiting")
    /\ on' = [on EXCEPT ![t] = c]
    /\ UNCHANGED <<cancel, threads, pending, runCut, join, early, report>>

Take(t) ==
    /\ Goes(t, "waiting", "woken")
    /\ pending[on[t]] > 0
    /\ pending' = [pending EXCEPT ![on[t]] = @ - 1]
    /\ UNCHANGED <<table, cancel, on, threads, runCut, join, early, report>>

NoProducer ==
    /\ \A a \in Agent : table[a] \notin Active
    /\ \E a \in Agent : table[a] # "none"

GiveUp(t) ==
    /\ Goes(t, "waiting", "woken")
    /\ pending[on[t]] = 0
    /\ NoProducer
    /\ UNCHANGED <<table, cancel, on, threads, pending, runCut, join, early, report>>

(* cancelled() or the deadline.                                            *)
WaitEnds(t) ==
    /\ Goes(t, "waiting", "woken")
    /\ pending[on[t]] = 0
    /\ ~NoProducer
    /\ UNCHANGED <<table, cancel, on, threads, pending, runCut, join, early, report>>

Resume(t) ==
    /\ Goes(t, "woken", "body")
    /\ SetState(t, "working")
    /\ on' = [on EXCEPT ![t] = Nobody]
    /\ UNCHANGED <<cancel, threads, pending, runCut, join, early, report>>

(* run_block returned: Ok; an error; an error a labels cut made fatal,     *)
(* which is set on the run before anything else, unless the agent was      *)
(* cancelled.                                                              *)
EndOk(a) ==
    /\ Goes(a, "body", "finished")
    /\ SetState(a, "done")
    /\ UNCHANGED <<cancel, on, threads, pending, runCut, join, early, report>>

EndError(a) ==
    /\ pc[a] = "body"
    /\ IF cancel[a]
       THEN pc' = [pc EXCEPT ![a] = "finished"] /\ SetState(a, "stopped")
       ELSE pc' = [pc EXCEPT ![a] = "failing"] /\ UNCHANGED table
    /\ UNCHANGED <<cancel, on, threads, pending, runCut, join, early, report>>

EndLabelsCut(a) ==
    /\ Goes(a, "body", "cutting")
    /\ ~cancel[a]
    /\ runCut' = TRUE
    /\ UNCHANGED <<table, cancel, on, threads, pending, join, early, report>>

(* set_labels_cut, without a signal; or Stopped, when the cancellation     *)
(* came in between.                                                        *)
SetLabelsCut(a) ==
    /\ Goes(a, "cutting", "finished")
    /\ SetState(a, IF cancel[a] THEN "stopped" ELSE "error")
    /\ UNCHANGED <<cancel, on, threads, pending, runCut, join, early, report>>

SetError(a) ==
    /\ Goes(a, "failing", "erred")
    /\ SetState(a, "error")
    /\ UNCHANGED <<cancel, on, threads, pending, runCut, join, early, report>>

SignalError(a) ==
    /\ Goes(a, "erred", "finished")
    /\ pending' = [pending EXCEPT ![a] = @ + 1]
    /\ UNCHANGED <<table, cancel, on, threads, runCut, join, early, report>>

(* The thread unwinds: nothing sets its state.                             *)
Panic(a) ==
    /\ Goes(a, "body", "finished")
    /\ UNCHANGED <<table, cancel, on, threads, pending, runCut, join, early, report>>

AgentStep(a) ==
    \/ StartWorking(a) \/ EndOk(a) \/ EndError(a) \/ EndLabelsCut(a)
    \/ SetLabelsCut(a) \/ SetError(a) \/ SignalError(a) \/ Panic(a)

ThreadStep(t) ==
    \/ \E a \in Agent : Register(t, a) \/ StopAgent(t, a)
    \/ \E c \in Channel : WaitFor(t, c)
    \/ Launch(t) \/ LaunchFails(t) \/ AddThread(t) \/ Signal(t)
    \/ Take(t) \/ GiveUp(t) \/ WaitEnds(t) \/ Resume(t)

-----------------------------------------------------------------------------
(* The program ends, by exit() or by reaching its end, and join_agents     *)
(* begins.  After exit(), a sweep over the agents registered by now comes  *)
(* before each round of joins.                                             *)
Registered == {a \in Agent : table[a] # "none"}

NextRound(exited) == IF exited THEN "sweep" ELSE "drain"

(* Mutant: exit() joins without stopping anyone.                            *)
MainEndsUnswept(exited) ==
    /\ Goes(Main, "body", "ended")
    /\ join' = [join EXCEPT !.at = "drain", !.exited = exited]
    /\ early' = {a \in Agent : table[a] = "error"}
    /\ UNCHANGED <<table, cancel, on, threads, pending, runCut, report>>

MainEnds(exited) ==
    /\ Goes(Main, "body", "ended")
    /\ join' = [join EXCEPT !.at = NextRound(exited), !.exited = exited,
                            !.todo = IF exited THEN Registered ELSE {}]
    /\ early' = {a \in Agent : table[a] = "error"}
    /\ UNCHANGED <<table, cancel, on, threads, pending, runCut, report>>

(* stop_agent, first half: is the agent active?                            *)
(* Mutant: an agent that already ended is stopped too.                      *)
SweepAll(a) ==
    /\ join.at = "sweep" /\ join.hit = Nobody /\ a \in join.todo
    /\ join' = [join EXCEPT !.todo = @ \ {a}, !.hit = IF a \in join.stopped THEN Nobody ELSE a]
    /\ UNCHANGED <<table, cancel, pc, on, threads, pending, runCut, early, report>>

Sweep(a) ==
    /\ join.at = "sweep" /\ join.hit = Nobody /\ a \in join.todo
    /\ join' = [join EXCEPT !.todo = @ \ {a},
                            !.hit = IF a \notin join.stopped /\ table[a] \in Active
                                    THEN a ELSE Nobody]
    /\ UNCHANGED <<table, cancel, pc, on, threads, pending, runCut, early, report>>

(* Second half: its token is cancelled, whatever it did since.             *)
SweepCancel ==
    /\ join.hit # Nobody
    /\ cancel' = [cancel EXCEPT ![join.hit] = TRUE]
    /\ join' = [join EXCEPT !.hit = Nobody, !.stopped = @ \cup {join.hit}]
    /\ UNCHANGED <<table, pc, on, threads, pending, runCut, early, report>>

SweepEnds ==
    /\ join.at = "sweep" /\ join.todo = {} /\ join.hit = Nobody
    /\ join' = [join EXCEPT !.at = "drain"]
    /\ UNCHANGED <<table, cancel, pc, on, threads, pending, runCut, early, report>>

(* join_round: take the handles there are now, then wait for each.         *)
Drain ==
    /\ join.at = "drain"
    /\ join' = [join EXCEPT !.at = IF threads = {} THEN "returned" ELSE "join",
                            !.round = threads]
    /\ threads' = {}
    /\ UNCHANGED <<table, cancel, pc, on, pending, runCut, early, report>>

Join(a) ==
    /\ join.at = "join" /\ a \in join.round /\ pc[a] = "finished"
    /\ join' = [join EXCEPT !.round = @ \ {a}]
    /\ UNCHANGED <<table, cancel, pc, on, threads, pending, runCut, early, report>>

(* Mutant: one round only, as before v0.6.50.                               *)
RoundEndsOnce ==
    /\ join.at = "join" /\ join.round = {}
    /\ join' = [join EXCEPT !.at = "returned"]
    /\ UNCHANGED <<table, cancel, pc, on, threads, pending, runCut, early, report>>

RoundEnds ==
    /\ join.at = "join" /\ join.round = {}
    /\ join' = [join EXCEPT !.at = NextRound(join.exited),
                            !.todo = IF join.exited THEN Registered ELSE {}]
    /\ UNCHANGED <<table, cancel, pc, on, threads, pending, runCut, early, report>>

(* agent_errors_but and close_swarm_run: a cut withholds everything.       *)
Report ==
    /\ join.at = "returned" /\ ~report.ready
    /\ report' = [ready |-> TRUE, withheld |-> runCut,
                  errors |-> IF runCut THEN {}
                             ELSE {a \in Agent : table[a] = "error"} \ join.stopped]
    /\ UNCHANGED <<table, cancel, pc, on, threads, pending, runCut, join, early>>

JoinStep ==
    \/ \E exited \in BOOLEAN : MainEnds(exited)
    \/ \E a \in Agent : Sweep(a) \/ Join(a)
    \/ SweepCancel \/ SweepEnds \/ Drain \/ RoundEnds \/ Report

Next ==
    \/ \E a \in Agent : AgentStep(a)
    \/ \E t \in Thread : ThreadStep(t)
    \/ JoinStep

Spec == Init /\ [][Next]_vars

(* Threads are scheduled.  A block may run for ever, but once its token is *)
(* cancelled the interpreter ends it at the next statement, and a wait     *)
(* returns at the latest at its deadline.                                  *)
Fairness ==
    /\ \A t \in Thread : WF_vars(Launch(t) \/ LaunchFails(t) \/ AddThread(t) \/ Resume(t)
                                 \/ Take(t) \/ GiveUp(t) \/ WaitEnds(t))
    /\ \A a \in Agent : WF_vars(\/ StartWorking(a) \/ SetLabelsCut(a)
                                \/ SetError(a) \/ SignalError(a))
    /\ \A a \in Agent : WF_vars(cancel[a] /\ (EndOk(a) \/ EndError(a)))
    /\ WF_vars(JoinStep /\ pc[Main] = "ended")

FairSpec == Spec /\ Fairness

-----------------------------------------------------------------------------
(* The tables have their declared types, and join_agents works on agents.  *)
TypeOK ==
    /\ table \in [Agent -> AgentState]
    /\ cancel \in [Agent -> BOOLEAN]
    /\ on \in [Thread -> Agent \cup {Chan, Nobody}]
    /\ threads \subseteq Agent
    /\ pending \in [Channel -> 0 .. MaxPending]
    /\ runCut \in BOOLEAN
    /\ join.todo \cup join.stopped \cup join.round \subseteq Agent
    /\ report.errors \subseteq Agent

(* When join_agents returns, every agent has ended, however deep the chain *)
(* of launches and whenever each was made: no thread outlives the result.  *)
AllJoined ==
    join.at = "returned" => \A a \in Agent : pc[a] \in {"none", "finished"}

(* The result of a run with a labels cut is withheld, whichever agent was  *)
(* cut and however late: nothing of a cut run reaches the output.          *)
CutIsWithheld ==
    report.ready /\ runCut => report.withheld /\ report.errors = {}

(* An agent in error before the program called exit() is reported, though  *)
(* exit() hides the agents it stops.                                       *)
EarlyErrorsReported ==
    report.ready /\ ~report.withheld => early \subseteq report.errors

(* An agent whose token is cancelled ends, wherever the cancellation finds *)
(* it: registered, launching another, waiting or working.  One that never  *)
(* got a thread has nothing to end.                                        *)
StoppedAgentsEnd ==
    \A a \in Agent : cancel[a] /\ pc[a] # "none" ~> pc[a] = "finished"

(* exit() ends the program if no agent is launching another.               *)
ExitReturns ==
    [](join.exited => \A a \in Agent : pc[a] \notin {"registered", "launched"})
        => (join.exited ~> report.ready)

(* exit() always ends the program: an agent being launched while the       *)
(* others are stopped is stopped too.                                      *)
ExitAlwaysReturns == join.exited ~> report.ready
==============================================================================
