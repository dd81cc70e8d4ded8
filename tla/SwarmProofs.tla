------------------------------ MODULE SwarmProofs ------------------------------
(***************************************************************************)
(* Proofs about Swarm, for any agents.  That join_agents leaves no thread  *)
(* behind rests on CoverInv, every living agent is in the list of threads, *)
(* in the current round, or still with the thread that launched it, and on *)
(* ForestInv: launching threads form no cycle, so that among living agents *)
(* one is not with another.                                                *)
(***************************************************************************)
EXTENDS Swarm, TLAPS

Points == {"none", "setup", "body", "registered", "launched", "waiting", "woken",
           "failing", "erred", "cutting", "finished", "ended"}
Launching == {"registered", "launched"}
Living(a) == pc[a] \notin {"none", "finished"}

Types ==
    /\ table \in [Agent -> AgentState]
    /\ cancel \in [Agent -> BOOLEAN]
    /\ pc \in [Thread -> Points]
    /\ on \in [Thread -> Agent \cup {Chan, Nobody}]
    /\ threads \in SUBSET Agent
    /\ pending \in [Channel -> 0 .. MaxPending]
    /\ runCut \in BOOLEAN
    /\ join \in [at : {"main", "sweep", "drain", "join", "returned"}, exited : BOOLEAN,
                 todo : SUBSET Agent, hit : Agent \cup {Nobody},
                 stopped : SUBSET Agent, round : SUBSET Agent]
    /\ early \in SUBSET Agent
    /\ report \in [ready : BOOLEAN, withheld : BOOLEAN, errors : SUBSET Agent]

(* What a thread launches or waits for.                                    *)
LaunchInv ==
    /\ \A t \in Thread : pc[t] \in Launching => on[t] \in Agent /\ table[on[t]] # "none"
    /\ \A t \in Thread : pc[t] = "registered" => pc[on[t]] = "none"
    /\ \A t, u \in Thread :
           pc[t] \in Launching /\ pc[u] \in Launching /\ on[t] = on[u] => t = u
    /\ \A t \in Thread : pc[t] = "waiting" => on[t] \in Channel
    /\ \A a \in Agent : (table[a] = "none" => pc[a] = "none") /\ pc[a] # "ended"
    /\ pc[Main] \notin {"none", "finished"}

(* In every set of agents one is not being launched by another of them.    *)
ForestInv ==
    \A S \in SUBSET Agent : S # {} =>
        \E a \in S : \A t \in S : ~(pc[t] \in Launching /\ on[t] = a)

CoverInv ==
    \A a \in Agent : Living(a) =>
        \/ a \in threads \cup join.round
        \/ \E t \in Thread : pc[t] = "launched" /\ on[t] = a

JoinInv ==
    /\ join.at = "main" <=> pc[Main] # "ended"
    /\ join.at = "main" => join.stopped = {}
    /\ join.at # "sweep" => join.hit = Nobody
    /\ join.at # "join" => join.round = {}
    /\ AllJoined

(* An error stays, and exit() does not hide one that was there before it.  *)
ErrorInv ==
    /\ \A a \in Agent : table[a] = "error" => pc[a] \in {"erred", "finished"}
    /\ \A a \in early : table[a] = "error" /\ a \notin join.stopped /\ a # join.hit

ReportInv ==
    report.ready =>
        /\ join.at = "returned"
        /\ report.withheld = runCut
        /\ IF runCut THEN report.errors = {} ELSE early \subseteq report.errors

(* An agent signals its error once.                                        *)
PendingInv == \A a \in Agent : pc[a] # "finished" => pending[a] = 0

IInv ==
    /\ Types /\ LaunchInv /\ ForestInv /\ CoverInv /\ JoinInv
    /\ ErrorInv /\ ReportInv /\ PendingInv

-----------------------------------------------------------------------------
LEMMA ConstantFacts ==
  /\ Main \notin Agent /\ Chan \notin Agent /\ Nobody \notin Agent
  /\ \A a \in Agent : a # Main /\ a # Chan /\ a # Nobody
  /\ MaxPending \in Nat \ {0}
  BY SwarmAssumption

LEMMA InitInv == Init => IInv
  <1> SUFFICES ASSUME Init PROVE IInv
    OBVIOUS
  <1> USE ConstantFacts DEF Init, Thread
  <1>1. Types
    <2>1. pending \in [Channel -> 0 .. MaxPending]
      BY DEF Channel
    <2>2. pc \in [Thread -> Points] /\ table \in [Agent -> AgentState]
      BY DEF Points, AgentState
    <2>3. join \in [at : {"main", "sweep", "drain", "join", "returned"}, exited : BOOLEAN,
                    todo : SUBSET Agent, hit : Agent \cup {Nobody},
                    stopped : SUBSET Agent, round : SUBSET Agent]
      OBVIOUS
    <2>4. report \in [ready : BOOLEAN, withheld : BOOLEAN, errors : SUBSET Agent]
      OBVIOUS
    <2> QED BY <2>1, <2>2, <2>3, <2>4 DEF Types
  <1>2. LaunchInv BY DEF LaunchInv, Launching
  <1>3. ForestInv BY DEF ForestInv, Launching
  <1>4. CoverInv BY DEF CoverInv, Living
  <1>5. JoinInv BY DEF JoinInv, AllJoined
  <1>6. ErrorInv BY DEF ErrorInv
  <1>7. ReportInv BY DEF ReportInv
  <1>8. PendingInv BY DEF PendingInv, Channel
  <1> QED BY <1>1, <1>2, <1>3, <1>4, <1>5, <1>6, <1>7, <1>8 DEF IInv

(* A thread goes on without launching anyone; nobody else moves.           *)
LEMMA MoveKeeps ==
  ASSUME IInv, NEW t \in Thread, NEW y \in Points,
         pc[t] \notin Launching \cup {"none", "finished", "ended"},
         y \notin Launching \cup {"none", "ended"}, t = Main => y # "finished",
         pc' = [pc EXCEPT ![t] = y],
         \A u \in Thread \ {t} : on'[u] = on[u],
         y = "waiting" => on'[t] \in Channel,
         UNCHANGED <<threads, join>>,
         \A a \in Agent : table'[a] = "none" <=> table[a] = "none"
  PROVE  LaunchInv' /\ ForestInv' /\ CoverInv' /\ JoinInv'
  <1> USE ConstantFacts DEF IInv, Thread
  <1>1. \A u \in Thread : pc'[u] = IF u = t THEN y ELSE pc[u]
    BY DEF Types
  <1>2. \A u \in Thread : pc'[u] \in Launching <=> pc[u] \in Launching
    BY <1>1
  <1>3. \A u \in Thread : pc[u] \in Launching => on'[u] = on[u] /\ pc'[u] = pc[u]
    BY <1>1
  <1>4. LaunchInv'
    <2>1. \A u \in Thread : pc[u] = "none" <=> pc'[u] = "none"
      BY <1>1
    <2> QED BY <1>1, <1>2, <1>3, <2>1 DEF LaunchInv, Launching
  <1>5. ForestInv'
    BY <1>2, <1>3 DEF ForestInv
  <1>6. CoverInv'
    BY <1>1, <1>2, <1>3 DEF CoverInv, Living, Launching
  <1>7. JoinInv'
    BY <1>1 DEF JoinInv, AllJoined
  <1> QED BY <1>4, <1>5, <1>6, <1>7

(* Once join_agents has returned nobody moves, and the report stands.      *)
LEMMA BeforeReturn ==
  ASSUME IInv, NEW t \in Thread, pc[t] \notin {"none", "finished", "ended"}
  PROVE  join.at # "returned" /\ ~report.ready
  BY ConstantFacts DEF IInv, JoinInv, AllJoined, ReportInv, Thread

(* Steps of an agent's thread.                                             *)
LEMMA AgentKeeps ==
  ASSUME IInv, NEW a \in Agent, AgentStep(a)
  PROVE  IInv'
  <1> DEFINE y == pc'[a]
  <1> USE ConstantFacts DEF Goes, SetState
  <1> USE DEF AgentStep
  <1>1. /\ pc[a] \in {"setup", "body", "cutting", "failing", "erred"}
        /\ y \in {"body", "finished", "failing", "cutting", "erred"}
        /\ pc' = [pc EXCEPT ![a] = y] /\ UNCHANGED <<cancel, on, threads, join, early, report>>
    BY DEF IInv, Types, Thread, StartWorking, EndOk, EndError, EndLabelsCut, SetLabelsCut,
       SetError, SignalError, Panic
  <1>2. /\ table' \in [Agent -> AgentState] /\ \A b \in Agent \ {a} : table'[b] = table[b]
        /\ table'[a] # "none"
        /\ table'[a] = "error" => y \in {"erred", "finished"}
        /\ table[a] = "error" => table'[a] = "error"
    <2>1. table[a] # "none" /\ (table[a] = "error" => pc[a] \in {"erred", "finished"})
      BY <1>1 DEF IInv, LaunchInv, ErrorInv
    <2> QED BY <1>1, <2>1 DEF IInv, Types, Thread, AgentState, StartWorking, EndOk, EndError, EndLabelsCut,
       SetLabelsCut, SetError, SignalError, Panic
  <1>3. /\ pending' \in [Channel -> 0 .. MaxPending]
        /\ \A b \in Agent : y # "finished" \/ b # a => pending'[b] = pending[b]
    <2>1. CASE SignalError(a)
      <3>1. pending[a] = 0 /\ a \in Channel
        BY <1>1, <2>1 DEF IInv, PendingInv, Channel
      <3>2. y = "finished"
        BY <2>1 DEF SignalError, IInv, Types, Thread
      <3>3. pending' = [pending EXCEPT ![a] = @ + 1]
        BY <2>1 DEF SignalError
      <3> QED BY <3>1, <3>2, <3>3 DEF IInv, Types, Channel
    <2>2. CASE ~SignalError(a)
      BY <2>2 DEF IInv, Types, StartWorking, EndOk, EndError, EndLabelsCut,
         SetLabelsCut, SetError, Panic
    <2> QED BY <2>1, <2>2
  <1>4. runCut' \in BOOLEAN
    BY DEF IInv, Types, StartWorking, EndOk, EndError, EndLabelsCut, SetLabelsCut, SetError,
       SignalError, Panic
  <1> HIDE DEF AgentStep, y
  <1>5. a \in Thread /\ a # Main /\ \A b \in Agent : b \in Thread
    BY DEF Thread
  <1>6. \A b \in Agent : pc'[b] = IF b = a THEN y ELSE pc[b]
    BY <1>1, <1>5 DEF IInv, Types
  <1>7. Types'
    <2>1. pc' \in [Thread -> Points]
      BY <1>1, <1>5 DEF IInv, Types, Points
    <2> QED BY <1>1, <1>2, <1>3, <1>4, <2>1 DEF IInv, Types
  <1>8. LaunchInv' /\ ForestInv' /\ CoverInv' /\ JoinInv'
    <2>1. \A b \in Agent : table'[b] = "none" <=> table[b] = "none"
      BY <1>1, <1>2 DEF IInv, LaunchInv
    <2>2. /\ y \in Points /\ y \notin Launching \cup {"none", "ended", "waiting"}
          /\ pc[a] \notin Launching \cup {"none", "finished", "ended"}
      BY <1>1 DEF Points, Launching
    <2> QED BY <1>1, <1>5, <2>1, <2>2, MoveKeeps
  <1>9. ErrorInv'
    <2>1. \A b \in Agent : table[b] = "error" => table'[b] = "error"
      BY <1>2
    <2>2. \A b \in Agent : table'[b] = "error" => pc'[b] \in {"erred", "finished"}
      BY <1>2, <1>6 DEF IInv, ErrorInv
    <2> QED BY <1>1, <2>1, <2>2 DEF IInv, ErrorInv, Types
  <1>10. ReportInv'
    BY <1>1, <1>5, BeforeReturn DEF ReportInv
  <1>11. PendingInv'
    BY <1>1, <1>3, <1>6 DEF IInv, PendingInv
  <1> QED BY <1>7, <1>8, <1>9, <1>10, <1>11 DEF IInv

LEMMA StateSet ==
  ASSUME Types, NEW t \in Thread, NEW s \in AgentState, SetState(t, s)
  PROVE  /\ table' \in [Agent -> AgentState]
         /\ \A b \in Agent : table'[b] = table[b] \/ (b = t /\ table'[b] = s)
  <1>1. CASE t \in Agent
    <2>1. table' = [table EXCEPT ![t] = s] /\ table \in [Agent -> AgentState]
      BY <1>1 DEF SetState, Types
    <2> QED BY <1>1, <2>1
  <1>2. CASE t \notin Agent
    BY <1>2 DEF SetState, Types
  <1> QED BY <1>1, <1>2

(* Waiting, signalling and stopping.                                       *)
LEMMA WaitKeeps ==
  ASSUME IInv, NEW t \in Thread,
         Take(t) \/ GiveUp(t) \/ WaitEnds(t) \/ Resume(t) \/ \E c \in Channel : WaitFor(t, c)
  PROVE  IInv'
  <1> DEFINE y == pc'[t]
  <1> USE ConstantFacts DEF Goes
  <1>1. /\ pc[t] \in {"body", "waiting", "woken"} /\ y \in {"waiting", "woken", "body"}
        /\ pc' = [pc EXCEPT ![t] = y]
        /\ UNCHANGED <<cancel, threads, runCut, join, early, report>>
    BY DEF IInv, Types, Take, GiveUp, WaitEnds, Resume, WaitFor
  <1>2. /\ table' \in [Agent -> AgentState]
        /\ \A b \in Agent : table'[b] = table[b]
             \/ (b = t /\ table'[b] \in {"waiting", "working"})
    <2>1. table' = table \/ SetState(t, "waiting") \/ SetState(t, "working")
      BY DEF Take, GiveUp, WaitEnds, Resume, WaitFor
    <2>2. "waiting" \in AgentState /\ "working" \in AgentState
      BY DEF AgentState
    <2>3. CASE table' = table
      BY <2>3 DEF IInv, Types
    <2>4. CASE SetState(t, "waiting")
      BY <2>2, <2>4, StateSet DEF IInv
    <2>5. CASE SetState(t, "working")
      BY <2>2, <2>5, StateSet DEF IInv
    <2> QED BY <2>1, <2>3, <2>4, <2>5
  <1>3. /\ on' \in [Thread -> Agent \cup {Chan, Nobody}]
        /\ \A u \in Thread \ {t} : on'[u] = on[u]
        /\ y = "waiting" => on'[t] \in Channel
    BY DEF IInv, Types, Take, GiveUp, WaitEnds, Resume, WaitFor, Channel
  <1>4. /\ pending' \in [Channel -> 0 .. MaxPending]
        /\ \A c \in Channel : pending[c] = 0 => pending'[c] = 0
    <2>1. CASE Take(t)
      <3>1. on[t] \in Channel /\ pending[on[t]] > 0
            /\ pending' = [pending EXCEPT ![on[t]] = @ - 1]
        BY <2>1 DEF Take, IInv, LaunchInv
      <3> QED BY <3>1 DEF IInv, Types
    <2>2. CASE ~Take(t)
      BY <2>2 DEF IInv, Types, GiveUp, WaitEnds, Resume, WaitFor
    <2> QED BY <2>1, <2>2
  <1> HIDE DEF y
  <1>5. \A u \in Thread : pc'[u] = IF u = t THEN y ELSE pc[u]
    BY <1>1 DEF IInv, Types
  <1>6. Types'
    <2>1. pc' \in [Thread -> Points]
      BY <1>1 DEF IInv, Types, Points
    <2> QED BY <1>1, <1>2, <1>3, <1>4, <2>1 DEF IInv, Types
  <1>7. LaunchInv' /\ ForestInv' /\ CoverInv' /\ JoinInv'
    <2>1. \A b \in Agent : table'[b] = "none" <=> table[b] = "none"
      BY <1>1, <1>2 DEF IInv, LaunchInv
    <2>2. /\ y \in Points /\ y \notin Launching \cup {"none", "ended", "finished"}
          /\ pc[t] \notin Launching \cup {"none", "finished", "ended"}
      BY <1>1 DEF Points, Launching
    <2> QED BY <1>1, <1>3, <2>1, <2>2, MoveKeeps
  <1>8. ErrorInv'
    <2>1. \A b \in Agent : table[b] = "error" => table'[b] = "error" /\ pc'[b] = pc[b]
      BY <1>1, <1>2, <1>5 DEF IInv, ErrorInv, Thread
    <2>2. \A b \in Agent : table'[b] = "error" => table[b] = "error"
      BY <1>2
    <2> QED BY <1>1, <2>1, <2>2 DEF IInv, ErrorInv, Types
  <1>9. ReportInv'
    BY <1>1, BeforeReturn DEF ReportInv
  <1>10. PendingInv'
    <2>1. \A b \in Agent : pc'[b] # "finished" => pc[b] # "finished"
      BY <1>1, <1>5 DEF Thread
    <2> QED BY <1>4, <2>1 DEF IInv, PendingInv, Channel
  <1> QED BY <1>6, <1>7, <1>8, <1>9, <1>10 DEF IInv

LEMMA SignalKeeps ==
  ASSUME IInv, NEW t \in Thread, Signal(t)
  PROVE  IInv'
  <1> USE ConstantFacts DEF Signal, IInv
  <1>1. /\ UNCHANGED <<table, cancel, pc, on, threads, runCut, join, early, report>>
        /\ pending' \in [Channel -> 0 .. MaxPending]
        /\ \A b \in Agent : pending'[b] = pending[b]
    BY DEF Types, Channel
  <1>2. Types' BY <1>1 DEF Types
  <1>3. LaunchInv' BY <1>1 DEF LaunchInv
  <1>4. ForestInv' BY <1>1 DEF ForestInv
  <1>5. CoverInv' BY <1>1 DEF CoverInv, Living
  <1>6. JoinInv' /\ ErrorInv' BY <1>1 DEF JoinInv, AllJoined, ErrorInv
  <1>7. ReportInv' /\ PendingInv' BY <1>1 DEF ReportInv, PendingInv
  <1> HIDE DEF Signal
  <1> QED BY <1>2, <1>3, <1>4, <1>5, <1>6, <1>7

LEMMA StopAgentKeeps ==
  ASSUME IInv, NEW t \in Thread, NEW a \in Agent, StopAgent(t, a)
  PROVE  IInv'
  <1> USE DEF IInv
  <1>1. /\ UNCHANGED <<table, pc, on, threads, pending, runCut, join, early, report>>
        /\ cancel' \in [Agent -> BOOLEAN]
    BY DEF StopAgent, Types
  <1>2. Types' BY <1>1 DEF Types
  <1>3. LaunchInv' BY <1>1 DEF LaunchInv
  <1>4. ForestInv' BY <1>1 DEF ForestInv
  <1>5. CoverInv' BY <1>1 DEF CoverInv, Living
  <1>6. JoinInv' /\ ErrorInv' BY <1>1 DEF JoinInv, AllJoined, ErrorInv
  <1>7. ReportInv' /\ PendingInv' BY <1>1 DEF ReportInv, PendingInv
  <1> QED BY <1>2, <1>3, <1>4, <1>5, <1>6, <1>7

-----------------------------------------------------------------------------
(* An agent is registered: it launches nobody yet, so no cycle is closed.  *)
LEMMA RegisterKeeps ==
  ASSUME IInv, NEW t \in Thread, NEW a \in Agent, Register(t, a)
  PROVE  IInv'
  <1> USE ConstantFacts DEF Goes
  <1>1. /\ pc[t] = "body" /\ table[a] = "none"
        /\ UNCHANGED <<cancel, threads, pending, runCut, join, early, report>>
        /\ \A u \in Thread : pc'[u] = IF u = t THEN "registered" ELSE pc[u]
        /\ \A b \in Agent : table'[b] = IF b = a THEN "starting" ELSE table[b]
        /\ \A u \in Thread : on'[u] = IF u = t THEN a ELSE on[u]
    BY DEF Register, Free, IInv, Types
  <1>2. a \in Thread /\ a # t /\ pc[a] = "none" /\ \A b \in Agent : b \in Thread
    BY <1>1 DEF IInv, LaunchInv, Thread
  <1>3. \A u \in Thread : pc[u] \in Launching => on[u] \in Agent /\ on[u] # a /\ u # t
    BY <1>1 DEF IInv, LaunchInv, Launching
  <1>4. Types'
    BY DEF Register, IInv, Types, AgentState, Points
  <1>5. LaunchInv'
    <2>1. \A u \in Thread : pc'[u] \in Launching => on'[u] \in Agent /\ table'[on'[u]] # "none"
      BY <1>1, <1>3 DEF IInv, LaunchInv
    <2>2. \A u \in Thread : pc'[u] = "registered" => pc'[on'[u]] = "none"
      <3> SUFFICES ASSUME NEW u \in Thread, pc'[u] = "registered"
                   PROVE  pc'[on'[u]] = "none"
        OBVIOUS
      <3>1. CASE u = t
        BY <1>1, <1>2, <3>1
      <3>2. CASE u # t
        BY <1>1, <1>2, <1>3, <3>2 DEF IInv, LaunchInv, Launching
      <3> QED BY <3>1, <3>2
    <2>3. \A u, v \in Thread :
            pc'[u] \in Launching /\ pc'[v] \in Launching /\ on'[u] = on'[v] => u = v
      BY <1>1, <1>3 DEF IInv, LaunchInv
    <2>4. \A u \in Thread : pc'[u] = "waiting" => on'[u] \in Channel
      BY <1>1 DEF IInv, LaunchInv
    <2>5. /\ \A b \in Agent : (table'[b] = "none" => pc'[b] = "none") /\ pc'[b] # "ended"
          /\ pc'[Main] \notin {"none", "finished"}
      BY <1>1, <1>2 DEF IInv, LaunchInv, Thread
    <2> QED BY <2>1, <2>2, <2>3, <2>4, <2>5 DEF LaunchInv
  <1>6. ForestInv'
    <2> SUFFICES ASSUME NEW S \in SUBSET Agent, S # {}
                 PROVE  \E b \in S : \A u \in S : ~(pc'[u] \in Launching /\ on'[u] = b)
      BY DEF ForestInv
    <2>1. \A u \in S : u \in Thread
      BY <1>2
    <2>2. pc'[a] \notin Launching
      BY <1>1, <1>2 DEF Launching
    <2>3. CASE S \ {a} = {}
      BY <2>2, <2>3
    <2>4. CASE S \ {a} # {}
      <3>1. PICK b \in S \ {a} : \A u \in S \ {a} : ~(pc[u] \in Launching /\ on[u] = b)
        BY <2>4 DEF IInv, ForestInv
      <3>2. \A u \in S : ~(pc'[u] \in Launching /\ on'[u] = b)
        BY <1>1, <2>1, <2>2, <3>1
      <3> QED BY <3>2
    <2> QED BY <2>3, <2>4
  <1>7. CoverInv'
    <2>1. \A b \in Agent : Living(b)' => Living(b)
      BY <1>1 DEF Living, Thread
    <2>2. \A u \in Thread : pc[u] = "launched" => pc'[u] = "launched" /\ on'[u] = on[u]
      BY <1>1
    <2> QED BY <1>1, <2>1, <2>2 DEF IInv, CoverInv
  <1>8. JoinInv'
    <2>1. join.at # "returned"
      BY <1>1, BeforeReturn
    <2> QED BY <1>1, <2>1 DEF IInv, JoinInv, AllJoined, Thread
  <1>9. ErrorInv'
    BY <1>1, <1>2 DEF IInv, Types, ErrorInv, Thread
  <1>10. ReportInv'
    BY <1>1, BeforeReturn DEF ReportInv
  <1>11. PendingInv'
    BY <1>1, <1>2 DEF IInv, PendingInv
  <1> QED BY <1>4, <1>5, <1>6, <1>7, <1>8, <1>9, <1>10, <1>11 DEF IInv

LEMMA LaunchKeeps ==
  ASSUME IInv, NEW t \in Thread, Launch(t)
  PROVE  IInv'
  <1> DEFINE a == on[t]
  <1> USE ConstantFacts
  <1>1. /\ pc[t] = "registered" /\ a \in Agent /\ a \in Thread /\ pc[a] = "none" /\ a # t
        /\ table[a] # "none" /\ \A b \in Agent : b \in Thread
    BY DEF Launch, IInv, LaunchInv, Launching, Thread
  <1>2. UNCHANGED <<table, cancel, on, threads, pending, runCut, join, early, report>>
    BY DEF Launch
  <1>3. \A u \in Thread : pc'[u] = IF u = a THEN "setup" ELSE IF u = t THEN "launched" ELSE pc[u]
    BY <1>1 DEF Launch, IInv, Types
  <1>4. pc' \in [Thread -> Points]
    BY <1>1 DEF Launch, IInv, Types, Points
  <1> HIDE DEF a
  <1>5. \A u \in Thread : pc'[u] \in Launching <=> pc[u] \in Launching
    BY <1>1, <1>3 DEF Launching
  <1>6. Types'
    BY <1>2, <1>4 DEF IInv, Types
  <1>7. LaunchInv'
    <2>1. \A u \in Thread : pc'[u] = "registered" => pc[u] = "registered" /\ u # t
      BY <1>1, <1>3
    <2>2. \A u \in Thread : pc'[u] = "registered" => on[u] # a /\ on[u] \in Thread /\ on[u] # t
                                                     /\ pc[on[u]] = "none"
      BY <1>1, <2>1 DEF IInv, LaunchInv, Launching, a
    <2>3. \A u \in Thread : pc'[u] = "registered" => pc'[on[u]] = "none"
      BY <1>3, <2>2
    <2>4. /\ \A b \in Agent : (table[b] = "none" => pc'[b] = "none") /\ pc'[b] # "ended"
          /\ pc'[Main] \notin {"none", "finished"}
      <3>1. Main \in Thread /\ Main # a
        BY <1>1 DEF Thread
      <3>2. table[t] # "none" \/ t \notin Agent
        BY <1>1 DEF IInv, LaunchInv
      <3> QED BY <1>1, <1>3, <3>1, <3>2 DEF IInv, LaunchInv
    <2>5. \A u \in Thread : pc'[u] = "waiting" => on[u] \in Channel
      BY <1>3 DEF IInv, LaunchInv
    <2> QED BY <1>2, <1>5, <2>3, <2>4, <2>5 DEF IInv, LaunchInv
  <1>8. ForestInv'
    <2>1. \A S \in SUBSET Agent : \A u \in S : u \in Thread
      BY <1>1
    <2> QED BY <1>2, <1>5, <2>1 DEF IInv, ForestInv
  <1>9. CoverInv'
    <2> SUFFICES ASSUME NEW b \in Agent, Living(b)'
                 PROVE  b \in threads \cup join.round \/ \E u \in Thread : pc'[u] = "launched" /\ on[u] = b
      BY <1>2 DEF CoverInv
    <2>1. CASE b = a
      BY <1>1, <1>3, <2>1 DEF a
    <2>2. CASE b # a
      <3>1. Living(b)
        BY <1>1, <1>3, <2>2 DEF Living
      <3>2. \A u \in Thread : pc[u] = "launched" => pc'[u] = "launched"
        BY <1>1, <1>3
      <3> QED BY <3>1, <3>2 DEF IInv, CoverInv
    <2> QED BY <2>1, <2>2
  <1>10. JoinInv'
    <2>1. join.at # "returned"
      BY <1>1, BeforeReturn
    <2>2. pc'[Main] = "ended" <=> pc[Main] = "ended"
      BY <1>1, <1>3 DEF Thread
    <2> QED BY <1>2, <2>1, <2>2 DEF IInv, JoinInv, AllJoined
  <1>11. ErrorInv'
    BY <1>1, <1>2, <1>3 DEF IInv, ErrorInv
  <1>12. ReportInv'
    BY <1>1, <1>2, BeforeReturn DEF ReportInv
  <1>13. PendingInv'
    BY <1>1, <1>2, <1>3 DEF IInv, PendingInv
  <1> QED BY <1>6, <1>7, <1>8, <1>9, <1>10, <1>11, <1>12, <1>13 DEF IInv

LEMMA LaunchFailsKeeps ==
  ASSUME IInv, NEW t \in Thread, LaunchFails(t)
  PROVE  IInv'
  <1> DEFINE y == IF t = Main THEN "ended" ELSE "finished"
  <1> USE ConstantFacts
  <1>1. /\ pc[t] = "registered" /\ join.at # "returned" /\ ~report.ready
        /\ \A b \in Agent : b \in Thread /\ b # Main
        /\ Main \in Thread /\ (t # Main => t \in Agent)
    BY BeforeReturn DEF LaunchFails, Goes, Thread
  <1>2. /\ UNCHANGED <<table, cancel, on, threads, pending, runCut, report>>
        /\ pc' = [pc EXCEPT ![t] = y]
        /\ join' = IF t = Main THEN [join EXCEPT !.at = "drain"] ELSE join
        /\ early' = IF t = Main THEN {a \in Agent : table[a] = "error"} ELSE early
    BY DEF LaunchFails, Goes
  <1>3. \A u \in Thread : pc'[u] = IF u = t THEN y ELSE pc[u]
    BY <1>2 DEF IInv, Types
  <1>4. /\ t # Main => join' = join
        /\ t = Main => /\ join.at = "main" /\ join'.at = "drain" /\ join'.hit = Nobody
                       /\ join'.stopped = {} /\ join'.round = {}
    BY <1>1, <1>2 DEF IInv, JoinInv, Types
  <1>5. join'.round = join.round
    BY <1>4 DEF IInv, JoinInv
  <1>6. Types'
    <2>1. pc' \in [Thread -> Points]
      BY <1>2 DEF IInv, Types, Points
    <2>2. join' \in [at : {"main", "sweep", "drain", "join", "returned"}, exited : BOOLEAN,
                     todo : SUBSET Agent, hit : Agent \cup {Nobody},
                     stopped : SUBSET Agent, round : SUBSET Agent]
      BY <1>2 DEF IInv, Types
    <2>3. early' \in SUBSET Agent
      BY <1>2 DEF IInv, Types
    <2> QED BY <1>2, <2>1, <2>2, <2>3 DEF IInv, Types
  <1> HIDE DEF y
  <1>7. y \notin Launching \cup {"none", "waiting"} /\ y = (IF t = Main THEN "ended" ELSE "finished")
    BY DEF y, Launching
  <1>8. LaunchInv'
    <2>1. \A u \in Thread : (pc'[u] \in Launching => pc[u] \in Launching)
                         /\ (pc'[u] \in {"registered", "waiting"} => pc'[u] = pc[u])
      BY <1>3, <1>7 DEF Launching
    <2>2. \A u \in Thread : pc'[u] = "registered" => pc'[on[u]] = "none"
      <3> SUFFICES ASSUME NEW u \in Thread, pc'[u] = "registered" PROVE pc'[on[u]] = "none"
        OBVIOUS
      <3>1. pc[on[u]] = "none" /\ on[u] \in Thread
        BY <1>1, <2>1 DEF IInv, LaunchInv, Launching
      <3> QED BY <1>1, <1>3, <3>1
    <2>3. /\ \A b \in Agent : (table[b] = "none" => pc'[b] = "none") /\ pc'[b] # "ended"
          /\ pc'[Main] \notin {"none", "finished"}
      BY <1>1, <1>3, <1>7 DEF IInv, LaunchInv
    <2> QED BY <1>2, <2>1, <2>2, <2>3 DEF IInv, LaunchInv
  <1>9. ForestInv'
    <2>1. \A S \in SUBSET Agent : \A u \in S : u \in Thread
      BY <1>1
    <2>2. \A u \in Thread : pc'[u] \in Launching => pc[u] \in Launching
      BY <1>3, <1>7
    <2> QED BY <1>2, <2>1, <2>2 DEF IInv, ForestInv
  <1>10. CoverInv'
    <2>1. \A b \in Agent : Living(b)' => Living(b)
      BY <1>1, <1>3, <1>7 DEF Living
    <2>2. \A u \in Thread : pc[u] = "launched" => pc'[u] = "launched"
      BY <1>1, <1>3
    <2> QED BY <1>2, <1>5, <2>1, <2>2 DEF IInv, CoverInv
  <1>11. JoinInv'
    <2>1. pc'[Main] = "ended" <=> t = Main \/ pc[Main] = "ended"
      BY <1>1, <1>3, <1>7
    <2>2. join'.at # "returned"
      BY <1>1, <1>4
    <2> QED BY <1>4, <2>1, <2>2 DEF IInv, JoinInv, AllJoined
  <1>12. ErrorInv'
    <2>1. \A b \in Agent : table[b] = "error" => pc'[b] \in {"erred", "finished"}
      BY <1>1, <1>3 DEF IInv, ErrorInv
    <2>2. \A b \in early' : table[b] = "error" /\ b \notin join'.stopped /\ b # join'.hit
      <3>1. CASE t = Main
        BY <1>2, <1>4, <3>1
      <3>2. CASE t # Main
        BY <1>2, <1>4, <3>2 DEF IInv, ErrorInv
      <3> QED BY <3>1, <3>2
    <2> QED BY <1>2, <2>1, <2>2 DEF ErrorInv
  <1>13. ReportInv'
    BY <1>1, <1>2 DEF ReportInv
  <1>14. PendingInv'
    BY <1>1, <1>2, <1>3 DEF IInv, PendingInv
  <1> QED BY <1>6, <1>8, <1>9, <1>10, <1>11, <1>12, <1>13, <1>14 DEF IInv

(* The handle passes from the launching thread to the list.                *)
LEMMA AddThreadKeeps ==
  ASSUME IInv, NEW t \in Thread, AddThread(t)
  PROVE  IInv'
  <1> DEFINE a == on[t]
  <1> USE ConstantFacts
  <1>1. /\ pc[t] = "launched" /\ a \in Agent /\ join.at # "returned" /\ ~report.ready
        /\ \A b \in Agent : b \in Thread
    BY BeforeReturn DEF AddThread, Goes, IInv, LaunchInv, Launching, Thread
  <1>2. /\ UNCHANGED <<table, cancel, pending, runCut, join, early, report>>
        /\ pc' = [pc EXCEPT ![t] = "body"] /\ on' = [on EXCEPT ![t] = Nobody]
        /\ threads' = threads \cup {a}
    BY DEF AddThread, Goes
  <1> HIDE DEF a
  <1>3. \A u \in Thread : /\ pc'[u] = IF u = t THEN "body" ELSE pc[u]
                          /\ on'[u] = IF u = t THEN Nobody ELSE on[u]
    BY <1>2 DEF IInv, Types
  <1>4. Types'
    <2>1. pc' \in [Thread -> Points]
      BY <1>2 DEF IInv, Types, Points
    <2>2. on' \in [Thread -> Agent \cup {Chan, Nobody}] /\ threads' \in SUBSET Agent
      BY <1>1, <1>2 DEF IInv, Types
    <2> QED BY <1>2, <2>1, <2>2 DEF IInv, Types
  <1>5. \A u \in Thread : /\ (pc'[u] \in Launching => u # t /\ pc[u] \in Launching)
                          /\ (pc'[u] \in {"registered", "waiting"} => u # t /\ pc'[u] = pc[u])
    BY <1>3 DEF Launching
  <1>6. LaunchInv'
    <2>1. \A u \in Thread : pc'[u] = "registered" => pc'[on'[u]] = "none"
      <3> SUFFICES ASSUME NEW u \in Thread, pc'[u] = "registered" PROVE pc'[on'[u]] = "none"
        OBVIOUS
      <3>1. pc[on[u]] = "none" /\ on[u] \in Thread /\ on'[u] = on[u]
        BY <1>1, <1>3, <1>5 DEF IInv, LaunchInv, Launching
      <3> QED BY <1>1, <1>3, <3>1
    <2>2. \A u \in Thread : pc'[u] \in Launching \/ pc'[u] = "waiting" => on'[u] = on[u]
      BY <1>3, <1>5
    <2>3. /\ \A b \in Agent : (table[b] = "none" => pc'[b] = "none") /\ pc'[b] # "ended"
          /\ pc'[Main] \notin {"none", "finished"}
      BY <1>1, <1>3 DEF IInv, LaunchInv, Thread
    <2> QED BY <1>2, <1>5, <2>1, <2>2, <2>3 DEF IInv, LaunchInv
  <1>7. ForestInv'
    <2>1. \A S \in SUBSET Agent : \A u \in S : u \in Thread
      BY <1>1
    <2>2. \A u \in Thread : pc'[u] \in Launching => pc[u] \in Launching /\ on'[u] = on[u]
      BY <1>3, <1>5
    <2> QED BY <2>1, <2>2 DEF IInv, ForestInv
  <1>8. CoverInv'
    <2>1. \A b \in Agent : Living(b)' => Living(b)
      BY <1>1, <1>3 DEF Living
    <2>2. \A u \in Thread : pc[u] = "launched" /\ on[u] # a => pc'[u] = "launched" /\ on'[u] = on[u]
      BY <1>3 DEF a
    <2> QED BY <1>2, <2>1, <2>2 DEF IInv, CoverInv
  <1>9. JoinInv'
    <2>1. pc'[Main] = "ended" <=> pc[Main] = "ended"
      BY <1>1, <1>3 DEF Thread
    <2> QED BY <1>1, <1>2, <2>1 DEF IInv, JoinInv, AllJoined
  <1>10. ErrorInv'
    BY <1>1, <1>2, <1>3 DEF IInv, ErrorInv
  <1>11. ReportInv'
    BY <1>1, <1>2 DEF ReportInv
  <1>12. PendingInv'
    BY <1>1, <1>2, <1>3 DEF IInv, PendingInv
  <1> QED BY <1>4, <1>6, <1>7, <1>8, <1>9, <1>10, <1>11, <1>12 DEF IInv

-----------------------------------------------------------------------------
(* The end of the program.                                                 *)
LEMMA MainEndsKeeps ==
  ASSUME IInv, NEW exited \in BOOLEAN, MainEnds(exited)
  PROVE  IInv'
  <1> USE ConstantFacts
  <1>1. /\ pc[Main] = "body" /\ Main \in Thread /\ \A b \in Agent : b \in Thread /\ b # Main
        /\ ~report.ready /\ join.at = "main" /\ join.hit = Nobody /\ join.stopped = {}
        /\ join.round = {}
    BY BeforeReturn DEF MainEnds, Goes, Thread, IInv, JoinInv
  <1>2. /\ UNCHANGED <<table, cancel, on, threads, pending, runCut, report>>
        /\ pc' = [pc EXCEPT ![Main] = "ended"]
        /\ early' = {a \in Agent : table[a] = "error"}
    BY DEF MainEnds, Goes
  <1>3. \A u \in Thread : pc'[u] = IF u = Main THEN "ended" ELSE pc[u]
    BY <1>2 DEF IInv, Types
  <1>4. /\ join' \in [at : {"main", "sweep", "drain", "join", "returned"}, exited : BOOLEAN,
                      todo : SUBSET Agent, hit : Agent \cup {Nobody},
                      stopped : SUBSET Agent, round : SUBSET Agent]
        /\ join'.at \in {"sweep", "drain"} /\ join'.hit = Nobody
        /\ join'.stopped = {} /\ join'.round = {}
    BY <1>1 DEF MainEnds, NextRound, Registered, IInv, Types
  <1>5. Types'
    <2>1. pc' \in [Thread -> Points] /\ early' \in SUBSET Agent
      BY <1>2 DEF IInv, Types, Points
    <2> QED BY <1>2, <1>4, <2>1 DEF IInv, Types
  <1>6. LaunchInv'
    <2>1. \A u \in Thread : /\ (pc'[u] \in Launching => pc[u] \in Launching)
                            /\ (pc'[u] \in {"registered", "waiting"} => pc'[u] = pc[u])
      BY <1>3 DEF Launching
    <2>2. \A u \in Thread : pc'[u] = "registered" => pc'[on[u]] = "none"
      <3> SUFFICES ASSUME NEW u \in Thread, pc'[u] = "registered" PROVE pc'[on[u]] = "none"
        OBVIOUS
      <3>1. pc[on[u]] = "none" /\ on[u] \in Thread
        BY <1>1, <2>1 DEF IInv, LaunchInv, Launching
      <3> QED BY <1>1, <1>3, <3>1
    <2>3. /\ \A b \in Agent : (table[b] = "none" => pc'[b] = "none") /\ pc'[b] # "ended"
          /\ pc'[Main] \notin {"none", "finished"}
      BY <1>1, <1>3 DEF IInv, LaunchInv
    <2> QED BY <1>2, <2>1, <2>2, <2>3 DEF IInv, LaunchInv
  <1>7. ForestInv'
    <2>1. \A S \in SUBSET Agent : \A u \in S : u \in Thread
      BY <1>1
    <2>2. \A u \in Thread : pc'[u] \in Launching => pc[u] \in Launching
      BY <1>3 DEF Launching
    <2> QED BY <1>2, <2>1, <2>2 DEF IInv, ForestInv
  <1>8. CoverInv'
    <2>1. \A b \in Agent : Living(b)' => Living(b)
      BY <1>1, <1>3 DEF Living
    <2>2. \A u \in Thread : pc[u] = "launched" => pc'[u] = "launched"
      BY <1>1, <1>3
    <2> QED BY <1>1, <1>2, <1>4, <2>1, <2>2 DEF IInv, CoverInv
  <1>9. JoinInv'
    BY <1>1, <1>3, <1>4 DEF JoinInv, AllJoined
  <1>10. ErrorInv'
    BY <1>1, <1>2, <1>3, <1>4 DEF IInv, ErrorInv
  <1>11. ReportInv'
    BY <1>1, <1>2 DEF ReportInv
  <1>12. PendingInv'
    BY <1>1, <1>2, <1>3 DEF IInv, PendingInv
  <1> QED BY <1>5, <1>6, <1>7, <1>8, <1>9, <1>10, <1>11, <1>12 DEF IInv

(* A step of join_agents that only notes where it is.                      *)
LEMMA JoinerKeeps ==
  ASSUME IInv, UNCHANGED <<table, pc, on, pending, runCut, early, report>>,
         Types', CoverInv', ~report.ready, join.at # "main",
         join'.at # "main", join'.at # "join" => join'.round = {}, AllJoined',
         join'.at # "sweep" => join'.hit = Nobody,
         \A a \in early : a \notin join'.stopped /\ a # join'.hit
  PROVE  IInv'
  <1>1. LaunchInv'
    BY DEF IInv, LaunchInv
  <1>2. ForestInv'
    BY DEF IInv, ForestInv
  <1>3. JoinInv'
    BY DEF IInv, JoinInv
  <1>4. ErrorInv'
    BY DEF IInv, ErrorInv
  <1>5. ReportInv'
    BY DEF ReportInv
  <1>6. PendingInv'
    BY DEF IInv, PendingInv
  <1> QED BY <1>1, <1>2, <1>3, <1>4, <1>5, <1>6 DEF IInv

(* exit() cancels no agent that was in error: it is not active.            *)
LEMMA SweepKeeps ==
  ASSUME IInv, NEW a \in Agent, Sweep(a)
  PROVE  IInv'
  <1> USE ConstantFacts
  <1>1. /\ join.at = "sweep" /\ UNCHANGED <<table, cancel, pc, on, threads, pending, runCut, early, report>>
        /\ join' = [join EXCEPT !.todo = @ \ {a},
                                !.hit = IF a \notin join.stopped /\ table[a] \in Active
                                        THEN a ELSE Nobody]
    BY DEF Sweep
  <1>2. Types'
    BY <1>1 DEF IInv, Types
  <1>3. /\ join'.at = "sweep" /\ join'.round = join.round /\ join'.stopped = join.stopped
        /\ (join'.hit = a /\ table[a] \in Active) \/ join'.hit = Nobody
    BY <1>1 DEF IInv, Types
  <1>4. CoverInv'
    BY <1>1, <1>3 DEF IInv, CoverInv, Living
  <1>5. \A b \in early : b \notin join'.stopped /\ b # join'.hit
    BY <1>3 DEF IInv, Types, ErrorInv, Active
  <1>6. ~report.ready /\ AllJoined'
    BY <1>1, <1>3 DEF IInv, ReportInv, AllJoined
  <1>7. join'.round = {}
    BY <1>1, <1>3 DEF IInv, JoinInv
  <1> QED BY <1>1, <1>2, <1>3, <1>4, <1>5, <1>6, <1>7, JoinerKeeps

LEMMA SweepCancelKeeps ==
  ASSUME IInv, SweepCancel
  PROVE  IInv'
  <1> USE ConstantFacts
  <1>1. /\ join.hit # Nobody /\ UNCHANGED <<table, pc, on, threads, pending, runCut, early, report>>
        /\ cancel' = [cancel EXCEPT ![join.hit] = TRUE]
        /\ join' = [join EXCEPT !.hit = Nobody, !.stopped = @ \cup {join.hit}]
    BY DEF SweepCancel
  <1>2. Types'
    BY <1>1 DEF IInv, Types
  <1>3. /\ join'.at = join.at /\ join'.round = join.round /\ join'.hit = Nobody
        /\ join'.stopped = join.stopped \cup {join.hit}
    BY <1>1 DEF IInv, Types
  <1>4. CoverInv'
    BY <1>1, <1>3 DEF IInv, CoverInv, Living
  <1>5. \A b \in early : b \notin join'.stopped /\ b # join'.hit
    BY <1>3 DEF IInv, Types, ErrorInv
  <1>6. ~report.ready /\ join.at = "sweep" /\ AllJoined'
    BY <1>1, <1>3 DEF IInv, ReportInv, JoinInv, AllJoined
  <1>7. join'.round = {}
    BY <1>3, <1>6 DEF IInv, JoinInv
  <1> QED BY <1>1, <1>2, <1>3, <1>4, <1>5, <1>6, <1>7, JoinerKeeps

LEMMA SweepEndsKeeps ==
  ASSUME IInv, SweepEnds
  PROVE  IInv'
  <1>1. /\ join.at = "sweep" /\ join.hit = Nobody
        /\ UNCHANGED <<table, cancel, pc, on, threads, pending, runCut, early, report>>
        /\ join' = [join EXCEPT !.at = "drain"]
    BY DEF SweepEnds
  <1>2. Types'
    BY <1>1 DEF IInv, Types
  <1>3. /\ join'.at = "drain" /\ join'.round = join.round /\ join'.hit = Nobody
        /\ join'.stopped = join.stopped
    BY <1>1 DEF IInv, Types
  <1>4. CoverInv'
    BY <1>1, <1>3 DEF IInv, CoverInv, Living
  <1>5. \A b \in early : b \notin join'.stopped /\ b # join'.hit
    BY <1>1, <1>3 DEF IInv, ErrorInv
  <1>6. ~report.ready /\ AllJoined'
    BY <1>1, <1>3 DEF IInv, ReportInv, AllJoined
  <1>7. join'.round = {}
    BY <1>1, <1>3 DEF IInv, JoinInv
  <1> QED BY <1>1, <1>2, <1>3, <1>4, <1>5, <1>6, <1>7, JoinerKeeps

(* With no handle left nobody is alive: the agent launched by no living    *)
(* agent would be with the program, which has ended.                       *)
LEMMA NobodyLeft ==
  ASSUME IInv, threads = {}, join.round = {}, pc[Main] = "ended"
  PROVE  \A a \in Agent : pc[a] \in {"none", "finished"}
  <1> DEFINE L == {a \in Agent : Living(a)}
  <1> SUFFICES ASSUME L # {} PROVE FALSE
    BY DEF Living
  <1>1. PICK a \in L : \A t \in L : ~(pc[t] \in Launching /\ on[t] = a)
    BY DEF IInv, ForestInv
  <1>2. PICK t \in Thread : pc[t] = "launched" /\ on[t] = a
    BY <1>1 DEF IInv, CoverInv
  <1>3. t \in L
    BY <1>2 DEF Living, Thread
  <1> QED BY <1>1, <1>2, <1>3 DEF Launching

LEMMA DrainKeeps ==
  ASSUME IInv, Drain
  PROVE  IInv'
  <1>1. /\ join.at = "drain" /\ threads' = {}
        /\ UNCHANGED <<table, cancel, pc, on, pending, runCut, early, report>>
        /\ join' = [join EXCEPT !.at = IF threads = {} THEN "returned" ELSE "join",
                                !.round = threads]
    BY DEF Drain
  <1>2. join.round = {} /\ join.hit = Nobody /\ pc[Main] = "ended" /\ ~report.ready
    BY <1>1 DEF IInv, JoinInv, ReportInv
  <1>3. /\ join'.at = (IF threads = {} THEN "returned" ELSE "join")
        /\ join'.round = threads /\ join'.hit = Nobody /\ join'.stopped = join.stopped
    BY <1>1, <1>2 DEF IInv, Types
  <1>4. Types'
    BY <1>1 DEF IInv, Types
  <1>5. CoverInv'
    BY <1>1, <1>2, <1>3 DEF IInv, CoverInv, Living
  <1>6. AllJoined'
    BY <1>1, <1>2, <1>3, NobodyLeft DEF AllJoined
  <1>7. \A b \in early : b \notin join'.stopped /\ b # join'.hit
    BY <1>2, <1>3 DEF IInv, ErrorInv
  <1> QED BY <1>1, <1>2, <1>3, <1>4, <1>5, <1>6, <1>7, JoinerKeeps

LEMMA JoinKeeps ==
  ASSUME IInv, NEW a \in Agent, Join(a)
  PROVE  IInv'
  <1>1. /\ join.at = "join" /\ pc[a] = "finished" /\ join' = [join EXCEPT !.round = @ \ {a}]
        /\ UNCHANGED <<table, cancel, pc, on, threads, pending, runCut, early, report>>
    BY DEF Join
  <1>2. Types'
    BY <1>1 DEF IInv, Types
  <1>3. /\ join'.at = "join" /\ join'.round = join.round \ {a} /\ join'.hit = Nobody
        /\ join'.stopped = join.stopped /\ join.hit = Nobody
    BY <1>1 DEF IInv, Types, JoinInv
  <1>4. CoverInv'
    BY <1>1, <1>3 DEF IInv, CoverInv, Living
  <1>5. \A b \in early : b \notin join'.stopped /\ b # join'.hit
    BY <1>3 DEF IInv, ErrorInv
  <1>6. ~report.ready /\ AllJoined'
    BY <1>1, <1>3 DEF IInv, ReportInv, AllJoined
  <1> QED BY <1>1, <1>2, <1>3, <1>4, <1>5, <1>6, JoinerKeeps

LEMMA RoundEndsKeeps ==
  ASSUME IInv, RoundEnds
  PROVE  IInv'
  <1>1. /\ join.at = "join" /\ join.round = {}
        /\ UNCHANGED <<table, cancel, pc, on, threads, pending, runCut, early, report>>
    BY DEF RoundEnds
  <1>2. /\ join'.at \in {"sweep", "drain"} /\ join'.round = {} /\ join'.hit = Nobody
        /\ join'.stopped = join.stopped /\ join.hit = Nobody
    BY DEF RoundEnds, NextRound, IInv, Types, JoinInv
  <1>3. Types'
    <2>1. join' \in [at : {"main", "sweep", "drain", "join", "returned"}, exited : BOOLEAN,
                     todo : SUBSET Agent, hit : Agent \cup {Nobody},
                     stopped : SUBSET Agent, round : SUBSET Agent]
      BY DEF RoundEnds, NextRound, Registered, IInv, Types
    <2> QED BY <1>1, <2>1 DEF IInv, Types
  <1>4. CoverInv'
    BY <1>1, <1>2 DEF IInv, CoverInv, Living
  <1>5. \A b \in early : b \notin join'.stopped /\ b # join'.hit
    BY <1>2 DEF IInv, ErrorInv
  <1>6. ~report.ready /\ AllJoined'
    BY <1>1, <1>2 DEF IInv, ReportInv, AllJoined
  <1> QED BY <1>1, <1>2, <1>3, <1>4, <1>5, <1>6, JoinerKeeps

LEMMA ReportKeeps ==
  ASSUME IInv, Report
  PROVE  IInv'
  <1>1. /\ join.at = "returned"
        /\ UNCHANGED <<table, cancel, pc, on, threads, pending, runCut, join, early>>
        /\ report' = [ready |-> TRUE, withheld |-> runCut,
                      errors |-> IF runCut THEN {}
                                 ELSE {a \in Agent : table[a] = "error"} \ join.stopped]
    BY DEF Report
  <1>2. Types' BY <1>1 DEF IInv, Types
  <1>3. LaunchInv' BY <1>1 DEF IInv, LaunchInv
  <1>4. ForestInv' BY <1>1 DEF IInv, ForestInv
  <1>5. CoverInv' BY <1>1 DEF IInv, CoverInv, Living
  <1>6. JoinInv' BY <1>1 DEF IInv, JoinInv, AllJoined
  <1>7. ErrorInv' BY <1>1 DEF IInv, ErrorInv
  <1>8. ReportInv' BY <1>1 DEF IInv, Types, ErrorInv, ReportInv
  <1>9. PendingInv' BY <1>1 DEF IInv, PendingInv
  <1> QED BY <1>2, <1>3, <1>4, <1>5, <1>6, <1>7, <1>8, <1>9 DEF IInv

-----------------------------------------------------------------------------
LEMMA ThreadKeeps ==
  ASSUME IInv, NEW t \in Thread, ThreadStep(t)
  PROVE  IInv'
  <1>1. CASE \E a \in Agent : Register(t, a) \/ StopAgent(t, a)
    BY <1>1, RegisterKeeps, StopAgentKeeps
  <1>2. CASE (\E c \in Channel : WaitFor(t, c)) \/ Take(t) \/ GiveUp(t) \/ WaitEnds(t) \/ Resume(t)
    BY <1>2, WaitKeeps
  <1>3. CASE Launch(t) \/ LaunchFails(t) \/ AddThread(t) \/ Signal(t)
    BY <1>3, LaunchKeeps, LaunchFailsKeeps, AddThreadKeeps, SignalKeeps
  <1> QED BY <1>1, <1>2, <1>3 DEF ThreadStep

LEMMA JoinStepKeeps ==
  ASSUME IInv, JoinStep
  PROVE  IInv'
  <1>1. CASE \E exited \in BOOLEAN : MainEnds(exited)
    BY <1>1, MainEndsKeeps
  <1>2. CASE \E a \in Agent : Sweep(a) \/ Join(a)
    BY <1>2, SweepKeeps, JoinKeeps
  <1>3. CASE SweepCancel \/ SweepEnds \/ Drain \/ RoundEnds \/ Report
    BY <1>3, SweepCancelKeeps, SweepEndsKeeps, DrainKeeps, RoundEndsKeeps, ReportKeeps
  <1> QED BY <1>1, <1>2, <1>3 DEF JoinStep

LEMMA NextKeeps == IInv /\ [Next]_vars => IInv'
  <1> SUFFICES ASSUME IInv, [Next]_vars PROVE IInv'
    OBVIOUS
  <1>1. CASE \E a \in Agent : AgentStep(a)
    BY <1>1, AgentKeeps
  <1>2. CASE \E t \in Thread : ThreadStep(t)
    BY <1>2, ThreadKeeps
  <1>3. CASE JoinStep
    BY <1>3, JoinStepKeeps
  <1>4. CASE UNCHANGED vars
    <2> USE <1>4 DEF vars, IInv
    <2>1. Types' BY DEF Types
    <2>2. LaunchInv' BY DEF LaunchInv
    <2>3. ForestInv' BY DEF ForestInv
    <2>4. CoverInv' BY DEF CoverInv, Living
    <2>5. JoinInv' BY DEF JoinInv, AllJoined
    <2>6. ErrorInv' BY DEF ErrorInv
    <2>7. ReportInv' /\ PendingInv' BY DEF ReportInv, PendingInv
    <2> QED BY <2>1, <2>2, <2>3, <2>4, <2>5, <2>6, <2>7
  <1> QED BY <1>1, <1>2, <1>3, <1>4 DEF Next

LEMMA Invariance == Spec => []IInv
  BY InitInv, NextKeeps, PTL DEF Spec

(* The state of a program and of its end has the types Swarm declares, for *)
(* any number of agents (swarm.rs, join_agents).                           *)
THEOREM TypeCorrect == Spec => []TypeOK
  <1>1. IInv => TypeOK
    <2> SUFFICES ASSUME IInv PROVE TypeOK
      OBVIOUS
    <2> QED BY DEF IInv, Types, TypeOK
  <1> QED BY Invariance, <1>1, PTL

(* When join_agents returns every agent has ended, whatever launched it    *)
(* and whenever: the rounds of joins miss nobody.                          *)
THEOREM AllAreJoined == Spec => []AllJoined
  <1>1. IInv => AllJoined
    BY DEF IInv, JoinInv
  <1> QED BY Invariance, <1>1, PTL

(* No result leaves a run in which an agent met a labels cut: the cut is   *)
(* noted before the thread ends, and every thread has ended by then.       *)
THEOREM CutWithheld == Spec => []CutIsWithheld
  <1>1. IInv => CutIsWithheld
    BY DEF IInv, ReportInv, CutIsWithheld
  <1> QED BY Invariance, <1>1, PTL

(* exit() hides the agents it stopped, and no agent that was in error      *)
(* before it.                                                              *)
THEOREM EarlyReported == Spec => []EarlyErrorsReported
  <1>1. IInv => EarlyErrorsReported
    BY DEF IInv, ReportInv, EarlyErrorsReported
  <1> QED BY Invariance, <1>1, PTL
================================================================================
