---------------------------- MODULE ServeRunsProofs ----------------------------
(***************************************************************************)
(* Proofs about ServeRuns: its four safety invariants, and that its        *)
(* threads drive the blackboard's journal as RunJournal promises, for any  *)
(* keys, runs, agents and bounds.                                          *)
(***************************************************************************)
EXTENDS ServeRuns, BlackboardProofs

(* The places of a thread that still counts in the journal's RunState.     *)
Before == {"body", "share", "signal", "launching", "unwinding", "ending", "closing"}

(* The agents of r the journal should count: from before their thread      *)
(* exists until they have told the journal that they are done.             *)
Counted(r) == {a \in Agent : scope[a] = r /\ pc[a] \in Before \cup {"idle"}}

(* A launched agent has an entered run; a launching thread has an agent of *)
(* its own that is not yet running.                                        *)
Launches ==
    /\ \A a \in Agent : /\ pc[a] # "idle" => scope[a] # NoRun
                        /\ scope[a] # NoRun => pc[scope[a]] # "idle"
    /\ \A t \in Thread : pc[t] = "launching" =>
           on[t] \in Agent /\ pc[on[t]] = "idle" /\ scope[on[t]] = RunOf(t)
    /\ \A t, u \in Thread :
           pc[t] = "launching" /\ pc[u] = "launching" /\ on[t] = on[u] => t = u

(* The journal's counters are those of the threads.                        *)
Counts ==
    \A r \in Run : /\ agents[r] = Cardinality(Counted(r))
                   /\ owner[r] <=> pc[r] \in Before

-----------------------------------------------------------------------------
(* Which run a thread works for.                                           *)

(* The labels of runs and agents are distinct, and a thread's run is       *)
(* itself or its agent's scope.                                            *)
LEMMA Names ==
    /\ NoRun \notin Run /\ Run \cap Agent = {} /\ NoRun \notin Agent
    /\ Run \subseteq Thread /\ Agent \subseteq Thread
    /\ \A r \in Run : RunOf(r) = r
    /\ \A a \in Agent : RunOf(a) = scope[a]
  BY BlackboardAssumption, ServeAssumption DEF Thread, RunOf

(* A thread that has begun works for a run, which has begun too.           *)
LEMMA Begun ==
    ASSUME ServeTypeOK, Launches, NEW t \in Thread, pc[t] # "idle"
    PROVE  RunOf(t) \in Run /\ pc[RunOf(t)] # "idle"
<1>1. CASE t \in Agent
  BY <1>1, Names DEF ServeTypeOK, Launches
<1>2. CASE t \in Run
  BY <1>2, Names
<1> QED
  BY <1>1, <1>2 DEF Thread

(* Every step of the threads is a step of the blackboard, or leaves it.    *)
LEMMA JournalStep ==
    ASSUME ServeTypeOK, Launches, [ServeNext]_serveVars
    PROVE  [Next]_vars
<1>1. CASE UNCHANGED serveVars
  BY <1>1 DEF serveVars
<1>2. ASSUME NEW r \in Run, Enter(r) PROVE Next
  BY <1>2 DEF Enter, Next
<1>3. ASSUME NEW a \in Agent, EndError(a) \/ SignalError(a) PROVE UNCHANGED vars
  BY <1>3 DEF EndError, SignalError
<1>4. ASSUME NEW t \in Thread, Program(t) PROVE [Next]_vars
  <2>1. CASE \E sink \in {"share", "signal"} : SinkCheck(t, sink)
    BY <2>1 DEF SinkCheck
  <2>2. ASSUME NEW k \in Key, Share(t, k) PROVE Next
    <3>1. pc[t] # "idle" /\ Write(ThreadScope(t), k, ThreadScope(t))
      BY <2>2 DEF Share, Goes
    <3>2. ThreadScope(t) \in Run \cup {NoRun}
      BY <3>1, Begun DEF ThreadScope
    <3> QED
      BY <3>1, <3>2, ServeAssumption DEF Next, Scope
  <2>3. ASSUME NEW a \in Agent, Spawn(t, a) PROVE Next
    <3>1. pc[t] # "idle" /\ AgentStarted(RunOf(t))
      BY <2>3 DEF Spawn, Goes
    <3> QED
      BY <3>1, Begun DEF Next
  <2>4. CASE \E cancelled \in BOOLEAN : EndCut(t, cancelled)
    BY <2>4 DEF EndCut
  <2>5. CASE Signal(t) \/ Take(t) \/ EndOk(t) \/ Panic(t)
    BY <2>5 DEF Signal, Take, EndOk, Panic
  <2> QED
    BY <1>4, <2>1, <2>2, <2>3, <2>4, <2>5 DEF Program
<1>5. ASSUME NEW t \in Thread, Runtime(t) PROVE [Next]_vars
  <2>1. CASE Launched(t) \/ LaunchFails(t) \/ Unwind(t) \/ ReadCut(t) \/ DropSignals(t) \/ Leave(t)
    BY <2>1 DEF Launched, LaunchFails, Unwind, ReadCut, DropSignals, Leave
  <2>2. CASE Close(t)
    <3>1. /\ pc[t] # "idle" /\ arg[t] \in BOOLEAN
          /\ AgentDone(RunOf(t), arg[t]) \/ CloseRun(RunOf(t), arg[t])
      BY <2>2 DEF Close, Goes, ServeTypeOK
    <3> QED
      BY <3>1, Begun DEF Next
  <2> QED
    BY <1>5, <2>1, <2>2 DEF Runtime
<1> QED
  BY <1>1, <1>2, <1>3, <1>4, <1>5 DEF ServeNext

-----------------------------------------------------------------------------
(* The places of the threads, and who counts.                              *)

(* The places of a thread that runs a part of its program.                 *)
Working == Before \ {"launching"}
(* The places of a thread after it has told the journal that its part      *)
(* ended.                                                                  *)
After == {"dropping", "closed", "ended"}

(* t moves between places of P, and nobody is launched, counted or closed. *)
StaysIn(t, P) ==
    /\ pc[t] \in P
    /\ \E y \in P : pc' = [pc EXCEPT ![t] = y]
    /\ UNCHANGED <<scope, on, owner, agents>>

(* Six steps change who counts or who is being launched.                   *)
LEMMA Kinds ==
    ASSUME ServeTypeOK, ServeNext
    PROVE  \/ \E r \in Run : Enter(r)
           \/ \E t \in Thread, a \in Agent : Spawn(t, a)
           \/ \E t \in Thread : Launched(t) \/ LaunchFails(t) \/ Close(t)
           \/ \E t \in Thread : \/ StaysIn(t, Working)
                                \/ StaysIn(t, After) /\ (DropSignals(t) \/ pc[t] = "closed")
<1>1. ASSUME NEW a \in Agent, EndError(a) PROVE StaysIn(a, Working)
  BY <1>1 DEF EndError, StaysIn, Working, Before, Goes, vars
<1>2. ASSUME NEW a \in Agent, SignalError(a) PROVE StaysIn(a, After) /\ pc[a] = "closed"
  BY <1>2 DEF SignalError, StaysIn, After, Goes, vars
<1>3. ASSUME NEW t \in Thread, Program(t)
      PROVE  (\E a \in Agent : Spawn(t, a)) \/ StaysIn(t, Working)
  <2>1. ASSUME NEW sink \in {"share", "signal"}, SinkCheck(t, sink) PROVE StaysIn(t, Working)
    BY <2>1 DEF SinkCheck, StaysIn, Working, Before, Goes, vars
  <2>2. ASSUME NEW k \in Key, Share(t, k) PROVE StaysIn(t, Working)
    BY <2>2 DEF Share, Write, Change, StaysIn, Working, Before, Goes, vars
  <2>3. ASSUME NEW cancelled \in BOOLEAN, EndCut(t, cancelled) PROVE StaysIn(t, Working)
    BY <2>3 DEF EndCut, StaysIn, Working, Before, Goes, vars
  <2>4. CASE Signal(t) \/ EndOk(t) \/ Panic(t)
    BY <2>4 DEF Signal, EndOk, Panic, StaysIn, Working, Before, Goes, vars
  <2>5. CASE Take(t)
    <3>1. pc' = [pc EXCEPT ![t] = "body"]
      BY <2>5 DEF Take, ServeTypeOK
    <3> QED
      BY <2>5, <3>1 DEF Take, StaysIn, Working, Before, vars
  <2> QED
    BY <1>3, <2>1, <2>2, <2>3, <2>4, <2>5 DEF Program
<1>4. ASSUME NEW t \in Thread, Runtime(t)
      PROVE  \/ Launched(t) \/ LaunchFails(t) \/ Close(t)
             \/ StaysIn(t, Working)
             \/ StaysIn(t, After) /\ (DropSignals(t) \/ pc[t] = "closed")
  <2>1. CASE Unwind(t) \/ ReadCut(t)
    BY <2>1 DEF Unwind, ReadCut, StaysIn, Working, Before, Goes, vars
  <2>2. CASE DropSignals(t) \/ Leave(t)
    BY <2>2 DEF DropSignals, Leave, StaysIn, After, Goes, vars
  <2> QED
    BY <1>4, <2>1, <2>2 DEF Runtime
<1>5. CASE \E a \in Agent : EndError(a) \/ SignalError(a)
  BY <1>1, <1>2, <1>5, Names
<1>6. CASE \E t \in Thread : Program(t)
  BY <1>3, <1>6
<1>7. CASE \E t \in Thread : Runtime(t)
  BY <1>4, <1>7
<1> QED
  BY <1>5, <1>6, <1>7 DEF ServeNext

(* Every step of a thread preserves Launches.                              *)
LEMMA LaunchesStep ==
    ASSUME ServeTypeOK, Launches, ServeNext
    PROVE  Launches'
<1> USE DEF ServeTypeOK
<1>1. ASSUME NEW r \in Run, Enter(r) PROVE Launches'
  BY <1>1, Names DEF Enter, Goes, Launches, RunOf, Thread
<1>2. ASSUME NEW t \in Thread, NEW a \in Agent, Spawn(t, a) PROVE Launches'
  <2>1. /\ scope[a] = NoRun /\ RunOf(t) \in Run /\ pc[RunOf(t)] # "idle" /\ pc[a] = "idle" /\ t # a
    BY <1>2, Begun, Names DEF Spawn, Goes, Started, Launches
  <2>2. /\ pc' = [pc EXCEPT ![t] = "launching"] /\ scope' = [scope EXCEPT ![a] = RunOf(t)]
        /\ on' = [on EXCEPT ![t] = a] /\ pc[t] = "body"
    BY <1>2 DEF Spawn, Goes
  <2>3. \A b \in Agent : /\ pc'[b] # "idle" => scope'[b] # NoRun
                         /\ scope'[b] # NoRun => pc'[scope'[b]] # "idle"
    BY <2>1, <2>2, Names DEF Launches
  <2>4. \A u \in Thread : RunOf(u)' = IF u = a THEN RunOf(t) ELSE RunOf(u)
    BY <2>2, Names DEF RunOf
  <2>5. \A u \in Thread \ {t} : pc[u] = "launching" => on[u] # a
    <3> SUFFICES ASSUME NEW u \in Thread, pc[u] = "launching" PROVE on[u] # a
      OBVIOUS
    <3>1. RunOf(u) \in Run /\ scope[on[u]] = RunOf(u)
      BY Begun DEF Launches
    <3> QED
      BY <3>1, <2>1, Names
  <2>6. \A u \in Thread : pc'[u] = "launching" =>
            on'[u] \in Agent /\ pc'[on'[u]] = "idle" /\ scope'[on'[u]] = RunOf(u)'
    BY <2>1, <2>2, <2>4, <2>5, Names DEF Launches
  <2>7. \A u, w \in Thread :
           pc'[u] = "launching" /\ pc'[w] = "launching" /\ on'[u] = on'[w] => u = w
    BY <2>1, <2>2, <2>5 DEF Launches
  <2> QED
    BY <2>3, <2>6, <2>7 DEF Launches
<1>3. ASSUME NEW t \in Thread, Launched(t) \/ LaunchFails(t) PROVE Launches'
  <2>1. PICK x, y \in {"body", "unwinding", "ending"} : pc' = [pc EXCEPT ![t] = x, ![on[t]] = y]
    BY <1>3 DEF Launched, LaunchFails
  <2>2. UNCHANGED <<scope, on>> /\ pc[t] = "launching"
    BY <1>3 DEF Launched, LaunchFails
  <2>3. on[t] \in Agent /\ scope[on[t]] \in Run /\ on[t] # t /\ on[t] \in Thread
    BY <2>2, Begun, Names DEF Launches
  <2>4. \A u \in Thread : pc'[u] = IF u = on[t] THEN y ELSE IF u = t THEN x ELSE pc[u]
    BY <2>1, <2>3
  <2>5. \A u \in Thread : RunOf(u)' = RunOf(u)
    BY <2>2 DEF RunOf
  <2>6. \A b \in Agent : /\ pc'[b] # "idle" => scope'[b] # NoRun
                         /\ scope'[b] # NoRun => pc'[scope'[b]] # "idle"
    <3> TAKE b \in Agent
    <3>1. pc'[b] # "idle" => pc[b] # "idle" \/ b = on[t]
      BY <2>2, <2>4, Names
    <3>2. \A r \in Run : pc[r] # "idle" => pc'[r] # "idle"
      BY <2>3, <2>4, Names
    <3>3. pc'[b] # "idle" => scope[b] # NoRun
      BY <3>1, <2>3, Names DEF Launches
    <3> QED
      BY <3>2, <3>3, <2>2 DEF Launches
  <2>7. \A u \in Thread : pc'[u] = "launching" =>
            u # t /\ pc[u] = "launching" /\ on[u] # on[t]
    BY <2>2, <2>3, <2>4 DEF Launches
  <2>8. \A u \in Thread : pc'[u] = "launching" =>
            on'[u] \in Agent /\ pc'[on'[u]] = "idle" /\ scope'[on'[u]] = RunOf(u)'
    BY <2>2, <2>4, <2>5, <2>7, Names DEF Launches
  <2>9. \A u, w \in Thread :
           pc'[u] = "launching" /\ pc'[w] = "launching" /\ on'[u] = on'[w] => u = w
    BY <2>2, <2>7 DEF Launches
  <2> QED
    BY <2>6, <2>8, <2>9 DEF Launches
<1>4. ASSUME NEW t \in Thread, StaysIn(t, Working) \/ StaysIn(t, After) \/ Close(t)
      PROVE  Launches'
  <2>1. PICK y \in Working \cup After : pc' = [pc EXCEPT ![t] = y]
    BY <1>4 DEF StaysIn, Close, Goes, Working, Before, After
  <2>2. UNCHANGED <<scope, on>> /\ pc[t] \notin {"idle", "launching"}
    BY <1>4 DEF StaysIn, Close, Goes, Working, Before, After
  <2>3. \A u \in Thread : pc'[u] = IF u = t THEN y ELSE pc[u]
    BY <2>1
  <2>4. y \notin {"idle", "launching"}
    BY <2>1 DEF Working, Before, After
  <2>5. \A u \in Thread : RunOf(u)' = RunOf(u)
    BY <2>2 DEF RunOf
  <2> QED
    BY <2>2, <2>3, <2>4, <2>5, Names DEF Launches
<1> QED
  BY <1>1, <1>2, <1>3, <1>4, Kinds

(* There are finitely many agents to count.                                *)
LEMMA CountedFinite ==
    \A r : IsFiniteSet(Counted(r))
<1> TAKE r
<1>1. Counted(r) \subseteq Agent
  BY DEF Counted
<1> QED
  BY <1>1, ServeAssumption, FS_Subset

(* Who counts stays so when every agent stays on its side of the close.    *)
LEMMA SameCounts ==
    ASSUME Counts, UNCHANGED <<scope, owner, agents>>,
           \A t \in Thread : pc'[t] \in Before \cup {"idle"} <=> pc[t] \in Before \cup {"idle"},
           \A r \in Run : pc'[r] \in Before <=> pc[r] \in Before
    PROVE  Counts'
<1>1. \A r \in Run : Counted(r)' = Counted(r)
  BY Names DEF Counted
<1> QED
  BY <1>1 DEF Counts

(* Every step of a thread preserves Counts.                                *)
LEMMA CountsStep ==
    ASSUME ServeTypeOK, Launches, Counts, ServeNext
    PROVE  Counts'
<1> USE DEF ServeTypeOK
<1>1. ASSUME NEW r \in Run, Enter(r) PROVE Counts'
  <2>1. /\ pc' = [pc EXCEPT ![r] = "body"] /\ owner' = [owner EXCEPT ![r] = TRUE]
        /\ UNCHANGED <<scope, agents>>
    BY <1>1 DEF Enter, Goes, OpenRun
  <2>2. \A q \in Run : Counted(q)' = Counted(q)
    BY <2>1, Names DEF Counted
  <2>3. \A q \in Run : owner'[q] <=> pc'[q] \in Before
    BY <2>1, Names DEF Counts, Before, TypeOK
  <2> QED
    BY <2>1, <2>2, <2>3 DEF Counts
<1>2. ASSUME NEW t \in Thread, NEW a \in Agent, Spawn(t, a) PROVE Counts'
  <2>0. PICK r \in Run : r = RunOf(t)
    BY <1>2, Begun DEF Spawn, Goes
  <2>1. /\ scope[a] = NoRun /\ pc[a] = "idle" /\ t # a
    BY <1>2, Begun, Names DEF Spawn, Goes, Started, Launches
  <2>2. /\ pc' = [pc EXCEPT ![t] = "launching"] /\ pc[t] = "body" /\ UNCHANGED owner
        /\ scope' = [scope EXCEPT ![a] = r] /\ agents' = [agents EXCEPT ![r] = @ + 1]
    BY <1>2, <2>0 DEF Spawn, Goes, AgentStarted
  <2>3. Counted(r)' = Counted(r) \cup {a} /\ a \notin Counted(r)
    BY <2>1, <2>2, Names DEF Counted, Before
  <2>4. \A q \in Run \ {r} : Counted(q)' = Counted(q)
    BY <2>1, <2>2, Names DEF Counted, Before
  <2>5. Cardinality(Counted(r)') = Cardinality(Counted(r)) + 1
    BY <2>3, CountedFinite, FS_AddElement
  <2>6. \A q \in Run : owner'[q] <=> pc'[q] \in Before
    BY <2>2, Names DEF Counts, Before
  <2>7. \A q \in Run : agents'[q] = IF q = r THEN agents[q] + 1 ELSE agents[q]
    BY <2>2 DEF TypeOK
  <2>8. \A q \in Run : agents'[q] = Cardinality(Counted(q)')
    BY <2>1, <2>4, <2>5, <2>7 DEF Counts
  <2> QED
    BY <2>6, <2>8 DEF Counts
<1>3. ASSUME NEW t \in Thread, Launched(t) \/ LaunchFails(t) PROVE Counts'
  <2>1. PICK x, y \in {"body", "unwinding", "ending"} : pc' = [pc EXCEPT ![t] = x, ![on[t]] = y]
    BY <1>3 DEF Launched, LaunchFails
  <2>2. UNCHANGED <<scope, owner, agents>> /\ pc[t] = "launching"
    BY <1>3 DEF Launched, LaunchFails, vars
  <2>3. on[t] \in Agent /\ pc[on[t]] = "idle" /\ on[t] # t /\ on[t] \in Thread
    BY <2>2, Names DEF Launches
  <2>4. \A u \in Thread : pc'[u] = IF u = on[t] THEN y ELSE IF u = t THEN x ELSE pc[u]
    BY <2>1, <2>3
  <2> QED
    BY <2>1, <2>2, <2>3, <2>4, SameCounts, Names DEF Before
<1>4. ASSUME NEW t \in Thread, StaysIn(t, Working) \/ StaysIn(t, After) PROVE Counts'
  <2>1. UNCHANGED <<scope, owner, agents>>
    BY <1>4 DEF StaysIn
  <2>2. \A u \in Thread : pc'[u] \in Before \cup {"idle"} <=> pc[u] \in Before \cup {"idle"}
    BY <1>4 DEF StaysIn, Working, After, Before
  <2>3. \A r \in Run : pc'[r] \in Before <=> pc[r] \in Before
    BY <1>4, Names DEF StaysIn, Working, After, Before
  <2> QED
    BY <2>1, <2>2, <2>3, SameCounts
<1>5. ASSUME NEW t \in Thread, Close(t) PROVE Counts'
  <2>1. PICK y \in After : pc' = [pc EXCEPT ![t] = y]
    BY <1>5 DEF Close, Goes, After
  <2>2. /\ pc[t] = "closing" /\ UNCHANGED scope
        /\ IF t \in Agent THEN AgentDone(RunOf(t), arg[t]) ELSE CloseRun(RunOf(t), arg[t])
    BY <1>5 DEF Close, Goes
  <2>3. RunOf(t) \in Run
    BY <2>2, Begun
  <2>4. CASE t \in Agent
    <3>0. PICK r \in Run : r = scope[t]
      BY <2>3, <2>4, Names
    <3>1. /\ UNCHANGED owner
          /\ agents[r] > 0 /\ agents' = [agents EXCEPT ![r] = @ - 1]
      BY <2>2, <2>4, <3>0, Names DEF AgentDone
    <3>2. Counted(r)' = Counted(r) \ {t} /\ t \in Counted(r)
      BY <2>1, <2>2, <2>4, <3>0, Names DEF Counted, Before, After
    <3>3. \A q \in Run \ {r} : Counted(q)' = Counted(q)
      BY <2>1, <2>2, <2>4, <3>0, Names DEF Counted
    <3>4. Cardinality(Counted(r)') = Cardinality(Counted(r)) - 1
      BY <3>2, CountedFinite, FS_RemoveElement
    <3>5. \A q \in Run : owner'[q] <=> pc'[q] \in Before
      BY <2>1, <2>4, <3>1, Names DEF Counts
    <3>6. \A q \in Run : agents'[q] = IF q = r THEN agents[q] - 1 ELSE agents[q]
      BY <3>1 DEF TypeOK
    <3>7. \A q \in Run : agents'[q] = Cardinality(Counted(q)')
      BY <3>1, <3>3, <3>4, <3>6 DEF Counts
    <3> QED
      BY <3>5, <3>7 DEF Counts
  <2>5. CASE t \in Run
    <3>1. owner' = [owner EXCEPT ![t] = FALSE] /\ UNCHANGED agents
      BY <2>2, <2>5, Names DEF CloseRun
    <3>2. \A q \in Run : Counted(q)' = Counted(q)
      BY <2>1, <2>2, <2>5, Names DEF Counted
    <3>3. \A q \in Run : owner'[q] <=> pc'[q] \in Before
      BY <2>1, <2>5, <3>1, Names DEF Counts, TypeOK, After, Before
    <3> QED
      BY <3>1, <3>2, <3>3 DEF Counts
  <2> QED
    BY <2>4, <2>5 DEF Thread
<1> QED
  BY <1>1, <1>2, <1>3, <1>4, <1>5, Kinds

-----------------------------------------------------------------------------
(* Types.                                                                  *)

(* Every step of a thread preserves the types.                             *)
LEMMA TypeStep ==
    ASSUME Inv, ServeTypeOK, Launches, ServeNext
    PROVE  ServeTypeOK'
<1>0. TypeOK'
  BY JournalStep, NextInv DEF Inv
<1> USE DEF ServeTypeOK, vars
<1>1. ASSUME NEW r \in Run, Enter(r) PROVE ServeTypeOK'
  BY <1>0, <1>1, Names DEF Enter, Goes
<1>2. ASSUME NEW a \in Agent, EndError(a) \/ SignalError(a) PROVE ServeTypeOK'
  <2>1. CASE EndError(a)
    BY <1>0, <2>1, Names DEF EndError, Goes
  <2>2. CASE SignalError(a)
    <3>1. signals' \in Seq(Run \cup {NoRun})
      BY <2>2 DEF SignalError
    <3> QED
      BY <1>0, <2>2, <3>1, Names DEF SignalError, Goes
  <2> QED
    BY <1>2, <2>1, <2>2
<1>3. ASSUME NEW t \in Thread, Program(t) PROVE ServeTypeOK'
  <2>1. ASSUME NEW sink \in {"share", "signal"}, SinkCheck(t, sink) PROVE ServeTypeOK'
    BY <1>0, <2>1 DEF SinkCheck, Goes
  <2>2. ASSUME NEW k \in Key, Share(t, k) PROVE ServeTypeOK'
    BY <1>0, <2>2 DEF Share, Goes
  <2>3. ASSUME NEW a \in Agent, Spawn(t, a) PROVE ServeTypeOK'
    <3>1. RunOf(t) \in Run
      BY <2>3, Begun DEF Spawn, Goes
    <3> QED
      BY <1>0, <2>3, <3>1 DEF Spawn, Goes
  <2>4. ASSUME NEW cancelled \in BOOLEAN, EndCut(t, cancelled) PROVE ServeTypeOK'
    BY <1>0, <2>4 DEF EndCut, Goes
  <2>5. CASE Signal(t)
    <3>1. ThreadScope(t) \in Run \cup {NoRun}
      BY <2>5, Begun DEF Signal, Goes, ThreadScope
    <3> QED
      BY <1>0, <2>5, <3>1 DEF Signal, Goes
  <2>6. CASE Take(t)
    <3>1. signals' \in Seq(Run \cup {NoRun})
      BY <2>6 DEF Take
    <3> QED
      BY <1>0, <2>6, <3>1 DEF Take
  <2>7. CASE EndOk(t) \/ Panic(t)
    BY <1>0, <2>7 DEF EndOk, Panic, Goes
  <2> QED
    BY <1>3, <2>1, <2>2, <2>3, <2>4, <2>5, <2>6, <2>7 DEF Program
<1>4. ASSUME NEW t \in Thread, Runtime(t) PROVE ServeTypeOK'
  <2>1. CASE Launched(t) \/ LaunchFails(t) \/ Unwind(t) \/ Leave(t)
    BY <1>0, <2>1 DEF Launched, LaunchFails, Unwind, Leave, Goes
  <2>2. CASE ReadCut(t)
    <3>1. RunOf(t) \in Run
      BY <2>2, Begun DEF ReadCut, Goes
    <3> QED
      BY <1>0, <2>2, <3>1 DEF ReadCut, Goes
  <2>3. CASE Close(t)
    <3>1. RunOf(t) \in Run
      BY <2>3, Begun DEF Close, Goes
    <3> QED
      BY <1>0, <2>3, <3>1 DEF Close, Goes
  <2>4. CASE DropSignals(t)
    <3>1. signals' \in Seq(Run \cup {NoRun})
      BY <2>4, RetainIs DEF DropSignals
    <3> QED
      BY <1>0, <2>4, <3>1 DEF DropSignals, Goes
  <2> QED
    BY <1>4, <2>1, <2>2, <2>3, <2>4 DEF Runtime
<1> QED
  BY <1>1, <1>2, <1>3, <1>4 DEF ServeNext

-----------------------------------------------------------------------------
(* Threads and the journal's runs.                                         *)

(* A thread before its close keeps its run open.                           *)
StaysOpen == \A t \in Thread : pc[t] \in Before => Running(RunOf(t))

(* It follows from what the journal counts.                                *)
LEMMA KeepsOpen == ServeTypeOK /\ Launches /\ Counts => StaysOpen
<1> SUFFICES ASSUME ServeTypeOK, Launches, Counts, NEW t \in Thread, pc[t] \in Before
             PROVE  Running(RunOf(t))
  BY DEF StaysOpen
<1>1. RunOf(t) \in Run
  BY Begun DEF Before
<1>2. CASE t \in Run
  BY <1>2, Names DEF Counts, Running
<1>3. CASE t \in Agent
  <2>1. t \in Counted(RunOf(t))
    BY <1>3, Names DEF Counted
  <2>2. Cardinality(Counted(RunOf(t))) # 0 /\ Cardinality(Counted(RunOf(t))) \in Nat
    BY <2>1, CountedFinite, FS_EmptySet, FS_CardinalityType
  <2> QED
    BY <1>1, <2>2 DEF Counts, Running
<1> QED
  BY <1>2, <1>3 DEF Thread

(* An idle owner's run has no agent.                                       *)
LEMMA IdleRun ==
    ASSUME ServeTypeOK, Launches, Counts, NEW r \in Run, pc[r] = "idle"
    PROVE  ~Running(r)
<1>1. Counted(r) = {}
  BY Names DEF Launches, Counted
<1>2. agents[r] = 0 /\ ~owner[r]
  BY <1>1, FS_EmptySet DEF Counts, Before
<1> QED
  BY <1>2, Names DEF Running

-----------------------------------------------------------------------------
(* What a close does to its run, and what every other step leaves.         *)

(* A close ends one part of one run: it may close that run, undone or      *)
(* confirmed by its flags, and no other run changes.                       *)
LEMMA CloseIs ==
    ASSUME Inv, ServeTypeOK, Launches, Counts, NEW t \in Thread, Close(t)
    PROVE  \E r \in Run, undo \in BOOLEAN :
             /\ r = RunOf(t) /\ undo = (arg[t] \/ runs[r].cut) /\ pc[t] = "closing"
             /\ pc' = [pc EXCEPT ![t] = IF undo THEN "dropping" ELSE "closed"]
             /\ \A q \in Run \ {r} : /\ runs'[q].cut = runs[q].cut
                                     /\ Running(q)' <=> Running(q)
                                     /\ outcome'[q] = outcome[q]
             /\ runs'[r].cut => undo
             /\ Running(r)' => runs'[r].cut = undo
             /\ Running(r)
             /\ outcome'[r] = IF undo THEN "undone"
                              ELSE IF Running(r)' THEN outcome[r] ELSE "confirmed"
             /\ UNCHANGED <<cutFlag, scope, on, own, arg, failed, signals, hit>>
             /\ \A k \in Key :
                    \/ UNCHANGED <<data[k], chain[k]>>
                    \/ /\ undo
                       /\ data'[k] = RollbackData(data[k], chain[k], r)
                       /\ chain'[k] = RollbackChain(chain[k], r)
                    \/ /\ ~undo /\ ~Running(r)' /\ data'[k] = data[k]
                       /\ chain'[k] = CommitChain(chain[k], r)
<1>1. pc[t] = "closing" /\ RunOf(t) \in Run
  BY Begun DEF Close, Goes
<1>2. PICK r \in Run : r = RunOf(t)
  BY <1>1
<1>3. TypeOK /\ runs[r].cut \in BOOLEAN /\ runs[r].live \in Nat /\ runs[r].closed \in BOOLEAN
  BY DEF Inv, TypeOK, RunState
<1>4. PICK undo \in BOOLEAN : undo = (arg[t] \/ runs[r].cut)
  BY <1>1, <1>3 DEF ServeTypeOK
<1>5. /\ pc' = [pc EXCEPT ![t] = IF undo THEN "dropping" ELSE "closed"]
      /\ UNCHANGED <<cutFlag, scope, on, own, arg, failed, signals, hit>>
  BY <1>2, <1>4 DEF Close, Goes
<1>6. Running(r)
  BY <1>1, <1>2, KeepsOpen DEF StaysOpen, Before
<1>7. PICK st : /\ EndPart(r, st, undo) /\ st \in RunState /\ st.cut = runs[r].cut
                /\ Finished(st) <=> ~Running(r)'
                /\ \A q \in Run \ {r} : owner'[q] = owner[q] /\ agents'[q] = agents[q]
                /\ outcome' = [outcome EXCEPT ![r] = IF undo THEN "undone"
                                                     ELSE IF Finished(st) THEN "confirmed" ELSE @]
  <2>0. /\ runs[r] \in RunState /\ runs[r].live = agents[r] /\ agents[r] \in Nat
        /\ runs[r].closed = (~owner[r] /\ agents[r] > 0)
    BY <1>3 DEF Inv, TypeOK, RunStateMatchesThreads
  <2>1. CASE t \in Agent
    <3> DEFINE st == [runs[r] EXCEPT !.live = IF @ = 0 THEN 0 ELSE @ - 1]
    <3>1. /\ agents[r] > 0 /\ agents' = [agents EXCEPT ![r] = @ - 1] /\ UNCHANGED owner
          /\ EndPart(r, st, undo)
      BY <1>2, <1>4, <2>1 DEF Close, AgentDone
    <3>2. st \in RunState /\ st.cut = runs[r].cut
      BY <2>0 DEF RunState
    <3>3. st.live = agents[r] - 1 /\ st.closed = ~owner[r]
      BY <2>0, <3>1 DEF RunState
    <3>4. agents'[r] = agents[r] - 1 /\ owner'[r] = owner[r]
      BY <3>1, <1>3 DEF TypeOK
    <3>5. Finished(st) <=> ~Running(r)'
      <4> HIDE DEF st
      <4>1. Running(r)' <=> owner'[r] \/ agents'[r] > 0
        BY Names DEF Running
      <4>2. Finished(st) <=> ~owner[r] /\ ~(agents[r] - 1 > 0)
        <5>1. Finished(st) <=> agents[r] - 1 = 0 /\ ~owner[r]
          BY <3>3 DEF Finished
        <5>2. agents[r] > 0
          BY <3>1
        <5>3. agents[r] - 1 = 0 <=> ~(agents[r] - 1 > 0)
          BY <5>2, <2>0
        <5> QED
          BY <5>1, <5>3
      <4> QED
        BY <4>1, <4>2, <3>4
    <3>6. Finished(st) <=> runs[r].closed /\ runs[r].live = 1
      BY <2>0, <3>1, <3>3 DEF Finished
    <3>7. outcome' = [outcome EXCEPT ![r] = IF undo THEN "undone"
                                            ELSE IF Finished(st) THEN "confirmed" ELSE @]
      BY <1>2, <1>4, <2>1, <3>6 DEF Close
    <3>8. \A q \in Run \ {r} : owner'[q] = owner[q] /\ agents'[q] = agents[q]
      BY <3>1, <1>3 DEF TypeOK
    <3> HIDE DEF st
    <3> QED
      BY <3>1, <3>2, <3>5, <3>7, <3>8
  <2>2. CASE t \notin Agent
    <3> DEFINE st == [runs[r] EXCEPT !.closed = TRUE]
    <3>1. /\ owner[r] /\ owner' = [owner EXCEPT ![r] = FALSE] /\ UNCHANGED agents
          /\ EndPart(r, st, undo)
      BY <1>2, <1>4, <2>2 DEF Close, CloseRun
    <3>2. st \in RunState /\ st.cut = runs[r].cut
      BY <2>0 DEF RunState
    <3>3. st.live = agents[r] /\ st.closed = TRUE
      BY <2>0, <3>1 DEF RunState
    <3>4. agents'[r] = agents[r] /\ owner'[r] = FALSE
      BY <3>1, <1>3 DEF TypeOK
    <3>5. Finished(st) <=> ~Running(r)'
      BY <3>3, <3>4, <2>0, Names DEF Finished, Running
    <3>6. Finished(st) <=> runs[r].live = 0
      BY <2>0, <3>1, <3>3 DEF Finished
    <3>7. outcome' = [outcome EXCEPT ![r] = IF undo THEN "undone"
                                            ELSE IF Finished(st) THEN "confirmed" ELSE @]
      BY <1>2, <1>4, <2>2, <3>6 DEF Close
    <3>8. \A q \in Run \ {r} : owner'[q] = owner[q] /\ agents'[q] = agents[q]
      BY <3>1, <1>3 DEF TypeOK
    <3> HIDE DEF st
    <3> QED
      BY <3>1, <3>2, <3>5, <3>7, <3>8
  <2> QED
    BY <2>1, <2>2
<1>8. runs' = [runs EXCEPT ![r] = IF Finished(st) THEN NewRun
                                  ELSE IF undo THEN [st EXCEPT !.cut = TRUE, !.keys = {}]
                                  ELSE st]
  BY <1>7 DEF EndPart
<1>9. runs'[r] = IF Finished(st) THEN NewRun
                 ELSE IF undo THEN [st EXCEPT !.cut = TRUE, !.keys = {}] ELSE st
  BY <1>3, <1>8 DEF TypeOK
<1>10. \A q \in Run \ {r} : runs'[q] = runs[q] /\ outcome'[q] = outcome[q]
  BY <1>3, <1>7, <1>8 DEF TypeOK, ServeTypeOK
<1>11. \A q \in Run \ {r} : Running(q)' <=> Running(q)
  BY <1>7 DEF Running
<1>12. outcome'[r] = IF undo THEN "undone" ELSE IF Finished(st) THEN "confirmed" ELSE outcome[r]
  BY <1>7 DEF ServeTypeOK
<1>13. (runs'[r].cut => undo) /\ (~Finished(st) => runs'[r].cut = undo)
  <2>1. CASE Finished(st)
    BY <2>1, <1>9 DEF NewRun
  <2>2. CASE ~Finished(st) /\ undo
    BY <2>2, <1>7, <1>9 DEF RunState
  <2>3. CASE ~Finished(st) /\ ~undo
    BY <2>3, <1>3, <1>4, <1>7, <1>9
  <2> QED
    BY <2>1, <2>2, <2>3
<1>14. outcome'[r] = IF undo THEN "undone" ELSE IF Running(r)' THEN outcome[r] ELSE "confirmed"
  BY <1>7, <1>12
<1>15. Running(r)' => runs'[r].cut = undo
  BY <1>7, <1>13
<1>16. ASSUME NEW k \in Key
       PROVE  \/ UNCHANGED <<data[k], chain[k]>>
              \/ /\ undo
                 /\ data'[k] = RollbackData(data[k], chain[k], r)
                 /\ chain'[k] = RollbackChain(chain[k], r)
              \/ /\ ~undo /\ ~Running(r)' /\ data'[k] = data[k]
                 /\ chain'[k] = CommitChain(chain[k], r)
  <2>1. CASE undo
    BY <2>1, <1>7 DEF EndPart
  <2>2. CASE ~undo
    BY <2>2, <1>7 DEF EndPart
  <2> QED
    BY <2>1, <2>2
<1> QED
  BY <1>1, <1>2, <1>4, <1>5, <1>6, <1>10, <1>11, <1>13, <1>14, <1>15, <1>16

(* Only a close changes results and cuts; a run opens when its own thread  *)
(* enters.                                                                 *)
LEMMA OthersLeave ==
    ASSUME Inv, ServeTypeOK, Launches, Counts, ServeNext, \A t \in Thread : ~Close(t)
    PROVE  /\ UNCHANGED outcome
           /\ \A q \in Run : runs'[q].cut = runs[q].cut
           /\ \A q \in Run : Running(q)' <=> Running(q) \/ (pc[q] = "idle" /\ pc'[q] # "idle")
<1>0. TypeOK
  BY DEF Inv
<1>1. ASSUME NEW r \in Run, Enter(r)
      PROVE  /\ UNCHANGED <<outcome, runs, agents>>
             /\ \A q \in Run : Running(q)' <=> Running(q) \/ (pc[q] = "idle" /\ pc'[q] # "idle")
  BY <1>0, <1>1, Names DEF Enter, Goes, OpenRun, Running, TypeOK, ServeTypeOK
<1>2. ASSUME UNCHANGED <<owner, agents>>, \A q \in Run : ~(pc[q] = "idle" /\ pc'[q] # "idle")
      PROVE  \A q \in Run : Running(q)' <=> Running(q) \/ (pc[q] = "idle" /\ pc'[q] # "idle")
  BY <1>2 DEF Running
<1>3. ASSUME NEW t \in Thread, NEW a \in Agent, Spawn(t, a)
      PROVE  /\ UNCHANGED outcome
             /\ \A q \in Run : runs'[q].cut = runs[q].cut
             /\ \A q \in Run : Running(q)' <=> Running(q) \/ (pc[q] = "idle" /\ pc'[q] # "idle")
  <2>1. PICK r \in Run : r = RunOf(t)
    BY <1>3, Begun DEF Spawn, Goes
  <2>2. /\ Running(r) /\ agents' = [agents EXCEPT ![r] = @ + 1] /\ UNCHANGED <<owner, outcome>>
        /\ runs' = [runs EXCEPT ![r].live = @ + 1]
        /\ pc[t] = "body" /\ pc' = [pc EXCEPT ![t] = "launching"]
    BY <1>3, <2>1 DEF Spawn, Goes, AgentStarted
  <2>3. \A q \in Run : runs'[q].cut = runs[q].cut
    BY <1>0, <2>2 DEF TypeOK, RunState
  <2>4. \A q \in Run : ~(pc[q] = "idle" /\ pc'[q] # "idle")
    BY <2>2, Names DEF ServeTypeOK
  <2>5. \A q \in Run \ {r} : Running(q)' <=> Running(q)
    BY <1>0, <2>2 DEF Running, TypeOK
  <2>6. agents'[r] = agents[r] + 1 /\ agents[r] \in Nat
    BY <1>0, <2>2 DEF TypeOK
  <2>7. Running(r)'
    BY <2>6 DEF Running
  <2> QED
    BY <2>2, <2>3, <2>4, <2>5, <2>7
<1>4. ASSUME NEW t \in Thread, StaysIn(t, Working) \/ StaysIn(t, After)
      PROVE  UNCHANGED <<owner, agents>> /\ \A q \in Run : ~(pc[q] = "idle" /\ pc'[q] # "idle")
  BY <1>4, Names DEF StaysIn, Working, Before, After, ServeTypeOK
<1>5. ASSUME NEW t \in Thread, Launched(t) \/ LaunchFails(t)
      PROVE  /\ UNCHANGED <<owner, agents>> /\ UNCHANGED <<outcome, runs>>
             /\ \A q \in Run : ~(pc[q] = "idle" /\ pc'[q] # "idle")
  <2>1. pc[t] = "launching" /\ on[t] \in Agent
    BY <1>5 DEF Launched, LaunchFails, Launches
  <2> QED
    BY <1>5, <2>1, Names DEF Launched, LaunchFails, ServeTypeOK, vars
<1>6. \/ UNCHANGED <<outcome, runs>>
      \/ \E t \in Thread, a \in Agent : Spawn(t, a)
      \/ UNCHANGED outcome /\ \A q \in Run : runs'[q].cut = runs[q].cut
  <2>1. ASSUME NEW r \in Run, Enter(r) PROVE UNCHANGED <<outcome, runs>>
    BY <2>1 DEF Enter, OpenRun
  <2>2. ASSUME NEW a \in Agent, EndError(a) \/ SignalError(a) PROVE UNCHANGED <<outcome, runs>>
    BY <2>2 DEF EndError, SignalError, vars
  <2>3. ASSUME NEW t \in Thread, NEW k \in Key, Share(t, k)
        PROVE  UNCHANGED outcome /\ \A q \in Run : runs'[q].cut = runs[q].cut
    BY <1>0, <2>3 DEF Share, Write, Change, TypeOK, RunState
  <2>4. ASSUME NEW t \in Thread, Program(t), ~ \E a \in Agent : Spawn(t, a),
               ~ \E k \in Key : Share(t, k)
        PROVE  UNCHANGED <<outcome, runs>>
    BY <2>4 DEF Program, SinkCheck, EndCut, Signal, Take, EndOk, Panic, vars
  <2>5. ASSUME NEW t \in Thread, Runtime(t) PROVE UNCHANGED <<outcome, runs>>
    BY <2>5 DEF Runtime, Launched, LaunchFails, Unwind, ReadCut, DropSignals, Leave, vars
  <2> QED
    BY <2>1, <2>2, <2>3, <2>4, <2>5 DEF ServeNext
<1>7. UNCHANGED outcome /\ \A q \in Run : runs'[q].cut = runs[q].cut
  BY <1>3, <1>6
<1> QED
  BY <1>1, <1>2, <1>3, <1>4, <1>5, <1>7, Kinds

-----------------------------------------------------------------------------
(* Cuts: where they come from and how they reach the journal.              *)

(* Nothing is marked cut in a run of which no part was cut or unwound.     *)
Causes ==
    /\ \A r \in Run : cutFlag[r] \/ runs[r].cut => hit[r]
    /\ \A t \in Thread : own[t] \/ arg[t] => RunOf(t) \in Run /\ hit[RunOf(t)]

(* t carries a cut it has not told the journal yet.                        *)
Pending(t) ==
    \/ own[t] /\ pc[t] \in {"unwinding", "ending"}
    \/ arg[t] /\ pc[t] = "closing"

(* A step that marks no cut; a thread that carries one goes on carrying it. *)
Neutral ==
    /\ UNCHANGED <<cutFlag, scope, own, arg, hit>>
    /\ \A u \in Thread : pc[u] \in {"unwinding", "ending", "closing"} =>
           pc'[u] = pc[u] \/ (pc[u] = "unwinding" /\ pc'[u] = "ending")

(* t is cut or unwinds, and only t and its own agent move.                 *)
Cuts(t) ==
    /\ pc[t] \in {"body", "launching"} /\ pc'[t] \in {"unwinding", "ending"}
    /\ own' = [own EXCEPT ![t] = TRUE]
    /\ hit' = [hit EXCEPT ![RunOf(t)] = TRUE]
    /\ \A r \in Run : cutFlag'[r] => cutFlag[r] \/ r = RunOf(t)
    /\ \A u \in Thread \ {t} : pc'[u] = pc[u] \/ pc[u] = "idle"
    /\ UNCHANGED <<scope, arg>>

(* Every step is of one of the kinds that matter for the cuts.             *)
LEMMA CutKinds ==
    ASSUME ServeTypeOK, Launches, ServeNext
    PROVE  \/ Neutral
           \/ \E t \in Thread : ReadCut(t) \/ Close(t) \/ Cuts(t)
           \/ \E t \in Thread, a \in Agent : Spawn(t, a)
<1> USE DEF ServeTypeOK
<1>1. ASSUME NEW r \in Run, Enter(r) PROVE Neutral
  BY <1>1, Names DEF Enter, Goes, Neutral
<1>2. ASSUME NEW a \in Agent, EndError(a) \/ SignalError(a) PROVE Neutral
  BY <1>2, Names DEF EndError, SignalError, Goes, Neutral
<1>3. ASSUME NEW t \in Thread, Program(t)
      PROVE  Neutral \/ Cuts(t) \/ \E a \in Agent : Spawn(t, a)
  <2>1. ASSUME NEW sink \in {"share", "signal"}, SinkCheck(t, sink) PROVE Neutral
    BY <2>1 DEF SinkCheck, Goes, Neutral
  <2>2. ASSUME NEW k \in Key, Share(t, k) PROVE Neutral
    BY <2>2 DEF Share, Goes, Neutral
  <2>3. ASSUME NEW cancelled \in BOOLEAN, EndCut(t, cancelled) PROVE Cuts(t)
    BY <2>3 DEF EndCut, Goes, Cuts
  <2>4. CASE Panic(t)
    BY <2>4 DEF Panic, Goes, Cuts
  <2>5. CASE Signal(t) \/ Take(t) \/ EndOk(t)
    BY <2>5 DEF Signal, Take, EndOk, Goes, Neutral
  <2> QED
    BY <1>3, <2>1, <2>2, <2>3, <2>4, <2>5 DEF Program
<1>4. ASSUME NEW t \in Thread, Runtime(t)
      PROVE  Neutral \/ ReadCut(t) \/ Close(t) \/ Cuts(t)
  <2>1. CASE Launched(t)
    <3>1. on[t] \in Thread /\ pc[on[t]] = "idle" /\ pc[t] = "launching"
      BY <2>1, Names DEF Launched, Launches
    <3> QED
      BY <2>1, <3>1 DEF Launched, Neutral
  <2>2. CASE LaunchFails(t)
    <3>1. on[t] \in Thread /\ pc[on[t]] = "idle" /\ pc[t] = "launching"
      BY <2>2, Names DEF LaunchFails, Launches
    <3> QED
      BY <2>2, <3>1 DEF LaunchFails, Cuts
  <2>3. CASE Unwind(t) \/ DropSignals(t) \/ Leave(t)
    BY <2>3 DEF Unwind, DropSignals, Leave, Goes, Neutral
  <2> QED
    BY <1>4, <2>1, <2>2, <2>3 DEF Runtime
<1> QED
  BY <1>1, <1>2, <1>3, <1>4 DEF ServeNext

(* Outside closes, a cut is kept until it is told, and a new one is        *)
(* carried by the thread that was cut.                                     *)
LEMMA CutStep ==
    ASSUME Inv, ServeTypeOK, Launches, Counts, Causes, ServeNext, \A t \in Thread : ~Close(t)
    PROVE  /\ Causes'
           /\ \A u \in Thread : Pending(u) => Pending(u)' /\ RunOf(u)' = RunOf(u)
           /\ \A r \in Run : hit[r] => hit'[r]
           /\ \A r \in Run : hit'[r] /\ ~hit[r] =>
                  Running(r) /\ \E u \in Thread : RunOf(u)' = r /\ Pending(u)'
<1>0. \A q \in Run : runs'[q].cut = runs[q].cut
  BY OthersLeave
<1> USE DEF ServeTypeOK
<1>1. CASE Neutral
  <2>1. \A u \in Thread : RunOf(u)' = RunOf(u)
    BY <1>1 DEF RunOf, Neutral
  <2>2. Causes'
    BY <1>0, <1>1, <2>1 DEF Neutral, Causes
  <2>3. \A u \in Thread : Pending(u) => Pending(u)'
    BY <1>1 DEF Pending, Neutral
  <2> QED
    BY <1>1, <2>1, <2>2, <2>3 DEF Neutral
<1>2. ASSUME NEW t \in Thread, ReadCut(t)
      PROVE  /\ Causes' /\ UNCHANGED hit
             /\ \A u \in Thread : Pending(u) => Pending(u)' /\ RunOf(u)' = RunOf(u)
  <2>1. \A u \in Thread : RunOf(u)' = RunOf(u)
    BY <1>2 DEF RunOf, ReadCut
  <2>2. RunOf(t) \in Run
    BY <1>2, Begun DEF ReadCut, Goes
  <2>3. Causes'
    BY <1>0, <1>2, <2>1, <2>2 DEF ReadCut, Goes, Causes
  <2>4. \A u \in Thread : Pending(u) => Pending(u)'
    BY <1>2 DEF Pending, ReadCut, Goes
  <2> QED
    BY <1>2, <2>1, <2>3, <2>4 DEF ReadCut
<1>3. ASSUME NEW t \in Thread, Cuts(t)
      PROVE  /\ Causes'
             /\ \A u \in Thread : Pending(u) => Pending(u)' /\ RunOf(u)' = RunOf(u)
             /\ \A r \in Run : hit[r] => hit'[r]
             /\ \A r \in Run : hit'[r] /\ ~hit[r] =>
                    Running(r) /\ \E u \in Thread : RunOf(u)' = r /\ Pending(u)'
  <2>1. \A u \in Thread : RunOf(u)' = RunOf(u)
    BY <1>3 DEF RunOf, Cuts
  <2>2. RunOf(t) \in Run /\ Running(RunOf(t))
    BY <1>3, Begun, KeepsOpen DEF Cuts, StaysOpen, Before
  <2>3. \A r \in Run : hit'[r] = IF r = RunOf(t) THEN TRUE ELSE hit[r]
    BY <1>3 DEF Cuts
  <2>4. \A u \in Thread : own'[u] = IF u = t THEN TRUE ELSE own[u]
    BY <1>3 DEF Cuts
  <2>5. Causes'
    BY <1>0, <1>3, <2>1, <2>2, <2>3, <2>4 DEF Cuts, Causes
  <2>6. \A u \in Thread : Pending(u) => Pending(u)'
    BY <1>3, <2>4 DEF Pending, Cuts
  <2>7. Pending(t)'
    BY <1>3, <2>4 DEF Pending, Cuts
  <2> QED
    BY <2>1, <2>2, <2>3, <2>5, <2>6, <2>7
<1>4. ASSUME NEW t \in Thread, NEW a \in Agent, Spawn(t, a)
      PROVE  /\ Causes' /\ UNCHANGED hit
             /\ \A u \in Thread : Pending(u) => Pending(u)' /\ RunOf(u)' = RunOf(u)
  <2>1. scope[a] = NoRun /\ ~own[a] /\ ~arg[a]
    BY <1>4, Names DEF Spawn, Started, Causes
  <2>2. \A u \in Thread \ {a} : RunOf(u)' = RunOf(u)
    BY <1>4 DEF Spawn, RunOf
  <2>3. Causes'
    BY <1>0, <1>4, <2>1, <2>2 DEF Spawn, Causes
  <2>4. \A u \in Thread : Pending(u) => u # a /\ u # t
    BY <1>4, <2>1 DEF Pending, Spawn, Goes
  <2>5. \A u \in Thread : Pending(u) => Pending(u)'
    BY <1>4, <2>4 DEF Pending, Spawn, Goes
  <2> QED
    BY <1>4, <2>2, <2>3, <2>4, <2>5 DEF Spawn
<1> QED
  BY <1>1, <1>2, <1>3, <1>4, CutKinds

-----------------------------------------------------------------------------
(* Outcomes.                                                               *)

(* While a run is open its outcome says whether it was undone so far, and  *)
(* a cut the journal does not know yet is carried by a thread still in the *)
(* run; when it is over the outcome is final.                              *)
Results ==
    \A r \in Run :
        /\ pc[r] = "idle" => ~hit[r] /\ outcome[r] = "open"
        /\ Running(r) => outcome[r] = IF runs[r].cut THEN "undone" ELSE "open"
        /\ ~Running(r) /\ pc[r] # "idle" =>
               outcome[r] = IF hit[r] THEN "undone" ELSE "confirmed"
        /\ Running(r) /\ hit[r] =>
               runs[r].cut \/ \E t \in Thread : RunOf(t) = r /\ Pending(t)

(* A run that has entered does not enter again.                            *)
LEMMA NoIdleAgain ==
    ASSUME ServeTypeOK, Launches, ServeNext, NEW r \in Run, pc[r] # "idle"
    PROVE  pc'[r] # "idle"
<1> USE DEF ServeTypeOK
<1>1. ASSUME NEW q \in Run, Enter(q) PROVE pc'[r] # "idle"
  BY <1>1, Names DEF Enter, Goes
<1>2. ASSUME NEW t \in Thread, NEW a \in Agent, Spawn(t, a) PROVE pc'[r] # "idle"
  BY <1>2, Names DEF Spawn, Goes
<1>3. ASSUME NEW t \in Thread, Launched(t) \/ LaunchFails(t) PROVE pc'[r] # "idle"
  BY <1>3, Names DEF Launched, LaunchFails
<1>4. ASSUME NEW t \in Thread, StaysIn(t, Working) \/ StaysIn(t, After) \/ Close(t)
      PROVE  pc'[r] # "idle"
  BY <1>4, Names DEF StaysIn, Close, Goes, Working, Before, After
<1> QED
  BY <1>1, <1>2, <1>3, <1>4, Kinds

(* Every step preserves Causes and Results.                                *)
LEMMA ResultsStep ==
    ASSUME Inv, ServeTypeOK, Launches, Counts, Causes, Results, ServeNext
    PROVE  Causes' /\ Results'
<1>0. Inv' /\ ServeTypeOK' /\ Launches' /\ Counts'
  BY JournalStep, NextInv, TypeStep, LaunchesStep, CountsStep
<1>1. CASE \A t \in Thread : ~Close(t)
  <2>1. /\ UNCHANGED outcome
        /\ \A q \in Run : runs'[q].cut = runs[q].cut
        /\ \A q \in Run : Running(q)' <=> Running(q) \/ (pc[q] = "idle" /\ pc'[q] # "idle")
    BY <1>1, OthersLeave
  <2>2. /\ Causes'
        /\ \A u \in Thread : Pending(u) => Pending(u)' /\ RunOf(u)' = RunOf(u)
        /\ \A r \in Run : hit[r] => hit'[r]
        /\ \A r \in Run : hit'[r] /\ ~hit[r] =>
               Running(r) /\ \E u \in Thread : RunOf(u)' = r /\ Pending(u)'
    BY <1>1, CutStep
  <2>3. ASSUME NEW r \in Run
        PROVE  /\ pc'[r] = "idle" => ~hit'[r] /\ outcome'[r] = "open"
               /\ Running(r)' => outcome'[r] = IF runs'[r].cut THEN "undone" ELSE "open"
               /\ ~Running(r)' /\ pc'[r] # "idle" =>
                      outcome'[r] = IF hit'[r] THEN "undone" ELSE "confirmed"
               /\ Running(r)' /\ hit'[r] =>
                      runs'[r].cut \/ \E t \in Thread : RunOf(t)' = r /\ Pending(t)'
    <3>1. pc[r] = "idle" => ~Running(r) /\ ~hit[r] /\ outcome[r] = "open" /\ ~runs[r].cut
      BY IdleRun DEF Results, Inv, RunStateMatchesThreads, NewRun
    <3>2. pc'[r] = "idle" => pc[r] = "idle"
      BY NoIdleAgain
    <3>3. pc'[r] = "idle" => ~hit'[r] /\ outcome'[r] = "open"
      BY <3>1, <3>2, <2>1, <2>2
    <3>4. Running(r)' => outcome'[r] = IF runs'[r].cut THEN "undone" ELSE "open"
      BY <3>1, <2>1 DEF Results
    <3>5. ~Running(r)' /\ pc'[r] # "idle" => outcome'[r] = IF hit'[r] THEN "undone" ELSE "confirmed"
      <4>1. SUFFICES ASSUME ~Running(r)', pc'[r] # "idle"
                     PROVE  outcome'[r] = IF hit'[r] THEN "undone" ELSE "confirmed"
        OBVIOUS
      <4>2. ~Running(r) /\ pc[r] # "idle"
        BY <4>1, <2>1
      <4>3. hit'[r] <=> hit[r]
        BY <4>2, <2>2
      <4> QED
        BY <4>2, <4>3, <2>1 DEF Results
    <3>6. Running(r)' /\ hit'[r] =>
              runs'[r].cut \/ \E t \in Thread : RunOf(t)' = r /\ Pending(t)'
      <4>1. CASE hit[r]
        BY <4>1, <3>1, <2>1, <2>2 DEF Results
      <4>2. CASE ~hit[r]
        BY <4>2, <2>2
      <4> QED
        BY <4>1, <4>2
    <3> QED
      BY <3>3, <3>4, <3>5, <3>6
  <2> QED
    BY <2>2, <2>3 DEF Results
<1>2. ASSUME NEW t \in Thread, Close(t) PROVE Causes' /\ Results'
  <2>1. PICK r \in Run, undo \in BOOLEAN :
             /\ r = RunOf(t) /\ undo = (arg[t] \/ runs[r].cut) /\ pc[t] = "closing"
             /\ pc' = [pc EXCEPT ![t] = IF undo THEN "dropping" ELSE "closed"]
             /\ \A q \in Run \ {r} : /\ runs'[q].cut = runs[q].cut
                                     /\ Running(q)' <=> Running(q)
                                     /\ outcome'[q] = outcome[q]
             /\ runs'[r].cut => undo
             /\ Running(r)' => runs'[r].cut = undo
             /\ Running(r)
             /\ outcome'[r] = IF undo THEN "undone"
                              ELSE IF Running(r)' THEN outcome[r] ELSE "confirmed"
             /\ UNCHANGED <<cutFlag, scope, on, own, arg, failed, signals, hit>>
    BY <1>2, CloseIs
  <2>2. \A u \in Thread : RunOf(u)' = RunOf(u)
    BY <2>1 DEF RunOf
  <2>3. undo => hit[r]
    BY <2>1 DEF Causes
  <2>4. Causes'
    <3>1. \A q \in Run : cutFlag'[q] \/ runs'[q].cut => hit'[q]
      BY <2>1, <2>3 DEF Causes
    <3>2. \A u \in Thread : own'[u] \/ arg'[u] => RunOf(u)' \in Run /\ hit'[RunOf(u)']
      BY <2>1, <2>2 DEF Causes
    <3> QED
      BY <3>1, <3>2 DEF Causes
  <2>5. \A u \in Thread \ {t} : pc'[u] = pc[u] /\ (Pending(u) => Pending(u)')
    BY <2>1 DEF Pending, ServeTypeOK
  <2>6. ASSUME NEW u \in Thread \ {t}, RunOf(u) = r, Pending(u) PROVE Running(r)'
    <3>1. pc'[u] \in Before
      BY <2>5, <2>6 DEF Pending, Before
    <3>2. StaysOpen'
      BY <1>0, KeepsOpen, PTL
    <3>3. Running(RunOf(u))'
      BY <3>1, <3>2 DEF StaysOpen
    <3> QED
      BY <3>3, <2>2, <2>6 DEF Running
  <2>7. hit[r] /\ ~Running(r)' => undo
    <3> SUFFICES ASSUME hit[r], ~Running(r)', ~undo PROVE FALSE
      OBVIOUS
    <3>1. PICK u \in Thread : RunOf(u) = r /\ Pending(u)
      BY <2>1 DEF Results
    <3>2. u # t
      BY <3>1, <2>1 DEF Pending
    <3> QED
      BY <3>1, <3>2, <2>6
  <2>8. ASSUME NEW q \in Run
        PROVE  /\ pc'[q] = "idle" => ~hit'[q] /\ outcome'[q] = "open"
               /\ Running(q)' => outcome'[q] = IF runs'[q].cut THEN "undone" ELSE "open"
               /\ ~Running(q)' /\ pc'[q] # "idle" =>
                      outcome'[q] = IF hit'[q] THEN "undone" ELSE "confirmed"
               /\ Running(q)' /\ hit'[q] =>
                      runs'[q].cut \/ \E u \in Thread : RunOf(u)' = q /\ Pending(u)'
    <3>0. q \in Thread /\ RunOf(q) = q
      BY Names
    <3>1. CASE q # r
      <4>1. q # t
        BY <3>0, <3>1, <2>1
      <4>2. \A u \in Thread : RunOf(u) = q => u # t
        BY <3>1, <2>1
      <4> QED
        BY <3>0, <3>1, <4>1, <4>2, <2>1, <2>2, <2>5 DEF Results
    <3>2. CASE q = r
      <4>1. pc'[r] # "idle"
        <5>1. pc[r] # "idle"
          BY <2>1, IdleRun
        <5> QED
          BY <5>1, NoIdleAgain
      <4>2. Running(r)' => outcome'[r] = IF runs'[r].cut THEN "undone" ELSE "open"
        BY <2>1 DEF Results
      <4>3. ~Running(r)' => outcome'[r] = IF hit[r] THEN "undone" ELSE "confirmed"
        BY <2>1, <2>3, <2>7
      <4>4. Running(r)' /\ hit[r] =>
                runs'[r].cut \/ \E u \in Thread : RunOf(u)' = r /\ Pending(u)'
        <5> SUFFICES ASSUME Running(r)', hit[r], ~runs'[r].cut
                     PROVE  \E u \in Thread : RunOf(u)' = r /\ Pending(u)'
          OBVIOUS
        <5>1. ~undo
          BY <2>1
        <5>2. PICK u \in Thread : RunOf(u) = r /\ Pending(u)
          BY <5>1, <2>1 DEF Results
        <5>3. u # t
          BY <5>1, <5>2, <2>1 DEF Pending
        <5> QED
          BY <5>2, <5>3, <2>2, <2>5
      <4> QED
        BY <3>2, <4>1, <4>2, <4>3, <4>4, <2>1
    <3> QED
      BY <3>1, <3>2
  <2> QED
    BY <2>4, <2>8 DEF Results
<1> QED
  BY <1>1, <1>2

-----------------------------------------------------------------------------
(* Signals.                                                                *)

(* The runs whose signals are in the queue.                                *)
Sent == {signals[i] : i \in DOMAIN signals}

(* A signal of an undone run is queued only while a thread of the run has  *)
(* yet to drop the run's signals.                                          *)
DropsAhead ==
    \A r \in Run : outcome[r] = "undone" /\ r \in Sent =>
        \E t \in Thread : RunOf(t) = r /\ pc[t] \notin {"closed", "ended"}

(* A thread of a run stays one, and leaves only by its close and its drop. *)
LEMMA StillAhead ==
    ASSUME ServeTypeOK, Launches, ServeNext, NEW u \in Thread, RunOf(u) \in Run,
           pc[u] \notin {"closed", "ended"}, ~Close(u), ~DropSignals(u)
    PROVE  RunOf(u)' = RunOf(u) /\ pc'[u] \notin {"closed", "ended"}
<1> USE DEF ServeTypeOK
<1>1. ASSUME NEW r \in Run, Enter(r)
      PROVE  RunOf(u)' = RunOf(u) /\ pc'[u] \notin {"closed", "ended"}
  BY <1>1, Names DEF Enter, Goes, RunOf
<1>2. ASSUME NEW t \in Thread, NEW a \in Agent, Spawn(t, a)
      PROVE  RunOf(u)' = RunOf(u) /\ pc'[u] \notin {"closed", "ended"}
  <2>1. u # a
    BY <1>2, Names DEF Spawn, Started
  <2> QED
    BY <1>2, <2>1 DEF Spawn, Goes, RunOf
<1>3. ASSUME NEW t \in Thread, Launched(t) \/ LaunchFails(t)
      PROVE  RunOf(u)' = RunOf(u) /\ pc'[u] \notin {"closed", "ended"}
  <2>1. PICK x, y \in {"body", "unwinding", "ending"} : pc' = [pc EXCEPT ![t] = x, ![on[t]] = y]
    BY <1>3 DEF Launched, LaunchFails
  <2>2. UNCHANGED scope /\ pc[t] = "launching"
    BY <1>3 DEF Launched, LaunchFails
  <2> QED
    BY <2>1, <2>2 DEF RunOf
<1>4. ASSUME NEW t \in Thread, StaysIn(t, Working) \/ (t # u /\ (StaysIn(t, After) \/ Close(t)))
      PROVE  RunOf(u)' = RunOf(u) /\ pc'[u] \notin {"closed", "ended"}
  BY <1>4 DEF StaysIn, Close, Goes, Working, Before, RunOf
<1> QED
  BY <1>1, <1>2, <1>3, <1>4, Kinds

(* A signal enters the queue from a thread in its block, or without run;   *)
(* a drop takes every signal of its run.                                   *)
LEMMA SentStep ==
    ASSUME ServeTypeOK, Launches, ServeNext, NEW r \in Run, r \in Sent'
    PROVE  \/ r \in Sent /\ \A t \in Thread : DropSignals(t) => RunOf(t) # r
           \/ \E t \in Thread : Signal(t) /\ RunOf(t) = r
<1> USE DEF ServeTypeOK, Sent
<1>1. ASSUME NEW t \in Thread, DropSignals(t) PROVE r \in Sent /\ RunOf(t) # r
  <2> DEFINE I == {i \in DOMAIN signals : signals[i] # RunOf(t)}
  <2>1. I \in SUBSET (1 .. Len(signals)) /\ \A i \in I : signals[i] # RunOf(t)
    OBVIOUS
  <2>2. signals' = Retain(signals, I)
    BY <1>1 DEF DropSignals
  <2> HIDE DEF I
  <2>3. PICK f : /\ Enumerates(f, Len(Retain(signals, I)), I)
                 /\ \A i \in 1 .. Len(Retain(signals, I)) : Retain(signals, I)[i] = signals[f[i]]
    BY <2>1, RetainIs
  <2>4. signals' \in Seq(Run \cup {NoRun})
    BY <2>1, <2>2, RetainIs
  <2>5. PICK i \in 1 .. Len(signals') : signals'[i] = r
    BY <2>4
  <2>6. f[i] \in I
    BY <2>2, <2>3 DEF Enumerates
  <2>7. signals[f[i]] = r
    <3>1. i \in 1 .. Len(Retain(signals, I)) /\ Retain(signals, I)[i] = r
      BY <2>2, <2>5, Zenon
    <3> QED
      BY <3>1, <2>3, Zenon
  <2>8. f[i] \in DOMAIN signals
    BY <2>6, Zenon DEF I
  <2> QED
    BY <2>1, <2>6, <2>7, <2>8
<1>2. ASSUME UNCHANGED signals PROVE r \in Sent
  BY <1>2
<1>3. ASSUME NEW t \in Thread, Take(t) PROVE r \in Sent
  <2>1. signals' = Tail(signals) /\ signals # <<>>
    BY <1>3 DEF Take
  <2>2. \A i \in DOMAIN signals' : i + 1 \in DOMAIN signals /\ signals'[i] = signals[i + 1]
    BY <2>1
  <2> QED
    BY <2>2
<1>4. ASSUME NEW x, x \in Run \cup {NoRun}, signals' = Append(signals, x)
      PROVE  r \in Sent \/ x = r
  BY <1>4
<1>5. ASSUME NEW a \in Agent, SignalError(a) PROVE r \in Sent
  BY <1>4, <1>5, Names DEF SignalError
<1>6. ASSUME NEW t \in Thread, Signal(t) PROVE r \in Sent \/ RunOf(t) = r
  <2>1. RunOf(t) \in Run
    BY <1>6, Begun DEF Signal, Goes
  <2>2. ThreadScope(t) = r => RunOf(t) = r
    BY Names DEF ThreadScope
  <2> QED
    BY <2>1, <2>2, <1>4, <1>6 DEF Signal, ThreadScope
<1>7. \/ UNCHANGED signals
      \/ \E t \in Thread : DropSignals(t) \/ Take(t) \/ Signal(t)
      \/ \E a \in Agent : SignalError(a)
  BY DEF ServeNext, Program, Runtime, Enter, EndError, SinkCheck, Share, Spawn, EndCut, EndOk,
         Panic, Launched, LaunchFails, Unwind, ReadCut, Close, Leave
<1> QED
  BY <1>1, <1>2, <1>3, <1>5, <1>6, <1>7

(* Every step preserves DropsAhead.                                        *)
LEMMA DropsAheadStep ==
    ASSUME Inv, ServeTypeOK, Launches, Counts, Results, DropsAhead, ServeNext
    PROVE  DropsAhead'
<1> SUFFICES ASSUME NEW r \in Run, outcome'[r] = "undone", r \in Sent'
             PROVE  \E t \in Thread : RunOf(t)' = r /\ pc'[t] \notin {"closed", "ended"}
  BY DEF DropsAhead
<1>1. ASSUME NEW t \in Thread, Close(t), RunOf(t) = r
      PROVE  RunOf(t)' = r /\ pc'[t] \notin {"closed", "ended"}
  <2>1. PICK q \in Run, undo \in BOOLEAN :
             /\ q = RunOf(t) /\ undo = (arg[t] \/ runs[q].cut)
             /\ pc' = [pc EXCEPT ![t] = IF undo THEN "dropping" ELSE "closed"]
             /\ Running(q)
             /\ outcome'[q] = IF undo THEN "undone"
                              ELSE IF Running(q)' THEN outcome[q] ELSE "confirmed"
             /\ UNCHANGED scope
    BY <1>1, CloseIs
  <2>2. outcome[q] = IF runs[q].cut THEN "undone" ELSE "open"
    BY <2>1 DEF Results
  <2>3. undo
    BY <1>1, <2>1, <2>2
  <2> QED
    BY <1>1, <2>1, <2>3 DEF ServeTypeOK, RunOf
<1>2. CASE \E t \in Thread : Signal(t) /\ RunOf(t) = r
  BY <1>2 DEF Signal, Goes, RunOf, ServeTypeOK
<1>3. CASE /\ r \in Sent /\ \A t \in Thread : DropSignals(t) => RunOf(t) # r
           /\ \A t \in Thread : RunOf(t) = r => ~Close(t)
  <2>1. outcome[r] = "undone"
    <3>1. ASSUME NEW t \in Thread, Close(t) PROVE outcome'[r] = outcome[r]
      <4>1. RunOf(t) # r
        BY <1>3, <3>1
      <4> QED
        BY <3>1, <4>1 DEF Close, ServeTypeOK
    <3> QED
      BY <3>1, OthersLeave
  <2>2. PICK t \in Thread : RunOf(t) = r /\ pc[t] \notin {"closed", "ended"}
    BY <1>3, <2>1 DEF DropsAhead
  <2> QED
    BY <1>3, <2>2, StillAhead
<1> QED
  BY <1>1, <1>2, <1>3, SentStep

-----------------------------------------------------------------------------
(* Entries.                                                                *)

(* e is what scope s wrote; of what is confirmed it is only known to be    *)
(* one of G.                                                               *)
WrittenBy(e, s, G) == IF s = NoRun THEN e \in G ELSE e = s

(* Every version of c holds its own run's entry, the top one in d, and     *)
(* below them is only what G allows.                                       *)
Traced(d, c, G) ==
    /\ c.base \in G
    /\ \A i \in 1 .. Len(c.versions) :
           WrittenBy(IF i = Len(c.versions) THEN d ELSE c.versions[i].entry,
                     c.versions[i].scope, G)
    /\ c.versions = <<>> => d \in G

(* Positions kept in order with the last among them: the last stays last.  *)
LEMMA LastKept ==
    ASSUME NEW n \in Nat, NEW m \in Nat, NEW I \in SUBSET (1 .. n), n \in I, NEW f, Enumerates(f, m, I)
    PROVE  /\ m > 0 /\ f[m] = n
           /\ \A i \in 1 .. m : f[i] \in 1 .. n /\ (f[i] = n <=> i = m)
<1>1. \A i \in 1 .. m : f[i] \in 1 .. n
  BY DEF Enumerates
<1>2. \A i, j \in 1 .. m : i < j => f[i] < f[j]
  BY DEF Enumerates
<1>3. PICK i \in 1 .. m : f[i] = n
  BY DEF Enumerates
<1>4. m \in 1 .. m /\ (i < m => n < f[m])
  BY <1>2, <1>3
<1>5. m > 0 /\ f[m] = n
  BY <1>1, <1>3, <1>4
<1>6. \A j \in 1 .. m : j < m => f[j] < n
  BY <1>2, <1>4, <1>5
<1> QED
  BY <1>1, <1>5, <1>6

(* Compaction keeps an entry traced to a writer of G.                      *)
LEMMA TracedCompact ==
    ASSUME NEW c \in Chain, NEW d, NEW G, Absent \in G, Traced(d, c, G)
    PROVE  Traced(d, Compact(c), G)
<1> DEFINE vs == c.versions
           low == Low(vs)
           n == Len(vs)
           I == Kept(vs, low)
           ws == Retain(vs, I)
           m == Len(ws)
<1>1. vs \in Seq(Version) /\ n \in Nat
  BY DEF Chain
<1>2. low \in 0 .. n /\ (low > 0 => vs[low].scope = NoRun)
  BY <1>1, LowIs
<1>3. CASE low = n
  <2>1. Compact(c) = NoChain
    BY <1>3, CompactIs
  <2>2. d \in G
    <3>1. CASE n = 0
      <4>1. vs = <<>>
        BY <3>1, <1>1
      <4> QED
        BY <4>1 DEF Traced
    <3>2. CASE n # 0
      <4>1. n \in 1 .. n /\ vs[n].scope = NoRun
        BY <3>2, <1>1, <1>2, <1>3
      <4> QED
        BY <4>1 DEF Traced, WrittenBy
    <3> QED
      BY <3>1, <3>2
  <2>3. NoChain.base = Absent /\ NoChain.versions = <<>> /\ Len(<<>>) = 0
    BY DEF NoChain
  <2> QED
    BY <2>1, <2>2, <2>3 DEF Traced
<1>4. CASE low # n
  <2>1. I \in SUBSET (1 .. n) /\ n \in I
    BY <1>1, <1>2, <1>4 DEF Kept
  <2>2. ws \in Seq(Version) /\ m \in Nat
    BY <1>1, <2>1, RetainIs
  <2>3. PICK f : Enumerates(f, m, I) /\ \A i \in 1 .. m : ws[i] = vs[f[i]]
    BY <1>1, <2>1, RetainIs
  <2> HIDE DEF I, ws, low
  <2>4. m > 0 /\ \A i \in 1 .. m : f[i] \in 1 .. n /\ (f[i] = n <=> i = m)
    BY <1>1, <2>1, <2>2, <2>3, LastKept
  <2>5. Compact(c) = [base |-> IF low = 0 THEN c.base ELSE vs[low].entry, versions |-> ws]
    BY <1>4, CompactIs DEF I, ws, low
  <2>6. (IF low = 0 THEN c.base ELSE vs[low].entry) \in G
    <3>1. CASE low = 0
      BY <3>1 DEF Traced
    <3>2. CASE low # 0
      <4>1. low \in 1 .. n /\ low # n /\ vs[low].scope = NoRun
        BY <3>2, <1>1, <1>2, <1>4
      <4> QED
        BY <3>2, <4>1 DEF Traced, WrittenBy
    <3> QED
      BY <3>1, <3>2
  <2>7. ASSUME NEW i \in 1 .. m
        PROVE  WrittenBy(IF i = m THEN d ELSE ws[i].entry, ws[i].scope, G)
    <3>1. ws[i] = vs[f[i]] /\ f[i] \in 1 .. n /\ (f[i] = n <=> i = m)
      BY <2>3, <2>4
    <3>2. WrittenBy(IF f[i] = n THEN d ELSE vs[f[i]].entry, vs[f[i]].scope, G)
      BY <3>1 DEF Traced
    <3> QED
      BY <3>1, <3>2
  <2>8. ws # <<>>
    BY <2>4
  <2> QED
    BY <2>5, <2>6, <2>7, <2>8 DEF Traced
<1> QED
  BY <1>3, <1>4

(* A write, by its own scope.                                              *)
LEMMA TracedRecord ==
    ASSUME NEW c, Good(c), NEW d \in Entry, NEW s \in Scope, NEW G, Absent \in G, NoRun \in G,
           Traced(d, c, G)
    PROVE  Traced(s, Record(c, s, d), G)
<1> DEFINE vs == c.versions
           n == Len(vs)
<1>0. vs \in Seq(Version) /\ n \in Nat /\ (vs # <<>> => n \in 1 .. n)
  BY GoodNoChain
<1>1. CASE ~Opens(c, s)
  <2>1. Record(c, s, d) = c
    BY <1>1 DEF Record
  <2>2. CASE vs = <<>>
    <3>1. s = NoRun /\ n = 0
      BY <1>1, <2>2 DEF Opens
    <3> QED
      BY <2>1, <2>2, <3>1 DEF Traced
  <2>3. CASE vs # <<>>
    <3>1. n \in 1 .. n /\ vs[n].scope = s
      BY <1>0, <1>1, <2>3 DEF Opens, Top
    <3>2. WrittenBy(s, s, G)
      BY DEF WrittenBy
    <3> QED
      BY <2>1, <2>3, <3>1, <3>2 DEF Traced
  <2> QED
    BY <2>2, <2>3
<1>2. CASE Opens(c, s) /\ vs = <<>>
  <2> DEFINE new == [scope |-> s, entry |-> Live]
  <2>1. Record(c, s, d) = [base |-> d, versions |-> <<new>>]
    BY <1>2 DEF Record
  <2>2. Len(<<new>>) = 1 /\ <<new>>[1] = new /\ new.scope = s /\ <<new>> # <<>>
    OBVIOUS
  <2>3. d \in G /\ WrittenBy(s, s, G)
    BY <1>2 DEF Traced, WrittenBy
  <2> HIDE DEF new
  <2> QED
    BY <2>1, <2>2, <2>3 DEF Traced
<1>3. CASE Opens(c, s) /\ vs # <<>>
  <2> DEFINE p == Push(c, s, d)
  <2>1. Record(c, s, d) = Compact(p) /\ p.base = c.base
    BY <1>3 DEF Record, Push
  <2>2. /\ p \in Chain /\ Len(p.versions) = n + 1
        /\ p.versions[n + 1] = [scope |-> s, entry |-> Live]
        /\ \A i \in 1 .. n : p.versions[i] = IF i = n THEN [scope |-> vs[i].scope, entry |-> d]
                                             ELSE vs[i]
    BY <1>3, PushLiveTop
  <2> HIDE DEF p
  <2>3. ASSUME NEW i \in 1 .. n + 1
        PROVE  WrittenBy(IF i = n + 1 THEN s ELSE p.versions[i].entry, p.versions[i].scope, G)
    <3>1. CASE i = n + 1
      BY <3>1, <2>2 DEF WrittenBy
    <3>2. CASE i = n
      <4>1. p.versions[i] = [scope |-> vs[n].scope, entry |-> d] /\ n \in 1 .. n
        BY <3>2, <2>2, <1>0, <1>3
      <4>2. p.versions[i].scope = vs[n].scope /\ p.versions[i].entry = d
        BY <4>1
      <4>3. WrittenBy(d, vs[n].scope, G)
        BY <4>1 DEF Traced
      <4> QED
        BY <3>2, <4>2, <4>3, <1>0
    <3>3. CASE i # n /\ i # n + 1
      <4>0. i \in 1 .. n
        BY <3>3, <1>0
      <4>1. i \in 1 .. n /\ p.versions[i] = vs[i]
        BY <3>3, <4>0, <2>2
      <4>2. WrittenBy(vs[i].entry, vs[i].scope, G)
        BY <3>3, <4>1 DEF Traced
      <4> QED
        BY <3>3, <4>1, <4>2
    <3> QED
      BY <3>1, <3>2, <3>3
  <2>4. p.versions # <<>> /\ p.base \in G
    BY <2>1, <2>2, <1>0 DEF Traced
  <2>5. Traced(s, p, G)
    BY <2>2, <2>3, <2>4 DEF Traced
  <2> QED
    BY <2>1, <2>2, <2>5, TracedCompact
<1> QED
  BY <1>1, <1>2, <1>3

(* An undo takes the entries of r away.                                    *)
LEMMA TracedRollback ==
    ASSUME NEW c, Good(c), NEW d, NEW r \in Run, NEW G, Absent \in G, NoRun \in G,
           Traced(d, c, G)
    PROVE  Traced(RollbackData(d, c, r), RollbackChain(c, r), G)
<1> DEFINE vs == c.versions
           n == Len(vs)
           ws == Retain(vs, Others(c, r))
           m == Len(ws)
<1>1. ws \in Seq(Version)
  BY OthersAre
<1>2. PICK f : /\ Enumerates(f, m, Others(c, r))
               /\ \A i \in 1 .. m : f[i] \in 1 .. n /\ ws[i] = vs[f[i]] /\ ws[i].scope # r
  BY OthersAre
<1>3. vs \in Seq(Version) /\ n \in Nat /\ m \in Nat
  BY <1>1, GoodNoChain
<1>4. CASE ~TopIs(c, r)
  <2> HIDE DEF ws
  <2>1. RollbackChain(c, r) = [base |-> c.base, versions |-> ws] /\ RollbackData(d, c, r) = d
    BY <1>4 DEF RollbackChain, RollbackData, ws
  <2>2. c.base \in G
    BY DEF Traced
  <2>3. CASE vs = <<>>
    <3>1. m = 0
      <4>1. n = 0
        BY <2>3
      <4> QED
        BY <4>1, <1>2, <1>3
    <3>2. d \in G
      BY <2>3 DEF Traced
    <3> QED
      BY <2>1, <2>2, <3>1, <3>2 DEF Traced
  <2>4. CASE vs # <<>>
    <3>1. n \in 1 .. n
      BY <2>4, <1>3
    <3>2. n \in Others(c, r) /\ Others(c, r) \in SUBSET (1 .. n)
      BY <2>4, <3>1, <1>3, <1>4 DEF Others, TopIs, Top
    <3>3. m > 0 /\ \A i \in 1 .. m : f[i] = n <=> i = m
      BY <3>2, <1>2, <1>3, LastKept
    <3>4. ASSUME NEW i \in 1 .. m
          PROVE  WrittenBy(IF i = m THEN d ELSE ws[i].entry, ws[i].scope, G)
      <4>1. ws[i] = vs[f[i]] /\ f[i] \in 1 .. n /\ (f[i] = n <=> i = m)
        BY <1>2, <3>3
      <4>2. WrittenBy(IF f[i] = n THEN d ELSE vs[f[i]].entry, vs[f[i]].scope, G)
        BY <4>1 DEF Traced
      <4> QED
        BY <4>1, <4>2
    <3>5. ws # <<>>
      BY <3>3
    <3> QED
      BY <2>1, <2>2, <3>4, <3>5 DEF Traced
  <2> QED
    BY <2>3, <2>4
<1>5. CASE TopIs(c, r) /\ ws = <<>>
  <2>1. RollbackChain(c, r) = NoChain /\ RollbackData(d, c, r) = c.base
    BY <1>5 DEF RollbackChain, RollbackData, Survivor
  <2>2. NoChain.base = Absent /\ NoChain.versions = <<>> /\ Len(<<>>) = 0
    BY DEF NoChain
  <2> QED
    BY <2>1, <2>2 DEF Traced
<1>6. CASE TopIs(c, r) /\ ws # <<>>
  <2> DEFINE o == Reopened(c, r)
             e == ws[m].entry
  <2>1. RollbackChain(c, r) = Compact(o) /\ RollbackData(d, c, r) = e
    BY <1>6 DEF RollbackChain, RollbackData, Survivor, Reopened
  <2> HIDE DEF o
  <2>2. /\ o \in Chain /\ Len(o.versions) = m /\ o.base = c.base
        /\ \A i \in 1 .. m : o.versions[i].scope = ws[i].scope /\ (i # m => o.versions[i] = ws[i])
    BY <1>6, ReopenedIs DEF o
  <2> HIDE DEF ws
  <2>3. ASSUME NEW i \in 1 .. m PROVE WrittenBy(ws[i].entry, ws[i].scope, G)
    <3>1. f[i] \in 1 .. n /\ f[i] # n /\ ws[i] = vs[f[i]]
      BY <1>2, <1>6 DEF TopIs, Top
    <3> QED
      BY <3>1 DEF Traced
  <2>4. \A i \in 1 .. m : WrittenBy(IF i = m THEN e ELSE o.versions[i].entry, o.versions[i].scope, G)
    BY <2>2, <2>3
  <2>5. o.versions # <<>> /\ o.base \in G
    <3>1. m > 0
      BY <1>1, <1>6 DEF ws
    <3> QED
      BY <3>1, <2>2 DEF Traced
  <2> HIDE DEF e
  <2>6. Traced(e, o, G)
    BY <2>2, <2>4, <2>5 DEF Traced
  <2> QED
    BY <2>1, <2>2, <2>6, TracedCompact
<1> QED
  BY <1>4, <1>5, <1>6

(* A commit makes r's entries confirmed ones.                              *)
LEMMA TracedCommit ==
    ASSUME NEW c, Good(c), NEW d, NEW r \in Run, NEW G, Absent \in G,
           Traced(d, c, G)
    PROVE  Traced(d, CommitChain(c, r), G \cup {r})
<1> DEFINE vs == c.versions
           o == Confirmed(c, r)
           H == G \cup {r}
<1>1. CommitChain(c, r) = Compact(o)
  BY DEF CommitChain, Confirmed
<1>2. /\ o \in Chain /\ o.base = c.base /\ Len(o.versions) = Len(vs)
      /\ \A i \in 1 .. Len(vs) :
            /\ o.versions[i].scope = IF vs[i].scope = r THEN NoRun ELSE vs[i].scope
            /\ o.versions[i].entry = vs[i].entry
  BY ConfirmedIs
<1> HIDE DEF o
<1>3. ASSUME NEW i \in 1 .. Len(vs)
      PROVE  WrittenBy(IF i = Len(vs) THEN d ELSE o.versions[i].entry, o.versions[i].scope, H)
  <2>1. PICK e : e = IF i = Len(vs) THEN d ELSE vs[i].entry
    OBVIOUS
  <2>2. WrittenBy(e, vs[i].scope, G)
    BY <2>1 DEF Traced
  <2>3. WrittenBy(e, IF vs[i].scope = r THEN NoRun ELSE vs[i].scope, H)
    BY <2>2, Names DEF WrittenBy
  <2> QED
    BY <2>1, <2>3, <1>2
<1>4. o.base \in H /\ (o.versions = <<>> => d \in H)
  <2>1. o.versions = <<>> => Len(vs) = 0
    BY <1>2
  <2>2. vs \in Seq(Version)
    BY GoodNoChain
  <2> QED
    BY <2>1, <2>2, <1>2 DEF Traced
<1>5. Traced(d, o, H)
  BY <1>2, <1>3, <1>4 DEF Traced
<1> QED
  BY <1>1, <1>2, <1>5, TracedCompact

(* What may be below the open runs: nothing, a write outside any run, or   *)
(* an entry of a run that was confirmed.                                   *)
Shown == {Absent, NoRun} \cup {r \in Run : outcome[r] = "confirmed"}

(* Every entry the blackboard shows, or keeps to show later, is accounted  *)
(* for.                                                                    *)
Entries == \A k \in Key : Traced(data[k], chain[k], Shown)

(* More writers may be traced.                                             *)
LEMMA TracedMore ==
    ASSUME NEW c, NEW d, NEW G, NEW H, G \subseteq H, Traced(d, c, G)
    PROVE  Traced(d, c, H)
  BY DEF Traced, WrittenBy

(* Every step preserves Entries: an undo takes its run's versions away,    *)
(* and a compaction folds only confirmed ones into the base.               *)
LEMMA EntriesStep ==
    ASSUME Inv, ServeTypeOK, Launches, Counts, Results, Entries, ServeNext
    PROVE  Entries'
<1>1. TypeOK /\ \A k \in Key : Good(chain[k])
  BY GoodChains DEF Inv, AllGood
<1>2. CASE \A t \in Thread : ~Close(t)
  <2>1. Shown' = Shown
    BY <1>2, OthersLeave DEF Shown
  <2>2. ASSUME NEW t \in Thread, NEW k \in Key, Share(t, k) PROVE Entries'
    <3> DEFINE s == ThreadScope(t)
    <3>1. s \in Scope
      BY <2>2, Begun DEF Share, Goes, ThreadScope, Scope
    <3>2. data' = [data EXCEPT ![k] = s] /\ chain' = [chain EXCEPT ![k] = Record(chain[k], s, data[k])]
      BY <2>2 DEF Share, Write, Change
    <3>3. data \in [Key -> Entry] /\ chain \in [Key -> Chain] /\ data[k] \in Entry
      BY <1>1 DEF TypeOK
    <3>4. Traced(s, Record(chain[k], s, data[k]), Shown)
      BY <1>1, <3>1, <3>3, TracedRecord DEF Entries, Shown
    <3> HIDE DEF s
    <3>5. ASSUME NEW j \in Key PROVE Traced(data'[j], chain'[j], Shown)
      <4>1. CASE j = k
        BY <4>1, <3>2, <3>3, <3>4
      <4>2. CASE j # k
        BY <4>2, <3>2, <3>3 DEF Entries
      <4> QED
        BY <4>1, <4>2
    <3> QED
      BY <3>5, <2>1 DEF Entries, Traced
  <2>3. CASE UNCHANGED <<data, chain>>
    BY <2>1, <2>3 DEF Entries, Traced
  <2>4. UNCHANGED <<data, chain>> \/ \E t \in Thread, k \in Key : Share(t, k)
    BY <1>2 DEF ServeNext, Program, Runtime, Enter, OpenRun, EndError, SignalError, SinkCheck,
              Signal, Take, Spawn, AgentStarted, EndCut, EndOk, Panic, Launched, LaunchFails,
              Unwind, ReadCut, DropSignals, Leave, vars
  <2> QED
    BY <2>2, <2>3, <2>4
<1>3. ASSUME NEW t \in Thread, Close(t) PROVE Entries'
  <2>1. PICK r \in Run, undo \in BOOLEAN :
             /\ \A q \in Run \ {r} : outcome'[q] = outcome[q]
             /\ Running(r)
             /\ outcome'[r] = IF undo THEN "undone"
                              ELSE IF Running(r)' THEN outcome[r] ELSE "confirmed"
             /\ \A k \in Key :
                    \/ UNCHANGED <<data[k], chain[k]>>
                    \/ /\ undo
                       /\ data'[k] = RollbackData(data[k], chain[k], r)
                       /\ chain'[k] = RollbackChain(chain[k], r)
                    \/ /\ ~undo /\ ~Running(r)' /\ data'[k] = data[k]
                       /\ chain'[k] = CommitChain(chain[k], r)
    BY <1>3, CloseIs
  <2>2. outcome[r] # "confirmed"
    BY <2>1 DEF Results
  <2>3. Shown \subseteq Shown' /\ (~undo /\ ~Running(r)' => Shown \cup {r} \subseteq Shown')
    BY <2>1, <2>2 DEF Shown
  <2>4. Absent \in Shown /\ NoRun \in Shown
    BY DEF Shown
  <2>5. ASSUME NEW k \in Key PROVE Traced(data'[k], chain'[k], Shown')
    <3>0. Traced(data[k], chain[k], Shown) /\ Good(chain[k])
      BY <1>1 DEF Entries
    <3>1. CASE UNCHANGED <<data[k], chain[k]>>
      BY <3>0, <3>1, <2>3, TracedMore
    <3>2. CASE data'[k] = RollbackData(data[k], chain[k], r) /\ chain'[k] = RollbackChain(chain[k], r)
      <4>1. Traced(data'[k], chain'[k], Shown)
        BY <3>0, <3>2, <2>4, TracedRollback
      <4> QED
        BY <4>1, <2>3, TracedMore
    <3>3. CASE /\ ~undo /\ ~Running(r)' /\ data'[k] = data[k]
               /\ chain'[k] = CommitChain(chain[k], r)
      <4>1. Traced(data'[k], chain'[k], Shown \cup {r})
        BY <3>0, <3>3, <2>4, TracedCommit
      <4> QED
        BY <3>3, <4>1, <2>3, TracedMore
    <3> QED
      BY <3>1, <3>2, <3>3, <2>1
  <2> QED
    BY <2>5 DEF Entries, Traced
<1> QED
  BY <1>2, <1>3

-----------------------------------------------------------------------------
(* The inductive invariant: the blackboard's own, and how its counters,    *)
(* cuts, outcomes, signals and entries follow the threads.                 *)
ServeInv ==
    /\ Inv /\ ServeTypeOK
    /\ Launches /\ Counts
    /\ Causes /\ Results
    /\ DropsAhead /\ Entries

(* ServeInv holds before the first request.                                *)
LEMMA ServeInitInv == ServeInit => ServeInv
<1> SUFFICES ASSUME ServeInit PROVE ServeInv
  OBVIOUS
<1> USE DEF ServeInit
<1>1. Inv
  BY InitInv
<1>2. ServeTypeOK
  BY <1>1, Names DEF Inv, ServeTypeOK
<1>3. Launches
  BY Names DEF Launches
<1>4. Counts
  <2>1. \A r \in Run : Counted(r) = {}
    BY Names DEF Counted
  <2>2. \A r \in Run : agents[r] = 0 /\ owner[r] = FALSE /\ pc[r] = "idle"
    BY Names DEF Init
  <2> QED
    BY <2>1, <2>2, FS_EmptySet DEF Counts, Before
<1>5. Causes
  BY DEF Causes, Init, NewRun
<1>6. Results
  BY <1>2, <1>3, <1>4, IdleRun, Names DEF Results
<1>7. DropsAhead
  BY DEF DropsAhead
<1>8. Entries
  <2>1. NoChain.base = Absent /\ NoChain.versions = <<>> /\ Len(<<>>) = 0
    BY DEF NoChain
  <2>2. \A k \in Key : data[k] = Absent /\ chain[k] = NoChain
    BY DEF Init
  <2>3. Traced(Absent, NoChain, Shown)
    BY <2>1 DEF Traced, Shown
  <2> QED
    BY <2>2, <2>3 DEF Entries
<1> QED
  BY <1>1, <1>2, <1>3, <1>4, <1>5, <1>6, <1>7, <1>8 DEF ServeInv

(* Every step of a thread preserves it.                                    *)
LEMMA ServeNextInv == ServeInv /\ [ServeNext]_serveVars => ServeInv'
<1> SUFFICES ASSUME ServeInv, [ServeNext]_serveVars PROVE ServeInv'
  OBVIOUS
<1>1. CASE ServeNext
  BY <1>1, JournalStep, NextInv, TypeStep, LaunchesStep, CountsStep, ResultsStep, DropsAheadStep,
     EntriesStep DEF ServeInv
<1>2. CASE UNCHANGED serveVars
  <2>1. Inv' /\ TypeOK'
    BY <1>2, JournalStep, NextInv DEF ServeInv, Inv
  <2>2. \A t : RunOf(t)' = RunOf(t)
    BY <1>2 DEF serveVars, RunOf
  <2>3. \A r : (Running(r)' <=> Running(r)) /\ (Pending(r)' <=> Pending(r))
    BY <1>2 DEF serveVars, vars, Running, Pending
  <2>4. \A r : Counted(r)' = Counted(r)
    BY <1>2 DEF serveVars, Counted
  <2>5. ServeTypeOK' /\ Launches' /\ Counts'
    BY <1>2, <2>1, <2>2, <2>4 DEF ServeInv, serveVars, vars, ServeTypeOK, Launches, Counts
  <2>6. Causes' /\ Results' /\ DropsAhead'
    BY <1>2, <2>2, <2>3 DEF ServeInv, serveVars, vars, Causes, Results, DropsAhead, Sent
  <2>7. Entries'
    BY <1>2 DEF ServeInv, serveVars, vars, Entries, Shown, Traced
  <2> QED
    BY <2>1, <2>5, <2>6, <2>7 DEF ServeInv
<1> QED
  BY <1>1, <1>2

(* The threads of serve and the journal they drive keep ServeInv, for any  *)
(* runs, agents and keys.                                                  *)
THEOREM ServeInvariance == ServeSpec => []ServeInv
<1>1. ServeInit => ServeInv
  BY ServeInitInv
<1>2. ServeInv /\ [ServeNext]_serveVars => ServeInv'
  BY ServeNextInv
<1> QED
  BY <1>1, <1>2, PTL DEF ServeSpec

(* Threads, flags, results and the journal under them keep their types.    *)
THEOREM ServeTypeCorrect == ServeSpec => []ServeTypeOK
<1>1. ServeInv => ServeTypeOK
  BY DEF ServeInv
<1> QED
  BY <1>1, ServeInvariance, PTL

(* A run that is over was undone exactly when some part of it was cut or   *)
(* unwound, in whatever order its threads ended.                           *)
THEOREM OutcomesAreRight == ServeSpec => []OutcomeIsRight
<1>1. ServeInv => OutcomeIsRight
  <2> SUFFICES ASSUME ServeInv, NEW r \in Run, Over(r)
               PROVE  outcome[r] = IF hit[r] THEN "undone" ELSE "confirmed"
    BY DEF OutcomeIsRight
  <2>1. pc[r] \notin Before /\ pc[r] # "idle" /\ agents[r] = 0
    BY DEF Over, Before
  <2>2. ~Running(r)
    BY <2>1, Names DEF ServeInv, Counts, Running
  <2> QED
    BY <2>1, <2>2 DEF ServeInv, Results
<1> QED
  BY <1>1, ServeInvariance, PTL

(* A thread that still runs the program of a run keeps it open.            *)
THEOREM RunsStayOpen == ServeSpec => []ThreadsKeepRunOpen
<1>1. ServeInv => ThreadsKeepRunOpen
  BY KeepsOpen DEF ServeInv, StaysOpen, ThreadsKeepRunOpen, Before
<1> QED
  BY <1>1, ServeInvariance, PTL

(* No entry of an undone run is visible, or can become visible, when its   *)
(* last thread has told the journal.                                       *)
THEOREM NoUndoneEntry == ServeSpec => []UndoneLeavesNoEntry
<1>1. ServeInv => UndoneLeavesNoEntry
  <2> SUFFICES ASSUME ServeInv, NEW r \in Run, Over(r), outcome[r] = "undone", NEW k \in Key
               PROVE  /\ data[k] # r /\ chain[k].base # r
                      /\ \A i \in DOMAIN chain[k].versions : chain[k].versions[i].entry # r
    BY DEF UndoneLeavesNoEntry
  <2> DEFINE vs == chain[k].versions
             n == Len(vs)
  <2>1. pc[r] \notin Before /\ agents[r] = 0
    BY DEF Over, Before
  <2>2. ~Running(r)
    BY <2>1, Names DEF ServeInv, Counts, Running
  <2>3. Good(chain[k]) /\ vs \in Seq(Version) /\ n \in Nat /\ DOMAIN vs = 1 .. n
    BY GoodChains, GoodNoChain DEF ServeInv, Inv, AllGood
  <2>4. \A i \in 1 .. n : vs[i].scope \in Run /\ vs[i].scope # r
    <3> TAKE i \in 1 .. n
    <3>1. vs[i].scope \in Run /\ k \in runs[vs[i].scope].keys
      BY <2>3 DEF Good, ServeInv, Inv, KeysCoverVersions
    <3>2. runs[r].keys = {}
      BY <2>2 DEF ServeInv, Inv, RunStateMatchesThreads, NewRun
    <3> QED
      BY <3>1, <3>2
  <2>5. r \notin Shown /\ r # Absent /\ r # NoRun /\ r # Live
    BY Names, BlackboardAssumption, ServeAssumption DEF Shown
  <2>6. Traced(data[k], chain[k], Shown)
    BY DEF ServeInv, Entries
  <2>7. \A i \in 1 .. n : (IF i = n THEN data[k] ELSE vs[i].entry) # r
    BY <2>4, <2>6, Names DEF Traced, WrittenBy
  <2>8. \A i \in 1 .. n : vs[i].entry # r
    BY <2>3, <2>5, <2>7 DEF Good, LiveTop
  <2>9. data[k] # r
    <3>1. CASE vs = <<>>
      BY <3>1, <2>5, <2>6 DEF Traced
    <3>2. CASE vs # <<>>
      <4>1. n \in 1 .. n
        BY <3>2, <2>3
      <4> QED
        BY <4>1, <2>7
    <3> QED
      BY <3>1, <3>2
  <2>10. chain[k].base # r
    BY <2>5, <2>6 DEF Traced
  <2> QED
    BY <2>3, <2>8, <2>9, <2>10
<1> QED
  BY <1>1, ServeInvariance, PTL

(* No signal of an undone run is queued when its threads have left.        *)
THEOREM NoUndoneSignal == ServeSpec => []UndoneLeavesNoSignal
<1>1. ServeInv => UndoneLeavesNoSignal
  BY DEF ServeInv, DropsAhead, Sent, UndoneLeavesNoSignal, Left
<1> QED
  BY <1>1, ServeInvariance, PTL

(* The threads of serve drive the blackboard only as its own specification *)
(* allows, so that what they leave in it is what the abstract journal of   *)
(* runs says.                                                              *)
THEOREM ServeImplementsJournal == ServeSpec => ImplementsJournal
<1>1. ServeInit => Init
  BY DEF ServeInit
<1>2. ServeInv /\ [ServeNext]_serveVars => [Next]_vars
  BY JournalStep DEF ServeInv
<1>3. ServeSpec => Spec
  BY <1>1, <1>2, ServeInvariance, PTL DEF ServeSpec, Spec
<1> QED
  BY <1>3, Refinement
================================================================================
