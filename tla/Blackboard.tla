------------------------------ MODULE Blackboard ------------------------------
(***************************************************************************)
(* The blackboard of synsema-agents/src/blackboard.rs: shared keys with a  *)
(* journal per run.  A run is a serve entry (its owner) and every agent it *)
(* or its agents launch; all of them write under the same scope.  Every    *)
(* public method takes the one mutex for its whole body, so each is one    *)
(* action.                                                                 *)
(*                                                                         *)
(* Left out: author, timestamp, version number and history of an entry     *)
(* (no builtin shows them), the event log, and watchers.                   *)
(***************************************************************************)
EXTENDS Naturals, Sequences, FiniteSets

CONSTANTS Key, Val, Run,
          NoRun,        \* scope None: a thread outside any run; in a chain, confirmed
          Absent,       \* the key does not exist
          Live,         \* a version whose entry is still the one in data
          MaxAgents     \* bound: agents of one run alive at once

ASSUME BlackboardAssumption ==
    /\ NoRun \notin Run
    /\ Absent \notin Val
    /\ Live \notin Val \cup {Absent}
    /\ MaxAgents \in Nat

VARIABLES data,         \* data[k]: the visible entry
          chain,        \* chain[k]: the versions of the open runs (NoChain: none)
          runs,         \* runs[r]: the journal's RunState (default: not in the list)
          owner,        \* owner[r]: has the serve entry of r opened and not yet closed?
          agents        \* agents[r]: agent threads of r really alive

vars == <<data, chain, runs, owner, agents>>

Entry == Val \cup {Absent}
Scope == Run \cup {NoRun}
Version == [scope : Scope, entry : Entry \cup {Live}]
Chain == [base : Entry, versions : Seq(Version)]
RunState == [live : Nat, closed : BOOLEAN, cut : BOOLEAN, keys : SUBSET Key]

(* RunState::default(): what run_state creates on demand.                  *)
NewRun == [live |-> 0, closed |-> FALSE, cut |-> FALSE, keys |-> {}]

(* The map has no chain for the key.  The code drops a chain exactly when  *)
(* compact leaves it without versions.                                     *)
NoChain == [base |-> Absent, versions |-> <<>>]

Top(c) == c.versions[Len(c.versions)]

-----------------------------------------------------------------------------
(* The elements of s at the positions I, in order (Vec::retain).            *)
Positions(I) ==
    CHOOSE f \in [1 .. Cardinality(I) -> I] :
        /\ \A i, j \in 1 .. Cardinality(I) : i < j => f[i] < f[j]
        /\ \A x \in I : \E i \in 1 .. Cardinality(I) : f[i] = x

Retain(s, I) == [i \in 1 .. Cardinality(I) |-> s[Positions(I)[i]]]

Highest(I) == CHOOSE i \in I : \A j \in I : j <= i

(* Chain::compact.  Everything below the highest confirmed version can no  *)
(* longer come back: that version is the new base.  Above it, the highest  *)
(* version of each run is enough.  A confirmed top means nothing is open.  *)
Kept(vs, low) ==
    {i \in low + 1 .. Len(vs) : \A j \in i + 1 .. Len(vs) : vs[j].scope # vs[i].scope}

Compact(c) ==
    LET vs == c.versions
        confirmed == {i \in DOMAIN vs : vs[i].scope = NoRun}
        low == IF confirmed = {} THEN 0 ELSE Highest(confirmed)
    IN  IF low = Len(vs) THEN NoChain
        ELSE [base |-> IF low = 0 THEN c.base ELSE vs[low].entry,
              versions |-> Retain(vs, Kept(vs, low))]

(* Inner::record: key's chain after scope s announces a change of an entry *)
(* that so far was prev.                                                   *)
Opens(c, s) ==
    IF c.versions = <<>> THEN s # NoRun ELSE Top(c).scope # s

Push(c, s, prev) ==
    [base |-> c.base,
     versions |-> Append([c.versions EXCEPT ![Len(c.versions)].entry = prev],
                         [scope |-> s, entry |-> Live])]

(* Mutant: the new version is pushed and the chain never compacted.         *)
RecordUncompacted(c, s, prev) ==
    IF ~Opens(c, s) THEN c
    ELSE IF c.versions = <<>>
    THEN [base |-> prev, versions |-> <<[scope |-> s, entry |-> Live]>>]
    ELSE Push(c, s, prev)

Record(c, s, prev) ==
    IF ~Opens(c, s) THEN c
    ELSE IF c.versions = <<>>
    THEN [base |-> prev, versions |-> <<[scope |-> s, entry |-> Live]>>]
    ELSE Compact(Push(c, s, prev))

(* Inner::rollback of run r, for one key: its versions leave the chain; if *)
(* the top was among them, the highest survivor (or the base) is again the *)
(* visible entry.                                                          *)
Others(c, r) == {i \in DOMAIN c.versions : c.versions[i].scope # r}

TopIs(c, r) == c.versions # <<>> /\ Top(c).scope = r

Survivor(c, r) ==
    LET vs == Retain(c.versions, Others(c, r))
    IN  IF vs = <<>> THEN c.base ELSE vs[Len(vs)].entry

RollbackData(d, c, r) == IF TopIs(c, r) THEN Survivor(c, r) ELSE d

RollbackChain(c, r) ==
    LET vs == Retain(c.versions, Others(c, r))
    IN  IF ~TopIs(c, r) THEN [base |-> c.base, versions |-> vs]
        ELSE IF vs = <<>> THEN NoChain
        ELSE Compact([base |-> c.base,
                      versions |-> [vs EXCEPT ![Len(vs)].entry = Live]])

(* Inner::commit of run r, for one key: its versions become confirmed.     *)
CommitChain(c, r) ==
    Compact([base |-> c.base,
             versions |-> [i \in DOMAIN c.versions |->
                             [c.versions[i] EXCEPT !.scope = IF @ = r THEN NoRun ELSE @]]])

-----------------------------------------------------------------------------
Init ==
    /\ data = [k \in Key |-> Absent]
    /\ chain = [k \in Key |-> NoChain]
    /\ runs = [r \in Run |-> NewRun]
    /\ owner = [r \in Run |-> FALSE]
    /\ agents = [r \in Run |-> 0]

(* Some thread of scope s can still run: outside any run, the owner before *)
(* it closes, or an agent alive.                                           *)
Running(s) == s # NoRun => owner[s] \/ agents[s] > 0

(* with_serve_interp starts an entry under a fresh RunCut.  The address of *)
(* a run that ended may be used again.                                     *)
OpenRun(r) ==
    /\ ~Running(r)
    /\ owner' = [owner EXCEPT ![r] = TRUE]
    /\ UNCHANGED <<data, chain, runs, agents>>

(* write and delete: record the previous entry, then change it.            *)
Change(s, k, e) ==
    /\ Running(s)
    /\ chain' = [chain EXCEPT ![k] = Record(@, s, data[k])]
    /\ runs' = IF s # NoRun /\ Opens(chain[k], s)
               THEN [runs EXCEPT ![s].keys = @ \cup {k}]
               ELSE runs
    /\ data' = [data EXCEPT ![k] = e]
    /\ UNCHANGED <<owner, agents>>

Write(s, k, v) == Change(s, k, v)

Delete(s, k) == Change(s, k, Absent)

(* The tail of close_run and agent_done, under the same lock, where st is  *)
(* the run's state after the event: undo (cut_run), then finish_if_done.   *)
(* Mutant: the run ends with its owner, whatever agents it still has.       *)
FinishedWithOwner(st) == st.closed

Finished(st) == st.live = 0 /\ st.closed

(* Mutant: a run already marked cut is not rolled back again.               *)
EndPartUndoingOnce(r, st, undo) ==
    /\ IF undo
       THEN /\ data' = [k \in Key |-> IF k \in st.keys /\ ~st.cut
                                      THEN RollbackData(data[k], chain[k], r) ELSE data[k]]
            /\ chain' = [k \in Key |-> IF k \in st.keys /\ ~st.cut
                                       THEN RollbackChain(chain[k], r) ELSE chain[k]]
       ELSE /\ chain' = [k \in Key |-> IF Finished(st) /\ k \in st.keys
                                       THEN CommitChain(chain[k], r) ELSE chain[k]]
            /\ UNCHANGED data
    /\ runs' = [runs EXCEPT ![r] = IF Finished(st) THEN NewRun
                                   ELSE IF undo THEN [st EXCEPT !.cut = TRUE, !.keys = {}]
                                   ELSE st]

EndPart(r, st, undo) ==
    /\ IF undo
       THEN /\ data' = [k \in Key |-> IF k \in st.keys
                                      THEN RollbackData(data[k], chain[k], r) ELSE data[k]]
            /\ chain' = [k \in Key |-> IF k \in st.keys
                                       THEN RollbackChain(chain[k], r) ELSE chain[k]]
       ELSE /\ chain' = [k \in Key |-> IF Finished(st) /\ k \in st.keys
                                       THEN CommitChain(chain[k], r) ELSE chain[k]]
            /\ UNCHANGED data
    /\ runs' = [runs EXCEPT ![r] = IF Finished(st) THEN NewRun
                                   ELSE IF undo THEN [st EXCEPT !.cut = TRUE, !.keys = {}]
                                   ELSE st]

(* The owner ends, with or without a cut of its own.                       *)
(* Mutant: the owner undoes only its own cut, not one an agent left.        *)
CloseRunOwnCut(r, cut) ==
    /\ owner[r]
    /\ owner' = [owner EXCEPT ![r] = FALSE]
    /\ EndPart(r, [runs[r] EXCEPT !.closed = TRUE], cut)
    /\ UNCHANGED agents

CloseRun(r, cut) ==
    /\ owner[r]
    /\ owner' = [owner EXCEPT ![r] = FALSE]
    /\ EndPart(r, [runs[r] EXCEPT !.closed = TRUE], cut \/ runs[r].cut)
    /\ UNCHANGED agents

(* Called by the launching thread, before the agent's thread exists.       *)
AgentStarted(r) ==
    /\ Running(r)
    /\ agents[r] < MaxAgents
    /\ agents' = [agents EXCEPT ![r] = @ + 1]
    /\ runs' = [runs EXCEPT ![r].live = @ + 1]
    /\ UNCHANGED <<data, chain, owner>>

AgentDone(r, cut) ==
    /\ agents[r] > 0
    /\ agents' = [agents EXCEPT ![r] = @ - 1]
    /\ EndPart(r, [runs[r] EXCEPT !.live = IF @ = 0 THEN 0 ELSE @ - 1], cut \/ runs[r].cut)
    /\ UNCHANGED owner

Next ==
    \/ \E s \in Scope, k \in Key, v \in Val : Write(s, k, v)
    \/ \E s \in Scope, k \in Key : Delete(s, k)
    \/ \E r \in Run : OpenRun(r) \/ AgentStarted(r)
    \/ \E r \in Run, cut \in BOOLEAN : CloseRun(r, cut) \/ AgentDone(r, cut)

Spec == Init /\ [][Next]_vars

-----------------------------------------------------------------------------
(* The entries and states of Inner have their declared types.              *)
TypeOK ==
    /\ data \in [Key -> Entry]
    /\ chain \in [Key -> Chain]
    /\ runs \in [Run -> RunState]
    /\ owner \in [Run -> BOOLEAN]
    /\ agents \in [Run -> Nat]

(* Every chain is compact, as the comment on Chain bounds it: no confirmed *)
(* version, one version per run, the top one live in data and every other  *)
(* one holding a copy of what it wrote.                                    *)
ChainCompact ==
    \A k \in Key :
        LET vs == chain[k].versions IN
        /\ \A i \in DOMAIN vs : /\ vs[i].scope # NoRun
                                /\ vs[i].entry = Live <=> i = Len(vs)
        /\ \A i, j \in DOMAIN vs : vs[i].scope = vs[j].scope => i = j

(* Undo and commit walk only RunState.keys: a version of a run in a chain  *)
(* they would miss could never be undone.                                  *)
KeysCoverVersions ==
    \A k \in Key : \A i \in DOMAIN chain[k].versions :
        k \in runs[chain[k].versions[i].scope].keys

(* Only a run with something alive (its owner, or an agent long after the  *)
(* owner closed) holds versions: chains do not outlive the runs they are   *)
(* for, so their length is bounded by the runs alive.                      *)
OnlyRunningRunsHoldVersions ==
    \A k \in Key : \A i \in DOMAIN chain[k].versions :
        Running(chain[k].versions[i].scope)

(* The journal's own idea of a run agrees with the threads: it counts the  *)
(* agents alive, knows a closed owner while agents remain, and forgets the *)
(* run when nothing is left of it.                                         *)
RunStateMatchesThreads ==
    \A r \in Run :
        /\ runs[r].live = agents[r]
        /\ runs[r].closed = (~owner[r] /\ agents[r] > 0)
        /\ ~Running(r) => runs[r] = NewRun

-----------------------------------------------------------------------------
(* The chain read as the abstract journal: the entry of k had the runs of  *)
(* S never written it.                                                     *)
WorldOf(d, c, S) ==
    IF c.versions = <<>> THEN d
    ELSE LET left == {i \in DOMAIN c.versions : c.versions[i].scope \notin S}
         IN  IF left = {} THEN c.base
             ELSE IF Highest(left) = Len(c.versions) THEN d
             ELSE c.versions[Highest(left)].entry

StatusOf(r) == IF ~Running(r) THEN "idle" ELSE IF runs[r].cut THEN "undone" ELSE "open"

Journal == INSTANCE RunJournal WITH
    world <- [k \in Key |-> [S \in SUBSET Run |-> WorldOf(data[k], chain[k], S)]],
    status <- [r \in Run |-> StatusOf(r)]

(* The chains implement the journal: whatever the interleaving of runs, an *)
(* undone run is as if it had never written, a run commits whole and once, *)
(* and compacting never loses a version that could come back.              *)
ImplementsJournal == Journal!Spec
================================================================================
