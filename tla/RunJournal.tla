------------------------------ MODULE RunJournal ------------------------------
(***************************************************************************)
(* What the run journal of the blackboard promises, without chains,        *)
(* versions or live counters (the comment on Chain and RunState in         *)
(* synsema-agents/src/blackboard.rs).                                      *)
(*                                                                         *)
(* A run is the unit of undo.  While runs are open, the blackboard stands  *)
(* for one world per set S of runs that may still be undone:               *)
(* world[k][S] is what key k holds if exactly the runs of S had never      *)
(* written it.  The world a reader sees is the one where nothing has been  *)
(* undone, S = {}.  Writing, undoing and confirming a run are then three   *)
(* one-line equations, and "as if the cut run had never written, however   *)
(* it interleaved with others" is what they say.                           *)
(***************************************************************************)

CONSTANTS Key, Val, Run,
          NoRun,      \* the scope of a thread that writes for no run
          Absent      \* the key does not exist

VARIABLES world,      \* world[k][S]: the value of k without the runs of S
          status      \* status[r]: "idle", "open", or "undone" (cut, but part of it is alive)

vars == <<world, status>>

Entry == Val \cup {Absent}
Scope == Run \cup {NoRun}

TypeOK ==
    /\ world \in [Key -> [SUBSET Run -> Entry]]
    /\ status \in [Run -> {"idle", "open", "undone"}]

Init ==
    /\ world = [k \in Key |-> [S \in SUBSET Run |-> Absent]]
    /\ status = [r \in Run |-> "idle"]

Visible(k) == world[k][{}]

Open(r) ==
    /\ status[r] = "idle"
    /\ status' = [status EXCEPT ![r] = "open"]
    /\ UNCHANGED world

(* A write (v = Absent: a delete) shows in every world in which its run    *)
(* is not undone.                                                          *)
Write(s, k, v) ==
    /\ s # NoRun => status[s] # "idle"
    /\ world' = [world EXCEPT ![k] =
                    [S \in SUBSET Run |-> IF s \in S THEN world[k][S] ELSE v]]
    /\ UNCHANGED status

(* Every world becomes the one in which r never wrote.                     *)
Undo(r) ==
    /\ status[r] # "idle"
    /\ world' = [k \in Key |-> [S \in SUBSET Run |-> world[k][S \cup {r}]]]
    /\ \E left \in {"undone", "idle"} : status' = [status EXCEPT ![r] = left]

(* r can no longer be undone.  Only a run that was never undone commits,   *)
(* and it does so once, as a whole, at its end.                            *)
Commit(r) ==
    /\ status[r] = "open"
    /\ world' = [k \in Key |-> [S \in SUBSET Run |-> world[k][S \ {r}]]]
    /\ status' = [status EXCEPT ![r] = "idle"]

Next ==
    \/ \E s \in Scope, k \in Key, v \in Entry : Write(s, k, v)
    \/ \E r \in Run : Open(r) \/ Undo(r) \/ Commit(r)

Spec == Init /\ [][Next]_vars
================================================================================
