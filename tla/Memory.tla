------------------------------- MODULE Memory -------------------------------
(***************************************************************************)
(* The entries of a declared memory (require memory("name")) and the base  *)
(* on disk that several processes share: AgentMemory of synsema-agents     *)
(* (remember, forget, the ids), StatePersistence of synsema-runtime (which *)
(* rows a save writes, what a load and a reload read) and the wiring of    *)
(* engine.rs and run_program.rs (a save after every write, a reload when a *)
(* child returns).                                                         *)
(*                                                                         *)
(* A root is a process a person starts; several roots may declare the same *)
(* name.  A child is the process of one run_program whose ceiling leaves   *)
(* it the memory of its parent: it opens the same base.  Each process      *)
(* keeps every entry in `mem', with the version of each row it last read   *)
(* or saved in `seen', and writes the rows in which the two differ.  The   *)
(* store's mutex is held from a write to the end of its save, and for a    *)
(* whole reload, so a process does one of them at a time; every row is     *)
(* written by a statement of its own, and other processes' statements come *)
(* in between.                                                             *)
(*                                                                         *)
(* An entry's text, tags and category are its creation number `made': the  *)
(* builtins never change them, only `active' (forget_memory).              *)
(***************************************************************************)
EXTENDS Naturals

CONSTANTS
  Roots,      \* the processes started by hand, all with the same memory
  Children,   \* the runs of run_program, each a process of its own
  Parent,     \* [Children -> Roots]: who calls run_program
  Orphans,    \* whether a child outlives a parent that dies (Unix; on
              \* Windows the job object takes the child with it)
  MaxMade,    \* bound: remember calls that succeed
  MaxStarts   \* bound: starts of each root

Unmarked == "unmarked"

ASSUME MemoryAssumption ==
  /\ Roots \cap Children = {} /\ Unmarked \notin Children
  /\ Parent \in [Children -> Roots]
  /\ Orphans \in BOOLEAN
  /\ MaxMade \in Nat /\ MaxStarts \in Nat

Procs == Roots \cup Children

(* Mutant: a child does not mark its ids (set_id_tag is not called).       *)
TagOfNone(p) == Unmarked

(* The mark of the ids a process makes: mem_<n> in a root,                 *)
(* mem_<n>_p<process> in a child.                                          *)
Tag(p) == IF p \in Children THEN p ELSE Unmarked

Ids  == [n : 1..MaxMade, tag : Children \cup {Unmarked}]
Rows == [made : 0..MaxMade, active : BOOLEAN]
None == [made |-> 0, active |-> FALSE]      \* no row, no entry

Forgotten(row) == [row EXCEPT !.active = FALSE]

VARIABLES
  base,     \* the rows on disk
  up,       \* what each process is doing
  mem,      \* [Procs -> [Ids -> Rows]]: the entries a process holds
  seen,     \* the version of each row it last read or saved
  counter,  \* the number of the last id it made or read
  todo,     \* the rows its current save has yet to write
  child,    \* where each run of run_program is
  made,     \* entries created so far
  starts    \* starts of each root

vars == <<base, up, mem, seen, counter, todo, child, made, starts>>

Phases   == {"down", "idle", "saving", "syncing", "reading"}
Statuses == {"new", "running", "over", "back", "orphan", "gone"}

Nothing == [id \in Ids |-> None]

Init ==
  /\ base    = Nothing
  /\ up      = [p \in Procs |-> "down"]
  /\ mem     = [p \in Procs |-> Nothing]
  /\ seen    = [p \in Procs |-> Nothing]
  /\ counter = [p \in Procs |-> 0]
  /\ todo    = [p \in Procs |-> {}]
  /\ child   = [c \in Children |-> "new"]
  /\ made    = 0
  /\ starts  = [r \in Roots |-> 0]

-----------------------------------------------------------------------------
(* Mutant: every entry is written, from the snapshot the process has.      *)
PendingAll(p, m) == {id \in Ids : m[id] # None}

(* A save writes what differs from what this process last read or saved.   *)
Pending(p, m) == {id \in Ids : m[id] # None /\ m[id] # seen[p][id]}

(* The least number no smaller than any in S, and than n.                  *)
Raised(n, S) == CHOOSE k \in {n} \cup S : \A j \in {n} \cup S : j <= k

Numbers(rows) == {id.n : id \in {i \in Ids : rows[i] # None}}

(* load_into: a process that starts reads the active rows, and counts its  *)
(* ids from the highest of them.                                           *)
ActiveRows == [id \in Ids |-> IF base[id].active THEN base[id] ELSE None]

Load(p) ==
  /\ up'      = [up EXCEPT ![p] = "idle"]
  /\ mem'     = [mem EXCEPT ![p] = ActiveRows]
  /\ seen'    = [seen EXCEPT ![p] = ActiveRows]
  /\ counter' = [counter EXCEPT ![p] = Raised(0, Numbers(ActiveRows))]

Start(r) ==
  /\ up[r] = "down" /\ starts[r] < MaxStarts
  /\ starts' = [starts EXCEPT ![r] = @ + 1]
  /\ Load(r)
  /\ UNCHANGED <<base, todo, child, made>>

(* run_program: the call needs no lock of the memory.                      *)
RunChild(c) ==
  /\ child[c] = "new" /\ up[Parent[c]] # "down"
  /\ child' = [child EXCEPT ![c] = "running"]
  /\ Load(c)
  /\ UNCHANGED <<base, todo, made, starts>>

-----------------------------------------------------------------------------
(* Where a process is once nothing is left to write: a reload goes on to   *)
(* read, a write is over.                                                  *)
After(phase, left) ==
  IF left # {} THEN phase
  ELSE IF phase = "syncing" THEN "reading" ELSE "idle"

(* on_write, or the first half of a reload: save what is pending in m.     *)
BeginSave(p, m, phase) ==
  /\ todo' = [todo EXCEPT ![p] = Pending(p, m)]
  /\ up'   = [up EXCEPT ![p] = After(phase, Pending(p, m))]

Write(p, id, row) ==
  /\ up[p] = "idle"
  /\ mem' = [mem EXCEPT ![p][id] = row]
  /\ BeginSave(p, [mem[p] EXCEPT ![id] = row], "saving")

Remember(p) ==
  /\ made < MaxMade
  /\ made'    = made + 1
  /\ counter' = [counter EXCEPT ![p] = @ + 1]
  /\ Write(p, [n |-> counter[p] + 1, tag |-> Tag(p)],
              [made |-> made + 1, active |-> TRUE])
  /\ UNCHANGED <<base, seen, child, starts>>

(* Forgetting again what is forgotten only retries what a save missed.     *)
Forget(p, id) ==
  /\ mem[p][id] # None
  /\ Write(p, id, Forgotten(mem[p][id]))
  /\ UNCHANGED <<base, seen, counter, child, made, starts>>

(* One row of a save: written, or refused (the base is locked for longer   *)
(* than the wait, the disk is full): then it stays for the next save.      *)
SaveRow(p, id) ==
  /\ id \in todo[p]
  /\ base' = [base EXCEPT ![id] = mem[p][id]]
  /\ seen' = [seen EXCEPT ![p][id] = mem[p][id]]
  /\ todo' = [todo EXCEPT ![p] = @ \ {id}]
  /\ up'   = [up EXCEPT ![p] = After(@, todo[p] \ {id})]
  /\ UNCHANGED <<mem, counter, child, made, starts>>

SaveFails(p, id) ==
  /\ id \in todo[p]
  /\ todo' = [todo EXCEPT ![p] = @ \ {id}]
  /\ up'   = [up EXCEPT ![p] = After(@, todo[p] \ {id})]
  /\ UNCHANGED <<base, mem, seen, counter, child, made, starts>>

-----------------------------------------------------------------------------
(* A child is done, was killed at its time limit or with a cancelled call, *)
(* or crashed: what it had not saved is lost.                              *)
Cleared(S) ==
  /\ up'      = [p \in Procs |-> IF p \in S THEN "down" ELSE up[p]]
  /\ mem'     = [p \in Procs |-> IF p \in S THEN Nothing ELSE mem[p]]
  /\ seen'    = [p \in Procs |-> IF p \in S THEN Nothing ELSE seen[p]]
  /\ counter' = [p \in Procs |-> IF p \in S THEN 0 ELSE counter[p]]
  /\ todo'    = [p \in Procs |-> IF p \in S THEN {} ELSE todo[p]]

End(c) ==
  /\ child[c] \in {"running", "orphan"}
  /\ child' = [child EXCEPT ![c] = IF @ = "running" THEN "over" ELSE "gone"]
  /\ Cleared({c})
  /\ UNCHANGED <<base, made, starts>>

(* Mutant: the parent does not reload when a child returns.                *)
ReturnOnly(c) ==
  /\ child[c] = "over" /\ up[Parent[c]] = "idle"
  /\ child' = [child EXCEPT ![c] = "back"]
  /\ UNCHANGED <<base, up, mem, seen, counter, todo, made, starts>>

(* ReloadOnDrop: the call is over, however it ended, and the parent        *)
(* reloads.                                                                *)
Return(c) ==
  /\ child[c] = "over" /\ up[Parent[c]] = "idle"
  /\ child' = [child EXCEPT ![c] = "back"]
  /\ BeginSave(Parent[c], mem[Parent[c]], "syncing")
  /\ UNCHANGED <<base, mem, seen, counter, made, starts>>

(* Mutant: a reload puts the base over the process's unsaved changes.      *)
SparedForeign(p) ==
  {id \in Ids : \/ base[id] = None
                \/ ~base[id].active /\ mem[p][id] = None}

(* Mutant: a reload reads the active rows only, as the first load does.    *)
SparedForgotten(p) ==
  {id \in Ids : ~base[id].active \/ id \in Pending(p, mem[p])}

(* The rows a reload leaves as they are: none on disk, forgotten ones the  *)
(* process never had, and changes of its own that no save could write.     *)
Spared(p) ==
  {id \in Ids : \/ base[id] = None
                \/ ~base[id].active /\ mem[p][id] = None
                \/ id \in Pending(p, mem[p])}

Read(p) ==
  /\ up[p] = "reading"
  /\ up'   = [up EXCEPT ![p] = "idle"]
  /\ mem'  = [mem EXCEPT ![p] =
                [id \in Ids |-> IF id \in Spared(p) THEN @[id] ELSE base[id]]]
  /\ seen' = [seen EXCEPT ![p] =
                [id \in Ids |-> IF id \in Spared(p) THEN @[id] ELSE base[id]]]
  /\ counter' = [counter EXCEPT ![p] = Raised(@, Numbers(base))]
  /\ UNCHANGED <<base, todo, child, made, starts>>

(* A root ends, or is killed; what a running child does then depends on    *)
(* the system.                                                             *)
Crash(r) ==
  LET Mine == {c \in Children : Parent[c] = r /\ child[c] = "running"}
      Lost == IF Orphans THEN {} ELSE Mine
  IN  /\ up[r] # "down"
      /\ Cleared({r} \cup Lost)
      /\ child' = [c \in Children |->
           IF Parent[c] # r \/ child[c] \notin {"running", "over"} THEN child[c]
           ELSE IF Orphans /\ child[c] = "running" THEN "orphan" ELSE "gone"]
      /\ UNCHANGED <<base, made, starts>>

-----------------------------------------------------------------------------
Next ==
  \/ \E r \in Roots : Start(r) \/ Crash(r)
  \/ \E c \in Children : RunChild(c) \/ End(c) \/ Return(c)
  \/ \E p \in Procs :
       \/ Remember(p) \/ Read(p)
       \/ \E id \in Ids : Forget(p, id) \/ SaveRow(p, id) \/ SaveFails(p, id)

Spec == Init /\ [][Next]_vars

(* A process goes on with its save and its reload; a child ends, at the    *)
(* latest at the limit of its call; the thread of the call that waits for  *)
(* the store's mutex gets it, if it is free again and again.               *)
Fairness ==
  /\ \A p \in Procs :
       /\ WF_vars(\E id \in Ids : SaveRow(p, id) \/ SaveFails(p, id))
       /\ WF_vars(Read(p))
  /\ \A c \in Children : WF_vars(End(c)) /\ SF_vars(Return(c))

FairSpec == Spec /\ Fairness

-----------------------------------------------------------------------------
(* The state has the types the code gives it.                              *)
TypeOK ==
  /\ base \in [Ids -> Rows]
  /\ up \in [Procs -> Phases]
  /\ mem \in [Procs -> [Ids -> Rows]]
  /\ seen \in [Procs -> [Ids -> Rows]]
  /\ counter \in [Procs -> 0..MaxMade]
  /\ todo \in [Procs -> SUBSET Ids]
  /\ child \in [Children -> Statuses]
  /\ made \in 0..MaxMade
  /\ starts \in [Roots -> 0..MaxStarts]

(* An entry on disk is never lost to another: as long as it is active, the *)
(* only thing that can happen to its row is to be forgotten.  Two entries  *)
(* never get one id while the first is in use, whichever processes make    *)
(* them (the mark on a child's ids, the counter raised by a reload).       *)
EntriesSurvive ==
  [][\A id \in Ids :
       base[id].active => base'[id] \in {base[id], Forgotten(base[id])}]_vars

(* What one process forgot stays forgotten: no save of another process,    *)
(* with an older copy of the entry, brings it back (only the changed rows  *)
(* are written).                                                           *)
NoComeback ==
  [][\A id \in Ids :
       base[id] # None /\ ~base[id].active =>
         base'[id] = base[id] \/ base'[id].made > base[id].made]_vars

(* What a program wrote is there when it reads it back, in the process     *)
(* that wrote it: an entry leaves the memory of a running process only by  *)
(* being forgotten, also when its save failed and a reload came after it.  *)
MemoryOnlyForgets ==
  [][\A p \in Procs, id \in Ids :
       mem[p][id] # None /\ up[p] # "down" /\ up'[p] # "down" =>
         mem'[p][id] \in {mem[p][id], Forgotten(mem[p][id])}]_vars

(* With no child left and nothing of its own to save, a root that is alone *)
(* with its base holds what the base holds: the active entries, and none   *)
(* active that the base has as forgotten.                                  *)
QuietAgrees ==
  \A r \in Roots :
    /\ up[r] = "idle" /\ Pending(r, mem[r]) = {}
    /\ \A c \in Children : child[c] \in {"new", "back"}
    /\ \A q \in Roots \ {r} : starts[q] = 0
    => \A id \in Ids : /\ base[id].active => mem[r][id] = base[id]
                       /\ mem[r][id] # None => mem[r][id] = base[id]

(* What a child left in the base reaches the program that called it: the   *)
(* parent comes to hold the entry, unless it is forgotten first or the     *)
(* parent stops.                                                           *)
ChildWorkArrives ==
  \A c \in Children : \A id \in [n : 1..MaxMade, tag : {c}] :
    (base[id].active /\ child[c] \in {"running", "over"})
      ~> \/ mem[Parent[c]][id] # None
         \/ ~base[id].active
         \/ up[Parent[c]] = "down"
=============================================================================
