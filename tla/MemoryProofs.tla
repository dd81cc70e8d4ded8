----------------------------- MODULE MemoryProofs -----------------------------
(***************************************************************************)
(* Proofs about Memory, for any number of children, entries and starts,    *)
(* when one root has the memory and its children end with it (Alone): with *)
(* two roots entries get lost, and with children that outlive their root   *)
(* too.                                                                    *)
(*                                                                         *)
(* RowInv is the heart: a copy of an entry is either Fresh, made here and  *)
(* not yet on disk, or Known, the entry the base has under that id; and    *)
(* whatever a process would write over a Known row only forgets it.  That  *)
(* an id is never made twice is OwnerInv, which rests on the reload.       *)
(***************************************************************************)
EXTENDS Memory, WellFoundedInduction, TLAPS

Alone == Orphans = FALSE /\ \A q, r \in Roots : q = r

Up(p) == up[p] # "down"

(* Every number in use has been given out.                                 *)
BoundInv ==
  /\ \A p \in Procs : counter[p] <= made
  /\ \A id \in Ids :
       /\ base[id].made <= made
       /\ base[id].made = 0 => base[id] = None
       /\ base[id] # None => id.n <= made
  /\ \A p \in Procs, id \in Ids :
       mem[p][id] # None => mem[p][id].made \in 1..made /\ id.n <= made

(* What a process holds and saves, by its phase.                           *)
ShapeInv ==
  \A p \in Procs :
    /\ ~Up(p) => mem[p] = Nothing /\ seen[p] = Nothing
    /\ up[p] \notin {"saving", "syncing"} => todo[p] = {}
    /\ \A id \in todo[p] : mem[p][id] # None /\ mem[p][id] # seen[p][id]
    /\ \A id \in Ids : mem[p][id] = None => seen[p][id] = None

(* A child runs inside its call, and leaves no trace before it.            *)
ChildInv ==
  \A c \in Children :
    /\ child[c] # "orphan"
    /\ Up(c) <=> child[c] = "running"
    /\ Up(c) => Up(Parent[c])
    /\ child[c] = "new" =>
         \A id \in Ids : id.tag = c =>
           base[id] = None /\ \A p \in Procs : mem[p][id] = None

Fresh(p, id) ==
  /\ seen[p][id] = None /\ id.tag = Tag(p)
  /\ ~base[id].active /\ base[id].made < mem[p][id].made

Known(p, id) ==
  /\ base[id].made = mem[p][id].made
  /\ mem[p][id].active => mem[p][id] = seen[p][id]
  /\ base[id].active /\ ~mem[p][id].active => mem[p][id] # seen[p][id]

RowInv ==
  \A p \in Procs, id \in Ids : mem[p][id] # None => Fresh(p, id) \/ Known(p, id)

(* Two processes with an entry under one id have the same entry.           *)
SameInv ==
  \A p, q \in Procs, id \in Ids :
    mem[p][id] # None /\ mem[q][id] # None => mem[p][id].made = mem[q][id].made

(* The process that makes the ids of a tag counts past those in use.       *)
OwnerInv ==
  \A o, p \in Procs, id \in Ids :
    Up(o) /\ id.tag = Tag(o) /\ (base[id].active \/ mem[p][id] # None) =>
      id.n <= counter[o]

(* When no child is left and the root has reloaded after the last, the     *)
(* rows with nothing to save are the base's.                               *)
Quiet(r) ==
  up[r] \in {"idle", "saving"} /\ \A c \in Children : child[c] \in {"new", "back"}

AgreeInv ==
  \A r \in Roots, id \in Ids :
    Quiet(r) /\ (mem[r][id] = None \/ mem[r][id] = seen[r][id]) =>
      /\ base[id].active => mem[r][id] = base[id]
      /\ mem[r][id] # None => mem[r][id] = base[id]

IInv ==
  /\ TypeOK /\ BoundInv /\ ShapeInv /\ ChildInv
  /\ RowInv /\ SameInv /\ OwnerInv /\ AgreeInv

-----------------------------------------------------------------------------
LEMMA HasLeast ==
  ASSUME NEW T \in SUBSET Nat, T # {}
  PROVE  \E x \in T : \A y \in T : x <= y
  <1> DEFINE R == OpToRel(<, Nat)
  <1>1. IsWellFoundedOn(R, Nat)
    BY NatLessThanWellFounded
  <1>2. R = {ss \in Nat \X Nat : ss[1] < ss[2]}
    BY Zenon DEF OpToRel
  <1> HIDE DEF R
  <1>3. PICK x \in T : \A y \in T : <<y, x>> \notin R
    BY <1>1, WFMin, Zenon
  <1>4. \A y \in T : <<y, x>>[1] = y /\ <<y, x>>[2] = x /\ <<y, x>> \in Nat \X Nat
    OBVIOUS
  <1>5. \A y \in T : ~(y < x)
    BY <1>2, <1>3, <1>4, Zenon
  <1> QED BY <1>5

LEMMA HasGreatest ==
  ASSUME NEW m \in Nat, NEW T \in SUBSET (0..m), T # {}
  PROVE  \E x \in T : \A y \in T : y <= x
  <1> DEFINE U == {m - y : y \in T}
  <1>1. \A y \in T : y \in 0..m /\ m - y \in Nat
    OBVIOUS
  <1>2. U \in SUBSET Nat /\ U # {}
    BY <1>1
  <1>3. PICK x \in U : \A y \in U : x <= y
    BY <1>2, HasLeast
  <1>4. PICK z \in T : x = m - z
    BY <1>3
  <1>5. \A y \in T : m - y \in U
    OBVIOUS
  <1>6. \A y \in T : m - z <= m - y
    BY <1>3, <1>4, <1>5
  <1> HIDE DEF U
  <1> QED BY <1>1, <1>6

(* What the counter is raised to.                                          *)
LEMMA RaisedIsGreatest ==
  ASSUME NEW m \in Nat, NEW n \in 0..m, NEW S \in SUBSET (0..m)
  PROVE  /\ Raised(n, S) \in 0..m
         /\ \A j \in {n} \cup S : j <= Raised(n, S)
  <1>1. \E k \in {n} \cup S : \A j \in {n} \cup S : j <= k
    BY HasGreatest
  <1>2. /\ Raised(n, S) \in {n} \cup S
        /\ \A j \in {n} \cup S : j <= Raised(n, S)
    BY <1>1 DEF Raised
  <1> QED BY <1>2

LEMMA RowFacts ==
  /\ None \in Rows /\ ~None.active /\ None.made = 0
  /\ \A row \in Rows :
       /\ row = [made |-> row.made, active |-> row.active]
       /\ row.made \in 0..MaxMade /\ row.active \in BOOLEAN
       /\ Forgotten(row) \in Rows
       /\ Forgotten(row).made = row.made /\ ~Forgotten(row).active
       /\ ~row.active => Forgotten(row) = row
       /\ \A other \in Rows :
            row.made = other.made /\ row.active = other.active => row = other
  /\ \A id \in Ids : id.n \in 1..MaxMade /\ id.tag \in Children \cup {Unmarked}
  <1>1. None \in Rows /\ ~None.active /\ None.made = 0
    BY MemoryAssumption DEF None, Rows
  <1>2. \A id \in Ids : id.n \in 1..MaxMade /\ id.tag \in Children \cup {Unmarked}
    BY DEF Ids
  <1>3. ASSUME NEW row \in Rows
        PROVE  /\ row = [made |-> row.made, active |-> row.active]
               /\ row.made \in 0..MaxMade /\ row.active \in BOOLEAN
    BY <1>3 DEF Rows
  <1>4. ASSUME NEW row \in Rows
        PROVE  Forgotten(row) = [made |-> row.made, active |-> FALSE]
    BY <1>3, <1>4 DEF Rows, Forgotten
  <1>5. ASSUME NEW row \in Rows
        PROVE  Forgotten(row) \in Rows
    <2>1. \A m \in 0..MaxMade : [made |-> m, active |-> FALSE] \in Rows
      BY DEF Rows
    <2> QED BY <1>3, <1>4, <2>1
  <1>6. ASSUME NEW row \in Rows, ~row.active
        PROVE  Forgotten(row) = row
    <2>1. row.active = FALSE
      BY <1>3, <1>6
    <2> QED BY <1>3, <1>4, <2>1
  <1>7. ASSUME NEW row \in Rows, NEW other \in Rows,
               row.made = other.made, row.active = other.active
        PROVE  row = other
    BY <1>3, <1>7
  <1> QED BY <1>1, <1>2, <1>3, <1>4, <1>5, <1>6, <1>7

(* Each process marks its ids with a tag of its own.                       *)
LEMMA TagFacts ==
  ASSUME Alone
  PROVE  /\ \A p, q \in Procs : Tag(p) = Tag(q) => p = q
         /\ \A p \in Procs : Tag(p) \in Children \cup {Unmarked}
         /\ \A c \in Children, p \in Procs : Tag(p) = c => p = c
  BY MemoryAssumption DEF Alone, Tag, Procs

LEMMA InitInv == Init => IInv
  <1> SUFFICES ASSUME Init PROVE IInv
    OBVIOUS
  <1> USE MemoryAssumption, RowFacts DEF Init, Nothing
  <1>1. TypeOK BY DEF TypeOK, Procs, Phases, Statuses
  <1>2. BoundInv BY DEF BoundInv
  <1>3. ShapeInv BY DEF ShapeInv, Up
  <1>4. ChildInv BY DEF ChildInv, Up, Procs
  <1>5. RowInv /\ SameInv /\ OwnerInv /\ AgreeInv
    BY DEF RowInv, SameInv, OwnerInv, AgreeInv, Up, Procs
  <1> QED BY <1>1, <1>2, <1>3, <1>4, <1>5 DEF IInv

-----------------------------------------------------------------------------
(* What a process writes over a row: an entry of its own that the base     *)
(* does not have, or the row as forgotten.                                 *)
LEMMA WhatIsSaved ==
  ASSUME IInv, NEW p \in Procs, NEW id \in todo[p]
  PROVE  /\ id \in Ids /\ mem[p][id] # None
         /\ \/ Fresh(p, id)
            \/ Known(p, id) /\ mem[p][id] = Forgotten(base[id])
  <1>1. id \in Ids /\ mem[p][id] # None /\ mem[p][id] # seen[p][id]
    BY DEF IInv, TypeOK, ShapeInv
  <1>2. Fresh(p, id) \/ Known(p, id)
    BY <1>1 DEF IInv, RowInv
  <1>3. mem[p][id] \in Rows /\ base[id] \in Rows
    BY <1>1 DEF IInv, TypeOK
  <1>4. ASSUME Known(p, id)
        PROVE  mem[p][id] = Forgotten(base[id])
    <2>1. ~mem[p][id].active /\ mem[p][id].made = base[id].made
      BY <1>1, <1>4 DEF Known
    <2> QED BY <1>3, <2>1, RowFacts
  <1> QED BY <1>1, <1>2, <1>4

(* The row saved is Fresh for one process at most.                         *)
LEMMA FreshIsUnique ==
  ASSUME Alone, IInv, NEW p \in Procs, NEW q \in Procs, NEW id \in Ids,
         mem[p][id] # None, mem[q][id] # None, Fresh(p, id)
  PROVE  q = p
  <1>1. mem[p][id].made = mem[q][id].made
    BY DEF IInv, SameInv
  <1>2. Fresh(q, id) \/ Known(q, id)
    BY DEF IInv, RowInv
  <1>3. /\ mem[p][id].made \in Nat /\ base[id].made \in Nat
    BY RowFacts DEF IInv, TypeOK
  <1>4. ~Known(q, id)
    BY <1>1, <1>3 DEF Fresh, Known
  <1> QED BY <1>2, <1>4, TagFacts DEF Fresh

LEMMA SaveRowKeeps ==
  ASSUME Alone, IInv, NEW p \in Procs, NEW id \in Ids, SaveRow(p, id)
  PROVE  IInv'
  <1> DEFINE row == mem[p][id]
  <1>1. id \in todo[p] /\ row # None /\ row \in Rows /\ None \in Rows
    BY WhatIsSaved, RowFacts DEF SaveRow, IInv, TypeOK
  <1>2. /\ UNCHANGED <<mem, counter, child, made, starts>>
        /\ \A i \in Ids : base'[i] = IF i = id THEN row ELSE base[i]
        /\ \A q \in Procs, i \in Ids :
             seen'[q][i] = IF q = p /\ i = id THEN row ELSE seen[q][i]
        /\ \A q \in Procs : todo'[q] = IF q = p THEN todo[q] \ {id} ELSE todo[q]
        /\ \A q \in Procs \ {p} : up'[q] = up[q]
        /\ up'[p] = After(up[p], todo'[p])
    BY DEF SaveRow, IInv, TypeOK
  <1>3. /\ up[p] \in {"saving", "syncing"}
        /\ up'[p] \in {"saving", "syncing", "reading", "idle"}
        /\ up'[p] \in {"saving", "syncing"} \/ todo'[p] = {}
        /\ up'[p] \in {"idle", "saving"} => up[p] \in {"idle", "saving"}
    BY <1>1, <1>2 DEF After, IInv, TypeOK, ShapeInv
  <1>4. \A q \in Procs : Up(q)' <=> Up(q)
    BY <1>2, <1>3 DEF Up
  <1>5. TypeOK'
    BY <1>1, <1>2, <1>3 DEF SaveRow, IInv, TypeOK, Phases
  <1>6. BoundInv'
    <2>1. row.made \in 1..made /\ id.n <= made
      BY <1>1 DEF IInv, BoundInv
    <2> QED BY <1>2, <2>1 DEF IInv, BoundInv
  <1>7. ShapeInv'
    <2> SUFFICES ASSUME NEW q \in Procs
                 PROVE  /\ ~Up(q)' => mem'[q] = Nothing /\ seen'[q] = Nothing
                        /\ up'[q] \notin {"saving", "syncing"} => todo'[q] = {}
                        /\ \A i \in todo'[q] : mem'[q][i] # None /\ mem'[q][i] # seen'[q][i]
                        /\ \A i \in Ids : mem'[q][i] = None => seen'[q][i] = None
      BY DEF ShapeInv
    <2>1. CASE q = p
      <3>1. Up(p)'
        BY <1>3 DEF Up
      <3>2. \A i \in todo'[p] : i \in Ids /\ i \in todo[p] /\ i # id
        BY <1>2 DEF IInv, TypeOK
      <3>3. \A i \in todo'[p] : mem[p][i] # None /\ mem[p][i] # seen'[p][i]
        BY <1>2, <3>2 DEF IInv, ShapeInv
      <3>4. \A i \in Ids : mem[p][i] = None => seen'[p][i] = None
        BY <1>1, <1>2 DEF IInv, ShapeInv
      <3> QED BY <1>2, <1>3, <2>1, <3>1, <3>3, <3>4
    <2>2. CASE q # p
      BY <1>1, <1>2, <1>4, <2>2 DEF SaveRow, IInv, TypeOK, ShapeInv
    <2> QED BY <2>1, <2>2
  <1>8. ChildInv'
    <2>1. \A c \in Children : child[c] = "new" => id.tag # c
      BY <1>1 DEF IInv, ChildInv
    <2> QED BY <1>2, <1>4, <2>1, MemoryAssumption DEF IInv, ChildInv, Procs
  <1>9. RowInv'
    <2> SUFFICES ASSUME NEW q \in Procs, NEW i \in Ids, mem[q][i] # None
                 PROVE  (Fresh(q, i) \/ Known(q, i))'
      BY <1>2 DEF RowInv
    <2>1. Fresh(q, i) \/ Known(q, i)
      BY DEF IInv, RowInv
    <2>2. CASE i # id
      BY <1>2, <2>1, <2>2 DEF Fresh, Known
    <2>3. CASE i = id /\ q = p
      BY <1>2, <2>3 DEF Known
    <2>4. CASE i = id /\ q # p
      <3>1. mem[q][id].made = row.made
        BY <1>1, <2>4 DEF IInv, SameInv
      <3>2. ~Fresh(p, id) /\ ~Fresh(q, id)
        BY <1>1, <2>4, FreshIsUnique
      <3>3. Known(q, id) /\ Known(p, id) /\ row = Forgotten(base[id])
        BY <1>1, <2>1, <2>4, <3>2, WhatIsSaved
      <3>4. ~row.active
        BY <3>3, RowFacts DEF IInv, TypeOK
      <3> QED BY <1>2, <2>4, <3>1, <3>3, <3>4 DEF Known
    <2> QED BY <2>2, <2>3, <2>4
  <1>10. SameInv'
    BY <1>2 DEF IInv, SameInv
  <1>11. OwnerInv'
    <2>1. \A q \in Procs : Tag(q)' = Tag(q)
      BY DEF Tag
    <2> QED BY <1>1, <1>2, <1>4, <2>1 DEF IInv, OwnerInv
  <1>12. AgreeInv'
    <2> SUFFICES ASSUME NEW r \in Roots, NEW i \in Ids, Quiet(r)',
                        mem[r][i] = None \/ mem[r][i] = seen'[r][i]
                 PROVE  /\ base'[i].active => mem[r][i] = base'[i]
                        /\ mem[r][i] # None => mem[r][i] = base'[i]
      BY <1>2 DEF AgreeInv
    <2>1. \A c \in Children : ~Up(c)
      BY <1>2 DEF Quiet, IInv, ChildInv
    <2>2. p = r
      BY <1>3, <2>1, MemoryAssumption DEF Up, Alone, Procs
    <2>3. Quiet(r)
      BY <1>2, <1>3, <2>2 DEF Quiet
    <2> QED BY <1>2, <2>2, <2>3 DEF IInv, AgreeInv
  <1> QED BY <1>5, <1>6, <1>7, <1>8, <1>9, <1>10, <1>11, <1>12 DEF IInv

(* Steps that only begin or go on with a save.                             *)
LEMMA DataKeeps ==
  ASSUME IInv, UNCHANGED <<base, mem, seen, counter, made>>
  PROVE  BoundInv' /\ RowInv' /\ SameInv'
  <1>1. BoundInv' BY DEF IInv, BoundInv
  <1>2. \A q \in Procs, i \in Ids : Fresh(q, i)' = Fresh(q, i) /\ Known(q, i)' = Known(q, i)
    BY DEF Fresh, Known, Tag
  <1>3. RowInv' BY <1>2 DEF IInv, RowInv
  <1>4. SameInv' BY DEF IInv, SameInv
  <1> QED BY <1>1, <1>3, <1>4

LEMMA SaveFailsKeeps ==
  ASSUME Alone, IInv, NEW p \in Procs, NEW id \in Ids, SaveFails(p, id)
  PROVE  IInv'
  <1>1. /\ UNCHANGED <<base, mem, seen, counter, child, made, starts>>
        /\ id \in todo[p]
        /\ \A q \in Procs : todo'[q] = IF q = p THEN todo[q] \ {id} ELSE todo[q]
        /\ \A q \in Procs \ {p} : up'[q] = up[q]
        /\ up'[p] = After(up[p], todo'[p])
    BY DEF SaveFails, IInv, TypeOK
  <1>2. /\ up[p] \in {"saving", "syncing"}
        /\ up'[p] \in {"saving", "syncing", "reading", "idle"}
        /\ up'[p] \in {"saving", "syncing"} \/ todo'[p] = {}
        /\ up'[p] \in {"idle", "saving"} => up[p] \in {"idle", "saving"}
    BY <1>1 DEF After, IInv, TypeOK, ShapeInv
  <1>3. \A q \in Procs : (Up(q)' <=> Up(q)) /\ Tag(q)' = Tag(q)
    BY <1>1, <1>2 DEF Up, Tag
  <1>4. TypeOK'
    BY <1>1, <1>2 DEF SaveFails, IInv, TypeOK, Phases
  <1>5. ShapeInv'
    BY <1>1, <1>2, <1>3 DEF IInv, TypeOK, ShapeInv, Up
  <1>6. ChildInv'
    BY <1>1, <1>3, MemoryAssumption DEF IInv, ChildInv, Procs
  <1>7. OwnerInv'
    BY <1>1, <1>3 DEF IInv, OwnerInv
  <1>8. AgreeInv'
    <2>1. \A r \in Roots : Quiet(r)' => Quiet(r)
      BY <1>1, <1>2 DEF Quiet, Procs
    <2> QED BY <1>1, <2>1 DEF IInv, AgreeInv
  <1> QED BY <1>1, <1>4, <1>5, <1>6, <1>7, <1>8, DataKeeps DEF IInv

LEMMA ReturnKeeps ==
  ASSUME Alone, IInv, NEW c \in Children, Return(c)
  PROVE  IInv'
  <1> DEFINE p == Parent[c]
  <1>1. /\ UNCHANGED <<base, mem, seen, counter, made, starts>>
        /\ p \in Roots /\ p \in Procs /\ up[p] = "idle"
        /\ \A q \in Procs : todo'[q] = IF q = p THEN Pending(p, mem[p]) ELSE todo[q]
        /\ \A q \in Procs \ {p} : up'[q] = up[q]
        /\ up'[p] = IF todo'[p] = {} THEN "reading" ELSE "syncing"
        /\ child[c] = "over"
        /\ \A d \in Children : child'[d] = IF d = c THEN "back" ELSE child[d]
    BY MemoryAssumption DEF Return, BeginSave, After, Procs, IInv, TypeOK
  <1>2. \A q \in Procs : (Up(q)' <=> Up(q)) /\ Tag(q)' = Tag(q)
    BY <1>1 DEF Up, Tag
  <1>3. TypeOK'
    <2>1. Pending(p, mem[p]) \in SUBSET Ids
      BY DEF Pending
    <2>2. todo' \in [Procs -> SUBSET Ids] /\ up' \in [Procs -> Phases]
      BY <1>1, <2>1 DEF Return, BeginSave, After, IInv, TypeOK, Phases
    <2>3. child' \in [Children -> Statuses]
      BY DEF Return, IInv, TypeOK, Statuses
    <2> QED BY <1>1, <2>2, <2>3 DEF IInv, TypeOK
  <1>4. ShapeInv'
    <2>1. \A i \in todo'[p] : mem[p][i] # None /\ mem[p][i] # seen[p][i]
      <3>1. todo'[p] = Pending(p, mem[p])
        BY <1>1
      <3> HIDE DEF p
      <3> QED BY <3>1 DEF Pending
    <2>2. /\ Up(p)' /\ (up'[p] \notin {"saving", "syncing"} => todo'[p] = {})
          /\ \A i \in Ids : mem[p][i] = None => seen[p][i] = None
      BY <1>1 DEF Up, IInv, ShapeInv
    <2>3. \A q \in Procs \ {p} : todo'[q] = todo[q] /\ up'[q] = up[q]
      BY <1>1
    <2> QED BY <1>1, <1>2, <2>1, <2>2, <2>3 DEF IInv, ShapeInv
  <1>5. ChildInv'
    BY <1>1, <1>2, MemoryAssumption DEF IInv, ChildInv, Procs
  <1>6. OwnerInv'
    BY <1>1, <1>2 DEF IInv, OwnerInv
  <1>7. AgreeInv'
    <2>1. \A r \in Roots : r = p
      BY <1>1 DEF Alone
    <2>2. \A r \in Roots : ~Quiet(r)'
      BY <1>1, <2>1 DEF Quiet
    <2> QED BY <2>2 DEF AgreeInv
  <1> QED BY <1>1, <1>3, <1>4, <1>5, <1>6, <1>7, DataKeeps DEF IInv

(* A process that ends takes what it holds with it.                        *)
LEMMA ClearedKeeps ==
  ASSUME Alone, IInv, NEW S \in SUBSET Procs, Cleared(S), UNCHANGED <<base, made, starts>>,
         child' \in [Children -> Statuses]
  PROVE  /\ TypeOK' /\ BoundInv' /\ ShapeInv' /\ RowInv' /\ SameInv' /\ OwnerInv'
         /\ \A q \in Procs : Up(q)' <=> Up(q) /\ q \notin S
         /\ \A q \in Procs, i \in Ids : mem[q][i] = None => mem'[q][i] = None
  <1>1. \A q \in Procs : IF q \in S
          THEN /\ up'[q] = "down" /\ mem'[q] = Nothing /\ seen'[q] = Nothing
               /\ counter'[q] = 0 /\ todo'[q] = {}
          ELSE /\ up'[q] = up[q] /\ mem'[q] = mem[q] /\ seen'[q] = seen[q]
               /\ counter'[q] = counter[q] /\ todo'[q] = todo[q]
    BY DEF Cleared
  <1>2. \A i \in Ids : Nothing[i] = None
    BY DEF Nothing
  <1>3. Nothing \in [Ids -> Rows]
    BY RowFacts DEF Nothing
  <1>4. \A q \in Procs : (Up(q)' <=> Up(q) /\ q \notin S) /\ Tag(q)' = Tag(q)
    BY <1>1 DEF Up, Tag
  <1>5. TypeOK'
    BY <1>3, MemoryAssumption DEF Cleared, IInv, TypeOK, Phases
  <1>6. BoundInv'
    <2>1. \A q \in Procs : counter'[q] <= made
      BY <1>1 DEF IInv, TypeOK, BoundInv
    <2>2. \A q \in Procs, i \in Ids : mem'[q][i] # None => mem'[q][i] = mem[q][i]
      BY <1>1, <1>2
    <2> QED BY <2>1, <2>2 DEF IInv, BoundInv
  <1>7. ShapeInv'
    BY <1>1, <1>2, <1>4 DEF IInv, ShapeInv
  <1>8. \A q \in Procs, i \in Ids : mem'[q][i] # None =>
          /\ mem'[q][i] = mem[q][i] /\ seen'[q][i] = seen[q][i]
    BY <1>1, <1>2
  <1>9. RowInv'
    BY <1>4, <1>8 DEF IInv, RowInv, Fresh, Known
  <1>10. SameInv'
    BY <1>8 DEF IInv, SameInv
  <1>11. OwnerInv'
    BY <1>1, <1>4, <1>8 DEF IInv, OwnerInv
  <1> QED BY <1>4, <1>5, <1>6, <1>7, <1>8, <1>9, <1>10, <1>11

LEMMA EndKeeps ==
  ASSUME Alone, IInv, NEW c \in Children, End(c)
  PROVE  IInv'
  <1>1. /\ child[c] = "running"
        /\ \A d \in Children : child'[d] = IF d = c THEN "over" ELSE child[d]
        /\ child' \in [Children -> Statuses]
    BY DEF End, IInv, TypeOK, ChildInv, Statuses
  <1>2. /\ TypeOK' /\ BoundInv' /\ ShapeInv' /\ RowInv' /\ SameInv' /\ OwnerInv'
        /\ \A q \in Procs : Up(q)' <=> Up(q) /\ q # c
        /\ \A q \in Procs, i \in Ids : mem[q][i] = None => mem'[q][i] = None
    BY <1>1, ClearedKeeps DEF End, Procs
  <1>3. ChildInv'
    <2>1. \A d \in Children : Parent[d] \in Roots /\ Parent[d] # c
      BY MemoryAssumption
    <2> QED BY <1>1, <1>2, <2>1 DEF End, IInv, ChildInv, Procs
  <1>4. AgreeInv'
    BY <1>1 DEF AgreeInv, Quiet
  <1> QED BY <1>2, <1>3, <1>4 DEF IInv

LEMMA CrashKeeps ==
  ASSUME Alone, IInv, NEW r \in Roots, Crash(r)
  PROVE  IInv'
  <1> DEFINE Mine == {c \in Children : Parent[c] = r /\ child[c] = "running"}
  <1>1. \A c \in Children : Parent[c] = r
    BY MemoryAssumption DEF Alone
  <1>2. Mine = {c \in Children : child[c] = "running"}
    BY <1>1
  <1>3. /\ Cleared({r} \cup Mine) /\ UNCHANGED <<base, made, starts>>
        /\ child' = [c \in Children |->
             IF child[c] \in {"running", "over"} THEN "gone" ELSE child[c]]
    BY <1>1 DEF Crash, Alone
  <1>4. /\ TypeOK' /\ BoundInv' /\ ShapeInv' /\ RowInv' /\ SameInv' /\ OwnerInv'
        /\ \A q \in Procs : Up(q)' <=> Up(q) /\ q \notin {r} \cup Mine
        /\ \A q \in Procs, i \in Ids : mem[q][i] = None => mem'[q][i] = None
    <2>1. child' \in [Children -> Statuses]
      BY <1>3 DEF IInv, TypeOK, Statuses
    <2>2. {r} \cup Mine \in SUBSET Procs
      BY DEF Procs
    <2> HIDE DEF Mine
    <2> QED BY <1>3, <2>1, <2>2, ClearedKeeps
  <1>5. ChildInv'
    <2>1. \A c \in Children : ~Up(c)'
      BY <1>2, <1>4 DEF IInv, ChildInv, Procs
    <2> QED BY <1>3, <1>4, <2>1 DEF IInv, ChildInv
  <1>6. AgreeInv'
    <2>1. \A q \in Roots : up'[q] = "down"
      BY <1>3 DEF Cleared, Alone, Procs
    <2> QED BY <2>1 DEF AgreeInv, Quiet
  <1> QED BY <1>4, <1>5, <1>6 DEF IInv

-----------------------------------------------------------------------------
(* Numbers of the ids of some rows, none above those given out.            *)
LEMMA NumbersBounded ==
  ASSUME NEW m \in Nat, NEW n \in 0..m, NEW rows,
         \A i \in Ids : rows[i] # None => i.n <= m
  PROVE  /\ Raised(n, Numbers(rows)) \in 0..m /\ n <= Raised(n, Numbers(rows))
         /\ \A i \in Ids : rows[i] # None => i.n <= Raised(n, Numbers(rows))
  <1>1. Numbers(rows) \in SUBSET (0..m)
    BY RowFacts DEF Numbers
  <1>2. \A i \in Ids : rows[i] # None => i.n \in Numbers(rows)
    BY DEF Numbers
  <1> QED BY <1>1, <1>2, RaisedIsGreatest

(* A process that starts holds the active rows of the base, if nobody has  *)
(* entries with its tag.                                                   *)
LEMMA LoadKeeps ==
  ASSUME Alone, IInv, NEW p \in Procs, ~Up(p), Load(p),
         UNCHANGED <<base, todo, made>>,
         \A q \in Procs, i \in Ids : i.tag = Tag(p) => mem[q][i] = None
  PROVE  /\ up' \in [Procs -> Phases] /\ mem' \in [Procs -> [Ids -> Rows]]
         /\ seen' \in [Procs -> [Ids -> Rows]] /\ counter' \in [Procs -> 0..MaxMade]
         /\ BoundInv' /\ ShapeInv' /\ RowInv' /\ SameInv' /\ OwnerInv'
         /\ \A q \in Procs : Up(q)' <=> Up(q) \/ q = p
         /\ \A q \in Procs, i \in Ids :
              /\ mem'[q][i] = IF q = p THEN IF base[i].active THEN base[i] ELSE None
                                       ELSE mem[q][i]
              /\ seen'[q][i] = IF q = p THEN mem'[q][i] ELSE seen[q][i]
  <1>1. /\ ActiveRows \in [Ids -> Rows]
        /\ \A i \in Ids : ActiveRows[i] = IF base[i].active THEN base[i] ELSE None
    BY RowFacts DEF ActiveRows, IInv, TypeOK
  <1>2. /\ \A q \in Procs : up'[q] = IF q = p THEN "idle" ELSE up[q]
        /\ \A q \in Procs : mem'[q] = IF q = p THEN ActiveRows ELSE mem[q]
        /\ \A q \in Procs : seen'[q] = IF q = p THEN ActiveRows ELSE seen[q]
        /\ \A q \in Procs \ {p} : counter'[q] = counter[q]
        /\ counter'[p] = Raised(0, Numbers(ActiveRows))
    BY DEF Load, IInv, TypeOK
  <1>3. made \in Nat /\ made <= MaxMade
    BY MemoryAssumption DEF IInv, TypeOK
  <1>4. /\ counter'[p] \in 0..made
        /\ \A i \in Ids : base[i].active => i.n <= counter'[p]
    <2>1. \A i \in Ids : ActiveRows[i] # None => i.n <= made
      BY <1>1 DEF IInv, BoundInv
    <2>2. \A i \in Ids : base[i].active => ActiveRows[i] # None
      BY <1>1, RowFacts
    <2> QED BY <1>2, <1>3, <2>1, <2>2, NumbersBounded
  <1>5. /\ up' \in [Procs -> Phases] /\ mem' \in [Procs -> [Ids -> Rows]]
        /\ seen' \in [Procs -> [Ids -> Rows]]
    BY <1>1 DEF Load, IInv, TypeOK, Phases
  <1>6. counter' \in [Procs -> 0..MaxMade]
    BY <1>2, <1>3, <1>4, MemoryAssumption DEF Load, IInv, TypeOK
  <1>7. \A q \in Procs : (Up(q)' <=> Up(q) \/ q = p) /\ Tag(q)' = Tag(q)
    BY <1>2 DEF Up, Tag
  <1>8. \A q \in Procs, i \in Ids :
          /\ mem'[q][i] = IF q = p THEN IF base[i].active THEN base[i] ELSE None
                                   ELSE mem[q][i]
          /\ seen'[q][i] = IF q = p THEN mem'[q][i] ELSE seen[q][i]
    BY <1>1, <1>2
  <1>9. \A i \in Ids : base[i].active =>
          base[i] # None /\ base[i].made \in 1..made /\ i.n <= made
    BY RowFacts DEF IInv, TypeOK, BoundInv
  <1>10. BoundInv'
    BY <1>2, <1>4, <1>8, <1>9 DEF IInv, BoundInv
  <1>11. ShapeInv'
    <2>1. todo[p] = {} /\ up'[p] = "idle" /\ todo' = todo
      BY <1>2 DEF IInv, ShapeInv, Up
    <2> QED BY <1>2, <1>7, <1>8, <2>1 DEF IInv, ShapeInv
  <1>12. RowInv'
    <2> SUFFICES ASSUME NEW q \in Procs, NEW i \in Ids, mem'[q][i] # None
                 PROVE  (Fresh(q, i) \/ Known(q, i))'
      BY DEF RowInv
    <2>1. CASE q = p
      BY <1>8, <2>1 DEF Known
    <2>2. CASE q # p
      BY <1>7, <1>8, <2>2 DEF IInv, RowInv, Fresh, Known
    <2> QED BY <2>1, <2>2
  <1>13. SameInv'
    <2>1. \A q \in Procs, i \in Ids : base[i].active /\ mem[q][i] # None =>
            mem[q][i].made = base[i].made
      BY DEF IInv, RowInv, Fresh, Known
    <2> QED BY <1>8, <2>1 DEF IInv, SameInv
  <1>14. OwnerInv'
    <2> SUFFICES ASSUME NEW o \in Procs, NEW q \in Procs, NEW i \in Ids, Up(o)',
                        i.tag = Tag(o), base[i].active \/ mem'[q][i] # None
                 PROVE  i.n <= counter'[o]
      BY <1>7 DEF OwnerInv
    <2>1. base[i].active \/ mem[q][i] # None
      BY <1>8
    <2>2. CASE o = p
      BY <1>4, <2>1, <2>2
    <2>3. CASE o # p
      BY <1>2, <1>7, <2>1, <2>3 DEF IInv, OwnerInv
    <2> QED BY <2>2, <2>3
  <1> QED BY <1>5, <1>6, <1>7, <1>8, <1>10, <1>11, <1>12, <1>13, <1>14

LEMMA StartKeeps ==
  ASSUME Alone, IInv, NEW r \in Roots, Start(r)
  PROVE  IInv'
  <1>1. r \in Procs /\ ~Up(r)
    BY DEF Start, Up, Procs
  <1>2. \A q \in Procs : ~Up(q)
    <2>1. \A q \in Roots : ~Up(q)
      BY <1>1 DEF Alone
    <2>2. \A c \in Children : ~Up(c)
      BY <2>1, MemoryAssumption DEF IInv, ChildInv
    <2> QED BY <2>1, <2>2 DEF Procs
  <1>3. \A q \in Procs, i \in Ids : mem[q][i] = None
    BY <1>2 DEF IInv, ShapeInv, Nothing
  <1>4. /\ up' \in [Procs -> Phases] /\ mem' \in [Procs -> [Ids -> Rows]]
        /\ seen' \in [Procs -> [Ids -> Rows]] /\ counter' \in [Procs -> 0..MaxMade]
        /\ BoundInv' /\ ShapeInv' /\ RowInv' /\ SameInv' /\ OwnerInv'
        /\ \A q \in Procs : Up(q)' <=> Up(q) \/ q = r
        /\ \A q \in Procs, i \in Ids :
             /\ mem'[q][i] = IF q = r THEN IF base[i].active THEN base[i] ELSE None
                                      ELSE mem[q][i]
             /\ seen'[q][i] = IF q = r THEN mem'[q][i] ELSE seen[q][i]
    BY <1>1, <1>3, LoadKeeps DEF Start
  <1>5. TypeOK'
    BY <1>4, MemoryAssumption DEF Start, IInv, TypeOK
  <1>6. ChildInv'
    <2>1. \A c \in Children : c # r /\ c \in Procs /\ Parent[c] = r
      BY MemoryAssumption DEF Alone, Procs
    <2>2. \A c \in Children, i \in Ids : child[c] = "new" /\ i.tag = c =>
            ~base[i].active /\ base[i] = None
      BY RowFacts DEF IInv, ChildInv
    <2>3. \A c \in Children, i \in Ids : child[c] = "new" /\ i.tag = c =>
            \A q \in Procs : mem'[q][i] = None
      BY <1>3, <1>4, <2>2
    <2>4. \A c \in Children : (Up(c)' <=> Up(c)) /\ (Up(c)' => Up(Parent[c])')
      BY <1>1, <1>4, <2>1
    <2>5. base' = base /\ child' = child
      BY DEF Start
    <2> QED BY <2>2, <2>3, <2>4, <2>5 DEF IInv, ChildInv
  <1>7. AgreeInv'
    <2>1. \A q \in Roots : q = r /\ q \in Procs
      BY DEF Alone, Procs
    <2> QED BY <1>4, <2>1 DEF Start, AgreeInv
  <1> QED BY <1>4, <1>5, <1>6, <1>7 DEF IInv

LEMMA RunChildKeeps ==
  ASSUME Alone, IInv, NEW c \in Children, RunChild(c)
  PROVE  IInv'
  <1>1. /\ c \in Procs /\ child[c] = "new" /\ ~Up(c) /\ Up(Parent[c]) /\ Tag(c) = c
        /\ \A d \in Children : child'[d] = IF d = c THEN "running" ELSE child[d]
    BY DEF RunChild, Up, Tag, Procs, IInv, TypeOK, ChildInv
  <1>2. \A q \in Procs, i \in Ids : i.tag = c => mem[q][i] = None /\ base[i] = None
    BY <1>1 DEF IInv, ChildInv
  <1>3. /\ up' \in [Procs -> Phases] /\ mem' \in [Procs -> [Ids -> Rows]]
        /\ seen' \in [Procs -> [Ids -> Rows]] /\ counter' \in [Procs -> 0..MaxMade]
        /\ BoundInv' /\ ShapeInv' /\ RowInv' /\ SameInv' /\ OwnerInv'
        /\ \A q \in Procs : Up(q)' <=> Up(q) \/ q = c
        /\ \A q \in Procs, i \in Ids :
             /\ mem'[q][i] = IF q = c THEN IF base[i].active THEN base[i] ELSE None
                                      ELSE mem[q][i]
             /\ seen'[q][i] = IF q = c THEN mem'[q][i] ELSE seen[q][i]
    BY <1>1, <1>2, LoadKeeps DEF RunChild
  <1>4. TypeOK'
    BY <1>3 DEF RunChild, IInv, TypeOK, Statuses
  <1>5. ChildInv'
    <2>1. \A d \in Children : d \in Procs /\ Parent[d] \in Procs
      BY MemoryAssumption DEF Procs
    <2>2. \A d \in Children, i \in Ids : child[d] = "new" /\ i.tag = d =>
            ~base[i].active /\ base[i] = None /\ \A q \in Procs : mem[q][i] = None
      BY RowFacts DEF IInv, ChildInv
    <2>3. \A d \in Children, i \in Ids : child[d] = "new" /\ i.tag = d =>
            \A q \in Procs : mem'[q][i] = None
      BY <1>3, <2>2
    <2>4. \A d \in Children : /\ Up(d)' <=> child'[d] = "running"
                              /\ Up(d)' => Up(Parent[d])'
      BY <1>1, <1>3, <2>1 DEF IInv, ChildInv
    <2>5. base' = base
      BY DEF RunChild
    <2> QED BY <1>1, <2>2, <2>3, <2>4, <2>5 DEF IInv, ChildInv
  <1>6. AgreeInv'
    BY <1>1 DEF AgreeInv, Quiet
  <1> QED BY <1>3, <1>4, <1>5, <1>6 DEF IInv

-----------------------------------------------------------------------------
(* What a reload does to one row.                                          *)
Taken(p, id) ==
  /\ base[id] # None /\ (base[id].active \/ mem[p][id] # None)
  /\ mem[p][id] = None \/ mem[p][id] = seen[p][id]

LEMMA ReadRows ==
  ASSUME IInv, NEW p \in Procs, Read(p)
  PROVE  /\ \A q \in Procs, i \in Ids :
              /\ mem'[q][i] = IF q = p /\ Taken(p, i) THEN base[i] ELSE mem[q][i]
              /\ seen'[q][i] = IF q = p /\ Taken(p, i) THEN base[i] ELSE seen[q][i]
         /\ mem' \in [Procs -> [Ids -> Rows]] /\ seen' \in [Procs -> [Ids -> Rows]]
  <1>1. \A i \in Ids : i \in Spared(p) <=> ~Taken(p, i)
    <2>1. \A i \in Ids : i \in Pending(p, mem[p]) <=> mem[p][i] # None /\ mem[p][i] # seen[p][i]
      BY DEF Pending
    <2> QED BY <2>1 DEF Spared, Taken
  <1>2. /\ mem' = [mem EXCEPT ![p] =
                     [i \in Ids |-> IF i \in Spared(p) THEN @[i] ELSE base[i]]]
        /\ seen' = [seen EXCEPT ![p] =
                     [i \in Ids |-> IF i \in Spared(p) THEN @[i] ELSE base[i]]]
    BY DEF Read
  <1>3. mem \in [Procs -> [Ids -> Rows]] /\ seen \in [Procs -> [Ids -> Rows]]
        /\ base \in [Ids -> Rows]
    BY DEF IInv, TypeOK
  <1> HIDE DEF IInv
  <1> QED BY <1>1, <1>2, <1>3

(* What a process did not change since it read it, the base may only have  *)
(* as forgotten.                                                           *)
LEMMA TakenIsOurs ==
  ASSUME IInv, NEW p \in Procs, NEW id \in Ids, Taken(p, id), mem[p][id] # None
  PROVE  Known(p, id) /\ base[id] \in {mem[p][id], Forgotten(mem[p][id])}
  <1>1. mem[p][id] = seen[p][id] /\ mem[p][id] \in Rows /\ base[id] \in Rows
    BY DEF Taken, IInv, TypeOK
  <1>2. Known(p, id)
    BY <1>1 DEF IInv, RowInv, Fresh
  <1>3. CASE mem[p][id].active
    <2>1. CASE base[id].active
      BY <1>1, <1>2, <1>3, <2>1, RowFacts DEF Known
    <2>2. CASE ~base[id].active
      <3>1. Forgotten(mem[p][id]) \in Rows /\ ~Forgotten(mem[p][id]).active
            /\ Forgotten(mem[p][id]).made = base[id].made
        BY <1>1, <1>2, RowFacts DEF Known
      <3> QED BY <1>1, <1>2, <2>2, <3>1, RowFacts
    <2> QED BY <2>1, <2>2
  <1>4. CASE ~mem[p][id].active
    BY <1>1, <1>2, <1>4, RowFacts DEF Known
  <1> QED BY <1>2, <1>3, <1>4

LEMMA ReadKeeps ==
  ASSUME Alone, IInv, NEW p \in Procs, Read(p)
  PROVE  IInv'
  <1>1. /\ UNCHANGED <<base, todo, child, made, starts>> /\ up[p] = "reading"
        /\ \A q \in Procs : up'[q] = IF q = p THEN "idle" ELSE up[q]
        /\ \A q \in Procs \ {p} : counter'[q] = counter[q]
        /\ counter'[p] = Raised(counter[p], Numbers(base))
    BY DEF Read, IInv, TypeOK
  <1>2. /\ \A q \in Procs, i \in Ids :
             /\ mem'[q][i] = IF q = p /\ Taken(p, i) THEN base[i] ELSE mem[q][i]
             /\ seen'[q][i] = IF q = p /\ Taken(p, i) THEN base[i] ELSE seen[q][i]
        /\ mem' \in [Procs -> [Ids -> Rows]] /\ seen' \in [Procs -> [Ids -> Rows]]
    BY ReadRows
  <1>3. \A q \in Procs : (Up(q)' <=> Up(q)) /\ Tag(q)' = Tag(q)
    BY <1>1 DEF Up, Tag
  <1>4. made \in Nat /\ made <= MaxMade /\ counter[p] \in 0..made
    BY MemoryAssumption DEF IInv, TypeOK, BoundInv
  <1>5. /\ counter'[p] \in 0..made /\ counter[p] <= counter'[p]
        /\ \A i \in Ids : base[i] # None => i.n <= counter'[p]
    <2>1. \A i \in Ids : base[i] # None => i.n <= made
      BY DEF IInv, BoundInv
    <2> QED BY <1>1, <1>4, <2>1, NumbersBounded
  <1>6. TypeOK'
    <2>1. counter' \in [Procs -> 0..MaxMade]
      BY <1>1, <1>4, <1>5, MemoryAssumption DEF Read, IInv, TypeOK
    <2>2. up' \in [Procs -> Phases]
      BY DEF Read, IInv, TypeOK, Phases
    <2> QED BY <1>1, <1>2, <2>1, <2>2 DEF IInv, TypeOK
  <1>7. \A i \in Ids : base[i] # None => base[i].made \in 1..made /\ i.n <= made
    BY RowFacts, <1>4 DEF IInv, TypeOK, BoundInv
  <1>8. BoundInv'
    <2>1. \A q \in Procs : counter'[q] <= made
      BY <1>1, <1>5 DEF IInv, BoundInv
    <2>2. \A q \in Procs, i \in Ids : mem'[q][i] # None => mem'[q][i].made \in 1..made /\ i.n <= made
      BY <1>2, <1>7 DEF IInv, BoundInv, Taken
    <2> QED BY <1>1, <2>1, <2>2 DEF IInv, BoundInv
  <1>9. ShapeInv'
    <2> SUFFICES ASSUME NEW q \in Procs
                 PROVE  /\ ~Up(q)' => mem'[q] = Nothing /\ seen'[q] = Nothing
                        /\ up'[q] \notin {"saving", "syncing"} => todo'[q] = {}
                        /\ \A i \in todo'[q] : mem'[q][i] # None /\ mem'[q][i] # seen'[q][i]
                        /\ \A i \in Ids : mem'[q][i] = None => seen'[q][i] = None
      BY DEF ShapeInv
    <2>1. CASE q = p
      <3>1. todo'[p] = {} /\ Up(p)'
        BY <1>1, <1>3 DEF Up, IInv, ShapeInv
      <3>2. \A i \in Ids : mem'[p][i] = None => seen'[p][i] = None
        BY <1>2 DEF IInv, ShapeInv
      <3> QED BY <2>1, <3>1, <3>2
    <2>2. CASE q # p
      <3>1. mem'[q] = mem[q] /\ seen'[q] = seen[q] /\ todo'[q] = todo[q] /\ up'[q] = up[q]
        BY <2>2 DEF Read, IInv, TypeOK
      <3> QED BY <1>3, <3>1 DEF IInv, ShapeInv
    <2> QED BY <2>1, <2>2
  <1>10. ChildInv'
    <2>1. \A d \in Children : d \in Procs /\ Parent[d] \in Procs
      BY MemoryAssumption DEF Procs
    <2>2. \A d \in Children, i \in Ids : child[d] = "new" /\ i.tag = d =>
            base[i] = None /\ \A q \in Procs : mem'[q][i] = None
      BY <1>2 DEF IInv, ChildInv, Taken
    <2>3. \A d \in Children : /\ child[d] # "orphan"
                              /\ Up(d)' <=> child[d] = "running"
                              /\ Up(d)' => Up(Parent[d])'
      BY <1>3, <2>1 DEF IInv, ChildInv
    <2> QED BY <1>1, <2>2, <2>3 DEF ChildInv
  <1>11. RowInv'
    <2> SUFFICES ASSUME NEW q \in Procs, NEW i \in Ids, mem'[q][i] # None
                 PROVE  (Fresh(q, i) \/ Known(q, i))'
      BY DEF RowInv
    <2>1. CASE q = p /\ Taken(p, i)
      BY <1>1, <1>2, <2>1 DEF Known
    <2>2. CASE ~(q = p /\ Taken(p, i))
      BY <1>1, <1>2, <1>3, <2>2 DEF IInv, RowInv, Fresh, Known
    <2> QED BY <2>1, <2>2
  <1>12. SameInv'
    <2>1. ASSUME NEW q \in Procs, NEW i \in Ids, q # p, Taken(p, i), mem[q][i] # None
          PROVE  mem[q][i].made = base[i].made
      <3>1. Known(q, i) \/ Fresh(q, i)
        BY <2>1 DEF IInv, RowInv
      <3>2. ASSUME Fresh(q, i) PROVE FALSE
        <4>1. mem[p][i] # None
          BY <2>1, <3>2 DEF Taken, Fresh
        <4> QED BY <2>1, <3>2, <4>1, FreshIsUnique
      <3> QED BY <3>1, <3>2 DEF Known
    <2> QED BY <1>2, <2>1 DEF IInv, SameInv
  <1>13. OwnerInv'
    <2> SUFFICES ASSUME NEW o \in Procs, NEW q \in Procs, NEW i \in Ids, Up(o),
                        i.tag = Tag(o), base[i].active \/ mem'[q][i] # None
                 PROVE  i.n <= counter'[o]
      BY <1>1, <1>3 DEF OwnerInv
    <2>1. base[i].active \/ mem[q][i] # None
      BY <1>2 DEF Taken
    <2>2. i.n <= counter[o]
      BY <2>1 DEF IInv, OwnerInv
    <2>3. CASE o = p
      BY <1>4, <1>5, <2>2, <2>3, RowFacts
    <2>4. CASE o # p
      BY <1>1, <2>2, <2>4
    <2> QED BY <2>3, <2>4
  <1>14. AgreeInv'
    <2> SUFFICES ASSUME NEW r \in Roots, NEW i \in Ids, Quiet(r)',
                        mem'[r][i] = None \/ mem'[r][i] = seen'[r][i]
                 PROVE  /\ base[i].active => mem'[r][i] = base[i]
                        /\ mem'[r][i] # None => mem'[r][i] = base[i]
      BY <1>1 DEF AgreeInv
    <2>1. p = r
      <3>1. \A c \in Children : ~Up(c)
        BY <1>1 DEF Quiet, IInv, ChildInv
      <3>2. Up(p)
        BY <1>1 DEF Up
      <3> QED BY <3>1, <3>2 DEF Alone, Procs
    <2>2. CASE Taken(p, i)
      BY <1>2, <2>1, <2>2
    <2>3. CASE ~Taken(p, i)
      <3>1. mem'[p][i] = mem[p][i] /\ seen'[p][i] = seen[p][i]
        BY <1>2, <2>3
      <3>2. base[i] = None \/ (~base[i].active /\ mem[p][i] = None)
        BY <2>1, <2>3, <3>1 DEF Taken
      <3>3. mem[p][i] = None
        <4> SUFFICES ASSUME mem[p][i] # None PROVE FALSE
          OBVIOUS
        <4>1. base[i] = None /\ mem[p][i] = seen[p][i]
          BY <2>1, <3>1, <3>2
        <4>2. Known(p, i)
          BY <4>1 DEF IInv, RowInv, Fresh
        <4>3. mem[p][i].made \in 1..made
          BY DEF IInv, BoundInv
        <4> QED BY <4>1, <4>2, <4>3, <1>4, RowFacts DEF Known
      <3> QED BY <2>1, <3>1, <3>2, <3>3, RowFacts
    <2> QED BY <2>2, <2>3
  <1> QED BY <1>6, <1>8, <1>9, <1>10, <1>11, <1>12, <1>13, <1>14 DEF IInv

-----------------------------------------------------------------------------
(* A write changes one row of one process and begins a save.               *)
LEMMA WriteRows ==
  ASSUME IInv, NEW p \in Procs, NEW id \in Ids, NEW row \in Rows, row # None,
         Write(p, id, row), seen' = seen
  PROVE  /\ up[p] = "idle" /\ \A q \in Procs : Up(q)' <=> Up(q)
         /\ \A q \in Procs, i \in Ids :
              mem'[q][i] = IF q = p /\ i = id THEN row ELSE mem[q][i]
         /\ mem' \in [Procs -> [Ids -> Rows]]
         /\ up' \in [Procs -> Phases] /\ todo' \in [Procs -> SUBSET Ids]
         /\ ShapeInv'
         /\ \A r \in Roots : up'[r] \in {"idle", "saving"} => up[r] \in {"idle", "saving"}
  <1> DEFINE m == [mem[p] EXCEPT ![id] = row]
  <1>1. /\ up[p] = "idle" /\ mem' = [mem EXCEPT ![p][id] = row]
        /\ todo' = [todo EXCEPT ![p] = Pending(p, m)]
        /\ up' = [up EXCEPT ![p] = After("saving", Pending(p, m))]
    BY DEF Write, BeginSave
  <1>2. /\ mem \in [Procs -> [Ids -> Rows]] /\ todo \in [Procs -> SUBSET Ids]
        /\ up \in [Procs -> Phases]
    BY DEF IInv, TypeOK
  <1>3. /\ m \in [Ids -> Rows]
        /\ \A i \in Ids : m[i] = IF i = id THEN row ELSE mem[p][i]
    BY <1>2
  <1>4. /\ Pending(p, m) \in SUBSET Ids
        /\ \A i \in Pending(p, m) : m[i] # None /\ m[i] # seen[p][i]
    BY DEF Pending
  <1>5. /\ mem'[p] = m /\ mem' \in [Procs -> [Ids -> Rows]]
        /\ \A q \in Procs \ {p} : mem'[q] = mem[q]
    BY <1>1, <1>2
  <1> HIDE DEF m
  <1>6. /\ todo'[p] = Pending(p, m) /\ todo' \in [Procs -> SUBSET Ids]
        /\ up'[p] = IF Pending(p, m) = {} THEN "idle" ELSE "saving"
        /\ up' \in [Procs -> Phases]
        /\ \A q \in Procs \ {p} : todo'[q] = todo[q] /\ up'[q] = up[q]
    BY <1>1, <1>2, <1>4 DEF After, Phases
  <1>7. \A q \in Procs : Up(q)' <=> Up(q)
    BY <1>1, <1>6 DEF Up
  <1>8. ShapeInv'
    <2> SUFFICES ASSUME NEW q \in Procs
                 PROVE  /\ ~Up(q)' => mem'[q] = Nothing /\ seen'[q] = Nothing
                        /\ up'[q] \notin {"saving", "syncing"} => todo'[q] = {}
                        /\ \A i \in todo'[q] : mem'[q][i] # None /\ mem'[q][i] # seen'[q][i]
                        /\ \A i \in Ids : mem'[q][i] = None => seen'[q][i] = None
      BY DEF ShapeInv
    <2>1. CASE q = p
      <3>1. Up(p)
        BY <1>1 DEF Up
      <3>2. \A i \in Ids : m[i] = None => seen[p][i] = None
        BY <1>3 DEF IInv, ShapeInv
      <3> QED BY <1>4, <1>5, <1>6, <1>7, <2>1, <3>1, <3>2
    <2>2. CASE q # p
      BY <1>5, <1>6, <1>7, <2>2 DEF IInv, ShapeInv
    <2> QED BY <2>1, <2>2
  <1> QED BY <1>1, <1>3, <1>5, <1>6, <1>7, <1>8 DEF Procs

LEMMA RememberKeeps ==
  ASSUME Alone, IInv, NEW p \in Procs, Remember(p)
  PROVE  IInv'
  <1> DEFINE id == [n |-> counter[p] + 1, tag |-> Tag(p)]
             row == [made |-> made + 1, active |-> TRUE]
  <1>1. /\ made \in Nat /\ made + 1 <= MaxMade /\ counter[p] \in 0..made
        /\ made' = made + 1
        /\ UNCHANGED <<base, seen, child, starts>> /\ Write(p, id, row)
        /\ counter' = [counter EXCEPT ![p] = @ + 1]
    BY MemoryAssumption DEF Remember, IInv, TypeOK, BoundInv
  <1>2. id \in Ids /\ id.n = counter[p] + 1 /\ id.tag = Tag(p)
    BY <1>1, MemoryAssumption, TagFacts DEF Ids
  <1>3. row \in Rows /\ row # None /\ row.made = made + 1 /\ row.active
    BY <1>1, MemoryAssumption DEF Rows, None
  <1> HIDE DEF id, row
  <1>4. /\ up[p] = "idle" /\ \A q \in Procs : Up(q)' <=> Up(q)
        /\ \A q \in Procs, i \in Ids :
             mem'[q][i] = IF q = p /\ i = id THEN row ELSE mem[q][i]
        /\ mem' \in [Procs -> [Ids -> Rows]]
        /\ up' \in [Procs -> Phases] /\ todo' \in [Procs -> SUBSET Ids]
        /\ ShapeInv'
        /\ \A r \in Roots : up'[r] \in {"idle", "saving"} => up[r] \in {"idle", "saving"}
    BY <1>1, <1>2, <1>3, WriteRows
  <1>5. ~base[id].active /\ \A q \in Procs : mem[q][id] = None
    BY <1>1, <1>2, <1>4 DEF Up, IInv, OwnerInv
  <1>6. \A q \in Procs : /\ counter'[q] = IF q = p THEN counter[q] + 1 ELSE counter[q]
                         /\ counter[q] \in 0..made
    BY <1>1 DEF IInv, TypeOK, BoundInv
  <1>7. TypeOK'
    <2>1. counter' \in [Procs -> 0..MaxMade]
      BY <1>1, MemoryAssumption DEF IInv, TypeOK
    <2>2. made' \in 0..MaxMade
      BY <1>1, MemoryAssumption
    <2> QED BY <1>1, <1>4, <2>1, <2>2 DEF IInv, TypeOK
  <1>8. BoundInv'
    <2>1. \A q \in Procs : counter'[q] <= made'
      BY <1>1, <1>6
    <2>2. \A i \in Ids : /\ base[i].made \in 0..MaxMade /\ base[i].made <= made
                         /\ base[i].made = 0 => base[i] = None
                         /\ base[i] # None => i.n <= made
      BY RowFacts DEF IInv, TypeOK, BoundInv
    <2>3. \A i \in Ids : i.n \in 1..MaxMade
      BY RowFacts
    <2>4. \A q \in Procs, i \in Ids :
            mem[q][i] # None => mem[q][i].made \in 1..made /\ i.n <= made
      BY DEF IInv, BoundInv
    <2>5. \A q \in Procs, i \in Ids :
            mem'[q][i] # None => mem'[q][i].made \in 1..made' /\ i.n <= made'
      BY <1>1, <1>2, <1>3, <1>4, <2>3, <2>4
    <2> QED BY <1>1, <2>1, <2>2, <2>3, <2>5, MemoryAssumption DEF BoundInv
  <1>9. ChildInv'
    <2>1. \A d \in Children : child[d] = "new" => Tag(p) # d
      BY <1>4, TagFacts DEF Up, IInv, ChildInv
    <2>2. \A d \in Children : d \in Procs /\ Parent[d] \in Procs
      BY MemoryAssumption DEF Procs
    <2>3. \A d \in Children, i \in Ids : child[d] = "new" /\ i.tag = d =>
            base[i] = None /\ \A q \in Procs : mem'[q][i] = None
      BY <1>2, <1>4, <2>1 DEF IInv, ChildInv
    <2>4. \A d \in Children : /\ child[d] # "orphan"
                              /\ Up(d)' <=> child[d] = "running"
                              /\ Up(d)' => Up(Parent[d])'
      BY <1>4, <2>2 DEF IInv, ChildInv
    <2> QED BY <1>1, <2>3, <2>4 DEF ChildInv
  <1>10. RowInv'
    <2> SUFFICES ASSUME NEW q \in Procs, NEW i \in Ids, mem'[q][i] # None
                 PROVE  (Fresh(q, i) \/ Known(q, i))'
      BY DEF RowInv
    <2>1. CASE q = p /\ i = id
      <3>1. seen[p][id] = None
        BY <1>2, <1>5 DEF IInv, ShapeInv
      <3>2. base[id].made \in Nat /\ base[id].made <= made
        BY <1>2, RowFacts DEF IInv, TypeOK, BoundInv
      <3> QED BY <1>1, <1>2, <1>3, <1>4, <1>5, <2>1, <3>1, <3>2 DEF Fresh, Tag
    <2>2. CASE ~(q = p /\ i = id)
      BY <1>1, <1>4, <2>2 DEF IInv, RowInv, Fresh, Known, Tag
    <2> QED BY <2>1, <2>2
  <1>11. SameInv'
    BY <1>2, <1>4, <1>5 DEF IInv, SameInv
  <1>12. OwnerInv'
    <2> SUFFICES ASSUME NEW o \in Procs, NEW q \in Procs, NEW i \in Ids, Up(o),
                        i.tag = Tag(o), base[i].active \/ mem'[q][i] # None
                 PROVE  i.n <= counter'[o]
      BY <1>1, <1>4 DEF OwnerInv, Tag
    <2>1. CASE i = id
      <3>1. o = p
        BY <1>2, <2>1, TagFacts
      <3> QED BY <1>2, <1>6, <2>1, <3>1
    <2>2. CASE i # id
      <3>1. i.n <= counter[o]
        BY <1>4, <2>2 DEF IInv, OwnerInv
      <3>2. i.n \in Nat
        BY RowFacts
      <3> QED BY <1>6, <3>1, <3>2
    <2> QED BY <2>1, <2>2
  <1>13. AgreeInv'
    <2> SUFFICES ASSUME NEW r \in Roots, NEW i \in Ids, Quiet(r)',
                        mem'[r][i] = None \/ mem'[r][i] = seen[r][i]
                 PROVE  /\ base[i].active => mem'[r][i] = base[i]
                        /\ mem'[r][i] # None => mem'[r][i] = base[i]
      BY <1>1 DEF AgreeInv
    <2>1. Quiet(r) /\ r \in Procs
      BY <1>1, <1>4 DEF Quiet, Procs
    <2>2. ~(r = p /\ i = id)
      <3>1. seen[p][id] = None
        BY <1>2, <1>5 DEF IInv, ShapeInv
      <3> QED BY <1>2, <1>3, <1>4, <3>1
    <2> QED BY <1>4, <2>1, <2>2 DEF IInv, AgreeInv
  <1> QED BY <1>4, <1>7, <1>8, <1>9, <1>10, <1>11, <1>12, <1>13 DEF IInv

LEMMA ForgetKeeps ==
  ASSUME Alone, IInv, NEW p \in Procs, NEW id \in Ids, Forget(p, id)
  PROVE  IInv'
  <1> DEFINE old == mem[p][id]
             row == Forgotten(old)
  <1>1. /\ old # None /\ old \in Rows /\ old.made \in 1..made /\ id.n <= made
        /\ UNCHANGED <<base, seen, counter, child, made, starts>>
        /\ Write(p, id, row)
    BY DEF Forget, IInv, TypeOK, BoundInv
  <1>2. row \in Rows /\ row.made = old.made /\ ~row.active /\ (~old.active => row = old)
    BY <1>1, RowFacts
  <1>3. row # None
    BY <1>1, <1>2, RowFacts DEF IInv, TypeOK
  <1> HIDE DEF row
  <1>4. /\ up[p] = "idle" /\ \A q \in Procs : Up(q)' <=> Up(q)
        /\ \A q \in Procs, i \in Ids :
             mem'[q][i] = IF q = p /\ i = id THEN row ELSE mem[q][i]
        /\ mem' \in [Procs -> [Ids -> Rows]]
        /\ up' \in [Procs -> Phases] /\ todo' \in [Procs -> SUBSET Ids]
        /\ ShapeInv'
        /\ \A r \in Roots : up'[r] \in {"idle", "saving"} => up[r] \in {"idle", "saving"}
    BY <1>1, <1>2, <1>3, WriteRows
  <1>5. \A q \in Procs, i \in Ids : mem'[q][i] # None =>
          mem[q][i] # None /\ mem'[q][i].made = mem[q][i].made
    BY <1>1, <1>2, <1>4
  <1>6. TypeOK'
    BY <1>1, <1>4 DEF IInv, TypeOK
  <1>7. BoundInv'
    BY <1>1, <1>5 DEF IInv, BoundInv
  <1>8. ChildInv'
    <2>1. \A d \in Children : d \in Procs /\ Parent[d] \in Procs
      BY MemoryAssumption DEF Procs
    <2>2. \A d \in Children, i \in Ids : child[d] = "new" /\ i.tag = d =>
            base[i] = None /\ \A q \in Procs : mem'[q][i] = None
      BY <1>5 DEF IInv, ChildInv
    <2>3. \A d \in Children : /\ child[d] # "orphan"
                              /\ Up(d)' <=> child[d] = "running"
                              /\ Up(d)' => Up(Parent[d])'
      BY <1>4, <2>1 DEF IInv, ChildInv
    <2> QED BY <1>1, <2>2, <2>3 DEF ChildInv
  <1>9. RowInv'
    <2> SUFFICES ASSUME NEW q \in Procs, NEW i \in Ids, mem'[q][i] # None
                 PROVE  (Fresh(q, i) \/ Known(q, i))'
      BY DEF RowInv
    <2>1. Fresh(q, i) \/ Known(q, i)
      BY <1>5 DEF IInv, RowInv
    <2>2. CASE q = p /\ i = id
      <3>1. CASE Fresh(p, id)
        BY <1>1, <1>2, <1>4, <2>2, <3>1 DEF Fresh, Tag
      <3>2. CASE Known(p, id)
        BY <1>1, <1>2, <1>4, <2>2, <3>2 DEF Known
      <3> QED BY <2>1, <2>2, <3>1, <3>2
    <2>3. CASE ~(q = p /\ i = id)
      BY <1>1, <1>4, <2>1, <2>3 DEF Fresh, Known, Tag
    <2> QED BY <2>2, <2>3
  <1>10. SameInv'
    BY <1>5 DEF IInv, SameInv
  <1>11. OwnerInv'
    BY <1>1, <1>4, <1>5 DEF IInv, OwnerInv, Tag
  <1>12. AgreeInv'
    <2> SUFFICES ASSUME NEW r \in Roots, NEW i \in Ids, Quiet(r)',
                        mem'[r][i] = None \/ mem'[r][i] = seen[r][i]
                 PROVE  /\ base[i].active => mem'[r][i] = base[i]
                        /\ mem'[r][i] # None => mem'[r][i] = base[i]
      BY <1>1 DEF AgreeInv
    <2>1. Quiet(r) /\ r \in Procs
      BY <1>1, <1>4 DEF Quiet, Procs
    <2>2. CASE r = p /\ i = id
      <3>1. row = seen[p][id]
        BY <1>3, <1>4, <2>2
      <3>2. ~old.active
        <4>1. Fresh(p, id) \/ Known(p, id)
          BY <1>1 DEF IInv, RowInv
        <4>2. old.active => old = row
          BY <1>3, <3>1, <4>1 DEF Fresh, Known
        <4> QED BY <1>2, <4>2
      <3> QED BY <1>2, <1>4, <2>1, <2>2, <3>1, <3>2 DEF IInv, AgreeInv
    <2>3. CASE ~(r = p /\ i = id)
      BY <1>4, <2>1, <2>3 DEF IInv, AgreeInv
    <2> QED BY <2>2, <2>3
  <1> QED BY <1>4, <1>6, <1>7, <1>8, <1>9, <1>10, <1>11, <1>12 DEF IInv

-----------------------------------------------------------------------------
LEMMA NextKeeps ==
  ASSUME Alone, IInv, [Next]_vars
  PROVE  IInv'
  <1>1. CASE Next
    BY <1>1, StartKeeps, CrashKeeps, RunChildKeeps, EndKeeps, ReturnKeeps, RememberKeeps,
       ReadKeeps, ForgetKeeps, SaveRowKeeps, SaveFailsKeeps DEF Next
  <1>2. CASE UNCHANGED vars
    <2>1. BoundInv' /\ RowInv' /\ SameInv'
      BY <1>2, DataKeeps DEF vars
    <2> QED BY <1>2, <2>1 DEF vars, IInv, TypeOK, ShapeInv, ChildInv, OwnerInv, AgreeInv,
          Quiet, Up, Tag
  <1> QED BY <1>1, <1>2

LEMMA Invariance ==
  ASSUME Alone
  PROVE  Spec => []IInv
  BY InitInv, NextKeeps, PTL DEF Spec

(* The base only changes when a row is saved.                              *)
LEMMA BaseSteps ==
  ASSUME IInv, [Next]_vars, base' # base
  PROVE  \E p \in Procs, id \in Ids :
           /\ id \in todo[p]
           /\ \A i \in Ids : base'[i] = IF i = id THEN mem[p][id] ELSE base[i]
  <1>1. PICK p \in Procs, id \in Ids : SaveRow(p, id)
    BY DEF Next, vars, Start, Crash, RunChild, End, Return, Remember, Read, Forget, SaveFails
  <1> QED BY <1>1 DEF SaveRow, IInv, TypeOK

(* The memory's state keeps its types.                                     *)
THEOREM TypeCorrect ==
  ASSUME Alone
  PROVE  Spec => []TypeOK
  <1>1. IInv => TypeOK BY DEF IInv
  <1> QED BY <1>1, Invariance, PTL

(* No entry in use is ever overwritten by another: a save writes an entry  *)
(* the base does not have or forgets the one it has.                       *)
THEOREM EntriesSafe ==
  ASSUME Alone
  PROVE  Spec => EntriesSurvive
  <1>1. ASSUME IInv, [Next]_vars
        PROVE  [\A id \in Ids : base[id].active =>
                  base'[id] \in {base[id], Forgotten(base[id])}]_vars
    <2> SUFFICES ASSUME NEW i \in Ids, base[i].active
                 PROVE  base'[i] \in {base[i], Forgotten(base[i])}
      OBVIOUS
    <2>1. CASE base' # base
      <3>1. PICK p \in Procs, id \in Ids :
              /\ id \in todo[p]
              /\ \A j \in Ids : base'[j] = IF j = id THEN mem[p][id] ELSE base[j]
        BY <1>1, <2>1, BaseSteps
      <3> QED BY <1>1, <3>1, WhatIsSaved DEF Fresh
    <2> QED BY <2>1
  <1> QED BY <1>1, Invariance, PTL DEF Spec, EntriesSurvive

(* What is forgotten in the base stays forgotten, whoever saves.           *)
THEOREM ForgottenStays ==
  ASSUME Alone
  PROVE  Spec => NoComeback
  <1>1. ASSUME IInv, [Next]_vars
        PROVE  [\A id \in Ids : base[id] # None /\ ~base[id].active =>
                  base'[id] = base[id] \/ base'[id].made > base[id].made]_vars
    <2> SUFFICES ASSUME NEW i \in Ids, base[i] # None, ~base[i].active
                 PROVE  base'[i] = base[i] \/ base'[i].made > base[i].made
      OBVIOUS
    <2>1. CASE base' # base
      <3>1. PICK p \in Procs, id \in Ids :
              /\ id \in todo[p]
              /\ \A j \in Ids : base'[j] = IF j = id THEN mem[p][id] ELSE base[j]
        BY <1>1, <2>1, BaseSteps
      <3>2. base[i].made \in Nat /\ mem[p][i].made \in Nat /\ Forgotten(base[i]) = base[i]
        BY <1>1, RowFacts DEF IInv, TypeOK
      <3> QED BY <1>1, <3>1, <3>2, WhatIsSaved DEF Fresh
    <2> QED BY <2>1
  <1> QED BY <1>1, Invariance, PTL DEF Spec, NoComeback

(* A running process only loses an entry by forgetting it.                 *)
THEOREM MemoryKeeps ==
  ASSUME Alone
  PROVE  Spec => MemoryOnlyForgets
  <1>1. ASSUME IInv, [Next]_vars
        PROVE  [\A p \in Procs, id \in Ids :
                  mem[p][id] # None /\ up[p] # "down" /\ up'[p] # "down" =>
                    mem'[p][id] \in {mem[p][id], Forgotten(mem[p][id])}]_vars
    <2> SUFFICES ASSUME NEW p \in Procs, NEW id \in Ids, mem[p][id] # None,
                        up[p] # "down", up'[p] # "down"
                 PROVE  mem'[p][id] \in {mem[p][id], Forgotten(mem[p][id])}
      OBVIOUS
    <2> USE <1>1
    <2>1. ASSUME NEW q \in Procs, up[q] = "down", Load(q)
          PROVE  mem'[p][id] = mem[p][id]
      BY <2>1 DEF Load, IInv, TypeOK
    <2>2. ASSUME NEW S \in SUBSET Procs, Cleared(S)
          PROVE  mem'[p][id] = mem[p][id]
      BY <2>2 DEF Cleared
    <2>3. CASE \E r \in Roots : Start(r) \/ Crash(r)
      BY <2>1, <2>2, <2>3 DEF Start, Crash, Procs
    <2>4. CASE \E c \in Children : RunChild(c) \/ End(c) \/ Return(c)
      <3>1. ASSUME NEW c \in Children, RunChild(c) PROVE up[c] = "down" /\ Load(c) /\ c \in Procs
        BY <3>1 DEF RunChild, IInv, ChildInv, Up, Procs
      <3>2. ASSUME NEW c \in Children, End(c) PROVE Cleared({c}) /\ {c} \in SUBSET Procs
        BY <3>2 DEF End, Procs
      <3> QED BY <2>1, <2>2, <2>4, <3>1, <3>2 DEF Return
    <2>5. ASSUME NEW q \in Procs, Read(q)
          PROVE  mem'[p][id] \in {mem[p][id], Forgotten(mem[p][id])}
      BY <2>5, ReadRows, TakenIsOurs
    <2>6. ASSUME NEW q \in Procs, Remember(q)
          PROVE  mem'[p][id] = mem[p][id]
      <3>1. up[q] = "idle" /\ q \in Procs
        BY <2>6 DEF Remember, Write
      <3>2. mem' = [mem EXCEPT ![q][[n |-> counter[q] + 1, tag |-> Tag(q)]] =
                      [made |-> made + 1, active |-> TRUE]]
        BY <2>6 DEF Remember, Write
      <3>3. CASE q = p /\ id = [n |-> counter[q] + 1, tag |-> Tag(q)]
        <4>1. id.tag = Tag(p) /\ id.n = counter[p] + 1 /\ counter[p] \in Nat
          BY <3>3 DEF IInv, TypeOK
        <4>2. id.n <= counter[p]
          BY <3>1, <4>1 DEF IInv, OwnerInv, Up
        <4> QED BY <4>1, <4>2
      <3>4. CASE ~(q = p /\ id = [n |-> counter[q] + 1, tag |-> Tag(q)])
        BY <3>2, <3>4 DEF IInv, TypeOK
      <3> QED BY <3>3, <3>4
    <2>7. ASSUME NEW q \in Procs, NEW i \in Ids, Forget(q, i) \/ SaveRow(q, i) \/ SaveFails(q, i)
          PROVE  mem'[p][id] \in {mem[p][id], Forgotten(mem[p][id])}
      BY <2>7 DEF Forget, Write, SaveRow, SaveFails, IInv, TypeOK
    <2>8. CASE UNCHANGED vars
      BY <2>8 DEF vars
    <2> QED BY <2>3, <2>4, <2>5, <2>6, <2>7, <2>8 DEF Next
  <1> QED BY <1>1, Invariance, PTL DEF Spec, MemoryOnlyForgets

(* A root that is idle, with all its children back and nothing to save,    *)
(* holds what the base holds.                                              *)
THEOREM QuietCorrect ==
  ASSUME Alone
  PROVE  Spec => []QuietAgrees
  <1>1. IInv => QuietAgrees
    <2> SUFFICES ASSUME IInv, NEW r \in Roots, up[r] = "idle", Pending(r, mem[r]) = {},
                        \A c \in Children : child[c] \in {"new", "back"}, NEW id \in Ids
                 PROVE  /\ base[id].active => mem[r][id] = base[id]
                        /\ mem[r][id] # None => mem[r][id] = base[id]
      BY DEF QuietAgrees
    <2>1. mem[r][id] = None \/ mem[r][id] = seen[r][id]
      BY DEF Pending
    <2> QED BY <2>1 DEF IInv, AgreeInv, Quiet
  <1> QED BY <1>1, Invariance, PTL
=============================================================================
