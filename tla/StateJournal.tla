---------------------------- MODULE StateJournal ----------------------------
(***************************************************************************)
(* The store that the handlers of one `serve` share (state_set, state_incr *)
(* ... in synsema-runtime/src/serve.rs) and the journal with which an      *)
(* entry that the flow check cuts takes back what it wrote.  The journal   *)
(* is local to the worker's thread; every builtin and the undo run under   *)
(* the store's lock.                                                       *)
(*                                                                         *)
(* Agents and the top level write too, from threads without a journal:     *)
(* Outside.  A value is a number or a text.                                *)
(***************************************************************************)
EXTENDS Integers

CONSTANTS Request,      \* entries of serve, each run once
          Outside,
          Key, Absent,
          Text,         \* values that are not numbers
          Writes,       \* Writes[a]: what a may pass to state_set
          Step,         \* what may be passed to state_incr
          MaxOps        \* MaxOps[a]: bound on the operations of a

Actor == Request \cup {Outside}
Value == Int \cup Text
Held == Value \cup {Absent}

ASSUME StateAssumption ==
    /\ Outside \notin Request
    /\ Absent \notin Value /\ Text \cap Int = {}
    /\ Writes \in [Actor -> SUBSET Value]
    /\ Step \subseteq Int
    /\ MaxOps \in [Actor -> Nat]

VARIABLES store,        \* SharedState
          journal,      \* journal[r][k]: the entry of STATE_JOURNAL for k
          pc,           \* pc[r]: idle, open, confirmed, undone or panicked
          ops,          \* ops[a]: operations done
          (* What really happened, for the properties:                     *)
          contrib,      \* contrib[a][k]: the sum a added to k
          kept,         \* kept[k]: the sum all but the undone added to k
          counter,      \* counter[k]: only state_incr has touched k
          form,         \* form[r][k]: how r has changed k so far
          before,       \* before[r][k]: the value before r first set or deleted k, or
                        \* incremented it if it has only done that
          alone,        \* alone[r][k]: r has changed k, and nobody else since it first did
          writer        \* writer[k]: who last set, deleted or incremented k

history == <<contrib, kept, counter, form, before, alone, writer>>
stateVars == <<store, journal, pc, ops, history>>

(* The entries of the journal.                                             *)
NoEntry == [kind |-> "none"]
Delta(d) == [kind |-> "delta", by |-> d]
Absolute(prev, mine) == [kind |-> "absolute", prev |-> prev, mine |-> mine]

StateUndo ==
    {NoEntry} \cup [kind : {"delta"}, by : Int] \cup [kind : {"absolute"}, prev : Held, mine : Held]

IsNumber(v) == v \in Int
AsNumber(v) == IF IsNumber(v) THEN v ELSE 0

StateInit ==
    /\ store = [k \in Key |-> Absent]
    /\ journal = [r \in Request |-> [k \in Key |-> NoEntry]]
    /\ pc = [r \in Request |-> "idle"]
    /\ ops = [a \in Actor |-> 0]
    /\ contrib = [a \in Actor |-> [k \in Key |-> 0]]
    /\ kept = [k \in Key |-> 0]
    /\ counter = [k \in Key |-> TRUE]
    /\ before = [r \in Request |-> [k \in Key |-> Absent]]
    /\ form = [r \in Request |-> [k \in Key |-> "none"]]
    /\ alone = [r \in Request |-> [k \in Key |-> FALSE]]
    /\ writer = [k \in Key |-> Outside]

(* with_serve_interp arms the journal.                                     *)
Begin(r) ==
    /\ pc[r] = "idle"
    /\ pc' = [pc EXCEPT ![r] = "open"]
    /\ journal' = [journal EXCEPT ![r] = [k \in Key |-> NoEntry]]
    /\ UNCHANGED <<store, ops, history>>

(* A thread without a journal writes nothing down.                         *)
Noted(a, k, entry) ==
    journal' = IF a \in Request THEN [journal EXCEPT ![a][k] = entry] ELSE journal

Entry(a, k) == IF a \in Request THEN journal[a][k] ELSE NoEntry

Acts(a) ==
    /\ a \in Request => pc[a] = "open"
    /\ ops[a] < MaxOps[a]
    /\ ops' = [ops EXCEPT ![a] = @ + 1]
    /\ UNCHANGED pc

(* "incr": only increments.  "set": any mix that ends with state_set or    *)
(* state_delete.  "stray": a mix that ends with an increment.              *)
Form == {"none", "incr", "set", "stray"}

(* History: actor a changes k, by an increment (delta) or not.             *)
Touched(a, k, delta) ==
    /\ writer' = [writer EXCEPT ![k] = a]
    /\ before' = [r \in Request |-> IF r = a /\ form[r][k] \in (IF delta THEN {"none"}
                                                                ELSE {"none", "incr"})
                                    THEN [before[r] EXCEPT ![k] = store[k]] ELSE before[r]]
    /\ alone' = [r \in Request |->
                    [alone[r] EXCEPT ![k] = r = a /\ (form[r][k] = "none" \/ @)]]
    /\ form' = IF a \notin Request THEN form
               ELSE [form EXCEPT ![a][k] = IF ~delta THEN "set"
                                           ELSE IF @ \in {"none", "incr"} THEN "incr" ELSE "stray"]

(* journal_state_write: the value before is kept from the first absolute   *)
(* write on, the value left is that of the last.                           *)
(* Mutant: the value before is taken again at each write.                   *)
NotedWriteLast(e, now, mine) == Absolute(now, mine)

NotedWrite(e, now, mine) ==
    IF e.kind = "absolute" THEN Absolute(e.prev, mine) ELSE Absolute(now, mine)

(* v: state_set, state_merge, a state_cas that succeeds; Absent:           *)
(* state_delete.                                                           *)
Change(a, k, v) ==
    /\ Acts(a)
    /\ store' = [store EXCEPT ![k] = v]
    /\ Noted(a, k, NotedWrite(Entry(a, k), store[k], v))
    /\ counter' = [counter EXCEPT ![k] = FALSE]
    /\ Touched(a, k, FALSE)
    /\ UNCHANGED <<contrib, kept>>

Set(a, k) == \E v \in Writes[a] : Change(a, k, v)

Delete(a, k) == Change(a, k, Absent)

(* journal_state_incr.                                                     *)
(* Mutant: each increment replaces the one before.                          *)
NotedIncrLast(e, d) == IF e.kind = "absolute" THEN e ELSE Delta(d)

NotedIncr(e, d) ==
    CASE e.kind = "none" -> Delta(d)
      [] e.kind = "delta" -> Delta(e.by + d)
      [] e.kind = "absolute" -> e

Incr(a, k, d) ==
    /\ Acts(a)
    /\ store' = [store EXCEPT ![k] = AsNumber(@) + d]
    /\ Noted(a, k, NotedIncr(Entry(a, k), d))
    /\ contrib' = [contrib EXCEPT ![a][k] = @ + d]
    /\ kept' = [kept EXCEPT ![k] = @ + d]
    /\ Touched(a, k, TRUE)
    /\ UNCHANGED counter

(* finish_state_journal: the value of a key after its entry is undone.     *)
(* Mutant: the value before a set comes back whatever is there now.         *)
UndoneBlindly(e, now) ==
    CASE e.kind = "none" -> now
      [] e.kind = "delta" -> IF IsNumber(now) THEN now - e.by ELSE now
      [] e.kind = "absolute" -> e.prev

Undone(e, now) ==
    CASE e.kind = "none" -> now
      [] e.kind = "delta" -> IF IsNumber(now) THEN now - e.by ELSE now
      [] e.kind = "absolute" -> IF now = e.mine THEN e.prev ELSE now

Confirm(r) ==
    /\ pc[r] = "open"
    /\ pc' = [pc EXCEPT ![r] = "confirmed"]
    /\ UNCHANGED <<store, journal, ops, history>>

Undo(r) ==
    /\ pc[r] = "open"
    /\ pc' = [pc EXCEPT ![r] = "undone"]
    /\ store' = [k \in Key |-> Undone(journal[r][k], store[k])]
    /\ kept' = [k \in Key |-> kept[k] - contrib[r][k]]
    /\ alone' = [s \in Request |-> [k \in Key |-> alone[s][k] /\ store'[k] = store[k]]]
    /\ UNCHANGED <<journal, ops, contrib, counter, form, before, writer>>

(* The handler unwinds past finish_state_journal: the next entry on this   *)
(* thread throws the journal away.                                         *)
Unwind(r) ==
    /\ pc[r] = "open"
    /\ pc' = [pc EXCEPT ![r] = "panicked"]
    /\ UNCHANGED <<store, journal, ops, history>>

StateNext ==
    \/ \E r \in Request : Begin(r) \/ Confirm(r) \/ Undo(r) \/ Unwind(r)
    \/ \E a \in Actor, k \in Key : Set(a, k) \/ Delete(a, k) \/ \E d \in Step : Incr(a, k, d)

StateSpec == StateInit /\ [][StateNext]_stateVars

-----------------------------------------------------------------------------
(* The store and the journals have their types, and a request that has not *)
(* begun has written nothing down.                                         *)
StateTypeOK ==
    /\ store \in [Key -> Held]
    /\ journal \in [Request -> [Key -> StateUndo]]
    /\ pc \in [Request -> {"idle", "open", "confirmed", "undone", "panicked"}]
    /\ \A r \in Request, k \in Key : pc[r] = "idle" => journal[r][k] = NoEntry

(* A key that is only incremented holds exactly the sum of what the        *)
(* requests that were not undone added, in every interleaving of their     *)
(* increments and undos.                                                   *)
CounterExact == \A k \in Key : counter[k] => AsNumber(store[k]) = kept[k]

Undoes(r) == pc[r] = "open" /\ pc'[r] = "undone"

(* On a key nobody else changed meanwhile, the undo of a request that has  *)
(* only incremented it leaves the number it was (nothing and a text count  *)
(* as 0); after a mix of state_set, state_delete and state_incr that ends  *)
(* with a set or a delete it gives back the value from before the first of *)
(* these (journal_state_write gives up the increments before it).  After a *)
(* mix that ends with an increment, the value is not given back: see       *)
(* MixIsUndone.                                                            *)
UndoRestores ==
    [][\A r \in Request, k \in Key :
          Undoes(r) /\ alone[r][k] /\ form[r][k] # "stray" =>
              store'[k] = IF form[r][k] = "incr" THEN AsNumber(before[r][k])
                          ELSE before[r][k]]_stateVars

(* What journal_state_incr's comment says of that mix: the key is undone   *)
(* like any other that was set.  It does not hold: `mine' is not brought   *)
(* up to date, and the undo leaves what the request wrote.                 *)
MixIsUndone ==
    [][\A r \in Request, k \in Key :
          Undoes(r) /\ alone[r][k] /\ form[r][k] = "stray"
              => store'[k] = before[r][k]]_stateVars

(* No undo takes away a text that someone else set and the request could   *)
(* not have.                                                               *)
ForeignTextSurvives ==
    [][\A r \in Request, k \in Key :
          Undoes(r) /\ writer[k] # r /\ store[k] \in Text \ Writes[r]
              => store'[k] = store[k]]_stateVars

(* No undo changes a key whose value another request set or deleted, last  *)
(* of all, and confirmed.                                                  *)
UndoSparesOthers ==
    [][\A r, s \in Request, k \in Key :
          /\ Undoes(r)
          /\ pc[s] = "confirmed" /\ writer[k] = s /\ journal[s][k].kind = "absolute"
          => store'[k] = store[k]]_stateVars
==============================================================================
