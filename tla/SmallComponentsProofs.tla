----------------------- MODULE SmallComponentsProofs -----------------------
(***************************************************************************)
(* Proofs about three components of serve that share no state: the cron    *)
(* scheduler, the shared state of the program with its undo journal, and   *)
(* the event bus.  Each is its own module; none uses another's assumption. *)
(***************************************************************************)
EXTENDS Cron, StateJournal, Bus, FiniteSetTheorems, SequenceTheorems, WellFoundedInduction,
        TLAPS

-----------------------------------------------------------------------------
(* Proofs about Cron, for any jobs, names and ticks.  TableInv says what   *)
(* the table may hold, ThreadInv where a job without a thread is, and      *)
(* OverlapInv which registrations overlapped.                              *)

(* The variables without the bounds of the counters.                       *)
Types ==
    /\ jobs \in [Name -> Job \cup {NoJob}]
    /\ started \in BOOLEAN
    /\ phase \in [Job -> Phase]
    /\ name \in [Job -> Name]
    /\ repeats \in [Job -> BOOLEAN]
    /\ cancelled \in [Job -> BOOLEAN]
    /\ threads \in [Job -> Nat]
    /\ runCount \in [Job -> Nat] /\ errors \in [Job -> Nat]

(* A tick is counted once, when its task ends.                             *)
TicksInv ==
    \A j \in Job :
        /\ runCount[j] + errors[j] <= MaxTicks
        /\ phase[j] = "running" => runCount[j] + errors[j] < MaxTicks

(* A job is in the table under its own name, once it is inserted and until *)
(* it is cancelled; it is pending only there, and before the start.        *)
TableInv ==
    /\ \A n \in Name : jobs[n] # NoJob =>
           /\ name[jobs[n]] = n
           /\ phase[jobs[n]] \notin {"none", "registering"}
           /\ ~cancelled[jobs[n]]
    /\ \A j \in Job :
           /\ phase[j] = "pending" => ~started /\ jobs[name[j]] = j
           /\ phase[j] \in {"none", "registering"} => ~cancelled[j]

(* One thread, from the moment the job is no longer pending.               *)
ThreadInv ==
    \A j \in Job :
        /\ phase[j] \in {"none", "registering", "pending"} => threads[j] = 0
        /\ threads[j] <= 1

(* The inductive invariant of the scheduler.                               *)
CronIInv == Types /\ TicksInv /\ TableInv /\ ThreadInv

(* Who was overlapped: while j is inside schedule(), whatever the table    *)
(* holds under its name was inserted meanwhile, as j had emptied the       *)
(* place.                                                                  *)
OverlapInv ==
    /\ during \in [Job -> SUBSET Job]
    /\ \A j \in Registering : jobs[name[j]] # NoJob => j \in during[jobs[name[j]]]
    /\ OrphansOverlapped

-----------------------------------------------------------------------------
(* It holds before the first job is registered.                            *)
LEMMA CronInitInv == CronInit => CronIInv
  BY CronAssumption DEF CronInit, CronIInv, Types, TicksInv, TableInv, ThreadInv, Phase

(* schedule() up to the insertion preserves it.                            *)
LEMMA RegisterKeeps ==
  ASSUME CronIInv, NEW j \in Job, Register(j)
  PROVE  CronIInv'
  <1> USE CronAssumption DEF CronIInv, Register, CancelName, Dropped
  <1>1. Types' BY DEF Types, Phase
  <1>2. TicksInv' BY DEF Types, TicksInv
  <1>3. TableInv' BY DEF Types, TableInv
  <1>4. ThreadInv' BY DEF Types, TableInv, ThreadInv
  <1> QED BY <1>1, <1>2, <1>3, <1>4

(* The insertion into the table preserves it.                              *)
LEMMA InsertKeeps ==
  ASSUME CronIInv, NEW j \in Job, Insert(j)
  PROVE  CronIInv'
  <1> USE CronAssumption DEF CronIInv, Insert, Dropped
  <1>1. Types' BY DEF Types, Phase
  <1>2. TicksInv' BY DEF Types, TicksInv
  <1>3. TableInv' BY DEF Types, TableInv
  <1>4. ThreadInv' BY DEF Types, TableInv, ThreadInv
  <1> QED BY <1>1, <1>2, <1>3, <1>4

(* start(), which gives every pending job a thread, preserves it.          *)
LEMMA StartKeeps ==
  ASSUME CronIInv, Start
  PROVE  CronIInv'
  <1> USE CronAssumption DEF CronIInv, Start
  <1>1. Types' BY DEF Types, Phase
  <1>2. TicksInv' BY DEF Types, TicksInv
  <1>3. TableInv' BY DEF Types, TableInv
  <1>4. ThreadInv' BY DEF Types, TableInv, ThreadInv
  <1> QED BY <1>1, <1>2, <1>3, <1>4

(* cancel() of one name preserves it.                                      *)
LEMMA CancelKeeps ==
  ASSUME CronIInv, NEW n \in Name, Cancel(n)
  PROVE  CronIInv'
  <1> USE CronAssumption DEF CronIInv, Cancel, CancelName, Dropped
  <1>1. Types' BY DEF Types, Phase
  <1>2. TicksInv' BY DEF Types, TicksInv
  <1>3. TableInv' BY DEF Types, TableInv
  <1>4. ThreadInv' BY DEF Types, TableInv, ThreadInv
  <1> QED BY <1>1, <1>2, <1>3, <1>4

(* cancel_all() preserves it.                                              *)
LEMMA CancelAllKeeps ==
  ASSUME CronIInv, CancelAll
  PROVE  CronIInv'
  <1> USE CronAssumption DEF CronIInv, CancelAll, Dropped
  <1>1. Types' BY DEF Types, Phase
  <1>2. TicksInv' BY DEF Types, TicksInv
  <1>3. TableInv' BY DEF Types, TableInv
  <1>4. ThreadInv' BY DEF Types, TableInv, ThreadInv
  <1> QED BY <1>1, <1>2, <1>3, <1>4

(* A step of a job's thread preserves it.                                  *)
LEMMA ThreadKeeps ==
  ASSUME CronIInv, NEW j \in Job, Thread(j)
  PROVE  CronIInv'
  <1> USE CronAssumption DEF CronIInv, Thread, Quit, Fire, TaskEnds
  <1>1. Types' BY DEF Types, Phase
  <1>2. TicksInv' BY DEF Types, TicksInv
  <1>3. TableInv' BY DEF Types, TableInv
  <1>4. ThreadInv' BY DEF Types, ThreadInv
  <1> QED BY <1>1, <1>2, <1>3, <1>4

(* Every behaviour of the scheduler keeps it.                              *)
LEMMA CronInvariance == CronSpec => []CronIInv
  <1>1. ASSUME CronIInv, [CronNext]_cronVars PROVE CronIInv'
    <2>1. CASE CronNext
      BY <1>1, <2>1, RegisterKeeps, InsertKeeps, StartKeeps, CancelKeeps, CancelAllKeeps,
         ThreadKeeps DEF CronNext
    <2>2. CASE UNCHANGED cronVars
      BY <1>1, <2>2 DEF cronVars, CronIInv, Types, TicksInv, TableInv, ThreadInv
    <2> QED BY <1>1, <2>1, <2>2
  <1> QED BY <1>1, CronInitInv, PTL DEF CronSpec

(* The table, the flags and the counters keep their types.                 *)
THEOREM CronTypeCorrect == CronSpec => []CronTypeOK
  <1>1. CronIInv => CronTypeOK
    BY DEF CronIInv, Types, TicksInv, CronTypeOK
  <1> QED BY <1>1, CronInvariance, PTL

(* However registrations, cancellations and start() interleave, no job of  *)
(* the table is left pending and none gets a second thread.                *)
THEOREM StartsOnce == CronSpec => []StartedOnce
  <1>1. CronIInv => StartedOnce
    <2> SUFFICES ASSUME CronIInv PROVE StartedOnce
      OBVIOUS
    <2>1. \A n \in Name : jobs[n] # NoJob => jobs[n] \in Job
      BY DEF CronIInv, Types
    <2> QED BY <2>1 DEF CronIInv, TableInv, ThreadInv, StartedOnce
  <1> QED BY <1>1, CronInvariance, PTL

-----------------------------------------------------------------------------
(* A registration that enters schedule() cancels the job it takes out of    *)
(* the table, so that it orphans nobody.                                    *)
LEMMA RegisterOverlap ==
  ASSUME CronIInv, OverlapInv, NEW j \in Job, Register(j)
  PROVE  OverlapInv'
  <1> USE CronAssumption DEF CronIInv, Types
  <1>1. /\ \A k \in Job \ {j} : phase'[k] = phase[k] \/ (phase[k] = "pending" /\ phase'[k] = "over")
        /\ phase[j] = "none" /\ phase'[j] = "registering" /\ UNCHANGED <<name, during>>
    BY DEF Register, Dropped
  <1>2. /\ jobs' = [jobs EXCEPT ![name[j]] = NoJob]
        /\ \A k \in Job : cancelled'[k] = (cancelled[k] \/ k = jobs[name[j]])
    BY DEF Register, CancelName
  <1>3. \A k \in Registering' : jobs'[name'[k]] # NoJob => k \in during'[jobs'[name'[k]]]
    <2> SUFFICES ASSUME NEW k \in Job, phase'[k] = "registering", jobs'[name[k]] # NoJob
                 PROVE  k \in during[jobs'[name[k]]]
      BY <1>1 DEF Registering
    <2>1. name[k] # name[j] /\ k # j BY <1>2
    <2>2. jobs'[name[k]] = jobs[name[k]] BY <2>1, <1>2
    <2>3. k \in Registering BY <2>1, <1>1 DEF Registering
    <2> QED BY <2>2, <2>3 DEF OverlapInv
  <1>4. ASSUME NEW k \in Job, Orphan(k)'
        PROVE  \E i \in during[k] : phase'[i] \notin {"none", "registering"}
    <2>1. Alive(k) /\ ~cancelled[k] /\ k # jobs[name[j]]
      BY <1>1, <1>2, <1>4 DEF Orphan, Alive
    <2>2. jobs[name[k]] # k
      BY <2>1, <1>1, <1>2, <1>4 DEF Orphan
    <2>3. PICK i \in during[k] : phase[i] \notin {"none", "registering"}
      BY <2>1, <2>2 DEF OverlapInv, OrphansOverlapped, Orphan
    <2>4. i \in Job /\ i # j BY <2>3, <1>1 DEF OverlapInv
    <2> QED BY <2>3, <2>4, <1>1
  <1> QED BY <1>1, <1>3, <1>4 DEF OverlapInv, OrphansOverlapped

(* An insertion orphans at most the job it finds, which was inserted while *)
(* the registration was inside schedule().                                 *)
LEMMA InsertOverlap ==
  ASSUME CronIInv, OverlapInv, NEW j \in Job, Insert(j)
  PROVE  OverlapInv'
  <1> USE CronAssumption DEF CronIInv, Types
  <1>1. /\ \A k \in Job \ {j} : phase'[k] = phase[k] \/ (phase[k] = "pending" /\ phase'[k] = "over")
        /\ phase[j] = "registering" /\ phase'[j] \in {"waiting", "pending"}
        /\ UNCHANGED <<name, cancelled>>
    BY DEF Insert, Dropped
  <1>2. jobs' = [jobs EXCEPT ![name[j]] = j] /\ during' = [during EXCEPT ![j] = Rivals(j)]
    BY DEF Insert
  <1>3. during' \in [Job -> SUBSET Job]
    <2>1. Rivals(j) \in SUBSET Job BY DEF Rivals, Registering
    <2> QED BY <2>1, <1>2 DEF OverlapInv
  <1>4. ASSUME NEW k \in Job, phase'[k] = "registering", jobs'[name[k]] # NoJob
        PROVE  k \in during'[jobs'[name[k]]]
    <2>1. k # j /\ k \in Registering BY <1>1, <1>4 DEF Registering
    <2>2. CASE name[k] = name[j]
      <3>1. jobs'[name[k]] = j BY <2>2, <1>2
      <3>2. during'[j] = Rivals(j) BY <1>2 DEF OverlapInv
      <3> QED BY <2>1, <2>2, <3>1, <3>2 DEF Rivals
    <2>3. CASE name[k] # name[j]
      <3>1. jobs'[name[k]] = jobs[name[k]] BY <2>3, <1>2
      <3>2. jobs[name[k]] \in Job /\ name[jobs[name[k]]] = name[k]
        BY <3>1, <1>4 DEF TableInv
      <3>3. jobs[name[k]] # j BY <2>3, <3>2
      <3>4. during'[jobs[name[k]]] = during[jobs[name[k]]] BY <3>2, <3>3, <1>2 DEF OverlapInv
      <3> QED BY <2>1, <3>1, <3>4, <1>4 DEF OverlapInv
    <2> QED BY <2>2, <2>3
  <1>5. ASSUME NEW k \in Job, Orphan(k)'
        PROVE  \E i \in during'[k] : phase'[i] \notin {"none", "registering"}
    <2>1. k # j BY <1>1, <1>2, <1>5 DEF Orphan
    <2>2. during'[k] = during[k] /\ Alive(k) /\ ~cancelled[k]
      <3>1. during'[k] = during[k] BY <2>1, <1>2 DEF OverlapInv
      <3>2. Alive(k) /\ ~cancelled[k] BY <2>1, <1>1, <1>5 DEF Orphan, Alive
      <3> QED BY <3>1, <3>2
    <2>3. CASE jobs[name[k]] = k
      <3>1. name[k] = name[j] BY <2>3, <1>1, <1>2, <1>5 DEF Orphan
      <3>2. j \in during[k] BY <2>3, <3>1, <1>1 DEF OverlapInv, Registering
      <3> QED BY <3>2, <2>2, <1>1
    <2>4. CASE jobs[name[k]] # k
      <3>1. PICK i \in during[k] : phase[i] \notin {"none", "registering"}
        BY <2>2, <2>4 DEF OverlapInv, OrphansOverlapped, Orphan
      <3>2. i \in Job /\ i # j BY <3>1, <1>1 DEF OverlapInv
      <3> QED BY <3>1, <3>2, <2>2, <1>1
    <2> QED BY <2>3, <2>4
  <1> QED BY <1>1, <1>3, <1>4, <1>5 DEF OverlapInv, OrphansOverlapped, Registering

(* Steps in which nobody enters or leaves schedule(): what they take out   *)
(* of the table they cancel.                                               *)
LEMMA OthersOverlap ==
  ASSUME CronIInv, OverlapInv,
         \/ Start \/ CancelAll \/ (\E n \in Name : Cancel(n)) \/ (\E j \in Job : Thread(j))
  PROVE  OverlapInv'
  <1> USE CronAssumption DEF CronIInv, Types
  <1>1. /\ UNCHANGED <<name, during>>
        /\ \A k \in Job :
              phase'[k] \in {"none", "registering"} <=> phase[k] \in {"none", "registering"}
        /\ \A k \in Job : phase'[k] = "registering" <=> phase[k] = "registering"
    BY DEF Start, CancelAll, Cancel, Dropped, Thread, Quit, Fire, TaskEnds
  <1>2. \A n \in Name : jobs'[n] = jobs[n] \/ jobs'[n] = NoJob
    BY DEF Start, CancelAll, Cancel, CancelName, Thread, Quit, Fire, TaskEnds
  <1>3. \A k \in Job : cancelled[k] => cancelled'[k]
    BY DEF Start, CancelAll, Cancel, CancelName, Thread, Quit, Fire, TaskEnds
  <1>4. ASSUME NEW k \in Job, jobs[name[k]] = k, jobs'[name[k]] # k PROVE cancelled'[k]
    <2>1. CASE Start BY <2>1, <1>4 DEF Start
    <2>2. CASE CancelAll BY <2>2, <1>4 DEF CancelAll
    <2>3. ASSUME NEW n \in Name, Cancel(n) PROVE cancelled'[k]
      BY <2>3, <1>4 DEF Cancel, CancelName
    <2>4. ASSUME NEW j \in Job, Thread(j) PROVE cancelled'[k]
      BY <2>4, <1>4 DEF Thread, Quit, Fire, TaskEnds
    <2> QED BY <2>1, <2>2, <2>3, <2>4
  <1>5. ASSUME NEW k \in Job, Orphan(k)'
        PROVE  \E i \in during[k] : phase'[i] \notin {"none", "registering"}
    <2>1. jobs[name[k]] # k /\ ~cancelled[k]
      BY <1>1, <1>3, <1>4, <1>5 DEF Orphan
    <2>2. Alive(k) \/ phase[k] = "pending"
      BY <1>5 DEF Orphan, Alive, Start, CancelAll, Cancel, Dropped, Thread, Quit, Fire, TaskEnds
    <2>3. Alive(k) BY <2>1, <2>2 DEF TableInv
    <2>4. PICK i \in during[k] : phase[i] \notin {"none", "registering"}
      BY <2>1, <2>3 DEF OverlapInv, OrphansOverlapped, Orphan
    <2>5. i \in Job BY <2>4 DEF OverlapInv
    <2> QED BY <2>4, <2>5, <1>1
  <1>6. \A k \in Registering' : jobs'[name'[k]] # NoJob => k \in during'[jobs'[name'[k]]]
    BY <1>1, <1>2 DEF OverlapInv, Registering
  <1> QED BY <1>1, <1>5, <1>6 DEF OverlapInv, OrphansOverlapped

(* Whatever registrations, cancellations and start() interleave, with any  *)
(* number of threads inside schedule(): a job that may still fire is in    *)
(* the table, or it was inserted while a registration that took its place  *)
(* afterwards was between the two lock sections of schedule().  No other   *)
(* order of calls loses a job.                                             *)
THEOREM OrphansOnlyByOverlap == CronSpec => []OrphansOverlapped
  <1>1. ASSUME CronIInv, OverlapInv, [CronNext]_cronVars PROVE OverlapInv'
    <2>1. CASE CronNext
      BY <1>1, <2>1, RegisterOverlap, InsertOverlap, OthersOverlap DEF CronNext
    <2>2. CASE UNCHANGED cronVars
      BY <1>1, <2>2 DEF cronVars, OverlapInv, Registering, OrphansOverlapped, Orphan, Alive
    <2> QED BY <1>1, <2>1, <2>2
  <1>2. CronInit => OverlapInv
    BY DEF CronInit, OverlapInv, Registering, OrphansOverlapped, Orphan, Alive
  <1>3. OverlapInv => OrphansOverlapped
    BY DEF OverlapInv
  <1> QED BY <1>1, <1>2, <1>3, CronInvariance, PTL DEF CronSpec

-----------------------------------------------------------------------------
(* Proofs about StateJournal, for any requests, keys, texts and steps.     *)
(* The invariant says what an entry of the journal stands for: on a key    *)
(* that is only incremented it is the sum its request added (DeltaInv);    *)
(* its kind follows from how the request changed the key, and its `prev'   *)
(* is the value before the first set or delete (FormInv); on a key nobody  *)
(* else changed it leads from the value now to the value before, unless an *)
(* increment followed a set (AloneInv).                                    *)

(* The types of the bookkeeping variables.                                 *)
HistoryType ==
    /\ ops \in [Actor -> Nat]
    /\ contrib \in [Actor -> [Key -> Int]]
    /\ kept \in [Key -> Int]
    /\ counter \in [Key -> BOOLEAN]
    /\ before \in [Request -> [Key -> Held]]
    /\ form \in [Request -> [Key -> Form]]
    /\ alone \in [Request -> [Key -> BOOLEAN]]
    /\ writer \in [Key -> Actor]

(* What request r's delta adds to key k.                                   *)
Added(r, k) == IF journal[r][k].kind = "delta" THEN journal[r][k].by ELSE 0

(* A key that is only incremented is the sum kept, and each request's      *)
(* entry is what that request contributed.                                 *)
DeltaInv ==
    \A k \in Key : counter[k] =>
        /\ store[k] \in Int \cup {Absent}
        /\ AsNumber(store[k]) = kept[k]
        /\ \A r \in Request : /\ journal[r][k].kind # "absolute"
                              /\ contrib[r][k] = Added(r, k)
                              /\ store[k] = Absent => journal[r][k] = NoEntry

(* The entry of a key follows the operations of its request, whatever      *)
(* others do to the key.                                                   *)
FormInv ==
    \A r \in Request, k \in Key :
        /\ form[r][k] = "none" => journal[r][k] = NoEntry
        /\ form[r][k] = "incr" => journal[r][k].kind = "delta"
        /\ form[r][k] \in {"set", "stray"} => /\ journal[r][k].kind = "absolute"
                                             /\ journal[r][k].prev = before[r][k]

(* The entry of r for k matches the value now.                             *)
LeadsBack(r, k) ==
    /\ form[r][k] # "none"
    /\ form[r][k] = "incr" => store[k] = AsNumber(before[r][k]) + journal[r][k].by
    /\ form[r][k] = "set" => store[k] = journal[r][k].mine

(* It does where nobody else has changed the key.                          *)
AloneInv == \A r \in Request, k \in Key : alone[r][k] => LeadsBack(r, k)

(* The inductive invariant of the shared state.                            *)
StateIInv == StateTypeOK /\ HistoryType /\ DeltaInv /\ FormInv /\ AloneInv

(* An entry is of one of three kinds, and its fields have their types.     *)
LEMMA EntryKinds ==
  ASSUME NEW e \in StateUndo
  PROVE  \/ e = NoEntry /\ e.kind = "none"
         \/ e.kind = "delta" /\ e.by \in Int
         \/ e.kind = "absolute" /\ e.prev \in Held /\ e.mine \in Held
  BY DEF StateUndo, NoEntry

(* Both ways of noting give an entry.                                      *)
LEMMA NotedIncrType ==
  ASSUME NEW e \in StateUndo, NEW d \in Int
  PROVE  /\ NotedIncr(e, d) \in StateUndo
         /\ e.kind = "absolute" => NotedIncr(e, d) = e
         /\ e.kind # "absolute" => /\ NotedIncr(e, d).kind = "delta"
                                   /\ NotedIncr(e, d).by = (IF e.kind = "delta" THEN e.by ELSE 0) + d
  <1>1. CASE e = NoEntry
    BY <1>1 DEF NotedIncr, NoEntry, Delta, StateUndo
  <1>2. CASE e.kind = "delta" /\ e.by \in Int
    BY <1>2 DEF NotedIncr, Delta, StateUndo
  <1>3. CASE e.kind = "absolute"
    BY <1>3 DEF NotedIncr
  <1> QED BY <1>1, <1>2, <1>3, EntryKinds

(* An absolute write keeps the value before the first.                     *)
LEMMA NotedWriteType ==
  ASSUME NEW e \in StateUndo, NEW now \in Held, NEW v \in Held
  PROVE  /\ NotedWrite(e, now, v) \in StateUndo
         /\ NotedWrite(e, now, v).kind = "absolute"
         /\ NotedWrite(e, now, v).mine = v
         /\ NotedWrite(e, now, v).prev = IF e.kind = "absolute" THEN e.prev ELSE now
  BY EntryKinds DEF NotedWrite, Absolute, StateUndo

(* Undoing keeps the type.                                                 *)
LEMMA UndoneType ==
  ASSUME NEW e \in StateUndo, NEW now \in Held
  PROVE  Undone(e, now) \in Held
  BY EntryKinds DEF Undone, IsNumber, Held, Value

(* The invariant holds before the first request.                           *)
LEMMA StateInitInv == StateInit => StateIInv
  <1> SUFFICES ASSUME StateInit PROVE StateIInv
    OBVIOUS
  <1> USE DEF StateInit
  <1>1. StateTypeOK BY DEF StateTypeOK, Held, StateUndo
  <1>2. HistoryType BY DEF HistoryType, Actor, Held, Form
  <1>3. DeltaInv
    BY StateAssumption DEF DeltaInv, Added, NoEntry, AsNumber, IsNumber, Value, Actor
  <1>4. FormInv BY DEF FormInv
  <1>5. AloneInv BY DEF AloneInv
  <1> QED BY <1>1, <1>2, <1>3, <1>4, <1>5 DEF StateIInv

(* state_set, state_merge, state_cas and state_delete preserve it.         *)
LEMMA ChangeKeeps ==
  ASSUME StateIInv, NEW a \in Actor, NEW k \in Key, NEW v \in Held, Change(a, k, v)
  PROVE  StateIInv'
  <1> USE DEF StateIInv, StateTypeOK, HistoryType
  <1>9. \A r \in Request, j \in Key : journal[r][j] \in StateUndo /\ store[j] \in Held
    OBVIOUS
  <1>0. ops' \in [Actor -> Nat] /\ UNCHANGED pc /\ (a \in Request => pc[a] = "open")
    BY DEF Change, Acts
  <1>1. store' = [store EXCEPT ![k] = v] /\ store' \in [Key -> Held]
    BY DEF Change
  <1>2. /\ \A r \in Request, j \in Key : ~(r = a /\ j = k) => journal'[r][j] = journal[r][j]
        /\ a \in Request => journal'[a][k] = NotedWrite(journal[a][k], store[k], v)
        /\ journal' \in [Request -> [Key -> StateUndo]]
    <2>1. a \in Request => NotedWrite(journal[a][k], store[k], v) \in StateUndo
      BY NotedWriteType
    <2> QED BY <2>1 DEF Change, Noted, Entry
  <1>3. /\ before' \in [Request -> [Key -> Held]]
        /\ \A r \in Request, j \in Key :
              before'[r][j] = IF r = a /\ j = k /\ form[a][k] \in {"none", "incr"}
                              THEN store[k] ELSE before[r][j]
    BY DEF Change, Touched
  <1>4. /\ alone' \in [Request -> [Key -> BOOLEAN]]
        /\ \A r \in Request, j \in Key : alone'[r][j] =>
              \/ j # k /\ alone[r][j]
              \/ j = k /\ r = a
    BY DEF Change, Touched
  <1>a. /\ form' \in [Request -> [Key -> Form]]
        /\ \A r \in Request, j \in Key :
              form'[r][j] = IF r = a /\ j = k THEN "set" ELSE form[r][j]
    BY DEF Change, Touched, Form
  <1>5. StateTypeOK'
    <2>1. ASSUME NEW r \in Request, NEW j \in Key, pc'[r] = "idle"
          PROVE  journal'[r][j] = NoEntry
      <3>1. pc[r] = "idle" BY <2>1, <1>0
      <3>2. journal[r][j] = NoEntry BY <3>1
      <3>3. r # a BY <3>1, <1>0
      <3> QED BY <3>2, <3>3, <1>2
    <2> QED BY <2>1, <1>0, <1>1, <1>2
  <1>6. HistoryType'
    BY <1>0, <1>3, <1>4, <1>a DEF Change, Touched
  <1>7. DeltaInv'
    BY <1>1, <1>2 DEF Change, DeltaInv, Added
  <1>b. a \in Request => /\ journal'[a][k].kind = "absolute"
                         /\ journal'[a][k].mine = v
                         /\ journal'[a][k].prev = IF journal[a][k].kind = "absolute"
                                                  THEN journal[a][k].prev ELSE store[k]
    BY <1>2, <1>9, NotedWriteType
  <1>8. FormInv'
    <2> SUFFICES ASSUME NEW r \in Request, NEW j \in Key
                 PROVE  /\ form'[r][j] = "none" => journal'[r][j] = NoEntry
                        /\ form'[r][j] = "incr" => journal'[r][j].kind = "delta"
                        /\ form'[r][j] \in {"set", "stray"} =>
                              /\ journal'[r][j].kind = "absolute"
                              /\ journal'[r][j].prev = before'[r][j]
      BY DEF FormInv
    <2>1. CASE ~(r = a /\ j = k)
      BY <2>1, <1>2, <1>3, <1>a DEF FormInv
    <2>2. CASE r = a /\ j = k /\ form[a][k] \in {"none", "incr"}
      <3>1. journal[a][k].kind # "absolute" BY <2>2 DEF FormInv, NoEntry
      <3> QED BY <2>2, <3>1, <1>3, <1>a, <1>b
    <2>3. CASE r = a /\ j = k /\ form[a][k] \in {"set", "stray"}
      <3>1. journal[a][k].kind = "absolute" /\ journal[a][k].prev = before[a][k]
        BY <2>3 DEF FormInv
      <3> QED BY <2>3, <3>1, <1>3, <1>a, <1>b
    <2>4. r = a /\ j = k => form[a][k] \in {"none", "incr", "set", "stray"}
      BY DEF Form
    <2> QED BY <2>1, <2>2, <2>3, <2>4
  <1>c. AloneInv'
    <2> SUFFICES ASSUME NEW r \in Request, NEW j \in Key, alone'[r][j]
                 PROVE  LeadsBack(r, j)'
      BY DEF AloneInv
    <2>1. CASE j # k
      <3>1. LeadsBack(r, j) BY <2>1, <1>4 DEF AloneInv
      <3> QED BY <2>1, <3>1, <1>1, <1>2, <1>3, <1>a DEF LeadsBack
    <2>2. CASE j = k
      <3>1. r = a BY <2>2, <1>4
      <3> QED BY <2>2, <3>1, <1>1, <1>a, <1>b DEF LeadsBack
    <2> QED BY <2>1, <2>2
  <1> QED BY <1>5, <1>6, <1>7, <1>8, <1>c

(* state_incr preserves it.                                                *)
LEMMA IncrKeeps ==
  ASSUME StateIInv, NEW a \in Actor, NEW k \in Key, NEW d \in Int, Incr(a, k, d)
  PROVE  StateIInv'
  <1> USE DEF StateIInv, StateTypeOK, HistoryType
  <1>9. \A r \in Request, j \in Key : journal[r][j] \in StateUndo /\ store[j] \in Held
    OBVIOUS
  <1>0. ops' \in [Actor -> Nat] /\ UNCHANGED pc /\ (a \in Request => pc[a] = "open")
    BY DEF Incr, Acts
  <1>1. /\ AsNumber(store[k]) \in Int
        /\ store' = [store EXCEPT ![k] = AsNumber(store[k]) + d]
        /\ store' \in [Key -> Held]
    BY DEF Incr, AsNumber, IsNumber, Held, Value
  <1>2. /\ \A r \in Request, j \in Key : ~(r = a /\ j = k) => journal'[r][j] = journal[r][j]
        /\ a \in Request => journal'[a][k] = NotedIncr(journal[a][k], d)
        /\ journal' \in [Request -> [Key -> StateUndo]]
    <2>1. a \in Request => NotedIncr(journal[a][k], d) \in StateUndo
      BY NotedIncrType
    <2> QED BY <2>1 DEF Incr, Noted, Entry
  <1>3. /\ before' \in [Request -> [Key -> Held]]
        /\ \A r \in Request, j \in Key :
              before'[r][j] = IF r = a /\ j = k /\ form[a][k] = "none"
                              THEN store[k] ELSE before[r][j]
    BY DEF Incr, Touched
  <1>4. /\ alone' \in [Request -> [Key -> BOOLEAN]]
        /\ \A r \in Request, j \in Key : alone'[r][j] =>
              \/ j # k /\ alone[r][j]
              \/ j = k /\ r = a /\ (form[a][k] = "none" \/ alone[a][k])
    BY DEF Incr, Touched
  <1>a. /\ form' \in [Request -> [Key -> Form]]
        /\ \A r \in Request, j \in Key :
              form'[r][j] = IF r = a /\ j = k
                            THEN IF form[a][k] \in {"none", "incr"} THEN "incr" ELSE "stray"
                            ELSE form[r][j]
    BY DEF Incr, Touched, Form
  <1>5. StateTypeOK'
    <2>1. ASSUME NEW r \in Request, NEW j \in Key, pc'[r] = "idle"
          PROVE  journal'[r][j] = NoEntry
      <3>1. pc[r] = "idle" BY <2>1, <1>0
      <3>2. journal[r][j] = NoEntry BY <3>1
      <3>3. r # a BY <3>1, <1>0
      <3> QED BY <3>2, <3>3, <1>2
    <2> QED BY <2>1, <1>0, <1>1, <1>2
  <1>6. HistoryType'
    <2>1. contrib' \in [Actor -> [Key -> Int]] /\ kept' \in [Key -> Int]
      BY DEF Incr
    <2>2. counter' = counter /\ writer' \in [Key -> Actor]
      BY DEF Incr, Touched
    <2> QED BY <1>0, <1>3, <1>4, <1>a, <2>1, <2>2
  <1>7. DeltaInv'
    <2> SUFFICES ASSUME NEW j \in Key, counter'[j]
                 PROVE  /\ store'[j] \in Int \cup {Absent}
                        /\ AsNumber(store'[j]) = kept'[j]
                        /\ \A r \in Request : /\ journal'[r][j].kind # "absolute"
                                              /\ contrib'[r][j] = Added(r, j)'
                                              /\ store'[j] = Absent => journal'[r][j] = NoEntry
      BY DEF DeltaInv
    <2>1. counter[j] BY DEF Incr
    <2>2. CASE j # k
      BY <2>1, <2>2, <1>1, <1>2 DEF Incr, DeltaInv, Added
    <2>3. CASE j = k
      <3>1. store'[j] \in Int /\ store'[j] # Absent /\ store'[j] = kept'[j]
        BY <2>1, <2>3, <1>1, StateAssumption DEF Incr, DeltaInv, Value
      <3>2. ASSUME NEW r \in Request
            PROVE  journal'[r][j].kind # "absolute" /\ contrib'[r][j] = Added(r, j)'
        <4>1. journal[r][k].kind # "absolute" /\ contrib[r][k] = Added(r, k)
          BY <2>1, <2>3 DEF DeltaInv
        <4>2. CASE r # a
          BY <4>1, <4>2, <2>3, <1>2 DEF Incr, Added
        <4>3. CASE r = a
          <5>1. journal'[r][k] = NotedIncr(journal[r][k], d) BY <4>3, <1>2
          <5>2. /\ NotedIncr(journal[r][k], d).kind = "delta"
                /\ NotedIncr(journal[r][k], d).by = Added(r, k) + d
            <6>1. journal[r][k] \in StateUndo BY <1>9
            <6> QED BY <4>1, <6>1, NotedIncrType DEF Added
          <5>3. contrib'[r][k] = contrib[r][k] + d BY <4>3 DEF Incr
          <5> QED BY <4>1, <5>1, <5>2, <5>3, <2>3 DEF Added
        <4> QED BY <4>2, <4>3
      <3> QED BY <3>1, <3>2 DEF AsNumber, IsNumber
    <2> QED BY <2>2, <2>3
  <1>b. a \in Request =>
          /\ journal[a][k].kind = "absolute" => journal'[a][k] = journal[a][k]
          /\ journal[a][k].kind # "absolute" =>
                /\ journal'[a][k].kind = "delta"
                /\ journal'[a][k].by = Added(a, k) + d
    <2> SUFFICES ASSUME a \in Request
                 PROVE  /\ journal[a][k].kind = "absolute" => journal'[a][k] = journal[a][k]
                        /\ journal[a][k].kind # "absolute" =>
                              journal'[a][k].kind = "delta" /\ journal'[a][k].by = Added(a, k) + d
      OBVIOUS
    <2>1. journal[a][k] \in StateUndo BY <1>9
    <2>2. journal'[a][k] = NotedIncr(journal[a][k], d) BY <1>2
    <2> QED BY <2>1, <2>2, NotedIncrType DEF Added
  <1>8. FormInv'
    <2> SUFFICES ASSUME NEW r \in Request, NEW j \in Key
                 PROVE  /\ form'[r][j] = "none" => journal'[r][j] = NoEntry
                        /\ form'[r][j] = "incr" => journal'[r][j].kind = "delta"
                        /\ form'[r][j] \in {"set", "stray"} =>
                              /\ journal'[r][j].kind = "absolute"
                              /\ journal'[r][j].prev = before'[r][j]
      BY DEF FormInv
    <2>1. CASE ~(r = a /\ j = k)
      BY <2>1, <1>2, <1>3, <1>a DEF FormInv
    <2>2. CASE r = a /\ j = k /\ form[a][k] \in {"none", "incr"}
      <3>1. journal[a][k].kind # "absolute" BY <2>2 DEF FormInv, NoEntry
      <3> QED BY <2>2, <3>1, <1>a, <1>b
    <2>3. CASE r = a /\ j = k /\ form[a][k] \in {"set", "stray"}
      <3>1. journal[a][k].kind = "absolute" /\ journal[a][k].prev = before[a][k]
        BY <2>3 DEF FormInv
      <3> QED BY <2>3, <3>1, <1>3, <1>a, <1>b
    <2>4. r = a /\ j = k => form[a][k] \in {"none", "incr", "set", "stray"}
      BY DEF Form
    <2> QED BY <2>1, <2>2, <2>3, <2>4
  <1>c. AloneInv'
    <2> SUFFICES ASSUME NEW r \in Request, NEW j \in Key, alone'[r][j]
                 PROVE  LeadsBack(r, j)'
      BY DEF AloneInv
    <2>1. CASE j # k
      <3>1. LeadsBack(r, j) BY <2>1, <1>4 DEF AloneInv
      <3> QED BY <2>1, <3>1, <1>1, <1>2, <1>3, <1>a DEF LeadsBack
    <2>2. CASE j = k /\ form[r][k] = "none"
      <3>1. r = a /\ journal[r][k] = NoEntry BY <2>2, <1>4 DEF FormInv
      <3>2. before'[r][k] = store[k] /\ form'[r][k] = "incr" BY <2>2, <3>1, <1>3, <1>a
      <3>3. journal'[r][k].by = d
        <4>1. journal[a][k].kind = "none" /\ Added(a, k) = 0 BY <3>1 DEF NoEntry, Added
        <4> QED BY <4>1, <3>1, <1>b
      <3> QED BY <2>2, <3>2, <3>3, <1>1 DEF LeadsBack
    <2>3. CASE j = k /\ form[r][k] = "incr"
      <3>1. r = a /\ LeadsBack(r, k) /\ journal[r][k].kind = "delta"
        BY <2>3, <1>4 DEF AloneInv, FormInv
      <3>2. journal[r][k].by \in Int BY <3>1, <1>9, EntryKinds
      <3>3. AsNumber(before[r][k]) \in Int BY DEF AsNumber, IsNumber
      <3>4. store[k] = AsNumber(before[r][k]) + journal[r][k].by BY <2>3, <3>1 DEF LeadsBack
      <3>5. store'[k] = store[k] + d
        <4>1. store[k] \in Int BY <3>2, <3>3, <3>4
        <4>2. AsNumber(store[k]) = store[k] BY <4>1 DEF AsNumber, IsNumber
        <4> QED BY <4>2, <1>1
      <3>6. journal'[r][k].by = journal[r][k].by + d
        <4>1. Added(a, k) = journal[r][k].by BY <3>1 DEF Added
        <4> QED BY <4>1, <3>1, <1>b
      <3>7. before'[r][k] = before[r][k] /\ form'[r][k] = "incr"
        <4>1. form[a][k] = "incr" BY <2>3, <3>1
        <4>2. before'[a][k] = before[a][k] BY <4>1, <3>1, <1>3
        <4>3. form'[a][k] = "incr" BY <4>1, <3>1, <1>a
        <4> QED BY <4>2, <4>3, <3>1
      <3>8. store'[k] = AsNumber(before[r][k]) + journal'[r][k].by
        BY <3>2, <3>3, <3>4, <3>5, <3>6
      <3> QED BY <2>3, <3>7, <3>8 DEF LeadsBack
    <2>4. CASE j = k /\ form[r][k] \in {"set", "stray"}
      <3>1. r = a BY <2>4, <1>4
      <3>2. form'[r][k] = "stray" BY <2>4, <3>1, <1>a
      <3> QED BY <2>4, <3>2 DEF LeadsBack
    <2>5. form[r][k] \in {"none", "incr", "set", "stray"}
      BY DEF Form
    <2> QED BY <2>1, <2>2, <2>3, <2>4, <2>5
  <1> QED BY <1>5, <1>6, <1>7, <1>8, <1>c

(* The undo of a cut request preserves it.                                 *)
LEMMA UndoKeeps ==
  ASSUME StateIInv, NEW r \in Request, Undo(r)
  PROVE  StateIInv'
  <1> USE DEF StateIInv, StateTypeOK, HistoryType
  <1>1. \A k \in Key : store'[k] = Undone(journal[r][k], store[k])
    BY DEF Undo
  <1>2. store' \in [Key -> Held]
    BY UndoneType DEF Undo
  <1>3. StateTypeOK'
    BY <1>2 DEF Undo
  <1>4. HistoryType'
    BY DEF Undo, Actor
  <1>5. DeltaInv'
    <2> SUFFICES ASSUME NEW k \in Key, counter[k]
                 PROVE  /\ store'[k] \in Int \cup {Absent}
                        /\ AsNumber(store'[k]) = kept[k] - contrib[r][k]
                        /\ \A s \in Request : /\ journal[s][k].kind # "absolute"
                                              /\ contrib[s][k] = Added(s, k)
                                              /\ store'[k] = Absent => journal[s][k] = NoEntry
      BY DEF DeltaInv, Undo, Added
    <2>1. /\ store[k] \in Int \cup {Absent} /\ AsNumber(store[k]) = kept[k]
          /\ \A s \in Request : /\ journal[s][k].kind # "absolute"
                                /\ contrib[s][k] = Added(s, k)
                                /\ store[k] = Absent => journal[s][k] = NoEntry
      BY DEF DeltaInv
    <2>2. CASE journal[r][k] = NoEntry
      <3>1. store'[k] = store[k] /\ contrib[r][k] = 0
        BY <2>1, <2>2, <1>1 DEF Undone, NoEntry, Added
      <3> QED BY <2>1, <3>1
    <2>3. CASE journal[r][k] # NoEntry
      <3>1. journal[r][k].kind = "delta" /\ journal[r][k].by \in Int
        BY <2>1, <2>3, EntryKinds
      <3>2. store[k] \in Int
        BY <2>1, <2>3
      <3>3. store'[k] = store[k] - contrib[r][k]
        BY <2>1, <3>1, <3>2, <1>1 DEF Undone, IsNumber, Added
      <3>4. store'[k] \in Int /\ store'[k] # Absent
        BY <3>1, <3>2, <3>3, <2>1, StateAssumption DEF Value, Added
      <3> QED BY <2>1, <3>2, <3>3, <3>4 DEF AsNumber, IsNumber
    <2> QED BY <2>2, <2>3
  <1>6. FormInv'
    BY DEF Undo, FormInv
  <1>7. AloneInv'
    <2> SUFFICES ASSUME NEW s \in Request, NEW k \in Key, alone'[s][k]
                 PROVE  LeadsBack(s, k)'
      BY DEF AloneInv
    <2>1. alone[s][k] /\ store'[k] = store[k]
      BY DEF Undo
    <2>2. LeadsBack(s, k)
      BY <2>1 DEF AloneInv
    <2> QED BY <2>1, <2>2 DEF Undo, LeadsBack
  <1> QED BY <1>3, <1>4, <1>5, <1>6, <1>7

(* The other steps of a request preserve it.                               *)
LEMMA RequestKeeps ==
  ASSUME StateIInv, NEW r \in Request, Begin(r) \/ Confirm(r) \/ Unwind(r)
  PROVE  StateIInv'
  <1> USE DEF StateIInv, StateTypeOK, HistoryType
  <1>1. UNCHANGED <<store, journal, ops, history>> /\ pc' = [pc EXCEPT ![r] = pc'[r]]
    BY DEF Begin, Confirm, Unwind
  <1>2. pc'[r] \in {"open", "confirmed", "panicked"}
    BY DEF Begin, Confirm, Unwind
  <1>3. StateTypeOK' BY <1>1, <1>2
  <1>4. HistoryType' BY <1>1 DEF history
  <1>5. DeltaInv' BY <1>1 DEF history, DeltaInv, Added
  <1>6. FormInv' BY <1>1 DEF history, FormInv
  <1>7. AloneInv' BY <1>1 DEF history, AloneInv, LeadsBack
  <1> QED BY <1>3, <1>4, <1>5, <1>6, <1>7

(* Only the undo of a request makes it undone.                             *)
LEMMA UndoesIsUndo ==
  ASSUME StateIInv, [StateNext]_stateVars, NEW r \in Request, Undoes(r)
  PROVE  Undo(r)
  <1>1. pc' # pc
    BY DEF Undoes
  <1>2. \/ \E s \in Request : Begin(s) \/ Confirm(s) \/ Undo(s) \/ Unwind(s)
        \/ UNCHANGED pc
    BY DEF StateNext, Set, Delete, Change, Incr, Acts, stateVars
  <1>3. PICK s \in Request : Begin(s) \/ Confirm(s) \/ Undo(s) \/ Unwind(s)
    BY <1>1, <1>2
  <1> QED BY <1>3 DEF StateIInv, StateTypeOK, Undoes, Begin, Confirm, Undo, Unwind

(* The invariant holds in every state of the store.                        *)
THEOREM StateInvariance == StateSpec => []StateIInv
  <1>1. StateIInv /\ [StateNext]_stateVars => StateIInv'
    <2> SUFFICES ASSUME StateIInv, [StateNext]_stateVars PROVE StateIInv'
      OBVIOUS
    <2>1. CASE UNCHANGED stateVars
      BY <2>1 DEF StateIInv, StateTypeOK, HistoryType, DeltaInv, FormInv, AloneInv, LeadsBack,
             Added, stateVars, history
    <2>2. ASSUME NEW a \in Actor, NEW k \in Key, Set(a, k) \/ Delete(a, k) PROVE StateIInv'
      <3>1. PICK v \in Held : Change(a, k, v)
        BY <2>2, StateAssumption DEF Set, Delete, Held
      <3> QED BY <3>1, ChangeKeeps
    <2>3. ASSUME NEW a \in Actor, NEW k \in Key, NEW d \in Step, Incr(a, k, d) PROVE StateIInv'
      BY <2>3, IncrKeeps, StateAssumption
    <2> QED BY <2>1, <2>2, <2>3, UndoKeeps, RequestKeeps DEF StateNext
  <1> QED BY <1>1, StateInitInv, PTL DEF StateSpec

(* The store and the journals keep their types.                            *)
THEOREM StateTypeCorrect == StateSpec => []StateTypeOK
  <1>1. StateIInv => StateTypeOK BY DEF StateIInv
  <1> QED BY <1>1, StateInvariance, PTL

(* Counters survive the undo of any requests in any interleaving.          *)
THEOREM CountersExact == StateSpec => []CounterExact
  <1>1. StateIInv => CounterExact BY DEF StateIInv, DeltaInv, CounterExact
  <1> QED BY <1>1, StateInvariance, PTL

(* Where nobody else changed the key, an undo gives back what was there    *)
(* before, also after increments followed by a set, after a set, an        *)
(* increment and another set, and after increments of an absent key.       *)
THEOREM UndoIsExact == StateSpec => UndoRestores
  <1>1. ASSUME StateIInv, [StateNext]_stateVars, NEW r \in Request, NEW k \in Key,
               Undoes(r), alone[r][k], form[r][k] # "stray"
        PROVE  store'[k] = IF form[r][k] = "incr" THEN AsNumber(before[r][k]) ELSE before[r][k]
    <2>1. store'[k] = Undone(journal[r][k], store[k])
      BY <1>1, UndoesIsUndo DEF Undo
    <2>2. LeadsBack(r, k)
      BY <1>1 DEF StateIInv, AloneInv
    <2>3. journal[r][k] \in StateUndo /\ form[r][k] \in Form
      BY <1>1 DEF StateIInv, StateTypeOK, HistoryType
    <2>4. CASE form[r][k] = "incr"
      <3>1. journal[r][k].kind = "delta" BY <2>4, <1>1 DEF StateIInv, FormInv
      <3>2. journal[r][k].by \in Int BY <3>1, <2>3, EntryKinds
      <3>3. AsNumber(before[r][k]) \in Int BY DEF AsNumber, IsNumber
      <3>4. store[k] = AsNumber(before[r][k]) + journal[r][k].by BY <2>2, <2>4 DEF LeadsBack
      <3>5. store'[k] = store[k] - journal[r][k].by
        BY <2>1, <3>1, <3>2, <3>3, <3>4 DEF Undone, IsNumber
      <3> QED BY <2>4, <3>2, <3>3, <3>4, <3>5
    <2>5. CASE form[r][k] = "set"
      <3>1. journal[r][k].kind = "absolute" /\ journal[r][k].prev = before[r][k]
        BY <2>5, <1>1 DEF StateIInv, FormInv
      <3>2. store[k] = journal[r][k].mine BY <2>2, <2>5 DEF LeadsBack
      <3> QED BY <2>1, <2>5, <3>1, <3>2 DEF Undone
    <2> QED BY <1>1, <2>2, <2>3, <2>4, <2>5 DEF Form, LeadsBack
  <1>2. StateIInv /\ [StateNext]_stateVars =>
            \A r \in Request, k \in Key :
                Undoes(r) /\ alone[r][k] /\ form[r][k] # "stray" =>
                    store'[k] = IF form[r][k] = "incr" THEN AsNumber(before[r][k])
                                ELSE before[r][k]
    BY <1>1
  <1> QED BY <1>2, StateInvariance, PTL DEF UndoRestores, StateSpec

-----------------------------------------------------------------------------
(* What an entry says its request left is a number, nothing, or a value    *)
(* the request may set.                                                    *)
MineInv ==
    \A r \in Request, k \in Key :
        journal[r][k].kind = "absolute" => journal[r][k].mine \notin Text \ Writes[r]

(* Every step keeps MineInv.                                               *)
LEMMA MineInvKept == StateIInv /\ MineInv /\ [StateNext]_stateVars => MineInv'
  <1> SUFFICES ASSUME StateIInv, MineInv, [StateNext]_stateVars PROVE MineInv'
    OBVIOUS
  <1> USE DEF MineInv
  <1>1. \A r \in Request, j \in Key : journal[r][j] \in StateUndo /\ store[j] \in Held
    BY DEF StateIInv, StateTypeOK
  <1>2. ASSUME NEW r \in Request, Begin(r) PROVE MineInv'
    BY <1>2 DEF Begin, StateIInv, StateTypeOK, NoEntry
  <1>3. ASSUME NEW r \in Request, Confirm(r) \/ Undo(r) \/ Unwind(r) PROVE MineInv'
    BY <1>3 DEF Confirm, Undo, Unwind
  <1>4. ASSUME NEW a \in Actor, NEW k \in Key, NEW v \in Held, Change(a, k, v),
               v \notin Text \ Writes[a]
        PROVE  MineInv'
    <2>1. a \in Request => NotedWrite(journal[a][k], store[k], v).mine = v
      BY <1>1, NotedWriteType
    <2>2. journal' = IF a \in Request
                     THEN [journal EXCEPT ![a][k] = NotedWrite(journal[a][k], store[k], v)]
                     ELSE journal
      BY <1>4 DEF Change, Noted, Entry
    <2>3. \A r \in Request, j \in Key :
            journal'[r][j] = IF r = a /\ j = k THEN NotedWrite(journal[a][k], store[k], v)
                             ELSE journal[r][j]
      BY <2>2 DEF StateIInv, StateTypeOK
    <2> QED BY <1>4, <2>1, <2>3
  <1>5. ASSUME NEW a \in Actor, NEW k \in Key, NEW d \in Int, Incr(a, k, d)
        PROVE  MineInv'
    <2>1. a \in Request => \/ NotedIncr(journal[a][k], d) = journal[a][k]
                           \/ NotedIncr(journal[a][k], d).kind = "delta"
      BY <1>1, NotedIncrType
    <2>2. journal' = IF a \in Request
                     THEN [journal EXCEPT ![a][k] = NotedIncr(journal[a][k], d)]
                     ELSE journal
      BY <1>5 DEF Incr, Noted, Entry
    <2>3. \A r \in Request, j \in Key :
            journal'[r][j] = IF r = a /\ j = k THEN NotedIncr(journal[a][k], d)
                             ELSE journal[r][j]
      BY <2>2 DEF StateIInv, StateTypeOK
    <2> QED BY <2>1, <2>3
  <1>6. ASSUME NEW a \in Actor, NEW k \in Key, Set(a, k) \/ Delete(a, k) PROVE MineInv'
    <2>1. CASE Set(a, k)
      <3>1. PICK v \in Writes[a] : Change(a, k, v)
        BY <2>1 DEF Set
      <3>2. v \in Held
        BY StateAssumption DEF Held
      <3> QED BY <3>1, <3>2, <1>4
    <2>2. CASE Delete(a, k)
      BY <2>2, <1>4, StateAssumption DEF Delete, Held, Value
    <2> QED BY <1>6, <2>1, <2>2
  <1>7. CASE UNCHANGED stateVars
    BY <1>7 DEF stateVars
  <1> QED BY <1>2, <1>3, <1>5, <1>6, <1>7, StateAssumption DEF StateNext

(* No undo takes a text away from the request that set it, unless the      *)
(* request undone may set that very text.                                  *)
THEOREM ForeignTextSafe == StateSpec => ForeignTextSurvives
  <1>1. StateInit => MineInv
    BY DEF StateInit, MineInv, NoEntry
  <1>2. ASSUME StateIInv, MineInv, [StateNext]_stateVars, NEW r \in Request, NEW k \in Key,
               Undoes(r), store[k] \in Text \ Writes[r]
        PROVE  store'[k] = store[k]
    <2>1. store'[k] = Undone(journal[r][k], store[k])
      BY <1>2, UndoesIsUndo DEF Undo
    <2>2. ~IsNumber(store[k])
      BY <1>2, StateAssumption DEF IsNumber
    <2>3. journal[r][k] \in StateUndo
      BY <1>2 DEF StateIInv, StateTypeOK
    <2> QED BY <1>2, <2>1, <2>2, <2>3, EntryKinds DEF Undone, MineInv
  <1>3. StateIInv /\ MineInv /\ [StateNext]_stateVars =>
            \A r \in Request, k \in Key :
                Undoes(r) /\ writer[k] # r /\ store[k] \in Text \ Writes[r]
                    => store'[k] = store[k]
    BY <1>2
  <1> QED BY <1>1, <1>3, MineInvKept, StateInvariance, PTL DEF StateSpec, ForeignTextSurvives

-----------------------------------------------------------------------------
(* Proofs about Bus, for any publishers, subscriptions, events, sizes and  *)
(* limits.  The sum of the sizes in a queue is a recursive function: its   *)
(* equation, and what it gives for a queue with an event more or some      *)
(* less, come from the least number at which they could fail.              *)

(* A non-empty set of naturals has a least element.                        *)
LEMMA LeastNat ==
  ASSUME NEW T \in SUBSET Nat, T # {}
  PROVE  \E x \in T : \A y \in T : x <= y
  <1>1. PICK x \in T : \A y \in T : ~(<<y, x>> \in OpToRel(<, Nat))
    BY NatLessThanWellFounded, WFMin
  <1>2. \A y \in T : ~(y < x)
    BY <1>1 DEF OpToRel
  <1> QED BY <1>2

(* The size of an event is a number.                                       *)
LEMMA SizeType ==
  ASSUME NEW ev \in Event
  PROVE  ev.size \in Nat
  BY BusAssumption DEF Event

(* f[i] is what the first i of n events take.                              *)
Totals(f, q, n) ==
    /\ \A i \in 0 .. n : f[i] \in Nat
    /\ f[0] = 0
    /\ \A i \in 1 .. n : f[i] = f[i - 1] + q[i].size

(* Every queue has its running totals.                                     *)
LEMMA TotalsExist ==
  ASSUME NEW q \in Seq(Event)
  PROVE  \E f : Totals(f, q, Len(q))
  <1> DEFINE Bad == {n \in Nat : n <= Len(q) /\ ~\E f : Totals(f, q, n)}
  <1>0. Len(q) \in Nat /\ \A i \in 1 .. Len(q) : q[i].size \in Nat
    <2>1. Len(q) \in Nat /\ \A i \in 1 .. Len(q) : q[i] \in Event OBVIOUS
    <2> QED BY <2>1, SizeType
  <1>1. Bad = {}
    <2> SUFFICES ASSUME Bad # {} PROVE FALSE
      OBVIOUS
    <2>1. PICK n \in Bad : \A m \in Bad : n <= m
      <3>1. Bad \in SUBSET Nat OBVIOUS
      <3> QED BY <3>1, LeastNat
    <2>2. n # 0
      <3>1. Totals([i \in {0} |-> 0], q, 0)
        BY DEF Totals
      <3> QED BY <3>1, <2>1
    <2>3. PICK f : Totals(f, q, n - 1)
      BY <2>1, <2>2
    <2> DEFINE g == [i \in 0 .. n |-> IF i = n THEN f[n - 1] + q[n].size ELSE f[i]]
    <2>4. n \in Nat /\ n \in 1 .. Len(q)
      BY <2>1, <2>2, <1>0
    <2>5. f[n - 1] + q[n].size \in Nat
      BY <2>3, <2>4, <1>0 DEF Totals
    <2>6. Totals(g, q, n)
      <3>1. \A i \in 0 .. n : g[i] \in Nat
        BY <2>3, <2>4, <2>5 DEF Totals
      <3>2. g[0] = 0
        BY <2>3, <2>4 DEF Totals
      <3>3. ASSUME NEW i \in 1 .. n PROVE g[i] = g[i - 1] + q[i].size
        BY <2>3, <2>4 DEF Totals
      <3> QED BY <3>1, <3>2, <3>3 DEF Totals
    <2> QED BY <2>6, <2>1
  <1> QED BY <1>0, <1>1

(* The running totals end in the sum.                                      *)
LEMMA SumIs ==
  ASSUME NEW q, Len(q) \in Nat, NEW f, Totals(f, q, Len(q))
  PROVE  SumOfSizes(q) = f[Len(q)]
  <1> DEFINE D(g) == [i \in 0 .. Len(q) |-> IF i = 0 THEN 0 ELSE g[i - 1] + q[i].size]
             h == [i \in 0 .. Len(q) |-> f[i]]
             sum == CHOOSE g : g = D(g)
  <1>1. h = D(h)
    <2>1. ASSUME NEW i \in 0 .. Len(q) PROVE h[i] = D(h)[i]
      BY DEF Totals
    <2> QED BY <2>1
  <1>2. sum = D(sum)
    BY <1>1
  <1>3. SumOfSizes(q) = sum[Len(q)]
    BY DEF SumOfSizes
  <1>4. sum[0] = 0 /\ \A i \in 1 .. Len(q) : sum[i] = sum[i - 1] + q[i].size
    <2> HIDE DEF sum
    <2> QED BY <1>2
  <1> HIDE DEF sum, h
  <1> DEFINE Bad == {i \in Nat : i <= Len(q) /\ sum[i] # f[i]}
  <1>5. Bad = {}
    <2> SUFFICES ASSUME Bad # {} PROVE FALSE
      OBVIOUS
    <2>1. PICK n \in Bad : \A m \in Bad : n <= m
      <3>1. Bad \in SUBSET Nat OBVIOUS
      <3> QED BY <3>1, LeastNat
    <2>2. n # 0
      BY <2>1, <1>4 DEF Totals
    <2>3. n - 1 \in Nat /\ n - 1 <= Len(q) /\ n \in 1 .. Len(q) /\ n - 1 \notin Bad
      BY <2>1, <2>2
    <2>4. sum[n - 1] = f[n - 1]
      BY <2>3
    <2> QED BY <2>1, <2>3, <2>4, <1>4 DEF Totals
  <1> QED BY <1>3, <1>5

(* A sum of sizes is a number.                                             *)
LEMMA SumType ==
  ASSUME NEW q \in Seq(Event)
  PROVE  SumOfSizes(q) \in Nat
  <1>1. PICK f : Totals(f, q, Len(q)) BY TotalsExist
  <1>2. Len(q) \in Nat OBVIOUS
  <1> QED BY <1>1, <1>2, SumIs DEF Totals

(* Nothing is queued.                                                      *)
LEMMA SumEmpty == Len(<<>>) = 0 /\ SumOfSizes(<<>>) = 0
  <1>1. Len(<<>>) = 0 OBVIOUS
  <1> DEFINE f == [i \in {0} |-> 0]
  <1>2. f[0] = 0 /\ 0 .. 0 = {0} /\ 1 .. 0 = {} OBVIOUS
  <1> HIDE DEF f
  <1>3. Totals(f, <<>>, 0) BY <1>2 DEF Totals
  <1>4. SumOfSizes(<<>>) = f[Len(<<>>)] BY <1>1, <1>3, SumIs
  <1> QED BY <1>1, <1>2, <1>4

(* One event more.                                                         *)
LEMMA SumAppend ==
  ASSUME NEW q \in Seq(Event), NEW ev \in Event
  PROVE  SumOfSizes(Append(q, ev)) = SumOfSizes(q) + ev.size
  <1>1. PICK f : Totals(f, q, Len(q)) BY TotalsExist
  <1> DEFINE n == Len(q)
             a == Append(q, ev)
             g == [i \in 0 .. n + 1 |-> IF i = n + 1 THEN f[n] + ev.size ELSE f[i]]
  <1>2. n \in Nat /\ Len(a) = n + 1 /\ a[n + 1] = ev /\ \A i \in 1 .. n : a[i] = q[i]
    OBVIOUS
  <1>3. f[n] \in Nat /\ ev.size \in Nat
    BY <1>1, <1>2, SizeType DEF Totals
  <1> HIDE DEF n, a
  <1>4. Totals(g, a, n + 1)
    <2>1. \A i \in 0 .. n + 1 : g[i] \in Nat
      BY <1>1, <1>2, <1>3 DEF Totals, n
    <2>2. g[0] = 0
      BY <1>1, <1>2 DEF Totals
    <2>3. ASSUME NEW i \in 1 .. n + 1 PROVE g[i] = g[i - 1] + a[i].size
      <3>1. CASE i = n + 1 BY <3>1, <1>2
      <3>2. CASE i \in 1 .. n BY <3>2, <1>1, <1>2 DEF Totals, n
      <3> QED BY <3>1, <3>2, <1>2
    <2> QED BY <2>1, <2>2, <2>3 DEF Totals
  <1>5. SumOfSizes(a) = g[n + 1]
    BY <1>2, <1>4, SumIs
  <1>6. SumOfSizes(q) = f[n]
    BY <1>1, <1>2, SumIs DEF n
  <1> QED BY <1>2, <1>5, <1>6 DEF a

(* A queue cut in two.                                                     *)
LEMMA SumSplit ==
  ASSUME NEW q \in Seq(Event), NEW k \in 0 .. Len(q)
  PROVE  /\ SubSeq(q, 1, k) \in Seq(Event) /\ SubSeq(q, k + 1, Len(q)) \in Seq(Event)
         /\ Len(SubSeq(q, 1, k)) = k /\ Len(SubSeq(q, k + 1, Len(q))) = Len(q) - k
         /\ \A i \in 1 .. Len(q) - k : SubSeq(q, k + 1, Len(q))[i] = q[k + i]
         /\ SumOfSizes(q) = SumOfSizes(SubSeq(q, 1, k)) + SumOfSizes(SubSeq(q, k + 1, Len(q)))
  <1> DEFINE n == Len(q)
             a == SubSeq(q, 1, k)
             b == SubSeq(q, k + 1, n)
  <1>1. /\ n \in Nat /\ k \in Nat /\ k <= n
        /\ a \in Seq(Event) /\ Len(a) = k /\ \A i \in 1 .. k : a[i] = q[i]
        /\ b \in Seq(Event) /\ Len(b) = n - k /\ \A i \in 1 .. n - k : b[i] = q[k + i]
    OBVIOUS
  <1> HIDE DEF n, a, b
  <1>2. PICK f : Totals(f, a, k) BY <1>1, TotalsExist
  <1>3. PICK g : Totals(g, b, n - k) BY <1>1, TotalsExist
  <1> DEFINE h == [i \in 0 .. n |-> IF i <= k THEN f[i] ELSE f[k] + g[i - k]]
  <1>4. Totals(h, q, n)
    <2>1. ASSUME NEW i \in 0 .. n PROVE h[i] \in Nat
      <3>1. CASE i <= k BY <3>1, <1>1, <1>2 DEF Totals
      <3>2. CASE i > k
        <4>1. i - k \in 0 .. n - k BY <3>2, <1>1
        <4>2. f[k] \in Nat BY <1>1, <1>2 DEF Totals
        <4>3. g[i - k] \in Nat BY <4>1, <1>3 DEF Totals
        <4>4. h[i] = f[k] + g[i - k] BY <3>2, <1>1
        <4> QED BY <4>2, <4>3, <4>4
      <3> QED BY <3>1, <3>2, <1>1
    <2>2. h[0] = 0
      BY <1>1, <1>2 DEF Totals
    <2>3. ASSUME NEW i \in 1 .. n PROVE h[i] = h[i - 1] + q[i].size
      <3>1. CASE i <= k BY <3>1, <1>1, <1>2 DEF Totals
      <3>2. CASE i > k
        <4>1. i - k \in 1 .. n - k /\ b[i - k] = q[i] BY <3>2, <1>1
        <4>2. g[i - k] = g[i - k - 1] + q[i].size /\ g[i - k - 1] \in Nat
          <5>1. i - k - 1 \in 0 .. n - k BY <4>1, <1>1
          <5> QED BY <4>1, <5>1, <1>3 DEF Totals
        <4>3. h[i] = f[k] + g[i - k] /\ f[k] \in Nat
          <5>1. h[i] = f[k] + g[i - k] BY <3>2, <1>1
          <5>2. f[k] \in Nat BY <1>1, <1>2 DEF Totals
          <5> QED BY <5>1, <5>2
        <4>4. h[i - 1] = f[k] + g[i - k - 1]
          <5>1. CASE i = k + 1
            <6>1. h[i - 1] = f[k] /\ f[k] \in Nat BY <5>1, <4>3, <1>1
            <6>2. g[i - k - 1] = 0 BY <5>1, <1>1, <1>3 DEF Totals
            <6> QED BY <6>1, <6>2
          <5>2. CASE i > k + 1 BY <5>2, <1>1
          <5> QED BY <5>1, <5>2, <3>2, <1>1
        <4>5. q[i].size \in Nat
          <5>1. q[i] \in Event BY DEF n
          <5> QED BY <5>1, SizeType
        <4> QED BY <4>2, <4>3, <4>4, <4>5
      <3> QED BY <3>1, <3>2, <1>1
    <2> QED BY <2>1, <2>2, <2>3 DEF Totals
  <1>5. SumOfSizes(q) = h[n] BY <1>1, <1>4, SumIs DEF n
  <1>6. SumOfSizes(a) = f[k] /\ SumOfSizes(b) = g[n - k]
    <2>1. Len(a) \in Nat /\ Totals(f, a, Len(a)) BY <1>1, <1>2
    <2>2. Len(b) \in Nat /\ Totals(g, b, Len(b)) BY <1>1, <1>3
    <2>3. SumOfSizes(a) = f[Len(a)] BY <2>1, SumIs
    <2>4. SumOfSizes(b) = g[Len(b)] BY <2>2, SumIs
    <2> QED BY <2>3, <2>4, <1>1
  <1>7. h[n] = f[k] + g[n - k]
    BY <1>1, <1>2, <1>3 DEF Totals
  <1> QED BY <1>1, <1>5, <1>6, <1>7 DEF n, a, b

(* The oldest event read.                                                  *)
LEMMA SumTail ==
  ASSUME NEW q \in Seq(Event), q # <<>>
  PROVE  SumOfSizes(q) = Head(q).size + SumOfSizes(Tail(q))
  <1> DEFINE a == SubSeq(q, 1, 1)
  <1>1. /\ 1 \in 0 .. Len(q) /\ SubSeq(q, 2, Len(q)) = Tail(q) /\ Head(q) = q[1]
        /\ Len(a) = 1 /\ a[1] = q[1] /\ Head(q) \in Event
    OBVIOUS
  <1>2. SumOfSizes(q) = SumOfSizes(a) + SumOfSizes(Tail(q))
    <2>1. PICK k \in 0 .. Len(q) : k = 1 BY <1>1
    <2>2. SumOfSizes(q) = SumOfSizes(SubSeq(q, 1, k)) + SumOfSizes(SubSeq(q, k + 1, Len(q)))
      BY SumSplit
    <2>3. SubSeq(q, k + 1, Len(q)) = Tail(q) /\ SubSeq(q, 1, k) = a BY <1>1, <2>1
    <2> QED BY <2>2, <2>3
  <1> DEFINE f == [i \in 0 .. 1 |-> IF i = 0 THEN 0 ELSE Head(q).size]
  <1>3. Head(q).size \in Nat BY <1>1, SizeType
  <1> HIDE DEF a
  <1>4. Totals(f, a, 1)
    <2>1. f[0] = 0 /\ f[1] = Head(q).size OBVIOUS
    <2>2. 0 .. 1 = {0, 1} /\ 1 .. 1 = {1} /\ 1 - 1 = 0 OBVIOUS
    <2> HIDE DEF f
    <2> QED BY <1>1, <1>3, <2>1, <2>2 DEF Totals
  <1>5. SumOfSizes(a) = Head(q).size
    <2>1. Len(a) \in Nat /\ Totals(f, a, Len(a)) BY <1>1, <1>4
    <2>2. f[Len(a)] = Head(q).size BY <1>1
    <2> HIDE DEF f
    <2> QED BY <2>1, <2>2, SumIs
  <1> QED BY <1>2, <1>5

-----------------------------------------------------------------------------
(* What a subscription is before, while and after its reader holds it.     *)
Handles ==
    \A s \in Sub :
        /\ hub[s] = "none" =>
               /\ s \notin subs /\ queue[s] = <<>> /\ ~error[s]
               /\ received[s] = 0 /\ taken[s] = 0 /\ dropped[s] = 0
        /\ hub[s] = "open" => s \in subs
        /\ error[s] => queue[s] = <<>>

(* The reader got nothing that was not pushed.                             *)
ReadBefore == \A s \in Sub, p \in Publisher : seen[s][p] <= LastPushed(p, s)

(* KeepsTheNewest of a queue q, of which low[p] is the last event of p read *)
(* and last[p] the last one pushed, as seen from its i-th event.            *)
NewestAt(q, i, low, last) ==
    /\ low[q[i].from] < q[i].n /\ q[i].n <= last[q[i].from]
    /\ \A j \in 1 .. Len(q) : q[j].from = q[i].from /\ i < j => q[i].n < q[j].n
    /\ \A n \in q[i].n .. last[q[i].from] :
           \E j \in 1 .. Len(q) : q[j].from = q[i].from /\ q[j].n = n

(* The same at every place of the queue.                                   *)
Newest(q, low, last) == \A i \in 1 .. Len(q) : NewestAt(q, i, low, last)

(* What was pushed to s of each publisher.                                 *)
Pushed(s) == [p \in Publisher |-> LastPushed(p, s)]

(* KeepsTheNewest of every subscription its reader holds.                  *)
NewestOfEach ==
    \A s \in Sub : hub[s] = "open" => Newest(queue[s], seen[s], Pushed(s))

(* The inductive invariant of the bus.                                     *)
BusIInv ==
    /\ BusTypeOK /\ IsFiniteSet(subs)
    /\ QueueBounded /\ NoSilentLoss
    /\ Handles /\ ReadBefore /\ NewestOfEach

(* The types of what the queues hold, and of the numbers beside them.      *)
QueueTyped ==
    \A s \in Sub :
        /\ queue[s] \in Seq(Event) /\ Len(queue[s]) \in Nat
        /\ DOMAIN queue[s] = 1 .. Len(queue[s])
        /\ \A i \in 1 .. Len(queue[s]) :
               /\ queue[s][i] \in Event /\ queue[s][i].from \in Publisher
               /\ queue[s][i].n \in Nat /\ queue[s][i].size \in Nat
        /\ \A p \in Publisher : LastPushed(p, s) \in Int /\ seen[s][p] \in Nat
        /\ bytes[s] \in Nat /\ dropped[s] \in Nat /\ received[s] \in Nat /\ taken[s] \in Nat

(* They follow from the type invariant.                                    *)
LEMMA QueueTypes == BusTypeOK => QueueTyped
  <1> SUFFICES ASSUME BusTypeOK, NEW s \in Sub
               PROVE  /\ queue[s] \in Seq(Event) /\ Len(queue[s]) \in Nat
                      /\ DOMAIN queue[s] = 1 .. Len(queue[s])
                      /\ \A i \in 1 .. Len(queue[s]) :
                             /\ queue[s][i] \in Event /\ queue[s][i].from \in Publisher
                             /\ queue[s][i].n \in Nat /\ queue[s][i].size \in Nat
                      /\ \A p \in Publisher : LastPushed(p, s) \in Int /\ seen[s][p] \in Nat
                      /\ bytes[s] \in Nat /\ dropped[s] \in Nat
                      /\ received[s] \in Nat /\ taken[s] \in Nat
    BY DEF QueueTyped
  <1>1. queue[s] \in Seq(Event) BY DEF BusTypeOK
  <1>2. Len(queue[s]) \in Nat /\ DOMAIN queue[s] = 1 .. Len(queue[s])
        /\ \A i \in 1 .. Len(queue[s]) : queue[s][i] \in Event
    BY <1>1
  <1>3. \A i \in 1 .. Len(queue[s]) : queue[s][i].from \in Publisher /\ queue[s][i].n \in Nat
    BY <1>2, BusAssumption DEF Event
  <1>4. \A i \in 1 .. Len(queue[s]) : queue[s][i].size \in Nat
    BY <1>2, SizeType
  <1>5. \A p \in Publisher : LastPushed(p, s) \in Int /\ seen[s][p] \in Nat
    BY BusAssumption DEF BusTypeOK, LastPushed
  <1>6. bytes[s] \in Nat /\ dropped[s] \in Nat /\ received[s] \in Nat /\ taken[s] \in Nat
    BY DEF BusTypeOK
  <1> QED BY <1>1, <1>2, <1>3, <1>4, <1>5, <1>6

(* KeepsTheNewest, one subscription at a time.                             *)
LEMMA NewestMeans ==
  ASSUME BusTypeOK, NewestOfEach
  PROVE  KeepsTheNewest
  <1> SUFFICES ASSUME NEW s \in Sub, hub[s] = "open", NEW i \in DOMAIN queue[s]
               PROVE  /\ queue[s][i].n \in seen[s][queue[s][i].from] + 1
                                            .. LastPushed(queue[s][i].from, s)
                      /\ \A j \in DOMAIN queue[s] :
                             queue[s][j].from = queue[s][i].from /\ i < j =>
                                 queue[s][i].n < queue[s][j].n
                      /\ \A n \in queue[s][i].n .. LastPushed(queue[s][i].from, s) :
                             \E j \in DOMAIN queue[s] :
                                 queue[s][j].from = queue[s][i].from /\ queue[s][j].n = n
    BY DEF KeepsTheNewest
  <1> DEFINE n == queue[s][i].n
             a == seen[s][queue[s][i].from]
             b == LastPushed(queue[s][i].from, s)
  <1>1. /\ n \in Nat /\ a \in Nat /\ b \in Int /\ DOMAIN queue[s] = 1 .. Len(queue[s])
        /\ queue[s][i].from \in Publisher
    BY QueueTypes DEF QueueTyped
  <1>2. Newest(queue[s], seen[s], Pushed(s)) /\ Pushed(s)[queue[s][i].from] = b
    BY <1>1 DEF NewestOfEach, Pushed
  <1>3. n > a /\ n <= b
    BY <1>1, <1>2 DEF Newest, NewestAt
  <1>4. n \in a + 1 .. b
    <2> HIDE DEF n, a, b
    <2> QED BY <1>1, <1>3
  <1> QED BY <1>1, <1>2, <1>4 DEF Newest, NewestAt

(* What is left when the k oldest are gone is still the newest.            *)
LEMMA DropNewest ==
  ASSUME NEW q \in Seq(Event), NEW k \in 0 .. Len(q), NEW low, NEW last \in [Publisher -> Int],
         Newest(q, low, last),
         NEW r, Len(r) = Len(q) - k, \A i \in 1 .. Len(q) - k : r[i] = q[k + i]
  PROVE  Newest(r, low, last)
  <1> DEFINE n == Len(q)
  <1>1. n \in Nat /\ k \in Nat /\ k <= n /\ \A i \in 1 .. n : q[i].from \in Publisher /\ q[i].n \in Nat
    <2>1. n \in Nat /\ \A i \in 1 .. n : q[i] \in Event OBVIOUS
    <2>2. \A ev \in Event : ev.from \in Publisher /\ ev.n \in Nat BY BusAssumption DEF Event
    <2>3. k \in Nat /\ k <= n BY <2>1
    <2> HIDE DEF n
    <2> QED BY <2>1, <2>2, <2>3
  <1> SUFFICES ASSUME NEW i \in 1 .. n - k PROVE NewestAt(r, i, low, last)
    BY DEF Newest
  <1> HIDE DEF n
  <1>2. k + i \in 1 .. n /\ r[i] = q[k + i] BY <1>1 DEF n
  <1> DEFINE e == q[k + i]
  <1>3. /\ low[e.from] < e.n /\ e.n <= last[e.from]
        /\ \A j \in 1 .. n : q[j].from = e.from /\ k + i < j => e.n < q[j].n
        /\ \A m \in e.n .. last[e.from] : \E j \in 1 .. n : q[j].from = e.from /\ q[j].n = m
    BY <1>2 DEF Newest, NewestAt, n
  <1>4. \A j \in 1 .. n : q[j].from = e.from /\ j < k + i => q[j].n < e.n
    BY <1>2 DEF Newest, NewestAt, n
  <1>5. e.n \in Nat /\ e.from \in Publisher BY <1>1, <1>2
  <1> HIDE DEF e
  <1>6. ASSUME NEW j \in 1 .. n - k, r[j].from = e.from, i < j PROVE e.n < r[j].n
    <2>1. k + j \in 1 .. n /\ k + i < k + j /\ r[j] = q[k + j] BY <1>6, <1>1 DEF n
    <2> QED BY <2>1, <1>3, <1>6
  <1>7. ASSUME NEW m \in e.n .. last[e.from]
        PROVE  \E j \in 1 .. n - k : r[j].from = e.from /\ r[j].n = m
    <2>1. PICK j \in 1 .. n : q[j].from = e.from /\ q[j].n = m BY <1>3
    <2>2. m \in Int /\ e.n <= m /\ q[j].n \in Nat BY <1>1, <1>5
    <2>3. ~(j < k + i) BY <2>1, <2>2, <1>4, <1>5
    <2>4. j - k \in 1 .. n - k /\ k + (j - k) = j BY <2>3, <1>1
    <2>5. r[j - k] = q[j]
      <3>1. r[j - k] = q[k + (j - k)] BY <2>4 DEF n
      <3> QED BY <3>1, <2>4
    <2> QED BY <2>1, <2>4, <2>5
  <1>8. Len(r) = n - k BY DEF n
  <1>9. r[i] = e BY <1>2 DEF e
  <1> QED BY <1>3, <1>6, <1>7, <1>8, <1>9 DEF NewestAt

(* The next event of its publisher, at the end.                            *)
LEMMA AppendNewest ==
  ASSUME NEW q \in Seq(Event), NEW low \in [Publisher -> Nat], NEW last \in [Publisher -> Int],
         Newest(q, low, last), NEW ev \in Event,
         ev.n = last[ev.from] + 1, low[ev.from] <= last[ev.from]
  PROVE  Newest(Append(q, ev), low, [last EXCEPT ![ev.from] = ev.n])
  <1> DEFINE n == Len(q)
             a == Append(q, ev)
             new == [last EXCEPT ![ev.from] = ev.n]
  <1>1. /\ n \in Nat /\ Len(a) = n + 1 /\ a[n + 1] = ev /\ \A i \in 1 .. n : a[i] = q[i]
        /\ \A i \in 1 .. n : q[i] \in Event
    OBVIOUS
  <1>2. \A e \in Event : e.from \in Publisher /\ e.n \in Nat
    BY BusAssumption DEF Event
  <1>3. /\ \A p \in Publisher : p # ev.from => new[p] = last[p]
        /\ new[ev.from] = ev.n /\ last[ev.from] \in Int /\ ev.n \in Nat
    BY <1>2
  <1>4. \A i \in 1 .. n :
            /\ low[q[i].from] < q[i].n /\ q[i].n <= last[q[i].from]
            /\ \A j \in 1 .. n : q[j].from = q[i].from /\ i < j => q[i].n < q[j].n
            /\ \A m \in q[i].n .. last[q[i].from] :
                   \E j \in 1 .. n : q[j].from = q[i].from /\ q[j].n = m
    BY DEF Newest, NewestAt
  <1> HIDE DEF n, a, new
  <1> SUFFICES ASSUME NEW i \in 1 .. n + 1 PROVE NewestAt(a, i, low, new)
    BY <1>1 DEF Newest, a, new
  <1>5. CASE i = n + 1
    <2>1. a[i] = ev /\ low[ev.from] \in Nat BY <1>5, <1>1, <1>2
    <2>2. low[ev.from] < ev.n /\ ev.n <= new[ev.from] BY <2>1, <1>3
    <2>3. \A j \in 1 .. n + 1 : ~(i < j) BY <1>5, <1>1
    <2>4. \A m \in ev.n .. new[ev.from] : m = ev.n BY <1>3
    <2> QED BY <2>1, <2>2, <2>3, <2>4, <1>1 DEF NewestAt
  <1>6. CASE i \in 1 .. n
    <2> DEFINE e == q[i]
    <2>1. a[i] = e /\ e.from \in Publisher /\ e.n \in Nat /\ last[e.from] \in Int
      BY <1>6, <1>1, <1>2
    <2>2. /\ low[e.from] < e.n /\ e.n <= last[e.from]
          /\ \A j \in 1 .. n : q[j].from = e.from /\ i < j => e.n < q[j].n
          /\ \A m \in e.n .. last[e.from] : \E j \in 1 .. n : q[j].from = e.from /\ q[j].n = m
      BY <1>6, <1>4
    <2> HIDE DEF e
    <2>3. e.n <= new[e.from] /\ new[e.from] \in Int
      <3>1. CASE e.from = ev.from BY <3>1, <2>1, <2>2, <1>3
      <3>2. CASE e.from # ev.from BY <3>2, <2>1, <2>2, <1>3
      <3> QED BY <3>1, <3>2
    <2>4. ASSUME NEW j \in 1 .. n + 1, a[j].from = e.from, i < j PROVE e.n < a[j].n
      <3>1. CASE j \in 1 .. n BY <3>1, <2>2, <2>4, <1>1
      <3>2. CASE j = n + 1 BY <3>2, <2>1, <2>2, <2>4, <1>1, <1>3
      <3> QED BY <3>1, <3>2, <1>1
    <2>5. ASSUME NEW m \in e.n .. new[e.from]
          PROVE  \E j \in 1 .. n + 1 : a[j].from = e.from /\ a[j].n = m
      <3>1. CASE m \in e.n .. last[e.from]
        <4>1. PICK j \in 1 .. n : q[j].from = e.from /\ q[j].n = m BY <3>1, <2>2
        <4>2. j \in 1 .. n + 1 /\ a[j] = q[j] BY <1>1
        <4> QED BY <4>1, <4>2
      <3>2. CASE m \notin e.n .. last[e.from]
        <4>1. e.from = ev.from /\ m = ev.n BY <3>2, <2>1, <1>3
        <4>2. n + 1 \in 1 .. n + 1 BY <1>1
        <4> QED BY <4>1, <4>2, <1>1
      <3> QED BY <3>1, <3>2
    <2> QED BY <2>1, <2>2, <2>3, <2>4, <2>5, <1>1 DEF NewestAt
  <1> QED BY <1>5, <1>6, <1>1

-----------------------------------------------------------------------------
(* Nothing was pushed before the first subscription.                       *)
LEMMA BusInitInv == BusInit => BusIInv
  <1> SUFFICES ASSUME BusInit PROVE BusIInv
    OBVIOUS
  <1> USE BusAssumption DEF BusInit
  <1>1. BusTypeOK /\ IsFiniteSet(subs)
    BY FS_EmptySet DEF BusTypeOK
  <1>2. QueueBounded
    <2>1. \A s \in Sub : queue[s] = <<>> /\ bytes[s] = 0 OBVIOUS
    <2> QED BY <2>1, SumEmpty DEF QueueBounded
  <1>3. NoSilentLoss /\ Handles
    BY DEF NoSilentLoss, Handles
  <1>4. ReadBefore
    BY DEF ReadBefore, LastPushed
  <1>5. NewestOfEach
    BY DEF NewestOfEach
  <1> QED BY <1>1, <1>2, <1>3, <1>4, <1>5 DEF BusIInv

(* The types of what belongs to the subscriptions.                         *)
SubTyped ==
    /\ subs \subseteq Sub /\ Cardinality(subs) <= MaxSubscribers
    /\ hub \in [Sub -> {"none", "open", "leaving", "closed"}]
    /\ onFull \in [Sub -> {"drop_oldest", "error"}]
    /\ queue \in [Sub -> Seq(Event)] /\ error \in [Sub -> BOOLEAN]
    /\ bytes \in [Sub -> Nat] /\ dropped \in [Sub -> Nat]
    /\ received \in [Sub -> Nat] /\ taken \in [Sub -> Nat]
    /\ seen \in [Sub -> [Publisher -> Nat]]

(* A step that leaves the publishers alone and takes no handle back to     *)
(* "none" keeps the types if it keeps those of the subscriptions.          *)
LEMMA BusTypesKept ==
  ASSUME BusTypeOK, UNCHANGED <<sent, event, targets>>, SubTyped',
         \A t \in Sub : hub[t] # "none" => hub'[t] # "none"
  PROVE  BusTypeOK'
  <1>1. /\ sent' \in [Publisher -> 0 .. MaxEvents]
        /\ event' \in [Publisher -> [from : Publisher, n : 0 .. MaxEvents, size : Nat]]
        /\ targets' \in [Publisher -> SUBSET Sub]
    BY DEF BusTypeOK
  <1>2. ASSUME NEW p \in Publisher, targets[p] # {}
        PROVE  /\ event[p] \in Event /\ event[p].from = p /\ event[p].n = sent[p]
               /\ \A s \in targets[p] : hub'[s] # "none"
    <2>1. /\ event[p] \in Event /\ event[p].from = p /\ event[p].n = sent[p]
          /\ \A s \in targets[p] : hub[s] # "none"
      BY <1>2 DEF BusTypeOK
    <2>2. targets[p] \subseteq Sub BY DEF BusTypeOK
    <2> QED BY <2>1, <2>2
  <1>3. (\A f \in {bytes, dropped, received, taken} : f \in [Sub -> Nat])' BY DEF SubTyped
  <1>4. (\A p \in Publisher : targets[p] # {} =>
            /\ event[p] \in Event /\ event[p].from = p /\ event[p].n = sent[p]
            /\ \A s \in targets[p] : hub[s] # "none")'
    BY <1>2
  <1> QED BY <1>1, <1>3, <1>4 DEF BusTypeOK, SubTyped

(* A subscription opens on an empty queue.                                 *)
LEMMA SubscribeInv ==
  ASSUME BusIInv, NEW s \in Sub, NEW policy \in {"drop_oldest", "error"}, Subscribe(s, policy)
  PROVE  BusIInv'
  <1> USE DEF Subscribe, subQueue
  <1>1. BusTypeOK' /\ IsFiniteSet(subs')
    <2>1. IsFiniteSet(subs') /\ Cardinality(subs') <= Cardinality(subs) + 1
      <3>1. IsFiniteSet(subs) /\ s \notin subs /\ subs' = subs \cup {s}
        BY DEF BusIInv, Handles
      <3>2. IsFiniteSet(subs \cup {s}) /\ Cardinality(subs \cup {s}) = Cardinality(subs) + 1
        BY <3>1, FS_AddElement
      <3>3. Cardinality(subs) \in Nat BY <3>1, FS_CardinalityType
      <3> QED BY <3>1, <3>2, <3>3
    <2>2. Cardinality(subs') <= MaxSubscribers
      BY <2>1, BusAssumption, FS_CardinalityType DEF BusIInv
    <2>3. subs' \subseteq Sub /\ hub' \in [Sub -> {"none", "open", "leaving", "closed"}]
          /\ onFull' \in [Sub -> {"drop_oldest", "error"}]
          /\ \A t \in Sub : hub[t] # "none" => hub'[t] # "none"
      BY DEF BusIInv, BusTypeOK
    <2>4. BusTypeOK /\ IsFiniteSet(subs) /\ SubTyped BY DEF BusIInv, BusTypeOK, SubTyped
    <2>5. SubTyped' BY <2>1, <2>2, <2>3, <2>4 DEF SubTyped
    <2> QED BY <2>1, <2>2, <2>3, <2>4, <2>5, BusTypesKept
  <1>2. QueueBounded' BY DEF BusIInv, QueueBounded
  <1>3. NoSilentLoss'
    <2>1. \A t \in Sub \ {s} : hub'[t] = hub[t] /\ onFull'[t] = onFull[t]
      BY DEF BusIInv, BusTypeOK
    <2>2. received[s] = 0 /\ taken[s] = 0 /\ dropped[s] = 0 /\ queue[s] = <<>>
      BY DEF BusIInv, Handles
    <2>3. Len(<<>>) = 0 OBVIOUS
    <2> QED BY <2>1, <2>2, <2>3 DEF BusIInv, NoSilentLoss
  <1>4. Handles' BY DEF BusIInv, BusTypeOK, Handles
  <1>5. ReadBefore' BY DEF BusIInv, ReadBefore, LastPushed
  <1>6. NewestOfEach'
    <2> SUFFICES ASSUME NEW t \in Sub, hub'[t] = "open"
                 PROVE  Newest(queue[t], seen[t], Pushed(t))
      BY DEF NewestOfEach, Pushed, LastPushed
    <2>1. CASE t = s
      <3>1. queue[t] = <<>> BY <2>1 DEF BusIInv, Handles
      <3> QED BY <3>1, SumEmpty DEF Newest, NewestAt
    <2>2. CASE t # s
      BY <2>2 DEF BusIInv, BusTypeOK, NewestOfEach
    <2> QED BY <2>1, <2>2
  <1> QED BY <1>1, <1>2, <1>3, <1>4, <1>5, <1>6 DEF BusIInv

(* Whoever leaves the bus only closes its handle.                          *)
LEMMA LeaveInv ==
  ASSUME BusIInv, NEW s \in Sub, Unsubscribe(s) \/ Leave(s)
  PROVE  BusIInv'
  <1>1. /\ subs' = subs \ {s} /\ hub' = [hub EXCEPT ![s] = "closed"] /\ hub[s] # "none"
        /\ UNCHANGED <<onFull, queue, bytes, error, dropped, received, taken, seen, sent,
                       event, targets>>
    BY DEF Unsubscribe, Leave, subQueue
  <1>2. BusTypeOK' /\ IsFiniteSet(subs')
    <2>1. subs' \subseteq subs BY <1>1
    <2>2. IsFiniteSet(subs') /\ Cardinality(subs') <= Cardinality(subs)
          /\ Cardinality(subs) \in Nat /\ Cardinality(subs') \in Nat
      BY <2>1, FS_Subset, FS_CardinalityType DEF BusIInv
    <2>3. Cardinality(subs') <= MaxSubscribers
      BY <2>2, BusAssumption DEF BusIInv, BusTypeOK
    <2>4. subs' \subseteq Sub /\ hub' \in [Sub -> {"none", "open", "leaving", "closed"}]
          /\ \A t \in Sub : hub[t] # "none" => hub'[t] # "none"
      BY <1>1 DEF BusIInv, BusTypeOK
    <2> QED BY <1>1, <2>2, <2>3, <2>4 DEF BusIInv, BusTypeOK
  <1>3. \A t \in Sub : hub'[t] # "closed" => hub'[t] = hub[t] /\ t # s
    BY <1>1 DEF BusIInv, BusTypeOK
  <1>4. QueueBounded' BY <1>1 DEF BusIInv, QueueBounded
  <1>5. NoSilentLoss' /\ Handles' BY <1>1, <1>3 DEF BusIInv, NoSilentLoss, Handles
  <1>6. ReadBefore' BY <1>1 DEF BusIInv, ReadBefore, LastPushed
  <1>7. NewestOfEach' BY <1>1, <1>3 DEF BusIInv, NewestOfEach, Pushed, LastPushed
  <1> QED BY <1>2, <1>4, <1>5, <1>6, <1>7 DEF BusIInv

(* The last event pushed of a publisher moves only with a push to it, or   *)
(* while it is not on the bus.                                             *)
LEMMA PublishInv ==
  ASSUME BusIInv, NEW p \in Publisher, NEW size \in Size, Publish(p, size)
  PROVE  BusIInv'
  <1>1. /\ targets[p] = {} /\ sent[p] < MaxEvents
        /\ sent' = [sent EXCEPT ![p] = sent[p] + 1]
        /\ event' = [event EXCEPT ![p] = [from |-> p, n |-> sent[p] + 1, size |-> size]]
        /\ targets' = [targets EXCEPT ![p] = subs]
        /\ UNCHANGED <<subs, hub, onFull, queue, bytes, error, dropped, received, taken, seen>>
    BY DEF Publish, subQueue
  <1>2. sent[p] \in Nat /\ sent[p] + 1 \in 1 .. MaxEvents /\ size \in Nat
    BY <1>1, BusAssumption DEF BusIInv, BusTypeOK
  <1>3. BusTypeOK' /\ IsFiniteSet(subs')
    <2>1. [from |-> p, n |-> sent[p] + 1, size |-> size] \in Event
      BY <1>2 DEF Event
    <2>2. /\ sent' \in [Publisher -> 0 .. MaxEvents]
          /\ targets' \in [Publisher -> SUBSET Sub]
          /\ event' \in [Publisher -> [from : Publisher, n : 0 .. MaxEvents, size : Nat]]
      BY <1>1, <1>2 DEF BusIInv, BusTypeOK
    <2>3. ASSUME NEW o \in Publisher, targets'[o] # {}
          PROVE  /\ event'[o] \in Event /\ event'[o].from = o /\ event'[o].n = sent'[o]
                 /\ \A s \in targets'[o] : hub'[s] # "none"
      <3>1. CASE o = p
        <4>1. event'[p] = [from |-> p, n |-> sent[p] + 1, size |-> size] /\ sent'[p] = sent[p] + 1
              /\ targets'[p] = subs
          BY <1>1 DEF BusIInv, BusTypeOK
        <4>2. \A s \in subs : hub[s] # "none" BY DEF BusIInv, BusTypeOK, Handles
        <4> QED BY <3>1, <4>1, <4>2, <2>1, <1>1
      <3>2. CASE o # p
        <4>1. event'[o] = event[o] /\ sent'[o] = sent[o] /\ targets'[o] = targets[o]
          BY <1>1, <3>2 DEF BusIInv, BusTypeOK
        <4> QED BY <4>1, <2>3, <1>1 DEF BusIInv, BusTypeOK
      <3> QED BY <3>1, <3>2
    <2> QED BY <1>1, <2>2, <2>3 DEF BusIInv, BusTypeOK
  <1>4. QueueBounded' BY <1>1 DEF BusIInv, QueueBounded
  <1>5. NoSilentLoss' /\ Handles' BY <1>1 DEF BusIInv, NoSilentLoss, Handles
  <1>6. ASSUME NEW o \in Publisher, NEW s \in Sub
        PROVE  /\ LastPushed(o, s)' \in Int /\ LastPushed(o, s) \in Int
               /\ LastPushed(o, s) <= LastPushed(o, s)'
               /\ s \in subs => LastPushed(o, s)' = LastPushed(o, s)
    <2>1. CASE o = p
      <3>1. sent'[p] = sent[p] + 1 /\ targets'[p] = subs BY <1>1 DEF BusIInv, BusTypeOK
      <3> QED BY <1>1, <1>2, <2>1, <3>1 DEF LastPushed
    <2>2. CASE o # p
      <3>1. sent'[o] = sent[o] /\ targets'[o] = targets[o] /\ sent[o] \in Nat
        BY <1>1, <2>2 DEF BusIInv, BusTypeOK
      <3> QED BY <3>1 DEF LastPushed
    <2> QED BY <2>1, <2>2
  <1>7. ReadBefore'
    <2> SUFFICES ASSUME NEW s \in Sub, NEW o \in Publisher
                 PROVE  seen'[s][o] <= LastPushed(o, s)'
      BY DEF ReadBefore
    <2>1. seen'[s][o] = seen[s][o] /\ seen[s][o] \in Nat BY <1>1 DEF BusIInv, BusTypeOK
    <2>2. seen[s][o] <= LastPushed(o, s) BY DEF BusIInv, ReadBefore
    <2> QED BY <2>1, <2>2, <1>6
  <1>8. NewestOfEach'
    <2> SUFFICES ASSUME NEW s \in Sub, hub'[s] = "open"
                 PROVE  Newest(queue'[s], seen'[s], Pushed(s)')
      BY DEF NewestOfEach
    <2>1. /\ Newest(queue[s], seen[s], Pushed(s)) /\ s \in subs
          /\ queue'[s] = queue[s] /\ seen'[s] = seen[s]
      BY <1>1 DEF BusIInv, NewestOfEach, Handles
    <2>2. Pushed(s)' = Pushed(s)
      BY <2>1, <1>6 DEF Pushed
    <2> QED BY <2>1, <2>2
  <1> QED BY <1>3, <1>4, <1>5, <1>7, <1>8 DEF BusIInv

(* An error read leaves an empty queue and a handle about to leave.        *)
LEMMA RecvErrorInv ==
  ASSUME BusIInv, NEW s \in Sub, RecvError(s)
  PROVE  BusIInv'
  <1>1. /\ error' = [error EXCEPT ![s] = FALSE] /\ hub' = [hub EXCEPT ![s] = "leaving"]
        /\ hub[s] = "open"
        /\ UNCHANGED <<subs, onFull, queue, bytes, dropped, received, taken, seen, sent, event,
                       targets>>
    BY DEF RecvError
  <1>2. BusTypeOK' /\ IsFiniteSet(subs')
    <2>1. error' \in [Sub -> BOOLEAN] /\ hub' \in [Sub -> {"none", "open", "leaving", "closed"}]
          /\ \A t \in Sub : hub[t] # "none" => hub'[t] # "none"
      BY <1>1 DEF BusIInv, BusTypeOK
    <2>2. BusTypeOK /\ IsFiniteSet(subs) /\ SubTyped BY DEF BusIInv, BusTypeOK, SubTyped
    <2>3. SubTyped' BY <1>1, <2>1, <2>2 DEF SubTyped
    <2> QED BY <1>1, <2>1, <2>2, <2>3, BusTypesKept
  <1>3. \A t \in Sub : /\ hub'[t] # "leaving" => hub'[t] = hub[t] /\ error'[t] = error[t]
                       /\ error'[t] => error[t]
    BY <1>1 DEF BusIInv, BusTypeOK
  <1>4. QueueBounded' BY <1>1 DEF BusIInv, QueueBounded
  <1>5. NoSilentLoss' BY <1>1, <1>3 DEF BusIInv, NoSilentLoss
  <1>6. Handles' BY <1>1, <1>3 DEF BusIInv, Handles
  <1>7. ReadBefore' BY <1>1 DEF BusIInv, ReadBefore, LastPushed
  <1>8. NewestOfEach' BY <1>1, <1>3 DEF BusIInv, NewestOfEach, Pushed, LastPushed
  <1> QED BY <1>2, <1>4, <1>5, <1>6, <1>7, <1>8 DEF BusIInv

(* What a read leaves of one queue.                                        *)
LEMMA RecvTakes ==
  ASSUME BusIInv, NEW s \in Sub, Recv(s)
  PROVE  /\ hub[s] = "open" /\ Len(queue[s]) > 0 /\ ~error[s]
         /\ queue'[s] \in Seq(Event) /\ Len(queue'[s]) = Len(queue[s]) - 1
         /\ \A i \in 1 .. Len(queue[s]) - 1 : queue'[s][i] = queue[s][i + 1]
         /\ bytes'[s] \in Nat /\ bytes'[s] = SumOfSizes(queue'[s]) /\ bytes'[s] <= bytes[s]
         /\ taken'[s] = taken[s] + 1
         /\ seen'[s] = [seen[s] EXCEPT ![queue[s][1].from] = queue[s][1].n]
         /\ \A t \in Sub \ {s} : /\ queue'[t] = queue[t] /\ bytes'[t] = bytes[t]
                                 /\ taken'[t] = taken[t] /\ seen'[t] = seen[t]
         /\ UNCHANGED <<subs, hub, onFull, error, dropped, received, sent, event, targets>>
  <1> USE DEF Recv
  <1>1. queue[s] \in Seq(Event) /\ queue[s] # <<>> BY DEF BusIInv, BusTypeOK
  <1>2. /\ Len(queue[s]) > 0 /\ Head(queue[s]) = queue[s][1] /\ Head(queue[s]) \in Event
        /\ Tail(queue[s]) \in Seq(Event) /\ Len(Tail(queue[s])) = Len(queue[s]) - 1
        /\ \A i \in 1 .. Len(queue[s]) - 1 : Tail(queue[s])[i] = queue[s][i + 1]
    BY <1>1
  <1>3. queue'[s] = Tail(queue[s]) /\ \A t \in Sub \ {s} : queue'[t] = queue[t]
    BY DEF BusIInv, BusTypeOK
  <1>4. /\ bytes[s] = SumOfSizes(queue[s]) /\ Head(queue[s]).size \in Nat
        /\ SumOfSizes(queue[s]) = Head(queue[s]).size + SumOfSizes(Tail(queue[s]))
        /\ SumOfSizes(Tail(queue[s])) \in Nat
    BY <1>1, <1>2, SumTail, SumType, SizeType DEF BusIInv, QueueBounded
  <1>5. /\ bytes'[s] = Minus(bytes[s], Head(queue[s]).size)
        /\ \A t \in Sub \ {s} : bytes'[t] = bytes[t]
    BY DEF BusIInv, BusTypeOK
  <1>6. bytes'[s] = SumOfSizes(Tail(queue[s])) /\ bytes'[s] <= bytes[s] /\ bytes'[s] \in Nat
    BY <1>4, <1>5 DEF Minus
  <1>7. taken'[s] = taken[s] + 1 /\ \A t \in Sub \ {s} : taken'[t] = taken[t]
    BY DEF BusIInv, BusTypeOK
  <1>8. /\ seen'[s] = [seen[s] EXCEPT ![queue[s][1].from] = queue[s][1].n]
        /\ \A t \in Sub \ {s} : seen'[t] = seen[t]
    BY <1>2 DEF BusIInv, BusTypeOK
  <1>9. ~error[s] BY <1>1 DEF BusIInv, Handles
  <1>10. /\ queue'[s] \in Seq(Event) /\ Len(queue'[s]) = Len(queue[s]) - 1
         /\ \A i \in 1 .. Len(queue[s]) - 1 : queue'[s][i] = queue[s][i + 1]
         /\ bytes'[s] = SumOfSizes(queue'[s])
    BY <1>2, <1>3, <1>6
  <1>11. hub[s] = "open" /\ UNCHANGED <<subs, hub, onFull, error, dropped, received, sent, event,
                                        targets>>
    OBVIOUS
  <1> HIDE DEF Recv
  <1> QED BY <1>2, <1>3, <1>5, <1>6, <1>7, <1>8, <1>9, <1>10, <1>11

(* A read takes the oldest event.                                          *)
LEMMA RecvInv ==
  ASSUME BusIInv, NEW s \in Sub, Recv(s)
  PROVE  BusIInv'
  <1> DEFINE q == queue[s]
             r == queue'[s]
             f == q[1].from
  <1>1. /\ hub[s] = "open" /\ Len(q) > 0 /\ ~error[s]
        /\ r \in Seq(Event) /\ Len(r) = Len(q) - 1
        /\ \A i \in 1 .. Len(q) - 1 : r[i] = q[i + 1]
        /\ bytes'[s] \in Nat /\ bytes'[s] = SumOfSizes(r) /\ bytes'[s] <= bytes[s]
        /\ taken'[s] = taken[s] + 1
        /\ seen'[s] = [seen[s] EXCEPT ![f] = q[1].n]
    BY RecvTakes
  <1>2. /\ \A t \in Sub \ {s} : /\ queue'[t] = queue[t] /\ bytes'[t] = bytes[t]
                                /\ taken'[t] = taken[t] /\ seen'[t] = seen[t]
        /\ UNCHANGED <<subs, hub, onFull, error, dropped, received, sent, event, targets>>
    BY RecvTakes
  <1>3. /\ Len(q) \in Nat /\ DOMAIN q = 1 .. Len(q) /\ DOMAIN r = 1 .. Len(q) - 1
        /\ \A i \in 1 .. Len(q) : q[i].from \in Publisher /\ q[i].n \in Nat
        /\ \A p \in Publisher : LastPushed(p, s) \in Int /\ seen[s][p] \in Nat
        /\ bytes[s] \in Nat /\ dropped[s] \in Nat /\ received[s] \in Nat /\ taken[s] \in Nat
    <2>1. QueueTyped BY QueueTypes DEF BusIInv
    <2>2. DOMAIN r = 1 .. Len(r) BY <1>1
    <2> QED BY <2>1, <2>2, <1>1 DEF QueueTyped
  <1>4. 1 \in 1 .. Len(q) /\ f \in Publisher /\ q[1].n \in Nat
    <2>1. 1 \in 1 .. Len(q) BY <1>1, <1>3
    <2> QED BY <2>1, <1>3
  <1>5. \A p \in Publisher : /\ seen'[s][p] = IF p = f THEN q[1].n ELSE seen[s][p]
                             /\ seen'[s][p] \in Nat
    <2>1. seen[s] \in [Publisher -> Nat] BY DEF BusIInv, BusTypeOK
    <2> QED BY <2>1, <1>1, <1>4
  <1>6. \A p, t : LastPushed(p, t)' = LastPushed(p, t) BY <1>2 DEF LastPushed
  <1>7. Newest(q, seen[s], Pushed(s)) BY <1>1 DEF BusIInv, NewestOfEach
  <1> HIDE DEF q, r, f
  <1>8. BusTypeOK' /\ IsFiniteSet(subs')
    <2>1. queue' \in [Sub -> Seq(Event)] /\ bytes' \in [Sub -> Nat] /\ taken' \in [Sub -> Nat]
      <3>1. DOMAIN queue' = Sub /\ DOMAIN bytes' = Sub /\ DOMAIN taken' = Sub
            /\ (\E x : queue' = [queue EXCEPT ![s] = x]) /\ (\E x : bytes' = [bytes EXCEPT ![s] = x])
            /\ taken' = [taken EXCEPT ![s] = taken[s] + 1]
        BY DEF Recv, BusIInv, BusTypeOK
      <3>2. \A t \in Sub : queue'[t] \in Seq(Event) /\ bytes'[t] \in Nat
        BY <1>1, <1>2 DEF BusIInv, BusTypeOK, r
      <3>3. taken' \in [Sub -> Nat] BY <3>1 DEF BusIInv, BusTypeOK
      <3>4. queue' \in [Sub -> Seq(Event)] BY <3>1, <3>2 DEF BusIInv, BusTypeOK
      <3>5. bytes' \in [Sub -> Nat] BY <3>1, <3>2 DEF BusIInv, BusTypeOK
      <3> QED BY <3>3, <3>4, <3>5
    <2>2. seen' \in [Sub -> [Publisher -> Nat]]
      <3>1. PICK x : seen' = [seen EXCEPT ![s] = x]
        BY DEF Recv
      <3>2. seen'[s] \in [Publisher -> Nat]
        BY <1>1, <1>4 DEF BusIInv, BusTypeOK
      <3> QED BY <3>1, <3>2 DEF BusIInv, BusTypeOK
    <2>3. BusTypeOK /\ IsFiniteSet(subs) /\ SubTyped BY DEF BusIInv, BusTypeOK, SubTyped
    <2>4. SubTyped' BY <1>2, <2>1, <2>2, <2>3 DEF SubTyped
    <2> QED BY <1>2, <2>1, <2>2, <2>3, <2>4, BusTypesKept
  <1>9. QueueBounded'
    <2> SUFFICES ASSUME NEW t \in Sub
                 PROVE  /\ Len(queue'[t]) <= MaxQueue /\ bytes'[t] = SumOfSizes(queue'[t])
                        /\ bytes'[t] > MaxBytes => Len(queue'[t]) = 1
      BY DEF QueueBounded
    <2>1. CASE t # s BY <2>1, <1>2 DEF BusIInv, QueueBounded
    <2>2. CASE t = s
      <3>1. Len(q) <= MaxQueue /\ (bytes[s] > MaxBytes => Len(q) = 1) /\ MaxQueue \in Nat
            /\ MaxBytes \in Nat
        BY BusAssumption DEF BusIInv, QueueBounded, q
      <3>2. Len(r) <= MaxQueue BY <3>1, <1>1, <1>3
      <3>3. bytes'[s] <= MaxBytes
        <4>1. CASE bytes[s] <= MaxBytes BY <4>1, <3>1, <1>1, <1>3
        <4>2. CASE bytes[s] > MaxBytes
          <5>1. Len(r) = 0 BY <4>2, <3>1, <1>1
          <5>2. r = <<>> BY <5>1, <1>1
          <5> QED BY <5>2, <1>1, <3>1, SumEmpty
        <4> QED BY <4>1, <4>2, <3>1, <1>3
      <3> QED BY <2>2, <3>1, <3>2, <3>3, <1>1 DEF r
    <2> QED BY <2>1, <2>2
  <1>10. NoSilentLoss'
    <2> SUFFICES ASSUME NEW t \in Sub
                 PROVE  /\ hub'[t] = "open" =>
                              error'[t] \/ received'[t] = taken'[t] + Len(queue'[t]) + dropped'[t]
                        /\ onFull'[t] = "error" => dropped'[t] = 0
      BY DEF NoSilentLoss
    <2>1. CASE t # s BY <2>1, <1>2 DEF BusIInv, NoSilentLoss
    <2>2. CASE t = s
      <3>1. received[s] = taken[s] + Len(q) + dropped[s] /\ (onFull[s] = "error" => dropped[s] = 0)
        BY <1>1 DEF BusIInv, NoSilentLoss, q
      <3>2. Len(q) \in Nat /\ taken[s] \in Nat /\ dropped[s] \in Nat BY <1>3
      <3>3. received[s] = (taken[s] + 1) + (Len(q) - 1) + dropped[s] BY <3>1, <3>2
      <3>4. Len(queue'[s]) = Len(q) - 1 /\ taken'[s] = taken[s] + 1 BY <1>1 DEF r
      <3> QED BY <2>2, <3>1, <3>3, <3>4, <1>2
    <2> QED BY <2>1, <2>2
  <1>11. Handles' BY <1>1, <1>2 DEF BusIInv, Handles
  <1>12. ReadBefore'
    <2> SUFFICES ASSUME NEW t \in Sub, NEW p \in Publisher
                 PROVE  seen'[t][p] <= LastPushed(p, t)'
      BY DEF ReadBefore
    <2>1. seen[t][p] <= LastPushed(p, t) BY DEF BusIInv, ReadBefore
    <2>2. CASE t # s BY <2>1, <2>2, <1>2, <1>6
    <2>3. CASE t = s /\ p # f BY <2>1, <2>3, <1>5, <1>6
    <2>4. CASE t = s /\ p = f
      <3>1. q[1].n <= LastPushed(f, s) BY <1>4, <1>7 DEF Newest, NewestAt, Pushed, f
      <3> QED BY <2>4, <3>1, <1>5, <1>6
    <2> QED BY <2>2, <2>3, <2>4
  <1>13. NewestOfEach'
    <2> SUFFICES ASSUME NEW t \in Sub, hub'[t] = "open"
                 PROVE  Newest(queue'[t], seen'[t], Pushed(t))
      BY <1>6 DEF NewestOfEach, Pushed
    <2>1. CASE t # s
      BY <2>1, <1>2 DEF BusIInv, NewestOfEach
    <2>2. CASE t = s
      <3>1. Newest(r, seen[s], Pushed(s))
        <4>1. PICK k \in 0 .. Len(q) : k = 1 BY <1>1, <1>3
        <4>2. Len(r) = Len(q) - k /\ \A i \in 1 .. Len(q) - k : r[i] = q[k + i]
          BY <4>1, <1>1, <1>3
        <4>3. q \in Seq(Event) /\ Pushed(s) \in [Publisher -> Int]
          BY <1>3 DEF BusIInv, BusTypeOK, q, Pushed
        <4> QED BY <4>2, <4>3, <1>7, DropNewest
      <3>2. ASSUME NEW i \in 1 .. Len(r) PROVE seen'[s][r[i].from] < r[i].n
        <4>1. i + 1 \in 1 .. Len(q) /\ 1 < i + 1 /\ r[i] = q[i + 1] BY <1>1, <1>3
        <4>2. r[i].from \in Publisher BY <4>1, <1>3
        <4>3. CASE r[i].from # f BY <4>2, <4>3, <3>1, <1>5 DEF Newest, NewestAt
        <4>4. CASE r[i].from = f
          <5>1. q[1].n < q[i + 1].n BY <4>1, <4>4, <1>4, <1>7 DEF Newest, NewestAt, f
          <5> QED BY <5>1, <4>1, <4>4, <1>4, <1>5
        <4> QED BY <4>3, <4>4
      <3> QED BY <2>2, <3>1, <3>2 DEF Newest, NewestAt, r
    <2> QED BY <2>1, <2>2
  <1> QED BY <1>8, <1>9, <1>10, <1>11, <1>12, <1>13 DEF BusIInv

(* How many events a full queue drops: no more than it has, enough for the *)
(* new one or all, and none when there is room.                            *)
LEMMA ShedIs ==
  ASSUME BusIInv, NEW s \in Sub, NEW size
  PROVE  /\ Shed(s, size) \in 0 .. Len(queue[s])
         /\ Shed(s, size) = Len(queue[s]) \/ Fits(s, Shed(s, size), size)
         /\ Fits(s, 0, size) => Shed(s, size) = 0
  <1> DEFINE n == Len(queue[s])
             T == {k \in Nat : k <= n /\ (k = n \/ Fits(s, k, size))}
             Good(k) == /\ k = n \/ Fits(s, k, size)
                        /\ \A i \in 0 .. k - 1 : ~Fits(s, i, size)
  <1>1. n \in Nat BY QueueTypes DEF BusIInv, QueueTyped
  <1> HIDE DEF n
  <1>2. PICK k \in T : \A m \in T : k <= m
    <2>1. T \in SUBSET Nat /\ n \in T BY <1>1
    <2> HIDE DEF T
    <2> QED BY <2>1, LeastNat
  <1>3. k \in 0 .. n /\ Good(k)
    <2>1. k \in Nat /\ k <= n /\ (k = n \/ Fits(s, k, size)) BY <1>2
    <2>2. ASSUME NEW i \in 0 .. k - 1, Fits(s, i, size) PROVE FALSE
      <3>1. i \in T /\ i < k BY <2>1, <2>2, <1>1
      <3> QED BY <3>1, <2>1, <1>2
    <2> QED BY <2>1, <2>2, <1>1
  <1>4. Shed(s, size) = CHOOSE m \in 0 .. n : Good(m) BY DEF Shed, n
  <1>5. Shed(s, size) \in 0 .. n /\ Good(Shed(s, size))
    <2> HIDE DEF Good
    <2> QED BY <1>3, <1>4
  <1>6. ASSUME Fits(s, 0, size), Shed(s, size) # 0 PROVE FALSE
    <2>1. 0 \in 0 .. Shed(s, size) - 1 BY <1>1, <1>5, <1>6
    <2> QED BY <2>1, <1>5, <1>6
  <1> QED BY <1>5, <1>6 DEF n

(* What the queue and the counter of bytes are when the k oldest are gone. *)
LEMMA BytesLeftIs ==
  ASSUME BusIInv, NEW s \in Sub, NEW k \in 0 .. Len(queue[s])
  PROVE  /\ SubSeq(queue[s], k + 1, Len(queue[s])) \in Seq(Event)
         /\ Len(SubSeq(queue[s], k + 1, Len(queue[s]))) = Len(queue[s]) - k
         /\ \A i \in 1 .. Len(queue[s]) - k :
                SubSeq(queue[s], k + 1, Len(queue[s]))[i] = queue[s][k + i]
         /\ BytesLeft(s, k) = SumOfSizes(SubSeq(queue[s], k + 1, Len(queue[s])))
         /\ BytesLeft(s, k) \in Nat
  <1> DEFINE q == queue[s]
             a == SubSeq(q, 1, k)
             b == SubSeq(q, k + 1, Len(q))
  <1>1. q \in Seq(Event) /\ bytes[s] = SumOfSizes(q)
    BY DEF BusIInv, BusTypeOK, QueueBounded
  <1>2. /\ a \in Seq(Event) /\ b \in Seq(Event) /\ Len(b) = Len(q) - k
        /\ \A i \in 1 .. Len(q) - k : b[i] = q[k + i]
        /\ SumOfSizes(q) = SumOfSizes(a) + SumOfSizes(b)
    BY <1>1, SumSplit
  <1>3. SumOfSizes(a) \in Nat /\ SumOfSizes(b) \in Nat BY <1>2, SumType
  <1>4. BytesLeft(s, k) = Minus(bytes[s], SumOfSizes(a)) BY DEF BytesLeft
  <1> HIDE DEF a, b, q
  <1>5. BytesLeft(s, k) = SumOfSizes(b) BY <1>1, <1>2, <1>3, <1>4 DEF Minus
  <1> QED BY <1>2, <1>3, <1>5 DEF a, b, q

(* What a push leaves alone, and that it counts as pushed.                 *)
LEMMA PushFrame ==
  ASSUME BusIInv, NEW p \in Publisher, NEW s \in Sub, Push(p, s)
  PROVE  /\ UNCHANGED <<subs, hub, onFull, taken, seen, sent, event>>
         /\ event[p] \in Event /\ event[p].from = p /\ hub[s] # "none"
         /\ event[p].n = LastPushed(p, s) + 1
         /\ targets' \in [Publisher -> SUBSET Sub]
         /\ \A o \in Publisher : targets'[o] \subseteq targets[o]
         /\ Pushed(s)' = [Pushed(s) EXCEPT ![p] = event[p].n]
         /\ \A t \in Sub \ {s} : Pushed(t)' = Pushed(t)
         /\ \A t \in Sub, o \in Publisher : LastPushed(o, t) <= LastPushed(o, t)'
  <1>1. /\ s \in targets[p] /\ targets' = [targets EXCEPT ![p] = targets[p] \ {s}]
        /\ UNCHANGED <<subs, hub, onFull, taken, seen, sent, event>>
    BY DEF Push
  <1>2. /\ event[p] \in Event /\ event[p].from = p /\ event[p].n = sent[p] /\ hub[s] # "none"
        /\ \A o \in Publisher : sent[o] \in Nat
    BY <1>1, BusAssumption DEF BusIInv, BusTypeOK
  <1>3. /\ targets' \in [Publisher -> SUBSET Sub]
        /\ targets'[p] = targets[p] \ {s} /\ \A o \in Publisher \ {p} : targets'[o] = targets[o]
    BY <1>1 DEF BusIInv, BusTypeOK
  <1>4. LastPushed(p, s) = sent[p] - 1 /\ LastPushed(p, s)' = sent[p]
    BY <1>1, <1>3 DEF LastPushed
  <1>5. \A o \in Publisher, t \in Sub : ~(o = p /\ t = s) => LastPushed(o, t)' = LastPushed(o, t)
    BY <1>1, <1>3 DEF LastPushed
  <1>6. \A o \in Publisher, t \in Sub : LastPushed(o, t) \in Int
    BY <1>2 DEF LastPushed
  <1>7. Pushed(s)' = [Pushed(s) EXCEPT ![p] = event[p].n]
    BY <1>2, <1>4, <1>5 DEF Pushed
  <1>8. \A t \in Sub \ {s} : Pushed(t)' = Pushed(t)
    BY <1>5 DEF Pushed
  <1>9. ASSUME NEW t \in Sub, NEW o \in Publisher PROVE LastPushed(o, t) <= LastPushed(o, t)'
    <2>1. CASE o = p /\ t = s BY <2>1, <1>2, <1>4
    <2>2. CASE ~(o = p /\ t = s) BY <2>2, <1>5, <1>6
    <2> QED BY <2>1, <2>2
  <1>10. event[p].n = LastPushed(p, s) + 1 BY <1>2, <1>4
  <1>11. \A o \in Publisher : targets'[o] \subseteq targets[o] BY <1>3
  <1> QED BY <1>1, <1>2, <1>3, <1>7, <1>8, <1>9, <1>10, <1>11

(* The new queue of an accepted event.                                     *)
LEMMA EnqueueIs ==
  ASSUME BusIInv, NEW p \in Publisher, NEW s \in Sub, Push(p, s), ~error[s],
         ~(onFull[s] = "error" /\ ~Fits(s, 0, event[p].size))
  PROVE  \E k \in 0 .. Len(queue[s]), r \in Seq(Event) :
            /\ onFull[s] = "error" => k = 0
            /\ queue' = [queue EXCEPT ![s] = r] /\ Len(r) = Len(queue[s]) - k + 1
            /\ hub[s] = "open" => Newest(r, seen[s], Pushed(s)')
            /\ bytes' = [bytes EXCEPT ![s] = SumOfSizes(r)] /\ SumOfSizes(r) \in Nat
            /\ Len(r) <= MaxQueue /\ (SumOfSizes(r) > MaxBytes => Len(r) = 1)
            /\ dropped' = [dropped EXCEPT ![s] = dropped[s] + k]
            /\ received' = [received EXCEPT ![s] = received[s] + 1]
            /\ UNCHANGED error
  <1> DEFINE q == queue[s]
             ev == event[p]
             k == Shed(s, ev.size)
             b == SubSeq(q, k + 1, Len(q))
             r == Append(b, ev)
  <1>1. /\ queue' = [queue EXCEPT ![s] = r]
        /\ bytes' = [bytes EXCEPT ![s] = BytesLeft(s, k) + ev.size]
        /\ dropped' = [dropped EXCEPT ![s] = dropped[s] + k] /\ UNCHANGED error
        /\ received' = [received EXCEPT ![s] = received[s] + 1]
    BY DEF Push, Enqueue
  <1>2. /\ k \in 0 .. Len(q) /\ (k = Len(q) \/ Fits(s, k, ev.size))
        /\ Fits(s, 0, ev.size) => k = 0
    BY ShedIs
  <1>3. q \in Seq(Event) /\ Len(q) \in Nat BY QueueTypes DEF BusIInv, QueueTyped
  <1>4. ev \in Event /\ ev.size \in Nat /\ ev.from = p /\ ev.n = LastPushed(p, s) + 1
    BY PushFrame, SizeType
  <1> HIDE DEF k, ev, q
  <1>5. /\ b \in Seq(Event) /\ Len(b) = Len(q) - k /\ BytesLeft(s, k) = SumOfSizes(b)
        /\ BytesLeft(s, k) \in Nat /\ \A i \in 1 .. Len(q) - k : b[i] = q[k + i]
    BY <1>2, BytesLeftIs DEF q
  <1> HIDE DEF b
  <1>6. r \in Seq(Event) /\ Len(r) = Len(q) - k + 1 BY <1>4, <1>5
  <1>7. SumOfSizes(r) = BytesLeft(s, k) + ev.size /\ SumOfSizes(r) \in Nat
    BY <1>4, <1>5, SumAppend
  <1>8. Len(r) <= MaxQueue /\ (SumOfSizes(r) > MaxBytes => Len(r) = 1)
    <2>1. MaxQueue \in Nat \ {0} /\ MaxBytes \in Nat BY BusAssumption
    <2>2. CASE k = Len(q) BY <2>1, <2>2, <1>3, <1>6
    <2>3. CASE Fits(s, k, ev.size)
      <3>1. Len(q) - k < MaxQueue /\ SumOfSizes(r) <= MaxBytes BY <2>3, <1>7 DEF Fits, q
      <3> QED BY <3>1, <2>1, <1>2, <1>3, <1>6, <1>7
    <2> QED BY <2>2, <2>3, <1>2
  <1>9. ASSUME hub[s] = "open" PROVE Newest(r, seen[s], Pushed(s)')
    <2>1. Newest(q, seen[s], Pushed(s)) BY <1>9 DEF BusIInv, NewestOfEach, q
    <2>2. /\ Pushed(s) \in [Publisher -> Int] /\ Pushed(s)[p] = LastPushed(p, s)
          /\ seen[s] \in [Publisher -> Nat] /\ seen[s][p] <= LastPushed(p, s)
      BY QueueTypes DEF BusIInv, BusTypeOK, QueueTyped, ReadBefore, Pushed
    <2>3. Newest(b, seen[s], Pushed(s)) BY <2>1, <2>2, <1>2, <1>3, <1>5, DropNewest
    <2>4. Pushed(s)' = [Pushed(s) EXCEPT ![p] = ev.n] BY PushFrame DEF ev
    <2>5. Newest(r, seen[s], [Pushed(s) EXCEPT ![ev.from] = ev.n])
      BY <2>2, <2>3, <1>4, <1>5, AppendNewest
    <2> QED BY <2>4, <2>5, <1>4
  <1>10. onFull[s] = "error" => k = 0 BY <1>2 DEF ev
  <1> HIDE DEF r
  <1> QED BY <1>1, <1>2, <1>6, <1>7, <1>8, <1>9, <1>10 DEF q

(* The three ways a push can go: the subscription has failed before, it    *)
(* fails now, or the event is queued.                                      *)
LEMMA PushInv ==
  ASSUME BusIInv, NEW p \in Publisher, NEW s \in Sub, Push(p, s)
  PROVE  BusIInv'
  <1>0. /\ UNCHANGED <<subs, hub, onFull, taken, seen, sent, event>> /\ hub[s] # "none"
        /\ targets' \in [Publisher -> SUBSET Sub]
        /\ \A o \in Publisher : targets'[o] \subseteq targets[o]
        /\ \A t \in Sub \ {s} : Pushed(t)' = Pushed(t)
        /\ \A t \in Sub, o \in Publisher : LastPushed(o, t) <= LastPushed(o, t)'
    BY PushFrame
  <1>1. ReadBefore'
    <2> SUFFICES ASSUME NEW t \in Sub, NEW o \in Publisher PROVE seen[t][o] <= LastPushed(o, t)'
      BY <1>0 DEF ReadBefore
    <2>1. seen[t][o] <= LastPushed(o, t) /\ LastPushed(o, t) <= LastPushed(o, t)'
      BY <1>0 DEF BusIInv, ReadBefore
    <2>2. seen[t][o] \in Nat /\ LastPushed(o, t) \in Int
      BY QueueTypes DEF BusIInv, QueueTyped
    <2>3. LastPushed(o, t)' \in Int
      BY <1>0, BusAssumption DEF BusIInv, BusTypeOK, LastPushed
    <2> QED BY <2>1, <2>2, <2>3
  <1>2. ASSUME queue' \in [Sub -> Seq(Event)], error' \in [Sub -> BOOLEAN], bytes' \in [Sub -> Nat],
               dropped' \in [Sub -> Nat], received' \in [Sub -> Nat]
        PROVE  BusTypeOK' /\ IsFiniteSet(subs')
    BY <1>0, <1>2 DEF BusIInv, BusTypeOK
  <1>3. ASSUME \A t \in Sub \ {s} :
                  /\ queue'[t] = queue[t] /\ error'[t] = error[t] /\ bytes'[t] = bytes[t]
                  /\ dropped'[t] = dropped[t] /\ received'[t] = received[t],
               Len(queue'[s]) <= MaxQueue, bytes'[s] = SumOfSizes(queue'[s]),
               bytes'[s] > MaxBytes => Len(queue'[s]) = 1,
               error'[s] => queue'[s] = <<>>,
               hub[s] = "open" =>
                   /\ error'[s] \/ received'[s] = taken[s] + Len(queue'[s]) + dropped'[s]
                   /\ Newest(queue'[s], seen[s], Pushed(s)'),
               onFull[s] = "error" => dropped'[s] = 0
        PROVE  QueueBounded' /\ NoSilentLoss' /\ Handles' /\ NewestOfEach'
    <2>1. QueueBounded' BY <1>3 DEF BusIInv, QueueBounded
    <2>2. NoSilentLoss' BY <1>0, <1>3 DEF BusIInv, NoSilentLoss
    <2>3. Handles' BY <1>0, <1>3 DEF BusIInv, Handles
    <2>4. NewestOfEach'
      <3> SUFFICES ASSUME NEW t \in Sub, hub[t] = "open"
                   PROVE  Newest(queue'[t], seen[t], Pushed(t)')
        BY <1>0 DEF NewestOfEach
      <3>1. CASE t = s BY <3>1, <1>3
      <3>2. CASE t # s BY <3>2, <1>0, <1>3 DEF BusIInv, NewestOfEach
      <3> QED BY <3>1, <3>2
    <2> QED BY <2>1, <2>2, <2>3, <2>4
  <1>4. /\ queue \in [Sub -> Seq(Event)] /\ error \in [Sub -> BOOLEAN] /\ bytes \in [Sub -> Nat]
        /\ dropped \in [Sub -> Nat] /\ received \in [Sub -> Nat] /\ taken \in [Sub -> Nat]
    BY DEF BusIInv, BusTypeOK
  <1>5. /\ hub[s] = "open" => error[s] \/ received[s] = taken[s] + Len(queue[s]) + dropped[s]
        /\ onFull[s] = "error" => dropped[s] = 0
    BY DEF BusIInv, NoSilentLoss
  <1>6. \A low, last : Newest(<<>>, low, last)
    BY SumEmpty DEF Newest
  <1>7. CASE error[s]
    <2>1. UNCHANGED <<queue, bytes, error, dropped, received>> BY <1>7 DEF Push, subQueue
    <2>2. queue[s] = <<>> BY <1>7 DEF BusIInv, Handles
    <2>3. BusTypeOK' /\ IsFiniteSet(subs') BY <2>1, <1>2, <1>4
    <2>4. QueueBounded' /\ NoSilentLoss' BY <2>1, <1>0 DEF BusIInv, QueueBounded, NoSilentLoss
    <2>5. Handles' BY <2>1, <1>0 DEF BusIInv, Handles
    <2>6. NewestOfEach'
      <3> SUFFICES ASSUME NEW t \in Sub, hub[t] = "open"
                   PROVE  Newest(queue[t], seen[t], Pushed(t)')
        BY <2>1, <1>0 DEF NewestOfEach
      <3>1. CASE t = s BY <3>1, <2>2, <1>6
      <3>2. CASE t # s BY <3>2, <1>0 DEF BusIInv, NewestOfEach
      <3> QED BY <3>1, <3>2
    <2> QED BY <2>3, <2>4, <2>5, <2>6, <1>1 DEF BusIInv
  <1>8. CASE ~error[s] /\ onFull[s] = "error" /\ ~Fits(s, 0, event[p].size)
    <2>1. /\ error' = [error EXCEPT ![s] = TRUE] /\ queue' = [queue EXCEPT ![s] = <<>>]
          /\ bytes' = [bytes EXCEPT ![s] = 0] /\ UNCHANGED dropped
          /\ received' = [received EXCEPT ![s] = received[s] + 1]
      BY <1>8 DEF Push, Fail
    <2>2. /\ error' \in [Sub -> BOOLEAN] /\ queue' \in [Sub -> Seq(Event)]
          /\ bytes' \in [Sub -> Nat] /\ received' \in [Sub -> Nat] /\ dropped' \in [Sub -> Nat]
      BY <2>1, <1>4
    <2>3. BusTypeOK' /\ IsFiniteSet(subs') BY <2>2, <1>2
    <2>4. /\ \A t \in Sub \ {s} :
                  /\ queue'[t] = queue[t] /\ error'[t] = error[t] /\ bytes'[t] = bytes[t]
                  /\ dropped'[t] = dropped[t] /\ received'[t] = received[t]
          /\ queue'[s] = <<>> /\ error'[s] /\ bytes'[s] = 0 /\ dropped'[s] = dropped[s]
      BY <2>1, <1>4
    <2>5. Len(queue'[s]) <= MaxQueue /\ bytes'[s] = SumOfSizes(queue'[s]) /\ ~(bytes'[s] > MaxBytes)
      BY <2>4, SumEmpty, BusAssumption
    <2>6. Newest(queue'[s], seen[s], Pushed(s)') BY <2>4, <1>6
    <2>7. QueueBounded' /\ NoSilentLoss' /\ Handles' /\ NewestOfEach'
      BY <2>4, <2>5, <2>6, <1>3, <1>5
    <2> QED BY <2>3, <2>7, <1>1 DEF BusIInv
  <1>9. CASE ~error[s] /\ ~(onFull[s] = "error" /\ ~Fits(s, 0, event[p].size))
    <2>1. PICK k \in 0 .. Len(queue[s]), r \in Seq(Event) :
            /\ onFull[s] = "error" => k = 0
            /\ queue' = [queue EXCEPT ![s] = r] /\ Len(r) = Len(queue[s]) - k + 1
            /\ hub[s] = "open" => Newest(r, seen[s], Pushed(s)')
            /\ bytes' = [bytes EXCEPT ![s] = SumOfSizes(r)] /\ SumOfSizes(r) \in Nat
            /\ Len(r) <= MaxQueue /\ (SumOfSizes(r) > MaxBytes => Len(r) = 1)
            /\ dropped' = [dropped EXCEPT ![s] = dropped[s] + k]
            /\ received' = [received EXCEPT ![s] = received[s] + 1]
            /\ UNCHANGED error
      BY <1>9, EnqueueIs
    <2>2. Len(queue[s]) \in Nat /\ k \in Nat /\ dropped[s] \in Nat /\ received[s] \in Nat
          /\ taken[s] \in Nat
      BY <1>4, QueueTypes DEF BusIInv, QueueTyped
    <2>3. /\ queue' \in [Sub -> Seq(Event)] /\ error' \in [Sub -> BOOLEAN]
          /\ bytes' \in [Sub -> Nat] /\ dropped' \in [Sub -> Nat] /\ received' \in [Sub -> Nat]
      <3>1. dropped[s] + k \in Nat /\ received[s] + 1 \in Nat BY <2>2
      <3>2. queue' = [queue EXCEPT ![s] = r] /\ UNCHANGED error BY <2>1
      <3>3. queue' \in [Sub -> Seq(Event)] /\ error' \in [Sub -> BOOLEAN]
        BY <3>2, <1>4
      <3>4. bytes' \in [Sub -> Nat]
        <4>1. bytes' = [bytes EXCEPT ![s] = SumOfSizes(r)] /\ SumOfSizes(r) \in Nat BY <2>1
        <4>2. bytes \in [Sub -> Nat] BY <1>4
        <4> QED BY <4>1, <4>2
      <3>5. dropped' \in [Sub -> Nat]
        <4>1. dropped' = [dropped EXCEPT ![s] = dropped[s] + k] BY <2>1
        <4>2. dropped \in [Sub -> Nat] BY <1>4
        <4> QED BY <4>1, <4>2, <3>1
      <3>6. received' \in [Sub -> Nat]
        <4>1. received' = [received EXCEPT ![s] = received[s] + 1] BY <2>1
        <4>2. received \in [Sub -> Nat] BY <1>4
        <4> QED BY <4>1, <4>2, <3>1
      <3> QED BY <3>3, <3>4, <3>5, <3>6
    <2>4. BusTypeOK' /\ IsFiniteSet(subs') BY <2>3, <1>2
    <2>5. /\ \A t \in Sub \ {s} :
                  /\ queue'[t] = queue[t] /\ error'[t] = error[t] /\ bytes'[t] = bytes[t]
                  /\ dropped'[t] = dropped[t] /\ received'[t] = received[t]
          /\ queue'[s] = r /\ ~error'[s] /\ bytes'[s] = SumOfSizes(r)
          /\ dropped'[s] = dropped[s] + k /\ received'[s] = received[s] + 1
      BY <2>1, <1>4, <1>9
    <2>6. hub[s] = "open" => received'[s] = taken[s] + Len(queue'[s]) + dropped'[s]
      <3>1. ASSUME hub[s] = "open" PROVE received'[s] = taken[s] + Len(queue'[s]) + dropped'[s]
        <4>1. received[s] = taken[s] + Len(queue[s]) + dropped[s] BY <3>1, <1>5, <1>9
        <4>2. Len(queue'[s]) = Len(queue[s]) - k + 1 BY <2>1, <2>5
        <4>3. received'[s] = received[s] + 1 /\ dropped'[s] = dropped[s] + k BY <2>5
        <4>4. \A b, c, d \in Nat : (b + c + d) + 1 = b + (c - k + 1) + (d + k) BY <2>2
        <4>5. (taken[s] + Len(queue[s]) + dropped[s]) + 1
                = taken[s] + (Len(queue[s]) - k + 1) + (dropped[s] + k)
          BY <4>4, <2>2
        <4> QED BY <4>1, <4>2, <4>3, <4>5
      <3> QED BY <3>1
    <2>7. onFull[s] = "error" => dropped'[s] = 0 BY <2>1, <2>5, <1>5
    <2>8. QueueBounded' /\ NoSilentLoss' /\ Handles' /\ NewestOfEach'
      BY <2>1, <2>5, <2>6, <2>7, <1>3
    <2> QED BY <2>4, <2>8, <1>1 DEF BusIInv
  <1> QED BY <1>7, <1>8, <1>9

-----------------------------------------------------------------------------
(* Every behaviour of the bus keeps BusIInv, for any number of publishers, *)
(* subscriptions and events, any sizes and both limits.                    *)
THEOREM BusInvariance == BusSpec => []BusIInv
  <1>1. BusIInv /\ [BusNext]_busVars => BusIInv'
    <2> SUFFICES ASSUME BusIInv, [BusNext]_busVars PROVE BusIInv'
      OBVIOUS
    <2>1. CASE BusNext
      BY <2>1, SubscribeInv, LeaveInv, RecvInv, RecvErrorInv, PublishInv, PushInv DEF BusNext
    <2>2. CASE UNCHANGED busVars
      BY <2>2 DEF busVars, BusIInv, BusTypeOK, QueueBounded, NoSilentLoss, Handles, ReadBefore,
                  NewestOfEach, Pushed, LastPushed
    <2> QED BY <2>1, <2>2
  <1> QED BY <1>1, BusInitInv, PTL DEF BusSpec

(* Handles, queues and counters keep their types, and what a publisher is  *)
(* pushing is its last event.                                              *)
THEOREM BusTypeCorrect == BusSpec => []BusTypeOK
  <1>1. BusIInv => BusTypeOK BY DEF BusIInv
  <1> QED BY <1>1, BusInvariance, PTL

(* The counter of queued bytes is the size of the queue, and both limits   *)
(* hold but for one event too large by itself.                             *)
THEOREM QueuesBounded == BusSpec => []QueueBounded
  <1>1. BusIInv => QueueBounded BY DEF BusIInv
  <1> QED BY <1>1, BusInvariance, PTL

(* What was sent to a reader is read, queued, counted as dropped, or       *)
(* reported as an error.                                                   *)
THEOREM NothingLostInSilence == BusSpec => []NoSilentLoss
  <1>1. BusIInv => NoSilentLoss BY DEF BusIInv
  <1> QED BY <1>1, BusInvariance, PTL

(* A queue holds the most recent events of each publisher, in order,       *)
(* without a gap and after those already read.                             *)
THEOREM NewestKept == BusSpec => []KeepsTheNewest
  <1>1. BusIInv => KeepsTheNewest BY NewestMeans DEF BusIInv
  <1> QED BY <1>1, BusInvariance, PTL
=============================================================================
