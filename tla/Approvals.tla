------------------------------- MODULE Approvals -------------------------------
(***************************************************************************)
(* Approvals that do not wait: `approve ... then <task>` under serve       *)
(* (synsema-llm/src/human.rs and serve_continuation in                     *)
(* synsema-runtime/src/serve.rs).  A pending approval is a row of a file   *)
(* that several serve processes may share (the handoff of                  *)
(* SYNSEMA_REUSE_PORT).  Whoever takes a row out of the file, a request    *)
(* with its token or the watcher of expiries, calls its task in a thread   *)
(* of its own; processes start, shut down in order, and crash.             *)
(*                                                                         *)
(* An operation on the file holds its lock from the read to the rename of  *)
(* what it writes, so it is one action.  A request with a wrong token, or  *)
(* on a file that cannot be used, changes nothing and is left out.         *)
(***************************************************************************)
EXTENDS Naturals, FiniteSets

CONSTANTS Proc,         \* processes that serve on the file's port
          Row,          \* approvals
          Human,        \* requests that answer
          Names,        \* the rows whose task a process's program names
          NoRow,
          MaxServes     \* bound: processes started, restarts included

ASSUME ApprovalsAssumption ==
    Names \in [Proc -> SUBSET Row] /\ NoRow \notin Row /\ MaxServes \in Nat

VARIABLES file,         \* the pending rows
          made, due,    \* rows ever deferred; those whose time is over
          phase,        \* the life of each process
          watcher,      \* what its watcher is doing, and the rows it took
          request,      \* what each request is doing, where and for which row
          thread,       \* the threads that run tasks, by process and row
          listed,       \* ServeApprovalQueues.tasks; then those the close awaits
          cut,          \* a grace period of the process ran out
          serves,       \* processes started so far
          starts,       \* history: how often each task was called
          lost          \* history: tasks not called, or not finished: the process
                        \* ended by itself ("exit"), or anything else ("fault")

vars == <<file, made, due, phase, watcher, request, thread, listed, cut, serves,
          starts, lost>>

(* A process is up until its listeners have drained and close_serve_run    *)
(* clears the continuation; that takes the list of tasks and waits for     *)
(* them; when it returns, what the process served with is dropped.         *)
Phases == {"down", "up", "cleared", "waiting", "gone"}
Has(p) == phase[p] = "up"                       \* the continuation is set

NoWatcher == [at |-> "none", rows |-> {}]
Idle == [at |-> "idle", rows |-> {}]
Cloned == [at |-> "with", rows |-> {}]
Settling(rows) == IF rows = {} THEN Idle ELSE [at |-> "settle", rows |-> rows]
NoRequest == [at |-> "none", p |-> NoRow, r |-> NoRow]

(* Rows a request has taken for its process and not handed to a thread.    *)
Answered(p) == {request[h].r : h \in {k \in Human : request[k].at = "settle" /\ request[k].p = p}}
Over(r) == starts[r] > 0 \/ lost[r] # "no"
In(p, state) == {r \in Row : thread[p][r] = state}

(* Another version of the program has left the rows that nobody names.     *)
Init ==
    /\ file = Row \ UNION {Names[p] : p \in Proc} /\ made = file /\ due = {}
    /\ phase = [p \in Proc |-> "down"]
    /\ watcher = [p \in Proc |-> NoWatcher]
    /\ request = [h \in Human |-> NoRequest]
    /\ thread = [p \in Proc |-> [r \in Row |-> "none"]]
    /\ listed = [p \in Proc |-> {}]
    /\ cut = [p \in Proc |-> FALSE]
    /\ serves = 0
    /\ starts = [r \in Row |-> 0]
    /\ lost = [r \in Row |-> "no"]

(* set_continuation.  If the watcher's thread cannot be created, nobody is *)
(* told.                                                                   *)
Serve(p) ==
    /\ phase[p] = "down" /\ serves < MaxServes
    /\ phase' = [phase EXCEPT ![p] = "up"]
    /\ serves' = serves + 1
    /\ \E w \in {Idle, NoWatcher} : watcher' = [watcher EXCEPT ![p] = w]
    /\ UNCHANGED <<file, made, due, request, thread, listed, cut, starts, lost>>

(* defer: the continuation was there when it looked, which may be before   *)
(* it was cleared; the row goes to the file all the same.                  *)
Defer(p, r) ==
    /\ phase[p] # "down" /\ r \in Names[p] \ made
    /\ made' = made \cup {r}
    /\ file' = file \cup {r}
    /\ UNCHANGED <<due, phase, watcher, request, thread, listed, cut, serves, starts, lost>>

(* The time of a row is over; it tells only in the file.                   *)
Expire(r) ==
    /\ r \in file \ due
    /\ due' = due \cup {r}
    /\ UNCHANGED <<file, made, phase, watcher, request, thread, listed, cut, serves, starts, lost>>

(* respond_with_token clones the continuation first, and then works under  *)
(* the lock.  A request that the grace cut off goes on.                    *)
Answer(h, p, r) ==
    /\ request[h] = NoRequest /\ (phase[p] = "up" \/ cut[p])
    /\ r \in made /\ (Over(r) => r \in file)
    /\ request' = [request EXCEPT ![h] =
                      [at |-> IF Has(p) THEN "with" ELSE "without", p |-> p, r |-> r]]
    /\ UNCHANGED <<file, made, due, phase, watcher, thread, listed, cut, serves, starts, lost>>

(* Mutant: a row is taken with nobody to run its task.                     *)
TakeAnyway(h) ==
    LET q == request[h] IN
    /\ q.at \in {"with", "without"}
    /\ IF q.r \in (file \cap Names[q.p]) \ due
       THEN /\ file' = file \ {q.r}
            /\ request' = [request EXCEPT ![h] = IF q.at = "with" THEN [q EXCEPT !.at = "settle"]
                                                                  ELSE NoRequest]
       ELSE request' = [request EXCEPT ![h] = NoRequest] /\ UNCHANGED file
    /\ UNCHANGED <<made, due, phase, watcher, thread, listed, cut, serves, starts, lost>>

(* 404 for a row that is not there or is due, 503 without continuation.    *)
Take(h) ==
    LET q == request[h] IN
    /\ q.at \in {"with", "without"}
    /\ IF q.r \in (file \cap Names[q.p]) \ due /\ q.at = "with"
       THEN file' = file \ {q.r} /\ request' = [request EXCEPT ![h].at = "settle"]
       ELSE request' = [request EXCEPT ![h] = NoRequest] /\ UNCHANGED file
    /\ UNCHANGED <<made, due, phase, watcher, thread, listed, cut, serves, starts, lost>>

(* The continuation: a thread for the task, and its handle in the list,    *)
(* which the close may have taken already (between the two steps or before *)
(* them: nobody else looks at the list).  If there is no thread to be had, *)
(* the row is lost.                                                        *)
Run(p, r) ==
    \/ /\ thread' = [thread EXCEPT ![p][r] = "spawned"]
       /\ listed' = [listed EXCEPT ![p] = IF phase[p] \in {"up", "cleared"} THEN @ \cup {r} ELSE @]
       /\ UNCHANGED lost
    \/ lost' = [lost EXCEPT ![r] = "fault"] /\ UNCHANGED <<thread, listed>>

Settle(h) ==
    /\ request[h].at = "settle"
    /\ Run(request[h].p, request[h].r)
    /\ request' = [request EXCEPT ![h] = NoRequest]
    /\ UNCHANGED <<file, made, due, phase, watcher, cut, serves, starts>>

(* The watcher clones the continuation or ends; settle_expired takes every *)
(* row that is due and settles them one by one.                            *)
Look(p) ==
    /\ watcher[p] = Idle
    /\ watcher' = [watcher EXCEPT ![p] = IF Has(p) THEN Cloned ELSE NoWatcher]
    /\ UNCHANGED <<file, made, due, phase, request, thread, listed, cut, serves, starts, lost>>

(* Mutant: rows of other programs are not told apart.                      *)
TakeDueOfAll(p) ==
    /\ watcher[p].at = "with"
    /\ file' = file \ due
    /\ watcher' = [watcher EXCEPT ![p] = Settling(file \cap due)]
    /\ UNCHANGED <<made, due, phase, request, thread, listed, cut, serves, starts, lost>>

(* Mutant: a row of another program makes the file unusable.               *)
TakeDueIfOwn(p) ==
    LET rows == IF file \subseteq Names[p] THEN file \cap due ELSE {} IN
    /\ watcher[p].at = "with"
    /\ file' = file \ rows
    /\ watcher' = [watcher EXCEPT ![p] = Settling(rows)]
    /\ UNCHANGED <<made, due, phase, request, thread, listed, cut, serves, starts, lost>>

TakeDue(p) ==
    LET rows == file \cap due \cap Names[p] IN
    /\ watcher[p].at = "with"
    /\ file' = file \ rows
    /\ watcher' = [watcher EXCEPT ![p] = Settling(rows)]
    /\ UNCHANGED <<made, due, phase, request, thread, listed, cut, serves, starts, lost>>

SettleDue(p) ==
    /\ watcher[p].at = "settle"
    /\ \E r \in watcher[p].rows :
          /\ Run(p, r)
          /\ watcher' = [watcher EXCEPT ![p] = Settling(@.rows \ {r})]
    /\ UNCHANGED <<file, made, due, phase, request, cut, serves, starts>>

(* Mutant: the task is called and the row given back.                      *)
BeginTwice(p, r) ==
    /\ thread[p][r] = "spawned"
    /\ IF phase[p] = "gone"
       THEN /\ file' = file \cup {r} /\ UNCHANGED lost
            /\ thread' = [thread EXCEPT ![p][r] = "running"]
            /\ starts' = [starts EXCEPT ![r] = @ + 1]
       ELSE /\ thread' = [thread EXCEPT ![p][r] = "running"]
            /\ starts' = [starts EXCEPT ![r] = @ + 1]
            /\ UNCHANGED <<file, lost>>
    /\ UNCHANGED <<made, due, phase, watcher, request, listed, cut, serves>>

(* The thread calls the task; or, if what serve had is gone, gives the row *)
(* back (put_back), unless it cannot be saved.                             *)
Begin(p, r) ==
    /\ thread[p][r] = "spawned"
    /\ IF phase[p] = "gone"
       THEN /\ \/ file' = file \cup {r} /\ UNCHANGED lost
               \/ lost' = [lost EXCEPT ![r] = "fault"] /\ UNCHANGED file
            /\ thread' = [thread EXCEPT ![p][r] = "none"]
            /\ UNCHANGED starts
       ELSE /\ thread' = [thread EXCEPT ![p][r] = "running"]
            /\ starts' = [starts EXCEPT ![r] = @ + 1]
            /\ UNCHANGED <<file, lost>>
    /\ UNCHANGED <<made, due, phase, watcher, request, listed, cut, serves>>

End(p, r) ==
    /\ thread[p][r] = "running"
    /\ thread' = [thread EXCEPT ![p][r] = "none"]
    /\ listed' = [listed EXCEPT ![p] = @ \ {r}]
    /\ UNCHANGED <<file, made, due, phase, watcher, request, cut, serves, starts, lost>>

(* The listeners have drained: no request is left, or the grace ran out.   *)
ClearContinuation(p) ==
    /\ phase[p] = "up"
    /\ phase' = [phase EXCEPT ![p] = "cleared"]
    /\ \E late \in BOOLEAN :
          /\ (\E h \in Human : request[h].p = p) => late
          /\ cut' = [cut EXCEPT ![p] = late]
    /\ UNCHANGED <<file, made, due, watcher, request, thread, listed, serves, starts, lost>>

TakeTasks(p) ==
    /\ phase[p] = "cleared"
    /\ phase' = [phase EXCEPT ![p] = "waiting"]
    /\ UNCHANGED <<file, made, due, watcher, request, thread, listed, cut, serves, starts, lost>>

(* The tasks of the list have ended, or the grace ran out.                 *)
Closed(p) ==
    /\ phase[p] = "waiting"
    /\ phase' = [phase EXCEPT ![p] = "gone"]
    /\ cut' = [cut EXCEPT ![p] = @ \/ listed[p] # {}]
    /\ listed' = [listed EXCEPT ![p] = {}]
    /\ UNCHANGED <<file, made, due, watcher, request, thread, serves, starts, lost>>

(* The process ends, and with it its threads.                              *)
Halt(p, why) ==
    LET left == watcher[p].rows \cup Answered(p) \cup In(p, "spawned") \cup In(p, "running") IN
    /\ phase' = [phase EXCEPT ![p] = "down"]
    /\ watcher' = [watcher EXCEPT ![p] = NoWatcher]
    /\ request' = [h \in Human |-> IF request[h].p = p THEN NoRequest ELSE request[h]]
    /\ thread' = [thread EXCEPT ![p] = [r \in Row |-> "none"]]
    /\ listed' = [listed EXCEPT ![p] = {}]
    /\ lost' = [r \in Row |-> IF r \in left THEN why ELSE lost[r]]
    /\ cut' = [cut EXCEPT ![p] = FALSE]
    /\ UNCHANGED <<file, made, due, serves, starts>>

Exit(p) == phase[p] = "gone" /\ Halt(p, IF cut[p] THEN "fault" ELSE "exit")

Crash(p) == phase[p] # "down" /\ Halt(p, "fault")

Work(p) ==
    \/ Look(p) \/ TakeDue(p) \/ SettleDue(p)
    \/ \E r \in Row : Begin(p, r)
Ask(h) == Take(h) \/ Settle(h)
Life(p) ==
    \/ Serve(p) \/ ClearContinuation(p) \/ TakeTasks(p) \/ Closed(p)
    \/ Exit(p) \/ Crash(p)

Next ==
    \/ \E p \in Proc : Life(p) \/ Work(p) \/ \E r \in Row : Defer(p, r) \/ End(p, r)
    \/ \E r \in Row : Expire(r)
    \/ \E h \in Human : Ask(h) \/ \E p \in Proc, r \in Row : Answer(h, p, r)

(* Threads run and time passes.                                            *)
Fairness ==
    /\ \A p \in Proc : WF_vars(Look(p) \/ TakeDue(p) \/ SettleDue(p))
    /\ \A p \in Proc, r \in Row : WF_vars(Begin(p, r))
    /\ \A h \in Human : WF_vars(Ask(h))
    /\ \A r \in Row : WF_vars(Expire(r))

Spec == Init /\ [][Next]_vars /\ Fairness
--------------------------------------------------------------------------------
TypeOK ==
    /\ file \subseteq made /\ made \subseteq Row /\ due \subseteq made
    /\ phase \in [Proc -> Phases]
    /\ watcher \in [Proc -> [at : {"none", "idle", "with", "settle"}, rows : SUBSET Row]]
    /\ request \in [Human -> [at : {"none", "with", "without", "settle"},
                              p : Proc \cup {NoRow}, r : Row \cup {NoRow}]]
    /\ thread \in [Proc -> [Row -> {"none", "spawned", "running"}]]
    /\ listed \in [Proc -> SUBSET Row] /\ cut \in [Proc -> BOOLEAN]
    /\ serves \in 0 .. MaxServes
    /\ starts \in [Row -> Nat]
    /\ lost \in [Row -> {"no", "exit", "fault"}]

(* Where a row may be: in the file, in somebody's hands, or over.          *)
Places(r) ==
    {<<"file">> : x \in {r} \cap file}
    \cup {<<"watcher", p>> : p \in {q \in Proc : r \in watcher[q].rows}}
    \cup {<<"request", h>> : h \in {k \in Human : request[k].at = "settle" /\ request[k].r = r}}
    \cup {<<"thread", p>> : p \in {q \in Proc : thread[q][r] = "spawned"}}
    \cup {<<"over">> : x \in {r} \cap {s \in Row : Over(s)}}

(* Each approval is answered or expires once: it is always in exactly one  *)
(* place, whatever processes share the file, and whatever ends.            *)
OnePlace == \A r \in made : \E x \in Places(r) : Places(r) = {x}

(* The task runs at most once, also when rows are given back.              *)
RunsOnce == \A r \in Row : starts[r] <= 1

(* A row whose task a process does not name is never taken by it.          *)
ForeignSpared ==
    [][\A r \in file \ file' :
          \E p \in Proc : /\ r \in Names[p]
                          /\ r \in watcher'[p].rows \cup Answered(p)']_vars

(* A process whose watcher runs, and stays, sees the task of every         *)
(* approval it names called or lost (processes come and go MaxServes       *)
(* times).                                                                 *)
Watched(p) == phase[p] = "up" /\ watcher[p].at # "none"
Resolves ==
    \A p \in Proc : \A r \in Names[p] :
        <>[]Watched(p) => (r \in made ~> Over(r))

(* A shutdown waits for the tasks of the answers it took: without a crash  *)
(* and within the grace, none is cut.                                      *)
ShutdownWaits == \A r \in Row : lost[r] # "exit"
================================================================================
