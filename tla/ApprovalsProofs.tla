---------------------------- MODULE ApprovalsProofs ----------------------------
(***************************************************************************)
(* Proofs about Approvals, for any processes, rows and requests.  A step   *)
(* either leaves every row where it is or moves some rows to one place     *)
(* (MovesTo); a row that was in one place then is in one place again.      *)
(***************************************************************************)
EXTENDS Approvals, TLAPS

Holders == Proc \cup Human \cup {NoRow}
Kinds == {"file", "watcher", "request", "thread", "over"}

(* The places of a row, as in Places, by kind and holder.                  *)
Here(k, x, r) ==
    \/ k = "file" /\ x = NoRow /\ r \in file
    \/ k = "watcher" /\ x \in Proc /\ r \in watcher[x].rows
    \/ k = "request" /\ x \in Human /\ request[x].at = "settle" /\ request[x].r = r
    \/ k = "thread" /\ x \in Proc /\ thread[x][r] = "spawned"
    \/ k = "over" /\ x = NoRow /\ Over(r)

PlaceInv ==
    \A r \in Row :
        /\ r \in made => \E k \in Kinds, x \in Holders : Here(k, x, r)
        /\ \A k \in Kinds, x \in Holders : Here(k, x, r) =>
              /\ r \in made
              /\ \A l \in Kinds, y \in Holders : Here(l, y, r) => l = k /\ y = x

(* What the watchers and the requests hold, and the tasks called.          *)
HandsInv ==
    /\ \A p \in Proc : phase[p] = "down" => watcher[p].at = "none"
    /\ \A p \in Proc : watcher[p].at # "settle" => watcher[p].rows = {}
    /\ \A h \in Human : request[h].at # "none" => request[h].p \in Proc /\ request[h].r \in made
    /\ \A p \in Proc, r \in Row : thread[p][r] = "running" => starts[r] > 0
    /\ RunsOnce

IInv == TypeOK /\ HandsInv /\ PlaceInv

(* The rows R go to one place, the others stay where they are.             *)
MovesTo(R, l, y) ==
    \A r \in Row, k \in Kinds, x \in Holders :
        Here(k, x, r)' <=> IF r \in R THEN k = l /\ x = y ELSE Here(k, x, r)

-----------------------------------------------------------------------------
LEMMA MoveKeeps ==
  ASSUME PlaceInv, NEW R, NEW l \in Kinds, NEW y \in Holders, MovesTo(R, l, y),
         R \cap Row \subseteq made', made \subseteq made', made' \ made \subseteq R
  PROVE  PlaceInv'
  <1> SUFFICES ASSUME NEW r \in Row
               PROVE  /\ r \in made' => \E k \in Kinds, x \in Holders : Here(k, x, r)'
                      /\ \A k \in Kinds, x \in Holders : Here(k, x, r)' =>
                           /\ r \in made'
                           /\ \A m \in Kinds, z \in Holders : Here(m, z, r)' => m = k /\ z = x
    BY Zenon DEF PlaceInv
  <1>1. CASE r \in R
    BY <1>1 DEF MovesTo
  <1>2. CASE r \notin R
    BY <1>2 DEF MovesTo, PlaceInv
  <1> QED BY <1>1, <1>2

LEMMA InitInv == Init => IInv
  <1> SUFFICES ASSUME Init PROVE IInv
    OBVIOUS
  <1> USE ApprovalsAssumption DEF Init
  <1>1. TypeOK BY DEF TypeOK, Phases, NoWatcher, NoRequest
  <1>2. HandsInv BY DEF HandsInv, RunsOnce, NoWatcher, NoRequest
  <1>3. \A r \in Row, k \in Kinds, x \in Holders :
          Here(k, x, r) <=> k = "file" /\ x = NoRow /\ r \in file
    BY DEF Here, Over, NoWatcher, NoRequest
  <1>4. PlaceInv
    BY <1>3 DEF PlaceInv, Kinds, Holders
  <1> QED BY <1>1, <1>2, <1>4 DEF IInv

(* A row that is in one place is in no other.                              *)
LEMMA OnlyHere ==
  ASSUME IInv, NEW r \in Row, NEW k \in Kinds, NEW x \in Holders, Here(k, x, r)
  PROVE  /\ r \in made
         /\ r \in file => k = "file"
         /\ \A p \in Proc : r \in watcher[p].rows => k = "watcher" /\ x = p
         /\ \A h \in Human : request[h].at = "settle" /\ request[h].r = r => k = "request" /\ x = h
         /\ \A p \in Proc : thread[p][r] = "spawned" => k = "thread" /\ x = p
         /\ Over(r) => k = "over"
  <1>1. r \in made /\ \A l \in Kinds, y \in Holders : Here(l, y, r) => l = k /\ y = x
    BY DEF IInv, PlaceInv
  <1>2. r \in file => Here("file", NoRow, r)
    BY DEF Here
  <1>3. \A p \in Proc : r \in watcher[p].rows => Here("watcher", p, r)
    BY DEF Here
  <1>4. \A h \in Human : request[h].at = "settle" /\ request[h].r = r => Here("request", h, r)
    BY DEF Here
  <1>5. \A p \in Proc : thread[p][r] = "spawned" => Here("thread", p, r)
    BY DEF Here
  <1>6. Over(r) => Here("over", NoRow, r)
    BY DEF Here
  <1> QED BY <1>1, <1>2, <1>3, <1>4, <1>5, <1>6 DEF Kinds, Holders

(* Steps in which no row moves.                                            *)
LEMMA StaysKeeps ==
  ASSUME IInv, UNCHANGED <<file, made, starts, lost>>,
         \A p \in Proc : watcher'[p].rows = watcher[p].rows,
         \A h \in Human : request'[h].at = "settle" <=> request[h].at = "settle",
         \A h \in Human : request[h].at = "settle" => request'[h] = request[h],
         \A p \in Proc, r \in Row : thread'[p][r] = "spawned" <=> thread[p][r] = "spawned"
  PROVE  PlaceInv'
  <1>1. MovesTo({}, "over", NoRow)
    BY DEF MovesTo, Here, Over
  <1>2. "over" \in Kinds /\ NoRow \in Holders
    BY DEF Kinds, Holders
  <1> QED BY <1>1, <1>2, MoveKeeps DEF IInv

LEMMA WatcherTypes ==
  /\ NoWatcher.at = "none" /\ NoWatcher.rows = {}
  /\ Idle.at = "idle" /\ Idle.rows = {}
  /\ Cloned.at = "with" /\ Cloned.rows = {}
  /\ \A S \in SUBSET Row :
       /\ Settling(S) \in [at : {"none", "idle", "with", "settle"}, rows : SUBSET Row]
       /\ Settling(S).rows = S
       /\ Settling(S).at = "settle" \/ S = {}
       /\ Settling(S).at # "none"
  /\ NoWatcher \in [at : {"none", "idle", "with", "settle"}, rows : SUBSET Row]
  /\ Idle \in [at : {"none", "idle", "with", "settle"}, rows : SUBSET Row]
  /\ Cloned \in [at : {"none", "idle", "with", "settle"}, rows : SUBSET Row]
  /\ NoRequest.at = "none"
  BY DEF NoWatcher, Idle, Cloned, Settling, NoRequest

LEMMA LifeSteps ==
  ASSUME IInv, NEW p \in Proc,
         Serve(p) \/ Look(p) \/ ClearContinuation(p) \/ TakeTasks(p) \/ Closed(p)
  PROVE  IInv'
  <1> USE WatcherTypes DEF IInv
  <1>1. /\ UNCHANGED <<file, made, due, request, thread, starts, lost>>
        /\ phase' \in [Proc -> Phases] /\ listed' \in [Proc -> SUBSET Row]
        /\ cut' \in [Proc -> BOOLEAN]
        /\ \A q \in Proc : phase'[q] = "down" => phase[q] = "down"
    <2> USE DEF TypeOK, Phases
    <2>1. CASE Serve(p) BY <2>1 DEF Serve
    <2>2. CASE Look(p) BY <2>2 DEF Look
    <2>3. CASE ClearContinuation(p)
      <3>1. PICK late \in BOOLEAN : cut' = [cut EXCEPT ![p] = late]
        BY <2>3 DEF ClearContinuation
      <3> QED BY <2>3, <3>1 DEF ClearContinuation
    <2>4. CASE TakeTasks(p) BY <2>4 DEF TakeTasks
    <2>5. CASE Closed(p)
      <3>1. cut' \in [Proc -> BOOLEAN]
        <4>1. cut' = [cut EXCEPT ![p] = cut[p] \/ listed[p] # {}]
          BY <2>5 DEF Closed
        <4>2. (cut[p] \/ listed[p] # {}) \in BOOLEAN
          OBVIOUS
        <4> QED BY <4>1, <4>2
      <3> QED BY <2>5, <3>1 DEF Closed
    <2> QED BY <2>1, <2>2, <2>3, <2>4, <2>5
  <1>2. /\ watcher' \in [Proc -> [at : {"none", "idle", "with", "settle"}, rows : SUBSET Row]]
        /\ \A q \in Proc : /\ watcher'[q].rows = watcher[q].rows
                           /\ watcher'[q].at # "settle" => watcher'[q].rows = {}
                           /\ phase'[q] = "down" => watcher'[q].at = "none"
    <2>1. CASE Serve(p)
      <3>1. PICK w \in {Idle, NoWatcher} : watcher' = [watcher EXCEPT ![p] = w]
        BY <2>1 DEF Serve
      <3>2. phase[p] = "down" /\ phase'[p] = "up" /\ \A q \in Proc \ {p} : phase'[q] = phase[q]
        BY <2>1 DEF Serve, TypeOK
      <3>3. watcher[p].rows = {}
        BY <3>2 DEF HandsInv
      <3>4. /\ w.rows = {} /\ w.at # "settle"
            /\ w \in [at : {"none", "idle", "with", "settle"}, rows : SUBSET Row]
        OBVIOUS
      <3>5. \A q \in Proc : watcher'[q] = IF q = p THEN w ELSE watcher[q]
        BY <3>1 DEF TypeOK
      <3>6. watcher' \in [Proc -> [at : {"none", "idle", "with", "settle"}, rows : SUBSET Row]]
        BY <3>1, <3>4 DEF TypeOK
      <3> HIDE DEF IInv
      <3>7. \A q \in Proc : q # p => /\ watcher[q].at # "settle" => watcher[q].rows = {}
                                     /\ phase[q] = "down" => watcher[q].at = "none"
        BY DEF IInv, HandsInv
      <3>8. ASSUME NEW q \in Proc
            PROVE  /\ watcher'[q].rows = watcher[q].rows
                   /\ watcher'[q].at # "settle" => watcher'[q].rows = {}
                   /\ phase'[q] = "down" => watcher'[q].at = "none"
        <4>1. CASE q = p
          BY <3>2, <3>3, <3>4, <3>5, <4>1
        <4>2. CASE q # p
          <5>1. watcher'[q] = watcher[q] /\ phase'[q] = phase[q]
            BY <3>2, <3>5, <4>2
          <5> QED BY <3>7, <4>2, <5>1, Zenon
        <4> QED BY <4>1, <4>2
      <3> QED BY <3>6, <3>8
    <2>2. CASE Look(p)
      BY <2>2 DEF Look, TypeOK, HandsInv, Has
    <2>3. CASE ClearContinuation(p) \/ TakeTasks(p) \/ Closed(p)
      BY <1>1, <2>3 DEF ClearContinuation, TakeTasks, Closed, TypeOK, HandsInv
    <2> QED BY <2>1, <2>2, <2>3
  <1>3. serves' \in 0 .. MaxServes
    BY ApprovalsAssumption DEF Serve, Look, ClearContinuation, TakeTasks, Closed, TypeOK
  <1>4. TypeOK'
    BY <1>1, <1>2, <1>3 DEF TypeOK
  <1>5. HandsInv'
    BY <1>1, <1>2 DEF HandsInv, RunsOnce
  <1>6. PlaceInv'
    BY <1>1, <1>2, StaysKeeps
  <1> QED BY <1>4, <1>5, <1>6

LEMMA EndKeeps ==
  ASSUME IInv, NEW p \in Proc, NEW r \in Row, End(p, r)
  PROVE  IInv'
  <1>1. /\ UNCHANGED <<file, made, due, phase, watcher, request, cut, serves, starts, lost>>
        /\ \A q \in Proc, s \in Row :
             thread'[q][s] = IF q = p /\ s = r THEN "none" ELSE thread[q][s]
        /\ thread[p][r] = "running"
    BY DEF End, IInv, TypeOK
  <1>2. TypeOK' BY DEF End, IInv, TypeOK
  <1>3. HandsInv' BY <1>1 DEF IInv, HandsInv, RunsOnce
  <1>4. PlaceInv' BY <1>1, StaysKeeps
  <1> QED BY <1>2, <1>3, <1>4 DEF IInv

LEMMA ExpireKeeps ==
  ASSUME IInv, NEW r \in Row, Expire(r)
  PROVE  IInv'
  <1>1. TypeOK' BY DEF Expire, IInv, TypeOK
  <1>2. HandsInv' BY DEF Expire, IInv, HandsInv, RunsOnce
  <1>3. PlaceInv' BY StaysKeeps DEF Expire
  <1> QED BY <1>1, <1>2, <1>3 DEF IInv

LEMMA AnswerKeeps ==
  ASSUME IInv, NEW h \in Human, NEW p \in Proc, NEW r \in Row, Answer(h, p, r)
  PROVE  IInv'
  <1> DEFINE q == [at |-> IF Has(p) THEN "with" ELSE "without", p |-> p, r |-> r]
  <1>1. /\ UNCHANGED <<file, made, due, phase, watcher, thread, listed, cut, serves, starts, lost>>
        /\ request' = [request EXCEPT ![h] = q] /\ request[h].at = "none" /\ r \in made
        /\ q.at \in {"with", "without"} /\ q.p = p /\ q.r = r
        /\ q \in [at : {"none", "with", "without", "settle"},
                  p : Proc \cup {NoRow}, r : Row \cup {NoRow}]
    BY WatcherTypes DEF Answer
  <1> HIDE DEF q
  <1>2. \A g \in Human : request'[g] = IF g = h THEN q ELSE request[g]
    BY <1>1 DEF IInv, TypeOK
  <1>3. TypeOK' BY <1>1 DEF IInv, TypeOK
  <1>4. HandsInv' BY <1>1, <1>2 DEF IInv, HandsInv, RunsOnce
  <1>5. PlaceInv' BY <1>1, <1>2, StaysKeeps
  <1> QED BY <1>3, <1>4, <1>5 DEF IInv

LEMMA DeferKeeps ==
  ASSUME IInv, NEW p \in Proc, NEW r \in Row, Defer(p, r)
  PROVE  IInv'
  <1>1. r \in Row \ made /\ file' = file \cup {r} /\ made' = made \cup {r}
        /\ UNCHANGED <<due, phase, watcher, request, thread, listed, cut, serves, starts, lost>>
    BY DEF Defer
  <1>2. TypeOK' BY <1>1 DEF IInv, TypeOK
  <1>3. HandsInv' BY <1>1 DEF IInv, HandsInv, RunsOnce
  <1>4. \A k \in Kinds, x \in Holders : ~Here(k, x, r)
    BY <1>1 DEF IInv, PlaceInv
  <1>5. MovesTo({r}, "file", NoRow)
    <2> SUFFICES ASSUME NEW s \in Row, NEW k \in Kinds, NEW x \in Holders
                 PROVE  Here(k, x, s)' <=> IF s = r THEN k = "file" /\ x = NoRow ELSE Here(k, x, s)
      BY DEF MovesTo
    <2> QED BY <1>1, <1>4 DEF Here, Over
  <1>6. PlaceInv'
    BY <1>1, <1>5, MoveKeeps DEF IInv, Kinds, Holders
  <1> QED BY <1>2, <1>3, <1>6 DEF IInv

LEMMA TakeKeeps ==
  ASSUME IInv, NEW h \in Human, Take(h)
  PROVE  IInv'
  <1> DEFINE r == request[h].r
             p == request[h].p
  <1>1. /\ UNCHANGED <<made, due, phase, watcher, thread, listed, cut, serves, starts, lost>>
        /\ request[h].at \in {"with", "without"} /\ p \in Proc /\ r \in made
    BY DEF Take, IInv, HandsInv
  <1>2. CASE r \in (file \cap Names[p]) \ due /\ request[h].at = "with"
    <2>1. /\ file' = file \ {r} /\ r \in file
          /\ request' = [request EXCEPT ![h].at = "settle"]
      BY <1>2 DEF Take
    <2>2. /\ request'[h].at = "settle" /\ request'[h].r = r /\ request'[h].p = p
          /\ \A g \in Human \ {h} : request'[g] = request[g]
          /\ request' \in [Human -> [at : {"none", "with", "without", "settle"},
                                     p : Proc \cup {NoRow}, r : Row \cup {NoRow}]]
      BY <2>1 DEF IInv, TypeOK
    <2>3. TypeOK'
      BY <1>1, <2>1, <2>2 DEF IInv, TypeOK
    <2>4. HandsInv'
      <3>1. \A g \in Human : request'[g].at # "none" =>
              request'[g].p \in Proc /\ request'[g].r \in made
        <4> SUFFICES ASSUME NEW g \in Human, request'[g].at # "none"
                     PROVE  request'[g].p \in Proc /\ request'[g].r \in made
          OBVIOUS
        <4>1. CASE g = h
          BY <1>1, <2>2, <4>1
        <4>2. CASE g # h
          BY <2>2, <4>2 DEF IInv, HandsInv
        <4> QED BY <4>1, <4>2
      <3> QED BY <1>1, <3>1 DEF IInv, HandsInv, RunsOnce
    <2>5. MovesTo({r}, "request", h)
      <3>1. r \in Row /\ Here("file", NoRow, r)
        BY <2>1 DEF Here, IInv, TypeOK
      <3>2. /\ \A q \in Proc : r \notin watcher[q].rows /\ thread[q][r] # "spawned"
            /\ ~Over(r)
            /\ \A g \in Human : ~(request[g].at = "settle" /\ request[g].r = r)
        BY <3>1, OnlyHere DEF Kinds, Holders
      <3> SUFFICES ASSUME NEW s \in Row, NEW k \in Kinds, NEW x \in Holders
                   PROVE  Here(k, x, s)' <=> IF s = r THEN k = "request" /\ x = h ELSE Here(k, x, s)
        BY DEF MovesTo
      <3> HIDE DEF r, p
      <3>3. CASE s = r
        BY <1>1, <2>1, <2>2, <3>2, <3>3 DEF Here, Over
      <3>4. CASE s # r
        <4>1. \A g \in Human : (request'[g].at = "settle" /\ request'[g].r = s)
                               <=> (request[g].at = "settle" /\ request[g].r = s)
          BY <1>1, <2>2, <3>4 DEF r
        <4> QED BY <1>1, <2>1, <3>4, <4>1 DEF Here, Over
      <3> QED BY <3>3, <3>4
    <2>6. PlaceInv'
      BY <1>1, <2>5, MoveKeeps DEF IInv, Kinds, Holders
    <2> QED BY <2>3, <2>4, <2>6 DEF IInv
  <1>3. CASE ~(r \in (file \cap Names[p]) \ due /\ request[h].at = "with")
    <2>1. request' = [request EXCEPT ![h] = NoRequest] /\ UNCHANGED file
      BY <1>3 DEF Take
    <2>2. \A g \in Human : request'[g] = IF g = h THEN NoRequest ELSE request[g]
      BY <2>1 DEF IInv, TypeOK
    <2>3. TypeOK'
      BY <1>1, <2>1, WatcherTypes DEF NoRequest, IInv, TypeOK
    <2>4. HandsInv'
      BY <1>1, <2>1, <2>2, WatcherTypes DEF IInv, HandsInv, RunsOnce
    <2>5. PlaceInv'
      BY <1>1, <2>1, <2>2, WatcherTypes, StaysKeeps
    <2> QED BY <2>3, <2>4, <2>5 DEF IInv
  <1> QED BY <1>2, <1>3

LEMMA TakeDueKeeps ==
  ASSUME IInv, NEW p \in Proc, TakeDue(p)
  PROVE  IInv'
  <1> DEFINE R == file \cap due \cap Names[p]
  <1>1. /\ UNCHANGED <<made, due, phase, request, thread, listed, cut, serves, starts, lost>>
        /\ watcher[p].at = "with" /\ file' = file \ R
        /\ watcher' = [watcher EXCEPT ![p] = Settling(R)]
    BY DEF TakeDue
  <1>2. R \subseteq file /\ R \subseteq Row /\ R \subseteq made
    BY DEF IInv, TypeOK
  <1> HIDE DEF R
  <1>3. /\ watcher'[p].rows = R
        /\ watcher'[p].at = "settle" \/ R = {}
        /\ watcher'[p].at # "none"
        /\ \A q \in Proc \ {p} : watcher'[q] = watcher[q]
        /\ watcher' \in [Proc -> [at : {"none", "idle", "with", "settle"}, rows : SUBSET Row]]
    BY <1>1, <1>2, WatcherTypes DEF IInv, TypeOK
  <1>4. watcher[p].rows = {} /\ phase[p] # "down"
    BY <1>1 DEF IInv, HandsInv
  <1>5. TypeOK'
    BY <1>1, <1>3 DEF IInv, TypeOK
  <1>6. HandsInv'
    <2>1. ASSUME NEW q \in Proc
          PROVE  /\ phase'[q] = "down" => watcher'[q].at = "none"
                 /\ watcher'[q].at # "settle" => watcher'[q].rows = {}
      <3>1. CASE q = p
        BY <1>1, <1>3, <1>4, <3>1
      <3>2. CASE q # p
        BY <1>1, <1>3, <3>2 DEF IInv, HandsInv
      <3> QED BY <3>1, <3>2
    <2> QED BY <1>1, <2>1 DEF IInv, HandsInv, RunsOnce
  <1>7. MovesTo(R, "watcher", p)
    <2> SUFFICES ASSUME NEW s \in Row, NEW k \in Kinds, NEW x \in Holders
                 PROVE  Here(k, x, s)' <=> IF s \in R THEN k = "watcher" /\ x = p ELSE Here(k, x, s)
      BY DEF MovesTo
    <2>1. CASE s \in R
      <3>1. Here("file", NoRow, s)
        BY <1>2, <2>1 DEF Here
      <3>2. /\ \A q \in Proc : s \notin watcher[q].rows /\ thread[q][s] # "spawned"
            /\ ~Over(s)
            /\ \A g \in Human : ~(request[g].at = "settle" /\ request[g].r = s)
        BY <3>1, OnlyHere DEF Kinds, Holders
      <3> QED BY <1>1, <1>3, <2>1, <3>2 DEF Here, Over
    <2>2. CASE s \notin R
      <3>1. \A q \in Proc : s \in watcher'[q].rows <=> s \in watcher[q].rows
        BY <1>3, <1>4, <2>2
      <3> QED BY <1>1, <2>2, <3>1 DEF Here, Over
    <2> QED BY <2>1, <2>2
  <1>8. PlaceInv'
    BY <1>1, <1>2, <1>7, MoveKeeps DEF IInv, Kinds, Holders
  <1> QED BY <1>5, <1>6, <1>8 DEF IInv

(* A row in somebody's hands goes to a thread of its own, or is lost.      *)
LEMMA RunMoves ==
  ASSUME IInv, NEW p \in Proc, NEW r \in Row, NEW k \in {"watcher", "request"},
         NEW x \in Holders, Here(k, x, r), Run(p, r),
         UNCHANGED <<file, made, starts>>,
         \A q \in Proc, s \in Row :
            s \in watcher'[q].rows <=> s \in watcher[q].rows /\ ~(k = "watcher" /\ q = x /\ s = r),
         \A h \in Human, s \in Row : request'[h].at = "settle" /\ request'[h].r = s <=>
            request[h].at = "settle" /\ request[h].r = s /\ ~(k = "request" /\ h = x)
  PROVE  /\ PlaceInv' /\ r \in made /\ RunsOnce'
         /\ thread' \in [Proc -> [Row -> {"none", "spawned", "running"}]]
         /\ listed' \in [Proc -> SUBSET Row]
         /\ lost' \in [Row -> {"no", "exit", "fault"}]
         /\ \A q \in Proc, s \in Row : thread'[q][s] = "running" => starts[s] > 0
  <1>1. /\ r \in made /\ r \notin file /\ ~Over(r)
        /\ \A q \in Proc : /\ r \in watcher[q].rows => k = "watcher" /\ q = x
                           /\ thread[q][r] # "spawned"
        /\ \A h \in Human : request[h].at = "settle" /\ request[h].r = r => k = "request" /\ h = x
    BY OnlyHere DEF Kinds
  <1>2. k = "request" => request[x].r = r
    BY DEF Here
  <1>3. CASE /\ thread' = [thread EXCEPT ![p][r] = "spawned"]
             /\ listed' = [listed EXCEPT ![p] =
                             IF phase[p] \in {"up", "cleared"} THEN @ \cup {r} ELSE @]
             /\ UNCHANGED lost
    <2>1. \A q \in Proc, s \in Row :
            thread'[q][s] = IF q = p /\ s = r THEN "spawned" ELSE thread[q][s]
      BY <1>3 DEF IInv, TypeOK
    <2>2. MovesTo({r}, "thread", p)
      <3> SUFFICES ASSUME NEW s \in Row, NEW l \in Kinds, NEW y \in Holders
                   PROVE  Here(l, y, s)' <=> IF s = r THEN l = "thread" /\ y = p ELSE Here(l, y, s)
        BY DEF MovesTo
      <3>1. CASE s = r
        BY <1>1, <1>3, <2>1, <3>1 DEF Here, Over
      <3>2. CASE s # r
        BY <1>2, <1>3, <2>1, <3>2 DEF Here, Over
      <3> QED BY <3>1, <3>2
    <2>3. PlaceInv'
      <3>1. /\ PlaceInv /\ "thread" \in Kinds /\ p \in Holders
            /\ {r} \cap Row \subseteq made' /\ made' = made
        BY <1>1 DEF IInv, Kinds, Holders
      <3> QED BY <2>2, <3>1, MoveKeeps
    <2>4. /\ thread' \in [Proc -> [Row -> {"none", "spawned", "running"}]]
          /\ listed' \in [Proc -> SUBSET Row]
          /\ lost' \in [Row -> {"no", "exit", "fault"}]
      BY <1>3 DEF IInv, TypeOK
    <2> QED BY <1>1, <2>1, <2>3, <2>4 DEF IInv, HandsInv, RunsOnce
  <1>4. CASE lost' = [lost EXCEPT ![r] = "fault"] /\ UNCHANGED <<thread, listed>>
    <2>1. \A s \in Row : lost'[s] = IF s = r THEN "fault" ELSE lost[s]
      BY <1>4 DEF IInv, TypeOK
    <2>2. MovesTo({r}, "over", NoRow)
      <3> SUFFICES ASSUME NEW s \in Row, NEW l \in Kinds, NEW y \in Holders
                   PROVE  Here(l, y, s)' <=> IF s = r THEN l = "over" /\ y = NoRow ELSE Here(l, y, s)
        BY DEF MovesTo
      <3>1. CASE s = r
        BY <1>1, <1>4, <2>1, <3>1 DEF Here, Over
      <3>2. CASE s # r
        BY <1>2, <1>4, <2>1, <3>2 DEF Here, Over
      <3> QED BY <3>1, <3>2
    <2>3. PlaceInv'
      <3>1. /\ PlaceInv /\ "over" \in Kinds /\ NoRow \in Holders
            /\ {r} \cap Row \subseteq made' /\ made' = made
        BY <1>1 DEF IInv, Kinds, Holders
      <3> QED BY <2>2, <3>1, MoveKeeps
    <2>4. /\ thread' \in [Proc -> [Row -> {"none", "spawned", "running"}]]
          /\ listed' \in [Proc -> SUBSET Row]
          /\ lost' \in [Row -> {"no", "exit", "fault"}]
      BY <1>4 DEF IInv, TypeOK
    <2> QED BY <1>1, <1>4, <2>3, <2>4 DEF IInv, HandsInv, RunsOnce
  <1> QED BY <1>3, <1>4 DEF Run

LEMMA SettleKeeps ==
  ASSUME IInv, NEW h \in Human, Settle(h)
  PROVE  IInv'
  <1> DEFINE r == request[h].r
             p == request[h].p
  <1>1. /\ UNCHANGED <<file, made, due, phase, watcher, cut, serves, starts>>
        /\ request[h].at = "settle" /\ p \in Proc /\ r \in Row /\ Run(p, r)
        /\ request' = [request EXCEPT ![h] = NoRequest]
    BY DEF Settle, IInv, HandsInv, TypeOK
  <1>2. \A g \in Human : request'[g] = IF g = h THEN NoRequest ELSE request[g]
    BY <1>1 DEF IInv, TypeOK
  <1>3. Here("request", h, r) /\ h \in Holders
    BY <1>1 DEF Here, Holders
  <1>4. \A g \in Human, s \in Row : request'[g].at = "settle" /\ request'[g].r = s <=>
            request[g].at = "settle" /\ request[g].r = s /\ g # h
    BY <1>2, WatcherTypes
  <1> HIDE DEF r, p
  <1>5. /\ PlaceInv' /\ r \in made /\ RunsOnce'
        /\ thread' \in [Proc -> [Row -> {"none", "spawned", "running"}]]
        /\ listed' \in [Proc -> SUBSET Row]
        /\ lost' \in [Row -> {"no", "exit", "fault"}]
        /\ \A q \in Proc, s \in Row : thread'[q][s] = "running" => starts[s] > 0
    BY <1>1, <1>3, <1>4, RunMoves
  <1>6. TypeOK'
    BY <1>1, <1>5, WatcherTypes DEF NoRequest, IInv, TypeOK
  <1>7. HandsInv'
    BY <1>1, <1>2, <1>5, WatcherTypes DEF IInv, HandsInv
  <1> QED BY <1>5, <1>6, <1>7 DEF IInv

LEMMA SettleDueKeeps ==
  ASSUME IInv, NEW p \in Proc, SettleDue(p)
  PROVE  IInv'
  <1>1. PICK r \in watcher[p].rows :
          /\ Run(p, r)
          /\ watcher' = [watcher EXCEPT ![p] = Settling(watcher[p].rows \ {r})]
    BY DEF SettleDue
  <1>2. /\ UNCHANGED <<file, made, due, phase, request, cut, serves, starts>>
        /\ watcher[p].at = "settle" /\ r \in Row
        /\ watcher[p].rows \ {r} \in SUBSET Row
    BY DEF SettleDue, IInv, TypeOK
  <1>3. /\ watcher'[p].rows = watcher[p].rows \ {r}
        /\ watcher'[p].at = "settle" \/ watcher'[p].rows = {}
        /\ watcher'[p].at # "none"
        /\ \A q \in Proc \ {p} : watcher'[q] = watcher[q]
        /\ watcher' \in [Proc -> [at : {"none", "idle", "with", "settle"}, rows : SUBSET Row]]
    BY <1>1, <1>2, WatcherTypes DEF IInv, TypeOK
  <1>4. Here("watcher", p, r) /\ p \in Holders
    BY DEF Here, Holders
  <1>5. \A q \in Proc, s \in Row :
            s \in watcher'[q].rows <=>
              s \in watcher[q].rows /\ ~("watcher" = "watcher" /\ q = p /\ s = r)
    BY <1>3
  <1>6. /\ PlaceInv' /\ RunsOnce'
        /\ thread' \in [Proc -> [Row -> {"none", "spawned", "running"}]]
        /\ listed' \in [Proc -> SUBSET Row]
        /\ lost' \in [Row -> {"no", "exit", "fault"}]
        /\ \A q \in Proc, s \in Row : thread'[q][s] = "running" => starts[s] > 0
    <2>1. \A h \in Human, s \in Row : request'[h].at = "settle" /\ request'[h].r = s <=>
            request[h].at = "settle" /\ request[h].r = s /\ ~("watcher" = "request" /\ h = p)
      BY <1>2
    <2>2. "watcher" \in {"watcher", "request"} /\ UNCHANGED <<file, made, starts>>
      BY <1>2
    <2>3. Run(p, r) /\ r \in Row
      BY <1>1, <1>2
    <2> QED BY <1>4, <1>5, <2>1, <2>2, <2>3, RunMoves
  <1>7. TypeOK'
    BY <1>2, <1>3, <1>6 DEF IInv, TypeOK
  <1>8. HandsInv'
    <2>1. ASSUME NEW q \in Proc
          PROVE  /\ phase'[q] = "down" => watcher'[q].at = "none"
                 /\ watcher'[q].at # "settle" => watcher'[q].rows = {}
      <3>1. phase[p] # "down"
        BY <1>2 DEF IInv, HandsInv
      <3>2. CASE q = p
        BY <1>2, <1>3, <3>1, <3>2
      <3>3. CASE q # p
        BY <1>2, <1>3, <3>3 DEF IInv, HandsInv
      <3> QED BY <3>2, <3>3
    <2> QED BY <1>2, <1>6, <2>1 DEF IInv, HandsInv
  <1> QED BY <1>6, <1>7, <1>8 DEF IInv

LEMMA BeginKeeps ==
  ASSUME IInv, NEW p \in Proc, NEW r \in Row, Begin(p, r)
  PROVE  IInv'
  <1>1. /\ UNCHANGED <<made, due, phase, watcher, request, listed, cut, serves>>
        /\ thread[p][r] = "spawned"
    BY DEF Begin
  <1>2. Here("thread", p, r) /\ "thread" \in Kinds /\ p \in Holders
    BY <1>1 DEF Here, Kinds, Holders
  <1>3. /\ r \in made /\ r \notin file /\ ~Over(r) /\ starts[r] = 0 /\ lost[r] = "no"
        /\ \A q \in Proc : r \notin watcher[q].rows /\ (thread[q][r] = "spawned" => q = p)
        /\ \A h \in Human : ~(request[h].at = "settle" /\ request[h].r = r)
    <2>1. starts[r] \in Nat
      BY DEF IInv, TypeOK
    <2> QED BY <1>2, <2>1, OnlyHere DEF Over
  <1>4. CASE /\ file' = file \cup {r} /\ UNCHANGED <<lost, starts>>
             /\ thread' = [thread EXCEPT ![p][r] = "none"]
    <2>1. \A q \in Proc, s \in Row :
            thread'[q][s] = IF q = p /\ s = r THEN "none" ELSE thread[q][s]
      BY <1>4 DEF IInv, TypeOK
    <2>2. TypeOK' BY <1>1, <1>3, <1>4 DEF IInv, TypeOK
    <2>3. HandsInv' BY <1>1, <1>4, <2>1 DEF IInv, HandsInv, RunsOnce
    <2>4. MovesTo({r}, "file", NoRow)
      BY <1>1, <1>3, <1>4, <2>1 DEF MovesTo, Here, Over
    <2>5. PlaceInv'
      <3>1. /\ PlaceInv /\ "file" \in Kinds /\ NoRow \in Holders
            /\ {r} \cap Row \subseteq made' /\ made' = made
        BY <1>1, <1>3 DEF IInv, Kinds, Holders
      <3> QED BY <2>4, <3>1, MoveKeeps
    <2> QED BY <2>2, <2>3, <2>5 DEF IInv
  <1>5. CASE /\ lost' = [lost EXCEPT ![r] = "fault"] /\ UNCHANGED <<file, starts>>
             /\ thread' = [thread EXCEPT ![p][r] = "none"]
    <2>1. /\ \A q \in Proc, s \in Row :
               thread'[q][s] = IF q = p /\ s = r THEN "none" ELSE thread[q][s]
          /\ \A s \in Row : lost'[s] = IF s = r THEN "fault" ELSE lost[s]
      BY <1>5 DEF IInv, TypeOK
    <2>2. TypeOK' BY <1>1, <1>5 DEF IInv, TypeOK
    <2>3. HandsInv' BY <1>1, <1>5, <2>1 DEF IInv, HandsInv, RunsOnce
    <2>4. MovesTo({r}, "over", NoRow)
      BY <1>1, <1>3, <1>5, <2>1 DEF MovesTo, Here, Over
    <2>5. PlaceInv'
      <3>1. /\ PlaceInv /\ "over" \in Kinds /\ NoRow \in Holders
            /\ {r} \cap Row \subseteq made' /\ made' = made
        BY <1>1, <1>3 DEF IInv, Kinds, Holders
      <3> QED BY <2>4, <3>1, MoveKeeps
    <2> QED BY <2>2, <2>3, <2>5 DEF IInv
  <1>6. CASE /\ starts' = [starts EXCEPT ![r] = @ + 1] /\ UNCHANGED <<file, lost>>
             /\ thread' = [thread EXCEPT ![p][r] = "running"]
    <2>1. /\ \A q \in Proc, s \in Row :
               thread'[q][s] = IF q = p /\ s = r THEN "running" ELSE thread[q][s]
          /\ \A s \in Row : starts'[s] = IF s = r THEN 1 ELSE starts[s]
      BY <1>3, <1>6 DEF IInv, TypeOK
    <2>2. TypeOK' BY <1>1, <1>6 DEF IInv, TypeOK
    <2>3. HandsInv' BY <1>1, <1>6, <2>1 DEF IInv, HandsInv, RunsOnce
    <2>4. MovesTo({r}, "over", NoRow)
      BY <1>1, <1>3, <1>6, <2>1 DEF MovesTo, Here, Over
    <2>5. PlaceInv'
      <3>1. /\ PlaceInv /\ "over" \in Kinds /\ NoRow \in Holders
            /\ {r} \cap Row \subseteq made' /\ made' = made
        BY <1>1, <1>3 DEF IInv, Kinds, Holders
      <3> QED BY <2>4, <3>1, MoveKeeps
    <2> QED BY <2>2, <2>3, <2>5 DEF IInv
  <1> QED BY <1>4, <1>5, <1>6 DEF Begin

(* Everything the process held is over.                                    *)
LEMMA HaltKeeps ==
  ASSUME IInv, NEW p \in Proc, NEW why \in {"exit", "fault"}, Halt(p, why)
  PROVE  IInv'
  <1> DEFINE R == watcher[p].rows \cup Answered(p) \cup In(p, "spawned") \cup In(p, "running")
  <1>1. /\ UNCHANGED <<file, made, due, serves, starts>>
        /\ phase' = [phase EXCEPT ![p] = "down"]
        /\ watcher' = [watcher EXCEPT ![p] = NoWatcher]
        /\ request' = [h \in Human |-> IF request[h].p = p THEN NoRequest ELSE request[h]]
        /\ thread' = [thread EXCEPT ![p] = [r \in Row |-> "none"]]
        /\ listed' = [listed EXCEPT ![p] = {}]
        /\ lost' = [r \in Row |-> IF r \in R THEN why ELSE lost[r]]
        /\ cut' = [cut EXCEPT ![p] = FALSE]
    BY DEF Halt
  <1>2. /\ \A q \in Proc : watcher'[q] = IF q = p THEN NoWatcher ELSE watcher[q]
        /\ \A q \in Proc : phase'[q] = IF q = p THEN "down" ELSE phase[q]
        /\ \A q \in Proc, r \in Row :
             thread'[q][r] = IF q = p THEN "none" ELSE thread[q][r]
        /\ \A h \in Human : request'[h] = IF request[h].p = p THEN NoRequest ELSE request[h]
        /\ \A r \in Row : lost'[r] = IF r \in R THEN why ELSE lost[r]
    BY <1>1 DEF IInv, TypeOK
  <1>3. \A r \in Row : r \in R <=>
          \/ r \in watcher[p].rows
          \/ \E h \in Human : request[h].at = "settle" /\ request[h].p = p /\ request[h].r = r
          \/ thread[p][r] \in {"spawned", "running"}
    BY DEF Answered, In
  <1> HIDE DEF R
  <1>4. TypeOK'
    <2>1. request' \in [Human -> [at : {"none", "with", "without", "settle"},
                                  p : Proc \cup {NoRow}, r : Row \cup {NoRow}]]
      BY <1>1 DEF NoRequest, IInv, TypeOK
    <2>2. watcher' \in [Proc -> [at : {"none", "idle", "with", "settle"}, rows : SUBSET Row]]
      BY <1>1, WatcherTypes DEF IInv, TypeOK
    <2> QED BY <1>1, <2>1, <2>2 DEF IInv, TypeOK, Phases
  <1>5. HandsInv'
    BY <1>1, <1>2, WatcherTypes DEF IInv, HandsInv, RunsOnce
  <1>6. \A r \in Row : r \in R => \E k \in Kinds, x \in Holders :
          /\ Here(k, x, r)
          /\ \/ k = "watcher" /\ x = p
             \/ k = "request" /\ request[x].p = p
             \/ k = "thread" /\ x = p
             \/ k = "over"
    <2> SUFFICES ASSUME NEW r \in Row, r \in R
                 PROVE  \E k \in Kinds, x \in Holders :
                          /\ Here(k, x, r)
                          /\ \/ k = "watcher" /\ x = p
                             \/ k = "request" /\ request[x].p = p
                             \/ k = "thread" /\ x = p
                             \/ k = "over"
      OBVIOUS
    <2> USE DEF Here, Kinds, Holders
    <2>1. CASE r \in watcher[p].rows
      BY <2>1
    <2>2. CASE \E h \in Human : request[h].at = "settle" /\ request[h].p = p /\ request[h].r = r
      BY <2>2
    <2>3. CASE thread[p][r] = "spawned"
      BY <2>3
    <2>4. CASE thread[p][r] = "running"
      BY <2>4 DEF Over, IInv, HandsInv
    <2> QED BY <1>3, <2>1, <2>2, <2>3, <2>4
  <1>7. \A r \in Row : r \in R =>
          /\ r \in made /\ r \notin file
          /\ \A q \in Proc : q # p => r \notin watcher[q].rows /\ thread[q][r] # "spawned"
          /\ \A h \in Human : request[h].at = "settle" /\ request[h].r = r => request[h].p = p
    <2> SUFFICES ASSUME NEW r \in Row, r \in R
                 PROVE
          /\ r \in made /\ r \notin file
          /\ \A q \in Proc : q # p => r \notin watcher[q].rows /\ thread[q][r] # "spawned"
          /\ \A h \in Human : request[h].at = "settle" /\ request[h].r = r => request[h].p = p
      OBVIOUS
    <2>1. PICK k \in Kinds, x \in Holders :
          /\ Here(k, x, r)
          /\ \/ k = "watcher" /\ x = p
             \/ k = "request" /\ request[x].p = p
             \/ k = "thread" /\ x = p
             \/ k = "over"
      BY <1>6
    <2> QED BY <2>1, OnlyHere
  <1>8. MovesTo(R, "over", NoRow)
    <2> SUFFICES ASSUME NEW s \in Row, NEW k \in Kinds, NEW x \in Holders
                 PROVE  Here(k, x, s)' <=> IF s \in R THEN k = "over" /\ x = NoRow ELSE Here(k, x, s)
      BY DEF MovesTo
    <2>1. Over(s)' <=> s \in R \/ Over(s)
      BY <1>1, <1>2 DEF Over
    <2>2. \A h \in Human : request'[h].at = "settle" /\ request'[h].r = s
                           <=> request[h].at = "settle" /\ request[h].r = s /\ request[h].p # p
      BY <1>2, WatcherTypes
    <2>3. CASE s \in R
      BY <1>1, <1>2, <1>7, <2>1, <2>2, <2>3, WatcherTypes DEF Here
    <2>4. CASE s \notin R
      BY <1>1, <1>2, <1>3, <2>1, <2>2, <2>4, WatcherTypes DEF Here
    <2> QED BY <2>3, <2>4
  <1>9. PlaceInv'
    <2>1. /\ PlaceInv /\ "over" \in Kinds /\ NoRow \in Holders
          /\ R \cap Row \subseteq made' /\ made' = made
      BY <1>1, <1>7 DEF IInv, Kinds, Holders
    <2> QED BY <1>8, <2>1, MoveKeeps
  <1> QED BY <1>4, <1>5, <1>9 DEF IInv

LEMMA NextKeeps ==
  ASSUME IInv, [Next]_vars
  PROVE  IInv'
  <1>1. ASSUME NEW p \in Proc, Life(p) PROVE IInv'
    BY <1>1, LifeSteps, HaltKeeps DEF Life, Exit, Crash
  <1>2. ASSUME NEW p \in Proc, Work(p) PROVE IInv'
    BY <1>2, LifeSteps, TakeDueKeeps, SettleDueKeeps, BeginKeeps DEF Work
  <1>3. CASE UNCHANGED vars
    <2>1. PlaceInv' BY <1>3, StaysKeeps DEF vars
    <2> QED BY <1>3, <2>1 DEF vars, IInv, TypeOK, HandsInv, RunsOnce
  <1> QED BY <1>1, <1>2, <1>3, DeferKeeps, EndKeeps, ExpireKeeps, TakeKeeps, SettleKeeps,
          AnswerKeeps DEF Next, Ask

LEMMA Invariance == Spec => []IInv
  BY InitInv, NextKeeps, PTL DEF Spec

(* The state of the file, of the processes and of their threads keeps its  *)
(* types.                                                                  *)
THEOREM TypeCorrect == Spec => []TypeOK
  <1>1. IInv => TypeOK BY DEF IInv
  <1> QED BY <1>1, Invariance, PTL

(* A deferred approval is in one place: the file, the hands of one request *)
(* or watcher, a thread about to call its task, or over.                   *)
THEOREM InOnePlace == Spec => []OnePlace
  <1>1. ASSUME IInv PROVE OnePlace
    <2> USE <1>1
    <2> SUFFICES ASSUME NEW r \in made
                 PROVE  \E x \in Places(r) : Places(r) = {x}
      BY DEF OnePlace
    <2>1. r \in Row
      BY DEF IInv, TypeOK
    <2>2. PICK k \in Kinds, x \in Holders : Here(k, x, r)
      BY <2>1 DEF IInv, PlaceInv
    <2>3. /\ r \in file => k = "file"
          /\ \A p \in Proc : r \in watcher[p].rows => k = "watcher" /\ x = p
          /\ \A h \in Human : request[h].at = "settle" /\ request[h].r = r => k = "request" /\ x = h
          /\ \A p \in Proc : thread[p][r] = "spawned" => k = "thread" /\ x = p
          /\ Over(r) => k = "over"
      BY <2>1, <2>2, OnlyHere
    <2>4. CASE k = "file"
      <3>1. Places(r) = {<<"file">>}
        BY <2>1, <2>2, <2>3, <2>4 DEF Here, Places
      <3> QED BY <3>1
    <2>5. CASE k = "watcher"
      <3>1. Places(r) = {<<"watcher", x>>}
        BY <2>1, <2>2, <2>3, <2>5 DEF Here, Places
      <3> QED BY <3>1
    <2>6. CASE k = "request"
      <3>1. Places(r) = {<<"request", x>>}
        BY <2>1, <2>2, <2>3, <2>6 DEF Here, Places
      <3> QED BY <3>1
    <2>7. CASE k = "thread"
      <3>1. Places(r) = {<<"thread", x>>}
        BY <2>1, <2>2, <2>3, <2>7 DEF Here, Places
      <3> QED BY <3>1
    <2>8. CASE k = "over"
      <3>1. Places(r) = {<<"over">>}
        BY <2>1, <2>2, <2>3, <2>8 DEF Here, Places
      <3> QED BY <3>1
    <2> QED BY <2>4, <2>5, <2>6, <2>7, <2>8 DEF Kinds
  <1> QED BY <1>1, Invariance, PTL

(* No task is called twice for one approval.                               *)
THEOREM CalledOnce == Spec => []RunsOnce
  <1>1. IInv => RunsOnce BY DEF IInv, HandsInv
  <1> QED BY <1>1, Invariance, PTL

(* Only a process that names a row's task takes it out of the file.        *)
THEOREM ForeignSafe == Spec => ForeignSpared
  <1>1. ASSUME IInv, [Next]_vars
        PROVE  [\A r \in file \ file' :
                  \E p \in Proc : /\ r \in Names[p]
                                  /\ r \in watcher'[p].rows \cup Answered(p)']_vars
    <2> SUFFICES ASSUME NEW r \in file, r \notin file'
                 PROVE  \E p \in Proc : /\ r \in Names[p]
                                        /\ r \in watcher'[p].rows \cup Answered(p)'
      OBVIOUS
    <2> USE <1>1 DEF IInv
    <2>1. (\E h \in Human : Take(h)) \/ (\E p \in Proc : TakeDue(p))
      BY DEF Next, Life, Work, Ask, vars, Serve, ClearContinuation, TakeTasks, Closed, Exit,
         Crash, Halt, Look, SettleDue, Begin, Defer, End, Expire, Settle, Answer
    <2>2. ASSUME NEW p \in Proc, TakeDue(p)
          PROVE  r \in Names[p] /\ r \in watcher'[p].rows
      BY <2>2, WatcherTypes DEF TakeDue, TypeOK
    <2>3. ASSUME NEW h \in Human, Take(h)
          PROVE  \E p \in Proc : r \in Names[p] /\ r \in Answered(p)'
      <3>1. /\ request[h].p \in Proc /\ r = request[h].r /\ r \in Names[request[h].p]
            /\ request' = [request EXCEPT ![h].at = "settle"]
        BY <2>3 DEF Take, HandsInv
      <3>2. request'[h].at = "settle" /\ request'[h].p = request[h].p /\ request'[h].r = r
        BY <3>1 DEF TypeOK
      <3>3. r \in Answered(request[h].p)'
        BY <3>2 DEF Answered
      <3> QED BY <3>1, <3>3
    <2> QED BY <2>1, <2>2, <2>3
  <1> QED BY <1>1, Invariance, PTL DEF Spec, ForeignSpared
================================================================================
