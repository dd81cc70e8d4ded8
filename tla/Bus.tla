--------------------------------- MODULE Bus ---------------------------------
(***************************************************************************)
(* The event bus of synsema-agents/src/bus.rs and the part of the I/O hub  *)
(* (synsema-stdlib/src/ws.rs) that reads subscriptions.  publish takes the *)
(* list of matching subscribers under the bus's lock and then pushes to    *)
(* each under that subscriber's own lock, while others publish, subscribe, *)
(* read and leave.                                                         *)
(*                                                                         *)
(* Every subscriber's pattern matches every topic, and an event is its     *)
(* publisher, its number there, and its size.                              *)
(***************************************************************************)
EXTENDS Naturals, Sequences, FiniteSets

CONSTANTS Sub,          \* subscriptions, each made once
          Publisher,
          Size,         \* sizes of a payload (send_size)
          MaxQueue, MaxBytes,   \* SubscribeOpts
          MaxSubscribers,
          MaxEvents     \* bound: events of one publisher

ASSUME BusAssumption ==
    /\ Size \subseteq Nat
    /\ MaxQueue \in Nat \ {0} /\ MaxBytes \in Nat \ {0}     \* clamp(1, ..)
    /\ MaxSubscribers \in Nat /\ MaxEvents \in Nat

VARIABLES subs,         \* BusState.subs
          hub,          \* hub[s]: the reader's handle: none, open, leaving or closed
          onFull,       \* onFull[s]
          queue, bytes, error, dropped, received,       \* SubQueue of each
          taken,        \* taken[s]: events the reader got
          seen,         \* seen[s][p]: number of the last event of p the reader got
          sent,         \* sent[p]: events p published
          event,        \* event[p]: the one p is publishing
          targets       \* targets[p]: subscribers p has still to push to

busVars == <<subs, hub, onFull, queue, bytes, error, dropped, received, taken, seen,
          sent, event, targets>>

subQueue == <<queue, bytes, error, dropped, received>>

Event == [from : Publisher, n : 1 .. MaxEvents, size : Size]

SumOfSizes(q) ==
    LET sum[i \in 0 .. Len(q)] == IF i = 0 THEN 0 ELSE sum[i - 1] + q[i].size
    IN  sum[Len(q)]

(* saturating_sub.                                                         *)
Minus(a, b) == IF b <= a THEN a - b ELSE 0

BusInit ==
    /\ subs = {}
    /\ hub = [s \in Sub |-> "none"]
    /\ onFull = [s \in Sub |-> "drop_oldest"]
    /\ queue = [s \in Sub |-> <<>>]
    /\ bytes = [s \in Sub |-> 0]
    /\ error = [s \in Sub |-> FALSE]
    /\ dropped = [s \in Sub |-> 0]
    /\ received = [s \in Sub |-> 0]
    /\ taken = [s \in Sub |-> 0]
    /\ seen = [s \in Sub |-> [p \in Publisher |-> 0]]
    /\ sent = [p \in Publisher |-> 0]
    /\ event = [p \in Publisher |-> [from |-> p, n |-> 0, size |-> 0]]
    /\ targets = [p \in Publisher |-> {}]

(* bus_subscribe.                                                          *)
Subscribe(s, policy) ==
    /\ hub[s] = "none"
    /\ Cardinality(subs) < MaxSubscribers
    /\ subs' = subs \cup {s}
    /\ hub' = [hub EXCEPT ![s] = "open"]
    /\ onFull' = [onFull EXCEPT ![s] = policy]
    /\ UNCHANGED <<subQueue, taken, seen, sent, event, targets>>

(* bus_unsubscribe, and reset_hub at the end of a request.                 *)
Unsubscribe(s) ==
    /\ hub[s] = "open"
    /\ hub' = [hub EXCEPT ![s] = "closed"]
    /\ subs' = subs \ {s}
    /\ UNCHANGED <<onFull, subQueue, taken, seen, sent, event, targets>>

(* Bus::publish, under the bus's lock.                                     *)
Publish(p, size) ==
    /\ targets[p] = {} /\ sent[p] < MaxEvents
    /\ sent' = [sent EXCEPT ![p] = @ + 1]
    /\ event' = [event EXCEPT ![p] = [from |-> p, n |-> sent[p] + 1, size |-> size]]
    /\ targets' = [targets EXCEPT ![p] = subs]
    /\ UNCHANGED <<subs, hub, onFull, subQueue, taken, seen>>

(* Subscriber::push.  A full queue drops its oldest events until the new   *)
(* one fits or none is left.  BytesLeft: the counter of bytes when the k   *)
(* oldest are gone; Fits: there is then room for one more of this size.    *)
BytesLeft(s, k) == Minus(bytes[s], SumOfSizes(SubSeq(queue[s], 1, k)))

Fits(s, k, size) ==
    Len(queue[s]) - k < MaxQueue /\ BytesLeft(s, k) + size <= MaxBytes

(* Mutant: only the number of events is looked at.                          *)
ShedByCount(s, size) == IF Len(queue[s]) < MaxQueue THEN 0 ELSE 1

Shed(s, size) ==
    CHOOSE k \in 0 .. Len(queue[s]) :
        /\ k = Len(queue[s]) \/ Fits(s, k, size)
        /\ \A i \in 0 .. k - 1 : ~Fits(s, i, size)

(* Mutant: what is dropped is not counted.                                  *)
EnqueueUncounted(s, ev, k) ==
    /\ queue' = [queue EXCEPT ![s] = Append(SubSeq(@, k + 1, Len(@)), ev)]
    /\ bytes' = [bytes EXCEPT ![s] = BytesLeft(s, k) + ev.size]
    /\ UNCHANGED <<error, dropped>>

(* Mutant: pop_back for pop_front.                                          *)
EnqueueDropsNewest(s, ev, k) ==
    LET kept == Len(queue[s]) - k IN
    /\ queue' = [queue EXCEPT ![s] = Append(SubSeq(@, 1, kept), ev)]
    /\ bytes' = [bytes EXCEPT ![s] = SumOfSizes(SubSeq(queue[s], 1, kept)) + ev.size]
    /\ dropped' = [dropped EXCEPT ![s] = @ + k]
    /\ UNCHANGED error

Enqueue(s, ev, k) ==
    /\ queue' = [queue EXCEPT ![s] = Append(SubSeq(@, k + 1, Len(@)), ev)]
    /\ bytes' = [bytes EXCEPT ![s] = BytesLeft(s, k) + ev.size]
    /\ dropped' = [dropped EXCEPT ![s] = @ + k]
    /\ UNCHANGED error

Fail(s) ==
    /\ error' = [error EXCEPT ![s] = TRUE]
    /\ queue' = [queue EXCEPT ![s] = <<>>]
    /\ bytes' = [bytes EXCEPT ![s] = 0]
    /\ UNCHANGED dropped

Push(p, s) ==
    LET ev == event[p] IN
    /\ s \in targets[p]
    /\ targets' = [targets EXCEPT ![p] = @ \ {s}]
    /\ IF error[s] THEN UNCHANGED subQueue
       ELSE /\ received' = [received EXCEPT ![s] = @ + 1]
            /\ IF onFull[s] = "error" /\ ~Fits(s, 0, ev.size)
               THEN Fail(s)
               ELSE Enqueue(s, ev, Shed(s, ev.size))
    /\ UNCHANGED <<subs, hub, onFull, taken, seen, sent, event>>

(* The reader: the next event, or the error once the queue is empty, which *)
(* takes the handle away and then leaves the bus.                          *)
Recv(s) ==
    LET ev == Head(queue[s]) IN
    /\ hub[s] = "open" /\ queue[s] # <<>>
    /\ queue' = [queue EXCEPT ![s] = Tail(@)]
    /\ bytes' = [bytes EXCEPT ![s] = Minus(@, ev.size)]
    /\ taken' = [taken EXCEPT ![s] = @ + 1]
    /\ seen' = [seen EXCEPT ![s][ev.from] = ev.n]
    /\ UNCHANGED <<subs, hub, onFull, error, dropped, received, sent, event, targets>>

RecvError(s) ==
    /\ hub[s] = "open" /\ queue[s] = <<>> /\ error[s]
    /\ error' = [error EXCEPT ![s] = FALSE]
    /\ hub' = [hub EXCEPT ![s] = "leaving"]
    /\ UNCHANGED <<subs, onFull, queue, bytes, dropped, received, taken, seen, sent, event, targets>>

Leave(s) ==
    /\ hub[s] = "leaving"
    /\ hub' = [hub EXCEPT ![s] = "closed"]
    /\ subs' = subs \ {s}
    /\ UNCHANGED <<onFull, subQueue, taken, seen, sent, event, targets>>

BusNext ==
    \/ \E s \in Sub, policy \in {"drop_oldest", "error"} : Subscribe(s, policy)
    \/ \E s \in Sub : Unsubscribe(s) \/ Recv(s) \/ RecvError(s) \/ Leave(s)
    \/ \E p \in Publisher, size \in Size : Publish(p, size)
    \/ \E p \in Publisher, s \in Sub : Push(p, s)

BusSpec == BusInit /\ [][BusNext]_busVars

-----------------------------------------------------------------------------
(* The handles, queues and counters have their types, and a publisher      *)
(* pushes, to subscriptions that were made, the last event it made.        *)
BusTypeOK ==
    /\ subs \subseteq Sub /\ Cardinality(subs) <= MaxSubscribers
    /\ hub \in [Sub -> {"none", "open", "leaving", "closed"}]
    /\ onFull \in [Sub -> {"drop_oldest", "error"}]
    /\ queue \in [Sub -> Seq(Event)]
    /\ error \in [Sub -> BOOLEAN]
    /\ \A f \in {bytes, dropped, received, taken} : f \in [Sub -> Nat]
    /\ seen \in [Sub -> [Publisher -> Nat]]
    /\ sent \in [Publisher -> 0 .. MaxEvents]
    /\ event \in [Publisher -> [from : Publisher, n : 0 .. MaxEvents, size : Nat]]
    /\ targets \in [Publisher -> SUBSET Sub]
    /\ \A p \in Publisher : targets[p] # {} =>
           /\ event[p] \in Event /\ event[p].from = p /\ event[p].n = sent[p]
           /\ \A s \in targets[p] : hub[s] # "none"

(* The counter of queued bytes agrees with the queue after any mix of      *)
(* pushes, drops, reads and overflows, and both limits hold, except that   *)
(* one event too large by itself is kept alone.                            *)
QueueBounded ==
    \A s \in Sub : /\ Len(queue[s]) <= MaxQueue
                   /\ bytes[s] = SumOfSizes(queue[s])
                   /\ bytes[s] > MaxBytes => Len(queue[s]) = 1

(* No event is lost in silence: while the reader holds its handle, all it  *)
(* was sent is read, queued, counted as dropped, or about to be an error,  *)
(* and under the policy `error` nothing is ever dropped.                   *)
NoSilentLoss ==
    \A s \in Sub :
        /\ hub[s] = "open" =>
               error[s] \/ received[s] = taken[s] + Len(queue[s]) + dropped[s]
        /\ onFull[s] = "error" => dropped[s] = 0

(* Events of p already pushed to s.                                        *)
LastPushed(p, s) == IF s \in targets[p] THEN sent[p] - 1 ELSE sent[p]

(* What is dropped is the oldest: the events of one publisher in a queue   *)
(* are its most recent ones, without a gap, in order and after the ones    *)
(* already read, however the pushes of publishers interleave.              *)
KeepsTheNewest ==
    \A s \in Sub : hub[s] = "open" => \A i \in DOMAIN queue[s] :
        LET q == queue[s]
            p == q[i].from
        IN  /\ q[i].n \in seen[s][p] + 1 .. LastPushed(p, s)
            /\ \A j \in DOMAIN q : q[j].from = p /\ i < j => q[i].n < q[j].n
            /\ \A n \in q[i].n .. LastPushed(p, s) :
                   \E j \in DOMAIN q : q[j].from = p /\ q[j].n = n
==============================================================================
