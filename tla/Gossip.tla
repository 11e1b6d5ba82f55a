------------------------------- MODULE Gossip -------------------------------
(***************************************************************************)
(* The workers of a cluster follow each other's worker events              *)
(* (celery/worker/consumer/gossip.py): heartbeats (celery/worker/          *)
(* heartbeat.py) tell who is there, and an election, asked for by remote   *)
(* control, is meant to make one of them act.                              *)
(*                                                                         *)
(* The broker copies an event to the queue of every worker that consumes,  *)
(* the sender's included, in one step; a worker handles its queue in order.*)
(* The model has one election.                                             *)
(***************************************************************************)
EXTENDS Integers, FiniteSets, SequencesExt

CONSTANTS
    Workers,        \* integers: equal clocks are ordered by host name
    Clocks,         \* the logical clocks a worker may have when the election starts
    AllUp,          \* do all workers run, and know each other, at the start?
    MaxChanges,     \* bound: workers that come, leave, die or are wrongly taken for dead
    Elections       \* bound: 1 when the election is called, 0 when not

VARIABLES
    up,             \* the workers whose consumer runs
    queue,          \* the event queue of each
    known,          \* gossip.state.alive_workers(), which never has the worker itself
    clock,          \* app.clock when it sends its worker-elect
    asked,          \* has the election command, not handled yet
    requests,       \* consensus_requests[id]: (clock, host) pairs
    replies,        \* len(consensus_replies[id]), 0 when it has no entry ...
    running,        \* ... which is told by this: has it an entry?
    acted,          \* how often it ran the action
    decided,        \* has it seen the end of its election?
    changes, elections

party == <<up, known, changes>>
vote == <<clock, asked, requests, replies, running, acted, decided, elections>>
vars == <<party, queue, vote>>

\* EventDispatcher.send to a fanout exchange
Publish(msg, who) == [w \in Workers |-> IF w \in who THEN Append(queue[w], msg) ELSE queue[w]]

Msg(type, from) == [type |-> type, from |-> from, clock |-> 0]

-----------------------------------------------------------------------------
(* Heart *)

\* the consumer starts, in a new process (which has an empty state) or again in the
\* one it was in: its queue is bound, Heart.start sends worker-online
Start(w) ==
    /\ w \notin up /\ changes < MaxChanges
    /\ changes' = changes + 1
    /\ up' = up \cup {w}
    /\ \/ UNCHANGED <<known, requests, replies, running>>
       \/ /\ known' = [known EXCEPT ![w] = {}]
          /\ requests' = [requests EXCEPT ![w] = {}]
          /\ replies' = [replies EXCEPT ![w] = 0]
          /\ running' = running \ {w}
    /\ queue' = [Publish(Msg("online", w), up) EXCEPT ![w] = <<Msg("online", w)>>]
    /\ UNCHANGED <<clock, asked, acted, decided, elections>>

\* Mutant of Stop: the queue stays bound.
StopKeepingQueue(w) ==
    /\ w \in up /\ changes < MaxChanges
    /\ changes' = changes + 1
    /\ up' = up \ {w}
    /\ queue' = Publish(Msg("offline", w), up)
    /\ asked' = asked \ {w}
    /\ UNCHANGED <<known, clock, requests, replies, running, acted, decided, elections>>

\* the consumer stops: Heart.stop sends worker-offline
Stop(w) ==
    /\ w \in up /\ changes < MaxChanges
    /\ changes' = changes + 1
    /\ up' = up \ {w}
    /\ queue' = [Publish(Msg("offline", w), up \ {w}) EXCEPT ![w] = <<>>]
    /\ asked' = asked \ {w}
    /\ UNCHANGED <<known, clock, requests, replies, running, acted, decided, elections>>

\* the worker is killed, or cut off from the broker
Die(w) ==
    /\ w \in up /\ changes < MaxChanges
    /\ changes' = changes + 1
    /\ up' = up \ {w}
    /\ queue' = [queue EXCEPT ![w] = <<>>]
    /\ asked' = asked \ {w}
    /\ UNCHANGED <<known, clock, requests, replies, running, acted, decided, elections>>

\* Mutant of Heartbeat: stop() does not cancel the timer.
HeartbeatUncancelled(w) ==
    /\ \E v \in up \ {w} : w \notin known[v] /\ Len(queue[v]) < 2
    /\ queue' = Publish(Msg("heartbeat", w), up)
    /\ UNCHANGED <<party, vote>>

\* the timer of Heart; a beat that would tell nobody anything new, or that follows an
\* event of the worker that is not read yet, is left out
Heartbeat(w) ==
    /\ w \in up
    /\ \E v \in up \ {w} :
          w \notin known[v] /\ ~ \E i \in DOMAIN queue[v] :
              queue[v][i].from = w /\ queue[v][i].type \in {"online", "heartbeat", "offline"}
    /\ queue' = Publish(Msg("heartbeat", w), up)
    /\ UNCHANGED <<party, vote>>

-----------------------------------------------------------------------------
(* Gossip *)

\* Mutant of NodeLost: the periodic timer is not registered.
NodeLostNever(w, v) ==
    /\ w \in up /\ v \in known[w] /\ FALSE
    /\ UNCHANGED vars

\* Gossip.periodic: a worker whose last heartbeat is too old is taken out, because it
\* does not run any more, or because its heartbeats are late
NodeLost(w, v) ==
    /\ w \in up /\ v \in known[w]
    /\ \/ v \notin up /\ UNCHANGED changes
       \/ v \in up /\ changes < MaxChanges /\ changes' = changes + 1
    /\ known' = [known EXCEPT ![w] = @ \ {v}]
    /\ UNCHANGED <<up, queue, vote>>

\* on_message: the event of another worker updates gossip.state, which
\* forgets a worker that goes offline (on_node_leave is set)
OnWorkerEvent(w, msg) ==
    /\ known' = CASE msg.from = w -> known
                  [] msg.from # w /\ msg.type = "offline" -> [known EXCEPT ![w] = @ \ {msg.from}]
                  [] OTHER -> [known EXCEPT ![w] = @ \cup {msg.from}]
    /\ queue' = [queue EXCEPT ![w] = Tail(@)]
    /\ UNCHANGED <<up, changes, vote>>

\* control.election is broadcast
CallElection ==
    /\ elections < Elections
    /\ elections' = elections + 1
    /\ asked' = up
    /\ UNCHANGED <<party, queue, clock, requests, replies, running, acted, decided>>

\* Gossip.election
Election(w) ==
    /\ w \in asked
    /\ asked' = asked \ {w}
    /\ running' = running \cup {w}
    /\ replies' = [replies EXCEPT ![w] = 0]
    /\ queue' = Publish([Msg("elect", w) EXCEPT !.clock = clock[w]], up)
    /\ UNCHANGED <<party, clock, requests, acted, decided, elections>>

\* an acknowledgement; whose it is does not matter, they are counted
Ack == Msg("ack", 0)

\* the workers that have, or will have, an entry for the election: on_elect_ack of the
\* others returns at once ("not for us"), so what is sent to them is left out
Heeding == running \cup asked

\* on_elect: remembers the candidate and acknowledges to everybody
OnElect(w, msg) ==
    /\ requests' = [requests EXCEPT ![w] = @ \cup {<<msg.clock, msg.from>>}]
    /\ queue' = [v \in Workers |->
                    (IF v = w THEN Tail(queue[w]) ELSE queue[v])
                       \o (IF v \in Heeding THEN <<Ack>> ELSE <<>>)]
    /\ UNCHANGED <<party, clock, asked, replies, running, acted, decided, elections>>

\* clock.sort_heap: the request with the lowest clock, then the lowest host
Leader(rs) ==
    LET best == CHOOSE r \in rs : \A q \in rs : r[1] < q[1] \/ (r[1] = q[1] /\ r[2] <= q[2])
    IN best[2]

\* Mutant of OnElectAck: the entry of the election is not removed.
OnElectAckAgain(w, msg) ==
    LET all == replies[w] + 1
        done == w \in running /\ all >= Cardinality(known[w])
    IN /\ replies' = IF w \in running THEN [replies EXCEPT ![w] = all] ELSE replies
       /\ decided' = IF done THEN decided \cup {w} ELSE decided
       /\ acted' = IF done /\ Leader(requests[w]) = w
                   THEN [acted EXCEPT ![w] = @ + 1] ELSE acted
       /\ queue' = [queue EXCEPT ![w] = Tail(@)]
       /\ UNCHANGED <<party, clock, asked, elections, running, requests>>

\* Mutant of OnElectAck: waits for more acknowledgements than are sent.
OnElectAckLate(w, msg) ==
    LET all == replies[w] + 1
        n == Cardinality(known[w])
        done == w \in running /\ all > (n + 1) * (n + 1)
    IN /\ replies' = IF w \in running THEN [replies EXCEPT ![w] = all] ELSE replies
       /\ decided' = IF done THEN decided \cup {w} ELSE decided
       /\ running' = IF done THEN running \ {w} ELSE running
       /\ acted' = IF done /\ Leader(requests[w]) = w
                   THEN [acted EXCEPT ![w] = @ + 1] ELSE acted
       /\ queue' = [queue EXCEPT ![w] = Tail(@)]
       /\ UNCHANGED <<party, clock, asked, elections, requests>>

\* on_elect_ack: counts the acknowledgements of this election, of whichever
\* candidate; with as many as there are other workers it decides
OnElectAck(w, msg) ==
    LET all == replies[w] + 1
        done == w \in running /\ all >= Cardinality(known[w])
    IN /\ replies' = CASE done -> [replies EXCEPT ![w] = 0]
                       [] w \in running /\ ~done -> [replies EXCEPT ![w] = all]
                       [] OTHER -> replies
       /\ running' = IF done THEN running \ {w} ELSE running
       /\ requests' = IF done THEN [requests EXCEPT ![w] = {}] ELSE requests
       /\ decided' = IF done THEN decided \cup {w} ELSE decided
       /\ acted' = IF done /\ Leader(requests[w]) = w
                   THEN [acted EXCEPT ![w] = @ + 1] ELSE acted
       /\ queue' = [queue EXCEPT ![w] = SelectSeq(Tail(@), LAMBDA m : m = Ack => ~done)]
       /\ UNCHANGED <<party, clock, asked, elections>>

\* Gossip.on_message
OnMessage(w) ==
    /\ w \in up /\ queue[w] # <<>>
    /\ LET msg == Head(queue[w])
       IN CASE msg.type = "elect" -> OnElect(w, msg)
            [] msg.type = "ack" -> OnElectAck(w, msg)
            [] OTHER -> OnWorkerEvent(w, msg)

Init ==
    /\ up = IF AllUp THEN Workers ELSE {}
    /\ queue = [w \in Workers |-> <<>>]
    /\ known = [w \in Workers |-> IF AllUp THEN Workers \ {w} ELSE {}]
    /\ clock \in [Workers -> Clocks]
    /\ asked = {} /\ running = {} /\ decided = {}
    /\ requests = [w \in Workers |-> {}]
    /\ replies = [w \in Workers |-> 0]
    /\ acted = [w \in Workers |-> 0]
    /\ changes = 0 /\ elections = 0

Next ==
    \/ \E w \in Workers : Start(w) \/ Stop(w) \/ Die(w) \/ Heartbeat(w) \/ Election(w) \/ OnMessage(w)
    \/ \E w, v \in Workers : NodeLost(w, v)
    \/ CallElection

\* Consumers handle their queues and the commands, their timers fire; no heartbeat need
\* be late.
Fairness ==
    /\ \A w \in Workers : WF_vars(OnMessage(w)) /\ WF_vars(Heartbeat(w)) /\ WF_vars(Election(w))
    /\ \A w, v \in Workers : WF_vars(v \notin up /\ NodeLost(w, v))

Spec == Init /\ [][Next]_vars
FairSpec == Spec /\ Fairness

-----------------------------------------------------------------------------
(* Properties *)

\* Type invariant.
TypeOK ==
    /\ up \subseteq Workers /\ asked \subseteq up
    /\ known \in [Workers -> SUBSET Workers] /\ \A w \in Workers : w \notin known[w]
    /\ acted \in [Workers -> Nat]
    /\ \A w \in Workers \ up : queue[w] = <<>>
    /\ \A w \in Workers : requests[w] \subseteq Clocks \X Workers

\* on_node_join, on_node_leave and on_node_lost bring every worker's view of the
\* party in line with the workers that run, whatever came, left, died or was taken for
\* dead before, and whatever a consumer that starts again still knew.
PartyConverges == <>[](\A w \in up : known[w] = up \ {w})

\* A worker that has been told good-bye by another one does not take it for
\* alive afterwards unless the other has come back: no event of a worker that
\* stopped outlives its worker-offline in a queue.
OfflineIsLast ==
    \A w \in up : \A i, j \in DOMAIN queue[w] :
        (i < j /\ queue[w][i].type = "offline" /\ queue[w][i].from = queue[w][j].from)
            => \E k \in (i + 1)..j : queue[w][k].type = "online" /\ queue[w][k].from = queue[w][j].from

\* Every worker that takes part in an election of a party that stays together
\* comes to a decision: none still waits when everything that was sent is handled.
\* (What is sent is bounded, so that everything is handled in the end.)
ElectionEnds ==
    asked = {} /\ (\A w \in Workers : queue[w] = <<>>) => running = {}

\* A worker runs the action of an election at most once, however many
\* acknowledgements arrive after its decision.
ActsOnce == \A w \in Workers : acted[w] <= 1

\* One worker is elected and takes the action: not two ...
OneLeader == \A v, w \in Workers : acted[v] > 0 /\ acted[w] > 0 => v = w

\* ... and not none, once all have decided.  It holds with two workers.
SomebodyActs == decided = Workers => \E w \in Workers : acted[w] > 0
=============================================================================
