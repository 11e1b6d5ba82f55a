----------------------------- MODULE EventState -----------------------------
(***************************************************************************)
(* The monitor's picture of a cluster (celery/events/state.py), fed by     *)
(* celery/events/receiver.py.                                              *)
(*                                                                         *)
(* Every worker, and the client that sends tasks, publishes a sequence of  *)
(* events.  The broker keeps the order of one sender and interleaves the   *)
(* senders as it likes, so the monitor may hear of the end of a task       *)
(* before its beginning.  State keeps the tasks in an LRU cache, a "heap"  *)
(* (a list kept sorted by insort) of the task events seen, two indexes, the *)
(* children of tasks whose parent is unknown yet, and the heartbeats of    *)
(* each worker.  Tasks are referenced weakly everywhere but in the cache:  *)
(* a task that leaves the cache disappears from all the others.            *)
(***************************************************************************)
EXTENDS Integers, FiniteSets, SequencesExt

CONSTANTS
    Tasks,          \* task ids
    Workers,        \* worker host names: integers, as ids are compared
    Client,         \* the host name of the client, another integer
    None,           \* Python's None
    Scripts,        \* the event sequences the senders may publish
    MaxTasks,       \* max_tasks_in_memory
    HeapMultiplier, \* State.heap_multiplier
    HeartbeatMax,   \* Worker.heartbeat_max
    Window,         \* freq * expire_window / 100: 2 minutes by default
    FirstClocks,    \* the monitor's logical clock when it starts: 0 in a new process
    FirstNow,       \* its wall clock
    MaxNow,         \* bound: the wall clock stops here
    OnNodeLeave,    \* is State.on_node_leave set (the Gossip step sets it)?
    MaxClears,      \* bound: calls of clear_tasks and clear
    MaxReloads      \* bound: times the state is pickled and loaded again

VARIABLES
    net,        \* the events each sender's queue still holds
    clock,      \* app.clock of the monitor
    now,        \* its wall clock
    tasks,      \* State.tasks: the cached tasks
    lru,        \* ... their ids, the one to be evicted next first
    heap,       \* State._taskheap
    pending,    \* State._tasks_to_resolve, in its LRU order
    byType,     \* State.tasks_by_type
    byWorker,   \* State.tasks_by_worker
    hearts,     \* State.workers: the heartbeats of each known worker
    budget,     \* clears and reloads left
    seen,       \* history: the events applied to each task, in order
    heard,      \* history: when each worker was last heard, 0: not since offline
    beaten      \* history: when its last online/heartbeat event arrived, or 0

dataVars == <<tasks, lru, heap, pending, byType, byWorker>>
vars == <<net, clock, now, dataVars, hearts, budget, seen, heard, beaten>>

Senders == Workers \cup {Client}

\* TASK_EVENT_TO_STATE, and type_.upper() for a custom event
StateOf(subject) ==
    CASE subject = "sent" -> "PENDING"     [] subject = "received" -> "RECEIVED"
      [] subject = "started" -> "STARTED"  [] subject = "failed" -> "FAILURE"
      [] subject = "retried" -> "RETRY"    [] subject = "succeeded" -> "SUCCESS"
      [] subject = "revoked" -> "REVOKED"  [] subject = "rejected" -> "REJECTED"
      [] OTHER -> "CUSTOM"

\* states.precedence: the lower the index the higher the precedence
Precedence(state) ==
    CHOOSE i \in 1..9 :
        <<"SUCCESS", "FAILURE", "CUSTOM", "REVOKED", "STARTED", "RECEIVED",
          "REJECTED", "RETRY", "PENDING">>[i] = state

READY_STATES == {"SUCCESS", "FAILURE", "REVOKED"}

-----------------------------------------------------------------------------
(* kombu.clocks *)

\* timetuple.__lt__: the logical clocks, then the ids; the wall clock when
\* one of the logical clocks is 0, as that of the first task-sent a new monitor
\* hears is: with such an entry this is no longer an order
Less(a, b) ==
    IF a.clock # 0 /\ b.clock # 0
    THEN IF a.clock = b.clock THEN a.origin < b.origin ELSE a.clock < b.clock
    ELSE a.ts < b.ts

\* bisect.insort: where binary search puts x, right of its equals; before[i]
\* says whether x is less than h[i]
Insort(h, x, before) ==
    LET bisect[r \in (0..Len(h)) \X (0..Len(h))] ==
            LET mid == (r[1] + r[2]) \div 2
            IN IF r[1] >= r[2] THEN r[1]
               ELSE IF before[mid + 1] THEN bisect[<<r[1], mid>>]
               ELSE bisect[<<mid + 1, r[2]>>]
    IN InsertAt(h, bisect[<<0, Len(h)>>] + 1, x)

-----------------------------------------------------------------------------
(* Worker *)

\* Mutant of Beat: beats are taken to arrive in order.
BeatAppends(beats, time) ==
    Append(IF Len(beats) > HeartbeatMax - 1 THEN Tail(beats) ELSE beats, time)

\* Mutant of Beat: a full list takes no new beat.
BeatDropsNewest(beats, time) ==
    IF Len(beats) > HeartbeatMax - 1 THEN beats
    ELSE Insort(beats, time, [i \in DOMAIN beats |-> time < beats[i]])

\* Worker.event for anything but "offline"
Beat(beats, time) ==
    LET kept == IF Len(beats) > HeartbeatMax - 1 THEN Tail(beats) ELSE beats
    IN IF beats # <<>> /\ kept # <<>> /\ time > Last(kept)
       THEN Append(kept, time)
       ELSE Insort(kept, time, [i \in DOMAIN kept |-> time < kept[i]])

\* the heartbeats of w, none when it is not in State.workers
Beats(w) == IF w \in DOMAIN hearts THEN hearts[w] ELSE <<>>

\* Worker.alive
Alive(w) == Beats(w) # <<>> /\ now < Last(Beats(w)) + Window

-----------------------------------------------------------------------------
(* Task *)

NewTask == [state |-> "PENDING", name |-> None, eta |-> None, parent |-> None,
            clock |-> 0, ts |-> None, worker |-> None, client |-> None,
            children |-> {}]

\* the fields an event carries and Task.merge_rules keeps of RECEIVED
MergeKept(t, e) == [t EXCEPT !.name = e.name, !.eta = e.eta, !.parent = e.parent]

\* __dict__.update(fields): an event without name, eta or parent has no such key
UpdateFields(t, e, c) ==
    LET u == [t EXCEPT !.clock = c, !.ts = e.ts]
    IN IF e.name = None THEN u ELSE MergeKept(u, e)

\* Mutant of TaskEvent: the last event to arrive decides.
TaskEventNoMerge(t, e, c) == [UpdateFields(t, e, c) EXCEPT !.state = StateOf(e.subject)]

\* Task.event
TaskEvent(t, e, c) ==
    LET state == StateOf(e.subject)
        late == /\ state # "RETRY" /\ t.state # "RETRY"
                /\ Precedence(state) > Precedence(t.state)
    IN CASE late /\ state = "RECEIVED" -> MergeKept(t, e)
         [] late /\ state # "RECEIVED" -> UpdateFields(t, e, c)
         [] OTHER -> [UpdateFields(t, e, c) EXCEPT !.state = state]

-----------------------------------------------------------------------------
(* State *)

\* Mutant of DropTasks: the children are held by a set instead of a WeakSet.
DropTasksStrong(ts, ids) == [u \in DOMAIN ts \ ids |-> ts[u]]

\* the tasks of ids that leave the cache are collected: what is left of a
\* mapping, of the heap and of the unresolved children
DropTasks(ts, ids) ==
    [u \in DOMAIN ts \ ids |-> [ts[u] EXCEPT !.children = @ \ ids]]
DropHeap(h, ids) ==
    [i \in DOMAIN h |-> IF h[i].task \in ids THEN [h[i] EXCEPT !.task = None] ELSE h[i]]
DropPending(p, ids) == [i \in DOMAIN p |-> [p[i] EXCEPT !.kids = @ \ ids]]
DropIndex(m, ids) == [k \in DOMAIN m |-> m[k] \ ids]

\* Mutant of AddPending: a second child of an unknown parent replaces the first.
AddPendingFresh(p, parent, kid) ==
    Append(SelectSeq(p, LAMBDA q : q.parent # parent), [parent |-> parent, kids |-> {kid}])

\* _add_pending_task_child: the entry of the parent moves to the end of the
\* LRU cache, or is made there, at the expense of the oldest one
AddPending(p, parent, kid) ==
    LET old == {i \in DOMAIN p : p[i].parent = parent}
        kids == UNION {p[i].kids : i \in old}
        rest == SelectSeq(p, LAMBDA q : q.parent # parent)
        room == IF old = {} /\ Len(rest) >= MaxTasks THEN Tail(rest) ELSE rest
    IN Append(room, [parent |-> parent, kids |-> kids \cup {kid}])

\* Mutant of PushHeap: events are taken to arrive in order.
PushHeapAppends(h, x) ==
    Append(IF Len(h) + 1 > MaxTasks * HeapMultiplier THEN Tail(h) ELSE h, x)

\* the heap of _event: bounded, sorted
PushHeap(h, x) ==
    LET kept == IF Len(h) + 1 > MaxTasks * HeapMultiplier THEN Tail(h) ELSE h
    IN IF h # <<>> /\ Less(Last(kept), x) THEN Append(kept, x)
       ELSE Insort(kept, x, [i \in DOMAIN kept |-> Less(x, kept[i])])

\* EventReceiver.event_from_message: the clock given to the event, and the
\* monitor's own clock afterwards (LamportClock.adjust)
EventClock(e) ==
    IF e.subject = "sent" THEN (IF clock = 0 THEN 1 ELSE clock) - 1 ELSE e.clock
AdjustClock(c) == clock' = (IF clock > c THEN clock ELSE c) + 1

\* State._event, for a task event of sender h
OnTaskEvent(h, e) ==
    LET u == e.task
        c == EventClock(e)
        created == u \notin DOMAIN tasks
        dead == IF created /\ Len(lru) >= MaxTasks THEN {Head(lru)} ELSE {}
        kept == DropTasks(tasks, dead)
        known == IF created
                 THEN [x \in DOMAIN kept \cup {u} |-> IF x = u THEN NewTask ELSE kept[x]]
                 ELSE tasks
        order == IF created
                 THEN Append(IF dead = {} THEN lru ELSE Tail(lru), u)
                 ELSE lru
        sender == IF e.subject = "sent" THEN [known[u] EXCEPT !.client = h]
                                        ELSE [known[u] EXCEPT !.worker = h]
        task == TaskEvent(sender, e, c)
        parentKnown == task.parent # None /\ task.parent \in DOMAIN known
        waiting == UNION {q.kids : q \in {r \in ToSet(pending) : r.parent = u}}
        pend == DropPending(pending, dead)
        pend1 == IF task.parent # None /\ ~parentKnown
                 THEN AddPending(pend, task.parent, u) ELSE pend
        done == [known EXCEPT ![u] = [task EXCEPT !.children = @ \cup (waiting \ dead)]]
    IN /\ AdjustClock(c)
       /\ tasks' = IF parentKnown
                   THEN [done EXCEPT ![task.parent].children = @ \cup {u}] ELSE done
       /\ lru' = IF parentKnown
                 THEN Append(SelectSeq(order, LAMBDA x : x # task.parent), task.parent)
                 ELSE order
       /\ heap' = PushHeap(DropHeap(heap, dead),
                           [clock |-> c, ts |-> e.ts, origin |-> h, task |-> u])
       /\ pending' = SelectSeq(pend1, LAMBDA q : q.parent # u)
       /\ byType' = LET m == DropIndex(byType, dead)
                    IN IF created /\ task.name # None
                       THEN [m EXCEPT ![task.name] = @ \cup {u}] ELSE m
       /\ byWorker' = LET m == DropIndex(byWorker, dead)
                      IN IF created /\ task.name # None
                         THEN [m EXCEPT ![h] = @ \cup {u}] ELSE m
       /\ IF e.subject = "sent"
          THEN UNCHANGED hearts
          ELSE \* worker.event(None, local_received, timestamp): the two times
               \* change places, the beat is the time on the sender's clock
               hearts' = [w \in DOMAIN hearts \cup {h} |->
                             IF w = h THEN Beat(Beats(h), e.ts) ELSE hearts[w]]

\* Mutant of OnWorkerEvent: worker-offline counts as one more beat.
OnWorkerEventOfflineBeats(h, e) ==
    /\ AdjustClock(EventClock(e))
    /\ hearts' = [w \in DOMAIN hearts \cup {h} |->
                    IF w = h THEN Beat(Beats(h), now) ELSE hearts[w]]
    /\ UNCHANGED dataVars

\* State._event, for worker-online, worker-heartbeat and worker-offline
OnWorkerEvent(h, e) ==
    /\ AdjustClock(EventClock(e))
    /\ hearts' =
         IF e.subject = "offline"
         THEN IF OnNodeLeave
              THEN [w \in DOMAIN hearts \ {h} |-> hearts[w]]
              ELSE [w \in DOMAIN hearts |-> IF w = h THEN <<>> ELSE hearts[w]]
         ELSE [w \in DOMAIN hearts \cup {h} |->
                 IF w = h THEN Beat(Beats(h), now) ELSE hearts[w]]
    /\ UNCHANGED dataVars

\* the history variables
Remember(h, e) ==
    /\ seen' = IF e.task # None /\ e.task \in DOMAIN tasks
               THEN [seen EXCEPT ![e.task] = Append(@, e)]
               ELSE IF e.task # None THEN [seen EXCEPT ![e.task] = <<e>>]
               ELSE seen
    /\ heard' = IF h = Client THEN heard
                ELSE [heard EXCEPT ![h] = IF e.subject = "offline" THEN 0 ELSE now]
    /\ beaten' = IF h = Client \/ e.task # None THEN beaten
                 ELSE [beaten EXCEPT ![h] = IF e.subject = "offline" THEN 0 ELSE now]

\* the monitor receives the next event of sender h
Receive(h) ==
    /\ net[h] # <<>>
    /\ net' = [net EXCEPT ![h] = Tail(@)]
    /\ LET e == Head(net[h])
       IN /\ IF e.task = None THEN OnWorkerEvent(h, e) ELSE OnTaskEvent(h, e)
          /\ Remember(h, e)
    /\ UNCHANGED <<now, budget>>

Tick ==
    /\ now < MaxNow
    /\ now' = now + 1
    /\ UNCHANGED <<net, clock, dataVars, hearts, budget, seen, heard, beaten>>

\* State.clear_tasks: the tasks in progress may stay, the heap does not
ClearTasks(ready) ==
    LET gone == {u \in DOMAIN tasks : ready => tasks[u].state \in READY_STATES}
    IN /\ tasks' = DropTasks(tasks, gone)
       /\ lru' = SelectSeq(lru, LAMBDA u : u \notin gone)
       /\ heap' = <<>>
       /\ pending' = DropPending(pending, gone)
       /\ byType' = DropIndex(byType, gone)
       /\ byWorker' = DropIndex(byWorker, gone)

ClearTasksCall(ready) ==
    /\ budget.clears > 0
    /\ budget' = [budget EXCEPT !.clears = @ - 1]
    /\ ClearTasks(ready)
    /\ UNCHANGED <<net, clock, now, hearts, seen, heard, beaten>>

\* State.clear, also freeze_while(clear_after=True) of a snapshot camera
Clear(ready) ==
    /\ budget.clears > 0
    /\ budget' = [budget EXCEPT !.clears = @ - 1]
    /\ ClearTasks(ready)
    /\ hearts' = [w \in {} |-> <<>>]
    /\ heard' = [w \in Workers |-> 0]
    /\ beaten' = [w \in Workers |-> 0]
    /\ UNCHANGED <<net, clock, now, seen>>

\* Task.origin
Origin(t) == IF t.worker = None THEN t.client ELSE t.worker

\* State.rebuild_taskheap: one entry per task, in the order of the cache; the
\* list that is then sorted is the right-hand side, no longer the heap
RebuildTaskheap(ts, order) ==
    [i \in DOMAIN order |->
        LET t == ts[order[i]]
        IN [clock |-> t.clock, ts |-> t.ts, origin |-> Origin(t), task |-> order[i]]]

\* the state is pickled and loaded (State.__reduce__, Task.__reduce__ and
\* Task.__init__ without a cluster_state): no task keeps its children
Reload ==
    /\ budget.reloads > 0
    /\ budget' = [budget EXCEPT !.reloads = @ - 1]
    /\ tasks' = [u \in DOMAIN tasks |-> [tasks[u] EXCEPT !.children = {}]]
    /\ heap' = RebuildTaskheap(tasks, lru)
    /\ pending' = <<>>
    /\ UNCHANGED <<net, clock, now, lru, byType, byWorker, hearts, seen, heard, beaten>>

Init ==
    /\ net \in Scripts
    /\ clock \in FirstClocks
    /\ now = FirstNow
    /\ tasks = [u \in {} |-> NewTask]
    /\ lru = <<>>
    /\ heap = <<>>
    /\ pending = <<>>
    /\ byType = [n \in {e.name : e \in UNION {ToSet(net[h]) : h \in Senders}} \ {None} |-> {}]
    /\ byWorker = [h \in Senders |-> {}]
    /\ hearts = [w \in {} |-> <<>>]
    /\ budget = [clears |-> MaxClears, reloads |-> MaxReloads]
    /\ seen = [u \in Tasks |-> <<>>]
    /\ heard = [w \in Workers |-> 0]
    /\ beaten = [w \in Workers |-> 0]

Next ==
    \/ \E h \in Senders : Receive(h)
    \/ Tick
    \/ \E ready \in BOOLEAN : ClearTasksCall(ready) \/ Clear(ready)
    \/ Reload

Spec == Init /\ [][Next]_vars

-----------------------------------------------------------------------------
(* What the monitor's readers see *)

\* tasks_by_time(reverse=False): the live tasks in the order of the heap, each
\* at its first event
TasksByTime ==
    LET live == SelectSeq(heap, LAMBDA x : x.task # None)
        First(i) == \A j \in 1..(i - 1) : live[j].task # live[i].task
        idx == SelectSeq([i \in DOMAIN live |-> i], First)
    IN [k \in DOMAIN idx |-> live[idx[k]].task]

Consumed == \A h \in Senders : net[h] = <<>>

\* was an event with this subject applied to the task now cached as u?
Saw(u, subject) == \E i \in DOMAIN seen[u] : seen[u][i].subject = subject

-----------------------------------------------------------------------------
(* Properties *)

\* Type invariant.
TypeOK ==
    /\ clock \in Nat /\ now \in FirstNow..MaxNow
    /\ DOMAIN tasks = ToSet(lru) /\ IsInjective(lru)
    /\ DOMAIN hearts \subseteq Workers
    /\ \A u \in DOMAIN tasks :
          /\ tasks[u].children \subseteq DOMAIN tasks
          /\ tasks[u].worker \in Workers \cup {None}
          /\ tasks[u].parent \in Tasks \cup {None}
    /\ \A i \in DOMAIN heap : heap[i].task \in DOMAIN tasks \cup {None}
    /\ Len(lru) <= MaxTasks /\ Len(pending) <= MaxTasks

\* tasks_by_time yields the tasks in the order of the clocks of their first
\* listed events.
OrderedByTime ==
    \A i, j \in DOMAIN heap : i < j => ~Less(heap[j], heap[i])

\* The task heap stays within its limit whatever order events arrive in, and
\* neighbours are in order, even those of the entry with clock 0 a new monitor
\* makes of the first task-sent; without such an entry the whole heap is
\* sorted.  tasks_by_time relies on it and so does the next insort.
HeapSorted ==
    /\ Len(heap) <= MaxTasks * HeapMultiplier
    /\ \A i \in DOMAIN heap \ {1} : ~Less(heap[i], heap[i - 1])
    /\ (\A i \in DOMAIN heap : heap[i].clock # 0) => OrderedByTime

\* Events merge to the same picture in every order: as long as no attempt was
\* retried, a cached task shows the state of the highest precedence it has seen
\* an event of, so that a late task-received or task-started cannot hide a result.
BestStateShown ==
    \A u \in DOMAIN tasks :
        (~Saw(u, "retried")) =>
            /\ \E i \in DOMAIN seen[u] : StateOf(seen[u][i].subject) = tasks[u].state
            /\ \A i \in DOMAIN seen[u] :
                  Precedence(StateOf(seen[u][i].subject)) >= Precedence(tasks[u].state)

\* While nothing is evicted, a task whose parent the monitor knows is one of the
\* parent's children, whichever of the two was heard of first, and a child that
\* is still unresolved waits for a parent that is not known.
ChildrenLinked ==
    /\ \A u \in DOMAIN tasks :
          tasks[u].parent \in DOMAIN tasks => u \in tasks[tasks[u].parent].children
    /\ \A i \in DOMAIN pending : pending[i].parent \notin DOMAIN tasks

\* Worker.heartbeats stays sorted and short, though beats carry two different
\* clocks: Worker.alive looks at the last one only.
HeartbeatsSorted ==
    \A w \in DOMAIN hearts :
        /\ Len(hearts[w]) <= HeartbeatMax
        /\ \A i, j \in DOMAIN hearts[w] : i < j => hearts[w][i] <= hearts[w][j]

\* A worker whose heartbeat arrived less than the window ago is shown as alive,
\* however many stale task events were merged since.
HeartbeatKeepsAlive ==
    \A w \in Workers : (beaten[w] > 0 /\ now < beaten[w] + Window) => Alive(w)

\* A worker is shown as alive only if it was heard of within the window.
SilentIsOffline ==
    \A w \in Workers : Alive(w) => heard[w] > 0 /\ now < heard[w] + Window

\* Once every event was consumed, a task whose execution succeeded is shown as
\* successful: the state represents the cluster at the time of the last event.
OutcomeShown ==
    Consumed => \A u \in DOMAIN tasks : Saw(u, "succeeded") => tasks[u].state = "SUCCESS"

\* tasks_by_type[name] holds every cached task with that name: what the slower
\* scan of _tasks_by_type returns.
IndexedByType ==
    \A i \in DOMAIN TasksByTime :
        LET u == TasksByTime[i]
        IN tasks[u].name # None => u \in byType[tasks[u].name]

\* The fields of Task.merge_rules are those of the last task-received event.
KeptFromReceived ==
    \A u \in DOMAIN tasks :
        LET rcvd == {i \in DOMAIN seen[u] : seen[u][i].subject = "received"}
        IN rcvd # {} => tasks[u].eta = seen[u][CHOOSE i \in rcvd : \A j \in rcvd : j <= i].eta

=============================================================================
