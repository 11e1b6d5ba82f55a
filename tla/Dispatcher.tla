----------------------------- MODULE Dispatcher -----------------------------
(***************************************************************************)
(* How a worker sends its task events (celery/events/dispatcher.py and the *)
(* Events step, celery/worker/consumer/events.py) while it loses and       *)
(* recovers its connection.                                                *)
(*                                                                         *)
(* Every recovery replaces the EventDispatcher by a new one, with the      *)
(* outbound buffer of the old one.  With an event loop (Hub) one thread    *)
(* does everything: task events go to a group buffer that is flushed when  *)
(* it is full or when the loop comes round.  Without one, pool threads     *)
(* publish by themselves through the dispatcher their request knows, while *)
(* the consumer's thread recovers.                                         *)
(***************************************************************************)
EXTENDS Integers, FiniteSets, SequencesExt

CONSTANTS
    Hub,            \* does the consumer have an event loop?
    Threads,        \* the pool threads that send events; none with Hub
    BufferLimit,    \* EventDispatcher.buffer_limit
    Groups0,        \* Events.groups: {} when started with --task-events, else {"worker"}
    MaxEvents,      \* bound: task events
    MaxLosses,      \* bound: times the connection is lost
    MaxCommands     \* bound: enable_events and disable_events commands

ASSUME HubAssumption == Hub \in BOOLEAN /\ (Hub => Threads = {})

Gens == 1..(MaxLosses + 1)

VARIABLES
    dis,        \* the dispatchers: enabled, groups, gbuf (_group_buffer["task"]),
                \* obuf (_outbound_buffer, batches of events), up (its connection)
    mutex,      \* is EventDispatcher.mutex of each held?
    cur,        \* c.event_dispatcher, 0 for None
    gen,        \* the newest dispatcher
    ready,      \* is _flush_events in hub._ready?
    main,       \* the consumer's thread: where it is in Events.start or flush()
    todo,       \* flush(): the rest of its copy of the outbound buffer
    thread,     \* a pool thread: where it is, its event, its request's eventer
    sent,       \* events an enabled dispatcher has taken
    told,       \* history: the last command on task events
    commands,   \* commands executed
    published   \* what reached the broker, in order

vars == <<dis, mutex, cur, gen, ready, main, todo, thread, sent, told,
          commands, published>>

NewDispatcher(groups) ==
    [enabled |-> TRUE, groups |-> groups, gbuf |-> <<>>, obuf |-> <<>>, up |-> TRUE]

\* send(): is the group of the event one of the groups?  No groups: all of them
Wanted(d) == dis[d].enabled /\ (dis[d].groups = {} \/ "task" \in dis[d].groups)

\* _publish of a batch by dispatcher d: it reaches the broker, or raises and is
\* kept (buffer_while_offline)
Publish(d, batch, rec) ==
    IF dis[d].up
    THEN /\ published' = published \o batch
         /\ dis' = [dis EXCEPT ![d] = rec]
    ELSE /\ published' = published
         /\ dis' = [dis EXCEPT ![d] = [rec EXCEPT !.obuf = Append(@, batch)]]

Idle == main.pc = "run"

-----------------------------------------------------------------------------
(* With an event loop *)

\* Request.send_event and EventDispatcher.send: buffered; flushed when full,
\* else on_send_event_buffered asks the loop for a flush
SendBuffered ==
    /\ Hub /\ Idle /\ cur # 0 /\ sent < MaxEvents
    /\ Wanted(cur)
    /\ sent' = sent + 1
    /\ dis' = [dis EXCEPT ![cur].gbuf = Append(@, sent + 1)]
    /\ IF Len(dis[cur].gbuf) + 1 >= BufferLimit
       THEN main' = [main EXCEPT !.pc = "flush", !.next = "run"] /\ ready' = ready
       ELSE main' = main /\ ready' = TRUE
    /\ UNCHANGED <<mutex, cur, gen, todo, thread, told, commands, published>>

\* the loop calls Consumer._flush_events; it does not run while it recovers
LoopFlush ==
    /\ Hub /\ Idle /\ ready
    /\ ready' = FALSE
    /\ main' = [main EXCEPT !.pc = "flush", !.next = "run"]
    /\ UNCHANGED <<dis, mutex, cur, gen, todo, thread, sent, told, commands, published>>

-----------------------------------------------------------------------------
(* flush() of the current dispatcher *)

\* flush: the outbound buffer is copied, then cleared
FlushCopy ==
    /\ main.pc = "flush"
    /\ todo' = dis[cur].obuf
    /\ main' = [main EXCEPT !.pc = "clear"]
    /\ UNCHANGED <<dis, mutex, cur, gen, ready, thread, sent, told, commands, published>>

\* Mutant of FlushClear: what was copied stays in the buffer.
FlushClearNot ==
    /\ main.pc = "clear"
    /\ main' = [main EXCEPT !.pc = "lock"]
    /\ UNCHANGED <<dis, mutex, cur, gen, ready, todo, thread, sent, told, commands, published>>

FlushClear ==
    /\ main.pc = "clear"
    /\ dis' = [dis EXCEPT ![cur].obuf = <<>>]
    /\ main' = [main EXCEPT !.pc = "lock"]
    /\ UNCHANGED <<mutex, cur, gen, ready, todo, thread, sent, told, commands, published>>

FlushLock ==
    /\ main.pc = "lock" /\ ~mutex[cur]
    /\ mutex' = [mutex EXCEPT ![cur] = TRUE]
    /\ main' = [main EXCEPT !.pc = "errors"]
    /\ UNCHANGED <<dis, cur, gen, ready, todo, thread, sent, told, commands, published>>

\* one event or batch that could not be sent before
FlushError ==
    /\ main.pc = "errors" /\ todo # <<>>
    /\ todo' = Tail(todo)
    /\ Publish(cur, Head(todo), dis[cur])
    /\ UNCHANGED <<mutex, cur, gen, ready, main, thread, sent, told, commands>>

FlushUnlock ==
    /\ main.pc = "errors" /\ todo = <<>>
    /\ mutex' = [mutex EXCEPT ![cur] = FALSE]
    /\ main' = [main EXCEPT !.pc = "group"]
    /\ UNCHANGED <<dis, cur, gen, ready, todo, thread, sent, told, commands, published>>

\* Mutant of FlushGroup: the published copy is not deleted.
FlushGroupKeeping ==
    /\ main.pc = "group" /\ ~mutex[cur]
    /\ IF dis[cur].gbuf = <<>>
       THEN UNCHANGED <<dis, published>>
       ELSE Publish(cur, dis[cur].gbuf, dis[cur])
    /\ main' = [main EXCEPT !.pc = main.next]
    /\ UNCHANGED <<mutex, cur, gen, ready, todo, thread, sent, told, commands>>

\* the group buffer, under the mutex: a copy is published, then what was copied
\* is deleted
FlushGroup ==
    /\ main.pc = "group" /\ ~mutex[cur]
    /\ IF dis[cur].gbuf = <<>>
       THEN UNCHANGED <<dis, published>>
       ELSE Publish(cur, dis[cur].gbuf, [dis[cur] EXCEPT !.gbuf = <<>>])
    /\ main' = [main EXCEPT !.pc = main.next]
    /\ UNCHANGED <<mutex, cur, gen, ready, todo, thread, sent, told, commands>>

-----------------------------------------------------------------------------
(* Pool threads, without an event loop *)

\* send(): the dispatcher is enabled and the group wanted
ThreadSend(t) ==
    LET d == thread[t].eventer
    IN /\ thread[t].pc = "idle" /\ sent < MaxEvents
       /\ Wanted(d)
       /\ sent' = sent + 1
       /\ thread' = [thread EXCEPT ![t].pc = "lock", ![t].event = sent + 1]
       /\ UNCHANGED <<dis, mutex, cur, gen, ready, main, todo, told, commands, published>>

ThreadLock(t) ==
    LET d == thread[t].eventer
    IN /\ thread[t].pc = "lock" /\ ~mutex[d]
       /\ mutex' = [mutex EXCEPT ![d] = TRUE]
       /\ thread' = [thread EXCEPT ![t].pc = "publish", ![t].locked = d]
       /\ UNCHANGED <<dis, cur, gen, ready, main, todo, sent, told, commands, published>>

\* _publish, with the dispatcher and producer the thread came with, and the
\* release of the mutex, whoever holds it by now
ThreadPublish(t) ==
    LET d == thread[t].locked
    IN /\ thread[t].pc = "publish"
       /\ Publish(d, <<thread[t].event>>, dis[d])
       /\ mutex' = [mutex EXCEPT ![d] = FALSE]
       /\ thread' = [thread EXCEPT ![t].pc = "idle"]
       /\ UNCHANGED <<cur, gen, ready, main, todo, sent, told, commands>>

-----------------------------------------------------------------------------
(* The connection is lost; the Events step starts again *)

Lose ==
    /\ gen <= MaxLosses /\ cur # 0 /\ dis[cur].up
    /\ dis' = [dis EXCEPT ![cur].up = FALSE]
    /\ UNCHANGED <<mutex, cur, gen, ready, main, todo, thread, sent, told, commands, published>>

\* Events._close: remembers the groups, closes the connection, disables the
\* dispatcher; close() releases the mutex even if another thread holds it
Close ==
    /\ Idle /\ cur # 0 /\ ~dis[cur].up
    /\ dis' = [dis EXCEPT ![cur].enabled = FALSE]
    /\ mutex' = [mutex EXCEPT ![cur] = FALSE]
    /\ cur' = 0
    /\ main' = [main EXCEPT !.pc = "closed", !.prev = cur, !.groups = dis[cur].groups]
    /\ UNCHANGED <<gen, ready, todo, thread, sent, told, commands, published>>

\* Mutant of Make: the groups are those the worker was started with.
MakeForgetful ==
    /\ main.pc = "closed"
    /\ gen' = gen + 1
    /\ cur' = gen + 1
    /\ dis' = [dis EXCEPT ![gen + 1] = NewDispatcher(Groups0)]
    /\ main' = [main EXCEPT !.pc = "made"]
    /\ UNCHANGED <<mutex, ready, todo, thread, sent, told, commands, published>>

\* Events.start: c.event_dispatcher = Dispatcher(...)
Make ==
    /\ main.pc = "closed"
    /\ gen' = gen + 1
    /\ cur' = gen + 1
    /\ dis' = [dis EXCEPT ![gen + 1] = NewDispatcher(main.groups)]
    /\ main' = [main EXCEPT !.pc = "made"]
    /\ UNCHANGED <<mutex, ready, todo, thread, sent, told, commands, published>>

\* Mutant of Extend: the old outbound buffer goes behind what is there already,
\* newest batch first.
ExtendReversed ==
    /\ main.pc = "made"
    /\ dis' = [dis EXCEPT ![cur].obuf = @ \o Reverse(dis[main.prev].obuf)]
    /\ main' = [main EXCEPT !.pc = "flush", !.next = "swap"]
    /\ UNCHANGED <<mutex, cur, gen, ready, todo, thread, sent, told, commands, published>>

\* Mutant of Extend: nothing is taken over.
ExtendNothing ==
    /\ main.pc = "made"
    /\ main' = [main EXCEPT !.pc = "flush", !.next = "swap"]
    /\ UNCHANGED <<dis, mutex, cur, gen, ready, todo, thread, sent, told, commands, published>>

\* dis.extend_buffer(prev), then dis.flush()
Extend ==
    /\ main.pc = "made"
    /\ dis' = [dis EXCEPT ![cur].obuf = @ \o dis[main.prev].obuf]
    /\ main' = [main EXCEPT !.pc = "flush", !.next = "swap"]
    /\ UNCHANGED <<mutex, cur, gen, ready, todo, thread, sent, told, commands, published>>

\* the requests that are reserved get the new dispatcher
Swap ==
    /\ main.pc = "swap"
    /\ thread' = [t \in Threads |-> [thread[t] EXCEPT !.eventer = cur]]
    /\ main' = [main EXCEPT !.pc = "run", !.prev = 0]
    /\ UNCHANGED <<dis, mutex, cur, gen, ready, todo, sent, told, commands, published>>

-----------------------------------------------------------------------------
(* Remote control *)

\* control.enable_events
EnableEvents ==
    /\ Idle /\ cur # 0 /\ commands < MaxCommands
    /\ commands' = commands + 1
    /\ told' = "on"
    /\ dis' = IF dis[cur].groups # {} /\ "task" \notin dis[cur].groups
              THEN [dis EXCEPT ![cur].groups = @ \cup {"task"}] ELSE dis
    /\ UNCHANGED <<mutex, cur, gen, ready, main, todo, thread, sent, published>>

\* control.disable_events
DisableEvents ==
    /\ Idle /\ cur # 0 /\ commands < MaxCommands
    /\ commands' = commands + 1
    /\ told' = "off"
    /\ dis' = [dis EXCEPT ![cur].groups = @ \ {"task"}]
    /\ UNCHANGED <<mutex, cur, gen, ready, main, todo, thread, sent, published>>

Init ==
    /\ dis = [d \in Gens |-> IF d = 1 THEN NewDispatcher(Groups0)
                                      ELSE [NewDispatcher({}) EXCEPT !.enabled = FALSE]]
    /\ mutex = [d \in Gens |-> FALSE]
    /\ cur = 1 /\ gen = 1
    /\ ready = FALSE
    /\ main = [pc |-> "run", next |-> "run", prev |-> 0, groups |-> Groups0]
    /\ todo = <<>>
    /\ thread = [t \in Threads |-> [pc |-> "idle", event |-> 0, eventer |-> 1, locked |-> 0]]
    /\ sent = 0 /\ told = "nothing" /\ commands = 0
    /\ published = <<>>

Next ==
    \/ SendBuffered \/ LoopFlush
    \/ FlushCopy \/ FlushClear \/ FlushLock \/ FlushError \/ FlushUnlock \/ FlushGroup
    \/ \E t \in Threads : ThreadSend(t) \/ ThreadLock(t) \/ ThreadPublish(t)
    \/ Lose \/ Close \/ Make \/ Extend \/ Swap
    \/ EnableEvents \/ DisableEvents

Spec == Init /\ [][Next]_vars

-----------------------------------------------------------------------------
(* Properties *)

Batches(d) == UNION {ToSet(b) : b \in ToSet(dis[d].obuf)}
InTodo == UNION {ToSet(b) : b \in ToSet(todo)}
InThreads == {thread[t].event : t \in {x \in Threads : thread[x].pc # "idle"}}

\* the dispatchers whose outbound buffer will still be flushed
Current == {cur, main.prev} \ {0}

\* events that are published, or that something will still try to publish
Kept == ToSet(published) \cup InTodo \cup InThreads
            \cup UNION {Batches(d) : d \in Current}

\* Type invariant.
TypeOK ==
    /\ cur \in 0..gen /\ gen \in Gens
    /\ todo \in Seq(Seq(1..MaxEvents))
    /\ \A d \in Gens : dis[d].gbuf \in Seq(1..MaxEvents) /\ Len(dis[d].gbuf) <= BufferLimit
    /\ main.pc \in {"run", "flush", "clear", "lock", "errors", "group", "closed", "made", "swap"}
    /\ ToSet(published) \subseteq 1..sent

\* No event reaches the broker twice, though flush() keeps a copy of what it
\* sends, the next dispatcher inherits the buffer, and a failed batch is kept.
PublishedOnce == IsInjective(published)

\* With an event loop the events of a worker are published in the order they
\* were sent, across failed flushes and new dispatchers.
OrderKept == \A i, j \in DOMAIN published : i < j => published[i] < published[j]

\* With an event loop an event that a flush has failed to publish, the newest
\* dispatcher still keeps or has published: all that is missing from Kept sits
\* in the group buffer of some dispatcher.
OutboundKept ==
    \A e \in 1..sent : e \in Kept \/ \E d \in Gens : e \in ToSet(dis[d].gbuf)

\* The choice made by remote control survives a reconnect: a worker started
\* without task events sends them iff the last command enabled them.
GroupsRemembered ==
    (cur # 0 /\ Groups0 # {}) => ("task" \in dis[cur].groups <=> told = "on")

\* Events are buffered while the connection is down: what a dispatcher has
\* taken is published or still going to be.
NothingLost ==
    1..sent \subseteq Kept \cup UNION {ToSet(dis[d].gbuf) : d \in Current}

\* After disable_events no task event is sent until enable_events.
DisableStops == [][told = "off" => sent' = sent]_vars
=============================================================================
