--------------------------- MODULE ResultConsumer ---------------------------
(***************************************************************************)
(* Waiting for results on the Redis backend: AsyncResult.get() of several  *)
(* threads (result.py, backends/asynchronous.py) over the one pub/sub      *)
(* connection of the ResultConsumer (backends/redis.py).                   *)
(*                                                                         *)
(* Thread t waits for the result of Task[t].  The pub/sub operations run   *)
(* under a lock, and a cancel_for() that finds it busy leaves its key to   *)
(* the holder.  One thread polls the socket, the others wait on a          *)
(* condition.  What an operation does to the connection is one step;       *)
(* between it and the release of the lock other threads may run.           *)
(***************************************************************************)
EXTENDS Integers, FiniteSets

CONSTANTS
    Threads,
    Tasks,
    Task,            \* the task each thread waits for
    MaxGets,         \* bound on the get() calls of a thread: all but the
                     \* last may time out, and their AsyncResult be deleted
    Timeouts,        \* polls of the socket and waits for the condition time out
    MaxLosses,       \* bound on the losses of the connection
    None

ResultConsumerConstants ==
    /\ Task \in [Threads -> Tasks]
    /\ MaxGets \in Nat \ {0} /\ MaxLosses \in Nat
    /\ Timeouts \in BOOLEAN
    /\ None \notin Threads

(* All threads wait for one task: a value for Task.                        *)
OneTask == [t \in Threads |-> CHOOSE k \in Tasks : TRUE]

VARIABLES
    sent, stored,    \* tasks that were sent; tasks whose result is stored
    subs, inbox, up, \* channels of the connection, messages in it, is it alive
    epoch,           \* the number of the connection
    subscribedTo,    \* subscribed_to
    unsubscribe,     \* _pending_unsubscribe
    lock, waiter,    \* holder of _pubsub_lock; _socket_waiter
    pending,         \* _pending_results: task -> the thread of its AsyncResult
    buffer,          \* _pending_messages
    ready,           \* has the AsyncResult of a thread got its result?
    pc, ret,         \* where a thread is, and where it goes on
    polled,          \* the connection it polls
    gets, losses

serverVars == <<sent, stored, subs, inbox, up, epoch>>
keyVars == <<subscribedTo, unsubscribe>>
resultVars == <<pending, buffer, ready>>
threadVars == <<pc, ret, polled, gets>>
vars == <<serverVars, keyVars, lock, waiter, resultVars, threadVars, losses>>

Labels == {"call", "send", "add", "register", "consume", "meta", "loop", "poll",
           "event", "readable", "timeout", "towait", "wait", "woken", "mget", "resub",
           "leave", "flush", "done"}

TypeOK ==
    /\ sent \subseteq Tasks /\ stored \subseteq sent
    /\ subs \subseteq Tasks /\ inbox \subseteq stored
    /\ up \in BOOLEAN /\ epoch \in Nat
    /\ subscribedTo \subseteq Tasks /\ unsubscribe \subseteq Tasks
    /\ lock \in Threads \union {None} /\ waiter \in BOOLEAN
    /\ pending \in [Tasks -> Threads \union {None}]
    /\ buffer \subseteq stored /\ ready \in [Threads -> BOOLEAN]
    /\ pc \in [Threads -> Labels] /\ ret \in [Threads -> Labels]
    /\ polled \in [Threads -> Nat] /\ gets \in [Threads -> 1..MaxGets]
    /\ losses \in 0..MaxLosses

Init ==
    /\ sent = {} /\ stored = {} /\ subs = {} /\ inbox = {} /\ up = TRUE /\ epoch = 1
    /\ subscribedTo = {} /\ unsubscribe = {}
    /\ lock = None /\ waiter = FALSE
    /\ pending = [k \in Tasks |-> None] /\ buffer = {}
    /\ ready = [t \in Threads |-> FALSE]
    /\ pc = [t \in Threads |-> "call"] /\ ret = [t \in Threads |-> "call"]
    /\ polled = [t \in Threads |-> 0] /\ gets = [t \in Threads |-> 1]
    /\ losses = 0

Goto(t, label) == pc' = [pc EXCEPT ![t] = label] /\ UNCHANGED ret
Call(t, label, next) ==
    pc' = [pc EXCEPT ![t] = label] /\ ret' = [ret EXCEPT ![t] = next]

(* The results of the tasks of K have come: on_state_change(), with the    *)
(* on_ready promise that removes the pending result, and the cancel_for()  *)
(* of each.  A result nobody waits for is kept in the buffer.              *)
StateChange(K) ==
    LET waited == {k \in K : pending[k] # None} IN
    /\ ready' = [t \in Threads |-> ready[t] \/ \E k \in waited : pending[k] = t]
    /\ pending' = [k \in Tasks |-> IF k \in K THEN None ELSE pending[k]]
    /\ buffer' = buffer \union (K \ waited)
    /\ unsubscribe' = unsubscribe \union K

(* The AsyncResult of t has its result, or is deleted.                     *)
RemovePending(t) ==
    /\ pending' = [pending EXCEPT ![Task[t]] = None]
    /\ unsubscribe' = unsubscribe \union {Task[t]}

-----------------------------------------------------------------------------
(* The producer's on_task_call() subscribes to a task before it is sent.   *)
OnTaskCall(t) ==
    /\ pc[t] = "call"
    /\ Call(t, "consume", "send")
    /\ UNCHANGED <<serverVars, keyVars, lock, waiter, resultVars, polled, gets, losses>>

Send(t) ==
    /\ pc[t] = "send"
    /\ sent' = sent \union {Task[t]}
    /\ Goto(t, "add")
    /\ UNCHANGED <<stored, subs, inbox, up, epoch, keyVars, lock, waiter, resultVars,
                   polled, gets, losses>>

(* Mutant: the channel is subscribed to although it is about to be         *)
(* cancelled.                                                              *)
ConsumeFromKept(t) ==
    LET k == Task[t] IN
    /\ pc[t] = "consume" /\ lock = None
    /\ lock' = t
    /\ subscribedTo' = subscribedTo \union {k}
    /\ subs' = subs \union {k}
    /\ Goto(t, "leave")
    /\ UNCHANGED <<sent, stored, inbox, up, epoch, unsubscribe, waiter, resultVars,
                   polled, gets, losses>>

(* consume_from(): start() or _consume_from(), which reconnects if the     *)
(* connection was lost.                                                    *)
ConsumeFrom(t) ==
    LET k == Task[t] IN
    /\ pc[t] = "consume" /\ lock = None
    /\ lock' = t
    /\ unsubscribe' = unsubscribe \ {k}
    /\ subscribedTo' = subscribedTo \union {k}
    /\ \/ /\ k \in subscribedTo
          /\ Goto(t, "leave") /\ UNCHANGED subs
       \/ /\ k \notin subscribedTo /\ up
          /\ subs' = subs \union {k}
          /\ Goto(t, "leave")
       \/ /\ k \notin subscribedTo /\ ~ up
          /\ Goto(t, "mget") /\ UNCHANGED subs
    /\ UNCHANGED <<sent, stored, inbox, up, epoch, waiter, resultVars, polled, gets, losses>>

(* get(): add_pending_result() takes the result from the buffer ...        *)
AddPending(t) ==
    LET k == Task[t] IN
    /\ pc[t] = "add"
    /\ \/ /\ k \in buffer
          /\ buffer' = buffer \ {k}
          /\ ready' = [ready EXCEPT ![t] = TRUE]
          /\ RemovePending(t)
          /\ Call(t, "flush", "meta")
       \/ /\ k \notin buffer
          /\ Goto(t, "register")
          /\ UNCHANGED <<buffer, ready, pending, unsubscribe>>
    /\ UNCHANGED <<serverVars, subscribedTo, lock, waiter, polled, gets, losses>>

(* ... or registers the AsyncResult, unless one with its id is registered. *)
Register(t) ==
    LET k == Task[t] IN
    /\ pc[t] = "register"
    /\ \/ /\ pending[k] = None
          /\ pending' = [pending EXCEPT ![k] = t]
          /\ Call(t, "consume", "meta")
       \/ /\ pending[k] # None
          /\ Goto(t, "meta") /\ UNCHANGED pending
    /\ UNCHANGED <<serverVars, keyVars, lock, waiter, buffer, ready, polled, gets, losses>>

(* on_wait_for_pending(): the result may be stored already.  It is handed  *)
(* to the registered AsyncResult of the task, this or another one, and not *)
(* left in the buffer.                                                     *)
ReadMeta(t) ==
    LET k == Task[t] IN
    /\ pc[t] = "meta"
    /\ \/ /\ ready[t] \/ k \in stored
          /\ ready' = [u \in Threads |->
                          ready[u] \/ u = t \/ (ready[t] /\ pending[k] = u)]
          /\ RemovePending(t)
          /\ buffer' = buffer \ {k}
          /\ Call(t, "flush", "loop")
       \/ /\ ~ ready[t] /\ k \notin stored
          /\ Goto(t, "loop")
          /\ UNCHANGED <<ready, pending, buffer, unsubscribe>>
    /\ UNCHANGED <<serverVars, subscribedTo, lock, waiter, polled, gets, losses>>

-----------------------------------------------------------------------------
(* _drain_one(): read a message, if there is one, or reconnect.            *)
Readable == subscribedTo # {} /\ (~ up \/ inbox # {})

DrainOne(t) ==
    \/ /\ ~ up
       /\ Call(t, "mget", "loop")
       /\ UNCHANGED <<inbox, unsubscribe, resultVars>>
    \/ /\ up
       /\ \E k \in inbox : inbox' = inbox \ {k} /\ StateChange({k})
       /\ Call(t, "leave", "loop")

GetDone(t) ==
    /\ pc[t] = "loop" /\ ready[t]
    /\ Goto(t, "done")
    /\ UNCHANGED <<serverVars, keyVars, lock, waiter, resultVars, polled, gets, losses>>

(* drain_events(): another thread polls the socket, or a message is there, *)
(* or this thread will poll.                                               *)
Drain(t) ==
    /\ pc[t] = "loop" /\ ~ ready[t] /\ lock = None
    /\ lock' = t
    /\ \/ /\ waiter
          /\ Goto(t, "towait")
          /\ UNCHANGED <<waiter, inbox, unsubscribe, resultVars, polled>>
       \/ /\ ~ waiter /\ Readable
          /\ DrainOne(t)
          /\ UNCHANGED <<waiter, polled>>
       \/ /\ ~ waiter /\ ~ Readable
          /\ waiter' = TRUE
          /\ polled' = [polled EXCEPT ![t] = epoch]
          /\ Call(t, "leave", IF subscribedTo = {} THEN "event" ELSE "poll")
          /\ UNCHANGED <<inbox, unsubscribe, resultVars>>
    /\ UNCHANGED <<sent, stored, subs, up, epoch, subscribedTo, gets, losses>>

(* _wait_for_pubsub(), without the lock, of the socket or of the first     *)
(* subscription: a socket that was closed by a reconnect does not wake it. *)
Poll(t) ==
    /\ pc[t] \in {"poll", "event"}
    /\ \/ /\ polled[t] = epoch
          /\ IF pc[t] = "poll" THEN inbox # {} \/ ~ up ELSE subscribedTo # {}
          /\ Goto(t, "readable")
       \/ /\ Timeouts
          /\ Goto(t, "timeout")
    /\ UNCHANGED <<serverVars, keyVars, lock, waiter, resultVars, polled, gets, losses>>

NotifyAll(p) == [u \in Threads |-> IF p[u] = "wait" THEN "woken" ELSE p[u]]

(* Mutant: a thread that reads a message does not notify the others.       *)
DrainPolledSilent(t) ==
    LET reads == pc[t] = "readable" /\ polled[t] = epoch /\ Readable IN
    /\ pc[t] \in {"readable", "timeout"} /\ lock = None
    /\ lock' = t /\ waiter' = FALSE
    /\ ret' = [ret EXCEPT ![t] = "loop"]
    /\ pc' = [IF reads THEN pc ELSE NotifyAll(pc)
                 EXCEPT ![t] = IF reads /\ ~ up THEN "mget" ELSE "leave"]
    /\ IF reads /\ up THEN \E k \in inbox : inbox' = inbox \ {k} /\ StateChange({k})
                      ELSE UNCHANGED <<inbox, unsubscribe, resultVars>>
    /\ UNCHANGED <<sent, stored, subs, up, epoch, subscribedTo, polled, gets, losses>>

(* drain_events() after the poll; the other threads look for themselves.   *)
DrainPolled(t) ==
    LET reads == pc[t] = "readable" /\ polled[t] = epoch /\ Readable IN
    /\ pc[t] \in {"readable", "timeout"} /\ lock = None
    /\ lock' = t /\ waiter' = FALSE
    /\ ret' = [ret EXCEPT ![t] = "loop"]
    /\ pc' = [NotifyAll(pc) EXCEPT ![t] = IF reads /\ ~ up THEN "mget" ELSE "leave"]
    /\ IF reads /\ up THEN \E k \in inbox : inbox' = inbox \ {k} /\ StateChange({k})
                      ELSE UNCHANGED <<inbox, unsubscribe, resultVars>>
    /\ UNCHANGED <<sent, stored, subs, up, epoch, subscribedTo, polled, gets, losses>>

(* _pubsub_read.wait() gives the lock away and takes it back.              *)
Wait(t) ==
    /\ pc[t] = "towait"
    /\ lock' = None
    /\ Goto(t, "wait")
    /\ UNCHANGED <<serverVars, keyVars, waiter, resultVars, polled, gets, losses>>

WaitTimeout(t) ==
    /\ pc[t] = "wait" /\ Timeouts
    /\ Goto(t, "woken")
    /\ UNCHANGED <<serverVars, keyVars, lock, waiter, resultVars, polled, gets, losses>>

Woken(t) ==
    /\ pc[t] = "woken" /\ lock = None
    /\ lock' = t
    /\ Call(t, "leave", "loop")
    /\ UNCHANGED <<serverVars, keyVars, waiter, resultVars, polled, gets, losses>>

-----------------------------------------------------------------------------
(* Mutant: a key without a value counts as a result.                       *)
MgetMissing(t) ==
    /\ pc[t] = "mget"
    /\ StateChange(subscribedTo)
    /\ Goto(t, "resub")
    /\ UNCHANGED <<serverVars, subscribedTo, lock, waiter, polled, gets, losses>>

(* _reconnect_pubsub(): read the results that came in the meantime ...     *)
Mget(t) ==
    /\ pc[t] = "mget"
    /\ StateChange(subscribedTo \intersect stored)
    /\ Goto(t, "resub")
    /\ UNCHANGED <<serverVars, subscribedTo, lock, waiter, polled, gets, losses>>

(* ... then forget the cancelled channels and subscribe to the others.     *)
Resubscribe(t) ==
    /\ pc[t] = "resub"
    /\ subscribedTo' = subscribedTo \ unsubscribe
    /\ unsubscribe' = {}
    /\ subs' = subscribedTo' /\ inbox' = {} /\ up' = TRUE /\ epoch' = epoch + 1
    /\ Goto(t, "leave")
    /\ UNCHANGED <<sent, stored, lock, waiter, resultVars, polled, gets, losses>>

(* Mutant: the cancelled keys are left to the next operation.              *)
LeaveUnflushed(t) ==
    /\ pc[t] = "leave"
    /\ lock' = None
    /\ Goto(t, ret[t])
    /\ UNCHANGED <<serverVars, keyVars, waiter, resultVars, polled, gets, losses>>

(* The lock is released; the keys that were cancelled in the meantime are  *)
(* looked at after it.                                                     *)
Leave(t) ==
    /\ pc[t] = "leave"
    /\ lock' = None
    /\ Goto(t, "flush")
    /\ UNCHANGED <<serverVars, keyVars, waiter, resultVars, polled, gets, losses>>

(* _flush_pending_unsubscribe(): if the lock is free, take it and send the *)
(* cancelled keys; look again after it is released.                        *)
Flush(t) ==
    /\ pc[t] = "flush"
    /\ \/ /\ unsubscribe = {} \/ lock # None
          /\ Goto(t, ret[t])
          /\ UNCHANGED <<lock, subs, subscribedTo, unsubscribe>>
       \/ /\ unsubscribe # {} /\ lock = None
          /\ lock' = t
          /\ subscribedTo' = subscribedTo \ unsubscribe
          /\ unsubscribe' = {}
          /\ \/ up /\ subs' = subs \ unsubscribe /\ Goto(t, "leave")
             \/ ~ up /\ UNCHANGED subs
                /\ Goto(t, IF subscribedTo \intersect unsubscribe # {}
                           THEN "mget" ELSE "leave")
    /\ UNCHANGED <<sent, stored, inbox, up, epoch, waiter, resultVars, polled,
                   gets, losses>>

-----------------------------------------------------------------------------
(* get() has timed out and its AsyncResult is deleted: __del__(), anywhere *)
(* in the program.  The next get() is one of a new AsyncResult.            *)
GiveUp(t) ==
    /\ pc[t] = "loop" /\ ~ ready[t] /\ gets[t] < MaxGets
    /\ gets' = [gets EXCEPT ![t] = @ + 1]
    /\ RemovePending(t)
    /\ Call(t, "flush", "add")
    /\ UNCHANGED <<serverVars, subscribedTo, lock, waiter, buffer, ready, polled,
                   losses>>

(* The worker stores the result and publishes it.                          *)
Finish(k) ==
    /\ k \in sent \ stored
    /\ stored' = stored \union {k}
    /\ inbox' = IF up /\ k \in subs THEN inbox \union {k} ELSE inbox
    /\ UNCHANGED <<sent, subs, up, epoch, keyVars, lock, waiter, resultVars, threadVars,
                   losses>>

ConnectionLost ==
    /\ up /\ losses < MaxLosses
    /\ losses' = losses + 1
    /\ up' = FALSE /\ subs' = {} /\ inbox' = {}
    /\ UNCHANGED <<sent, stored, epoch, keyVars, lock, waiter, resultVars, threadVars>>

Step(t) ==
    \/ OnTaskCall(t) \/ Send(t) \/ ConsumeFrom(t) \/ AddPending(t) \/ Register(t)
    \/ ReadMeta(t) \/ GetDone(t) \/ Drain(t) \/ Poll(t) \/ DrainPolled(t) \/ Wait(t)
    \/ WaitTimeout(t) \/ Woken(t) \/ Mget(t) \/ Resubscribe(t) \/ Leave(t) \/ Flush(t)

Next ==
    \/ \E t \in Threads : Step(t) \/ GiveUp(t)
    \/ \E k \in Tasks : Finish(k)
    \/ ConnectionLost

Spec == Init /\ [][Next]_vars

FairSpec ==
    /\ Spec
    /\ \A t \in Threads : WF_vars(Step(t))
    /\ \A k \in Tasks : WF_vars(Finish(k))

-----------------------------------------------------------------------------
(* "Wait until task is ready, and return its result" (AsyncResult.get()):  *)
(* every thread gets its result in the end.                                *)
GetReturns == \A t \in Threads : <>(pc[t] = "done")

(* A thread that waits, and has not got its result, will be woken by it:   *)
(* its AsyncResult is registered, its channel is subscribed to and not     *)
(* about to be cancelled, and if the result is stored its message is there.*)
Waiting(t) ==
    \/ pc[t] \in {"loop", "poll", "event", "readable", "timeout", "towait", "wait", "woken"}
    \/ pc[t] \in {"leave", "flush"} /\ ret[t] \in {"loop", "poll", "event"}

WaiterIsCovered ==
    \A t \in Threads : Waiting(t) /\ ~ ready[t] =>
        /\ pending[Task[t]] = t
        /\ Task[t] \in subs \ unsubscribe
        /\ Task[t] \in stored => Task[t] \in inbox

(* A cancelled subscription is not forgotten, though cancel_for() does not *)
(* wait for the lock: while a key is pending the lock is held, or a thread *)
(* is about to look at the keys, or one that went to wait for the reader   *)
(* with keys left to it will look when it is woken.                        *)
CancelNotForgotten ==
    unsubscribe # {} =>
        lock # None \/ \E t \in Threads : pc[t] \in {"flush", "wait", "woken"}

(* The tables of the consumer are well formed, a cancellation is not       *)
(* forgotten, and whoever waits is covered by the subscription, if no two  *)
(* AsyncResults share a task and the connection is not lost.               *)
OwnTasks == \A t, u \in Threads : Task[t] = Task[u] => t = u

Covered ==
    /\ TypeOK
    /\ CancelNotForgotten
    /\ OwnTasks /\ MaxLosses = 0 => WaiterIsCovered
=============================================================================
