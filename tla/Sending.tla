------------------------------ MODULE Sending ------------------------------
(* How a task is called: the options of the call, of the task and of       *)
(* task_routes make the destination, a producer of the pool publishes the  *)
(* message, the task that runs calls others or is retried (app/base.py     *)
(* send_task, app/task.py, app/routes.py, app/amqp.py, app/autoretry.py).  *)
EXTENDS Integers, Sequences, FiniteSets, SequencesExt

CONSTANTS Threads,      \* of one process: they call tasks and run tasks
    Queues,             \* the queues of task_queues, DefaultQueue among them
    DefaultQueue,
    Setups,             \* the configurations, see Init
    MaxCalls,           \* bound on the calls that are not retries
    MaxRetries,         \* Task.max_retries
    Overrides,          \* what max_retries a call to retry() may give
    PoolLimit           \* broker_pool_limit

NoQueue == "no queue"
Unset == -1         \* no max_retries given
SendingConstants ==
    /\ DefaultQueue \in Queues /\ NoQueue \notin Queues
    /\ MaxRetries \in Nat /\ Overrides \subseteq Nat \cup {Unset} /\ PoolLimit \in Nat \ {0}

VARIABLES
    setup,      \* [quorum, type, routed, attr]: the broker has quorum queues, the
                \* type of each queue's exchange, the queue task_routes gives the
                \* task, the queue the task has as an attribute
    producers,  \* free producers in the pool
    thread,     \* what each thread is doing
    queue,      \* the messages in each queue
    bound,      \* the tasks whose result queue has been declared (on_task_call)
    override,   \* Task.override_max_retries, an attribute of the task object
    calls, log  \* the calls made, the messages that were published

vars == <<setup, producers, thread, queue, bound, override, calls, log>>

None == [id |-> 0]

-----------------------------------------------------------------------------
\* the exchange and the routing key of a queue
Exchange(q) == <<"exchange of", q>>
NoExchange == <<"none", NoQueue>>
Anonymous == <<"", NoQueue>>       \* the exchange ''
Delayed == <<"celery_delayed", NoQueue>>

(* Router.route: a queue in the options of the call (or of the task, that  *)
(* apply_async has merged in) stays, else the one of task_routes, else the *)
(* default; an exchange and a key are kept beside the queue.               *)
MergedQueue(asked) == IF asked # NoQueue THEN asked ELSE setup.attr

Route(asked) ==
    IF MergedQueue(asked) # NoQueue THEN MergedQueue(asked)
    ELSE IF setup.routed # NoQueue THEN setup.routed ELSE DefaultQueue

(* send_task: with quorum queues a task with a countdown goes through the  *)
(* exchange for delays, under the key of the queue it was routed to.       *)
NativeDelay(o) == o.delay /\ setup.quorum /\ setup.type[o.queue] # "direct"

(* send_task_message: what is published, <<exchange, key>>.                *)
Target(o) ==
    CASE NativeDelay(o) -> <<Delayed, o.queue>>
      [] ~ NativeDelay(o) /\ o.exchange # NoExchange -> <<o.exchange, o.key>>
      [] ~ NativeDelay(o) /\ o.exchange = NoExchange /\ setup.type[o.queue] = "direct" ->
            <<Anonymous, o.queue>>
      [] OTHER -> <<Exchange(o.queue), o.queue>>

(* The broker: '' delivers to the queue named by the key; the exchange for *)
(* delays to the queue whose key it ends in (bound by DelayedDelivery).    *)
Reaches(target) ==
    {q \in Queues : q = target[2] /\ target[1] \in {Anonymous, Delayed, Exchange(q)}}

(* signature_from_request: the destination a retry asks for, from the      *)
(* delivery_info of the message.                                           *)
Back(target) ==
    IF target[1] = Anonymous
    THEN [queue |-> target[2], exchange |-> NoExchange, key |-> NoQueue]
    ELSE [queue |-> NoQueue, exchange |-> target[1], key |-> target[2]]

\* the options of a call, routed
Options(asked, exchange, key, delay) ==
    [queue |-> Route(asked), exchange |-> exchange, key |-> key, delay |-> delay]

-----------------------------------------------------------------------------
Idle == [at |-> "idle", run |-> None, send |-> None, then |-> "idle"]

Init ==
    /\ setup \in Setups
    /\ producers = PoolLimit
    /\ thread = [t \in Threads |-> Idle]
    /\ queue = [q \in Queues |-> {}]
    /\ bound = {} /\ override = Unset /\ calls = 0 /\ log = {}

TypeOK ==
    /\ producers \in 0..PoolLimit
    /\ \A q \in Queues : queue[q] \subseteq log
    /\ override \in Nat \cup {Unset}

(* apply_async from outside or from a task that runs: the root is the one  *)
(* of the caller, the parent the caller (send_task, current_worker_task).  *)
Call(t, asked, delay) ==
    LET parent == thread[t].run
        id == calls + 1
    IN
    /\ thread[t].at \in {"idle", "running"}
    /\ calls < MaxCalls
    /\ calls' = id
    /\ thread' = [thread EXCEPT ![t].at = "acquire", ![t].then = thread[t].at, ![t].send =
          [id |-> id, parent |-> parent.id,
           root |-> IF parent = None THEN id ELSE parent.root,
           retries |-> 0, asked |-> asked, limit |-> MaxRetries,
           target |-> Target(Options(asked, NoExchange, NoQueue, delay))]]
    /\ UNCHANGED <<setup, producers, queue, bound, override, log>>

\* producer_or_acquire; on_task_call; send_task_message; the producer goes back
Acquire(t) ==
    /\ thread[t].at = "acquire" /\ producers > 0
    /\ producers' = producers - 1
    /\ thread' = [thread EXCEPT ![t].at = "tell"]
    /\ UNCHANGED <<setup, queue, bound, override, calls, log>>

(* broker_pool_acquire_timeout: OperationalError; a retry that cannot be   *)
(* sent ends in Reject.                                                    *)
AcquireTimeout(t) ==
    /\ thread[t].at = "acquire" /\ producers = 0
    /\ thread' = [thread EXCEPT ![t].at = thread[t].then, ![t].send = None,
                                ![t].run = IF thread[t].then = "idle" THEN None ELSE @]
    /\ UNCHANGED <<setup, producers, queue, bound, override, calls, log>>

OnTaskCall(t) ==
    /\ thread[t].at = "tell"
    /\ bound' = bound \cup {thread[t].send.id}
    /\ thread' = [thread EXCEPT ![t].at = "publish"]
    /\ UNCHANGED <<setup, producers, queue, override, calls, log>>

SendTaskMessage(t) ==
    LET m == thread[t].send IN
    /\ thread[t].at = "publish"
    /\ \/ queue' = [q \in Queues |-> IF q \in Reaches(m.target) THEN queue[q] \cup {m}
                                                               ELSE queue[q]]
          /\ log' = log \cup {m}
       \/ UNCHANGED <<queue, log>>      \* the broker is gone: the exception is raised
    /\ thread' = [thread EXCEPT ![t].at = "release"]
    /\ UNCHANGED <<setup, producers, bound, override, calls>>

\* Mutant of Release: the producer is not given back.
ReleaseKeeping(t) ==
    /\ thread[t].at = "release"
    /\ thread' = [thread EXCEPT ![t].at = thread[t].then, ![t].send = None,
                                ![t].run = IF thread[t].then = "running" THEN @ ELSE None]
    /\ UNCHANGED <<setup, producers, queue, bound, override, calls, log>>

\* leaving the with block; retry() raises Retry then
Release(t) ==
    /\ thread[t].at = "release"
    /\ producers' = producers + 1
    /\ thread' = [thread EXCEPT ![t].at = thread[t].then, ![t].send = None,
                                ![t].run = IF thread[t].then = "running" THEN @ ELSE None]
    /\ UNCHANGED <<setup, queue, bound, override, calls, log>>

-----------------------------------------------------------------------------
Run(t, q, m) ==
    /\ thread[t].at = "idle" /\ m \in queue[q]
    /\ queue' = [queue EXCEPT ![q] = @ \ {m}]
    /\ thread' = [thread EXCEPT ![t].at = "running", ![t].run = m]
    /\ UNCHANGED <<setup, producers, bound, override, calls, log>>

Return(t) ==
    /\ thread[t].at = "running"
    /\ thread' = [thread EXCEPT ![t] = Idle]
    /\ UNCHANGED <<setup, producers, queue, bound, override, calls, log>>

(* Task.retry(max_retries=given): an explicit limit is left on the task    *)
(* object; past the limit the task fails, else it is sent again under its  *)
(* own id.                                                                 *)
Again(m, limit, delay) ==
    LET back == Back(m.target) IN
    [m EXCEPT !.retries = @ + 1, !.limit = limit,
       !.target = Target(Options(back.queue, back.exchange, back.key, delay))]

SendOrFail(t, limit, delay, then) ==
    LET m == thread[t].run IN
    IF m.retries + 1 > limit
    THEN thread' = [thread EXCEPT ![t] = Idle]
    ELSE thread' = [thread EXCEPT ![t].at = "acquire", ![t].then = then,
                                  ![t].send = Again(m, limit, delay)]

\* the task calls self.retry(), which raises Retry
Retry(t, given, delay) ==
    /\ thread[t].at = "running"
    /\ override' = IF given = Unset THEN override ELSE given
    /\ SendOrFail(t, IF given = Unset THEN MaxRetries ELSE given, delay, "idle")
    /\ UNCHANGED <<setup, producers, queue, bound, calls, log>>

(* add_autoretry_behaviour: the task raised an exception of autoretry_for; *)
(* an override found on the task object is the limit, and stays there: the *)
(* line that deletes it is only reached where retry() returns, with        *)
(* throw=False among the retry_kwargs.                                     *)
AutoRetry(t, delay) ==
    /\ thread[t].at = "running"
    /\ SendOrFail(t, IF override = Unset THEN MaxRetries ELSE override, delay, "idle")
    /\ UNCHANGED <<setup, producers, queue, bound, override, calls, log>>

Next ==
    \E t \in Threads :
       \/ \E delay \in BOOLEAN :
             \/ \E asked \in Queues \cup {NoQueue} : Call(t, asked, delay)
             \/ \E given \in Overrides : Retry(t, given, delay)
             \/ AutoRetry(t, delay)
       \/ Acquire(t) \/ AcquireTimeout(t) \/ OnTaskCall(t) \/ SendTaskMessage(t) \/ Release(t)
       \/ \E q \in Queues : \E m \in queue[q] : Run(t, q, m)
       \/ Return(t)

Spec == Init /\ [][Next]_vars /\ \A t \in Threads : WF_vars(Release(t))

-----------------------------------------------------------------------------
(* A message goes to the queue that was asked for: in the call, else by    *)
(* the task, else by task_routes, else the default queue; and a retry to   *)
(* the queue of the task it repeats (docs/userguide/tasks.rst:598), though *)
(* it only knows the exchange and the routing key it was delivered by.     *)
Meant(m) ==
    LET wishes == <<m.asked, setup.attr, setup.routed, DefaultQueue>>
        wish(q) == q # NoQueue
    IN SelectSeq(wishes, wish)[1]

RetriedOnSameQueue == \A m \in log : m.retries > 0 => Reaches(m.target) = {Meant(m)}

(* Nothing can answer a task before its result queue exists; root and      *)
(* parent describe who called whom through retries; the producers all come *)
(* back, whoever fails.                                                    *)
SentAsMeant ==
    /\ \A m \in log : m.retries = 0 => Reaches(m.target) = {Meant(m)}
    /\ \A m \in log : m.id \in bound
    /\ \A m \in log : \/ m.parent = 0 /\ m.root = m.id
                      \/ \E p \in log : p.id = m.parent /\ p.root = m.root /\ p.id < m.id
    /\ (\A t \in Threads : thread[t].at \in {"idle", "running"}) => producers = PoolLimit

(* Task.retry: "If set, overrides the default retry limit for this         *)
(* execution.  Changes to this parameter don't propagate to subsequent     *)
(* task retry attempts." (app/task.py:804)                                 *)
OverrideStays ==
    [][\A t \in Threads : \A delay \in BOOLEAN :
          AutoRetry(t, delay) => thread'[t] = Idle \/ thread'[t].send.limit = MaxRetries]_vars
=============================================================================
