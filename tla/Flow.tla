-------------------------------- MODULE Flow ---------------------------------
(***************************************************************************)
(* How much a worker takes on: the prefetch count of its consumer          *)
(* (worker/consumer/consumer.py, tasks.py), the number of its pool         *)
(* processes, the autoscaler (worker/autoscale.py) and the remote control  *)
(* commands that change them (worker/control.py).                          *)
(*                                                                         *)
(* The prefetch count exists three times: what the consumer would ask for  *)
(* on its next connection, what its QoS object counts, and what the broker *)
(* was last told.  Growing and shrinking, tasks with an eta, a lost        *)
(* connection and the restoration after it all change some of them.        *)
(* (worker_enable_prefetch_count_reduction is True, which is its default.) *)
(***************************************************************************)
EXTENDS Integers, FiniteSets

CONSTANTS Tasks,       \* messages, published again once they are done
          EtaTasks,    \* the ones that carry an eta
          LongTasks,   \* the ones that, once running, do not end for a long time
          Multiplier,  \* worker_prefetch_multiplier
          Concurrency, \* pool processes at the start (min_concurrency with autoscale)
          MaxProcs,    \* bound: processes a command may ask for
          Autoscale,   \* {} or {max_concurrency}: the worker was given --autoscale
          AcksLate,    \* the tasks acknowledge when they are done
          PerConsumer, \* quorum queues: qos_global is False, the count is static
          MaxLosses,   \* bound: connections lost
          MaxCommands  \* bound: remote control commands

FlowConstants ==
    /\ EtaTasks \cup LongTasks \subseteq Tasks /\ IsFiniteSet(Tasks) /\ Multiplier \in Nat \ {0}
    /\ MaxProcs \in Nat /\ Concurrency \in 1..MaxProcs /\ Autoscale \subseteq 1..MaxProcs
    /\ {AcksLate, PerConsumer} \subseteq BOOLEAN /\ MaxLosses \in Nat /\ MaxCommands \in Nat

VARIABLES task,      \* message -> in the queue, held for its eta, reserved, active, or done
          unacked,   \* messages the broker counts against the prefetch count
          carries,   \* deliveries whose acknowledgement restores a part of the count
          procs,     \* pool.num_processes
          scaler,    \* the autoscaler: max, min and when it last scaled up
          initial,   \* consumer.initial_prefetch_count
          value,     \* consumer.qos.value
          prev,      \* consumer.qos.prev: what the broker was told last
          granted,   \* what the broker goes by
          restored,  \* consumer._maximum_prefetch_restored
          restarts,  \* consumer.restart_count
          commands,  \* commands handled
          skew       \* history: what of this connection makes the count inexact: an eta, a
                     \* shrink that failed half way, or a pool that was left empty

vars == <<task, unacked, carries, procs, scaler, initial, value, prev, granted, restored,
          restarts, commands, skew>>
counts == <<initial, value, prev, granted, restored>>
Skews == {"eta", "shrink", "empty"}

Lesser(a, b) == IF a < b THEN a ELSE b
Greater(a, b) == IF a > b THEN a ELSE b
In(where) == {t \in Tasks : task[t] = where}
Autoscaling == Autoscale # {}

TypeOK ==
    /\ task \in [Tasks -> {"queue", "eta", "reserved", "active", "done"}]
    /\ carries \subseteq unacked /\ unacked \subseteq Tasks
    /\ procs \in 0..MaxProcs + Cardinality(Tasks)
    /\ scaler \in [max : 0..MaxProcs, min : 0..MaxProcs, up : {"never", "recently", "long ago"}]
    /\ {initial, value, prev, granted} \subseteq Nat /\ restored \in BOOLEAN
    /\ restarts \in 0..MaxLosses /\ commands \in 0..MaxCommands /\ skew \subseteq Skews

(***************************************************************************)
(* The count (kombu.common.QoS and the consumer's use of it)               *)
(***************************************************************************)
\* QoS.increment_eventually and decrement_eventually: 0 means no limit and stays.
Inc(v, n) == IF v = 0 THEN 0 ELSE v + n
Dec(v, n) == IF v = 0 THEN 0 ELSE Greater(v - n, 1)

\* Consumer.max_prefetch_count.
MaxPrefetch(n) == n * Multiplier

\* Consumer._update_prefetch_count, _update_qos_eventually, after the pool has
\* num processes and the number asked for changed by index.
UpdatePrefetchCount(num, index) ==
    IF initial = 0 \/ num = 0
      THEN UNCHANGED <<initial, value>>
      ELSE /\ initial' = MaxPrefetch(num)
           /\ value' = IF index < 0 THEN Dec(value, Multiplier * (0 - index))
                                    ELSE Inc(value, Multiplier * index)

\* The loop: qos.update() when the value is not what the broker was told.  With
\* per-consumer QoS it does not reach the consumer that runs.
UpdateQos ==
    /\ prev # value
    /\ prev' = value
    /\ granted' = IF PerConsumer THEN granted ELSE value
    /\ UNCHANGED <<task, unacked, carries, procs, scaler, initial, value, restored,
                   restarts, commands, skew>>

\* Mutant of Restore: the count goes past the maximum.
RestoreUnbounded ==
    LET new == value + Multiplier
    IN  IF restored
          THEN UNCHANGED counts
          ELSE /\ initial' = new /\ value' = new /\ prev' = new /\ granted' = new
               /\ restored' = (new = MaxPrefetch(procs))

\* Consumer._restore_prefetch_count_after_connection_restart, which also tells
\* the broker at once.
Restore ==
    LET new == Lesser(MaxPrefetch(procs), value + Multiplier)
    IN  IF restored
          THEN UNCHANGED counts
          ELSE /\ initial' = new /\ value' = new /\ prev' = new /\ granted' = new
               /\ restored' = (new = MaxPrefetch(procs))

(***************************************************************************)
(* Tasks                                                                   *)
(***************************************************************************)
\* Autoscaler.qty: the reserved requests, the active ones among them.
Load(tasks) == Cardinality({t \in Tasks : tasks[t] \in {"reserved", "active"}})
Busy == Cardinality(In("active"))

\* Pool.shrink (billiard): only idle processes go, and too few of them is a ValueError.
Shrunk(n) == procs - Lesser(n, procs - Busy)
ShrinkFails(n) == procs - Busy < n

\* Autoscaler._maybe_scale, scale_up, scale_down, _grow, _shrink.
MaybeScale(load) ==
    LET up == Lesser(load, scaler.max)
        down == Greater(load, scaler.min)
        grows == Autoscaling /\ up > procs
        shrinks == Autoscaling /\ up =< procs /\ down < procs /\ scaler.up = "long ago"
    IN  \/ grows /\ procs' = up /\ scaler' = [scaler EXCEPT !.up = "recently"]
        \/ shrinks /\ procs' = Shrunk(procs - down) /\ UNCHANGED scaler
        \/ ~grows /\ ~shrinks /\ UNCHANGED <<procs, scaler>>

\* create_task_handler's on_task_received and the strategy: the acknowledgement of
\* a delivery made while the count is reduced carries the restoration with it.
Deliver(t) ==
    LET restoring == ~restored /\ restarts > 0 /\ value + Multiplier =< MaxPrefetch(procs)
    IN  /\ task[t] = "queue" /\ (granted = 0 \/ Cardinality(unacked) < granted)
        /\ unacked' = unacked \cup {t}
        /\ carries' = IF restoring THEN carries \cup {t} ELSE carries
        /\ task' = [task EXCEPT ![t] = IF t \in EtaTasks THEN "eta" ELSE "reserved"]
        /\ IF t \in EtaTasks
             THEN /\ value' = Inc(value, 1) /\ skew' = skew \cup {"eta"}
                  /\ UNCHANGED <<procs, scaler>>
             ELSE /\ MaybeScale(Load(task'))
                  /\ UNCHANGED <<value, skew>>
        /\ UNCHANGED <<initial, prev, granted, restored, restarts, commands>>

\* Consumer.apply_eta_task.
ApplyEta(t) ==
    /\ task[t] = "eta"
    /\ task' = [task EXCEPT ![t] = "reserved"]
    /\ value' = Dec(value, 1)
    /\ UNCHANGED <<unacked, carries, procs, scaler, initial, prev, granted, restored,
                   restarts, commands, skew>>

\* Acknowledging a delivery of this connection fulfils its promise; one of an
\* earlier connection is not the broker's any more.
Acknowledge(t) ==
    /\ unacked' = unacked \ {t}
    /\ carries' = carries \ {t}
    /\ IF t \in carries THEN Restore ELSE UNCHANGED counts

Run(t) ==
    /\ task[t] = "reserved" /\ Busy < procs
    /\ task' = [task EXCEPT ![t] = "active"]
    /\ IF AcksLate THEN UNCHANGED <<unacked, carries, counts>> ELSE Acknowledge(t)
    /\ UNCHANGED <<procs, scaler, restarts, commands, skew>>

Finish(t) ==
    /\ task[t] = "active" /\ t \notin LongTasks
    /\ task' = [task EXCEPT ![t] = "done"]
    /\ IF AcksLate THEN Acknowledge(t) ELSE UNCHANGED <<unacked, carries, counts>>
    /\ UNCHANGED <<procs, scaler, restarts, commands, skew>>

Publish(t) ==
    /\ task[t] = "done" /\ t \notin unacked
    /\ task' = [task EXCEPT ![t] = "queue"]
    /\ UNCHANGED <<unacked, carries, procs, scaler, counts, restarts, commands, skew>>

\* The autoscaler's thread or timer, and the keepalive that has to pass.
Autoscaler ==
    /\ Autoscaling
    /\ \/ MaybeScale(Load(task))
       \/ scaler.up = "recently" /\ scaler' = [scaler EXCEPT !.up = "long ago"] /\ UNCHANGED procs
    /\ UNCHANGED <<task, unacked, carries, counts, restarts, commands, skew>>

(***************************************************************************)
(* Remote control: the commands and their handlers                         *)
(***************************************************************************)
Handled == /\ commands < MaxCommands /\ commands' = commands + 1
           /\ UNCHANGED <<task, unacked, carries, prev, granted, restored, restarts>>

\* pool_grow and pool_shrink are refused with an autoscaler.  A shrink that finds
\* too few idle processes has removed those there were, and raises before the
\* prefetch count is touched; one that leaves no process does not touch it either.
PoolGrow(n) ==
    /\ Handled /\ ~Autoscaling /\ procs + n =< MaxProcs
    /\ procs' = procs + n
    /\ UpdatePrefetchCount(procs + n, n)
    /\ UNCHANGED <<scaler, skew>>

PoolShrink(n) ==
    /\ Handled /\ ~Autoscaling
    /\ procs' = Shrunk(n)
    /\ IF ShrinkFails(n) THEN UNCHANGED <<initial, value>>
                         ELSE UpdatePrefetchCount(procs - n, 0 - n)
    /\ skew' = skew \cup (IF ShrinkFails(n) /\ Shrunk(n) # procs THEN {"shrink"} ELSE {})
                    \cup (IF Shrunk(n) = 0 THEN {"empty"} ELSE {})
    /\ UNCHANGED scaler

\* autoscale -> Autoscaler.update(max, min).  Here a failing shrink is logged, and
\* the count follows the new maximum all the same.  The two are not compared.
AutoscaleUpdate(max, min) ==
    LET shrunk == IF max < procs THEN Shrunk(procs - max) ELSE procs
    IN  /\ Handled /\ Autoscaling
        /\ procs' = Greater(shrunk, min)
        /\ IF max = scaler.max THEN UNCHANGED <<initial, value>>
                               ELSE UpdatePrefetchCount(shrunk, max - scaler.max)
        /\ scaler' = [scaler EXCEPT !.max = max, !.min = min]
        /\ UNCHANGED skew

(***************************************************************************)
(* A lost connection: on_connection_error_after_connected, on_close and    *)
(* the next Tasks.start, which builds a new QoS from the initial count and *)
(* tells the broker.                                                       *)
(* What was held is thrown away and comes again from the broker; what is   *)
(* active goes on, and its delivery is not the new connection's.           *)
(***************************************************************************)
TasksStart(count) == initial' = count /\ value' = count /\ prev' = count /\ granted' = count

\* Empty pools have a count of their own.
Skewed == IF procs = 0 THEN {"empty"} ELSE {}

LoseConnection ==
    LET held == {t \in Tasks : task[t] \in {"eta", "reserved"}}
        new == IF PerConsumer THEN MaxPrefetch(procs)
               ELSE Greater(Multiplier, MaxPrefetch(procs) - Busy * Multiplier)
    IN  /\ restarts < MaxLosses /\ restarts' = restarts + 1
        /\ TasksStart(new)
        /\ restored' = (new = MaxPrefetch(procs))
        /\ task' = [t \in Tasks |-> IF t \in held THEN "queue" ELSE task[t]]
        /\ unacked' = {} /\ carries' = {} /\ skew' = Skewed
        /\ UNCHANGED <<procs, scaler, commands>>

\* components.Consumer.create: with autoscale the count is that of the maximum.
Init ==
    LET max == IF Autoscaling THEN CHOOSE m \in Autoscale : TRUE ELSE Concurrency
    IN  /\ task = [t \in Tasks |-> "queue"]
        /\ unacked = {} /\ carries = {}
        /\ procs = Concurrency
        /\ scaler = [max |-> max, min |-> Concurrency, up |-> "never"]
        /\ initial = MaxPrefetch(max) /\ value = initial /\ prev = initial /\ granted = initial
        /\ restored = TRUE /\ restarts = 0 /\ commands = 0 /\ skew = {}

Work(t) == Deliver(t) \/ ApplyEta(t) \/ Run(t)

Next ==
    \/ \E t \in Tasks : Work(t) \/ Finish(t) \/ Publish(t)
    \/ UpdateQos \/ Autoscaler \/ LoseConnection
    \/ \E n \in 1..2 : PoolGrow(n) \/ PoolShrink(n)
    \/ \E max, min \in 0..MaxProcs : AutoscaleUpdate(max, min)

\* The loop runs, tasks are delivered and, the long ones apart, end, and the
\* publisher goes on publishing.
Fairness == /\ WF_vars(UpdateQos) /\ WF_vars(Autoscaler)
            /\ \A t \in Tasks : WF_vars(Work(t)) /\ WF_vars(Publish(t))
            /\ \A t \in Tasks \ LongTasks : WF_vars(Finish(t))
Spec == Init /\ [][Next]_vars /\ Fairness

(***************************************************************************)
(* Properties                                                              *)
(***************************************************************************)
\* configuration.rst, worker_enable_prefetch_count_reduction ("the prefetch count
\* will be gradually restored to its maximum allowed value"): when the consumer
\* holds the count to be restored and no eta is pending, it is the maximum.
RestoredIsMax ==
    ~Autoscaling /\ restored /\ In("eta") = {} => value = MaxPrefetch(procs)

\* The same, apart from the three ways to lose it: an eta delivered on this
\* connection, a shrink that failed half way, and a pool that was left without a
\* process (consumer.py:313 has the last as an offset of +1, it is the whole count).
PrefetchExact == skew = {} => RestoredIsMax

\* The worker asks for at least one message, that is never without limit (which is what
\* a count of 0 says), and, the same three apart, never for more than its processes
\* can take.
PrefetchBounded ==
    /\ "empty" \in skew \/ value >= 1
    /\ ~Autoscaling /\ skew = {} => value =< MaxPrefetch(procs)

\* A reconnect with per-consumer QoS while the pool is empty makes the count 0: the
\* broker delivers without limit, and growing the pool does not change it.
NeverUnlimited == value >= 1

\* After a reconnect the count comes back as tasks complete.
ComesBack == Autoscaling \/ restored \/ value >= MaxPrefetch(procs)

\* Work waits in the queue that the maximum of the autoscaler would have room for.
Wanting == Autoscaling /\ procs < scaler.max /\ Cardinality(In("queue")) >= scaler.max

\* workers.rst, Autoscaling ("adds more pool processes when there is work to do"):
\* it does not leave work waiting behind processes that are all busy.
ScalesUp == Wanting ~> ~Wanting

\* It does so on the first connection, whose count is that of the maximum.
ScaledUp == ~Wanting \/ restarts > 0

\* A worker asks for what it can take.
FlowRight == TypeOK /\ PrefetchExact /\ PrefetchBounded
=============================================================================
