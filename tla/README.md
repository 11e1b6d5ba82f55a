# A verification of Celery in TLA+

Celery runs functions ("tasks") that clients send as messages to worker
processes. This directory models the parts of Celery that have state and can
go wrong in ways a test hardly reaches: what a worker does with a delivery
until it is settled, how much it takes on and from which queues, how its pool
feeds its children, how it starts, reconnects and stops, how tasks are declared,
configured, composed and sent, how chains and chords are carried by the tasks
themselves, what the result stores make of several writers, how a client waits
for a result, how beat remembers what it has sent, and what the workers of a
cluster, their monitors and their operators know of each other. The modules are
translated from the source under `src/celery`; `PROJECT.json` maps every
definition to the lines it stands for.

    tlc -workers 2 -config Worker.cfg MCWorker      # a model checking run
    tlapm WorkerProofs.tla                          # the proofs of a module

## 1. The system

A client calls `apply_async`, which publishes a message. A **worker** consumes
messages (`worker/consumer`), makes a `Request` of each (`worker/strategy.py`,
`worker/request.py`), and hands it to a **pool** (`concurrency/`), whose
children run the task through the **tracer** (`app/trace.py`). The tracer
stores results in a **backend** (`backends/`) and publishes what follows: the
next step of a chain, the body of a chord, errbacks, retries (`canvas.py`). The
client waits through an `AsyncResult` (`result.py`, `backends/asynchronous.py`).
**Beat** (`beat.py`, `schedules.py`) sends periodic tasks. Workers talk to each
other and to monitors by broadcast commands (`worker/control.py`, `pidbox.py`)
and by events (`events/`, `worker/consumer/gossip.py`, `mingle.py`).

| component | state | operations | what is hard | correct if |
|---|---|---|---|---|
| requests: `worker/request.py`, `state.py`, `strategy.py` | tables of reserved, active, scheduled, revoked requests; flags of each request | receive, reserve, execute, accept, ready, failure, timeout, revoke, terminate | callbacks of the pool interleave with commands and with connection losses | every delivery is settled once, at the right time; tables match the pool |
| consumer and loop: `worker/consumer/consumer.py`, `loops.py` | connection, semaphore, callbacks put off with `call_soon` | deliver, lose the connection, restart | settlements that outlive their connection | no slot leaks, nothing settled late is lost |
| flow: `worker/autoscale.py`, `consumer.py`, `control.py` | prefetch counts, pool size, token buckets | grow, shrink, autoscale, rate_limit, reconnect | three copies of one count; buckets that outlive a command | the worker asks for as much as its pool can take, limits hold, nothing stands still |
| queues: `app/amqp.py`, `consumer.py`, `delayed_delivery.py` | selected queues, pending operations, bindings | add_consumer, cancel_consumer, bind | operations are put off and reordered; brokers that fail one by one | consumer and selection agree; delayed tasks arrive |
| boot and shutdown: `bootsteps.py`, `worker/worker.py`, `apps/worker.py` | two blueprints, signal handlers, flags | start, stop, join, warm/cold/soft/hard shutdown | handlers run on top of anything | steps in dependency order; each shutdown ends; a warm one kills nothing |
| boot steps: `bootsteps.py`, `utils/graph.py` | the graph of requirements | first pass, components, sort | hand-made graph algorithms | a step comes after what it requires |
| prefork pool: `concurrency/asynpool.py`, `prefork.py` | job cache, outbound buffer, writers, busy marks, descriptors | schedule, write, accept, result, exit, replace, flush | children exit anywhere; descriptors are reused | no job lost or run twice; message boundaries kept |
| tracer and canvas: `app/trace.py`, `canvas.py`, `app/task.py` | the message (chain, chord, callbacks), stored states | run, retry, replace, dispatch, store, report | a worker lost between two writes; redelivery | steps in order; a success was handed on; waiting clients hear of the end |
| work-flows: `canvas.py` | signatures as trees | compose, freeze, apply, stamp | rewriting of nested groups, chains and chords | a work-flow runs as it was written, its stamps reach every task |
| chords: `backends/base.py`, `redis.py`, `gcs.py`, `app/builtins.py` | a counter, an ordered set with a size, or a polling task | part return, join, apply, add a part, unlock | parts executed twice, replies lost, keys deleted meanwhile, some errors stored and others not | body once, after all parts, with all results; nobody waits for a failed one |
| stores: `backends/*.py` | one document per task, sessions, tables | store, get, forget, clean up, connect, set up | two deliveries write one document; threads and processes set up at once | a ready state is a true one and stays; one connection; the table is as wanted |
| results: `backends/asynchronous.py`, `redis.py`, `rpc.py` | one subscription, or one reply queue, shared | consume, drain, cancel, reconnect, join | who reads the socket, who is woken, who unsubscribes, whose answer it is | `get()` and `join()` return |
| application: `app/base.py`, `_state.py`, `local.py`, `app/utils.py` | registry, promises, pending configuration | declare, finalize, configure, pickle | threads declare while another finalizes; settings before and after loading | no declaration is lost; when it is read makes no difference |
| sending: `app/base.py`, `app/task.py`, `routes.py`, `autoretry.py` | options, pool of producers | apply_async, retry, autoretry | options from four places, retries of retries | the meant queue, limits on retries, no producer kept |
| signals: `utils/dispatch/signal.py` | receivers, weak references, a cache | connect, disconnect, send | collection and reuse of addresses in between | exactly those connected are called |
| nodes: `platforms.py`, `apps/multi.py` | pidfiles, processes | start, stop, restart, kill | files left by crashes, processes between two system calls | the pidfile is a lock and names its worker |
| moving: `contrib/migrate.py` | two brokers, a filter, a limit | migrate, move | stopped between publish and ack | nothing lost, limits kept |
| beat: `beat.py`, `schedules.py` | schedule, heap, shelve file | tick, reserve, send, sync, merge, restart | crash between two of them; stale heap | nothing due is slept through, the file is true |
| events: `events/dispatcher.py`, `receiver.py`, `state.py` | two buffers; tasks, heap, indexes, heartbeats | send, flush, reconnect; merge, evict, reload | reordering between senders; lost connections | published once, in order; the picture does not depend on the order |
| cluster: `mingle.py`, `gossip.py`, `heartbeat.py`, `utils/collections.py` | revoked ids, views of the party, election tables | hello, revoke, heartbeat, elect, ack | starts and stops at the same time, late answers | agreement, convergence, one decision per worker |

Components that are not modelled (section 9) are listed in `PROJECT.json` too.

## 2. The modules

| module | models | checked by | proved in |
|---|---|---|---|
| `Worker` | requests, tables, semaphore, event loop, the pool seen from above | `MCWorker` | `WorkerProofs` |
| `Flow` | prefetch count, pool size, autoscaler, their commands | `MCMachinery` | `MachineryProofs` |
| `RateLimit` | token buckets across commands and reconnects | `MCMachinery` | |
| `Queues` | selection of queues, pending operations, delayed delivery | `MCMachinery` | `MachineryProofs` |
| `AsynPool` | the prefork pool below `Worker` | `MCMachinery` | `MachineryProofs` |
| `Blueprint` | the order of boot steps, as an algorithm taken step by step | `MCMachinery` | |
| `Lifecycle` | blueprints, consumer restarts, signal handlers | itself | `MachineryProofs` |
| `Chain` | the tracer running a chain that is the last part of a chord | `MCApplication` | `ApplicationProofs` |
| `Canvas` | composing, freezing, applying and running work-flows | `MCInvariants` | |
| `Stamps` | stamping a canvas, revoking by stamps | `MCInvariants` | |
| `Chord` | abstract: what a chord promises | `MCChords` | `ChordProofs` |
| `ChordCounter` | chords of the key/value backends and of Firestore | `MCChords` | `ChordProofs` |
| `ChordRedis` | chords of the redis backend | `MCChords` | `ChordProofs` |
| `ChordUnlock` | chords of the backends that cannot count | `MCChords` | `ChordProofs` |
| `Stores` | the document of a task in every polled backend | `MCInvariants` | |
| `Connections` | first use of a Cassandra or database backend by threads | `MCApplication` | `ApplicationProofs` |
| `DynamoTable` | processes that set up one DynamoDB table | `MCApplication` | `ApplicationProofs` |
| `ResultConsumer` | threads waiting on one redis subscription | `MCApplication`, itself | `ResultConsumerProofs`, `ApplicationProofs` |
| `Rpc` | a client of the rpc backend, `BufferMap`, joining a group | `MCApplication` | |
| `App` | declaring tasks while applications are finalized | `MCApplication` | `AppProofs`, `ApplicationProofs` |
| `Settings` | configuration before and after it is loaded | `MCInvariants` | |
| `Sending` | calls, routes, retries, the producer pool | `MCInvariants` | |
| `Signals` | one signal with weak receivers | `MCInvariants` | |
| `Multi` | `celery multi` and the pidfiles of its nodes | `MCMachinery` | `MachineryProofs` |
| `Migrate` | moving messages between brokers and queues | `MCApplication`, itself | `ApplicationProofs` |
| `Beat`, `Crontab` | the scheduler; crontab schedules as an algorithm with a reference | `MCPeriodic` | |
| `Dispatcher`, `EventState` | the two ends of the events | `MCInvariants` | |
| `LimitedSet` | the set of revoked ids | `MCCluster` | `ClusterProofs` |
| `Mingle` | agreement on revoked ids | `MCCluster` | itself, `ClusterProofs` |
| `Gossip` | membership and election | `MCCluster` | |

**Worker.** A request is a pair of a task id and the number of its delivery.
The broker is `queue` (copies to deliver) and `held` (deliveries without an
ack). Each callback of the consumer or the pool is one action: `Deliver`
(strategy and `on_task_received`), `ApplyEtaTask`, `ProcessTask` (the
semaphore's waiter gets a slot, `execute_using_pool`), `WriteJob`, `OnAccepted`,
`OnReady` (all outcomes, `on_success`, `on_failure`), `OnProcessDown`,
`OnHardTimeout`, `CallSoon`, `Revoke`, `ConnectionLost`, `Restart` (the tables
and the semaphore are reset, the pool flushed), `ColdShutdown`, `Exit`.
`ChildStart`, `ChildEnd`, `ChildDies` are the child. The options of a task
(`acks_late`, `acks_on_failure`, `reject_on_worker_lost`, time limit, ETA,
expiry) are chosen in `Init`. Each stage of a request has its place (`scheduled`,
`waiting`, a buffer or pipe of a child, running), so that a `Revoke` may find it
anywhere.

**AsynPool.** One file descriptor per child; a message is a chunk that may be
half written. `ScheduleWrites`, `WriteMore`, `HandleResult`, `MaintainPool`,
`FlushBegin`/`FlushEnd` are the parent's event handlers, `Child` and `ChildExit`
the child. A child that exits while it reads may leave its queue `damaged`: nothing
that comes behind a half read message can be read (`asynpool.py:1321`). What it had
half written of its own messages is read and dropped when its queues are flushed.
`Worker` sees a pool that accepts, ends or loses jobs; `AsynPool`
shows that the prefork pool is one (`JobsAccounted`, and for the end of the jobs
`Progress`).

**Flow.** The prefetch count exists three times (`initial`, `value`, what the
broker was told in `prev`); the commands, the autoscaler, tasks with an ETA and a
lost connection each change some of them, with QoS per consumer or per channel. A
pool may be shrunk to no process, where `_update_prefetch_count` does nothing.
**RateLimit** keeps every bucket ever
made, because the timer and the ETA entries of a replaced one hold on to it.
**Queues** separates the command, which only puts an operation down, from
`Perform`, which the loop does later; a name may be an alias, which `Found` resolves
as `add_task_queue` does; with `Native` each start binds the queues at
every broker, with retries and partial failures.

**Blueprint.** `_firstpass`, Tarjan's components and Khan's sort are stepped
through from every acyclic requirement relation; a reader compares the loops with
`bootsteps.py` and `utils/graph.py` line by line.

**Lifecycle.** The main thread walks `pc` through `Blueprint.start`, the
consumer's loop, restarts and `Blueprint.stop`; a signal puts a `frame` on top
of it. Handlers replace one another as in `apps/worker.py`. The configuration
(`broker_connection_retry`, a soft shutdown, a remapped SIGTERM) is chosen in `Init`.
`Silence` is a broker that answers nothing any more without closing its connection:
a step that `Reads` from it waits for ever (`stuck`) unless the socket was `bounded`,
which `terminate()` and `on_cold_shutdown` do.

**Chain.** Messages are entries of `runs` with a program counter; each stretch
of `trace_task` between two writes that another process can see is one step, so
that `Crash` may come between any two of them; a retry is published (`Retry`) before
RETRY is stored (`MarkRetry`). `Replace` is `Task.replace`, which
hands the rest of the chain to another task; `Errbacks` calls the errbacks of a
failure after the failure is stored.

**Canvas.** A signature is a tree whose options (ids, chord, what follows) are
fields. Composition with `|`, `freeze`, `from_dict` and `apply_async` are functions
of trees; `Execute` runs one task and applies what follows. A task returns the
term of its name and arguments, so a value says where it came from, and the
reference is a plain evaluation of the expression as written. **Stamps** keeps the
tree and puts headers on it the way the visitors do: dictionaries are copied on the
way down and the lists in them are not, so the lists are in a store and what one
member adds to one, its siblings see. `Apply` fails for a task that lists a header it
has no value for; `RevokeByStampedHeaders` and `Execute` compare the stamps.

**Chords.** `ChordCounter` (with `Firestore` for `GCSBackend`) and `ChordRedis`
follow `on_chord_part_return` of the backends at the granularity of one command to
the server; `ChordUnlock` is the task `celery.chord_unlock` with the chord errors of
a body that is a group. `Chord` has members that finish and a body that becomes
`called` or `failed`; it is what all of them are compared with.

**Stores** describes each backend by what its `store_result` does (read first or
not, how it writes, what it keeps, what it may retry, what expires) and lets two
deliveries and a client loose on one document. **Connections** and **DynamoTable**
are the first use of a backend by threads and by processes: the cluster, the
connection, the statements and the table are made one after the other and any of the
calls may time out or raise something else; the session manager has a step for each
access to one of its two dictionaries.

**ResultConsumer.** Each thread runs `get()` down to `subscribe`, `mget`,
`drain`; the lock `_pubsub_lock`, the condition variable and the pending
unsubscriptions are explicit, and so are the server's channels and the messages
in the socket. **Rpc** is the other way to wait: one reply queue, read by a
consumer and, when a state is asked for, emptied by hand.

**App** has one program counter per thread for `_task_from_fun`, `finalize` and
`Proxy.__maybe_evaluate__`; the look at `finalized` and the append to the pending
declarations are two steps. **Settings** drives two copies of an application with
the same calls, one of them read after every call. **Sending** follows the options
of a call through `Task.apply_async`, the router and the producer pool, and through
retries. **Signals** separates looking, dereferencing and calling, with the lock and
the flag of `_clear_dead_receivers`. **Multi** makes each system call on a pidfile a
step. **Migrate** runs the callbacks of `Filterer` in the order they were registered,
for `migrate_tasks` and `move` with every combination of a limit, task names and
`ack_messages`.

**Beat** moves `tick()` through reserve, send and sync as separate steps, with a
clock; a stop writes the file, a crash does not. **Crontab** keeps the
arithmetic of `schedules.py` on a calendar whose hours, days and months are
short.

**Dispatcher** follows `flush()` statement by statement (copy, clear, lock,
publish, unlock) because pool threads run between them. **EventState** applies
one event at a time, in any interleaving of the senders' sequences; the monitor is
new, so the first `task-sent` has the clock 0, for which the order falls back to
timestamps.

**LimitedSet** makes each iteration of the `while` loops of `purge()` and
`pop()` a step. **Mingle** and **Gossip** give every worker a queue of broadcast
messages and one action per handler. A worker of the party may be taken for dead
because its heartbeats are late, and a consumer that starts again in its process
still knows what it knew.

## 3. The runs

Every MC module combines small instances: a variable (`scenario`, `retry`,
`dedup`) chosen initially says which instance the behaviour belongs to, and no
step changes it. A property named below is the conjunction of the modules'
properties it names. Where a module is played with several sets of constants, its
instance has a parameter (`Pool(s)`, `Flowing(s)`, `Selecting(s)`) and the constants
of the scenario `s` are a record of a constant of the MC module (`Pools`, `Flows`,
`Selections`), so that a theorem about the run is one about every such record.

| run | module | distinct states | what it checks |
|---|---|---|---|
| `worker` | `MCWorker` | 1.9 M | `TablesAgree`, `NoOrphan`, `LateAckNotLost`, `NoSlotLeak`, `RevokedStops` |
| `worker_live` | `MCWorker` | 140 k | `AllSettled` |
| `application` | `MCApplication` | 630 k | `StepAfterReturn`, `Covered`, `ClientRight`, `ConnectionsRight`, `Registration`, `MigrateRight`, `Settles` |
| `chords` | `MCChords` | 200 k | `BodyAfterAll`, `BodyOnce`, `ImplementsChord` |
| `invariants` | `MCInvariants` | 1.7 M | `EventsKept`, `MonitorRight`, `RunsAsWritten`, `StampsRight`, `ConfigurationStable`, `SignalsRight`, `SentAsMeant`, `StoresRight` |
| `lifecycle` | `Lifecycle` | 560 k | `StepsInOrder`, `ShutdownEnds` |
| `machinery` | `MCMachinery` | 290 k | `JobsAccounted`, `FlowRight`, `QueuesRight`, `Supervised`, `BlueprintRight`, `LimitsRight`, `Progress` |
| `periodic` | `MCPeriodic` | 1.7 M | `CronExact`, `BeatRight` |
| `cluster` | `MCCluster` | 550 k | `HeapCoversData`, `RevokedAgreed`, `PurgeLeavesNoExpired`, `NothingHangs`, `GossipRight` |
| `worker_time_limit` | `MCWorker` | | `TimeLimitArmed`: violated, section 7 |
| `results_reconnect` | `ResultConsumer` | | `GetReturns`: violated, section 7 |
| `migrate_filtered` | `Migrate` | | `NothingLost`: violated, section 7 |

What they show:

- **worker.** Through any interleaving of pool callbacks, commands, connection
  losses, lost children and a cold shutdown a delivery the broker waits for is in
  somebody's hands; it is not settled before its time; a task acknowledged late is
  not acknowledged unless it ended or was refused; slots are neither lost
  nor made; a revoked request is stopped wherever the revoke found it: it is taken
  out of the tables, is not on its way to a child, and a child that runs it was
  signalled, at once or as soon as it accepted the job.
- **worker_live.** Under the fairness of section 5 every delivery is settled, and
  a terminate that arrives before the pool has accepted the job kills it.
- **application.** A chain keeps its order through retries, replacements,
  redeliveries and lost workers, hands its successes on, settles (a late RETRY
  excepted, section 7), reports to its chord and calls its errbacks. The shared redis subscription covers every waiter,
  cancellations are not forgotten by the holder of the lock, no wake-up is lost; the
  one reply queue of the rpc backend loses nobody's answer. Threads that need a
  connection at once open one, and none but a failed `connect()` is left behind. A table that a process has set up without an error is
  as its url says. A task declared in one thread while another finalizes the
  application ends in the registry, if it is shared. Moving messages loses none of
  those to be moved and ends.
- **chords.** The counter, its Firestore variant, the sorted set and the polling task
  implement `Chord` as long as nothing is delivered twice; with lost workers the body
  is still called at most once, after all parts have succeeded; when the header
  fails, no task of a body that is a group is left pending.
- **invariants.** What the dispatcher accepted is published once and in order; a
  monitor's picture does not depend on the order of arrival. Every work-flow of up to
  five tasks gives the value it means, three kinds of nesting excepted (section 7).
  Stamps reach the tasks they were meant for, and no others but their siblings. The
  configuration does not depend on
  when it is first read. A signal calls those connected. Calls and retries reach
  their queues. No store overwrites a ready state where the backend promises it.
- **lifecycle.** Steps start and stop in dependency order; a warm shutdown kills
  nothing; each kind of shutdown ends, unless it waits for a broker that fell silent
  on a socket without a timeout, and `terminate()` never does that.
- **machinery.** The prefork pool loses no job and starts none twice, with fair
  scheduling (two children die, or the connection is lost and a job revoked) and
  without. The prefetch count follows the pool and comes back after a
  reconnect, as long as the pool has a process; rate limited requests go out in order and once; the consumer and the
  selection of queues agree, apart from an alias added twice; the pidfile is a lock; the boot order is right; and each
  of these makes progress.
- **periodic.** Nothing due is slept through, what the file says was sent, and every
  crontab gives the next matching minute.
- **cluster.** The revoked ids keep their limits and are agreed on; the views of the
  party converge to the workers that run; in an election of three workers each comes
  to a decision and acts at most once (who acts is another matter, section 7).

The comment above each property names the behaviour of the code it is about.

Deadlock checking is off in all runs: the instances stop when their messages,
faults and clocks are used up, and a worker with nothing to do may idle. What
must not stop is stated as liveness instead.

## 4. Bounds

All bounds are constants and are named in the modules. They were chosen so
that each mechanism meets its limit and its neighbour: two tasks for one slot
(a waiter exists), three deliveries of one id (a redelivery of a
redelivery), two connection losses (a settlement may outlive two connections);
two children and three jobs (one job waits while both are busy, and one is
written ahead); two threads (a reader and a waiter), each calling `get()` twice; a
chain of two steps with two troubles in any place; a header of two parts and one
added; two entries with different intervals over six ticks; a calendar of two
months of three and two days, a leap day, and a week of three days (every
combination of day of week and of month occurs); three workers for agreement,
membership and an election, so that a view may differ from both others and what one
has counted need not be what the others have (workers are told apart by their clocks
and hosts only, so one assignment of clocks stands for all); three items for a
set of two. Of the newer modules: three processes and tasks for `Flow`, so that a
pool is full, half full and empty, two commands that can shrink it to nothing and grow
it again, and a lost connection between them; three messages of which one has an ETA for two
buckets in a row (`RateLimit`); three commands on a configured queue, another one and an alias
(`Queues`), and two configured queues at two brokers of which one fails (its retries are exhausted once);
two nodes, four process ids, two commands and one crash (`Multi`: an id left in a
file is read by a second process); every graph of three steps (`Blueprint`; the
components that collapse need two); all expressions of up to five tasks built from
tasks, chains, groups and chords (`Canvas`: every pair of constructs is nested);
trees of three to five nodes with and without siblings, links and bodies, stamped
twice (`Stamps`); three calls in every order
(`Settings`); two threads with a third receiver at a reused address (`Signals`); two
threads and one producer (`Sending`: one waits for it); two deliveries, a client, a
clean-up and one broken operation (`Stores`); two threads or processes wherever a
check and an act are apart (`Connections`, `DynamoTable`, `App`); three messages,
limits of none, one and two, and every combination of the other options (`Migrate`). `MCPeriodic` compares every range and step of fields of up to
six numbers. A bound that is reached disables the step that would exceed it and
nothing else.

## 5. Fairness

- *Worker*: the event loop calls every callback that is due and reconnects; a
  free child reads its pipe; a signal ends its child. That tasks end
  (`TasksEnd`) is a hypothesis of `DeliveriesSettle`, not part of the
  specification: a task may well run for ever.
- *AsynPool*: the loop's handlers run, a child goes on with its job. A child at a
  damaged queue goes on with nothing, and `Progress` excepts it by name.
- *Lifecycle*: the main thread and the handler on top of it go on, unless they wait
  for a broker that fell silent: a step that reads from it on an open socket returns
  only if the socket has a timeout. A connecting step may take for ever. Of tasks
  something is assumed only for the warm shutdown.
- *Chain, Chords*: a worker takes a message that is there and sees it through,
  unless it is lost.
- *ResultConsumer*: threads go on and tasks finish. The scenario `patient` runs
  without time-outs, so that no poll that times out can hide a lost wake-up.
- *Flow, RateLimit, Queues*: the loop runs, timers fire, tasks that are not long end.
  *Multi*: the operator's command and the processes go on. *Blueprint*, *Migrate*:
  one call that goes on. *Rpc, Connections, DynamoTable, App*: threads and processes
  go on, the broker pushes, tasks finish, the DynamoDB server completes what it has
  begun.
- *LimitedSet*: an operation that began goes on (it is one call). *Mingle*: a
  running worker's steps; nobody need start one. *Gossip*: queues are handled and
  timers fire; no heartbeat need be late, but a worker that does not run is found out.

All of it is weak fairness. Where one run has several scenarios, the steps of all of
them that have the same index share a weak fairness formula: a scenario never
changes, so this says the same as one formula for each. `Progress` is `[]<>Ended`
because commands, jobs and faults are bounded: once they are used up everything must
have come to its end.

## 6. Proofs

TLAPS proves, for every value of the constants that satisfies the named
assumptions:

| theorem | says | inductive invariant |
|---|---|---|
| `WorkerProofs!Safety` | `NoOrphan` | types, `TablesMatchPool`, `SettledAfterEnd`, and `Fresh` (a request with any trace was delivered), `Places` (where a request is decides what its child does), `Marks` (its attributes agree), `Settlement` (a settled delivery that the broker still holds has its settlement in `call_soon`, with the same meaning) |
| `WorkerProofs!TablesAlwaysAgree` | `TablesAgree` | the same |
| `WorkerProofs!LateTasksNotLost` | `LateAckNotLost` | the same, and: no step takes back a conclusion (`ConcludedIsStable`) or drops a message (`BrokerKeepsMessages`) |
| `WorkerProofs!NoSlotIsLost` | `NoSlotLeak` | the same, and: the four ways a step may change the cache and the slots (`CacheSteps`) |
| `WorkerProofs!RevokedIsStopped` | `RevokedStops` | the same, and `Stopped`: a request announced as revoked whose job the pool still has was accepted, so that there was a process to signal |
| `MachineryProofs!BootAndShutdown` | `StepsInOrder`: types, `RequiredStepsUp`, `WarmKillsNothing`, and the action property `NeverStartedTwice` | `FirstSteps` (the consumer's steps that run are the first ones, none where the blueprint is about to be started, at most `at` while they are stopped), `Asked` (whatever kills was asked to), `Joined` (no task runs before the pool is started and after it was joined); what the broker's silence changes is only where the main thread can go (`SocketStep`) |
| `MachineryProofs!JobsKept` | `JobsAccounted`: types, `JobAccounted`, `StartedOnce`, `NoPhantomBusy`, `UpIsNews`, `BoundariesKept`, `OneJobPerChild` | `PoolInv`: a job has traces (in a pipe, a writer, a child, a message) only at the descriptor it was last written to; a job that waits has none and was not started; a chunk that was not read was not started; only the last chunk of a pipe is in part, and it is the writer's; the parent has heard, or will hear, of every start; without a flush a damaged queue belongs to a dead child and an unfinished job leads to it; under fair scheduling a child is idle, or busy with one job in one of four places |
| `MachineryProofs!PrefetchRight` | `FlowRight` | `FlowInv`: no more busy processes than processes, so that shrinking spares them; without an ETA, a half failed shrink and an empty pool (`skew`) the count is at most the maximum of the pool, and equal to it once restored |
| `MachineryProofs!QueuesConsumed` | `QueuesRight` | `QueuesInv`: every pending operation that touches a queue does what was last asked for it, at most one is pending for a queue whose commands were not on their way together, what is selected and not consumed from is behind an alias that was added twice, and the brokers that were set up have all configured queues |
| `MachineryProofs!NodesSupervised` | `Supervised` | `SupervisedInv`: unless two processes of a node were at its file together, one is about the file at most, the file names a process that works, and while another owns it none works; the nodes a restart has still to go through were not started by it |
| `AppProofs!NoneLost` | `Registration` of `App` | `Done`: a declaration is registered in an application, or the thread that finalizes it will bring it; no step takes that back (`DoneStep`); a thread between its look at `finalized` and its append has its function connected already (`PromisedInv`) |
| `ApplicationProofs!DeclarationsKept` | `Registration` of the run | the same, for one application and for several |
| `ApplicationProofs!ChainSafety` | `StepAfterReturn`: types, steps in order, `SuccessIsPassedOn` | plus, for each place of `trace_task`, what a run has behind it: from "dispatch" its task has returned, from "store" the next step is published; a run that is to store RETRY has published its successor and needs nothing more; `Replace` and `Errbacks` keep it because they start from a run whose predecessor has returned |
| `ApplicationProofs!BackendsConnected` | `ConnectionsRight` | `ConnectingInv`: `CassandraInv` (who makes or prepares a session holds the lock; no cluster is open but the cached one and those an error of `connect()` left) or `DatabaseInv` (threads that did not collide have the engine the manager knows, and the session maker is there when it is read); and `SetupInv` (a process that found the table as it wants it, or asked for it, leaves a status or a request behind that only another mind, a loss or an error can undo) |
| `ApplicationProofs!MessagesMoved` | `MigrateRight` | `MovingInv`: a message that is to be moved is acknowledged after it was republished, what is not acknowledged is at the source or held, and the count is that of the messages moved |
| `ResultConsumerProofs!WaitersCovered` | `CancelNotForgotten`, and `WaiterIsCovered` if each task has one `AsyncResult` and the connection is not lost | `LockInv` (the lock has the holder its place says); `Stage` (what a `get()` may rely on at each of its places) |
| `ApplicationProofs!ResultsCovered` | `Covered` | the same, for the three ways of waiting the run plays |
| `ChordProofs!CounterBodyAfterAll` | `BodyAfterAll` | a run past its join has seen every part succeed; on Firestore the join is of the stored results as well |
| `ChordProofs!CounterBodyOnce` | `BodyAtMostOnce`, without duplicates | one run of a part at a time, and the chord is open, closing (one run has reached the size) or closed |
| `ChordProofs!ChordBodyOnce` | `BodyOnce` of all kinds of backend | counter: the same; redis: the set has one result for each run that has added one, each part has one run, the size is known before the last part of the header returns, and the body belongs to the run that made the set complete; unlock: the body belongs to the one message of the unlocking task, which has seen every part succeed |
| `ChordProofs!UnlockFailureKept` | the action property that a failure stored for a task of the body stays | the revocation is broadcast after the failures were stored |
| `ChordProofs!CounterImplementsChord` | `Spec => Abstract!Spec`: the refinement of `Chord`, if every part is executed once and no reply is lost | the counter is the number of runs that have counted, and the one that reached the size alone calls, or fails, the body |
| `ChordProofs!ChordsImplementChord` | the same for counter, Firestore, redis and unlock (the safety half of `ImplementsChord`) | those above: each step of a backend is a step of `Chord` or none |
| `Mingle!WorkersAgree` | types, `Remembered`, and in a calm environment `Agreement` | `Common` (workers that are up agree on what they know or will know once they have handled their mailbox), `HelloInv` (each of them has answered a starting worker, or has its question last), `TasksInv` (nothing is on its way when it begins to consume) |
| `ClusterProofs!ClusterAgrees` | `RevokedAgreed` | the same, in a calm environment and in one that is not |
| `ClusterProofs!Safety` | types, `HeapCoversData`, `MaxLenEnforced` | plus `BoundedAfterLoop`: only the first loop of `purge()` may see more than `maxlen` items |
| `ClusterProofs!PurgeIsComplete` | `PurgeLeavesNoExpired` | the same: the oldest entry of the heap bounds every item *because* the heap covers the data |
| `ClusterProofs!ExpiryKeepsMinLen` | `MinLenKept` | plus: the expiry loop pops only from a set larger than `minlen` |

The assumptions are those on the constants: `WorkerAssumption` and the like where a
module is extended by a run, `PoolsRight`, `FlowsRight`, `SelectionsRight` and
`NodesRight` for the records of an MC module, and hypotheses of the theorem
(`AppConstants`, `ResultConsumerConstants`) where a module is only instantiated; TLC
evaluates them for the instances of the runs. They are bounds that are numbers and
sets that do not overlap. The conditions that a result depends on in the code (no
duplicates, a calm environment, one `AsyncResult` for each task) are part of what is
stated, and section 7 has what happens without them.

A theorem about a run (`ScenarioSpec => []P`) is for all scenarios together: the parts
that do not take part stand still, so each part's invariant is carried by its own
scenario and by the steps that leave its variables alone.

Each proof is the usual induction with one step or lemma per action. The properties
are not inductive by themselves:

- `NoOrphan`: a request may leave the cache because it has been settled, which says
  nothing of the delivery unless an acknowledged delivery has its settlement written
  or queued. `SuccessIsPassedOn` needs to know of the runs that are between the
  publish and the store.
- `WarmKillsNothing`: the process takes the pool's processes with it when it ends, so
  one has to know that none works then: the way down passed the pool's step, which
  waits for them, or the worker never came as far as its event loop.
- `JobsAccounted`: what happens to a job when its child is replaced depends on where
  its traces are (told, accepted, unread, being written). The parent decides by
  `_write_to` and `_accepted` alone, which is right because a job has no trace at
  any other child. That a job put back is not started twice needs that an unread
  chunk was not started; that a revoked job which still waits in the buffer is not
  written afterwards needs the acknowledgement `_put_back` makes before it ends the
  job (`concurrency/asynpool.py:750`).
- `QueuesRight` speaks of queues with no operation pending; the invariant says of the
  pending ones that the order in which they are performed makes no difference.
- `Supervised`: a pidfile is a lock by four system calls; the invariant gives for each
  place between two of them what the file may say and who else can be there.
- `Registration` speaks of the threads at rest. In between, a declaration may be in
  `_on_app_finalizers` only, in the pending queue of an application, or in the list a
  finalizing thread goes through; `Done` follows it across the three, and the proof
  shows for each step of each thread that the declaration moves and does not vanish.
- `WaiterIsCovered`: a thread is covered because its registration came before its
  subscription, and the subscription before it looked whether the result is stored;
  for each interval between two of these the invariant says which of the other
  threads' steps may intervene (`Safe`).
- `BodyOnce`: that two parts may find a chord complete is excluded by counting (one
  entry for each run that has returned), which needs the cardinality of the sets in
  the store as functions of the places of the runs.
- `Agreement` speaks of the quiet states only; `Common` holds in all of them.

The inductive invariants were checked by TLC on the instances of the runs, or on
smaller ones, before they were proved.

Out of the prover's reach, and checked by TLC only:

- everything about liveness and `ENABLED`: `AllSettled`, `Settles`, `ShutdownEnds`,
  `Progress`, `NothingHangs`, and the second half of `ImplementsChord`;
  also the convergence parts of `GossipRight`;
- what a recursive or folding definition computes for every input, which is induction
  over data: `CronExact` (the expansion of crontab fields), `BlueprintRight` (Tarjan's
  components and the sort), `RunsAsWritten` (the evaluation of work-flows), and
  `ClientRight`, whose reply queue and buffer are filtered and counted entry by entry
  (`SelectSeq`, `FoldSeq`);
- the properties of `MCInvariants`: the module reaches the recursive operators of
  `Canvas`, and a module that does cannot be proved about.

`LimitsRight`, `BeatRight` and `GossipRight` are temporal conjunctions of which the
safety parts could be proved and are not so far.

## 7. Where the code differs from what it says

Three statements are refuted by a run:

- `worker_time_limit`: `hub.timer.clear()` after a connection loss
  (`worker/loops.py:132`) drops the hard time limits of running jobs, although
  "All hub timers are re-registered during blueprint.start()" (line 117).
- `results_reconnect`: `_reconnect_pubsub()` (`backends/redis.py:156`) reads the
  stored results first and subscribes afterwards; a result stored in between
  is never seen and `get()` waits for ever.
- `migrate_filtered`: `Filterer.prepare_consumer` wraps the acknowledgement in the
  filter and then registers the unwrapped one (`contrib/migrate.py:312`): messages of
  tasks nobody asked to move are acknowledged and gone.

The modules also keep the statements below. They are written down because a
comment, a docstring or the user guide makes them; TLC finds a counterexample of
each on small instances, so no run claims them.

| definition | what happens | said in |
|---|---|---|
| `LimitedSet!ExpiryRemovesOnlyExpired` | an entry left behind by an earlier `add()` lets `purge()` remove an item that was added again (`utils/collections.py:641`) | `utils/collections.py:563` |
| `Worker!StartedNotExecutedAgain` | an early ack that waits in `call_soon` is lost with the connection while the task already runs | `docs/userguide/tasks.rst:25` |
| `Worker!ReservedFoundById` | a redelivery of a running task takes its place in `state.requests` (`worker/state.py:225`) | `worker/state.py:78` |
| `Worker!RequeuedNotFailed` | the hard time limit marks a requeued task as failed (`worker/request.py:548`) | `worker/request.py:735` |
| `ChordCounter!SuccessKept` | the stored state is read and written in two commands; FAILURE replaces SUCCESS (`backends/base.py:1273`) | `backends/base.py:1267` |
| `ChordRedis!BodyAfterAll` (`Steady` false) | a part that runs again with another value counts twice (`backends/redis.py:784`) | `docs/userguide/canvas.rst:960` |
| `ChordRedis!EveryCallGetsAll` | two runs find the chord complete, the second calls the body with nothing (`backends/redis.py:831`) | `docs/userguide/canvas.rst:962` |
| `Chain!ChordPartReported`, without its exception for `Dedup` | a worker lost between SUCCESS and the report: the redelivery is skipped and the chord waits (`app/trace.py:541`) | `app/trace.py:432` |
| `ResultConsumer!GetReturns`, two results of one task | they share a registration that one of them removes (`backends/asynchronous.py:290`) | `result.py:196` |
| `Lifecycle!StepsStoppedAtExit` | a blueprint that is not fully started is not stopped (`bootsteps.py:160`) | `docs/userguide/extending.rst:634` |
| `Lifecycle!ColdShutdownEscapes` | a main thread that already reads from a silent broker, on a socket without a timeout, is not bounded by the cold shutdown | `worker/worker.py:275` |
| `Lifecycle!ThirdSignalForces` | a remapped SIGTERM never reaches the hard handler (`apps/worker.py:387`) | `apps/worker.py:385`, `429` |
| `Beat!PersistedWasSent` with stops | a stop between reserve and send stores a run that was not sent (`beat.py:358`) | `docs/userguide/periodic-tasks.rst:490` |
| `Beat!DefaultInstalled`, `Beat!LastRunKept` | `merge_inplace` pops `celery.backend_cleanup`, or forgets its last run (`beat.py:443`, `575`) | `docs/userguide/configuration.rst:1029` |
| `AsynPool!MidTaskAvoided`, `BoundariesKept` with flushes, `EveryJobEnds` | `flush()` forgets jobs a child is executing or has half read (`concurrency/asynpool.py:1114`, `1010`); what is written to such a queue afterwards is never read (`1321`) | `concurrency/asynpool.py:1085`, `1321` |
| `EventState!OutcomeShown` | a late `task-retried` hides a success (`events/state.py:321`) | `events/state.py:8`, `264` |
| `EventState!OrderedByTime` after a reload, or with a clock of 0 | `rebuild_taskheap` sorts the wrong list (`events/state.py:644`); the first `task-sent` of a new monitor gets the clock 0 (`events/receiver.py:122`), with which the comparison goes by time and is no order | `events/state.py:657` |
| `EventState!IndexedByType` | only the creating event fills the index (`events/state.py:616`) | `events/state.py:679` |
| `EventState!KeptFromReceived` | a late `task-sent` overwrites what task-received said (`events/state.py:324`) | `events/state.py:269` |
| `EventState!SilentIsOffline`, a fast clock | the beat of a task event is the worker's own time (`events/state.py:594`) | `docs/userguide/monitoring.rst:813` |
| `Dispatcher!NothingLost` | the group buffer of a replaced dispatcher is dropped; a thread may still add to the old one (`events/dispatcher.py:223`, `worker/consumer/events.py:53`) | `events/dispatcher.py:40` |
| `Dispatcher!DisableStops` | no groups mean all groups, so there is nothing to discard (`worker/control.py:377`) | `worker/control.py:373` |
| `Mingle!Agreement`, `Overlap`, `SlowReplies` or `RevokeInBoot` | nobody answers a worker that starts at the same time, late, or between hello and mailbox (`mingle.py:37`, `52`, `consumer/control.py:22`) | `docs/userguide/workers.rst:652` |
| `Gossip!OneLeader`, `SomebodyActs` with three workers | acknowledgements of any candidate count (`gossip.py:119`), so workers decide on different candidates: two may act, or everybody decides for another and nobody acts | `worker/control.py:352` |
| `Canvas!RunsAsWritten` without `Exception` | nested groups are reversed by `_freeze_unroll` (`canvas.py:2013`) | `docs/getting-started/backends-and-brokers/redis.rst:395` |
| `Canvas!NoChordGivenUp` | a group inside a header sets the size of the chord again (`canvas.py:1882`): the header is joined too early | `docs/userguide/canvas.rst:905` |
| `Canvas!Exception`, third case | `chain(chord(h, group(b, c)), chord(d, e))` runs the second chord once for each member of the group | `canvas.py:1438` |
| `Stamps!CarriesNothingElse`, `AllSendable` | siblings share the lists of their common headers, which a shallow copy keeps (`canvas.py:611`) and `_merge_dictionaries` extends in place (`canvas.py:121`): a task carries stamps of its sibling, or lists one it has no value for, and its publish raises `KeyError` (`app/amqp.py:371`) | `canvas.py:582` |
| `Stamps!RevokedNotRun` | the loop leaves after the first header a task shares with the revoked ones (`worker/request.py:504`) | `docs/userguide/workers.rst:692` |
| `Settings!SourceResets` | what was assigned before `config_from_object` survives it | `docs/userguide/application.rst:166` |
| `Sending!RetriedOnSameQueue`, quorum queues and topic exchanges | the retry is routed by the key the delayed message arrived with (`app/base.py:1037`) | `docs/userguide/tasks.rst:598` |
| `Sending!OverrideStays` | `max_retries` of one retry is forgotten by the next (`app/task.py:832`); that of an automatic retry stays on the task, as `retry()` raises before it is deleted (`app/autoretry.py:57`, `62`) | `app/task.py:804` |
| `Connections!PreparedForAction` | `self._session` is set before the statements are prepared (`backends/cassandra.py:176`); another thread uses it without the lock | `docs/userguide/configuration.rst:913` |
| `Connections!NothingLeft` | only `OperationTimedOut` is cleaned up after: with any other error of `connect()` the cluster stays open, and the next call makes another (`backends/cassandra.py:176`, `210`) | `backends/cassandra.py:212` |
| `Connections!NoKeyError`, `EnginesDisposed` | two threads create an engine each and one of them is never disposed (`backends/database/session.py:55`); `invalidate()` between the check of `_sessions` and the read raises `KeyError` (`session.py:71`, `73`) | `backends/database/session.py:77` |
| `App!OwnTasksKept` | a task of one application declared between the check of `finalized` and the append to `_pending` is never made by the finalization (`app/base.py:612`, `618`) | `app/base.py:585` |
| `Chain!RetryIsFirst` | the retried message is published before RETRY is stored (`app/task.py:873`, `app/trace.py:600`): the RETRY may replace the FAILURE of the next run, as only SUCCESS is kept (`backends/base.py:1273`) | `docs/userguide/tasks.rst:1319` |
| `DynamoTable!ReadyMeansSet` | the client is kept when its setup raises (`backends/dynamodb.py:222`), so the setup is not tried again | `docs/userguide/configuration.rst:2384` |
| `Queues!LastCommandCounts` | pending operations are popped from the end, or taken from a set (`worker/consumer/consumer.py:293`) | `docs/userguide/workers.rst:1010` |
| `Queues!ConsumesAllSelected` | the second `add_consumer` of an alias selects the queue behind it (`app/amqp.py:86`), which the consumer is told of only after a reconnect (`worker/consumer/consumer.py:662`) | `docs/userguide/workers.rst:956` |
| `Queues!AddedIsBound` | a queue added by a command is not bound for delays until the next start | `docs/getting-started/backends-and-brokers/rabbitmq.rst:253` |
| `Multi!OneRunning` | a worker releases its pidfile twice (`worker/worker.py:164`, `platforms.py:271`) and removes its successor's | `platforms.py:256` |
| `Flow!ScalesUp` | after a reconnect the prefetch count is that of the present pool, so the autoscaler sees no load (`worker/consumer/consumer.py:478`, `835`) | `docs/userguide/workers.rst:905` |
| `Flow!RestoredIsMax` | an ETA task delivered on this connection, or a shrink that failed half way, leaves another count than the maximum (`worker/consumer/consumer.py:820`); so does a pool shrunk to nothing, whose count is not updated (`consumer.py:318`) | `docs/userguide/configuration.rst:3630`, `worker/consumer/consumer.py:313` |
| `Flow!NeverUnlimited` | a reconnect with an empty pool and per-consumer QoS asks for a count of 0, which is no limit | `docs/userguide/configuration.rst:3630` |
| `RateLimit!OldGone` | only the present buckets are cleared, a replaced one still empties itself (`worker/consumer/consumer.py:537`) | `worker/consumer/consumer.py:531` |
| `Blueprint!NoStepDropped` | `topsort` keeps one vertex of each strongly connected component (`utils/graph.py:83`) | `utils/graph.py:64` |

Smaller things met on the way, which no definition states:

- *Worker*: after an ETA that cannot be converted a message is rejected, but its
  request goes on to be reserved and executed (`worker/strategy.py:186`).
- *Chords*: a worker lost between the completing increment and `callback.delay()`
  leaves nobody to call the body (`backends/base.py:1390`). `chord_unlock` with early
  acks is lost with its worker; with late acks a redelivery may apply the body twice;
  a header that could not be published leaves it polling for ever; a store that
  raises, and a redelivery, let the revoke handler replace FAILURE by REVOKED.
- *Stores*: `reload_task_result` caches a state that is not ready
  (`backends/base.py:876`).
- *Settings*: a setting assigned by two of its names reads differently from a pickle;
  the pickled application forgets what was set automatically.
- *Signals*: two bound methods of one function count as one receiver
  (`utils/dispatch/signal.py:27`).
- *Stamps*: `chord.stamp` without a visitor leaves the body (`canvas.py:2225`);
  `chain.stamp` drops `append_stamps` for its links (`canvas.py:1144`);
  `_merge_dictionaries` without aggregation keeps the first value, its docstring says
  the second; a terminate by stamps misses requests that are not accepted yet.
- *Queues*: `add_consumer` with an alias creates a queue of that name.
- *Multi*: an impatient `stopwait` can wait for a worker started meanwhile; two
  processes may both find a stale file and one remove the other's new one
  (`platforms.py:277`).
- *Migrate*: at the limit `StopFiltering` is raised before the acknowledgement, so the
  last message moved stays at the source too. A move with `ack_messages` or `tasks`
  acknowledges the messages it was not asked to move as well; with `ack_messages` it
  acknowledges what it moved a second time, and the `MessageStateError` ends it
  (`contrib/migrate.py:157`, `215`).
- *Blueprint*: a cycle of requirements makes `_firstpass` run for ever.

## 8. Plan

Done: sections 2 to 6. The components that have a state machine of their own are
modelled, those marked "partly" in `PROJECT.json` with what their note leaves out.
Proved are requests, boot and shutdown, the prefork pool, the prefetch count, the
selection of queues, pidfiles, declarations, chains, all kinds of chords with their
refinement, connecting, waiting for results, moving messages, and the revoked ids.
Next would be that a chain calls its errbacks after the failure is stored, a
refinement of `Chord` with workers that are lost, the safety parts of `RateLimit` and
`Beat`, and the two ends of the events in MC modules of their own, which would then
be open to proofs.

## 9. What is left out

- *Worker*: soft time limits, `MemoryError` and `SystemExit` raised by the handlers,
  the order of the semaphore's waiters; `TerminateTakesEffect` is not claimed across a
  connection loss (the request that remembers it is gone); a hard time limit or a lost
  child frees its slot in the step that reports it. The commands `time_limit`,
  `pool_restart` and `shutdown`.
- *AsynPool*: synack, partial reads of results, `on_not_recovering`, the restart
  frequency limit; which writers the hub polls is over-approximated. *Other pools*
  delegate to third-party executors.
- *Flow*: how busy a process is when the pool shrinks is chosen for the worst case.
  *Queues*: broadcast queues, the validation of the delayed delivery settings (a
  `ValueError` ends the start).
- *Lifecycle*: exit codes; the connections that events and gossip have of their own (the
  broker is silent on all or none); tasks cancelled on connection loss are in `Worker`.
- *Chain*: early acknowledgement, errors raised by `on_error`; callbacks are
  merged with the chain's next step; errbacks that cannot be published are not tried
  again. *Canvas*: chunks, maps, immutable partial signatures, and failures of tasks
  (those are in `Chain` and the chord modules). *ChordRedis*: simple headers, no key
  expiry. *ChordCounter* on Firestore: requests that do not carry the size.
- *ResultConsumer*: states that are not final, greenlet drainers, exhausted
  reconnects, the limit of buffered messages. *Rpc*: more than one result object for
  an id, an unlimited cache, the backlog limit.
- *Stores*: Consul and CosmosDB; the encodings of results. *Sending*: the layout of
  messages, `throw=False` among the `retry_kwargs`. *Settings*: annotations, reading of modules, environment variables.
  *Signals*: lazy proxies as senders. *Multi*: process ids that are used again by a
  foreign process, remote shells, the parsing of ranges of nodes. *Migrate*: bodies of
  task protocol 2, whose filter reads the protocol 1 layout.
- *Beat*: crontab entries (intervals stand for them), in-place changes of an entry, a
  producer that cannot be made. *Crontab*: time zones and summer time, solar
  schedules, the limit of 2000 roll-overs.
- *Events*: worker events (published directly), custom handlers, counters, the
  limit on workers in memory, root links. An error between closing a dispatcher and
  taking over its buffer (`worker/consumer/events.py:38`) ends the worker. The `RuntimeError` of a released mutex.
- *Mingle*: logical clocks, revoked stamps, and the limits of the revoked set,
  which `LimitedSet` has. *Gossip*: a second election, events that expire,
  an election while members come and go (acknowledgements to a worker that does not
  know the election are left out). *Stamps*: visitors that return the same dictionary
  twice, or `stamped_headers` of their own.
- Not modelled at all, because they have no protocol of their own: the command
  line, monitors' screens, serialisation, the Django fixup, the debugger and the
  Sphinx and testing helpers of `contrib`.
