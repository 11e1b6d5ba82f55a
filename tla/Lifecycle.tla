----------------------------- MODULE Lifecycle -----------------------------
(***************************************************************************)
(* The life of a worker process: the two blueprints of bootsteps (the      *)
(* worker's, whose last step is the consumer, and the consumer's, whose    *)
(* last step is the event loop), the loop of Consumer.start that restarts  *)
(* the consumer's blueprint when the connection is lost, and the handlers  *)
(* of SIGTERM, SIGINT and SIGQUIT, which run on the main thread on top of  *)
(* whatever it was doing and replace one another.                          *)
(*                                                                         *)
(* pc is where the main thread is below any handler; frame is where the    *)
(* one handler that takes time, on_cold_shutdown, is.  A step of the main  *)
(* thread waits for that handler to return.                                *)
(*                                                                         *)
(* The broker may fall silent: it sends nothing more on the connection of  *)
(* the consumer and does not close it.  A read from such a socket returns  *)
(* only if the socket has a timeout, which a restart and a cold shutdown   *)
(* give it and a warm shutdown does not.  A timeout that a handler sets    *)
(* while the read is under way does not end it (CPython tries again when   *)
(* the handler returns).                                                   *)
(***************************************************************************)
EXTENDS Naturals, FiniteSets

CONSTANTS
    Tasks,          \* tasks the pool may execute
    WorkerSteps,    \* number of steps of the worker's blueprint
    PoolStep,       \* the one that owns the pool
    ConsumerSteps,  \* number of steps of the consumer's blueprint
    Connecting,     \* those of them that call ensure_connected
    Talking,        \* those that wait for an answer of the broker, in start and stop
    Configurations, \* the configurations a worker may have, see conf
    MaxErrors,      \* bound: errors of the connection and of steps
    MaxSignals      \* bound: signals received

ASSUME LifecycleAssumption ==
    /\ WorkerSteps \in Nat /\ ConsumerSteps \in Nat \ {0}
    /\ PoolStep \in 1..(WorkerSteps - 1)
    /\ Connecting \subseteq 1..ConsumerSteps /\ Talking \subseteq 2..ConsumerSteps
    /\ Configurations \subseteq [retry : BOOLEAN, soft : BOOLEAN, remap : BOOLEAN]
    /\ MaxErrors \in Nat /\ MaxSignals \in Nat
    /\ IsFiniteSet(Tasks)

\* The connection is retried, with a soft shutdown; or it is not, and SIGTERM is
\* remapped to a cold shutdown: a value for Configurations.
TwoConfigurations ==
    {[retry |-> TRUE, soft |-> TRUE, remap |-> FALSE],
     [retry |-> FALSE, soft |-> FALSE, remap |-> TRUE]}

Signals == {"TERM", "INT", "QUIT"}
Handlers == {"warm", "int", "cold", "during", "hard"}
Blueprints == {"worker", "consumer"}
Steps(b) == IF b = "worker" THEN 1..WorkerSteps ELSE 1..ConsumerSteps

VARIABLES
    conf,            \* broker_connection_retry, worker_soft_shutdown_timeout > 0 and
                     \* REMAP_SIGTERM == "SIGQUIT", which do not change
    pc,              \* the main thread
    at,              \* the step Blueprint.send_all is about to stop
    terminate,       \* Blueprint.stop was called with terminate=True
    frame,           \* the call of on_cold_shutdown: "none", "wait" or "join"
    handler,         \* platforms.signals: the handler of each signal
    shouldStop,      \* state.should_stop
    shouldTerminate, \* state.should_terminate
    state,           \* Blueprint.state of either blueprint
    started,         \* Blueprint.started of either blueprint
    up,              \* steps whose start returned (or is the loop) and not stopped since
    pool,            \* the pool: "new", "run", "closed" or "gone"
    task,            \* each task: "no", "run", "ending", "done" or "killed"
    received,        \* how often each signal was received since the handlers stand
    errors,          \* errors so far
    abrupt,          \* what may cost a task its life: "cold", "files", "forced"
    silent,          \* the broker answers nothing on the consumer's connection
    bounded,         \* the socket of that connection has a timeout
    stuck            \* the main thread is in a read that does not return

mainVars == <<pc, at, terminate>>
flagVars == <<shouldStop, shouldTerminate>>
blueprintVars == <<state, started, up>>
socketVars == <<silent, bounded, stuck>>
vars == <<mainVars, frame, handler, flagVars, blueprintVars, pool, task, received,
          errors, abrupt, socketVars>>

\* Places inside WorkController.start's try, and those of stop() and terminate().
Starting == {"boot", "loop", "cstart", "evloop", "recover", "restart"}
Stopping == {"close", "cstop", "wstop", "stopped", "exit"}

Alive == {t \in Tasks : task[t] \in {"run", "ending"}}
Flagged == shouldStop \/ shouldTerminate

\* The main thread is about to wait for the broker: a step of the consumer starts
\* or stops, or Consumer.shutdown acknowledges what is left and closes the
\* connection.  It does so in vain, without a timeout.
Reads ==
    \/ pc = "cstart" /\ started["consumer"] + 1 \in Talking
    \/ pc = "cstop" /\ at \in Talking
    \/ pc = "stopped"
Blocked == Reads /\ silent /\ ~ bounded

TypeOK ==
    /\ conf \in Configurations
    /\ pc \in Starting \union Stopping \union {"gone"}
    /\ at \in 0..(WorkerSteps + ConsumerSteps)
    /\ terminate \in BOOLEAN
    /\ frame \in {"none", "wait", "join"}
    /\ handler \in [Signals -> Handlers]
    /\ shouldStop \in BOOLEAN /\ shouldTerminate \in BOOLEAN
    /\ state \in [Blueprints -> {"init", "RUN", "CLOSE", "TERMINATE"}]
    /\ \A b \in Blueprints : started[b] \in Steps(b) \union {0} /\ up[b] \subseteq Steps(b)
    /\ pool \in {"new", "run", "closed", "gone"}
    /\ task \in [Tasks -> {"no", "run", "ending", "done", "killed"}]
    /\ received \in [Signals -> 0..MaxSignals]
    /\ errors \in 0..MaxErrors
    /\ abrupt \subseteq {"cold", "files", "forced"}
    /\ silent \in BOOLEAN /\ bounded \in BOOLEAN /\ stuck \in BOOLEAN

\* Blueprint.start of the worker sets RUN and calls on_start, which installs the
\* handlers; no step has been started.
Init ==
    /\ conf \in Configurations
    /\ pc = "boot" /\ at = 0 /\ terminate = FALSE
    /\ frame = "none"
    /\ handler = [s \in Signals |->
                    CASE s = "TERM" -> IF conf.remap THEN "cold" ELSE "warm"
                      [] s = "INT"  -> "int"
                      [] s = "QUIT" -> "cold"]
    /\ shouldStop = FALSE /\ shouldTerminate = FALSE
    /\ state = [worker |-> "RUN", consumer |-> "init"]
    /\ started = [worker |-> 0, consumer |-> 0]
    /\ up = [worker |-> {}, consumer |-> {}]
    /\ pool = "new"
    /\ task = [t \in Tasks |-> "no"]
    /\ received = [s \in Signals |-> 0]
    /\ errors = 0
    /\ abrupt = {}
    /\ silent = FALSE /\ bounded = FALSE /\ stuck = FALSE

-----------------------------------------------------------------------------
\* Blueprint.stop of the worker, as called from WorkController.stop (how = FALSE)
\* and WorkController.terminate (how = TRUE), which gives the socket a timeout.
StopWorker(how) ==
    /\ terminate' = how
    /\ bounded' = (bounded \/ how)
    /\ IF started["worker"] = WorkerSteps
       THEN /\ pc' = "close"
            /\ pool' = IF pool = "run" THEN "closed" ELSE pool
            /\ state' = [state EXCEPT !["worker"] = "CLOSE"]
       ELSE /\ pc' = "exit"
            /\ state' = [state EXCEPT !["worker"] = "TERMINATE"]
            /\ UNCHANGED pool
    /\ UNCHANGED at

\* maybe_shutdown, when a flag is set: WorkerTerminate wins over WorkerShutdown.
RaiseShutdown == StopWorker(shouldTerminate)

\* One step of Blueprint.start of the worker; the last one is Consumer.start.
StartWorkerStep ==
    LET k == started["worker"] + 1 IN
    /\ pc = "boot"
    /\ started' = [started EXCEPT !["worker"] = k]
    /\ up' = [up EXCEPT !["worker"] = @ \union {k}]
    /\ pool' = IF k = PoolStep THEN "run" ELSE pool
    /\ pc' = IF k = WorkerSteps THEN "loop" ELSE "boot"
    /\ UNCHANGED <<at, terminate, frame, handler, flagVars, state, task, received,
                   errors, abrupt, socketVars>>

\* A step before the consumer raises: "Unrecoverable error", WorkController.stop.
WorkerStepFails ==
    LET k == started["worker"] + 1 IN
    /\ pc = "boot" /\ k < WorkerSteps
    /\ errors < MaxErrors /\ errors' = errors + 1
    /\ started' = [started EXCEPT !["worker"] = k]
    /\ pc' = "exit" /\ terminate' = FALSE
    /\ state' = [state EXCEPT !["worker"] = "TERMINATE"]
    /\ UNCHANGED <<at, frame, handler, flagVars, up, pool, task, received, abrupt, socketVars>>

\* The head of the loop of Consumer.start, up to the first step of its blueprint.
ConsumerLoop ==
    /\ pc = "loop"
    /\ IF Flagged
       THEN RaiseShutdown /\ UNCHANGED started
       ELSE /\ pc' = "cstart"
            /\ state' = [state EXCEPT !["consumer"] = "RUN"]
            /\ started' = [started EXCEPT !["consumer"] = 0]
            /\ UNCHANGED <<at, terminate, pool, bounded>>
    /\ UNCHANGED <<frame, handler, flagVars, up, task, received, errors, abrupt, silent, stuck>>

\* Blueprint.start of the consumer, running past its last step.
StartConsumerStepBeyond ==
    LET k == started["consumer"] + 1 IN
    /\ pc = "cstart"
    /\ started' = [started EXCEPT !["consumer"] = k]
    /\ up' = [up EXCEPT !["consumer"] = @ \union {k}]
    /\ pc' = IF k > ConsumerSteps THEN "evloop" ELSE "cstart"
    /\ silent' = (silent /\ k # 1) /\ bounded' = (bounded /\ k # 1)
    /\ UNCHANGED <<at, terminate, frame, handler, flagVars, state, pool, task, received,
                   errors, abrupt, stuck>>

\* Blueprint.start of the consumer: one step returns (the last one has entered
\* the event loop).  The first one makes a new connection; one that waits for a
\* silent broker does not return.
StartConsumerStep ==
    LET k == started["consumer"] + 1 IN
    /\ pc = "cstart" /\ ~ (k \in Talking /\ silent)
    /\ started' = [started EXCEPT !["consumer"] = k]
    /\ up' = [up EXCEPT !["consumer"] = @ \union {k}]
    /\ pc' = IF k = ConsumerSteps THEN "evloop" ELSE "cstart"
    /\ silent' = (silent /\ k # 1) /\ bounded' = (bounded /\ k # 1)
    /\ UNCHANGED <<at, terminate, frame, handler, flagVars, state, pool, task, received,
                   errors, abrupt, stuck>>

\* A step of the consumer waits for a silent broker, and times out.
StartTimesOut ==
    LET k == started["consumer"] + 1 IN
    /\ pc = "cstart" /\ k \in Talking /\ silent /\ bounded
    /\ started' = [started EXCEPT !["consumer"] = k]
    /\ pc' = "recover"
    /\ UNCHANGED <<at, terminate, frame, handler, flagVars, state, up, pool, task, received,
                   errors, abrupt, socketVars>>

\* ensure_connection with a callback that only looks at should_terminate.
ConnectInterruptedCold ==
    LET k == started["consumer"] + 1 IN
    /\ pc = "cstart" /\ k \in Connecting /\ shouldTerminate
    /\ started' = [started EXCEPT !["consumer"] = k]
    /\ RaiseShutdown
    /\ UNCHANGED <<frame, handler, flagVars, up, task, received, errors, abrupt, silent, stuck>>

\* The broker does not answer: ensure_connection calls maybe_shutdown before it
\* tries again.
ConnectInterrupted ==
    LET k == started["consumer"] + 1 IN
    /\ pc = "cstart" /\ k \in Connecting /\ Flagged
    /\ started' = [started EXCEPT !["consumer"] = k]
    /\ RaiseShutdown
    /\ UNCHANGED <<frame, handler, flagVars, up, task, received, errors, abrupt, silent, stuck>>

\* A step of the consumer, or the event loop, raises a recoverable error.
ConsumerError ==
    /\ pc \in {"cstart", "evloop"}
    /\ errors < MaxErrors /\ errors' = errors + 1
    /\ started' = [started EXCEPT !["consumer"] = IF pc = "cstart" THEN @ + 1 ELSE @]
    /\ pc' = "recover"
    /\ UNCHANGED <<at, terminate, frame, handler, flagVars, state, up, pool, task,
                   received, abrupt, socketVars>>

\* It raises one that is not: WorkController.start stops the worker.
UnrecoverableError ==
    /\ pc \in {"cstart", "evloop"}
    /\ errors < MaxErrors /\ errors' = errors + 1
    /\ started' = [started EXCEPT !["consumer"] = IF pc = "cstart" THEN @ + 1 ELSE @]
    /\ StopWorker(FALSE)
    /\ UNCHANGED <<frame, handler, flagVars, up, task, received, abrupt, silent, stuck>>

\* The except clause of Consumer.start, forgetting to stop the steps before the blueprint is started again.
RecoverWithoutRestart(full) ==
    /\ pc = "recover"
    /\ CASE ~ conf.retry -> StopWorker(FALSE)
         [] conf.retry /\ full -> StopWorker(TRUE)
         [] conf.retry /\ ~ full /\ Flagged -> RaiseShutdown
         [] OTHER -> pc' = "loop" /\ UNCHANGED <<at, terminate, state, pool, bounded>>
    /\ abrupt' = IF conf.retry /\ full THEN abrupt \union {"files"} ELSE abrupt
    /\ UNCHANGED <<frame, handler, flagVars, started, up, task, received, errors, silent, stuck>>

\* The except clause of Consumer.start.  full: the error was EMFILE.
Recover(full) ==
    /\ pc = "recover"
    /\ CASE ~ conf.retry -> StopWorker(FALSE)
         [] conf.retry /\ full -> StopWorker(TRUE)
         [] conf.retry /\ ~ full /\ Flagged -> RaiseShutdown
         [] OTHER -> /\ pc' = "restart" /\ at' = ConsumerSteps
                     /\ UNCHANGED <<terminate, state, pool, bounded>>
    /\ abrupt' = IF conf.retry /\ full THEN abrupt \union {"files"} ELSE abrupt
    /\ UNCHANGED <<frame, handler, flagVars, started, up, task, received, errors, silent, stuck>>

\* Blueprint.send_all from the first step to the last.
SendStopForward ==
    /\ pc \in {"restart", "cstop"}
    /\ up' = [up EXCEPT !["consumer"] = @ \ {ConsumerSteps + 1 - at}]
    /\ CASE at > 1 -> at' = at - 1 /\ UNCHANGED <<pc, state>>
         [] at = 1 /\ pc = "restart" -> pc' = "loop" /\ at' = 0 /\ UNCHANGED state
         [] OTHER -> /\ pc' = "wstop" /\ at' = WorkerSteps - 1
                     /\ state' = [state EXCEPT !["consumer"] = "TERMINATE"]
    /\ UNCHANGED <<terminate, frame, handler, flagVars, started, pool, task, received,
                   errors, abrupt, socketVars>>

\* The consumer's steps are stopped from the last to the first, whatever they raise:
\* Blueprint.restart after an error, Blueprint.stop at shutdown.
SendStop ==
    /\ pc \in {"restart", "cstop"}
    /\ up' = [up EXCEPT !["consumer"] = @ \ {at}]
    /\ CASE at > 1 -> at' = at - 1 /\ UNCHANGED <<pc, state>>
         [] at = 1 /\ pc = "restart" -> pc' = "loop" /\ at' = 0 /\ UNCHANGED state
         [] OTHER -> /\ pc' = "wstop" /\ at' = WorkerSteps - 1
                     /\ state' = [state EXCEPT !["consumer"] = "TERMINATE"]
    /\ UNCHANGED <<terminate, frame, handler, flagVars, started, pool, task, received,
                   errors, abrupt, socketVars>>

\* Blueprint.stop of the worker reaches its last step: Consumer.stop, which is
\* Blueprint.stop of the consumer.
StopConsumer ==
    /\ pc = "close"
    /\ up' = [up EXCEPT !["worker"] = @ \ {WorkerSteps}]
    /\ IF state["consumer"] = "RUN" /\ started["consumer"] = ConsumerSteps
       THEN /\ pc' = "cstop" /\ at' = ConsumerSteps
            /\ state' = [state EXCEPT !["consumer"] = "CLOSE"]
       ELSE /\ pc' = "wstop" /\ at' = WorkerSteps - 1
            /\ state' = [state EXCEPT !["consumer"] = "TERMINATE"]
    /\ UNCHANGED <<terminate, frame, handler, flagVars, started, pool, task, received,
                   errors, abrupt, socketVars>>

Kill(R) == task' = [t \in Tasks |-> IF t \in R THEN "killed" ELSE task[t]]

\* Blueprint.stop terminating the pool whichever shutdown it is.
StopWorkerStepKilling ==
    /\ pc = "wstop"
    /\ up' = [up EXCEPT !["worker"] = @ \ {at}]
    /\ IF at = PoolStep
       THEN pool' = "gone" /\ Kill(Alive)
       ELSE UNCHANGED <<pool, task>>
    /\ IF at > 1 THEN at' = at - 1 /\ UNCHANGED pc ELSE pc' = "stopped" /\ at' = 0
    /\ UNCHANGED <<terminate, frame, handler, flagVars, state, started, received,
                   errors, abrupt, socketVars>>

\* Blueprint.stop stops or terminates the worker's other steps.  Stopping the pool
\* joins it, terminating it kills its processes.
StopWorkerStep ==
    /\ pc = "wstop"
    /\ up' = [up EXCEPT !["worker"] = @ \ {at}]
    /\ IF at = PoolStep
       THEN /\ pool' = "gone"
            /\ IF terminate THEN Kill(Alive) ELSE Alive = {} /\ UNCHANGED task
       ELSE UNCHANGED <<pool, task>>
    /\ IF at > 1 THEN at' = at - 1 /\ UNCHANGED pc ELSE pc' = "stopped" /\ at' = 0
    /\ UNCHANGED <<terminate, frame, handler, flagVars, state, started, received,
                   errors, abrupt, socketVars>>

\* on_stopped: the timer stops, Consumer.shutdown, the pid file is released.
OnStopped ==
    /\ pc = "stopped"
    /\ pc' = "exit"
    /\ state' = [state EXCEPT !["worker"] = "TERMINATE"]
    /\ UNCHANGED <<at, terminate, frame, handler, flagVars, started, up, pool, task,
                   received, errors, abrupt, socketVars>>

\* The process ends, and with it the processes of its pool.
ExitProcess ==
    /\ pc = "exit"
    /\ pc' = "gone" /\ Kill(Alive)
    /\ UNCHANGED <<at, terminate, frame, handler, flagVars, blueprintVars, pool,
                   received, errors, abrupt, socketVars>>

\* The event loop finds a flag set.
LoopShutdown ==
    /\ pc = "evloop" /\ Flagged
    /\ RaiseShutdown
    /\ UNCHANGED <<frame, handler, flagVars, started, up, task, received, errors, abrupt, silent,
                   stuck>>

\* The event loop hands a task to the pool, and a process takes it.
Accept(t) ==
    /\ pc = "evloop" /\ frame = "none" /\ pool = "run" /\ task[t] = "no"
    /\ task' = [task EXCEPT ![t] = "run"]
    /\ UNCHANGED <<mainVars, frame, handler, flagVars, blueprintVars, pool, received,
                   errors, abrupt, socketVars>>

-----------------------------------------------------------------------------
\* The handlers.  A task whose function has returned, or that is acknowledged, is
\* not cancelled by cancel_active_requests.
CancelActiveRequests == Kill({t \in Tasks : task[t] = "run"})

Installed(h) ==
    [s \in Signals |-> IF s = "TERM" /\ ~ (conf.remap /\ h = "during") THEN handler[s] ELSE h]

\* on_cold_shutdown without cancel_active_requests.
OnColdUncancelled ==
    /\ handler' = Installed("during")
    /\ shouldTerminate' = TRUE /\ frame' = "join"
    /\ pool' = IF pool = "run" THEN "closed" ELSE pool
    /\ bounded' = TRUE
    /\ UNCHANGED <<mainVars, state, shouldStop, task, stuck>>

\* The last part of on_cold_shutdown: the socket gets a timeout, cancel, flag,
\* pool.stop().
ColdCancel ==
    /\ bounded' = TRUE
    /\ CancelActiveRequests
    /\ shouldTerminate' = TRUE
    /\ pool' = IF pool = "run" THEN "closed" ELSE pool
    /\ frame' = "join"
    /\ UNCHANGED shouldStop

\* on_cold_shutdown.
OnCold ==
    /\ handler' = Installed("during")
    /\ IF conf.soft /\ Alive # {}
       THEN frame' = "wait" /\ UNCHANGED <<flagVars, task, pool, bounded>>
       ELSE ColdCancel
    /\ UNCHANGED <<mainVars, state, stuck>>

OnDuring ==
    /\ handler' = Installed("hard")
    /\ CancelActiveRequests
    /\ shouldTerminate' = TRUE
    /\ UNCHANGED <<mainVars, state, frame, shouldStop, pool, bounded, stuck>>

\* WorkerTerminate leaves the handler: WorkController.start catches it, unless the
\* main thread is already in stop() or terminate(), where nobody does.  It ends a
\* read that was under way.
OnHard ==
    /\ frame' = "none" /\ stuck' = FALSE
    /\ IF pc \in Starting
       THEN StopWorker(TRUE) /\ UNCHANGED task
       ELSE pc' = "gone" /\ Kill(Alive) /\ UNCHANGED <<at, terminate, pool, state, bounded>>
    /\ UNCHANGED <<handler, flagVars>>

OnWarm ==
    /\ shouldStop' = TRUE
    /\ UNCHANGED <<mainVars, state, frame, handler, shouldTerminate, task, pool, bounded, stuck>>

OnInt ==
    /\ handler' = [handler EXCEPT !["INT"] = "cold"]
    /\ shouldStop' = TRUE
    /\ UNCHANGED <<mainVars, state, frame, shouldTerminate, task, pool, bounded, stuck>>

Signal(s) ==
    /\ pc # "gone"
    /\ received["TERM"] + received["INT"] + received["QUIT"] < MaxSignals
    /\ received' = [received EXCEPT ![s] = @ + 1]
    /\ CASE handler[s] = "warm"   -> OnWarm
         [] handler[s] = "int"    -> OnInt
         [] handler[s] = "cold"   -> OnCold
         [] handler[s] = "during" -> OnDuring
         [] handler[s] = "hard"   -> OnHard
    /\ abrupt' = CASE handler[s] \in {"cold", "during"} -> abrupt \union {"cold"}
                   [] handler[s] = "hard" -> abrupt \union {"cold", "forced"}
                   [] OTHER -> abrupt
    /\ UNCHANGED <<started, up, errors, silent>>

\* sleep(worker_soft_shutdown_timeout) returns.
SoftWaitEnds ==
    /\ frame = "wait"
    /\ ColdCancel
    /\ UNCHANGED <<mainVars, handler, blueprintVars, received, errors, abrupt, silent, stuck>>

\* pool.stop() has joined every process of the pool, and the handler returns.
ColdJoined ==
    /\ frame = "join" /\ Alive = {}
    /\ frame' = "none"
    /\ pool' = IF pool = "closed" THEN "gone" ELSE pool
    /\ UNCHANGED <<mainVars, handler, flagVars, blueprintVars, task, received, errors,
                   abrupt, socketVars>>

-----------------------------------------------------------------------------
\* A child: the function of a task returns; its result is dealt with.
Return(t) ==
    /\ task[t] = "run" /\ task' = [task EXCEPT ![t] = "ending"]
    /\ UNCHANGED <<mainVars, frame, handler, flagVars, blueprintVars, pool, received,
                   errors, abrupt, socketVars>>

Finish(t) ==
    /\ task[t] = "ending" /\ task' = [task EXCEPT ![t] = "done"]
    /\ UNCHANGED <<mainVars, frame, handler, flagVars, blueprintVars, pool, received,
                   errors, abrupt, socketVars>>

\* The broker falls silent.
Silence ==
    /\ 1 \in up["consumer"] /\ ~ silent /\ silent' = TRUE
    /\ UNCHANGED <<mainVars, frame, handler, flagVars, blueprintVars, pool, task, received,
                   errors, abrupt, bounded, stuck>>

\* The main thread waits for it.
Stick ==
    /\ frame = "none" /\ Blocked /\ ~ stuck /\ stuck' = TRUE
    /\ UNCHANGED <<mainVars, frame, handler, flagVars, blueprintVars, pool, task, received,
                   errors, abrupt, silent, bounded>>

MainStep ==
    /\ frame = "none" /\ ~ stuck /\ ~ Blocked
    /\ \/ StartWorkerStep \/ ConsumerLoop \/ StartConsumerStep \/ StartTimesOut
       \/ ConnectInterrupted
       \/ Recover(FALSE) \/ SendStop \/ StopConsumer \/ StopWorkerStep \/ OnStopped
       \/ ExitProcess \/ LoopShutdown

Fault ==
    /\ frame = "none" /\ ~ stuck
    /\ WorkerStepFails \/ ConsumerError \/ UnrecoverableError \/ Recover(TRUE)

HandlerStep == SoftWaitEnds \/ ColdJoined

Next ==
    \/ MainStep
    \/ Fault
    \/ HandlerStep
    \/ Silence \/ Stick
    \/ \E s \in Signals : Signal(s)
    \/ \E t \in Tasks : Accept(t) \/ Return(t) \/ Finish(t)

Spec == Init /\ [][Next /\ UNCHANGED conf]_<<vars, conf>>

\* The main thread and the handler it runs go on.  Nothing is assumed of a broker
\* that answers nothing (a connecting step may take forever, so StartConsumerStep is
\* only fair where no connection is made), nor of the tasks' functions.
Scheduling ==
    /\ WF_vars(MainStep /\ (pc = "cstart" =>
                               \/ started["consumer"] + 1 \notin Connecting
                               \/ ConnectInterrupted))
    /\ WF_vars(HandlerStep)
    /\ \A t \in Tasks : WF_vars(Finish(t))

FairSpec == Spec /\ Scheduling

TasksEnd == \A t \in Tasks : WF_vars(Return(t))

-----------------------------------------------------------------------------
\* A warm shutdown, an error of the broker or an exception of a step never costs a
\* running task its life: only a cold shutdown does, or a worker out of files.
WarmKillsNothing ==
    (\E t \in Tasks : task[t] = "killed") => abrupt # {}

\* A step of the consumer runs only while the steps it requires, started before it,
\* run: they are stopped in the opposite order, at a restart and at shutdown alike.
RequiredStepsUp ==
    \A k \in up["consumer"] : \A j \in 1..k : j \in up["consumer"]

\* Consumer.start never starts a step that it has not stopped since it last started
\* it, whatever error interrupted the blueprint and wherever.
NeverStartedTwice ==
    [][\A k \in Steps("consumer") :
          started'["consumer"] = k /\ started["consumer"] # k => k \notin up["consumer"]]_vars

\* Steps run on top of the steps they require, and are not started again before
\* they were stopped, through every restart of the consumer; a warm shutdown kills
\* no task on the way.
StepsInOrder == [](TypeOK /\ RequiredStepsUp /\ WarmKillsNothing) /\ NeverStartedTwice

\* The main thread waits for a silent broker without a timeout.
Wedged == stuck \/ Blocked

\* A cold shutdown ends the process, from wherever the main thread was when it was
\* asked for and whatever the broker and the functions of the tasks do, unless it
\* finds the main thread waiting for a silent broker; terminate() never does.
ColdShutdownEnds == "cold" \in abrupt ~> pc = "gone" \/ (Wedged /\ ~ terminate)

\* A warm shutdown ends it once the running tasks have ended, even when the signal
\* arrives while the worker tries in vain to reach its broker; only a broker that
\* falls silent on an open connection can wedge it.
WarmShutdownEnds == TasksEnd => (shouldStop ~> pc = "gone" \/ Wedged)

\* Each kind of shutdown ends: a cold one whatever the tasks do, a warm one if they
\* end, but for a silent broker.
ShutdownEnds == ColdShutdownEnds /\ WarmShutdownEnds

\* docs: stop is called at shutdown for the steps of the consumer.  It is not when
\* the shutdown finds the consumer only partly started.
StepsStoppedAtExit ==
    pc = "gone" /\ "forced" \notin abrupt => up["consumer"] = {}

\* WorkController._shutdown: "A silent broker can still wedge a warm shutdown; the
\* escape hatch is a cold shutdown".
ColdShutdownEscapes == "cold" \in abrupt ~> pc = "gone"

\* on_cold_shutdown: "The next time the signal is received though, the worker will
\* terminate immediately by force", for a signal that is received again and again.
ThirdSignalForces ==
    \A s \in Signals : received[s] >= 3 /\ handler[s] # "warm" /\ s # "INT"
                          => "forced" \in abrupt
=============================================================================
