--------------------------- MODULE MachineryProofs ---------------------------
(***************************************************************************)
(* The worker process (StepsInOrder of Lifecycle) and four of the parts    *)
(* in and around it (FlowRight, QueuesRight, Supervised and JobsAccounted  *)
(* of MCMachinery), for any number of steps, tasks, queues, nodes,         *)
(* processes, jobs and children and any bound on errors, commands, losses  *)
(* and crashes.                                                            *)
(*                                                                         *)
(* Lifecycle: the steps of the consumer that run are always the first      *)
(* ones, and none while its blueprint is about to be started (FirstSteps). *)
(* Whatever kills tasks on its own account was asked for (Asked), and      *)
(* where the pool was joined, or was not started yet, no task runs, so     *)
(* that the end of the process costs none its life (Joined).               *)
(*                                                                         *)
(* Flow: no process has two tasks, so that shrinking the pool leaves at    *)
(* least the busy ones, and away from the exceptions the count is the      *)
(* maximum once it was restored and never more.                            *)
(*                                                                         *)
(* Queues: every operation that waits does what was last asked for its     *)
(* queue, so that it does not matter when it is performed.                 *)
(*                                                                         *)
(* Multi: one process at a time is about a pidfile, a process that works   *)
(* is named by the file, and while another owns it none works.             *)
(*                                                                         *)
(* AsynPool: a job leaves traces at the child it was written to and at no  *)
(* other, so that what the parent finds of it when that child is replaced  *)
(* (unread, lost, told of) is right; a job that waits has none.            *)
(***************************************************************************)
EXTENDS Lifecycle, MCMachinery, FiniteSetTheorems, SequenceTheorems, TLAPS


-----------------------------------------------------------------------------
Shape ==
    /\ started \in [Blueprints -> Nat] /\ up \in [Blueprints -> SUBSET Nat]
    /\ pc = "boot" => started["worker"] < WorkerSteps
    /\ pc \in {"cstop", "restart"} => at \in 1..ConsumerSteps
    /\ pc = "wstop" => at \in 1..(WorkerSteps - 1)

FirstSteps ==
    /\ \E m \in 0..ConsumerSteps : up["consumer"] = 1..m
    /\ pc \in {"boot", "loop"} => up["consumer"] = {}
    /\ pc = "cstart" => /\ up["consumer"] = 1..started["consumer"]
                        /\ started["consumer"] < ConsumerSteps
    /\ pc \in {"cstop", "restart"} => up["consumer"] \subseteq 1..at

Asked ==
    shouldTerminate \/ frame # "none" \/ (pc \in Stopping /\ terminate) => abrupt # {}

Joined ==
    /\ pc \in {"boot", "stopped", "exit", "gone"} => Alive = {}
    /\ pc = "wstop" /\ at < PoolStep => Alive = {}
    /\ pc \notin {"boot", "exit", "gone"} => started["worker"] = WorkerSteps

Inv == TypeOK /\ Shape /\ FirstSteps /\ Asked /\ WarmKillsNothing /\ Joined

\* A signal is handled by one of the five handlers.
LEMMA SignalCalls ==
    ASSUME NEW s \in Signals, Signal(s), handler \in [Signals -> Handlers]
    PROVE  OnWarm \/ OnInt \/ OnCold \/ OnDuring \/ OnHard
    BY DEF Signal, Handlers

\* What is known of the socket stays Boolean, whichever step is taken.
LEMMA SocketStep ==
    ASSUME Inv, Next PROVE silent' \in BOOLEAN /\ bounded' \in BOOLEAN /\ stuck' \in BOOLEAN
    <1>1. silent \in BOOLEAN /\ bounded \in BOOLEAN /\ stuck \in BOOLEAN
        BY DEF Inv, TypeOK
    <1>2. ASSUME NEW how \in BOOLEAN, StopWorker(how) PROVE bounded' \in BOOLEAN
        BY <1>1, <1>2 DEF StopWorker
    <1>3. ASSUME RaiseShutdown PROVE bounded' \in BOOLEAN
        <2>1. shouldTerminate \in BOOLEAN
            BY DEF Inv, TypeOK
        <2>. QED
            BY <1>2, <1>3, <2>1 DEF RaiseShutdown
    <1>4. ASSUME MainStep PROVE silent' \in BOOLEAN /\ bounded' \in BOOLEAN /\ stuck' = stuck
        BY <1>1, <1>2, <1>3, <1>4
           DEF MainStep, StartWorkerStep, ConsumerLoop, StartConsumerStep, StartTimesOut,
               ConnectInterrupted, Recover, SendStop, StopConsumer, StopWorkerStep, OnStopped,
               ExitProcess, LoopShutdown, socketVars
    <1>5. ASSUME Fault PROVE silent' = silent /\ bounded' \in BOOLEAN /\ stuck' = stuck
        BY <1>1, <1>2, <1>3, <1>5
           DEF Fault, WorkerStepFails, ConsumerError, UnrecoverableError, Recover, socketVars
    <1>6. ASSUME NEW s \in Signals, Signal(s)
          PROVE  silent' = silent /\ bounded' \in BOOLEAN /\ stuck' \in BOOLEAN
        <2>1. handler \in [Signals -> Handlers]
            BY DEF Inv, TypeOK
        <2>2. silent' = silent
            BY <1>6 DEF Signal
        <2>3. bounded' \in BOOLEAN /\ stuck' \in BOOLEAN
            BY <1>1, <1>2, <1>6, <2>1, SignalCalls
               DEF OnWarm, OnInt, OnCold, OnDuring, OnHard, ColdCancel
        <2>. QED
            BY <2>2, <2>3
    <1>7. ASSUME HandlerStep PROVE silent' = silent /\ bounded' \in BOOLEAN /\ stuck' = stuck
        BY <1>1, <1>7 DEF HandlerStep, SoftWaitEnds, ColdCancel, ColdJoined, socketVars
    <1>8. ASSUME NEW t \in Tasks, Accept(t) \/ Return(t) \/ Finish(t)
          PROVE  UNCHANGED socketVars
        BY <1>8 DEF Accept, Return, Finish
    <1>9. ASSUME Silence \/ Stick
          PROVE  silent' \in {silent, TRUE} /\ bounded' = bounded /\ stuck' \in {stuck, TRUE}
        BY <1>9 DEF Silence, Stick
    <1>. QED
        BY <1>1, <1>4, <1>5, <1>6, <1>7, <1>8, <1>9 DEF Next, socketVars

\* The variables stay in their types, whichever step is taken.
LEMMA TypesStep ==
    ASSUME Inv, Next /\ UNCHANGED conf PROVE TypeOK'
    <1>. silent' \in BOOLEAN /\ bounded' \in BOOLEAN /\ stuck' \in BOOLEAN
        BY SocketStep
    <1>1. ASSUME WorkerStepFails PROVE TypeOK'
        <2>1. errors' \in 0..MaxErrors
            BY <1>1, LifecycleAssumption DEF WorkerStepFails, Inv, TypeOK
        <2>2. /\ started'["worker"] \in 1..WorkerSteps
              /\ started'["consumer"] = started["consumer"]
            BY <1>1, LifecycleAssumption
               DEF WorkerStepFails, Inv, TypeOK, Shape, Blueprints
        <2>3. state' \in [Blueprints -> {"init", "RUN", "CLOSE", "TERMINATE"}]
            BY <1>1 DEF WorkerStepFails, Inv, TypeOK, Blueprints
        <2>. QED
            BY <1>1, <2>1, <2>2, <2>3
               DEF WorkerStepFails, Inv, TypeOK, Stopping, Blueprints, Steps, flagVars
    <1>2. ASSUME UnrecoverableError PROVE TypeOK'
        <2>1. errors' \in 0..MaxErrors
            BY <1>2, LifecycleAssumption DEF UnrecoverableError, Inv, TypeOK
        <2>2. /\ started'["worker"] = started["worker"]
              /\ started'["consumer"] \in 0..ConsumerSteps
            BY <1>2, LifecycleAssumption
               DEF UnrecoverableError, Inv, TypeOK, Shape, FirstSteps, Blueprints, Steps
        <2>3. /\ pc' \in Stopping /\ terminate' \in BOOLEAN /\ at' = at
              /\ state' \in [Blueprints -> {"init", "RUN", "CLOSE", "TERMINATE"}]
              /\ pool' \in {"new", "run", "closed", "gone"}
            BY <1>2 DEF UnrecoverableError, StopWorker, Inv, TypeOK, Blueprints, Stopping
        <2>. QED
            BY <1>2, <2>1, <2>2, <2>3
               DEF UnrecoverableError, Inv, TypeOK, Stopping, Blueprints, Steps, flagVars
    <1>3. ASSUME NEW full \in BOOLEAN, Recover(full) PROVE TypeOK'
        <2>1. /\ pc' \in Starting \union Stopping /\ terminate' \in BOOLEAN
              /\ at' \in {at, ConsumerSteps}
              /\ state' \in [Blueprints -> {"init", "RUN", "CLOSE", "TERMINATE"}]
              /\ pool' \in {"new", "run", "closed", "gone"}
            BY <1>3 DEF Recover, RaiseShutdown, StopWorker, Inv, TypeOK, Blueprints,
                         Starting, Stopping
        <2>2. at' \in 0..(WorkerSteps + ConsumerSteps)
            BY <2>1, LifecycleAssumption DEF Inv, TypeOK
        <2>3. abrupt' \subseteq {"cold", "files", "forced"}
            BY <1>3 DEF Recover, Inv, TypeOK
        <2>. QED
            BY <1>3, <2>1, <2>2, <2>3 DEF Recover, Inv, TypeOK, flagVars
    <1>4. ASSUME SendStop PROVE TypeOK'
        <2>1. /\ pc' \in Starting \union Stopping
              /\ at' \in {at - 1, 0, WorkerSteps - 1}
              /\ state' \in [Blueprints -> {"init", "RUN", "CLOSE", "TERMINATE"}]
            BY <1>4 DEF SendStop, Inv, TypeOK, Blueprints, Starting, Stopping
        <2>2. at' \in 0..(WorkerSteps + ConsumerSteps)
            BY <1>4, <2>1, LifecycleAssumption DEF SendStop, Inv, TypeOK, Shape
        <2>3. \A b \in Blueprints : up'[b] \subseteq Steps(b)
            BY <1>4 DEF SendStop, Inv, TypeOK, Shape, Blueprints
        <2>. QED
            BY <1>4, <2>1, <2>2, <2>3 DEF SendStop, Inv, TypeOK, flagVars
    <1>5. ASSUME NEW s \in Signals, Signal(s) PROVE TypeOK'
        <2>. handler \in [Signals -> Handlers]
            BY DEF Inv, TypeOK
        <2>1. received' \in [Signals -> 0..MaxSignals]
            BY <1>5, LifecycleAssumption DEF Signal, Inv, TypeOK, Signals
        <2>2. abrupt' \subseteq {"cold", "files", "forced"}
            BY <1>5 DEF Signal, Inv, TypeOK, Handlers
        <2>3. /\ pc' \in Starting \union Stopping \union {"gone"} /\ at' = at
              /\ terminate' \in BOOLEAN
              /\ state' \in [Blueprints -> {"init", "RUN", "CLOSE", "TERMINATE"}]
            BY <1>5, SignalCalls DEF OnWarm, OnInt, OnCold, OnDuring, OnHard, StopWorker,
                       ColdCancel, Inv, TypeOK, Blueprints, Starting, Stopping, mainVars
        <2>4. /\ frame' \in {"none", "wait", "join"}
              /\ shouldStop' \in BOOLEAN /\ shouldTerminate' \in BOOLEAN
              /\ pool' \in {"new", "run", "closed", "gone"}
            BY <1>5, SignalCalls DEF OnWarm, OnInt, OnCold, OnDuring, OnHard, StopWorker,
                       ColdCancel, Inv, TypeOK, flagVars
        <2>5. handler' \in [Signals -> Handlers]
            <3>1. \A h \in Handlers : Installed(h) \in [Signals -> Handlers]
                BY DEF Installed
            <3>2. \/ handler' = handler
                  \/ handler' = [handler EXCEPT !["INT"] = "cold"]
                  \/ handler' = Installed("during")
                  \/ handler' = Installed("hard")
                BY <1>5, SignalCalls DEF OnWarm, OnInt, OnCold, OnDuring, OnHard
            <3>. QED
                BY <3>1, <3>2 DEF Handlers
        <2>6. task' \in [Tasks -> {"no", "run", "ending", "done", "killed"}]
            BY <1>5, SignalCalls DEF OnWarm, OnInt, OnCold, OnDuring, OnHard, ColdCancel,
                       CancelActiveRequests, Kill, Inv, TypeOK, flagVars
        <2>. QED
            BY <1>5, <2>1, <2>2, <2>3, <2>4, <2>5, <2>6 DEF Signal, Inv, TypeOK
    <1>. USE LifecycleAssumption DEF Inv, TypeOK, Shape, FirstSteps, Joined, Steps,
                                     Blueprints, Starting, Stopping, Signals, Handlers,
                                     Flagged, mainVars, flagVars, blueprintVars
    <1>6. ASSUME StartWorkerStep PROVE TypeOK'
        BY <1>6 DEF StartWorkerStep
    <1>7. ASSUME ConsumerLoop PROVE TypeOK'
        BY <1>7 DEF ConsumerLoop, RaiseShutdown, StopWorker
    <1>8. ASSUME StartConsumerStep PROVE TypeOK'
        BY <1>8 DEF StartConsumerStep
    <1>9. ASSUME ConnectInterrupted PROVE TypeOK'
        BY <1>9 DEF ConnectInterrupted, RaiseShutdown, StopWorker
    <1>10. ASSUME ConsumerError PROVE TypeOK'
        BY <1>10 DEF ConsumerError
    <1>11. ASSUME StopConsumer PROVE TypeOK'
        BY <1>11 DEF StopConsumer
    <1>12. ASSUME StopWorkerStep PROVE TypeOK'
        BY <1>12 DEF StopWorkerStep, Kill
    <1>13. ASSUME OnStopped PROVE TypeOK'
        BY <1>13 DEF OnStopped
    <1>14. ASSUME ExitProcess PROVE TypeOK'
        BY <1>14 DEF ExitProcess, Kill
    <1>15. ASSUME LoopShutdown PROVE TypeOK'
        BY <1>15 DEF LoopShutdown, RaiseShutdown, StopWorker
    <1>16. ASSUME NEW t \in Tasks, Accept(t) PROVE TypeOK'
        BY <1>16 DEF Accept
    <1>17. ASSUME NEW t \in Tasks, Return(t) PROVE TypeOK'
        BY <1>17 DEF Return
    <1>18. ASSUME NEW t \in Tasks, Finish(t) PROVE TypeOK'
        BY <1>18 DEF Finish
    <1>19. ASSUME SoftWaitEnds PROVE TypeOK'
        BY <1>19 DEF SoftWaitEnds, ColdCancel, CancelActiveRequests, Kill
    <1>20. ASSUME ColdJoined PROVE TypeOK'
        BY <1>20 DEF ColdJoined
    <1>21. ASSUME StartTimesOut PROVE TypeOK'
        BY <1>21 DEF StartTimesOut
    <1>22. ASSUME Silence PROVE TypeOK'
        BY <1>22 DEF Silence
    <1>23. ASSUME Stick PROVE TypeOK'
        BY <1>23 DEF Stick
    <1>. QED
        BY <1>1, <1>2, <1>3, <1>4, <1>5, <1>6, <1>7, <1>8, <1>9, <1>10, <1>11, <1>12,
           <1>13, <1>14, <1>15, <1>16, <1>17, <1>18, <1>19, <1>20, <1>21, <1>22,
           <1>23
           DEF Next, MainStep, Fault, HandlerStep

\* The counters of send_all stay within the blueprint they are for.
LEMMA ShapeStep ==
    ASSUME Inv, Next /\ UNCHANGED conf PROVE Shape'
    <1>1. ASSUME NEW s \in Signals, Signal(s) PROVE Shape'
        <2>. handler \in [Signals -> Handlers]
            BY DEF Inv, TypeOK
        <2>1. /\ at' = at /\ UNCHANGED <<started, up>>
              /\ pc' \in {pc, "close", "exit", "gone"}
            BY <1>1, SignalCalls DEF Signal, OnWarm, OnInt, OnCold, OnDuring, OnHard,
                       StopWorker, mainVars
        <2>. QED
            BY <2>1 DEF Inv, Shape
    <1>. USE LifecycleAssumption DEF Inv, TypeOK, Shape, Joined, FirstSteps, Blueprints,
                                     Starting, mainVars, flagVars, blueprintVars
    <1>2. ASSUME StartWorkerStep PROVE Shape'
        BY <1>2 DEF StartWorkerStep
    <1>3. ASSUME WorkerStepFails PROVE Shape'
        BY <1>3 DEF WorkerStepFails
    <1>4. ASSUME ConsumerLoop PROVE Shape'
        BY <1>4 DEF ConsumerLoop, RaiseShutdown, StopWorker
    <1>5. ASSUME StartConsumerStep PROVE Shape'
        BY <1>5 DEF StartConsumerStep
    <1>6. ASSUME ConnectInterrupted PROVE Shape'
        BY <1>6 DEF ConnectInterrupted, RaiseShutdown, StopWorker
    <1>7. ASSUME ConsumerError PROVE Shape'
        BY <1>7 DEF ConsumerError
    <1>8. ASSUME UnrecoverableError PROVE Shape'
        BY <1>8 DEF UnrecoverableError, StopWorker
    <1>9. ASSUME NEW full \in BOOLEAN, Recover(full) PROVE Shape'
        BY <1>9 DEF Recover, RaiseShutdown, StopWorker
    <1>10. ASSUME SendStop PROVE Shape'
        BY <1>10 DEF SendStop
    <1>11. ASSUME StopConsumer PROVE Shape'
        BY <1>11 DEF StopConsumer
    <1>12. ASSUME StopWorkerStep PROVE Shape'
        BY <1>12 DEF StopWorkerStep, Kill
    <1>13. ASSUME OnStopped PROVE Shape'
        BY <1>13 DEF OnStopped
    <1>14. ASSUME ExitProcess PROVE Shape'
        BY <1>14 DEF ExitProcess, Kill
    <1>15. ASSUME LoopShutdown PROVE Shape'
        BY <1>15 DEF LoopShutdown, RaiseShutdown, StopWorker
    <1>16. ASSUME NEW t \in Tasks, Accept(t) PROVE Shape'
        BY <1>16 DEF Accept
    <1>17. ASSUME NEW t \in Tasks, Return(t) PROVE Shape'
        BY <1>17 DEF Return
    <1>18. ASSUME NEW t \in Tasks, Finish(t) PROVE Shape'
        BY <1>18 DEF Finish
    <1>19. ASSUME SoftWaitEnds PROVE Shape'
        BY <1>19 DEF SoftWaitEnds, ColdCancel, CancelActiveRequests, Kill
    <1>20. ASSUME ColdJoined PROVE Shape'
        BY <1>20 DEF ColdJoined
    <1>21. ASSUME StartTimesOut PROVE Shape'
        BY <1>21 DEF StartTimesOut
    <1>22. ASSUME Silence \/ Stick PROVE Shape'
        BY <1>22 DEF Silence, Stick
    <1>. QED
        BY <1>1, <1>2, <1>3, <1>4, <1>5, <1>6, <1>7, <1>8, <1>9, <1>10, <1>11, <1>12,
           <1>13, <1>14, <1>15, <1>16, <1>17, <1>18, <1>19, <1>20, <1>21, <1>22
           DEF Next, MainStep, Fault, HandlerStep

\* Starting adds the next step of the consumer, stopping takes the last one away.
LEMMA FirstStep ==
    ASSUME Inv, Next /\ UNCHANGED conf PROVE FirstSteps'
    <1>1. ASSUME ConsumerLoop PROVE FirstSteps'
        <2>1. up' = up /\ up["consumer"] = {}
            BY <1>1 DEF ConsumerLoop, Inv, FirstSteps
        <2>2. pc' \in {"close", "exit"} \/ (pc' = "cstart" /\ started'["consumer"] = 0)
            BY <1>1 DEF ConsumerLoop, RaiseShutdown, StopWorker, Inv, Shape, Blueprints
        <2>3. 1..0 = {} /\ 0 \in 0..ConsumerSteps /\ 0 < ConsumerSteps
            BY LifecycleAssumption
        <2>. QED
            BY <2>1, <2>2, <2>3 DEF FirstSteps
    <1>2. ASSUME StartConsumerStep PROVE FirstSteps'
        <2>. DEFINE k == started["consumer"] + 1
        <2>1. k \in 1..ConsumerSteps /\ up["consumer"] = 1..(k - 1)
            BY <1>2, LifecycleAssumption
               DEF StartConsumerStep, Inv, Shape, FirstSteps, Blueprints
        <2>2. up'["consumer"] = 1..k /\ started'["consumer"] = k
            BY <1>2, <2>1 DEF StartConsumerStep, Inv, Shape, Blueprints
        <2>3. pc' = IF k = ConsumerSteps THEN "evloop" ELSE "cstart"
            BY <1>2 DEF StartConsumerStep
        <2>. QED
            BY <2>1, <2>2, <2>3, LifecycleAssumption DEF FirstSteps
    <1>3. ASSUME SendStop PROVE FirstSteps'
        <2>1. PICK m \in 0..ConsumerSteps : up["consumer"] = 1..m
            BY DEF Inv, FirstSteps
        <2>2. at \in 1..ConsumerSteps /\ m <= at
            BY <1>3, <2>1, LifecycleAssumption DEF SendStop, Inv, Shape, FirstSteps
        <2>3. up'["consumer"] = up["consumer"] \ {at}
            BY <1>3 DEF SendStop, Inv, Shape, Blueprints
        <2>4. \E j \in 0..(at - 1) : up'["consumer"] = 1..j
            <3>1. CASE m = at
                <4>1. up'["consumer"] = 1..(at - 1)
                    BY <2>1, <2>2, <2>3, <3>1
                <4>. QED
                    BY <2>2, <4>1
            <3>2. CASE m < at
                BY <2>1, <2>2, <2>3, <3>2
            <3>. QED
                BY <2>1, <2>2, <3>1, <3>2
        <2>5. PICK j \in 0..(at - 1) : up'["consumer"] = 1..j
            BY <2>4
        <2>6. \/ pc' \in {"cstop", "restart"} /\ at' = at - 1
              \/ pc' = "loop" /\ at = 1
              \/ pc' = "wstop"
            BY <1>3, <2>2 DEF SendStop
        <2>. QED
            BY <2>2, <2>5, <2>6, LifecycleAssumption DEF FirstSteps
    <1>4. ASSUME NEW s \in Signals, Signal(s) PROVE FirstSteps'
        <2>. handler \in [Signals -> Handlers]
            BY DEF Inv, TypeOK
        <2>1. /\ at' = at /\ UNCHANGED <<started, up>>
              /\ pc' \in {pc, "close", "exit", "gone"}
            BY <1>4, SignalCalls DEF Signal, OnWarm, OnInt, OnCold, OnDuring, OnHard,
                       StopWorker, mainVars
        <2>. QED
            BY <2>1 DEF Inv, FirstSteps
    <1>. USE LifecycleAssumption DEF Inv, TypeOK, Shape, FirstSteps, Joined, Blueprints,
                                     Starting, mainVars, flagVars, blueprintVars
    <1>5. ASSUME StartWorkerStep PROVE FirstSteps'
        BY <1>5 DEF StartWorkerStep
    <1>6. ASSUME WorkerStepFails PROVE FirstSteps'
        BY <1>6 DEF WorkerStepFails
    <1>7. ASSUME ConnectInterrupted PROVE FirstSteps'
        BY <1>7 DEF ConnectInterrupted, RaiseShutdown, StopWorker
    <1>8. ASSUME ConsumerError PROVE FirstSteps'
        BY <1>8 DEF ConsumerError
    <1>9. ASSUME UnrecoverableError PROVE FirstSteps'
        BY <1>9 DEF UnrecoverableError, StopWorker
    <1>10. ASSUME NEW full \in BOOLEAN, Recover(full) PROVE FirstSteps'
        BY <1>10 DEF Recover, RaiseShutdown, StopWorker
    <1>11. ASSUME StopConsumer PROVE FirstSteps'
        BY <1>11 DEF StopConsumer
    <1>12. ASSUME StopWorkerStep PROVE FirstSteps'
        BY <1>12 DEF StopWorkerStep, Kill
    <1>13. ASSUME OnStopped PROVE FirstSteps'
        BY <1>13 DEF OnStopped
    <1>14. ASSUME ExitProcess PROVE FirstSteps'
        BY <1>14 DEF ExitProcess, Kill
    <1>15. ASSUME LoopShutdown PROVE FirstSteps'
        BY <1>15 DEF LoopShutdown, RaiseShutdown, StopWorker
    <1>16. ASSUME NEW t \in Tasks, Accept(t) PROVE FirstSteps'
        BY <1>16 DEF Accept
    <1>17. ASSUME NEW t \in Tasks, Return(t) PROVE FirstSteps'
        BY <1>17 DEF Return
    <1>18. ASSUME NEW t \in Tasks, Finish(t) PROVE FirstSteps'
        BY <1>18 DEF Finish
    <1>19. ASSUME SoftWaitEnds PROVE FirstSteps'
        BY <1>19 DEF SoftWaitEnds, ColdCancel, CancelActiveRequests, Kill
    <1>20. ASSUME ColdJoined PROVE FirstSteps'
        BY <1>20 DEF ColdJoined
    <1>21. ASSUME StartTimesOut PROVE FirstSteps'
        BY <1>21 DEF StartTimesOut
    <1>22. ASSUME Silence \/ Stick PROVE FirstSteps'
        BY <1>22 DEF Silence, Stick
    <1>. QED
        BY <1>1, <1>2, <1>3, <1>4, <1>5, <1>6, <1>7, <1>8, <1>9, <1>10, <1>11, <1>12,
           <1>13, <1>14, <1>15, <1>16, <1>17, <1>18, <1>19, <1>20, <1>21, <1>22
           DEF Next, MainStep, Fault, HandlerStep

\* No step costs a task its life that was not asked for one, and none leaves the pool
\* behind with a task running.
LEMMA KillStep ==
    ASSUME Inv, Next /\ UNCHANGED conf PROVE (Asked /\ WarmKillsNothing /\ Joined)'
    <1>1. ASSUME NEW s \in Signals, Signal(s)
          PROVE  (Asked /\ WarmKillsNothing /\ Joined)'
        <2>1. CASE handler[s] \in {"cold", "during", "hard"}
            <3>1. abrupt' # {}
                BY <1>1, <2>1 DEF Signal
            <3>2. UNCHANGED started
                BY <1>1 DEF Signal
            <3>3. Alive' \subseteq Alive
                BY <1>1, <2>1 DEF Signal, OnCold, OnDuring, OnHard, ColdCancel,
                           CancelActiveRequests, Kill, Alive, Inv, TypeOK, flagVars
            <3>4. CASE UNCHANGED <<pc, at>>
                BY <3>1, <3>2, <3>3, <3>4 DEF Inv, Asked, WarmKillsNothing, Joined
            <3>5. CASE handler[s] = "hard" /\ pc \in Starting
                <4>1. pc' = IF started["worker"] = WorkerSteps THEN "close" ELSE "exit"
                    BY <1>1, <3>5 DEF Signal, OnHard, StopWorker
                <4>2. pc' = "exit" => Alive = {}
                    BY <4>1, <3>5 DEF Inv, Joined, Starting
                <4>. QED
                    BY <3>1, <3>2, <3>3, <4>1, <4>2
                       DEF Inv, Asked, WarmKillsNothing, Joined
            <3>6. CASE handler[s] = "hard" /\ pc \notin Starting
                <4>1. pc' = "gone" /\ Alive' = {}
                    BY <1>1, <3>6 DEF Signal, OnHard, Kill, Alive
                <4>. QED
                    BY <3>1, <4>1 DEF Asked, WarmKillsNothing, Joined
            <3>. QED
                BY <1>1, <2>1, <3>4, <3>5, <3>6 DEF Signal, OnCold, OnDuring, mainVars
        <2>2. CASE handler[s] \in {"warm", "int"}
            <3>1. UNCHANGED <<pc, at, terminate, shouldTerminate, frame, task, started,
                              abrupt>>
                BY <1>1, <2>2 DEF Signal, OnWarm, OnInt, mainVars
            <3>. QED
                BY <3>1 DEF Inv, Asked, WarmKillsNothing, Joined, Alive
        <2>. QED
            BY <1>1, <2>1, <2>2 DEF Inv, TypeOK, Handlers
    <1>. USE LifecycleAssumption DEF Inv, TypeOK, Shape, Asked, WarmKillsNothing,
                                     Joined, Alive, Blueprints, Starting, Stopping,
                                     Flagged, mainVars, flagVars, blueprintVars
    <1>2. ASSUME StartWorkerStep PROVE (Asked /\ WarmKillsNothing /\ Joined)'
        BY <1>2 DEF StartWorkerStep
    <1>3. ASSUME WorkerStepFails PROVE (Asked /\ WarmKillsNothing /\ Joined)'
        BY <1>3 DEF WorkerStepFails
    <1>4. ASSUME ConsumerLoop PROVE (Asked /\ WarmKillsNothing /\ Joined)'
        BY <1>4 DEF ConsumerLoop, RaiseShutdown, StopWorker
    <1>5. ASSUME StartConsumerStep PROVE (Asked /\ WarmKillsNothing /\ Joined)'
        BY <1>5 DEF StartConsumerStep
    <1>6. ASSUME ConnectInterrupted PROVE (Asked /\ WarmKillsNothing /\ Joined)'
        BY <1>6 DEF ConnectInterrupted, RaiseShutdown, StopWorker
    <1>7. ASSUME ConsumerError PROVE (Asked /\ WarmKillsNothing /\ Joined)'
        BY <1>7 DEF ConsumerError
    <1>8. ASSUME UnrecoverableError PROVE (Asked /\ WarmKillsNothing /\ Joined)'
        BY <1>8 DEF UnrecoverableError, StopWorker
    <1>9. ASSUME NEW full \in BOOLEAN, Recover(full)
          PROVE  (Asked /\ WarmKillsNothing /\ Joined)'
        BY <1>9 DEF Recover, RaiseShutdown, StopWorker
    <1>10. ASSUME SendStop PROVE (Asked /\ WarmKillsNothing /\ Joined)'
        BY <1>10 DEF SendStop
    <1>11. ASSUME StopConsumer PROVE (Asked /\ WarmKillsNothing /\ Joined)'
        BY <1>11 DEF StopConsumer
    <1>12. ASSUME StopWorkerStep PROVE (Asked /\ WarmKillsNothing /\ Joined)'
        BY <1>12 DEF StopWorkerStep, Kill
    <1>13. ASSUME OnStopped PROVE (Asked /\ WarmKillsNothing /\ Joined)'
        BY <1>13 DEF OnStopped
    <1>14. ASSUME ExitProcess PROVE (Asked /\ WarmKillsNothing /\ Joined)'
        BY <1>14 DEF ExitProcess, Kill
    <1>15. ASSUME LoopShutdown PROVE (Asked /\ WarmKillsNothing /\ Joined)'
        BY <1>15 DEF LoopShutdown, RaiseShutdown, StopWorker
    <1>16. ASSUME NEW t \in Tasks, Accept(t) PROVE (Asked /\ WarmKillsNothing /\ Joined)'
        BY <1>16 DEF Accept
    <1>17. ASSUME NEW t \in Tasks, Return(t) PROVE (Asked /\ WarmKillsNothing /\ Joined)'
        BY <1>17 DEF Return
    <1>18. ASSUME NEW t \in Tasks, Finish(t) PROVE (Asked /\ WarmKillsNothing /\ Joined)'
        BY <1>18 DEF Finish
    <1>19. ASSUME SoftWaitEnds PROVE (Asked /\ WarmKillsNothing /\ Joined)'
        BY <1>19 DEF SoftWaitEnds, ColdCancel, CancelActiveRequests, Kill
    <1>20. ASSUME ColdJoined PROVE (Asked /\ WarmKillsNothing /\ Joined)'
        BY <1>20 DEF ColdJoined
    <1>21. ASSUME StartTimesOut PROVE (Asked /\ WarmKillsNothing /\ Joined)'
        BY <1>21 DEF StartTimesOut
    <1>22. ASSUME Silence \/ Stick PROVE (Asked /\ WarmKillsNothing /\ Joined)'
        BY <1>22 DEF Silence, Stick
    <1>. QED
        BY <1>1, <1>2, <1>3, <1>4, <1>5, <1>6, <1>7, <1>8, <1>9, <1>10, <1>11, <1>12,
           <1>13, <1>14, <1>15, <1>16, <1>17, <1>18, <1>19, <1>20, <1>21, <1>22
           DEF Next, MainStep, Fault, HandlerStep

\* The worker's bootsteps and shutdown (Blueprint.start and stop, Consumer.start, the
\* signal handlers): the consumer's steps run on top of what they require, no step is
\* started again before it was stopped, and a warm shutdown kills no task.
THEOREM BootAndShutdown == Spec => StepsInOrder
    <1>1. Init => Inv
        <2>. SUFFICES ASSUME Init PROVE Inv
            OBVIOUS
        <2>1. TypeOK
            <3>1. handler \in [Signals -> Handlers]
                BY DEF Init, Signals, Handlers
            <3>2. received \in [Signals -> 0..MaxSignals] /\ errors \in 0..MaxErrors
                BY LifecycleAssumption DEF Init
            <3>3. at \in 0..(WorkerSteps + ConsumerSteps)
                BY LifecycleAssumption DEF Init
            <3>4. /\ state \in [Blueprints -> {"init", "RUN", "CLOSE", "TERMINATE"}]
                  /\ \A b \in Blueprints :
                        started[b] \in Steps(b) \union {0} /\ up[b] \subseteq Steps(b)
                BY DEF Init, Blueprints
            <3>. QED
                BY <3>1, <3>2, <3>3, <3>4 DEF Init, TypeOK, Starting
        <2>2. Shape /\ FirstSteps
            <3>1. 1..0 = {} /\ 0 \in 0..ConsumerSteps /\ 0 < WorkerSteps
                BY LifecycleAssumption
            <3>. QED
                BY <3>1 DEF Init, Shape, FirstSteps, Blueprints
        <2>3. Asked /\ WarmKillsNothing /\ Joined
            BY DEF Init, Asked, WarmKillsNothing, Joined, Alive, Stopping
        <2>. QED
            BY <2>1, <2>2, <2>3 DEF Inv
    <1>2. Inv /\ [Next /\ UNCHANGED conf]_<<vars, conf>> => Inv'
        <2>1. ASSUME Inv, UNCHANGED <<vars, conf>> PROVE Inv'
            <3>. USE <2>1 DEF Inv, vars, mainVars, flagVars, blueprintVars, socketVars
            <3>1. TypeOK'
                BY DEF TypeOK
            <3>2. Shape' /\ FirstSteps'
                BY DEF Shape, FirstSteps
            <3>3. Asked' /\ WarmKillsNothing' /\ Joined'
                BY DEF Asked, WarmKillsNothing, Joined, Alive
            <3>. QED
                BY <3>1, <3>2, <3>3
        <2>. QED
            BY <2>1, TypesStep, ShapeStep, FirstStep, KillStep DEF Inv
    <1>3. Inv => TypeOK /\ RequiredStepsUp /\ WarmKillsNothing
        <2>. SUFFICES ASSUME Inv PROVE RequiredStepsUp
            BY DEF Inv
        <2>1. PICK m \in 0..ConsumerSteps : up["consumer"] = 1..m
            BY DEF Inv, FirstSteps
        <2>. QED
            BY <2>1 DEF RequiredStepsUp
    <1>. DEFINE Fresh ==
            \A k \in Steps("consumer") :
               started'["consumer"] = k /\ started["consumer"] # k => k \notin up["consumer"]
    <1>4. Inv /\ [Next /\ UNCHANGED conf]_<<vars, conf>> => [Fresh]_vars
        <2>. SUFFICES ASSUME Inv, Next PROVE Fresh
            OBVIOUS
        <2>1. \/ started'["consumer"] = started["consumer"]
              \/ started'["consumer"] = 0
              \/ pc = "cstart" /\ started'["consumer"] = started["consumer"] + 1
            BY DEF Next, MainStep, Fault, HandlerStep, StartWorkerStep, WorkerStepFails,
                   ConsumerLoop, StartConsumerStep, ConnectInterrupted, ConsumerError,
                   UnrecoverableError, Recover, SendStop, StopConsumer, StopWorkerStep,
                   OnStopped, ExitProcess, LoopShutdown, Accept, Return, Finish, Signal,
                   SoftWaitEnds, ColdJoined, StartTimesOut, Silence, Stick, blueprintVars, Inv,
                   Shape, Blueprints
        <2>2. pc = "cstart" => up["consumer"] = 1..started["consumer"]
            BY DEF Inv, FirstSteps
        <2>. QED
            BY <2>1, <2>2 DEF Inv, Shape, Steps, Blueprints
    <1>. QED
        BY <1>1, <1>2, <1>3, <1>4, PTL DEF Spec, StepsInOrder, NeverStartedTwice

-----------------------------------------------------------------------------
\* The autoscaler's type.
ScalerTyped(s) ==
    scaler \in [max : 0..Flows[s].procs, min : 0..Flows[s].procs,
                up : {"never", "recently", "long ago"}]

\* The types of Flow's variables.
FlowTyped(s) ==
    /\ place \in [Flows[s].tasks -> {"queue", "eta", "reserved", "active", "done"}]
    /\ carries \subseteq unacked /\ unacked \subseteq Flows[s].tasks
    /\ procs \in 0..Flows[s].procs
    /\ ScalerTyped(s)
    /\ initial \in Nat /\ value \in Nat /\ prev \in Nat /\ granted \in Nat /\ restored \in BOOLEAN
    /\ restarts \in 0..Flows[s].losses /\ commands \in 0..Flows[s].commands
    /\ skew \subseteq {"eta", "shrink", "empty"}

\* There is a limit, unless the pool was left empty.
Limited == "empty" \in skew \/ (initial # 0 /\ value # 0)

\* No process runs two tasks, and without an autoscaler one process is left, unless
\* the pool is known to have been empty.
PoolStaffed(s) ==
    /\ Flowing(s)!Busy =< procs
    /\ ~Flowing(s)!Autoscaling => procs >= 1 \/ "empty" \in skew

\* With a task waiting for its eta the count is one the exceptions allow.
NoEta(s) == "eta" \notin skew => Flowing(s)!In("eta") = {}

\* Otherwise the count is at most what the pool can take, and that once restored.
CountExact(s) ==
    ~Flowing(s)!Autoscaling /\ skew = {} =>
        value =< Flowing(s)!MaxPrefetch(procs) /\ (restored => value = Flowing(s)!MaxPrefetch(procs))

\* The inductive invariant for FlowRight.
FlowInv(s) == FlowTyped(s) /\ Limited /\ PoolStaffed(s) /\ NoEta(s) /\ CountExact(s)

\* The instance of FiniteSets in Flow is FiniteSets.
LEMMA FlowSets ==
    ASSUME NEW s \in DOMAIN Flows, NEW S
    PROVE  (Flowing(s)!IsFiniteSet(S) <=> IsFiniteSet(S)) /\ Flowing(s)!Cardinality(S) = Cardinality(S)
<1>1. Flowing(s)!IsFiniteSet(S) <=> IsFiniteSet(S)
  BY DEF Flowing!IsFiniteSet, IsFiniteSet
<1>2. Flowing(s)!Cardinality(S) = Cardinality(S)
  BY DEF Flowing!Cardinality, Cardinality
<1> QED
  BY <1>1, <1>2

\* The multiplier and the bound on processes are numbers.
LEMMA FlowNumbers ==
    ASSUME NEW s \in DOMAIN Flows
    PROVE
    Flows[s].multiplier \in Nat /\ Flows[s].multiplier >= 1 /\ Flows[s].procs \in Nat
BY FlowsRight DEF Flowing!FlowConstants

\* A pool of any process takes a message.
LEMMA PrefetchFacts ==
    ASSUME NEW s \in DOMAIN Flows, NEW n \in Nat
    PROVE  Flowing(s)!MaxPrefetch(n) \in Nat /\ (n >= 1 => Flowing(s)!MaxPrefetch(n) >= Flows[s].multiplier)
<1>1. Flows[s].multiplier \in Nat /\ Flows[s].multiplier >= 1
  BY FlowNumbers
<1> QED
  BY <1>1 DEF Flowing!MaxPrefetch

\* What a pool can take grows and shrinks by the multiplier for a process.
LEMMA PrefetchSum ==
    ASSUME NEW s \in DOMAIN Flows, NEW n \in Nat, NEW k \in Nat
    PROVE  /\ Flows[s].multiplier * k \in Nat
           /\ Flowing(s)!MaxPrefetch(n + k) = Flowing(s)!MaxPrefetch(n) + Flows[s].multiplier * k
           /\ Flowing(s)!MaxPrefetch(n - k) = Flowing(s)!MaxPrefetch(n) - Flows[s].multiplier * k
<1>1. Flows[s].multiplier \in Nat
  BY FlowNumbers
<1> QED
  BY <1>1 DEF Flowing!MaxPrefetch

\* The tasks in one place can be counted.
LEMMA BusyFacts ==
    ASSUME NEW s \in DOMAIN Flows,
           NEW where PROVE IsFiniteSet(Flowing(s)!In(where)) /\ Cardinality(Flowing(s)!In(where)) \in Nat
<1>1. IsFiniteSet(Flowing(s)!In(where))
  BY FlowsRight, FlowSets, FS_Subset DEF Flowing!FlowConstants, Flowing!In
<1> QED
  BY <1>1, FS_CardinalityType

\* The autoscaler's type does not depend on the rest.
LEMMA ScalerStays ==
    ASSUME NEW s \in DOMAIN Flows, ScalerTyped(s), scaler' = scaler PROVE ScalerTyped(s)'
BY DEF ScalerTyped

\* The invariant holds when the worker starts, with or without an autoscaler.
LEMMA FlowInit ==
    ASSUME NEW s \in DOMAIN Flows, Flowing(s)!Init PROVE FlowInv(s)
<1> DEFINE max == IF Flowing(s)!Autoscaling THEN CHOOSE m \in Flows[s].autoscale : TRUE
                                            ELSE Flows[s].concurrency
<1>1. max \in 1..Flows[s].procs /\ Flows[s].concurrency \in 1..Flows[s].procs
  BY FlowsRight DEF Flowing!FlowConstants, Flowing!Autoscaling
<1>2. /\ Flowing(s)!MaxPrefetch(max) \in Nat \ {0}
      /\ Flowing(s)!MaxPrefetch(Flows[s].concurrency) \in Nat
  <2>1. max \in Nat /\ max >= 1 /\ Flows[s].concurrency \in Nat
    BY <1>1, FlowNumbers
  <2> HIDE DEF max
  <2>2. /\ Flowing(s)!MaxPrefetch(max) \in Nat
        /\ Flowing(s)!MaxPrefetch(max) >= Flows[s].multiplier
        /\ Flowing(s)!MaxPrefetch(Flows[s].concurrency) \in Nat
    BY <2>1, PrefetchFacts
  <2> QED
    BY <2>2, FlowNumbers
<1>3. /\ place = [t \in Flows[s].tasks |-> "queue"] /\ unacked = {} /\ carries = {}
      /\ procs = Flows[s].concurrency
      /\ scaler = [max |-> max, min |-> Flows[s].concurrency, up |-> "never"]
      /\ initial = Flowing(s)!MaxPrefetch(max) /\ value = initial /\ prev = initial
      /\ granted = initial
      /\ restored = TRUE /\ restarts = 0 /\ commands = 0 /\ skew = {}
  BY DEF Flowing!Init
<1> HIDE DEF max
<1>4. FlowTyped(s)
  <2>1. /\ place \in [Flows[s].tasks -> {"queue", "eta", "reserved", "active", "done"}]
        /\ carries \subseteq unacked /\ unacked \subseteq Flows[s].tasks
        /\ restored \in BOOLEAN /\ skew = {}
    BY <1>3
  <2>2. /\ procs \in 0..Flows[s].procs /\ max \in 0..Flows[s].procs
        /\ Flows[s].concurrency \in 0..Flows[s].procs
    BY <1>1, <1>3, FlowNumbers
  <2>3. scaler \in [max : 0..Flows[s].procs, min : 0..Flows[s].procs,
                    up : {"never", "recently", "long ago"}]
    BY <1>3, <2>2
  <2>4. /\ initial \in Nat /\ value \in Nat /\ prev \in Nat /\ granted \in Nat
        /\ restarts \in 0..Flows[s].losses /\ commands \in 0..Flows[s].commands
    BY <1>2, <1>3, FlowsRight DEF Flowing!FlowConstants
  <2> QED
    BY <2>1, <2>2, <2>3, <2>4 DEF FlowTyped, ScalerTyped
<1>5. Flowing(s)!In("active") = {} /\ Flowing(s)!In("eta") = {}
  BY <1>3 DEF Flowing!In
<1>6. PoolStaffed(s) /\ NoEta(s)
  BY <1>1, <1>3, <1>5, FlowSets, FS_EmptySet DEF PoolStaffed, Flowing!Busy, NoEta
<1>7. CountExact(s) /\ Limited
  BY <1>2, <1>3 DEF CountExact, Limited, max
<1> QED
  BY <1>4, <1>6, <1>7 DEF FlowInv

\* The timer that tells the broker the count keeps it.
LEMMA UpdateQosStep ==
    ASSUME NEW s \in DOMAIN Flows, FlowInv(s), Flowing(s)!UpdateQos PROVE FlowInv(s)'
<1>1. /\ prev' = value /\ granted' \in {granted, value}
      /\ UNCHANGED <<place, unacked, carries, procs, scaler, initial, value, restored,
                     restarts, commands, skew>>
  BY DEF Flowing!UpdateQos
<1>2. FlowTyped(s)'
  BY ScalerStays, <1>1 DEF FlowInv, FlowTyped
<1>3. PoolStaffed(s)'
  BY <1>1 DEF FlowInv, PoolStaffed, Flowing!Busy, Flowing!In
<1>4. Limited' /\ NoEta(s)' /\ CountExact(s)'
  BY <1>1 DEF FlowInv, Limited, NoEta, CountExact, Flowing!In, Flowing!MaxPrefetch
<1> QED
  BY <1>2, <1>3, <1>4 DEF FlowInv

\* A published task keeps it.
LEMMA PublishStep ==
    ASSUME NEW s \in DOMAIN Flows, FlowInv(s), NEW t \in Flows[s].tasks,
           Flowing(s)!Publish(t) PROVE FlowInv(s)'
<1>1. /\ place' = [place EXCEPT ![t] = "queue"] /\ place[t] = "done"
      /\ UNCHANGED <<unacked, carries, procs, scaler, initial, value, prev, granted, restored,
                     restarts, commands, skew>>
  BY DEF Flowing!Publish, Flowing!counts
<1>2. FlowTyped(s)'
  BY ScalerStays, <1>1 DEF FlowInv, FlowTyped
<1>3. /\ Flowing(s)!In("active")' = Flowing(s)!In("active")
      /\ Flowing(s)!In("eta")' = Flowing(s)!In("eta")
  <2>1. \A u \in Flows[s].tasks : place'[u] = "active" <=> place[u] = "active"
    BY <1>1 DEF FlowInv, FlowTyped
  <2>2. \A u \in Flows[s].tasks : place'[u] = "eta" <=> place[u] = "eta"
    BY <1>1 DEF FlowInv, FlowTyped
  <2>3. Flowing(s)!In("active")' = Flowing(s)!In("active")
    BY <2>1 DEF Flowing!In
  <2>4. Flowing(s)!In("eta")' = Flowing(s)!In("eta")
    BY <2>2 DEF Flowing!In
  <2> QED
    BY <2>3, <2>4
<1>4. PoolStaffed(s)'
  BY <1>1, <1>3 DEF FlowInv, PoolStaffed, Flowing!Busy, Flowing!Autoscaling
<1>5. Limited' /\ NoEta(s)' /\ CountExact(s)'
  BY <1>1, <1>3 DEF FlowInv, Limited, NoEta, CountExact, Flowing!MaxPrefetch, Flowing!Autoscaling
<1> QED
  BY <1>2, <1>4, <1>5 DEF FlowInv

\* The end of an eta, with its decrement, keeps it.
LEMMA ApplyEtaStep ==
    ASSUME NEW s \in DOMAIN Flows, FlowInv(s), NEW t \in Flows[s].tasks,
           Flowing(s)!ApplyEta(t) PROVE FlowInv(s)'
<1>1. /\ place' = [place EXCEPT ![t] = "reserved"] /\ place[t] = "eta" /\ value' = Flowing(s)!Dec(value, 1)
      /\ UNCHANGED <<unacked, carries, procs, scaler, initial, prev, granted, restored, restarts,
                     commands, skew>>
  BY DEF Flowing!ApplyEta
<1>2. Flowing(s)!In("active")' = Flowing(s)!In("active")
  <2>1. \A u \in Flows[s].tasks : place'[u] = "active" <=> place[u] = "active"
    BY <1>1 DEF FlowInv, FlowTyped
  <2> QED
    BY <2>1 DEF Flowing!In
<1>3. "eta" \in skew
  BY <1>1 DEF FlowInv, NoEta, Flowing!In
<1>4. value' \in Nat /\ Limited'
  BY <1>1 DEF FlowInv, FlowTyped, Limited, Flowing!Dec, Flowing!Greater
<1>5. FlowTyped(s)'
  BY ScalerStays, <1>1, <1>4 DEF FlowInv, FlowTyped
<1>6. PoolStaffed(s)'
  BY <1>1, <1>2 DEF FlowInv, PoolStaffed, Flowing!Busy, Flowing!Autoscaling
<1>7. NoEta(s)' /\ CountExact(s)'
  BY <1>1, <1>3 DEF NoEta, CountExact
<1> QED
  BY <1>4, <1>5, <1>6, <1>7 DEF FlowInv

\* An acknowledgement after a reconnect raises the count to no more than its maximum.
LEMMA RestoreKeeps ==
    ASSUME NEW s \in DOMAIN Flows, FlowInv(s), procs >= 1, Flowing(s)!Restore, procs' = procs,
           skew' = skew
    PROVE  /\ initial' \in Nat /\ value' \in Nat /\ prev' \in Nat /\ granted' \in Nat
           /\ restored' \in BOOLEAN /\ CountExact(s)' /\ Limited'
<1>1. CASE restored
  BY <1>1 DEF Flowing!Restore, Flowing!counts, FlowInv, FlowTyped, CountExact, Limited,
              Flowing!MaxPrefetch, Flowing!Autoscaling
<1>2. CASE ~restored
  <2> DEFINE new == Flowing(s)!Lesser(Flowing(s)!MaxPrefetch(procs), value + Flows[s].multiplier)
  <2>1. /\ initial' = new /\ value' = new /\ prev' = new /\ granted' = new
        /\ restored' = (new = Flowing(s)!MaxPrefetch(procs))
    BY <1>2 DEF Flowing!Restore
  <2>2. new \in Nat \ {0} /\ new =< Flowing(s)!MaxPrefetch(procs)
    <3>1. /\ Flowing(s)!MaxPrefetch(procs) \in Nat
          /\ Flowing(s)!MaxPrefetch(procs) >= Flows[s].multiplier
      BY PrefetchFacts DEF FlowInv, FlowTyped
    <3> QED
      BY <3>1, FlowNumbers DEF FlowInv, FlowTyped, Flowing!Lesser
  <2>3. Flowing(s)!MaxPrefetch(procs') = Flowing(s)!MaxPrefetch(procs)
    OBVIOUS
  <2> HIDE DEF new
  <2>4. Flowing(s)!MaxPrefetch(procs)' = Flowing(s)!MaxPrefetch(procs)
    BY DEF Flowing!MaxPrefetch
  <2>5. CountExact(s)' /\ Limited'
    BY <2>1, <2>2, <2>4 DEF CountExact, Limited
  <2> QED
    BY <2>1, <2>2, <2>5
<1> QED
  BY <1>1, <1>2

\* So does the acknowledgement of any message.
LEMMA AcknowledgeKeeps ==
    ASSUME NEW s \in DOMAIN Flows, FlowInv(s), NEW t \in Flows[s].tasks, procs >= 1,
           Flowing(s)!Acknowledge(t), procs' = procs, skew' = skew
    PROVE  /\ initial' \in Nat /\ value' \in Nat /\ prev' \in Nat /\ granted' \in Nat
           /\ restored' \in BOOLEAN /\ CountExact(s)' /\ Limited'
           /\ carries' \subseteq unacked' /\ unacked' \subseteq Flows[s].tasks
<1>1. carries' \subseteq unacked' /\ unacked' \subseteq Flows[s].tasks
  BY DEF Flowing!Acknowledge, FlowInv, FlowTyped
<1>2. CASE t \in carries
  BY <1>1, <1>2, RestoreKeeps DEF Flowing!Acknowledge
<1>3. CASE t \notin carries
  BY <1>1, <1>3 DEF Flowing!Acknowledge, Flowing!counts, FlowInv, FlowTyped, CountExact, Limited,
                    Flowing!MaxPrefetch, Flowing!Autoscaling
<1> QED
  BY <1>2, <1>3

\* The start of a task in the pool keeps the invariant.
LEMMA RunStep ==
    ASSUME NEW s \in DOMAIN Flows, FlowInv(s), NEW t \in Flows[s].tasks,
           Flowing(s)!Run(t) PROVE FlowInv(s)'
<1>1. /\ place[t] = "reserved" /\ Flowing(s)!Busy < procs
      /\ place' = [place EXCEPT ![t] = "active"]
      /\ UNCHANGED <<procs, scaler, restarts, commands, skew>>
      /\ IF Flows[s].late THEN UNCHANGED <<unacked, carries, Flowing(s)!counts>>
                          ELSE Flowing(s)!Acknowledge(t)
  BY DEF Flowing!Run
<1>2. /\ Flowing(s)!In("active")' = Flowing(s)!In("active") \cup {t}
      /\ t \notin Flowing(s)!In("active")
  <2>1. \A u \in Flows[s].tasks : place'[u] = "active" <=> place[u] = "active" \/ u = t
    BY <1>1 DEF FlowInv, FlowTyped
  <2> QED
    BY <1>1, <2>1 DEF Flowing!In
<1>3. Flowing(s)!In("eta")' = Flowing(s)!In("eta")
  <2>1. \A u \in Flows[s].tasks : place'[u] = "eta" <=> place[u] = "eta"
    BY <1>1 DEF FlowInv, FlowTyped
  <2> QED
    BY <2>1 DEF Flowing!In
<1>4. Flowing(s)!Busy \in Nat /\ Flowing(s)!Busy' = Flowing(s)!Busy + 1
  BY <1>2, BusyFacts, FlowSets, FS_AddElement DEF Flowing!Busy
<1>5. PoolStaffed(s)'
  BY <1>1, <1>4 DEF FlowInv, FlowTyped, PoolStaffed, Flowing!Autoscaling
<1>6. NoEta(s)'
  BY <1>1, <1>3 DEF FlowInv, NoEta
<1>7. /\ initial' \in Nat /\ value' \in Nat /\ prev' \in Nat /\ granted' \in Nat
      /\ restored' \in BOOLEAN /\ CountExact(s)' /\ Limited'
      /\ carries' \subseteq unacked' /\ unacked' \subseteq Flows[s].tasks
  <2>1. procs >= 1
    BY <1>1, <1>4 DEF FlowInv, FlowTyped
  <2>2. CASE Flows[s].late
    BY <1>1, <2>2 DEF Flowing!counts, FlowInv, FlowTyped, CountExact, Limited,
                      Flowing!MaxPrefetch, Flowing!Autoscaling
  <2>3. CASE ~Flows[s].late
    BY <1>1, <2>1, <2>3, AcknowledgeKeeps
  <2> QED
    BY <2>2, <2>3
<1>8. FlowTyped(s)'
  BY ScalerStays, <1>1, <1>7 DEF FlowInv, FlowTyped
<1> QED
  BY <1>5, <1>6, <1>7, <1>8 DEF FlowInv

\* The end of a task keeps it.
LEMMA FinishStep ==
    ASSUME NEW s \in DOMAIN Flows, FlowInv(s), NEW t \in Flows[s].tasks,
           Flowing(s)!Finish(t) PROVE FlowInv(s)'
<1>1. /\ place[t] = "active" /\ place' = [place EXCEPT ![t] = "done"]
      /\ UNCHANGED <<procs, scaler, restarts, commands, skew>>
      /\ IF Flows[s].late THEN Flowing(s)!Acknowledge(t)
                          ELSE UNCHANGED <<unacked, carries, Flowing(s)!counts>>
  BY DEF Flowing!Finish
<1>2. Flowing(s)!In("active")' = Flowing(s)!In("active") \ {t} /\ t \in Flowing(s)!In("active")
  <2>1. \A u \in Flows[s].tasks : place'[u] = "active" <=> place[u] = "active" /\ u # t
    BY <1>1 DEF FlowInv, FlowTyped
  <2> QED
    BY <1>1, <2>1 DEF Flowing!In
<1>3. Flowing(s)!In("eta")' = Flowing(s)!In("eta")
  <2>1. \A u \in Flows[s].tasks : place'[u] = "eta" <=> place[u] = "eta"
    BY <1>1 DEF FlowInv, FlowTyped
  <2> QED
    BY <2>1 DEF Flowing!In
<1>4. Flowing(s)!Busy \in Nat /\ Flowing(s)!Busy' = Flowing(s)!Busy - 1 /\ Flowing(s)!Busy >= 1
  <2>1. IsFiniteSet(Flowing(s)!In("active")) /\ Flowing(s)!Busy \in Nat
    BY BusyFacts, FlowSets DEF Flowing!Busy
  <2>2. Flowing(s)!Busy' = Flowing(s)!Busy - 1
    BY <1>2, <2>1, FlowSets, FS_RemoveElement DEF Flowing!Busy
  <2>3. Flowing(s)!Busy # 0
    BY <1>2, <2>1, FlowSets, FS_EmptySet DEF Flowing!Busy
  <2> QED
    BY <2>1, <2>2, <2>3
<1>5. PoolStaffed(s)'
  BY <1>1, <1>4 DEF FlowInv, FlowTyped, PoolStaffed, Flowing!Autoscaling
<1>6. NoEta(s)'
  BY <1>1, <1>3 DEF FlowInv, NoEta
<1>7. /\ initial' \in Nat /\ value' \in Nat /\ prev' \in Nat /\ granted' \in Nat
      /\ restored' \in BOOLEAN /\ CountExact(s)' /\ Limited'
      /\ carries' \subseteq unacked' /\ unacked' \subseteq Flows[s].tasks
  <2>1. procs >= 1
    BY <1>4 DEF FlowInv, FlowTyped, PoolStaffed
  <2>2. CASE ~Flows[s].late
    BY <1>1, <2>2 DEF Flowing!counts, FlowInv, FlowTyped, CountExact, Limited,
                      Flowing!MaxPrefetch, Flowing!Autoscaling
  <2>3. CASE Flows[s].late
    BY <1>1, <2>1, <2>3, AcknowledgeKeeps
  <2> QED
    BY <2>2, <2>3
<1>8. FlowTyped(s)'
  BY ScalerStays, <1>1, <1>7 DEF FlowInv, FlowTyped
<1> QED
  BY <1>5, <1>6, <1>7, <1>8 DEF FlowInv

\* A pool shrinks to no fewer processes than are busy.
LEMMA ShrunkFacts ==
    ASSUME NEW s \in DOMAIN Flows, FlowInv(s), NEW n \in Nat
    PROVE  /\ Flowing(s)!Busy \in Nat /\ Flowing(s)!Shrunk(n) \in 0..procs
           /\ Flowing(s)!Busy =< Flowing(s)!Shrunk(n)
           /\ Flowing(s)!Shrunk(n) >= procs - n
           /\ ~Flowing(s)!ShrinkFails(n) => Flowing(s)!Shrunk(n) = procs - n
           /\ Flowing(s)!ShrinkFails(n) => Flowing(s)!Shrunk(n) = Flowing(s)!Busy
<1>1. Flowing(s)!Busy \in Nat /\ procs \in Nat /\ Flowing(s)!Busy =< procs
  BY BusyFacts, FlowSets DEF FlowInv, FlowTyped, PoolStaffed, Flowing!Busy
<1> QED
  BY <1>1 DEF Flowing!Shrunk, Flowing!ShrinkFails, Flowing!Lesser

\* The autoscaler's limits are within the bound.
LEMMA ScalerFacts ==
    ASSUME NEW s \in DOMAIN Flows,
           FlowInv(s) PROVE scaler.max \in 0..Flows[s].procs /\ scaler.min \in 0..Flows[s].procs
BY DEF FlowInv, FlowTyped, ScalerTyped

\* The time of the last scaling may change.
LEMMA ScalerMoves ==
    ASSUME NEW s \in DOMAIN Flows, FlowInv(s), NEW upper \in {"never", "recently", "long ago"},
           scaler' = [scaler EXCEPT !.up = upper]
    PROVE  ScalerTyped(s)'
BY DEF FlowInv, FlowTyped, ScalerTyped

\* Scaling stays within the limits, and spares the busy processes.
LEMMA MaybeScaleKeeps ==
    ASSUME NEW s \in DOMAIN Flows, FlowInv(s), NEW load \in Nat, Flowing(s)!MaybeScale(load)
    PROVE  /\ procs' \in 0..Flows[s].procs /\ Flowing(s)!Busy =< procs' /\ ScalerTyped(s)'
           /\ ~Flowing(s)!Autoscaling => procs' = procs
<1> DEFINE upper == Flowing(s)!Lesser(load, scaler.max)
           lower == Flowing(s)!Greater(load, scaler.min)
<1>1. /\ upper \in Nat /\ upper =< Flows[s].procs /\ lower \in Nat /\ procs \in Nat
      /\ Flowing(s)!Busy \in Nat
  BY ScalerFacts, ShrunkFacts, FlowNumbers DEF FlowInv, FlowTyped, Flowing!Lesser, Flowing!Greater
<1>2. \/ UNCHANGED <<procs, scaler>>
      \/ /\ Flowing(s)!Autoscaling /\ upper > procs /\ procs' = upper
         /\ scaler' = [scaler EXCEPT !.up = "recently"]
      \/ Flowing(s)!Autoscaling /\ lower < procs /\ procs' = Flowing(s)!Shrunk(procs - lower) /\ UNCHANGED scaler
  BY DEF Flowing!MaybeScale
<1> HIDE DEF upper, lower
<1>3. CASE UNCHANGED <<procs, scaler>>
  BY <1>3, ScalerStays DEF FlowInv, FlowTyped, PoolStaffed
<1>4. CASE /\ Flowing(s)!Autoscaling /\ upper > procs /\ procs' = upper
           /\ scaler' = [scaler EXCEPT !.up = "recently"]
  <2>1. ScalerTyped(s)'
    BY <1>4, ScalerMoves
  <2> QED
    BY <1>1, <1>4, <2>1 DEF FlowInv, FlowTyped, PoolStaffed
<1>5. CASE Flowing(s)!Autoscaling /\ lower < procs /\ procs' = Flowing(s)!Shrunk(procs - lower) /\ UNCHANGED scaler
  <2>1. procs - lower \in Nat
    BY <1>1, <1>5
  <2> QED
    BY <1>1, <1>5, <2>1, ShrunkFacts, ScalerStays, FlowNumbers DEF FlowInv, FlowTyped
<1> QED
  BY <1>2, <1>3, <1>4, <1>5

\* The load is a number.
LEMMA LoadFacts ==
    ASSUME NEW s \in DOMAIN Flows, NEW tasks PROVE Flowing(s)!Load(tasks) \in Nat
<1>1. IsFiniteSet({t \in Flows[s].tasks : tasks[t] \in {"reserved", "active"}})
  BY FlowsRight, FlowSets, FS_Subset DEF Flowing!FlowConstants
<1> QED
  BY <1>1, FlowSets, FS_CardinalityType DEF Flowing!Load

\* A delivery, with its increment for an eta and its scaling, keeps the invariant.
LEMMA DeliverStep ==
    ASSUME NEW s \in DOMAIN Flows, FlowInv(s), NEW t \in Flows[s].tasks,
           Flowing(s)!Deliver(t) PROVE FlowInv(s)'
<1>1. /\ place[t] = "queue" /\ unacked' = unacked \cup {t} /\ carries' \subseteq carries \cup {t}
      /\ UNCHANGED <<initial, prev, granted, restored, restarts, commands>>
      /\ place' = [place EXCEPT ![t] = IF t \in Flows[s].eta THEN "eta" ELSE "reserved"]
  BY DEF Flowing!Deliver
<1>2. IF t \in Flows[s].eta
        THEN /\ value' = Flowing(s)!Inc(value, 1) /\ skew' = skew \cup {"eta"}
             /\ UNCHANGED <<procs, scaler>>
        ELSE Flowing(s)!MaybeScale(Flowing(s)!Load(place')) /\ UNCHANGED <<value, skew>>
  BY DEF Flowing!Deliver
<1>3. Flowing(s)!In("active")' = Flowing(s)!In("active")
  <2>1. \A u \in Flows[s].tasks : place'[u] = "active" <=> place[u] = "active"
    BY <1>1 DEF FlowInv, FlowTyped
  <2> QED
    BY <2>1 DEF Flowing!In
<1>4. /\ procs' \in 0..Flows[s].procs /\ Flowing(s)!Busy =< procs' /\ ScalerTyped(s)'
      /\ ~Flowing(s)!Autoscaling => procs' = procs
  <2>1. CASE t \in Flows[s].eta
    BY <1>2, <2>1, ScalerStays DEF FlowInv, FlowTyped, PoolStaffed
  <2>2. CASE t \notin Flows[s].eta
    BY <1>2, <2>2, MaybeScaleKeeps, LoadFacts
  <2> QED
    BY <2>1, <2>2
<1>5. value' \in Nat /\ skew' \subseteq {"eta", "shrink", "empty"} /\ Limited'
  <2>1. CASE t \in Flows[s].eta
    <3>1. value' = Flowing(s)!Inc(value, 1) /\ skew' = skew \cup {"eta"} /\ initial' = initial
      BY <1>1, <1>2, <2>1
    <3>2. value \in Nat /\ skew \subseteq {"eta", "shrink", "empty"} /\ Limited
      BY DEF FlowInv, FlowTyped
    <3>3. value' \in Nat /\ (value # 0 => value' # 0)
      BY <3>1, <3>2 DEF Flowing!Inc
    <3> QED
      BY <3>1, <3>2, <3>3 DEF Limited
  <2>2. CASE t \notin Flows[s].eta
    BY <1>1, <1>2, <2>2 DEF FlowInv, FlowTyped, Limited
  <2> QED
    BY <2>1, <2>2
<1>6. FlowTyped(s)'
  BY <1>1, <1>4, <1>5 DEF FlowInv, FlowTyped
<1>7. PoolStaffed(s)'
  <2>1. "empty" \in skew => "empty" \in skew'
    BY <1>2
  <2>2. Flowing(s)!Busy' = Flowing(s)!Busy /\ (Flowing(s)!Autoscaling' <=> Flowing(s)!Autoscaling)
    BY <1>3 DEF Flowing!Busy, Flowing!Autoscaling
  <2>3. ~Flowing(s)!Autoscaling => procs >= 1 \/ "empty" \in skew
    BY DEF FlowInv, PoolStaffed
  <2> QED
    BY <1>4, <2>1, <2>2, <2>3 DEF PoolStaffed
<1>8. NoEta(s)'
  <2>1. CASE t \in Flows[s].eta
    BY <1>2, <2>1 DEF NoEta
  <2>2. CASE t \notin Flows[s].eta
    <3>1. \A u \in Flows[s].tasks : place'[u] = "eta" <=> place[u] = "eta"
      BY <1>1, <2>2 DEF FlowInv, FlowTyped
    <3>2. Flowing(s)!In("eta")' = Flowing(s)!In("eta") /\ skew' = skew
      BY <1>2, <2>2, <3>1 DEF Flowing!In
    <3> QED
      BY <3>2 DEF FlowInv, NoEta
  <2> QED
    BY <2>1, <2>2
<1>9. CountExact(s)'
  <2>1. CASE t \in Flows[s].eta
    BY <1>2, <2>1 DEF CountExact
  <2>2. CASE t \notin Flows[s].eta
    BY <1>1, <1>2, <1>4, <2>2 DEF FlowInv, CountExact, Flowing!MaxPrefetch, Flowing!Autoscaling
  <2> QED
    BY <2>1, <2>2
<1> QED
  BY <1>5, <1>6, <1>7, <1>8, <1>9 DEF FlowInv

\* The thread of the autoscaler keeps it.
LEMMA AutoscalerStep ==
    ASSUME NEW s \in DOMAIN Flows, FlowInv(s), Flowing(s)!Autoscaler PROVE FlowInv(s)'
<1>1. /\ Flowing(s)!Autoscaling
      /\ UNCHANGED <<place, unacked, carries, initial, value, prev, granted, restored, restarts,
                     commands, skew>>
  BY DEF Flowing!Autoscaler, Flowing!counts
<1>2. procs' \in 0..Flows[s].procs /\ Flowing(s)!Busy =< procs' /\ ScalerTyped(s)'
  <2>1. CASE Flowing(s)!MaybeScale(Flowing(s)!Load(place))
    BY <2>1, MaybeScaleKeeps, LoadFacts
  <2>2. CASE scaler' = [scaler EXCEPT !.up = "long ago"] /\ UNCHANGED procs
    BY <2>2, ScalerMoves DEF FlowInv, FlowTyped, PoolStaffed
  <2> QED
    BY <2>1, <2>2 DEF Flowing!Autoscaler
<1>3. FlowTyped(s)'
  BY <1>1, <1>2 DEF FlowInv, FlowTyped
<1>4. Flowing(s)!Busy' = Flowing(s)!Busy /\ Flowing(s)!In("eta")' = Flowing(s)!In("eta")
  BY <1>1 DEF Flowing!Busy, Flowing!In
<1>5. Limited' /\ PoolStaffed(s)' /\ NoEta(s)' /\ CountExact(s)'
  BY <1>1, <1>2, <1>4 DEF FlowInv, Limited, PoolStaffed, NoEta, CountExact, Flowing!Autoscaling
<1> QED
  BY <1>3, <1>5 DEF FlowInv

\* A count that is not 0 stays so when the pool is resized.
LEMMA CountKeeps ==
    ASSUME NEW s \in DOMAIN Flows, FlowInv(s), NEW num \in Nat, NEW index \in Int,
           Flowing(s)!UpdatePrefetchCount(num, index)
    PROVE  initial' \in Nat /\ value' \in Nat /\ (Limited /\ skew \subseteq skew' => Limited')
<1>0. initial \in Nat /\ value \in Nat
  BY DEF FlowInv, FlowTyped
<1>1. CASE num = 0 \/ initial = 0
  BY <1>0, <1>1 DEF Flowing!UpdatePrefetchCount, Limited
<1>2. CASE num # 0 /\ initial # 0
  <2>1. initial' = Flowing(s)!MaxPrefetch(num)
    BY <1>2 DEF Flowing!UpdatePrefetchCount
  <2>2. value' = IF index < 0 THEN Flowing(s)!Dec(value, Flows[s].multiplier * (0 - index))
                              ELSE Flowing(s)!Inc(value, Flows[s].multiplier * index)
    BY <1>2 DEF Flowing!UpdatePrefetchCount
  <2>3. Flows[s].multiplier * (0 - index) \in Int /\ Flows[s].multiplier * index \in Int
    BY FlowNumbers
  <2>4. index >= 0 => Flows[s].multiplier * index >= 0
    BY FlowNumbers
  <2>5. value' \in Nat /\ (value # 0 => value' # 0)
    BY <1>0, <2>2, <2>3, <2>4 DEF Flowing!Dec, Flowing!Inc, Flowing!Greater
  <2>6. initial' \in Nat \ {0}
    BY <1>2, <2>1, FlowNumbers, PrefetchFacts
  <2> QED
    BY <2>5, <2>6 DEF Limited
<1> QED
  BY <1>1, <1>2

\* A command that resizes the pool and keeps the count exact keeps the invariant.
LEMMA HandledKeeps ==
    ASSUME NEW s \in DOMAIN Flows, FlowInv(s), Flowing(s)!Handled, procs' \in 0..Flows[s].procs,
           Flowing(s)!Busy =< procs', ScalerTyped(s)',
           ~Flowing(s)!Autoscaling => procs' >= 1 \/ "empty" \in skew', initial' \in Nat,
           value' \in Nat, Limited', skew' \subseteq {"eta", "shrink", "empty"},
           skew \subseteq skew', CountExact(s)'
    PROVE  FlowInv(s)'
<1>1. /\ commands' \in 0..Flows[s].commands
      /\ UNCHANGED <<place, unacked, carries, prev, granted, restored, restarts>>
  BY FlowsRight DEF Flowing!Handled, FlowInv, FlowTyped, Flowing!FlowConstants
<1>2. FlowTyped(s)'
  BY <1>1 DEF FlowInv, FlowTyped
<1>3. Flowing(s)!Busy' = Flowing(s)!Busy /\ Flowing(s)!In("eta")' = Flowing(s)!In("eta")
  BY <1>1 DEF Flowing!Busy, Flowing!In
<1>4. PoolStaffed(s)'
  <2>1. Flowing(s)!Autoscaling' <=> Flowing(s)!Autoscaling
    BY DEF Flowing!Autoscaling
  <2> QED
    BY <1>3, <2>1 DEF PoolStaffed
<1>5. NoEta(s)'
  BY <1>3 DEF FlowInv, NoEta
<1> QED
  BY <1>2, <1>4, <1>5 DEF FlowInv

\* pool_grow keeps it.
LEMMA PoolGrowStep ==
    ASSUME NEW s \in DOMAIN Flows, FlowInv(s), NEW n \in 1..2,
           Flowing(s)!PoolGrow(n) PROVE FlowInv(s)'
<1>1. /\ Flowing(s)!Handled /\ ~Flowing(s)!Autoscaling /\ procs + n =< Flows[s].procs
      /\ procs' = procs + n
      /\ Flowing(s)!UpdatePrefetchCount(procs + n, n) /\ scaler' = scaler /\ skew' = skew
      /\ restored' = restored
  BY DEF Flowing!PoolGrow, Flowing!Handled
<1>2. procs \in Nat /\ value \in Nat /\ initial \in Nat /\ Flowing(s)!Busy \in Nat
  BY ShrunkFacts DEF FlowInv, FlowTyped
<1>3. procs' \in 0..Flows[s].procs /\ Flowing(s)!Busy =< procs' /\ procs' >= 1
  BY <1>1, <1>2, FlowNumbers DEF FlowInv, PoolStaffed
<1>4. initial' \in Nat /\ value' \in Nat /\ Limited'
  <2>1. procs + n \in Nat /\ n \in Int /\ skew \subseteq skew' /\ Limited
    BY <1>1, <1>2 DEF FlowInv
  <2> QED
    BY <1>1, <2>1, CountKeeps
<1>5. skew = {} => value' = value + Flows[s].multiplier * n
  <2>1. skew = {} => initial # 0 /\ value # 0
    BY DEF FlowInv, Limited
  <2> QED
    BY <1>1, <1>2, <2>1, FlowNumbers DEF Flowing!UpdatePrefetchCount, Flowing!Inc
<1>6. Flowing(s)!MaxPrefetch(procs + n) = Flowing(s)!MaxPrefetch(procs) + Flows[s].multiplier * n
  BY <1>2, PrefetchSum
<1>7. Flows[s].multiplier * n \in Nat /\ Flowing(s)!MaxPrefetch(procs) \in Nat
  <2>1. n \in Nat
    OBVIOUS
  <2>2. Flows[s].multiplier * n \in Nat
    BY <1>2, <2>1, PrefetchSum
  <2>3. Flowing(s)!MaxPrefetch(procs) \in Nat
    BY <1>2, PrefetchFacts
  <2> QED
    BY <2>2, <2>3
<1>8. Flowing(s)!MaxPrefetch(procs)' = Flowing(s)!MaxPrefetch(procs + n)
  BY <1>1 DEF Flowing!MaxPrefetch
<1>9. CountExact(s)'
  BY <1>1, <1>2, <1>5, <1>6, <1>7, <1>8 DEF FlowInv, CountExact
<1>10. ScalerTyped(s)' /\ skew' \subseteq {"eta", "shrink", "empty"} /\ skew \subseteq skew'
  BY <1>1, ScalerStays DEF FlowInv, FlowTyped
<1> QED
  BY <1>1, <1>3, <1>4, <1>9, <1>10, HandledKeeps

\* pool_shrink keeps it, also where it fails on busy processes.
LEMMA PoolShrinkStep ==
    ASSUME NEW s \in DOMAIN Flows, FlowInv(s), NEW n \in 1..2,
           Flowing(s)!PoolShrink(n) PROVE FlowInv(s)'
<1>1. /\ Flowing(s)!Handled /\ ~Flowing(s)!Autoscaling
      /\ procs' = Flowing(s)!Shrunk(n)
      /\ scaler' = scaler /\ restored' = restored
      /\ skew \subseteq skew' /\ skew' \subseteq skew \cup {"shrink", "empty"}
      /\ Flowing(s)!ShrinkFails(n) => /\ Flowing(s)!Shrunk(n) # procs => "shrink" \in skew'
                                      /\ UNCHANGED <<initial, value>>
      /\ ~Flowing(s)!ShrinkFails(n) => Flowing(s)!UpdatePrefetchCount(procs - n, 0 - n)
      /\ Flowing(s)!Shrunk(n) = 0 => "empty" \in skew'
  BY DEF Flowing!PoolShrink, Flowing!Handled
<1>2. /\ procs \in Nat /\ value \in Nat /\ initial \in Nat
      /\ procs =< Flows[s].procs /\ skew \subseteq {"eta", "shrink", "empty"} /\ Limited
  BY FlowNumbers DEF FlowInv, FlowTyped
<1>3. /\ Flowing(s)!Busy \in Nat /\ Flowing(s)!Shrunk(n) \in 0..procs
      /\ Flowing(s)!Busy =< Flowing(s)!Shrunk(n) /\ Flowing(s)!Shrunk(n) >= procs - n
      /\ ~Flowing(s)!ShrinkFails(n) => Flowing(s)!Shrunk(n) = procs - n
  BY ShrunkFacts
<1>4. /\ procs' \in 0..Flows[s].procs /\ Flowing(s)!Busy =< procs'
      /\ procs' >= 1 \/ "empty" \in skew'
  BY <1>1, <1>2, <1>3, FlowNumbers
<1>s. skew' \subseteq {"eta", "shrink", "empty"} /\ skew \subseteq skew'
  BY <1>1, <1>2
<1>5. ScalerTyped(s)'
  BY <1>1, ScalerStays DEF FlowInv, FlowTyped
<1>6. CASE Flowing(s)!ShrinkFails(n)
  <2>1. initial' \in Nat /\ value' \in Nat /\ Limited'
    BY <1>1, <1>2, <1>6 DEF Limited
  <2>2. CountExact(s)'
    BY <1>1, <1>2, <1>6, <1>s DEF FlowInv, CountExact, Flowing!MaxPrefetch, Flowing!Autoscaling
  <2> QED
    BY <1>1, <1>4, <1>5, <1>s, <2>1, <2>2, HandledKeeps
<1>7. CASE ~Flowing(s)!ShrinkFails(n)
  <2>1. procs - n \in Nat /\ procs' = procs - n /\ 0 - n \in Int
    BY <1>1, <1>2, <1>3, <1>7
  <2>2. initial' \in Nat /\ value' \in Nat /\ Limited'
    BY <1>1, <1>2, <1>7, <1>s, <2>1, CountKeeps
  <2>3. ASSUME skew' = {}
        PROVE  /\ skew = {} /\ procs - n >= 1
               /\ value' = Flowing(s)!Dec(value, Flows[s].multiplier * n)
    <3>1. skew = {} /\ procs - n # 0 /\ initial # 0
      BY <1>1, <1>2, <1>3, <1>7, <2>3 DEF Limited
    <3> QED
      BY <1>1, <1>2, <1>7, <2>1, <3>1, FlowNumbers DEF Flowing!UpdatePrefetchCount
  <2>4. /\ Flowing(s)!MaxPrefetch(procs - n) = Flowing(s)!MaxPrefetch(procs) - Flows[s].multiplier * n
        /\ procs - n >= 1 => Flowing(s)!MaxPrefetch(procs - n) >= 1
        /\ Flowing(s)!MaxPrefetch(procs - n) \in Nat
    <3>1. n \in Nat /\ procs - n + n = procs
      BY <1>2
    <3>2. /\ Flowing(s)!MaxPrefetch(procs - n + n) = Flowing(s)!MaxPrefetch(procs - n) + Flows[s].multiplier * n
          /\ Flows[s].multiplier * n \in Nat
      BY <2>1, <3>1, PrefetchSum
    <3>3. /\ Flowing(s)!MaxPrefetch(procs - n) \in Nat
          /\ procs - n >= 1 => Flowing(s)!MaxPrefetch(procs - n) >= Flows[s].multiplier
      BY <2>1, PrefetchFacts
    <3>4. procs - n >= 1 => Flowing(s)!MaxPrefetch(procs - n) >= 1
      BY <3>3, FlowNumbers
    <3> QED
      BY <3>1, <3>2, <3>3, <3>4
  <2>5. Flows[s].multiplier * n \in Nat /\ Flowing(s)!MaxPrefetch(procs) \in Nat
    <3>1. n \in Nat
      OBVIOUS
    <3>2. Flows[s].multiplier * n \in Nat
      BY <1>2, <3>1, PrefetchSum
    <3>3. Flowing(s)!MaxPrefetch(procs) \in Nat
      BY <1>2, PrefetchFacts
    <3> QED
      BY <3>2, <3>3
  <2>6. Flowing(s)!MaxPrefetch(procs)' = Flowing(s)!MaxPrefetch(procs - n)
    BY <2>1 DEF Flowing!MaxPrefetch
  <2>7. CountExact(s)'
    <3>1. SUFFICES ASSUME skew' = {}, ~Flowing(s)!Autoscaling'
                   PROVE  /\ value' =< Flowing(s)!MaxPrefetch(procs - n)
                          /\ restored => value' = Flowing(s)!MaxPrefetch(procs - n)
      BY <1>1, <2>6 DEF CountExact
    <3>2. /\ skew = {} /\ procs - n >= 1 /\ value # 0
          /\ value' = Flowing(s)!Dec(value, Flows[s].multiplier * n)
      BY <1>2, <2>3, <3>1 DEF Limited
    <3>3. /\ value =< Flowing(s)!MaxPrefetch(procs)
          /\ restored => value = Flowing(s)!MaxPrefetch(procs)
      BY <1>1, <3>2 DEF FlowInv, CountExact
    <3> QED
      BY <1>2, <2>4, <2>5, <3>2, <3>3 DEF Flowing!Dec, Flowing!Greater
  <2> QED
    BY <1>1, <1>4, <1>5, <1>s, <2>2, <2>7, HandledKeeps
<1> QED
  BY <1>6, <1>7

\* A change of the autoscale limits keeps it.
LEMMA AutoscaleUpdateStep ==
    ASSUME NEW s \in DOMAIN Flows, FlowInv(s), NEW max \in 0..Flows[s].procs,
           NEW min \in 0..Flows[s].procs, Flowing(s)!AutoscaleUpdate(max, min)
    PROVE  FlowInv(s)'
<1> DEFINE shrunk == IF max < procs THEN Flowing(s)!Shrunk(procs - max) ELSE procs
<1>1. /\ Flowing(s)!Handled /\ Flowing(s)!Autoscaling /\ procs' = Flowing(s)!Greater(shrunk, min)
      /\ skew' = skew
      /\ \/ UNCHANGED <<initial, value>>
         \/ Flowing(s)!UpdatePrefetchCount(shrunk, max - scaler.max)
      /\ scaler' = [scaler EXCEPT !.max = max, !.min = min]
  BY DEF Flowing!AutoscaleUpdate
<1>2. /\ procs \in Nat /\ procs =< Flows[s].procs /\ max \in Nat /\ min \in Nat
      /\ min =< Flows[s].procs
      /\ scaler.max \in Nat /\ Flowing(s)!Busy \in Nat /\ Flowing(s)!Busy =< procs
  BY ScalerFacts, ShrunkFacts, FlowNumbers DEF FlowInv, FlowTyped, PoolStaffed
<1>3. shrunk \in Nat /\ shrunk =< Flows[s].procs /\ Flowing(s)!Busy =< shrunk
  <2>1. CASE max < procs
    <3>1. procs - max \in Nat
      BY <1>2, <2>1
    <3>2. /\ Flowing(s)!Shrunk(procs - max) \in 0..procs
          /\ Flowing(s)!Busy =< Flowing(s)!Shrunk(procs - max)
      BY <3>1, ShrunkFacts
    <3>3. shrunk = Flowing(s)!Shrunk(procs - max)
      BY <2>1
    <3> HIDE DEF shrunk
    <3> QED
      BY <1>2, <3>2, <3>3, FlowNumbers
  <2>2. CASE ~(max < procs)
    BY <1>2, <2>2
  <2> QED
    BY <2>1, <2>2
<1> HIDE DEF shrunk
<1>4. procs' \in 0..Flows[s].procs /\ Flowing(s)!Busy =< procs'
  BY <1>1, <1>2, <1>3, FlowNumbers DEF Flowing!Greater
<1>5. initial' \in Nat /\ value' \in Nat /\ Limited'
  <2>1. CASE UNCHANGED <<initial, value>>
    BY <1>1, <2>1 DEF FlowInv, FlowTyped, Limited
  <2>2. CASE Flowing(s)!UpdatePrefetchCount(shrunk, max - scaler.max)
    <3>1. max - scaler.max \in Int /\ skew \subseteq skew' /\ Limited
      BY <1>1, <1>2 DEF FlowInv
    <3> QED
      BY <1>3, <2>2, <3>1, CountKeeps
  <2> QED
    BY <1>1, <2>1, <2>2
<1>6. ScalerTyped(s)'
  BY <1>1 DEF FlowInv, FlowTyped, ScalerTyped
<1>7. CountExact(s)' /\ skew' \subseteq {"eta", "shrink", "empty"} /\ skew \subseteq skew'
  BY <1>1 DEF CountExact, Flowing!Autoscaling, FlowInv, FlowTyped
<1> QED
  BY <1>1, <1>4, <1>5, <1>6, <1>7, HandledKeeps

\* A lost connection, with the reduced count it leaves, keeps it.
LEMMA LoseConnectionStep ==
    ASSUME NEW s \in DOMAIN Flows, FlowInv(s), Flowing(s)!LoseConnection PROVE FlowInv(s)'
<1> DEFINE new == IF Flows[s].quorum THEN Flowing(s)!MaxPrefetch(procs)
                  ELSE Flowing(s)!Greater(Flows[s].multiplier,
                         Flowing(s)!MaxPrefetch(procs) - Flowing(s)!Busy * Flows[s].multiplier)
           held == {t \in Flows[s].tasks : place[t] \in {"eta", "reserved"}}
<1>1. /\ restarts < Flows[s].losses /\ restarts' = restarts + 1
      /\ initial' = new /\ value' = new /\ prev' = new /\ granted' = new
      /\ restored' = (new = Flowing(s)!MaxPrefetch(procs))
      /\ place' = [t \in Flows[s].tasks |-> IF t \in held THEN "queue" ELSE place[t]]
      /\ unacked' = {} /\ carries' = {} /\ skew' = IF procs = 0 THEN {"empty"} ELSE {}
      /\ procs' = procs /\ scaler' = scaler /\ commands' = commands
  BY DEF Flowing!LoseConnection, Flowing!TasksStart, Flowing!Skewed
<1>2. procs \in Nat /\ Flowing(s)!Busy \in Nat
  BY ShrunkFacts DEF FlowInv, FlowTyped
<1>3. Flowing(s)!Busy * Flows[s].multiplier \in Nat /\ Flowing(s)!MaxPrefetch(procs) \in Nat
  BY <1>2, FlowNumbers, PrefetchFacts
<1>4. new \in Nat /\ (procs >= 1 => new # 0 /\ new =< Flowing(s)!MaxPrefetch(procs))
  <2>1. CASE Flows[s].quorum
    BY <1>2, <1>3, <2>1, FlowNumbers, PrefetchFacts
  <2>2. CASE ~Flows[s].quorum
    BY <1>2, <1>3, <2>2, FlowNumbers, PrefetchFacts DEF Flowing!Greater
  <2> QED
    BY <2>1, <2>2
<1> HIDE DEF new
<1>5. /\ restarts' \in 0..Flows[s].losses /\ restored' \in BOOLEAN
      /\ place' \in [Flows[s].tasks -> {"queue", "eta", "reserved", "active", "done"}]
  BY <1>1, FlowsRight DEF FlowInv, FlowTyped, Flowing!FlowConstants
<1>6. FlowTyped(s)'
  BY <1>1, <1>4, <1>5, ScalerStays DEF FlowInv, FlowTyped
<1>7. Flowing(s)!In("active")' = Flowing(s)!In("active") /\ Flowing(s)!In("eta")' = {}
  <2>1. \A u \in Flows[s].tasks : place'[u] = "active" <=> place[u] = "active"
    BY <1>1 DEF FlowInv, FlowTyped
  <2>2. \A u \in Flows[s].tasks : place'[u] # "eta"
    BY <1>1 DEF FlowInv, FlowTyped
  <2>3. Flowing(s)!In("active")' = Flowing(s)!In("active")
    BY <2>1 DEF Flowing!In
  <2>4. Flowing(s)!In("eta")' = {}
    BY <2>2 DEF Flowing!In
  <2> QED
    BY <2>3, <2>4
<1>s. skew' = IF procs = 0 THEN {"empty"} ELSE {}
  BY <1>1
<1>8. PoolStaffed(s)' /\ NoEta(s)' /\ Limited'
  <2>1. Flowing(s)!Busy' = Flowing(s)!Busy /\ Flowing(s)!Busy =< procs
    BY <1>7 DEF FlowInv, PoolStaffed, Flowing!Busy
  <2>2. procs >= 1 \/ "empty" \in skew'
    BY <1>2, <1>s
  <2>3. PoolStaffed(s)'
    BY <1>1, <2>1, <2>2 DEF PoolStaffed
  <2>4. NoEta(s)'
    BY <1>7 DEF NoEta
  <2>5. Limited'
    BY <1>1, <1>4, <2>2 DEF Limited
  <2> QED
    BY <2>3, <2>4, <2>5
<1>9. Flowing(s)!MaxPrefetch(procs)' = Flowing(s)!MaxPrefetch(procs)
  BY <1>1 DEF Flowing!MaxPrefetch
<1>10. CountExact(s)'
  <2>1. skew' = {} => procs >= 1
    BY <1>2, <1>s
  <2> QED
    BY <1>1, <1>4, <1>9, <2>1 DEF CountExact
<1> QED
  BY <1>6, <1>8, <1>10 DEF FlowInv

\* Every step of tasks, pool and commands keeps it.
LEMMA FlowStep ==
    ASSUME NEW s \in DOMAIN Flows, FlowInv(s), Flowing(s)!Next PROVE FlowInv(s)'
BY DeliverStep, ApplyEtaStep, RunStep, FinishStep, PublishStep, UpdateQosStep, AutoscalerStep,
   LoseConnectionStep, PoolGrowStep, PoolShrinkStep, AutoscaleUpdateStep DEF Flowing!Next,
   Flowing!Work

\* So does a step of another part.
LEMMA FlowStays ==
    ASSUME NEW s \in DOMAIN Flows, FlowInv(s), UNCHANGED Flowing(s)!vars PROVE FlowInv(s)'
<1>1. UNCHANGED <<place, unacked, carries, procs, scaler, initial, value, prev, granted, restored,
                  restarts, commands, skew>>
  BY DEF Flowing!vars
<1>2. FlowTyped(s)'
  BY <1>1, ScalerStays DEF FlowInv, FlowTyped
<1>3. PoolStaffed(s)'
  BY <1>1 DEF FlowInv, PoolStaffed, Flowing!Busy, Flowing!In, Flowing!Autoscaling
<1>4. Limited' /\ NoEta(s)' /\ CountExact(s)'
  BY <1>1 DEF FlowInv, Limited, NoEta, CountExact, Flowing!In, Flowing!MaxPrefetch, Flowing!Autoscaling
<1> QED
  BY <1>2, <1>3, <1>4 DEF FlowInv

\* It gives what is to be shown of the count.
LEMMA FlowFollows ==
    ASSUME NEW s \in DOMAIN Flows, FlowInv(s) PROVE Flowing(s)!FlowRight
<1>1. Cardinality(Flows[s].tasks) \in Nat
  BY FlowsRight, FlowSets, FS_CardinalityType DEF Flowing!FlowConstants
<1>2. procs \in 0..Flows[s].procs + Cardinality(Flows[s].tasks)
  BY <1>1, FlowNumbers DEF FlowInv, FlowTyped
<1>3. Flowing(s)!TypeOK
  BY <1>2, FlowSets DEF FlowInv, FlowTyped, ScalerTyped, Flowing!TypeOK, Flowing!Skews
<1>4. Flowing(s)!PrefetchExact
  BY DEF FlowInv, CountExact, Flowing!PrefetchExact, Flowing!RestoredIsMax
<1>5. Flowing(s)!PrefetchBounded
  BY DEF FlowInv, FlowTyped, Limited, CountExact, Flowing!PrefetchBounded
<1> QED
  BY <1>3, <1>4, <1>5 DEF Flowing!FlowRight

\* The invariant of each scenario that is about the prefetch count.
FlowsInv == \A s \in DOMAIN Flows : scenario = s => FlowInv(s)

\* It holds at first.
LEMMA FlowsInit ==
    ScenarioInit => FlowsInv
<1> SUFFICES ASSUME ScenarioInit, NEW s \in DOMAIN Flows, scenario = s PROVE FlowInv(s)
  BY DEF FlowsInv
<1>1. PICK t \in DOMAIN Flows : scenario = t /\ Flowing(t)!Init
  BY DEF ScenarioInit
<1> QED
  BY <1>1, FlowInit

\* Every step keeps it: a step of its own scenario, or one that is not about it.
LEMMA FlowsStep ==
    ASSUME FlowsInv, [ScenarioNext]_allVars PROVE FlowsInv'
<1> SUFFICES ASSUME NEW s \in DOMAIN Flows, scenario' = s PROVE FlowInv(s)'
  BY DEF FlowsInv
<1>1. scenario = s
  BY DEF ScenarioNext, InPool, InFlow, InRate, InQueues, InMulti, InBlueprint, allVars
<1>2. FlowInv(s)
  BY <1>1 DEF FlowsInv
<1>3. CASE \E t \in DOMAIN Flows : InFlow(t) /\ Flowing(t)!Next
  <2>1. PICK t \in DOMAIN Flows : InFlow(t) /\ Flowing(t)!Next
    BY <1>3
  <2>2. t = s
    BY <1>1, <2>1 DEF InFlow
  <2> QED
    BY <1>2, <2>1, <2>2, FlowStep
<1>4. CASE UNCHANGED flowVars
  <2>1. UNCHANGED Flowing(s)!vars
    BY <1>4 DEF flowVars, Flowing!vars
  <2> QED
    BY <1>2, <2>1, FlowStays
<1> QED
  BY <1>3, <1>4
     DEF ScenarioNext, InPool, InRate, InQueues, InMulti, InBlueprint, allVars

(* However the pool is resized, its connection lost and the count restored *)
(* and whatever tasks it runs, a worker's prefetch count (QoS.value) is    *)
(* what its pool can take, apart from the three exceptions Flow names.     *)
THEOREM PrefetchRight == ScenarioSpec => []FlowRight
<1>1. FlowsInv => FlowRight
  BY FlowFollows DEF FlowsInv, FlowRight
<1> QED
  BY <1>1, FlowsInit, FlowsStep, PTL DEF ScenarioSpec

-----------------------------------------------------------------------------
\* The operations that call_soon put off.
OperationType(s) == [op : {"add", "cancel"}, queue : Selections[s].names]

\* What is left of a sequence without one of its elements.
LEMMA RemoveAtFacts ==
    ASSUME NEW s \in DOMAIN Selections, NEW S, NEW seq \in Seq(S), NEW i \in 1..Len(seq)
    PROVE  /\ Selecting(s)!RemoveAt(seq, i) \in Seq(S)
           /\ Len(Selecting(s)!RemoveAt(seq, i)) = Len(seq) - 1
           /\ \A j \in 1..Len(seq) - 1 :
                Selecting(s)!RemoveAt(seq, i)[j] = IF j < i THEN seq[j] ELSE seq[j + 1]
<1>1. Len(seq) \in Nat /\ Len(seq) - 1 \in Nat /\ \A j \in 1..Len(seq) : seq[j] \in S
  OBVIOUS
<1>2. Selecting(s)!RemoveAt(seq, i) \in [1..Len(seq) - 1 -> S]
  BY <1>1 DEF Selecting!RemoveAt
<1>3. Selecting(s)!RemoveAt(seq, i) \in Seq(S)
  BY <1>1, <1>2, SeqDef
<1>4. Len(Selecting(s)!RemoveAt(seq, i)) = Len(seq) - 1
  BY <1>1, <1>2, <1>3, LenProperties
<1> QED
  BY <1>3, <1>4 DEF Selecting!RemoveAt

\* The operation o decides whether x is consumed.
Touches(s, o, x) ==
    \/ o.op = "add" /\ o.queue = x
    \/ o.op = "cancel" /\ Selecting(s)!Real(o.queue) = x

\* What it decides.
EffectOf(s, o) == IF o.op = "add" THEN "on" ELSE "off"

\* The types of Queues' variables.
QueuesTyped(s) ==
    /\ looped \in BOOLEAN /\ explicit \in BOOLEAN /\ connected \in BOOLEAN
    /\ declared \subseteq Selections[s].names /\ selected \subseteq Selections[s].names
    /\ default \subseteq Selections[s].names
    /\ consuming \subseteq Selections[s].names /\ together \subseteq Selections[s].names
    /\ twice \subseteq Selections[s].names
    /\ pending \in Seq(OperationType(s)) /\ wanted \in [Selections[s].names -> {"on", "off"}]
    /\ asked \in 0..Selections[s].commands /\ losses \in 0..Selections[s].losses
    /\ troubles \in 0..Selections[s].troubles
    /\ todo \subseteq Selections[s].urls /\ failed \subseteq Selections[s].urls \ todo
    /\ attempt \in [Selections[s].urls -> 0..Selections[s].retries]
    /\ bound \in [Selections[s].urls -> SUBSET Selections[s].names]

\* At most one operation waits for the queue x.
OnlyOne(s, x) ==
    \A i, j \in 1..Len(pending) :
        Selecting(s)!Real(pending[i].queue) = x /\ Selecting(s)!Real(pending[j].queue) = x => i = j

\* An operation that waits does what was last asked for; if none waits, it was done.
Meant(s, x) ==
    /\ x \in DOMAIN Selections[s].alias \/ OnlyOne(s, x)
    /\ \A i \in 1..Len(pending) : Touches(s, pending[i], x) => wanted[x] = EffectOf(s, pending[i])
    /\ (\A i \in 1..Len(pending) : ~Touches(s, pending[i], x))
          => (x \in Selecting(s)!ConsumeFrom <=> wanted[x] = "on")

\* That holds of every name whose commands were not on their way together, and that
\* was not selected by adding an alias twice.
CommandsKept(s) == \A x \in Selections[s].names \ (together \cup twice) : Meant(s, x)

\* An alias that was added as a queue of its own is consumed from ever after.
AliasStays(s) ==
    /\ declared \cap DOMAIN Selections[s].alias \subseteq Selecting(s)!ConsumeFrom
    /\ twice \cap DOMAIN Selections[s].alias = {}

\* The configured queues are bound through each broker whose setup is over.
QueuesBound(s) ==
    /\ Selections[s].configured \subseteq declared
    /\ Selections[s].native => \A u \in Selections[s].urls \ (todo \cup failed) :
                                Selections[s].configured \subseteq bound[u]

\* The inductive invariant for QueuesRight.
QueuesInv(s) ==
    /\ QueuesTyped(s) /\ Selecting(s)!ConsumesSelected /\ CommandsKept(s) /\ QueuesBound(s)
    /\ AliasStays(s)

\* The real name of a queue is no alias.
LEMMA RealFacts ==
    ASSUME NEW s \in DOMAIN Selections
    PROVE
    /\ \A q \in Selections[s].names :
         Selecting(s)!Real(q) \in Selections[s].names /\ Selecting(s)!Real(q) \notin DOMAIN Selections[s].alias
    /\ \A q \in Selections[s].names : q \in DOMAIN Selections[s].alias \/ Selecting(s)!Real(q) = q
BY SelectionsRight DEF Selecting!QueuesConstants, Selecting!Real

\* The invariant holds of every choice of queues a worker is started with.
LEMMA QueuesInit ==
    ASSUME NEW s \in DOMAIN Selections, Selecting(s)!Init PROVE QueuesInv(s)
<1>1. PICK include \in SUBSET (Selections[s].configured \cup DOMAIN Selections[s].alias),
           exclude \in SUBSET (Selections[s].configured \cup DOMAIN Selections[s].alias) :
        /\ looped \in BOOLEAN
        /\ declared = Selections[s].configured
        /\ explicit = (include # {})
        /\ selected = IF explicit
                        THEN Selecting(s)!Deselect(Selecting(s)!Select(include), exclude)
                        ELSE {}
        /\ default = IF explicit THEN Selections[s].configured
                                 ELSE Selecting(s)!Deselect(Selections[s].configured, exclude)
        /\ consuming = Selecting(s)!ConsumeFrom /\ connected = TRUE /\ pending = <<>>
        /\ wanted = [q \in Selections[s].names |-> IF q \in Selecting(s)!ConsumeFrom THEN "on" ELSE "off"]
        /\ together = {} /\ twice = {} /\ asked = 0 /\ losses = 0
        /\ todo = (IF Selections[s].native THEN Selections[s].urls ELSE {}) /\ failed = {} /\ troubles = 0
        /\ attempt = [u \in Selections[s].urls |-> 0] /\ bound = [u \in Selections[s].urls |-> {}]
  BY DEF Selecting!Init
<1>2. \A q \in include : Selecting(s)!Real(q) \in Selections[s].names
  BY <1>1, RealFacts, SelectionsRight DEF Selecting!QueuesConstants
<1>3. /\ selected \subseteq Selections[s].names /\ default \subseteq Selections[s].names
      /\ declared \subseteq Selections[s].names
  BY <1>1, <1>2, SelectionsRight DEF Selecting!Select, Selecting!Deselect,
                                     Selecting!QueuesConstants
<1>4. QueuesTyped(s)
  BY <1>1, <1>3, SelectionsRight DEF QueuesTyped, Selecting!QueuesConstants, Selecting!ConsumeFrom
<1>5. Selecting(s)!ConsumesSelected
  BY <1>1 DEF Selecting!ConsumesSelected
<1>6. CommandsKept(s)
  BY <1>1 DEF CommandsKept, Meant, OnlyOne
<1>7. QueuesBound(s)
  BY <1>1 DEF QueuesBound
<1>8. AliasStays(s)
  BY <1>1, SelectionsRight DEF AliasStays, Selecting!QueuesConstants
<1> QED
  BY <1>4, <1>5, <1>6, <1>7, <1>8 DEF QueuesInv

\* Commands are kept while neither they nor the selection changes.
LEMMA KeptStays ==
    ASSUME NEW s \in DOMAIN Selections, CommandsKept(s), UNCHANGED <<Selecting(s)!mapping,
           pending, wanted, together>>
    PROVE  CommandsKept(s)'
BY DEF CommandsKept, Meant, OnlyOne, Touches, EffectOf, Selecting!Real, Selecting!ConsumeFrom,
       Selecting!mapping

\* So is the consumer at the broker.
LEMMA SelectionStays ==
    ASSUME NEW s \in DOMAIN Selections, Selecting(s)!ConsumesSelected, CommandsKept(s),
           AliasStays(s),
           UNCHANGED <<looped, Selecting(s)!mapping, consuming, connected, pending, wanted, together, asked, losses>>
    PROVE  Selecting(s)!ConsumesSelected' /\ CommandsKept(s)' /\ AliasStays(s)'
<1>1. CommandsKept(s)'
  BY KeptStays
<1>2. Selecting(s)!ConsumesSelected'
  BY DEF Selecting!ConsumesSelected, Selecting!ConsumeFrom, Selecting!mapping
<1>3. AliasStays(s)'
  BY DEF AliasStays, Selecting!ConsumeFrom, Selecting!mapping
<1> QED
  BY <1>1, <1>2, <1>3

\* The setup of delayed delivery, with its errors, keeps the invariant.
LEMMA DelaysStep ==
    ASSUME NEW s \in DOMAIN Selections, QueuesInv(s),
           Selecting(s)!DelayedDelivery PROVE QueuesInv(s)'
<1>1. PICK u \in Selections[s].urls :
        \/ Selecting(s)!SetupDelayedDelivery(u) \/ Selecting(s)!BindFails(u)
        \/ Selecting(s)!ConnectionFails(u)
  BY DEF Selecting!DelayedDelivery
<1>2. UNCHANGED <<looped, Selecting(s)!mapping, consuming, connected, pending, wanted, together, asked, losses>>
  BY <1>1 DEF Selecting!SetupDelayedDelivery, Selecting!BindFails, Selecting!ConnectionFails
<1>3. PICK queues \in SUBSET declared :
        /\ bound' = [bound EXCEPT ![u] = @ \cup queues]
        /\ \/ todo' = todo \ {u} /\ failed' = failed /\ queues = declared
           \/ todo' = todo \ {u} /\ failed' = failed \cup {u}
           \/ todo' = todo /\ failed' = failed
  <2>1. CASE Selecting(s)!SetupDelayedDelivery(u)
    BY <2>1 DEF Selecting!SetupDelayedDelivery, Selecting!Bind
  <2>2. CASE Selecting(s)!BindFails(u)
    BY <2>2 DEF Selecting!BindFails, Selecting!Bind
  <2>3. CASE Selecting(s)!ConnectionFails(u)
    BY <2>3 DEF Selecting!ConnectionFails, Selecting!Bind
  <2> QED
    BY <1>1, <2>1, <2>2, <2>3
<1>4. u \in todo
  BY <1>1 DEF Selecting!SetupDelayedDelivery, Selecting!BindFails, Selecting!ConnectionFails,
              Selecting!Turn
<1>5. /\ attempt' \in [Selections[s].urls -> 0..Selections[s].retries]
      /\ troubles' \in 0..Selections[s].troubles
  <2>1. CASE Selecting(s)!SetupDelayedDelivery(u)
    BY <2>1 DEF Selecting!SetupDelayedDelivery, QueuesInv, QueuesTyped
  <2>2. CASE Selecting(s)!BindFails(u)
    BY <2>2, SelectionsRight DEF Selecting!BindFails, QueuesInv, QueuesTyped,
                                 Selecting!QueuesConstants
  <2>3. CASE Selecting(s)!ConnectionFails(u)
    <3>1. \/ attempt' = attempt
          \/ attempt[u] < Selections[s].retries /\ attempt' = [attempt EXCEPT ![u] = @ + 1]
      BY <2>3 DEF Selecting!ConnectionFails
    <3>2. troubles < Selections[s].troubles /\ troubles' = troubles + 1
      BY <2>3 DEF Selecting!ConnectionFails
    <3>3. /\ attempt \in [Selections[s].urls -> 0..Selections[s].retries]
          /\ troubles \in 0..Selections[s].troubles
          /\ Selections[s].retries \in Nat /\ Selections[s].troubles \in Nat
      BY SelectionsRight DEF QueuesInv, QueuesTyped, Selecting!QueuesConstants
    <3> QED
      BY <3>1, <3>2, <3>3
  <2> QED
    BY <1>1, <2>1, <2>2, <2>3
<1>6. /\ bound' \in [Selections[s].urls -> SUBSET Selections[s].names]
      /\ todo' \subseteq Selections[s].urls /\ failed' \subseteq Selections[s].urls \ todo'
  BY <1>3, <1>4 DEF QueuesInv, QueuesTyped
<1>7. QueuesTyped(s)'
  BY <1>2, <1>5, <1>6 DEF QueuesInv, QueuesTyped, Selecting!mapping
<1>8. Selecting(s)!ConsumesSelected' /\ CommandsKept(s)' /\ AliasStays(s)'
  BY <1>2, SelectionStays DEF QueuesInv
<1>9. QueuesBound(s)'
  BY <1>2, <1>3, <1>4 DEF QueuesInv, QueuesTyped, QueuesBound, Selecting!mapping
<1> QED
  BY <1>7, <1>8, <1>9 DEF QueuesInv

\* Its part on the brokers holds while their setup does not change.
LEMMA DelaysStay ==
    ASSUME NEW s \in DOMAIN Selections, QueuesInv(s), UNCHANGED Selecting(s)!delayVars,
           Selections[s].configured \subseteq declared'
    PROVE  QueuesBound(s)'
BY DEF QueuesInv, QueuesBound, Selecting!delayVars

\* The loss of the connection keeps it.
LEMMA QueuesLoseConnection ==
    ASSUME NEW s \in DOMAIN Selections, QueuesInv(s),
           Selecting(s)!LoseConnection PROVE QueuesInv(s)'
<1>1. QueuesTyped(s)'
  <2>1. losses' \in 0..Selections[s].losses
    BY SelectionsRight DEF QueuesInv, QueuesTyped, Selecting!LoseConnection,
                           Selecting!QueuesConstants
  <2> QED
    BY <2>1 DEF QueuesInv, QueuesTyped, Selecting!LoseConnection, Selecting!mapping,
                Selecting!delayVars
<1>2. Selecting(s)!ConsumesSelected'
  BY DEF Selecting!LoseConnection, Selecting!ConsumesSelected
<1>3. CommandsKept(s)'
  BY KeptStays DEF Selecting!LoseConnection, QueuesInv
<1>4. QueuesBound(s)'
  BY DelaysStay DEF Selecting!LoseConnection, QueuesInv, QueuesBound, Selecting!mapping
<1>5. AliasStays(s)'
  BY DEF Selecting!LoseConnection, QueuesInv, AliasStays, Selecting!ConsumeFrom, Selecting!mapping
<1> QED
  BY <1>1, <1>2, <1>3, <1>4, <1>5 DEF QueuesInv

\* So does the new consumer after it.
LEMMA ReconnectStep ==
    ASSUME NEW s \in DOMAIN Selections, QueuesInv(s), Selecting(s)!Reconnect PROVE QueuesInv(s)'
<1>1. QueuesTyped(s)'
  BY SelectionsRight DEF QueuesInv, QueuesTyped, Selecting!Reconnect, Selecting!QueuesConstants,
                         Selecting!mapping, Selecting!ConsumeFrom
<1>2. Selecting(s)!ConsumesSelected'
  BY DEF Selecting!Reconnect, Selecting!ConsumesSelected, Selecting!ConsumeFrom, Selecting!mapping
<1>3. CommandsKept(s)'
  BY KeptStays DEF Selecting!Reconnect, QueuesInv
<1>4. QueuesBound(s)'
  BY DEF Selecting!Reconnect, QueuesInv, QueuesBound, Selecting!mapping
<1>5. AliasStays(s)'
  BY DEF Selecting!Reconnect, QueuesInv, AliasStays, Selecting!ConsumeFrom, Selecting!mapping
<1> QED
  BY <1>1, <1>2, <1>3, <1>4, <1>5 DEF QueuesInv

\* What Append adds to a sequence.
LEMMA AppendFacts ==
    ASSUME NEW S, NEW seq \in Seq(S), NEW e \in S
    PROVE  /\ Append(seq, e) \in Seq(S) /\ Len(Append(seq, e)) = Len(seq) + 1
           /\ Append(seq, e)[Len(seq) + 1] = e /\ \A i \in 1..Len(seq) : Append(seq, e)[i] = seq[i]
OBVIOUS

\* A command, which only puts an operation off, keeps it.
LEMMA CallSoonStep ==
    ASSUME NEW s \in DOMAIN Selections, QueuesInv(s), NEW q \in Selections[s].names,
           Selecting(s)!AddConsumer(q) \/ Selecting(s)!CancelConsumer(q) PROVE QueuesInv(s)'
<1>1. PICK o \in OperationType(s) :
        /\ o.queue = q /\ pending' = Append(pending, o)
        /\ wanted' = IF o.op = "add" THEN [wanted EXCEPT ![q] = "on"]
                                     ELSE [wanted EXCEPT ![Selecting(s)!Real(q)] = "off"]
  BY DEF Selecting!AddConsumer, Selecting!CancelConsumer, Selecting!CallSoon, OperationType
<1>2. /\ asked < Selections[s].commands /\ asked' = asked + 1
      /\ together' = IF \E i \in DOMAIN pending : Selecting(s)!Real(pending[i].queue) = Selecting(s)!Real(q)
                       THEN together \cup {Selecting(s)!Real(q)} ELSE together
      /\ UNCHANGED <<looped, Selecting(s)!mapping, consuming, connected, losses, Selecting(s)!delayVars>>
  BY DEF Selecting!AddConsumer, Selecting!CancelConsumer, Selecting!CallSoon
<1>3. pending \in Seq(OperationType(s)) /\ wanted \in [Selections[s].names -> {"on", "off"}]
  BY DEF QueuesInv, QueuesTyped
<1>4. /\ pending' \in Seq(OperationType(s)) /\ Len(pending') = Len(pending) + 1
      /\ Len(pending) \in Nat
      /\ pending'[Len(pending) + 1] = o /\ \A i \in 1..Len(pending) : pending'[i] = pending[i]
  BY <1>1, <1>3, AppendFacts
<1>5. QueuesTyped(s)'
  <2>1. asked' \in 0..Selections[s].commands
    BY <1>2, SelectionsRight DEF QueuesInv, QueuesTyped, Selecting!QueuesConstants
  <2>2. /\ wanted' \in [Selections[s].names -> {"on", "off"}]
        /\ together' \subseteq Selections[s].names
    BY <1>1, <1>2, <1>3, RealFacts DEF QueuesInv, QueuesTyped
  <2> QED
    BY <1>2, <1>4, <2>1, <2>2 DEF QueuesInv, QueuesTyped, Selecting!mapping, Selecting!delayVars
<1>6. Selecting(s)!ConsumesSelected'
  BY <1>2 DEF QueuesInv, Selecting!ConsumesSelected, Selecting!ConsumeFrom, Selecting!mapping
<1>7. QueuesBound(s)'
  BY <1>2, DelaysStay DEF QueuesInv, QueuesBound, Selecting!mapping
<1>8. ASSUME NEW x \in Selections[s].names \ (together' \cup twice') PROVE Meant(s, x)'
  <2>1. Meant(s, x) /\ Selecting(s)!ConsumeFrom' = Selecting(s)!ConsumeFrom
    BY <1>2 DEF QueuesInv, CommandsKept, Selecting!ConsumeFrom, Selecting!mapping
  <2>2. CASE x \in DOMAIN Selections[s].alias
    <3>1. ~(o.op = "cancel" /\ Selecting(s)!Real(o.queue) = x) /\ Selecting(s)!Real(q) # x
      BY <1>1, <2>2, RealFacts
    <3>2. IF q = x /\ o.op = "add" THEN wanted'[x] = "on" ELSE wanted'[x] = wanted[x]
      BY <1>1, <1>3, <3>1, RealFacts
    <3>3. \A i \in 1..Len(pending') : Touches(s, pending'[i], x)
             => wanted'[x] = EffectOf(s, pending'[i])
      <4>1. \A i \in 1..Len(pending) : ~(pending[i].op = "cancel" /\ Selecting(s)!Real(pending[i].queue) = x)
        <5>1. \A i \in 1..Len(pending) : pending[i] \in OperationType(s)
          BY <1>3
        <5>2. \A i \in 1..Len(pending) : pending[i].queue \in Selections[s].names
          BY <5>1 DEF OperationType
        <5> QED
          BY <2>2, <5>2, RealFacts
      <4>2. \A i \in 1..Len(pending) : Touches(s, pending[i], x) => wanted[x] = "on"
        BY <2>1, <4>1 DEF Touches, EffectOf, Meant
      <4>3. ASSUME NEW i \in 1..Len(pending'), Touches(s, pending'[i], x)
            PROVE  wanted'[x] = "on" /\ pending'[i].op = "add"
        <5>1. CASE i = Len(pending) + 1
          BY <1>1, <1>4, <3>1, <3>2, <4>3, <5>1 DEF Touches
        <5>2. CASE i # Len(pending) + 1
          BY <1>4, <3>2, <4>1, <4>2, <4>3, <5>2 DEF Touches
        <5> QED
          BY <5>1, <5>2
      <4> QED
        BY <4>3 DEF EffectOf
    <3>4. (\A i \in 1..Len(pending') : ~Touches(s, pending'[i], x))
             => (x \in Selecting(s)!ConsumeFrom' <=> wanted'[x] = "on")
      BY <1>1, <1>4, <2>1, <3>1, <3>2 DEF Touches, Meant, OperationType
    <3> QED
      BY <2>2, <3>3, <3>4 DEF Meant, Touches, EffectOf, Selecting!Real
  <2>3. CASE x \notin DOMAIN Selections[s].alias
    <3>1. OnlyOne(s, x) /\ Selecting(s)!Real(x) = x
      BY <2>1, <2>3, RealFacts DEF Meant
    <3>2. ASSUME Selecting(s)!Real(q) = x PROVE \A i \in 1..Len(pending) : Selecting(s)!Real(pending[i].queue) # x
      BY <1>2, <1>3, <3>2
    <3>3. OnlyOne(s, x)'
      BY <1>1, <1>4, <3>1, <3>2 DEF OnlyOne, Selecting!Real
    <3>4. IF Touches(s, o, x) THEN wanted'[x] = EffectOf(s, o) ELSE wanted'[x] = wanted[x]
      BY <1>1, <1>3, <3>1, RealFacts DEF Touches, EffectOf, OperationType
    <3>5. Touches(s, o, x) => Selecting(s)!Real(q) = x
      BY <1>1, <3>1 DEF Touches
    <3>6. \A i \in 1..Len(pending) : Touches(s, pending[i], x) => Selecting(s)!Real(pending[i].queue) = x
      BY <3>1 DEF Touches
    <3>7. \A i \in 1..Len(pending') : Touches(s, pending'[i], x)
             => wanted'[x] = EffectOf(s, pending'[i])
      BY <1>4, <2>1, <3>2, <3>4, <3>5, <3>6 DEF Meant
    <3>8. (\A i \in 1..Len(pending') : ~Touches(s, pending'[i], x))
             => (x \in Selecting(s)!ConsumeFrom' <=> wanted'[x] = "on")
      BY <1>4, <2>1, <3>4 DEF Meant
    <3> QED
      BY <3>3, <3>7, <3>8 DEF Meant, Touches, EffectOf, Selecting!Real
  <2> QED
    BY <2>2, <2>3
<1>9. AliasStays(s)'
  BY <1>2 DEF QueuesInv, AliasStays, Selecting!ConsumeFrom, Selecting!mapping
<1> QED
  BY <1>5, <1>6, <1>7, <1>8, <1>9 DEF QueuesInv, CommandsKept

\* An operation that is performed, in any order under threads, keeps it.
LEMMA PerformStep ==
    ASSUME NEW s \in DOMAIN Selections, QueuesInv(s), NEW i \in 1..Selections[s].commands,
           Selecting(s)!Perform(i) PROVE QueuesInv(s)'
<1>1. PICK o : o = pending[i]
  OBVIOUS
<1>2. /\ i \in 1..Len(pending) /\ o \in OperationType(s) /\ pending \in Seq(OperationType(s))
      /\ pending' = Selecting(s)!RemoveAt(pending, i)
      /\ UNCHANGED <<looped, explicit, connected, wanted, together, asked, losses, Selecting(s)!delayVars>>
  BY <1>1 DEF Selecting!Perform, QueuesInv, QueuesTyped
<1>3. \/ o.op = "add" /\ Selecting(s)!AddTaskQueue(o.queue)
      \/ o.op = "cancel" /\ Selecting(s)!CancelTaskQueue(o.queue)
  BY <1>1 DEF Selecting!Perform
<1>4. /\ pending' \in Seq(OperationType(s)) /\ Len(pending') = Len(pending) - 1
      /\ Len(pending) \in Nat
      /\ \A j \in 1..Len(pending) - 1 : pending'[j] = IF j < i THEN pending[j] ELSE pending[j + 1]
  <2>1. i \in 1..Len(pending) /\ pending \in Seq(OperationType(s))
    BY <1>2
  <2>2. /\ Selecting(s)!RemoveAt(pending, i) \in Seq(OperationType(s))
        /\ Len(Selecting(s)!RemoveAt(pending, i)) = Len(pending) - 1
        /\ \A j \in 1..Len(pending) - 1 :
             Selecting(s)!RemoveAt(pending, i)[j] = IF j < i THEN pending[j] ELSE pending[j + 1]
    BY <2>1, RemoveAtFacts, Zenon
  <2>3. pending' = Selecting(s)!RemoveAt(pending, i)
    BY <1>2
  <2>4. Len(pending) \in Nat
    BY <2>1, LenProperties
  <2> QED
    BY <2>2, <2>3, <2>4
<1> DEFINE name == Selecting(s)!Found(o.queue)
<1>n. /\ name \in Selections[s].names /\ name \in {o.queue, Selecting(s)!Real(o.queue)}
      /\ name # o.queue => /\ o.queue \in declared \cap DOMAIN Selections[s].alias
                           /\ name = Selecting(s)!Real(o.queue)
                           /\ name \notin DOMAIN Selections[s].alias
                           /\ o.queue \in Selecting(s)!ConsumeFrom
  BY <1>2, RealFacts DEF Selecting!Found, OperationType, QueuesInv, AliasStays
<1>5. /\ o.op = "add" => /\ declared' = declared \cup {name}
                         /\ Selecting(s)!ConsumeFrom' = Selecting(s)!ConsumeFrom \cup {name}
                         /\ consuming' = IF connected /\ o.queue \notin consuming
                                           THEN consuming \cup {name} ELSE consuming
                         /\ twice' = IF name # o.queue THEN twice \cup {name} ELSE twice
      /\ o.op = "cancel" => /\ declared' = declared /\ twice' = twice
                            /\ Selecting(s)!ConsumeFrom' = Selecting(s)!ConsumeFrom \ {Selecting(s)!Real(o.queue)}
                            /\ consuming' = IF connected THEN consuming \ {Selecting(s)!Real(o.queue)}
                                                         ELSE consuming
      /\ selected' \subseteq selected \cup {name} /\ default' \subseteq default \cup {name}
  <2>1. CASE o.op = "add" /\ Selecting(s)!AddTaskQueue(o.queue)
    BY <1>2, <2>1 DEF Selecting!AddTaskQueue, Selecting!SelectAdd, Selecting!ConsumeFrom
  <2>2. CASE o.op = "cancel" /\ Selecting(s)!CancelTaskQueue(o.queue)
    BY <1>2, <2>2 DEF Selecting!CancelTaskQueue, Selecting!Deselect, Selecting!ConsumeFrom
  <2> QED
    BY <1>3, <2>1, <2>2
<1> HIDE DEF name
<1>6. QueuesTyped(s)'
  BY <1>2, <1>4, <1>5, <1>n DEF QueuesInv, QueuesTyped, Selecting!delayVars, OperationType
<1>7. Selecting(s)!ConsumesSelected'
  <2>1. CASE o.op = "add"
    BY <1>2, <1>5, <1>n, <2>1 DEF QueuesInv, Selecting!ConsumesSelected
  <2>2. CASE o.op = "cancel"
    BY <1>2, <1>5, <2>2 DEF QueuesInv, Selecting!ConsumesSelected
  <2> QED
    BY <1>3, <2>1, <2>2
<1>a. AliasStays(s)'
  <2>1. CASE o.op = "add"
    BY <1>5, <1>n, <2>1 DEF QueuesInv, AliasStays
  <2>2. CASE o.op = "cancel"
    BY <1>2, <1>5, <2>2, RealFacts DEF QueuesInv, AliasStays, OperationType
  <2> QED
    BY <1>3, <2>1, <2>2
<1>8. QueuesBound(s)'
  <2>1. Selections[s].configured \subseteq declared'
    BY <1>2, <1>5 DEF QueuesInv, QueuesBound, OperationType
  <2> QED
    BY <1>2, <2>1, DelaysStay
<1>9. ASSUME NEW x \in Selections[s].names \ (together' \cup twice') PROVE Meant(s, x)'
  <2>1. Meant(s, x) /\ wanted' = wanted
    BY <1>2, <1>3, <1>5 DEF QueuesInv, CommandsKept
  <2>2. \A j \in 1..Len(pending') : \E k \in 1..Len(pending) \ {i} : pending'[j] = pending[k]
    BY <1>2, <1>4
  <2>3. \A k \in 1..Len(pending) \ {i} : \E j \in 1..Len(pending') : pending'[j] = pending[k]
    <3>1. TAKE k \in 1..Len(pending) \ {i}
    <3>2. CASE k < i
      BY <1>2, <1>4, <3>2
    <3>3. CASE k > i
      <4>1. k - 1 \in 1..Len(pending) - 1 /\ ~(k - 1 < i) /\ (k - 1) + 1 = k
        BY <1>2, <1>4, <3>3
      <4>2. pending'[k - 1] = pending[(k - 1) + 1]
        BY <1>4, <4>1
      <4> QED
        BY <1>4, <4>1, <4>2
    <3> QED
      BY <1>2, <3>2, <3>3
  <2>4. x \in DOMAIN Selections[s].alias \/ OnlyOne(s, x)'
    <3>1. ASSUME OnlyOne(s, x) PROVE OnlyOne(s, x)'
      <4>1. SUFFICES ASSUME NEW j \in 1..Len(pending'), NEW k \in 1..Len(pending'),
                            Selecting(s)!Real(pending'[j].queue) = x, Selecting(s)!Real(pending'[k].queue) = x
                     PROVE  j = k
        BY DEF OnlyOne, Selecting!Real
      <4> DEFINE J(l) == IF l < i THEN l ELSE l + 1
      <4>2. /\ J(j) \in 1..Len(pending) /\ J(k) \in 1..Len(pending)
            /\ pending'[j] = pending[J(j)] /\ pending'[k] = pending[J(k)]
        <5>1. ASSUME NEW l \in 1..Len(pending')
              PROVE  J(l) \in 1..Len(pending) /\ pending'[l] = pending[J(l)]
          <6>1. CASE l < i
            BY <1>2, <1>4, <6>1
          <6>2. CASE ~(l < i)
            BY <1>2, <1>4, <6>2
          <6> QED
            BY <6>1, <6>2
        <5> QED
          BY <5>1
      <4>3. J(j) = J(k)
        BY <3>1, <4>1, <4>2 DEF OnlyOne
      <4> QED
        BY <1>2, <4>3
    <3> QED
      BY <2>1, <3>1 DEF Meant
  <2>5. \A j \in 1..Len(pending') : Touches(s, pending'[j], x) => wanted'[x] = EffectOf(s, pending'[j])
    BY <2>1, <2>2 DEF Meant
  <2>6. ASSUME \A j \in 1..Len(pending') : ~Touches(s, pending'[j], x)
        PROVE  x \in Selecting(s)!ConsumeFrom' <=> wanted'[x] = "on"
    <3>1. \A k \in 1..Len(pending) \ {i} : ~Touches(s, pending[k], x)
      BY <2>3, <2>6
    <3>2. CASE Touches(s, o, x)
      <4>1. wanted'[x] = EffectOf(s, o)
        BY <1>1, <1>2, <2>1, <3>2 DEF Meant
      <4> QED
        BY <1>2, <1>5, <1>n, <3>2, <4>1 DEF Touches, EffectOf, OperationType
    <3>3. CASE ~Touches(s, o, x)
      <4>1. x \in Selecting(s)!ConsumeFrom <=> wanted[x] = "on"
        BY <1>1, <2>1, <3>1, <3>3 DEF Meant
      <4>2. x \in Selecting(s)!ConsumeFrom' <=> x \in Selecting(s)!ConsumeFrom
        BY <1>2, <1>5, <1>n, <3>3 DEF Touches, OperationType
      <4> QED
        BY <2>1, <4>1, <4>2
    <3> QED
      BY <3>2, <3>3
  <2> QED
    BY <2>4, <2>5, <2>6 DEF Meant, Touches, EffectOf, Selecting!Real
<1> QED
  BY <1>6, <1>7, <1>8, <1>9, <1>a DEF QueuesInv, CommandsKept

\* Every step of the selection keeps it.
LEMMA QueuesStep ==
    ASSUME NEW s \in DOMAIN Selections, QueuesInv(s), Selecting(s)!Next PROVE QueuesInv(s)'
BY CallSoonStep, PerformStep, QueuesLoseConnection, ReconnectStep, DelaysStep DEF Selecting!Next

\* So does a step of another part.
LEMMA QueuesStay ==
    ASSUME NEW s \in DOMAIN Selections, QueuesInv(s),
           UNCHANGED Selecting(s)!vars PROVE QueuesInv(s)'
<1>1. QueuesTyped(s)'
  BY DEF QueuesInv, QueuesTyped, Selecting!vars, Selecting!delayVars
<1>2. Selecting(s)!ConsumesSelected' /\ CommandsKept(s)' /\ AliasStays(s)'
  BY SelectionStays DEF QueuesInv, Selecting!vars, Selecting!mapping
<1>3. QueuesBound(s)'
  BY DelaysStay DEF QueuesInv, Selecting!vars, QueuesBound
<1> QED
  BY <1>1, <1>2, <1>3 DEF QueuesInv

\* It gives what is to be shown of the queues.
LEMMA QueuesFollow ==
    ASSUME NEW s \in DOMAIN Selections, QueuesInv(s) PROVE Selecting(s)!QueuesRight
<1>1. Selecting(s)!TypeOK
  BY DEF QueuesInv, QueuesTyped, Selecting!TypeOK, OperationType
<1>2. Selecting(s)!LastCommandCountsApart
  BY DEF QueuesInv, CommandsKept, Meant, Selecting!LastCommandCountsApart
<1>3. Selecting(s)!DelaysArrive
  BY DEF QueuesInv, QueuesBound, Selecting!DelaysArrive
<1> QED
  BY <1>1, <1>2, <1>3 DEF QueuesInv, Selecting!QueuesRight

\* The invariant of each scenario that is about the queues.
SelectionsInv == \A s \in DOMAIN Selections : scenario = s => QueuesInv(s)

\* It holds at first.
LEMMA SelectionsInit ==
    ScenarioInit => SelectionsInv
<1> SUFFICES ASSUME ScenarioInit, NEW s \in DOMAIN Selections, scenario = s
             PROVE  QueuesInv(s)
  BY DEF SelectionsInv
<1>1. PICK t \in DOMAIN Selections : scenario = t /\ Selecting(t)!Init
  BY DEF ScenarioInit
<1> QED
  BY <1>1, QueuesInit

\* Every step keeps it: a step of its own scenario, or one that is not about it.
LEMMA SelectionsStep ==
    ASSUME SelectionsInv, [ScenarioNext]_allVars PROVE SelectionsInv'
<1> SUFFICES ASSUME NEW s \in DOMAIN Selections, scenario' = s PROVE QueuesInv(s)'
  BY DEF SelectionsInv
<1>1. scenario = s
  BY DEF ScenarioNext, InPool, InFlow, InRate, InQueues, InMulti, InBlueprint, allVars
<1>2. QueuesInv(s)
  BY <1>1 DEF SelectionsInv
<1>3. CASE \E t \in DOMAIN Selections : InQueues(t) /\ Selecting(t)!Next
  <2>1. PICK t \in DOMAIN Selections : InQueues(t) /\ Selecting(t)!Next
    BY <1>3
  <2>2. t = s
    BY <1>1, <2>1 DEF InQueues
  <2> QED
    BY <1>2, <2>1, <2>2, QueuesStep
<1>4. CASE UNCHANGED queueVars
  <2>1. UNCHANGED Selecting(s)!vars
    BY <1>4 DEF queueVars, Selecting!vars, Selecting!delayVars
  <2> QED
    BY <1>2, <2>1, QueuesStay
<1> QED
  BY <1>3, <1>4 DEF ScenarioNext, InPool, InRate, InFlow, InMulti, InBlueprint, allVars

(* In whatever order add_consumer and cancel_consumer are performed, and   *)
(* through lost connections, the broker's consumer has the selected        *)
(* queues, the last command for a queue counts, and the configured queues  *)
(* are bound for delayed delivery at every broker that was set up.         *)
THEOREM QueuesConsumed == ScenarioSpec => []QueuesRight
<1>1. SelectionsInv => QueuesRight
  BY QueuesFollow DEF SelectionsInv, QueuesRight
<1> QED
  BY <1>1, SelectionsInit, SelectionsStep, PTL DEF ScenarioSpec

-----------------------------------------------------------------------------
\* Where a process of a node can be, and where it is about the pidfile.
ProcessPlaces == {"check", "read", "remove", "open", "write", "reread", "release", "running",
           "stopping", "exiting"}
AtFile == ProcessPlaces \ {"running", "stopping"}

\* Where the file is, or is about to be, the one of the process itself.
Owning == {"remove", "open", "write", "reread", "release", "exiting"}

\* The types of Multi's variables.
NodesTyped ==
    /\ file \in [Nodes -> {Supervising!NoFile} \cup [by : Pids, says : Pids \cup {Supervising!Empty}]]
    /\ proc \in [Pids -> {Supervising!Gone} \cup [node : Nodes, at : ProcessPlaces, lock : {"test", "real"}]]
    /\ cmd \in [op : Supervising!Operations \cup {"idle"},
                at : {"idle", "start", "getpids", "send", "wait"},
                todo : SUBSET Nodes, P : SUBSET Nodes]
    /\ launched \in [Nodes -> Nat] /\ given \in 0..MaxCommands /\ crashes \in 0..MaxCrashes
    /\ patient \in BOOLEAN /\ raced \subseteq Nodes /\ killed \subseteq Nodes

\* At most one process of the node is about the file.
AtFileAlone(n) ==
    \A p, q \in Pids :
        /\ proc[p].node = n /\ proc[p].at \in AtFile
        /\ proc[q].node = n /\ proc[q].at \in AtFile
        => p = q

\* A process that works is the one the file names.
FileNamed(n) ==
    \A p \in Pids : proc[p].node = n /\ proc[p].at \in Supervising!Working => file[n].says = p

\* While a process owns the file, no other of the node works.
FileOwned(n) ==
    \A p, q \in Pids :
                proc[p].node = n /\ proc[p].at \in Owning /\ proc[q].node = n
                => proc[q].at \notin Supervising!Working

\* The three hold of each node whose processes never were at the file together.
PidfilesHeld ==
    \A n \in Nodes \ raced : AtFileAlone(n) /\ FileNamed(n) /\ FileOwned(n)

\* A restart started each node at most once, and goes on to those it did not.
RestartsCounted ==
    /\ Supervising!RestartOnce
    /\ cmd.op = "restart" => cmd.at \in {"getpids", "send", "wait"}
    /\ cmd.at = "getpids" => cmd.P \cap cmd.todo = {}
    /\ cmd.at = "send" => cmd.todo \subseteq cmd.P
    /\ cmd.at = "wait" => cmd.todo = {}

\* The inductive invariant for Supervised.
SupervisedInv == NodesTyped /\ PidfilesHeld /\ RestartsCounted

\* A finite set of at most one element has no two.
LEMMA AtMostOne ==
    ASSUME NEW S, IsFiniteSet(S), ~(Cardinality(S) > 1), NEW a \in S, NEW b \in S
    PROVE  a = b
<1>1. SUFFICES ASSUME a # b PROVE FALSE
  OBVIOUS
<1>2. /\ IsFiniteSet(S \ {a}) /\ Cardinality(S \ {a}) = Cardinality(S) - 1
      /\ Cardinality(S) \in Nat
  BY FS_RemoveElement, FS_CardinalityType
<1>3. b \in S \ {a}
  BY <1>1
<1>4. Cardinality(S \ {a}) # 0
  BY <1>2, <1>3, FS_EmptySet
<1> QED
  BY <1>2, <1>4, FS_CardinalityType

\* The instance of FiniteSets in Multi is FiniteSets.
LEMMA NodeSets ==
    ASSUME NEW S
    PROVE  (Supervising!IsFiniteSet(S) <=> IsFiniteSet(S)) /\ Supervising!Cardinality(S) = Cardinality(S)
<1>1. Supervising!IsFiniteSet(S) <=> IsFiniteSet(S)
  BY DEF Supervising!IsFiniteSet, IsFiniteSet
<1>2. Supervising!Cardinality(S) = Cardinality(S)
  BY DEF Supervising!Cardinality, Cardinality
<1> QED
  BY <1>1, <1>2

\* After any move the processes of an unraced node are one at a time at its file.
LEMMA MovedFacts ==
    ASSUME NEW moved, Supervising!Moved(moved), raced \subseteq Nodes
    PROVE  /\ proc' = moved /\ raced \subseteq raced' /\ raced' \subseteq Nodes
           /\ \A n \in Nodes \ raced' : AtFileAlone(n)'
<1>1. proc' = moved /\ raced \subseteq raced' /\ raced' \subseteq Nodes
  BY DEF Supervising!Moved
<1>2. ASSUME NEW n \in Nodes \ raced', NEW p \in Pids, NEW q \in Pids,
             moved[p].node = n, moved[p].at \in AtFile, moved[q].node = n, moved[q].at \in AtFile
      PROVE  p = q
  <2> DEFINE S == {r \in Pids : moved[r].node = n /\ moved[r].at \notin Supervising!Settled \cup {"stopping"}}
  <2>1. p \in S /\ q \in S
    BY <1>2 DEF AtFile, ProcessPlaces, Supervising!Settled
  <2>2. IsFiniteSet(S)
    BY NodesRight, NodeSets, FS_Subset DEF Supervising!MultiConstants
  <2>3. ~(Cardinality(S) > 1)
    BY <1>2, NodeSets DEF Supervising!Moved, Supervising!Racing
  <2> QED
    BY <2>1, <2>2, <2>3, AtMostOne
<1> QED
  BY <1>1, <1>2 DEF AtFileAlone

\* The types of a process and of a file.
ProcessType == {Supervising!Gone} \cup [node : Nodes, at : ProcessPlaces, lock : {"test", "real"}]
FileType == {Supervising!NoFile} \cup [by : Pids, says : Pids \cup {Supervising!Empty}]

\* No other process of n is at one of these places.
OthersNot(p, n, where) ==
    \A q \in Pids \ {p} : proc[q].node = n => proc[q].at \notin where

\* A move of p that neither takes the file nor works without it keeps the lock of n.
LEMMA LocksKept ==
    ASSUME NodesTyped, NEW p \in Pids, NEW n \in Nodes, NEW r, proc' = [proc EXCEPT ![p] = r],
           FileNamed(n), FileOwned(n),
           \/ /\ file'[n] = file[n] /\ r.at \notin Owning
              /\ r.at \in Supervising!Working => file[n].says = p /\ OthersNot(p, n, Owning)
           \/ r.at \notin Supervising!Working /\ OthersNot(p, n, Supervising!Working)
    PROVE  FileNamed(n)' /\ FileOwned(n)'
<1>1. proc'[p] = r /\ \A q \in Pids \ {p} : proc'[q] = proc[q]
  BY DEF NodesTyped
<1>2. FileNamed(n)'
  BY <1>1 DEF FileNamed, OthersNot, Supervising!Working
<1>3. FileOwned(n)'
  BY <1>1 DEF FileOwned, OthersNot, Supervising!Working, Owning
<1> QED
  BY <1>2, <1>3

\* A move of one process, and of the file of its node, keeps the locks of all nodes.
LEMMA OneMoves ==
    ASSUME NodesTyped, PidfilesHeld, NEW p \in Pids, NEW n \in Nodes, NEW r,
           r \in {Supervising!Gone} \cup [node : {n}, at : ProcessPlaces, lock : {"test", "real"}],
           proc[p].node \in {n, "none"}, Supervising!Moved([proc EXCEPT ![p] = r]),
           \A m \in Nodes \ {n} : file'[m] = file[m],
           AtFileAlone(n) /\ FileNamed(n) /\ FileOwned(n) =>
             \/ /\ file'[n] = file[n] /\ r.at \notin Owning
                /\ r.at \in Supervising!Working => file[n].says = p /\ OthersNot(p, n, Owning)
             \/ r.at \notin Supervising!Working /\ OthersNot(p, n, Supervising!Working)
    PROVE  proc' \in [Pids -> ProcessType] /\ raced' \subseteq Nodes /\ PidfilesHeld'
<1>1. /\ proc' = [proc EXCEPT ![p] = r] /\ raced \subseteq raced' /\ raced' \subseteq Nodes
      /\ \A m \in Nodes \ raced' : AtFileAlone(m)'
  BY MovedFacts DEF NodesTyped
<1>2. proc' \in [Pids -> ProcessType]
  BY <1>1 DEF NodesTyped, ProcessType
<1>3. ASSUME NEW m \in Nodes \ raced', m # n PROVE FileNamed(m)' /\ FileOwned(m)'
  <2>1. FileNamed(m) /\ FileOwned(m)
    BY <1>1 DEF PidfilesHeld
  <2>2. \A q \in Pids : proc'[q].node = m => q # p /\ proc'[q] = proc[q]
    BY <1>1, <1>3, NodesRight DEF NodesTyped, Supervising!Gone, Supervising!MultiConstants
  <2>3. FileNamed(m)'
    BY <2>1, <2>2, <1>3 DEF FileNamed, Supervising!Working
  <2>4. FileOwned(m)'
    BY <2>1, <2>2 DEF FileOwned, Supervising!Working, Owning
  <2> QED
    BY <2>3, <2>4
<1>4. ASSUME n \notin raced' PROVE FileNamed(n)' /\ FileOwned(n)'
  <2>1. AtFileAlone(n) /\ FileNamed(n) /\ FileOwned(n)
    BY <1>1, <1>4 DEF PidfilesHeld
  <2> QED
    BY <1>1, <2>1, LocksKept
<1>5. PidfilesHeld'
  BY <1>1, <1>3, <1>4 DEF PidfilesHeld
<1> QED
  BY <1>1, <1>2, <1>5

\* What is counted does not change with the processes.
LEMMA OperatorStays ==
    ASSUME RestartsCounted, UNCHANGED Supervising!operator
    PROVE  RestartsCounted'
BY DEF RestartsCounted, Supervising!RestartOnce, Supervising!operator

\* A process that lives belongs to a node.
LEMMA NodeOf ==
    ASSUME NodesTyped, NEW p \in Pids, proc[p].at # "gone"
    PROVE  \E n \in Nodes : /\ proc[p].node = n
                            /\ proc[p] \in [node : {n}, at : ProcessPlaces, lock : {"test", "real"}]
BY DEF NodesTyped, Supervising!Gone

\* Steps of one process at the file of its node keep the invariant.
LEMMA FileStep ==
    ASSUME SupervisedInv, NEW p \in Pids, NEW n \in Nodes, NEW r,
           r \in {Supervising!Gone} \cup [node : {n}, at : ProcessPlaces, lock : {"test", "real"}],
           proc[p].node = n, Supervising!Moved([proc EXCEPT ![p] = r]),
           file' \in [Nodes -> FileType], \A m \in Nodes \ {n} : file'[m] = file[m],
           UNCHANGED Supervising!operator, crashes' \in 0..MaxCrashes, killed' \subseteq Nodes,
           AtFileAlone(n) /\ FileNamed(n) /\ FileOwned(n) =>
             \/ /\ file'[n] = file[n] /\ r.at \notin Owning
                /\ r.at \in Supervising!Working => file[n].says = p /\ OthersNot(p, n, Owning)
             \/ r.at \notin Supervising!Working /\ OthersNot(p, n, Supervising!Working)
    PROVE  SupervisedInv'
<1>1. proc' \in [Pids -> ProcessType] /\ raced' \subseteq Nodes /\ PidfilesHeld'
  BY OneMoves DEF SupervisedInv
<1>2. NodesTyped'
  BY <1>1 DEF SupervisedInv, NodesTyped, Supervising!operator, ProcessType, FileType
<1>3. RestartsCounted'
  BY OperatorStays DEF SupervisedInv
<1> QED
  BY <1>1, <1>2, <1>3 DEF SupervisedInv

\* Looking whether the file exists keeps it.
LEMMA IsLockedStep ==
    ASSUME SupervisedInv, NEW p \in Pids, Supervising!IsLocked(p)
    PROVE  SupervisedInv'
<1>1. PICK n \in Nodes :
        proc[p].node = n /\ proc[p] \in [node : {n}, at : ProcessPlaces, lock : {"test", "real"}]
  BY NodeOf DEF SupervisedInv, Supervising!IsLocked
<1>2. PICK r : /\ r = [proc[p] EXCEPT !.at = IF file[n] = Supervising!NoFile THEN "open" ELSE "read"]
               /\ Supervising!Moved([proc EXCEPT ![p] = r])
  BY <1>1 DEF Supervising!IsLocked, Supervising!At
<1>3. file' = file /\ UNCHANGED Supervising!operator /\ crashes' = crashes /\ killed' = killed
  BY DEF Supervising!IsLocked
<1>4. r \in [node : {n}, at : ProcessPlaces, lock : {"test", "real"}]
  BY <1>1, <1>2 DEF ProcessPlaces
<1>5. ASSUME FileNamed(n)
      PROVE  \/ file'[n] = file[n] /\ r.at = "read"
             \/ r.at = "open" /\ OthersNot(p, n, Supervising!Working)
  <2>1. CASE file[n] = Supervising!NoFile
    BY <2>1, <1>1, <1>2, <1>5, NodesRight DEF Supervising!NoFile, FileNamed, OthersNot,
                                              Supervising!MultiConstants
  <2>2. CASE file[n] # Supervising!NoFile
    BY <2>2, <1>1, <1>2, <1>3
  <2> QED
    BY <2>1, <2>2
<1> QED
  BY <1>1, <1>2, <1>3, <1>4, <1>5, FileStep DEF SupervisedInv, NodesTyped, FileType, Owning,
                                                Supervising!Working

\* Reading the file to see whether it is stale keeps it.
LEMMA RemoveIfStaleStep ==
    ASSUME SupervisedInv, NEW p \in Pids, Supervising!RemoveIfStale(p)
    PROVE  SupervisedInv'
<1>1. PICK n \in Nodes :
        proc[p].node = n /\ proc[p] \in [node : {n}, at : ProcessPlaces, lock : {"test", "real"}]
  BY NodeOf DEF SupervisedInv, Supervising!RemoveIfStale
<1>2. PICK r : /\ \/ r = Supervising!Gone
                  \/ /\ r = [proc[p] EXCEPT !.at = "remove"]
                     /\ \/ file[n].says \notin Pids \/ file[n].says = p
                        \/ proc[file[n].says].at = "gone"
               /\ Supervising!Moved([proc EXCEPT ![p] = r])
  BY <1>1 DEF Supervising!RemoveIfStale, Supervising!At, Supervising!Names, Supervising!ReadPid,
              Supervising!Alive
<1>3. file' = file /\ UNCHANGED Supervising!operator /\ crashes' = crashes /\ killed' = killed
  BY DEF Supervising!RemoveIfStale
<1>4. r \in {Supervising!Gone} \cup [node : {n}, at : ProcessPlaces, lock : {"test", "real"}]
  BY <1>1, <1>2 DEF ProcessPlaces
<1>5. ASSUME FileNamed(n)
      PROVE  \/ file'[n] = file[n] /\ r.at = "gone"
             \/ r.at = "remove" /\ OthersNot(p, n, Supervising!Working)
  <2>1. CASE r = Supervising!Gone
    BY <2>1, <1>3 DEF Supervising!Gone
  <2>2. CASE r # Supervising!Gone
    BY <2>2, <1>1, <1>2, <1>5 DEF FileNamed, OthersNot, Supervising!Working
  <2> QED
    BY <2>1, <2>2
<1> QED
  BY <1>1, <1>2, <1>3, <1>4, <1>5, FileStep DEF SupervisedInv, NodesTyped, FileType, Owning,
                                                Supervising!Working

\* Removing a stale file keeps it.
LEMMA RemoveStaleStep ==
    ASSUME SupervisedInv, NEW p \in Pids, Supervising!RemoveStale(p)
    PROVE  SupervisedInv'
<1>1. PICK n \in Nodes :
        proc[p].node = n /\ proc[p] \in [node : {n}, at : ProcessPlaces, lock : {"test", "real"}]
  BY NodeOf DEF SupervisedInv, Supervising!RemoveStale
<1>2. PICK r : r = [proc[p] EXCEPT !.at = "open"] /\ Supervising!Moved([proc EXCEPT ![p] = r])
  BY <1>1 DEF Supervising!RemoveStale, Supervising!At
<1>3. /\ file' = [file EXCEPT ![n] = Supervising!NoFile] /\ UNCHANGED Supervising!operator
      /\ crashes' = crashes /\ killed' = killed
  BY <1>1 DEF Supervising!RemoveStale
<1>4. r \in [node : {n}, at : ProcessPlaces, lock : {"test", "real"}] /\ r.at = "open"
  BY <1>1, <1>2 DEF ProcessPlaces
<1>5. ASSUME FileOwned(n) PROVE OthersNot(p, n, Supervising!Working)
  BY <1>1, <1>5 DEF FileOwned, OthersNot, Owning, Supervising!RemoveStale
<1>6. /\ file' \in [Nodes -> FileType] /\ \A m \in Nodes \ {n} : file'[m] = file[m]
      /\ crashes' \in 0..MaxCrashes /\ killed' \subseteq Nodes
  BY <1>3 DEF SupervisedInv, NodesTyped, FileType
<1> QED
  BY <1>1, <1>2, <1>3, <1>4, <1>5, <1>6, FileStep DEF Supervising!Working

\* Creating the file keeps it.
LEMMA OpenStep ==
    ASSUME SupervisedInv, NEW p \in Pids, Supervising!Open(p)
    PROVE  SupervisedInv'
<1>1. PICK n \in Nodes :
        proc[p].node = n /\ proc[p] \in [node : {n}, at : ProcessPlaces, lock : {"test", "real"}]
  BY NodeOf DEF SupervisedInv, Supervising!Open
<1>2. PICK r : /\ \/ r = Supervising!Gone \/ r = [proc[p] EXCEPT !.at = "write"]
               /\ Supervising!Moved([proc EXCEPT ![p] = r])
  BY <1>1 DEF Supervising!Open, Supervising!At
<1>3. /\ file' = file \/ file' = [file EXCEPT ![n] = [by |-> p, says |-> Supervising!Empty]]
      /\ UNCHANGED Supervising!operator /\ crashes' = crashes /\ killed' = killed
  BY <1>1 DEF Supervising!Open
<1>4. /\ r \in {Supervising!Gone} \cup [node : {n}, at : ProcessPlaces, lock : {"test", "real"}]
      /\ r.at \notin Supervising!Working
  BY <1>1, <1>2 DEF ProcessPlaces, Supervising!Working, Supervising!Gone
<1>5. ASSUME FileOwned(n) PROVE OthersNot(p, n, Supervising!Working)
  BY <1>1, <1>5 DEF FileOwned, OthersNot, Owning, Supervising!Open
<1>6. /\ file' \in [Nodes -> FileType] /\ \A m \in Nodes \ {n} : file'[m] = file[m]
      /\ crashes' \in 0..MaxCrashes /\ killed' \subseteq Nodes
  BY <1>3 DEF SupervisedInv, NodesTyped, FileType
<1> QED
  BY <1>1, <1>2, <1>3, <1>4, <1>5, <1>6, FileStep

\* Writing the pid to the file keeps it.
LEMMA WriteStep ==
    ASSUME SupervisedInv, NEW p \in Pids, Supervising!Write(p)
    PROVE  SupervisedInv'
<1>1. PICK n \in Nodes :
        proc[p].node = n /\ proc[p] \in [node : {n}, at : ProcessPlaces, lock : {"test", "real"}]
  BY NodeOf DEF SupervisedInv, Supervising!Write
<1>2. PICK r : r = [proc[p] EXCEPT !.at = "reread"] /\ Supervising!Moved([proc EXCEPT ![p] = r])
  BY <1>1 DEF Supervising!Write, Supervising!At
<1>3. /\ file' = IF file[n].by = p THEN [file EXCEPT ![n].says = p] ELSE file
      /\ UNCHANGED Supervising!operator /\ crashes' = crashes /\ killed' = killed
  BY <1>1 DEF Supervising!Write, Supervising!Mine
<1>4. /\ r \in [node : {n}, at : ProcessPlaces, lock : {"test", "real"}]
      /\ r.at \notin Supervising!Working
  BY <1>1, <1>2 DEF ProcessPlaces, Supervising!Working
<1>5. ASSUME FileOwned(n) PROVE OthersNot(p, n, Supervising!Working)
  BY <1>1, <1>5 DEF FileOwned, OthersNot, Owning, Supervising!Write
<1>6. /\ file' \in [Nodes -> FileType] /\ \A m \in Nodes \ {n} : file'[m] = file[m]
      /\ crashes' \in 0..MaxCrashes /\ killed' \subseteq Nodes
  BY <1>3, NodesRight DEF SupervisedInv, NodesTyped, FileType, Supervising!NoFile,
                          Supervising!MultiConstants
<1> QED
  BY <1>1, <1>2, <1>3, <1>4, <1>5, <1>6, FileStep

\* Reading the file back keeps it.
LEMMA RereadStep ==
    ASSUME SupervisedInv, NEW p \in Pids, Supervising!Reread(p)
    PROVE  SupervisedInv'
<1>1. PICK n \in Nodes :
        proc[p].node = n /\ proc[p] \in [node : {n}, at : ProcessPlaces, lock : {"test", "real"}]
  BY NodeOf DEF SupervisedInv, Supervising!Reread
<1>2. PICK r : /\ \/ r = Supervising!Gone
                  \/ r = [proc[p] EXCEPT !.at = "release"]
                  \/ r = [proc[p] EXCEPT !.at = "running"] /\ file[n].says = p
               /\ Supervising!Moved([proc EXCEPT ![p] = r])
  BY <1>1 DEF Supervising!Reread, Supervising!At, Supervising!ReadPid
<1>3. file' = file /\ UNCHANGED Supervising!operator /\ crashes' = crashes /\ killed' = killed
  BY DEF Supervising!Reread
<1>4. /\ r \in {Supervising!Gone} \cup [node : {n}, at : ProcessPlaces, lock : {"test", "real"}]
      /\ r.at \in {"gone", "release", "running"} /\ (r.at = "running" => file[n].says = p)
  BY <1>1, <1>2 DEF ProcessPlaces, Supervising!Gone
<1>5. ASSUME AtFileAlone(n), FileOwned(n) PROVE OthersNot(p, n,
             Supervising!Working) /\ OthersNot(p, n, Owning)
  <2>1. OthersNot(p, n, Supervising!Working)
    BY <1>1, <1>5 DEF FileOwned, OthersNot, Owning, Supervising!Reread
  <2>2. OthersNot(p, n, Owning)
    BY <1>1, <1>5 DEF AtFileAlone, OthersNot, Owning, AtFile, ProcessPlaces, Supervising!Reread
  <2> QED
    BY <2>1, <2>2
<1>6. /\ file' \in [Nodes -> FileType] /\ crashes' \in 0..MaxCrashes /\ killed' \subseteq Nodes
  BY <1>3 DEF SupervisedInv, NodesTyped, FileType
<1> QED
  BY <1>1, <1>2, <1>3, <1>4, <1>5, <1>6, FileStep DEF Supervising!Working, Owning

\* Giving up the file, and going on to the real lock, keeps it.
LEMMA ReleaseStep ==
    ASSUME SupervisedInv, NEW p \in Pids, Supervising!ReleaseTestLock(p) \/ Supervising!AtExit(p)
    PROVE  SupervisedInv'
<1>1. PICK n \in Nodes :
        proc[p].node = n /\ proc[p] \in [node : {n}, at : ProcessPlaces, lock : {"test", "real"}]
  BY NodeOf DEF SupervisedInv, Supervising!ReleaseTestLock, Supervising!AtExit
<1>2. PICK r : /\ r = Supervising!Gone \/ r = [node |-> n, at |-> "check", lock |-> "real"]
               /\ Supervising!Moved([proc EXCEPT ![p] = r])
  BY <1>1 DEF Supervising!ReleaseTestLock, Supervising!AtExit
<1>3. /\ file' = [file EXCEPT ![n] = Supervising!NoFile] /\ UNCHANGED Supervising!operator
      /\ crashes' = crashes /\ killed' = killed
  BY <1>1 DEF Supervising!ReleaseTestLock, Supervising!AtExit
<1>4. /\ r \in {Supervising!Gone} \cup [node : {n}, at : ProcessPlaces, lock : {"test", "real"}]
      /\ r.at \notin Supervising!Working
  BY <1>1, <1>2 DEF ProcessPlaces, Supervising!Working, Supervising!Gone
<1>5. ASSUME FileOwned(n) PROVE OthersNot(p, n, Supervising!Working)
  BY <1>1, <1>5 DEF FileOwned, OthersNot, Owning, Supervising!ReleaseTestLock, Supervising!AtExit
<1>6. /\ file' \in [Nodes -> FileType] /\ \A m \in Nodes \ {n} : file'[m] = file[m]
      /\ crashes' \in 0..MaxCrashes /\ killed' \subseteq Nodes
  BY <1>3 DEF SupervisedInv, NodesTyped, FileType
<1> QED
  BY <1>1, <1>2, <1>3, <1>4, <1>5, <1>6, FileStep

\* The end of a worker and of its file keeps it.
LEMMA OnStoppedStep ==
    ASSUME SupervisedInv, NEW p \in Pids, Supervising!OnStopped(p)
    PROVE  SupervisedInv'
<1>1. PICK n \in Nodes :
        proc[p].node = n /\ proc[p] \in [node : {n}, at : ProcessPlaces, lock : {"test", "real"}]
  BY NodeOf DEF SupervisedInv, Supervising!OnStopped
<1>2. PICK r : r = [proc[p] EXCEPT !.at = "exiting"] /\ Supervising!Moved([proc EXCEPT ![p] = r])
  BY <1>1 DEF Supervising!OnStopped, Supervising!At
<1>3. /\ file' = [file EXCEPT ![n] = Supervising!NoFile] /\ UNCHANGED Supervising!operator
      /\ crashes' = crashes /\ killed' = killed
  BY <1>1 DEF Supervising!OnStopped
<1>4. /\ r \in [node : {n}, at : ProcessPlaces, lock : {"test", "real"}]
      /\ r.at \notin Supervising!Working
  BY <1>1, <1>2 DEF ProcessPlaces, Supervising!Working
<1>5. ASSUME FileNamed(n) PROVE OthersNot(p, n, Supervising!Working)
  BY <1>1, <1>5 DEF FileNamed, OthersNot, Supervising!Working, Supervising!OnStopped
<1>6. /\ file' \in [Nodes -> FileType] /\ \A m \in Nodes \ {n} : file'[m] = file[m]
      /\ crashes' \in 0..MaxCrashes /\ killed' \subseteq Nodes
  BY <1>3 DEF SupervisedInv, NodesTyped, FileType
<1> QED
  BY <1>1, <1>2, <1>3, <1>4, <1>5, <1>6, FileStep

\* A crash, which leaves the file, keeps it.
LEMMA CrashStep ==
    ASSUME SupervisedInv, NEW p \in Pids, Supervising!Crash(p)
    PROVE  SupervisedInv'
<1>1. PICK n \in Nodes :
        proc[p].node = n /\ proc[p] \in [node : {n}, at : ProcessPlaces, lock : {"test", "real"}]
  BY NodeOf DEF SupervisedInv, Supervising!Crash, Supervising!Alive
<1>2. Supervising!Moved([proc EXCEPT ![p] = Supervising!Gone]) /\ Supervising!Gone.at = "gone"
  BY DEF Supervising!Crash, Supervising!Gone
<1>3. /\ file' = file /\ UNCHANGED Supervising!operator /\ crashes < MaxCrashes
      /\ crashes' = crashes + 1 /\ killed' = killed \cup {n}
  BY <1>1 DEF Supervising!Crash
<1>4. /\ file' \in [Nodes -> FileType] /\ crashes' \in 0..MaxCrashes /\ killed' \subseteq Nodes
  BY <1>3, NodesRight DEF SupervisedInv, NodesTyped, FileType, Supervising!MultiConstants
<1> QED
  BY <1>1, <1>2, <1>3, <1>4, FileStep DEF Supervising!Working, Owning

\* The locks hold while neither the processes nor the files change.
LEMMA ProcessesStay ==
    ASSUME NodesTyped, PidfilesHeld, file' = file, proc' = proc, raced \subseteq raced'
    PROVE  PidfilesHeld'
BY DEF PidfilesHeld, AtFileAlone, FileNamed, FileOwned, Supervising!Working, Owning, AtFile,
       ProcessPlaces

\* A node is started with one more process, which does not work yet.
LEMMA StartKeeps ==
    ASSUME NodesTyped, PidfilesHeld, NEW n \in Nodes, Supervising!Start(n), file' = file
    PROVE  /\ proc' \in [Pids -> ProcessType] /\ raced' \subseteq Nodes /\ PidfilesHeld'
           /\ killed' \subseteq Nodes /\ launched' = [launched EXCEPT ![n] = @ + 1]
<1>1. PICK p \in Supervising!NewPids(n) : Supervising!Moved([proc EXCEPT ![p] = Supervising!Spawned(n)])
  BY DEF Supervising!Start
<1>2. p \in Pids /\ proc[p] = Supervising!Gone
  BY <1>1 DEF Supervising!NewPids
<1>3. PICK r : r = Supervising!Spawned(n)
  OBVIOUS
<1>4. r \in [node : {n}, at : ProcessPlaces, lock : {"test", "real"}] /\ r.at = "check"
  BY <1>3 DEF Supervising!Spawned, ProcessPlaces
<1>5. proc' \in [Pids -> ProcessType] /\ raced' \subseteq Nodes /\ PidfilesHeld'
  BY <1>1, <1>2, <1>3, <1>4, OneMoves DEF Supervising!Gone, Supervising!Working, Owning
<1> QED
  BY <1>5 DEF Supervising!Start, NodesTyped

\* A signal ends a process, or has it stop, or does nothing.
LEMMA SendKeeps ==
    ASSUME NodesTyped, PidfilesHeld, NEW n \in Nodes, NEW sig, Supervising!Send(n, sig),
           file' = file
    PROVE  /\ proc' \in [Pids -> ProcessType] /\ raced' \subseteq Nodes /\ PidfilesHeld'
           /\ killed' \subseteq Nodes
<1>1. CASE ~Supervising!NodeAlive(n)
  <2>1. proc' = proc /\ raced' = raced /\ killed' = killed
    BY <1>1 DEF Supervising!Send
  <2> QED
    BY <2>1, ProcessesStay DEF NodesTyped, ProcessType
<1>2. CASE Supervising!NodeAlive(n)
  <2>1. PICK p \in Pids : proc[p].at # "gone" /\ Supervising!Signalled(p, sig)
    BY <1>2 DEF Supervising!Send, Supervising!NodeAlive, Supervising!Names, Supervising!Alive
  <2>2. PICK m \in Nodes :
          proc[p].node = m /\ proc[p] \in [node : {m}, at : ProcessPlaces, lock : {"test", "real"}]
    BY <2>1, NodeOf
  <2>3. CASE sig = "KILL" \/ proc[p].at \notin Supervising!Working \cup {"exiting"}
    <3>1. Supervising!Moved([proc EXCEPT ![p] = Supervising!Gone]) /\ killed' = killed \cup {m}
      BY <2>1, <2>2, <2>3 DEF Supervising!Signalled
    <3>2. Supervising!Gone.at = "gone"
      BY DEF Supervising!Gone
    <3>3. proc' \in [Pids -> ProcessType] /\ raced' \subseteq Nodes /\ PidfilesHeld'
      BY <2>2, <3>1, <3>2, OneMoves DEF Supervising!Working, Owning
    <3> QED
      BY <3>1, <3>3 DEF NodesTyped
  <2>4. CASE ~(sig = "KILL" \/ proc[p].at \notin Supervising!Working \cup {"exiting"})
    <3>1. killed' = killed
      BY <2>1, <2>4 DEF Supervising!Signalled
    <3>2. CASE proc[p].at = "running"
      <4>1. PICK r : r = [proc[p] EXCEPT !.at = "stopping"] /\ Supervising!Moved([proc EXCEPT ![p] = r])
        BY <2>1, <2>4, <3>2 DEF Supervising!Signalled, Supervising!At
      <4>2. r \in [node : {m}, at : ProcessPlaces, lock : {"test", "real"}] /\ r.at = "stopping"
        BY <2>2, <4>1 DEF ProcessPlaces
      <4>3. ASSUME FileNamed(m), FileOwned(m) PROVE file[m].says = p /\ OthersNot(p, m, Owning)
        BY <2>2, <3>2, <4>3 DEF FileNamed, FileOwned, OthersNot, Supervising!Working
      <4>4. proc' \in [Pids -> ProcessType] /\ raced' \subseteq Nodes /\ PidfilesHeld'
        BY <2>2, <4>1, <4>2, <4>3, OneMoves DEF Owning
      <4> QED
        BY <3>1, <4>4 DEF NodesTyped
    <3>3. CASE proc[p].at # "running"
      <4>1. Supervising!Moved(proc)
        BY <2>1, <2>4, <3>3 DEF Supervising!Signalled
      <4>2. proc' = proc /\ raced \subseteq raced' /\ raced' \subseteq Nodes
        BY <4>1, MovedFacts DEF NodesTyped
      <4> QED
        BY <3>1, <4>2, ProcessesStay DEF NodesTyped, ProcessType
    <3> QED
      BY <3>2, <3>3
  <2> QED
    BY <2>3, <2>4
<1> QED
  BY <1>1, <1>2

\* A new command keeps the invariant.
LEMMA CommandStep ==
    ASSUME SupervisedInv, NEW op \in Supervising!Operations, Supervising!Command(op)
    PROVE  SupervisedInv'
<1>1. NodesTyped'
  BY NodesRight DEF SupervisedInv, NodesTyped, Supervising!Command, Supervising!MultiConstants
<1>2. PidfilesHeld'
  BY ProcessesStay DEF SupervisedInv, Supervising!Command
<1>3. RestartsCounted'
  BY DEF SupervisedInv, NodesTyped, RestartsCounted, Supervising!RestartOnce, Supervising!Command
<1> QED
  BY <1>1, <1>2, <1>3 DEF SupervisedInv

\* What a step of the operator leaves right: all but the command and its count.
NodesKept ==
    /\ proc' \in [Pids -> ProcessType] /\ raced' \subseteq Nodes /\ PidfilesHeld'
    /\ killed' \subseteq Nodes

\* A node that is down is started again if the command is a restart.
LEMMA OnDownKeeps ==
    ASSUME NodesTyped, PidfilesHeld, NEW n \in Nodes, Supervising!OnDown(n), file' = file
    PROVE  /\ NodesKept
           /\ launched' = IF cmd.op = "restart" THEN [launched EXCEPT ![n] = @ + 1] ELSE launched
<1>1. CASE cmd.op = "restart"
  BY <1>1, StartKeeps DEF Supervising!OnDown, NodesKept
<1>2. CASE cmd.op # "restart"
  BY <1>2, ProcessesStay DEF Supervising!OnDown, Supervising!Quiet, NodesKept, NodesTyped,
                             ProcessType
<1> QED
  BY <1>1, <1>2

\* A start command keeps the invariant.
LEMMA StartNodeStep ==
    ASSUME SupervisedInv, Supervising!StartNode
    PROVE  SupervisedInv'
<1>1. PICK n \in cmd.todo :
        /\ Supervising!Start(n)
        /\ cmd' = IF cmd.todo = {n} THEN Supervising!Idle ELSE [cmd EXCEPT !.todo = @ \ {n}]
  BY DEF Supervising!StartNode
<1>2. n \in Nodes /\ cmd.at = "start" /\ UNCHANGED <<file, given, crashes, patient>>
  BY DEF Supervising!StartNode, SupervisedInv, NodesTyped
<1>3. NodesKept /\ launched' = [launched EXCEPT ![n] = @ + 1]
  BY <1>1, <1>2, StartKeeps DEF SupervisedInv, NodesKept
<1>4. NodesTyped'
  BY <1>1, <1>2, <1>3 DEF NodesKept, SupervisedInv, NodesTyped, ProcessType, Supervising!Idle,
                          Supervising!Operations
<1>5. RestartsCounted'
  BY <1>1, <1>2 DEF SupervisedInv, NodesTyped, RestartsCounted, Supervising!RestartOnce,
                    Supervising!Idle
<1> QED
  BY <1>3, <1>4, <1>5 DEF SupervisedInv, NodesKept

\* Looking for the nodes' processes, with its restart of those that are down, keeps it.
LEMMA GetPidsStep ==
    ASSUME SupervisedInv, Supervising!GetPids
    PROVE  SupervisedInv'
<1> DEFINE Q(n) == IF Supervising!Names(n) THEN cmd.P \cup {n} ELSE cmd.P
<1>1. PICK n \in cmd.todo :
        /\ ~Supervising!Names(n) => Supervising!OnDown(n)
        /\ Supervising!Names(n) /\ cmd.op = "kill" => Supervising!Send(n, "KILL") /\ UNCHANGED launched
        /\ Supervising!Names(n) /\ cmd.op # "kill" => Supervising!Quiet
        /\ cmd' = CASE cmd.todo # {n} -> [cmd EXCEPT !.todo = @ \ {n}, !.P = Q(n)]
                    [] cmd.op = "kill" \/ Q(n) = {} -> Supervising!Idle
                    [] OTHER -> [cmd EXCEPT !.at = "send", !.todo = Q(n), !.P = Q(n)]
  BY DEF Supervising!GetPids
<1>2. n \in Nodes /\ cmd.at = "getpids" /\ UNCHANGED <<file, given, crashes, patient>>
  BY DEF Supervising!GetPids, SupervisedInv, NodesTyped
<1>3. /\ NodesKept
      /\ launched' = IF ~Supervising!Names(n) /\ cmd.op = "restart" THEN [launched EXCEPT ![n] = @ + 1]
                                                      ELSE launched
  <2>1. CASE ~Supervising!Names(n)
    BY <1>1, <1>2, <2>1, OnDownKeeps DEF SupervisedInv
  <2>2. CASE Supervising!Names(n) /\ cmd.op = "kill"
    BY <1>1, <1>2, <2>2, SendKeeps DEF SupervisedInv, NodesKept
  <2>3. CASE Supervising!Names(n) /\ cmd.op # "kill"
    BY <1>1, <1>2, <2>3, ProcessesStay DEF SupervisedInv, Supervising!Quiet, NodesKept,
                                           NodesTyped, ProcessType
  <2> QED
    BY <2>1, <2>2, <2>3
<1>4. Q(n) \subseteq Nodes
  BY <1>1, <1>2 DEF SupervisedInv, NodesTyped
<1>5. \/ cmd' = [cmd EXCEPT !.todo = @ \ {n}, !.P = Q(n)]
      \/ cmd' = Supervising!Idle
      \/ cmd.todo = {n} /\ cmd' = [cmd EXCEPT !.at = "send", !.todo = Q(n), !.P = Q(n)]
  BY <1>1
<1>6. NodesTyped'
  <2>1. cmd' \in [op : Supervising!Operations \cup {"idle"},
                at : {"idle", "start", "getpids", "send", "wait"},
                  todo : SUBSET Nodes, P : SUBSET Nodes]
    <3>1. CASE cmd' = [cmd EXCEPT !.todo = @ \ {n}, !.P = Q(n)]
      BY <1>4, <3>1 DEF SupervisedInv, NodesTyped
    <3>2. CASE cmd' = Supervising!Idle
      BY <3>2 DEF Supervising!Idle
    <3>3. CASE cmd' = [cmd EXCEPT !.at = "send", !.todo = Q(n), !.P = Q(n)]
      BY <1>4, <3>3 DEF SupervisedInv, NodesTyped
    <3> QED
      BY <1>5, <3>1, <3>2, <3>3
  <2> QED
    BY <1>2, <1>3, <2>1 DEF NodesKept, SupervisedInv, NodesTyped, ProcessType
<1>7. RestartsCounted'
  BY <1>1, <1>2, <1>3, <1>5 DEF SupervisedInv, NodesTyped, RestartsCounted,
                                Supervising!RestartOnce, Supervising!Idle
<1> QED
  BY <1>3, <1>6, <1>7 DEF SupervisedInv, NodesKept

\* Sending a signal keeps it.
LEMMA SendSignalStep ==
    ASSUME SupervisedInv, Supervising!SendSignal
    PROVE  SupervisedInv'
<1> DEFINE Q(n) == IF Supervising!NodeAlive(n) THEN cmd.P ELSE cmd.P \ {n}
<1>1. PICK n \in cmd.todo :
        /\ Supervising!NodeAlive(n) => Supervising!Send(n, "TERM") /\ UNCHANGED launched
        /\ ~Supervising!NodeAlive(n) => Supervising!OnDown(n)
        /\ cmd' = CASE cmd.todo # {n} -> [cmd EXCEPT !.todo = @ \ {n}, !.P = Q(n)]
                    [] cmd.op = "stop" \/ Q(n) = {} -> Supervising!Idle
                    [] OTHER -> [cmd EXCEPT !.at = "wait", !.todo = {}, !.P = Q(n)]
  BY DEF Supervising!SendSignal
<1>2. n \in Nodes /\ cmd.at = "send" /\ UNCHANGED <<file, given, crashes, patient>>
  BY DEF Supervising!SendSignal, SupervisedInv, NodesTyped
<1>3. /\ NodesKept
      /\ launched' = IF ~Supervising!NodeAlive(n) /\ cmd.op = "restart" THEN [launched EXCEPT ![n] = @ + 1]
                                                          ELSE launched
  <2>1. CASE ~Supervising!NodeAlive(n)
    BY <1>1, <1>2, <2>1, OnDownKeeps DEF SupervisedInv
  <2>2. CASE Supervising!NodeAlive(n)
    BY <1>1, <1>2, <2>2, SendKeeps DEF SupervisedInv, NodesKept
  <2> QED
    BY <2>1, <2>2
<1>4. Q(n) \subseteq Nodes
  BY <1>1, <1>2 DEF SupervisedInv, NodesTyped
<1>5. \/ cmd' = [cmd EXCEPT !.todo = @ \ {n}, !.P = Q(n)]
      \/ cmd' = Supervising!Idle
      \/ cmd.todo = {n} /\ cmd' = [cmd EXCEPT !.at = "wait", !.todo = {}, !.P = Q(n)]
  BY <1>1
<1>6. NodesTyped'
  <2>1. cmd' \in [op : Supervising!Operations \cup {"idle"},
                at : {"idle", "start", "getpids", "send", "wait"},
                  todo : SUBSET Nodes, P : SUBSET Nodes]
    <3>1. CASE cmd' = [cmd EXCEPT !.todo = @ \ {n}, !.P = Q(n)]
      BY <1>4, <3>1 DEF SupervisedInv, NodesTyped
    <3>2. CASE cmd' = Supervising!Idle
      BY <3>2 DEF Supervising!Idle
    <3>3. CASE cmd' = [cmd EXCEPT !.at = "wait", !.todo = {}, !.P = Q(n)]
      BY <1>4, <3>3 DEF SupervisedInv, NodesTyped
    <3> QED
      BY <1>5, <3>1, <3>2, <3>3
  <2> QED
    BY <1>2, <1>3, <2>1 DEF NodesKept, SupervisedInv, NodesTyped, ProcessType
<1>7. RestartsCounted'
  BY <1>1, <1>2, <1>3, <1>5 DEF SupervisedInv, NodesTyped, RestartsCounted,
                                Supervising!RestartOnce, Supervising!Idle
<1> QED
  BY <1>3, <1>6, <1>7 DEF SupervisedInv, NodesKept

\* Waiting for nodes to end keeps it.
LEMMA WaitForStep ==
    ASSUME SupervisedInv, Supervising!WaitFor
    PROVE  SupervisedInv'
<1>1. PICK n \in cmd.P :
        /\ Supervising!OnDown(n)
        /\ cmd' = IF cmd.P = {n} THEN Supervising!Idle ELSE [cmd EXCEPT !.P = @ \ {n}]
  BY DEF Supervising!WaitFor
<1>2. n \in Nodes /\ cmd.at = "wait" /\ UNCHANGED <<file, given, crashes, patient>>
  BY DEF Supervising!WaitFor, SupervisedInv, NodesTyped
<1>3. /\ NodesKept
      /\ launched' = IF cmd.op = "restart" THEN [launched EXCEPT ![n] = @ + 1] ELSE launched
  BY <1>1, <1>2, OnDownKeeps DEF SupervisedInv
<1>4. NodesTyped'
  BY <1>1, <1>2, <1>3 DEF NodesKept, SupervisedInv, NodesTyped, ProcessType, Supervising!Idle
<1>5. RestartsCounted'
  BY <1>1, <1>2, <1>3 DEF SupervisedInv, NodesTyped, RestartsCounted, Supervising!RestartOnce,
                          Supervising!Idle
<1> QED
  BY <1>3, <1>4, <1>5 DEF SupervisedInv, NodesKept

\* The invariant holds before the first command.
LEMMA SupervisedInit ==
    ASSUME Supervising!Init
    PROVE  SupervisedInv
<1>1. NodesTyped
  BY NodesRight DEF Supervising!Init, NodesTyped, Supervising!MultiConstants, Supervising!Idle
<1>2. PidfilesHeld
  BY NodesRight DEF Supervising!Init, PidfilesHeld, AtFileAlone, FileNamed, FileOwned,
                    Supervising!Gone, Supervising!MultiConstants
<1>3. RestartsCounted
  BY DEF Supervising!Init, RestartsCounted, Supervising!RestartOnce, Supervising!Idle
<1> QED
  BY <1>1, <1>2, <1>3 DEF SupervisedInv

\* Every step of a process and of the operator keeps it.
LEMMA SupervisedStep ==
    ASSUME SupervisedInv, Supervising!Next
    PROVE  SupervisedInv'
<1>1. ASSUME NEW p \in Pids, Supervising!Step(p) PROVE SupervisedInv'
  BY <1>1, IsLockedStep, RemoveIfStaleStep, RemoveStaleStep, OpenStep, WriteStep, RereadStep,
     ReleaseStep, OnStoppedStep DEF Supervising!Step
<1> QED
  BY <1>1, CrashStep, CommandStep, StartNodeStep, GetPidsStep, SendSignalStep, WaitForStep
     DEF Supervising!Next, Supervising!Operate

\* So does a step of another part.
LEMMA SupervisedStays ==
    ASSUME SupervisedInv, UNCHANGED Supervising!vars
    PROVE  SupervisedInv'
<1>1. NodesTyped'
  BY DEF Supervising!vars, SupervisedInv, NodesTyped
<1>2. PidfilesHeld'
  BY ProcessesStay DEF Supervising!vars, SupervisedInv
<1>3. RestartsCounted'
  BY OperatorStays DEF Supervising!vars, SupervisedInv, Supervising!operator
<1> QED
  BY <1>1, <1>2, <1>3 DEF SupervisedInv

\* It gives what is to be shown of the nodes.
LEMMA SupervisedFollows ==
    ASSUME SupervisedInv
    PROVE  Supervising!Supervised
<1>1. Supervising!TypeOK
  BY DEF SupervisedInv, NodesTyped, Supervising!TypeOK, ProcessPlaces
<1>2. Supervising!LockHeld
  BY DEF SupervisedInv, PidfilesHeld, FileNamed, Supervising!LockHeld, Supervising!Of,
         Supervising!ReadPid
<1> QED
  BY <1>1, <1>2 DEF SupervisedInv, RestartsCounted, Supervising!Supervised

\* The invariant of the scenario that is about the nodes.
MultiInv == scenario = "multi" => SupervisedInv

\* Every step keeps it.
LEMMA MultiStep ==
    ASSUME MultiInv, [ScenarioNext]_allVars PROVE MultiInv'
<1> SUFFICES ASSUME scenario' = "multi" PROVE SupervisedInv'
  BY DEF MultiInv
<1>1. scenario = "multi"
  BY DEF ScenarioNext, InPool, InFlow, InRate, InQueues, InMulti, InBlueprint, allVars
<1>2. SupervisedInv
  BY <1>1 DEF MultiInv
<1>3. CASE Supervising!Next
  BY <1>2, <1>3, SupervisedStep
<1>4. CASE UNCHANGED multiVars
  <2>1. UNCHANGED Supervising!vars
    BY <1>4 DEF multiVars, Supervising!vars
  <2> QED
    BY <1>2, <2>1, SupervisedStays
<1> QED
  BY <1>3, <1>4
     DEF ScenarioNext, InPool, InRate, InFlow, InQueues, InBlueprint, allVars

(* A node's pidfile names the process that works, whichever processes      *)
(* crash, are killed or find a stale file, unless two were at the file     *)
(* together, and a restart starts no node twice.                           *)
THEOREM NodesSupervised == ScenarioSpec => []Supervised
<1>1. ScenarioInit => MultiInv
  BY SupervisedInit DEF ScenarioInit, MultiInv
<1>2. MultiInv => Supervised
  BY SupervisedFollows DEF MultiInv, Supervised
<1> QED
  BY <1>1, <1>2, MultiStep, PTL DEF ScenarioSpec

-----------------------------------------------------------------------------
\* A chunk of the job j is in the pipe p.
Holds(s, p, j) == \E c \in Pool(s)!Elements(p) : c.job = j

\* A message on the job j is in the queue q.
Tells(s, q, k, j) == Pool(s)!Msg(k, j) \in Pool(s)!Elements(q)

\* A result is in the queue q.
Ready(s, q) == \E m \in Pool(s)!Elements(q) : m.kind = "ready"

\* The job j is, or was, at the child behind f.
Traced(s, j, f) ==
    \/ Holds(s, pipe[f], j) \/ writer[f] = j \/ exec[f] = j
    \/ Tells(s, outq[f], "ack", j) \/ Tells(s, outq[f], "ready", j)

\* A job was at no other child than the one it was last written to.
WrittenThere(s) == \A j \in Pool(s)!Jobs, f \in Pools[s].fds : Traced(s, j, f) => writeTo[j] = f

\* Nor was it accepted by another.
AcceptedThere(s) == \A j \in Pool(s)!Jobs : accepted[j] # None => accepted[j] = writeTo[j]

\* A job that waits to be written is at no child and was not started, and waits once.
WaitingUntraced(s) ==
    /\ \A j \in Pool(s)!Elements(outbound) :
          /\ starts[j] = 0 /\ \A f \in Pools[s].fds : ~Traced(s, j, f)
          /\ j \in cache => accepted[j] = None
          /\ happened.flushes = 0 /\ accepted[j] = None => j \in cache
    /\ \A i, k \in DOMAIN outbound : outbound[i] = outbound[k] => i = k

\* Nothing is known of a job that was not sent.
UnsentUnknown(s) ==
    \A j \in Pool(s)!Jobs : j > sent => /\ accepted[j] = None /\ writeTo[j] = None /\ starts[j] = 0
                                        /\ j \notin Pool(s)!Elements(outbound)

\* A job whose message was not read was not started, and nothing was told of it.
UnreadUnstarted(s) ==
    \A j \in Pool(s)!Jobs, f \in Pools[s].fds : Holds(s, pipe[f], j) \/ writer[f] = j =>
       /\ starts[j] = 0 /\ accepted[j] = None /\ exec[f] # j
       /\ ~Tells(s, outq[f], "ack", j) /\ ~Tells(s, outq[f], "ready", j)

\* A pipe has each job once, and only its last message is in part, the one being written.
ChunksOrderly(s, p, w) ==
    /\ \A i, k \in DOMAIN p : p[i].job = p[k].job => i = k
    /\ \A i \in DOMAIN p : IF p[i].whole THEN p[i].job # w ELSE i = Len(p) /\ p[i].job = w

\* So it is of every pipe.
PipesOrderly(s) == \A f \in Pools[s].fds : ChunksOrderly(s, pipe[f], writer[f])

\* A job was started once at most, and the parent knows of it, or will.
StartsHeard(s) ==
    \A j \in Pool(s)!Jobs : starts[j] # 0 =>
        /\ starts[j] = 1
        /\ \/ j \notin cache \/ accepted[j] # None
           \/ \E f \in Pools[s].fds : Tells(s, outq[f], "ack", j)

\* A child that executes a job lives, and has not told its result.
Executing(s) ==
    \A f \in Pools[s].fds :
       exec[f] # None => child[f] = "up" /\ ~Tells(s, outq[f], "ready", exec[f])

\* A child says first of all that it is up.
UpFirst(s) ==
    \A f \in Pools[s].fds :
        /\ child[f] = "starting" => outq[f] = <<>> /\ f \notin inq
        /\ \A i \in DOMAIN outq[f] : outq[f][i].kind = "up" => i = 1 /\ f \notin inq

\* A pipe is damaged by a child that died, and an unfinished job was written to it.
DamagedFound(s) ==
    happened.flushes = 0 => \A f \in damaged :
        /\ child[f] = "dead"
        /\ \E j \in cache :
              /\ writeTo[j] = f /\ ~Tells(s, outq[f], "ready", j)
              /\ j \notin Pool(s)!Elements(outbound)

\* Without a lost connection, the parent knows of every job at a child.
AtChildCached(s) ==
    happened.flushes = 0 =>
        \A f \in Pools[s].fds, j \in Pool(s)!Jobs :
           Holds(s, pipe[f], j) \/ writer[f] = j \/ exec[f] = j => j \in cache

\* The child behind f has nothing to do.
Idle(s, f) == pipe[f] = <<>> /\ writer[f] = None /\ exec[f] = None /\ ~Ready(s, outq[f])

\* It has one job: in its pipe, or being executed, or with its result on the way.
Solo(s, f) ==
    \/ /\ Len(pipe[f]) = 1 /\ exec[f] = None /\ ~Ready(s, outq[f])
       /\ writer[f] # None => ~pipe[f][1].whole
    \/ pipe[f] = <<>> /\ writer[f] = None /\ exec[f] # None /\ ~Ready(s, outq[f])
    \/ /\ pipe[f] = <<>> /\ writer[f] = None /\ exec[f] = None
       /\ \A i, k \in DOMAIN outq[f] :
             outq[f][i].kind = "ready" /\ outq[f][k].kind = "ready" => i = k

\* Under fair scheduling every child has at most one job.
OneEach(s) ==
    Pools[s].fair /\ happened.flushes = 0 =>
        \A f \in Pools[s].fds : Idle(s, f) \/ (f \in busy /\ Solo(s, f))

\* While the pool is flushed, no job waits and each was accepted.
FlushedOut(s) ==
    poolpc = "flush" => /\ happened.flushes # 0 /\ Pool(s)!Elements(outbound) = {}
                        /\ \A j \in cache : accepted[j] # None

\* A job the parent knows of is still somewhere.
JobsSomewhere(s) ==
    \A j \in cache :
        \/ j \in Pool(s)!Elements(outbound)
        \/ \E f \in Pools[s].fds : \/ writer[f] = j \/ exec[f] = j \/ Holds(s, pipe[f], j)
                                   \/ Tells(s, outq[f], "ready", j)
                                   \/ (writeTo[j] = f /\ child[f] = "dead")

\* A child that counts as busy has something to do, or is dead.
BusyWithSome(s) ==
    \A f \in busy :
        \/ child[f] = "dead" \/ writer[f] # None \/ pipe[f] # <<>> \/ exec[f] # None
        \/ Ready(s, outq[f])

\* The inductive invariant for JobsAccounted.
PoolInv(s) ==
    /\ Pool(s)!TypeOK /\ WrittenThere(s) /\ AcceptedThere(s) /\ WaitingUntraced(s)
    /\ UnsentUnknown(s) /\ UnreadUnstarted(s) /\ PipesOrderly(s)
    /\ StartsHeard(s) /\ Executing(s) /\ UpFirst(s) /\ DamagedFound(s) /\ AtChildCached(s)
    /\ OneEach(s) /\ FlushedOut(s)
    /\ JobsSomewhere(s) /\ BusyWithSome(s)

\* What Append adds to a sequence and to the set of its elements.
LEMMA AppendElements ==
    ASSUME NEW s \in DOMAIN Pools, NEW S, NEW q \in Seq(S), NEW x \in S
    PROVE  /\ Append(q, x) \in Seq(S) /\ Append(q, x) # <<>>
           /\ Len(q) \in Nat /\ DOMAIN q = 1..Len(q)
           /\ Len(Append(q, x)) = Len(q) + 1 /\ DOMAIN Append(q, x) = 1..Len(q) + 1
           /\ \A i \in DOMAIN q : Append(q, x)[i] = q[i]
           /\ Append(q, x)[Len(q) + 1] = x
           /\ Pool(s)!Elements(Append(q, x)) = Pool(s)!Elements(q) \cup {x}
<1>1. /\ Append(q, x) \in Seq(S) /\ Append(q, x) # <<>>
      /\ Len(q) \in Nat /\ DOMAIN q = 1..Len(q)
      /\ Len(Append(q, x)) = Len(q) + 1 /\ DOMAIN Append(q, x) = 1..Len(q) + 1
      /\ \A i \in DOMAIN q : Append(q, x)[i] = q[i]
      /\ Append(q, x)[Len(q) + 1] = x
  OBVIOUS
<1>2. 1..Len(q) + 1 = 1..Len(q) \cup {Len(q) + 1}
  BY <1>1
<1>3. Pool(s)!Elements(Append(q, x)) = Pool(s)!Elements(q) \cup {x}
  BY <1>1, <1>2, Zenon DEF Pool!Elements
<1> QED
  BY <1>1, <1>3

\* What Tail removes.
LEMMA TailElements ==
    ASSUME NEW s \in DOMAIN Pools, NEW S, NEW q \in Seq(S), q # <<>>
    PROVE  /\ Head(q) \in S /\ Tail(q) \in Seq(S) /\ Head(q) = q[1]
           /\ Len(q) \in Nat \ {0} /\ DOMAIN q = 1..Len(q)
           /\ Len(Tail(q)) = Len(q) - 1 /\ DOMAIN Tail(q) = 1..Len(q) - 1
           /\ \A i \in DOMAIN Tail(q) : i + 1 \in DOMAIN q /\ Tail(q)[i] = q[i + 1]
           /\ \A i \in DOMAIN q : i = 1 \/ (i - 1 \in DOMAIN Tail(q) /\ q[i] = Tail(q)[i - 1])
           /\ Pool(s)!Elements(q) = Pool(s)!Elements(Tail(q)) \cup {Head(q)}
<1>1. /\ Head(q) \in S /\ Tail(q) \in Seq(S) /\ Head(q) = q[1]
      /\ Len(q) \in Nat \ {0} /\ DOMAIN q = 1..Len(q)
      /\ Len(Tail(q)) = Len(q) - 1 /\ DOMAIN Tail(q) = 1..Len(q) - 1
      /\ \A i \in DOMAIN Tail(q) : i + 1 \in DOMAIN q /\ Tail(q)[i] = q[i + 1]
  OBVIOUS
<1>2. \A i \in DOMAIN q : i = 1 \/ (i - 1 \in DOMAIN Tail(q) /\ q[i] = Tail(q)[i - 1])
  BY <1>1
<1>3. Pool(s)!Elements(q) = Pool(s)!Elements(Tail(q)) \cup {Head(q)}
  <2>1. ASSUME NEW i \in DOMAIN q PROVE q[i] \in Pool(s)!Elements(Tail(q)) \cup {Head(q)}
    BY <1>1, <1>2 DEF Pool!Elements
  <2>2. ASSUME NEW i \in DOMAIN Tail(q) PROVE Tail(q)[i] \in Pool(s)!Elements(q)
    BY <1>1 DEF Pool!Elements
  <2>3. 1 \in DOMAIN q
    BY <1>1
  <2>4. Head(q) \in Pool(s)!Elements(q)
    BY <1>1, <2>3, Zenon DEF Pool!Elements
  <2>5. Pool(s)!Elements(Tail(q)) \subseteq Pool(s)!Elements(q)
    BY <2>2, Zenon DEF Pool!Elements
  <2>6. Pool(s)!Elements(q) \subseteq Pool(s)!Elements(Tail(q)) \cup {Head(q)}
    BY <2>1, Zenon DEF Pool!Elements
  <2> QED
    BY <2>4, <2>5, <2>6
<1> QED
  BY <1>1, <1>2, <1>3

\* An empty sequence has no elements.
LEMMA EmptyElements ==
    ASSUME NEW s \in DOMAIN Pools
    PROVE  Pool(s)!Elements(<<>>) = {}
BY DEF Pool!Elements

\* A new message tells only what it is about.
LEMMA AppendTells ==
    ASSUME NEW s \in DOMAIN Pools, NEW q \in Seq(Pool(s)!Message), NEW k \in {"up", "ack",
           "ready"}, NEW j \in Pool(s)!Jobs \cup {None}
    PROVE  /\ Append(q, Pool(s)!Msg(k, j)) \in Seq(Pool(s)!Message)
           /\ \A l \in {"up", "ack", "ready"}, i \in Pool(s)!Jobs \cup {None} :
                 Tells(s, Append(q, Pool(s)!Msg(k, j)), l, i) <=>
                    Tells(s, q, l, i) \/ (l = k /\ i = j)
           /\ Ready(s, Append(q, Pool(s)!Msg(k, j))) <=> Ready(s, q) \/ k = "ready"
           /\ DOMAIN q = 1..Len(q) /\ DOMAIN Append(q, Pool(s)!Msg(k, j)) = 1..Len(q) + 1
           /\ Len(q) \in Nat
           /\ (\A i \in DOMAIN q : Append(q, Pool(s)!Msg(k, j))[i] = q[i])
                 /\ Append(q, Pool(s)!Msg(k, j))[Len(q) + 1].kind = k
<1>1. Pool(s)!Msg(k, j) \in Pool(s)!Message /\ Pool(s)!Msg(k, j).kind = k
  BY DEF Pool!Msg, Pool!Message
<1>2. /\ Append(q, Pool(s)!Msg(k, j)) \in Seq(Pool(s)!Message)
      /\ Pool(s)!Elements(Append(q, Pool(s)!Msg(k, j)))
            = Pool(s)!Elements(q) \cup {Pool(s)!Msg(k, j)}
      /\ DOMAIN q = 1..Len(q) /\ DOMAIN Append(q, Pool(s)!Msg(k, j)) = 1..Len(q) + 1
      /\ Len(q) \in Nat
      /\ \A i \in DOMAIN q : Append(q, Pool(s)!Msg(k, j))[i] = q[i]
      /\ Append(q, Pool(s)!Msg(k, j))[Len(q) + 1] = Pool(s)!Msg(k, j)
  BY <1>1, AppendElements
<1>3. \A l \in {"up", "ack", "ready"}, i \in Pool(s)!Jobs \cup {None} :
         Pool(s)!Msg(l, i) = Pool(s)!Msg(k, j) <=> l = k /\ i = j
  BY DEF Pool!Msg
<1>4. Ready(s, Append(q, Pool(s)!Msg(k, j))) <=> Ready(s, q) \/ k = "ready"
  BY <1>1, <1>2, Zenon DEF Ready
<1>5. \A l \in {"up", "ack", "ready"}, i \in Pool(s)!Jobs \cup {None} :
                 Tells(s, Append(q, Pool(s)!Msg(k, j)), l, i) <=>
                    Tells(s, q, l, i) \/ (l = k /\ i = j)
  BY <1>2, <1>3, Zenon DEF Tells
<1> QED
  BY <1>1, <1>2, <1>4, <1>5

\* What was told is told by the first message or by the rest.
LEMMA TailTells ==
    ASSUME NEW s \in DOMAIN Pools, NEW q \in Seq(Pool(s)!Message), q # <<>>
    PROVE  /\ Head(q) \in Pool(s)!Message /\ Tail(q) \in Seq(Pool(s)!Message)
           /\ \A l \in {"up", "ack", "ready"}, i \in Pool(s)!Jobs \cup {None} :
                 Tells(s, q, l, i) <=>
                    Tells(s, Tail(q), l, i) \/ (Head(q).kind = l /\ Head(q).job = i)
           /\ Ready(s, q) <=> Ready(s, Tail(q)) \/ Head(q).kind = "ready"
           /\ DOMAIN q = 1..Len(q) /\ DOMAIN Tail(q) = 1..Len(q) - 1 /\ Len(q) \in Nat \ {0}
           /\ Head(q) = q[1] /\ \A i \in DOMAIN Tail(q) :
                 i + 1 \in DOMAIN q /\ Tail(q)[i] = q[i + 1]
<1>1. /\ Head(q) \in Pool(s)!Message /\ Tail(q) \in Seq(Pool(s)!Message)
      /\ Pool(s)!Elements(q) = Pool(s)!Elements(Tail(q)) \cup {Head(q)}
      /\ DOMAIN q = 1..Len(q) /\ DOMAIN Tail(q) = 1..Len(q) - 1 /\ Len(q) \in Nat \ {0}
      /\ Head(q) = q[1] /\ \A i \in DOMAIN Tail(q) : i + 1 \in DOMAIN q /\ Tail(q)[i] = q[i + 1]
  BY TailElements
<1>2. \A l \in {"up", "ack", "ready"}, i \in Pool(s)!Jobs \cup {None} :
         Pool(s)!Msg(l, i) = Head(q) <=> Head(q).kind = l /\ Head(q).job = i
  BY <1>1 DEF Pool!Msg, Pool!Message
<1>3. \A l \in {"up", "ack", "ready"}, i \in Pool(s)!Jobs \cup {None} :
                 Tells(s, q, l, i) <=>
                    Tells(s, Tail(q), l, i) \/ (Head(q).kind = l /\ Head(q).job = i)
  BY <1>1, <1>2, Zenon DEF Tells
<1>4. Ready(s, q) <=> Ready(s, Tail(q)) \/ Head(q).kind = "ready"
  BY <1>1, Zenon DEF Ready
<1> QED
  BY <1>1, <1>3, <1>4

\* A new chunk adds its job to a pipe, which stays orderly.
LEMMA AppendHolds ==
    ASSUME NEW s \in DOMAIN Pools, NEW p \in Seq(Pool(s)!Chunk), NEW c \in Pool(s)!Chunk
    PROVE  /\ Append(p, c) \in Seq(Pool(s)!Chunk) /\ Append(p, c) # <<>>
           /\ \A i : Holds(s, Append(p, c), i) <=> Holds(s, p, i) \/ i = c.job
           /\ Len(p) \in Nat /\ Len(Append(p, c)) = Len(p) + 1 /\ Append(p, c)[Len(p) + 1] = c
           /\ ChunksOrderly(s, p, c.job) /\ ~Holds(s, p, c.job)
                 /\ (\A i \in DOMAIN p : p[i].whole)
              => ChunksOrderly(s, Append(p, c), IF c.whole THEN None ELSE c.job)
<1> DEFINE r == Append(p, c)
<1>1. c.job \in Pool(s)!Jobs /\ c.whole \in BOOLEAN
  BY DEF Pool!Chunk
<1>3. /\ r \in Seq(Pool(s)!Chunk) /\ r # <<>>
      /\ Pool(s)!Elements(r) = Pool(s)!Elements(p) \cup {c}
      /\ DOMAIN p = 1..Len(p) /\ DOMAIN r = 1..Len(p) + 1 /\ Len(p) \in Nat
      /\ Len(r) = Len(p) + 1
      /\ \A i \in DOMAIN p : r[i] = p[i]
      /\ r[Len(p) + 1] = c
  BY AppendElements
<1> HIDE DEF r
<1>4. \A i : Holds(s, r, i) <=> Holds(s, p, i) \/ i = c.job
  BY <1>1, <1>3, Zenon DEF Holds
<1>5. ASSUME ~Holds(s, p, c.job), \A i \in DOMAIN p : p[i].whole, ChunksOrderly(s, p, c.job)
      PROVE  ChunksOrderly(s, r, IF c.whole THEN None ELSE c.job)
  <2>1. \A i \in DOMAIN p : p[i] \in Pool(s)!Chunk /\ p[i] \in Pool(s)!Elements(p)
    BY DEF Pool!Elements
  <2>2. \A i \in DOMAIN p : p[i].job # c.job /\ p[i].job # None
    BY <2>1, <1>5, PoolsRight DEF Holds, Pool!Chunk, Pool!AsynPoolConstants, Pool!Jobs
  <2>3. \A i \in DOMAIN r : i \in DOMAIN p \/ i = Len(p) + 1
    BY <1>3
  <2>4. c.job # None
    BY <1>1, PoolsRight DEF Pool!AsynPoolConstants, Pool!Jobs
  <2>5. \A i, k \in DOMAIN r : r[i].job = r[k].job => i = k
    BY <1>1, <1>3, <1>5, <2>2, <2>3 DEF ChunksOrderly
  <2>6. \A i \in DOMAIN r : IF r[i].whole THEN r[i].job # IF c.whole THEN None ELSE c.job
                                ELSE i = Len(r) /\ r[i].job = IF c.whole THEN None ELSE c.job
    BY <1>1, <1>3, <1>5, <2>2, <2>3, <2>4
  <2> QED
    BY <2>5, <2>6 DEF ChunksOrderly
<1> QED
  BY <1>1, <1>3, <1>4, <1>5 DEF r

\* Reading a message takes its job out of the pipe, which stays orderly.
LEMMA TailHolds ==
    ASSUME NEW s \in DOMAIN Pools, NEW p \in Seq(Pool(s)!Chunk), p # <<>>, NEW w,
           ChunksOrderly(s, p, w)
    PROVE  /\ Head(p) \in Pool(s)!Chunk /\ Head(p).job \in Pool(s)!Jobs
           /\ Tail(p) \in Seq(Pool(s)!Chunk)
           /\ Holds(s, p, Head(p).job) /\ ~Holds(s, Tail(p), Head(p).job)
           /\ \A i : Holds(s, Tail(p), i) <=> Holds(s, p, i) /\ i # Head(p).job
           /\ ChunksOrderly(s, Tail(p), w)
           /\ Head(p).whole => w # Head(p).job
           /\ Len(p) = 1 => Tail(p) = <<>>
<1>1. /\ Head(p) \in Pool(s)!Chunk /\ Tail(p) \in Seq(Pool(s)!Chunk) /\ Head(p) = p[1]
      /\ Len(p) \in Nat \ {0} /\ DOMAIN p = 1..Len(p)
      /\ Len(Tail(p)) = Len(p) - 1 /\ DOMAIN Tail(p) = 1..Len(p) - 1
      /\ \A i \in DOMAIN Tail(p) : i + 1 \in DOMAIN p /\ Tail(p)[i] = p[i + 1]
      /\ Pool(s)!Elements(p) = Pool(s)!Elements(Tail(p)) \cup {Head(p)}
  BY TailElements
<1>2. \A i \in DOMAIN Tail(p) : Tail(p)[i].job # Head(p).job
  BY <1>1 DEF ChunksOrderly
<1>3. ~Holds(s, Tail(p), Head(p).job)
  BY <1>2, Zenon DEF Holds, Pool!Elements
<1>4. \A i : Holds(s, p, i) <=> Holds(s, Tail(p), i) \/ i = Head(p).job
  BY <1>1, Zenon DEF Holds
<1>5. ChunksOrderly(s, Tail(p), w)
  <2>1. ASSUME NEW i \in DOMAIN Tail(p), NEW k \in DOMAIN Tail(p), Tail(p)[i].job = Tail(p)[k].job
        PROVE  i = k
    BY <2>1, <1>1 DEF ChunksOrderly
  <2>2. ASSUME NEW i \in DOMAIN Tail(p)
        PROVE  IF Tail(p)[i].whole THEN Tail(p)[i].job # w
                                   ELSE i = Len(Tail(p)) /\ Tail(p)[i].job = w
    BY <1>1 DEF ChunksOrderly
  <2> QED
    BY <2>1, <2>2, Zenon DEF ChunksOrderly
<1>6. Head(p).whole => w # Head(p).job
  BY <1>1 DEF ChunksOrderly
<1>7. Head(p).job \in Pool(s)!Jobs
  BY <1>1 DEF Pool!Chunk
<1>8. Len(p) = 1 => Tail(p) = <<>>
  BY <1>1
<1> QED
  BY <1>1, <1>3, <1>4, <1>5, <1>6, <1>7, <1>8

\* The types of what belongs to one child.
LEMMA PoolTypes ==
    ASSUME NEW s \in DOMAIN Pools, Pool(s)!TypeOK, NEW f \in Pools[s].fds
    PROVE  /\ outq[f] \in Seq(Pool(s)!Message) /\ pipe[f] \in Seq(Pool(s)!Chunk)
           /\ writer[f] \in Pool(s)!Jobs \cup {None} /\ exec[f] \in Pool(s)!Jobs \cup {None}
           /\ child[f] \in {"starting", "up", "dead"}
           /\ None \notin Pool(s)!Jobs /\ None \notin Pools[s].fds
           /\ happened.flushes \in Nat
BY PoolsRight DEF Pool!TypeOK, Pool!AsynPoolConstants, Pool!Jobs

\* The types of the parent's sets.
LEMMA PoolSets ==
    ASSUME NEW s \in DOMAIN Pools, Pool(s)!TypeOK
    PROVE  /\ cache \subseteq Pool(s)!Jobs /\ busy \subseteq Pools[s].fds
           /\ damaged \subseteq Pools[s].fds
           /\ Pool(s)!Elements(outbound) \subseteq Pool(s)!Jobs
           /\ DOMAIN outbound = 1..Len(outbound)
           /\ Len(outbound) \in Nat /\ sent \in Nat /\ Pool(s)!Jobs \subseteq Nat
BY PoolsRight DEF Pool!TypeOK, Pool!AsynPoolConstants, Pool!Jobs, Pool!Elements

\* A child that comes up keeps the invariant.
LEMMA ChildUpStep ==
    ASSUME NEW s \in DOMAIN Pools, PoolInv(s), NEW f \in Pools[s].fds, Pool(s)!ChildUp(f)
    PROVE  PoolInv(s)'
<1> USE DEF PoolInv
<1>1. /\ child[f] = "starting" /\ child' = [child EXCEPT ![f] = "up"]
      /\ outq' = [outq EXCEPT ![f] = Append(@, Pool(s)!Msg("up", None))]
      /\ poolpc' = poolpc /\ cache' = cache /\ accepted' = accepted /\ writeTo' = writeTo
      /\ revoked' = revoked /\ outbound' = outbound /\ inq' = inq /\ busy' = busy
      /\ writer' = writer /\ pipe' = pipe /\ damaged' = damaged /\ exec' = exec
      /\ starts' = starts /\ sent' = sent /\ happened' = happened
  BY DEF Pool!ChildUp, Pool!parent
<1>2. /\ outq[f] \in Seq(Pool(s)!Message) /\ None \notin Pool(s)!Jobs
  BY PoolTypes
<1>3. /\ outq'[f] = Append(outq[f], Pool(s)!Msg("up", None)) /\ child'[f] = "up"
      /\ \A g \in Pools[s].fds : g # f => outq'[g] = outq[g] /\ child'[g] = child[g]
  BY <1>1 DEF Pool!TypeOK
<1>4. /\ outq'[f] \in Seq(Pool(s)!Message)
      /\ \A l \in {"ack", "ready"}, j \in Pool(s)!Jobs :
            Tells(s, outq'[f], l, j) <=> Tells(s, outq[f], l, j)
      /\ Ready(s, outq'[f]) <=> Ready(s, outq[f])
      /\ DOMAIN outq'[f] = {1} /\ f \notin inq
      /\ DOMAIN outq[f] = {}
  <2>1. outq[f] = <<>> /\ f \notin inq
    BY <1>1 DEF UpFirst
  <2>2. /\ outq'[f] \in Seq(Pool(s)!Message)
        /\ \A l \in {"up", "ack", "ready"}, i \in Pool(s)!Jobs \cup {None} :
                 Tells(s, outq'[f], l, i) <=> Tells(s, outq[f], l, i) \/ (l = "up" /\ i = None)
        /\ Ready(s, outq'[f]) <=> Ready(s, outq[f]) \/ "up" = "ready"
        /\ DOMAIN outq'[f] = 1..Len(outq[f]) + 1
    BY <1>2, <1>3, AppendTells
  <2> QED
    BY <2>1, <2>2
<1>5. Pool(s)!TypeOK'
  BY <1>1, <1>3, <1>4 DEF Pool!TypeOK
<1>6. /\ \A g \in Pools[s].fds, l \in {"ack", "ready"}, j \in Pool(s)!Jobs :
            Tells(s, outq'[g], l, j) <=> Tells(s, outq[g], l, j)
      /\ \A g \in Pools[s].fds : Ready(s, outq'[g]) <=> Ready(s, outq[g])
  BY <1>3, <1>4
<1>7. /\ WrittenThere(s)' /\ AcceptedThere(s)' /\ WaitingUntraced(s)' /\ UnsentUnknown(s)'
      /\ UnreadUnstarted(s)' /\ PipesOrderly(s)'
  <2>1. \A g \in Pools[s].fds, j \in Pool(s)!Jobs : Traced(s, j, g)' <=> Traced(s, j, g)
    BY <1>1, <1>6 DEF Traced
  <2>2. Pool(s)!Elements(outbound) \subseteq Pool(s)!Jobs
    BY DEF Pool!TypeOK, Pool!Elements
  <2>3. WrittenThere(s)' /\ AcceptedThere(s)' /\ UnsentUnknown(s)' /\ PipesOrderly(s)'
    BY <1>1, <2>1 DEF WrittenThere, AcceptedThere, UnsentUnknown, PipesOrderly
  <2>4. WaitingUntraced(s)'
    BY <1>1, <2>1, <2>2 DEF WaitingUntraced
  <2>5. UnreadUnstarted(s)'
    BY <1>1, <1>6 DEF UnreadUnstarted
  <2> QED
    BY <2>3, <2>4, <2>5
<1>8. StartsHeard(s)' /\ AtChildCached(s)' /\ FlushedOut(s)'
  BY <1>1, <1>6 DEF StartsHeard, AtChildCached, FlushedOut
<1>9. Executing(s)'
  BY <1>1, <1>3, <1>6 DEF Executing, Pool!TypeOK
<1>10. UpFirst(s)'
  BY <1>1, <1>3, <1>4 DEF UpFirst
<1>11. DamagedFound(s)'
  <2>1. cache \subseteq Pool(s)!Jobs /\ damaged \subseteq Pools[s].fds
    BY PoolSets
  <2> QED
    BY <1>1, <1>3, <1>6, <2>1 DEF DamagedFound
<1>12. OneEach(s)'
  <2>1. ASSUME NEW g \in Pools[s].fds, g # f, Idle(s, g) \/ (g \in busy /\ Solo(s, g))
        PROVE  (Idle(s, g) \/ (g \in busy /\ Solo(s, g)))'
    BY <2>1, <1>1, <1>3 DEF Idle, Solo
  <2>2. ASSUME Idle(s, f) \/ (f \in busy /\ Solo(s, f))
        PROVE  (Idle(s, f) \/ (f \in busy /\ Solo(s, f)))'
    BY <2>2, <1>1, <1>4 DEF Idle, Solo
  <2> QED
    BY <2>1, <2>2, <1>1 DEF OneEach
<1>13. JobsSomewhere(s)'
  <2>1. cache \subseteq Pool(s)!Jobs
    BY PoolSets
  <2> QED
    BY <1>1, <1>3, <1>6, <2>1 DEF JobsSomewhere
<1>14. BusyWithSome(s)'
  <2>1. busy \subseteq Pools[s].fds
    BY DEF Pool!TypeOK
  <2> QED
    BY <1>1, <1>3, <1>6, <2>1 DEF BusyWithSome
<1> QED
  BY <1>5, <1>7, <1>8, <1>9, <1>10, <1>11, <1>12, <1>13, <1>14

\* A child that reads a job, and acknowledges it, keeps it.
LEMMA ChildReadStep ==
    ASSUME NEW s \in DOMAIN Pools, PoolInv(s), NEW f \in Pools[s].fds, Pool(s)!ChildRead(f)
    PROVE  PoolInv(s)'
<1> USE DEF PoolInv
<1> DEFINE j == Head(pipe[f]).job
<1>1. /\ child[f] = "up" /\ exec[f] = None /\ pipe[f] # <<>> /\ Head(pipe[f]).whole
      /\ exec' = [exec EXCEPT ![f] = j]
      /\ outq' = [outq EXCEPT ![f] = Append(@, Pool(s)!Msg("ack", j))]
      /\ starts' = [starts EXCEPT ![j] = @ + 1]
      /\ pipe' = [pipe EXCEPT ![f] = Tail(@)]
      /\ poolpc' = poolpc /\ cache' = cache /\ accepted' = accepted /\ writeTo' = writeTo
      /\ revoked' = revoked /\ outbound' = outbound /\ inq' = inq /\ busy' = busy
      /\ writer' = writer /\ damaged' = damaged /\ child' = child
      /\ sent' = sent /\ happened' = happened
  BY DEF Pool!ChildRead, Pool!parent
<1>2. /\ outq[f] \in Seq(Pool(s)!Message) /\ pipe[f] \in Seq(Pool(s)!Chunk)
      /\ None \notin Pool(s)!Jobs
      /\ ChunksOrderly(s, pipe[f], writer[f])
  BY PoolTypes DEF PipesOrderly
<1>3. /\ j \in Pool(s)!Jobs /\ Tail(pipe[f]) \in Seq(Pool(s)!Chunk) /\ Holds(s, pipe[f], j)
      /\ \A i : Holds(s, Tail(pipe[f]), i) <=> Holds(s, pipe[f], i) /\ i # j
      /\ ChunksOrderly(s, Tail(pipe[f]), writer[f]) /\ writer[f] # j
      /\ Len(pipe[f]) = 1 => Tail(pipe[f]) = <<>>
  BY <1>1, <1>2, TailHolds
<1> HIDE DEF j
<1>4. /\ starts[j] = 0 /\ accepted[j] = None /\ writeTo[j] = f
      /\ ~Tells(s, outq[f], "ack", j) /\ ~Tells(s, outq[f], "ready", j)
  BY <1>3 DEF UnreadUnstarted, WrittenThere, Traced
<1>5. /\ outq'[f] = Append(outq[f], Pool(s)!Msg("ack", j)) /\ exec'[f] = j
      /\ pipe'[f] = Tail(pipe[f])
      /\ starts'[j] = 1 /\ \A i \in Pool(s)!Jobs : i # j => starts'[i] = starts[i]
      /\ \A g \in Pools[s].fds :
            g # f => outq'[g] = outq[g] /\ exec'[g] = exec[g] /\ pipe'[g] = pipe[g]
  BY <1>1, <1>3, <1>4 DEF Pool!TypeOK
<1>6. /\ outq'[f] \in Seq(Pool(s)!Message)
      /\ \A l \in {"up", "ack", "ready"}, i \in Pool(s)!Jobs \cup {None} :
                 Tells(s, outq'[f], l, i) <=> Tells(s, outq[f], l, i) \/ (l = "ack" /\ i = j)
      /\ Ready(s, outq'[f]) <=> Ready(s, outq[f])
      /\ DOMAIN outq[f] = 1..Len(outq[f]) /\ DOMAIN outq'[f] = 1..Len(outq[f]) + 1
      /\ Len(outq[f]) \in Nat
      /\ (\A i \in DOMAIN outq[f] : outq'[f][i] = outq[f][i])
      /\ outq'[f][Len(outq[f]) + 1].kind = "ack"
  BY <1>2, <1>3, <1>5, AppendTells
<1>7. Pool(s)!TypeOK'
  BY <1>1, <1>3, <1>5, <1>6 DEF Pool!TypeOK
<1>8. /\ \A g \in Pools[s].fds, i \in Pool(s)!Jobs :
            Tells(s, outq'[g], "ack", i) <=> Tells(s, outq[g], "ack", i) \/ (g = f /\ i = j)
      /\ \A g \in Pools[s].fds, i \in Pool(s)!Jobs :
            Tells(s, outq'[g], "ready", i) <=> Tells(s, outq[g], "ready", i)
      /\ \A g \in Pools[s].fds : Ready(s, outq'[g]) <=> Ready(s, outq[g])
      /\ \A g \in Pools[s].fds, i \in Pool(s)!Jobs :
            Holds(s, pipe'[g], i) <=> Holds(s, pipe[g], i) /\ ~(g = f /\ i = j)
      /\ \A g \in Pools[s].fds : exec'[g] = IF g = f THEN j ELSE exec[g]
  BY <1>3, <1>5, <1>6
<1>9. \A g \in Pools[s].fds : Holds(s, pipe[g], j) \/ writer[g] = j => g = f
  BY <1>3, <1>4 DEF WrittenThere, Traced
<1>10. /\ \A g \in Pools[s].fds, i \in Pool(s)!Jobs : Traced(s, i, g)' => Traced(s, i, g)
       /\ \A g \in Pools[s].fds : ~Holds(s, pipe'[g], j) /\ writer[g] # j
  BY <1>1, <1>3, <1>8, <1>9 DEF Traced
<1>11. WrittenThere(s)' /\ AcceptedThere(s)'
  BY <1>1, <1>10 DEF WrittenThere, AcceptedThere
<1>12. /\ j \notin Pool(s)!Elements(outbound) /\ j <= sent
       /\ Pool(s)!Elements(outbound) \subseteq Pool(s)!Jobs
  <2>1. j \notin Pool(s)!Elements(outbound)
    BY <1>3, <1>4 DEF WaitingUntraced, Traced
  <2>2. /\ Pool(s)!Elements(outbound) \subseteq Pool(s)!Jobs /\ sent \in Nat
        /\ Pool(s)!Jobs \subseteq Nat
    BY PoolSets
  <2>3. ~(j > sent)
    BY <1>3, <1>4, PoolTypes DEF UnsentUnknown
  <2> QED
    BY <1>3, <2>1, <2>2, <2>3
<1>13. WaitingUntraced(s)' /\ UnsentUnknown(s)'
  <2>1. WaitingUntraced(s)'
    BY <1>1, <1>5, <1>10, <1>12 DEF WaitingUntraced
  <2>2. UnsentUnknown(s)'
    BY <1>1, <1>5, <1>12, PoolSets DEF UnsentUnknown
  <2> QED
    BY <2>1, <2>2
<1>14. UnreadUnstarted(s)'
  BY <1>1, <1>5, <1>8, <1>10 DEF UnreadUnstarted
<1>15. PipesOrderly(s)'
  BY <1>1, <1>3, <1>5 DEF PipesOrderly
<1>16. StartsHeard(s)'
  BY <1>1, <1>5, <1>8 DEF StartsHeard
<1>17. Executing(s)'
  BY <1>1, <1>3, <1>4, <1>8 DEF Executing, Pool!TypeOK
<1>18. UpFirst(s)'
  <2>1. \A i \in DOMAIN outq'[f] : outq'[f][i].kind = "up" => i = 1 /\ f \notin inq
    BY <1>6 DEF UpFirst
  <2> QED
    BY <1>1, <1>5, <2>1 DEF UpFirst
<1>19. DamagedFound(s)' /\ AtChildCached(s)' /\ FlushedOut(s)'
  BY <1>1, <1>3, <1>8, PoolSets DEF DamagedFound, AtChildCached, FlushedOut
<1>20. OneEach(s)'
  <2>1. ASSUME NEW g \in Pools[s].fds, g # f, Idle(s, g) \/ (g \in busy /\ Solo(s, g))
        PROVE  (Idle(s, g) \/ (g \in busy /\ Solo(s, g)))'
    BY <2>1, <1>1, <1>5 DEF Idle, Solo
  <2>2. ASSUME Idle(s, f) \/ (f \in busy /\ Solo(s, f))
        PROVE  (Idle(s, f) \/ (f \in busy /\ Solo(s, f)))'
    <3>1. /\ f \in busy /\ Len(pipe[f]) = 1 /\ ~Ready(s, outq[f])
          /\ writer[f] # None => ~pipe[f][1].whole
      BY <2>2, <1>1 DEF Idle, Solo
    <3>2. Head(pipe[f]) = pipe[f][1]
      BY <1>2, <1>1
    <3> QED
      BY <3>1, <3>2, <1>1, <1>2, <1>3, <1>5, <1>6 DEF Solo
  <2> QED
    BY <2>1, <2>2, <1>1 DEF OneEach
<1>21. JobsSomewhere(s)'
  BY <1>1, <1>2, <1>3, <1>8, PoolSets DEF JobsSomewhere
<1>22. BusyWithSome(s)'
  BY <1>1, <1>2, <1>3, <1>5, <1>8, PoolSets DEF BusyWithSome
<1> QED
  BY <1>7, <1>11, <1>13, <1>14, <1>15, <1>16, <1>17, <1>18, <1>19, <1>20, <1>21, <1>22

\* The result of a job keeps it.
LEMMA ChildDoneStep ==
    ASSUME NEW s \in DOMAIN Pools, PoolInv(s), NEW f \in Pools[s].fds, Pool(s)!ChildDone(f)
    PROVE  PoolInv(s)'
<1> USE DEF PoolInv
<1> DEFINE j == exec[f]
<1>1. /\ child[f] = "up" /\ j # None
      /\ exec' = [exec EXCEPT ![f] = None]
      /\ outq' = [outq EXCEPT ![f] = Append(@, Pool(s)!Msg("ready", j))]
      /\ poolpc' = poolpc /\ cache' = cache /\ accepted' = accepted /\ writeTo' = writeTo
      /\ revoked' = revoked /\ outbound' = outbound /\ inq' = inq /\ busy' = busy
      /\ writer' = writer /\ damaged' = damaged /\ child' = child
      /\ sent' = sent /\ happened' = happened /\ starts' = starts /\ pipe' = pipe
  BY DEF Pool!ChildDone, Pool!parent
<1>2. /\ outq[f] \in Seq(Pool(s)!Message) /\ None \notin Pool(s)!Jobs /\ j \in Pool(s)!Jobs
  BY <1>1, PoolTypes
<1>3. j = exec[f]
  OBVIOUS
<1> HIDE DEF j
<1>4. writeTo[j] = f /\ ~Holds(s, pipe[f], j) /\ writer[f] # j
  BY <1>2, <1>3 DEF UnreadUnstarted, WrittenThere, Traced
<1>5. /\ outq'[f] = Append(outq[f], Pool(s)!Msg("ready", j)) /\ exec'[f] = None
      /\ \A g \in Pools[s].fds : g # f => outq'[g] = outq[g] /\ exec'[g] = exec[g]
  BY <1>1 DEF Pool!TypeOK
<1>6. /\ outq'[f] \in Seq(Pool(s)!Message)
      /\ \A l \in {"up", "ack", "ready"}, i \in Pool(s)!Jobs \cup {None} :
                 Tells(s, outq'[f], l, i) <=> Tells(s, outq[f], l, i) \/ (l = "ready" /\ i = j)
      /\ Ready(s, outq'[f])
      /\ DOMAIN outq[f] = 1..Len(outq[f]) /\ DOMAIN outq'[f] = 1..Len(outq[f]) + 1
      /\ Len(outq[f]) \in Nat
      /\ (\A i \in DOMAIN outq[f] : outq'[f][i] = outq[f][i])
      /\ outq'[f][Len(outq[f]) + 1].kind = "ready"
  BY <1>2, <1>5, AppendTells
<1>7. Pool(s)!TypeOK'
  BY <1>1, <1>5, <1>6 DEF Pool!TypeOK
<1>8. /\ \A g \in Pools[s].fds, i \in Pool(s)!Jobs :
            Tells(s, outq'[g], "ready", i) <=> Tells(s, outq[g], "ready", i) \/ (g = f /\ i = j)
      /\ \A g \in Pools[s].fds, i \in Pool(s)!Jobs :
            Tells(s, outq'[g], "ack", i) <=> Tells(s, outq[g], "ack", i)
      /\ \A g \in Pools[s].fds : g = f \/ (Ready(s, outq'[g]) <=> Ready(s, outq[g]))
      /\ \A g \in Pools[s].fds : exec'[g] = IF g = f THEN None ELSE exec[g]
  BY <1>2, <1>5, <1>6
<1>9. \A g \in Pools[s].fds, i \in Pool(s)!Jobs : Traced(s, i, g)' => Traced(s, i, g)
  BY <1>1, <1>2, <1>3, <1>8 DEF Traced
<1>10. \A g \in Pools[s].fds : g # f => ~Holds(s, pipe[g], j) /\ writer[g] # j /\ exec[g] # j
  BY <1>2, <1>4 DEF WrittenThere, Traced
<1>11. WrittenThere(s)' /\ AcceptedThere(s)'
  BY <1>1, <1>9 DEF WrittenThere, AcceptedThere
<1>13. WaitingUntraced(s)' /\ UnsentUnknown(s)'
  BY <1>1, <1>9, PoolSets DEF WaitingUntraced, UnsentUnknown
<1>14. UnreadUnstarted(s)'
  BY <1>1, <1>2, <1>4, <1>8, <1>10 DEF UnreadUnstarted
<1>15. PipesOrderly(s)'
  BY <1>1 DEF PipesOrderly
<1>16. StartsHeard(s)'
  BY <1>1, <1>5, <1>8 DEF StartsHeard
<1>17. Executing(s)'
  BY <1>1, <1>3, <1>4, <1>8, <1>10 DEF Executing, Pool!TypeOK
<1>18. UpFirst(s)'
  <2>1. \A i \in DOMAIN outq'[f] : outq'[f][i].kind = "up" => i = 1 /\ f \notin inq
    BY <1>6 DEF UpFirst
  <2> QED
    BY <1>1, <1>5, <2>1 DEF UpFirst
<1>19. DamagedFound(s)' /\ AtChildCached(s)' /\ FlushedOut(s)'
  <2>1. \A g \in damaged : child[g] = "dead" => g # f
    BY <1>1
  <2> QED
  BY <1>1, <1>2, <1>8, <2>1, PoolSets DEF DamagedFound, AtChildCached, FlushedOut
<1>20. OneEach(s)'
  <2>1. ASSUME NEW g \in Pools[s].fds, g # f, Idle(s, g) \/ (g \in busy /\ Solo(s, g))
        PROVE  (Idle(s, g) \/ (g \in busy /\ Solo(s, g)))'
    BY <2>1, <1>1, <1>5 DEF Idle, Solo
  <2>2. ASSUME Idle(s, f) \/ (f \in busy /\ Solo(s, f))
        PROVE  (Idle(s, f) \/ (f \in busy /\ Solo(s, f)))'
    <3>1. f \in busy /\ pipe[f] = <<>> /\ writer[f] = None /\ ~Ready(s, outq[f])
      BY <2>2, <1>1, <1>3 DEF Idle, Solo
    <3>2. \A i \in DOMAIN outq[f] : outq[f][i].kind # "ready"
      BY <3>1, Zenon DEF Ready, Pool!Elements
    <3>3. \A i, k \in DOMAIN outq'[f] :
             outq'[f][i].kind = "ready" /\ outq'[f][k].kind = "ready" => i = k
      BY <3>2, <1>6
    <3> QED
      BY <3>1, <3>3, <1>1, <1>5 DEF Solo
  <2> QED
    BY <2>1, <2>2, <1>1 DEF OneEach
<1>21. JobsSomewhere(s)'
  BY <1>1, <1>2, <1>3, <1>8, PoolSets DEF JobsSomewhere
<1>22. BusyWithSome(s)'
  BY <1>1, <1>5, <1>6, <1>8, PoolSets DEF BusyWithSome
<1> QED
  BY <1>7, <1>11, <1>13, <1>14, <1>15, <1>16, <1>17, <1>18, <1>19, <1>20, <1>21, <1>22

\* The death of a child, with whatever was in its pipe, keeps it.
LEMMA ChildExitStep ==
    ASSUME NEW s \in DOMAIN Pools, PoolInv(s), NEW f \in Pools[s].fds, Pool(s)!ChildExit(f)
    PROVE  PoolInv(s)'
<1> USE DEF PoolInv
<1>1. /\ child[f] # "dead" /\ happened.exits < Pools[s].exits
      /\ happened' = [happened EXCEPT !.exits = @ + 1]
      /\ exec' = [exec EXCEPT ![f] = None]
      /\ child' = [child EXCEPT ![f] = "dead"]
      /\ \/ pipe' = pipe /\ damaged' = damaged
         \/ /\ child[f] = "up" /\ exec[f] = None /\ pipe[f] # <<>>
            /\ damaged' = damaged \union {f} /\ pipe' = pipe
         \/ /\ child[f] = "up" /\ exec[f] = None /\ pipe[f] # <<>> /\ Head(pipe[f]).whole
            /\ pipe' = [pipe EXCEPT ![f] = Tail(@)] /\ damaged' = damaged
      /\ poolpc' = poolpc /\ cache' = cache /\ accepted' = accepted /\ writeTo' = writeTo
      /\ revoked' = revoked /\ outbound' = outbound /\ inq' = inq /\ busy' = busy
      /\ writer' = writer /\ outq' = outq
      /\ sent' = sent /\ starts' = starts
  BY DEF Pool!ChildExit, Pool!parent
<1>2. /\ outq[f] \in Seq(Pool(s)!Message) /\ pipe[f] \in Seq(Pool(s)!Chunk)
      /\ None \notin Pool(s)!Jobs
      /\ ChunksOrderly(s, pipe[f], writer[f]) /\ exec[f] \in Pool(s)!Jobs \cup {None}
  BY PoolTypes DEF PipesOrderly
<1>3. /\ exec'[f] = None /\ child'[f] = "dead"
      /\ \A g \in Pools[s].fds :
            g # f => exec'[g] = exec[g] /\ pipe'[g] = pipe[g] /\ child'[g] = child[g]
      /\ happened'.flushes = happened.flushes
  BY <1>1 DEF Pool!TypeOK
<1>4. /\ pipe'[f] \in Seq(Pool(s)!Chunk) /\ ChunksOrderly(s, pipe'[f], writer[f])
      /\ \A i : Holds(s, pipe'[f], i) => Holds(s, pipe[f], i)
      /\ pipe' \in [Pools[s].fds -> Seq(Pool(s)!Chunk)]
      /\ pipe'[f] = pipe[f] \/ (Len(pipe[f]) = 1 => pipe'[f] = <<>>)
      /\ pipe[f] = <<>> => pipe'[f] = <<>>
  <2>1. CASE pipe' = pipe
    BY <2>1, <1>2 DEF Pool!TypeOK
  <2>2. CASE /\ pipe[f] # <<>> /\ pipe' = [pipe EXCEPT ![f] = Tail(@)]
    <3>1. /\ Tail(pipe[f]) \in Seq(Pool(s)!Chunk)
          /\ \A i : Holds(s, Tail(pipe[f]), i) <=> Holds(s, pipe[f], i) /\ i # Head(pipe[f]).job
          /\ ChunksOrderly(s, Tail(pipe[f]), writer[f])
          /\ Len(pipe[f]) = 1 => Tail(pipe[f]) = <<>>
      BY <2>2, <1>2, TailHolds
    <3>2. pipe'[f] = Tail(pipe[f])
      BY <2>2 DEF Pool!TypeOK
    <3>3. pipe' \in [Pools[s].fds -> Seq(Pool(s)!Chunk)]
      BY <2>2, <3>1 DEF Pool!TypeOK
    <3> QED
      BY <2>2, <3>1, <3>2, <3>3
  <2> QED
    BY <2>1, <2>2, <1>1
<1>5. Pool(s)!TypeOK'
  <2>1. happened' \in [exits : 0..Pools[s].exits, flushes : 0..Pools[s].flushes,
                       revokes : 0..Pools[s].revokes]
    <3>1. happened.exits \in 0..Pools[s].exits /\ Pools[s].exits \in Nat
      BY PoolsRight DEF Pool!TypeOK, Pool!AsynPoolConstants
    <3>2. happened.exits + 1 \in 0..Pools[s].exits
      BY <3>1, <1>1
    <3> QED
      BY <3>2, <1>1 DEF Pool!TypeOK
  <2> QED
    BY <1>1, <1>4, <2>1 DEF Pool!TypeOK
<1>6. /\ \A g \in Pools[s].fds, i \in Pool(s)!Jobs : Holds(s, pipe'[g], i) => Holds(s, pipe[g], i)
      /\ \A g \in Pools[s].fds, i \in Pool(s)!Jobs : exec'[g] = i => exec[g] = i
  BY <1>2, <1>3, <1>4
<1>7. \A g \in Pools[s].fds, i \in Pool(s)!Jobs : Traced(s, i, g)' => Traced(s, i, g)
  BY <1>1, <1>6 DEF Traced
<1>8. WrittenThere(s)' /\ AcceptedThere(s)'
  BY <1>1, <1>7 DEF WrittenThere, AcceptedThere
<1>9. WaitingUntraced(s)'
  BY <1>1, <1>3, <1>7, PoolSets DEF WaitingUntraced
<1>10. UnsentUnknown(s)' /\ StartsHeard(s)' /\ FlushedOut(s)'
  BY <1>1, <1>3 DEF UnsentUnknown, StartsHeard, FlushedOut
<1>11. UnreadUnstarted(s)'
  BY <1>1, <1>6 DEF UnreadUnstarted
<1>12. PipesOrderly(s)'
  BY <1>1, <1>3, <1>4 DEF PipesOrderly
<1>13. Executing(s)'
  BY <1>1, <1>3 DEF Executing
<1>14. UpFirst(s)'
  BY <1>1, <1>3 DEF UpFirst
<1>15. AtChildCached(s)'
  BY <1>1, <1>3, <1>6 DEF AtChildCached
<1>16. DamagedFound(s)'
  <2>1. SUFFICES ASSUME happened.flushes = 0, f \in damaged', f \notin damaged
                 PROVE  \E j \in cache :
                           writeTo[j] = f /\ ~Tells(s, outq[f], "ready", j)
                              /\ j \notin Pool(s)!Elements(outbound)
    BY <1>1, <1>3, PoolSets DEF DamagedFound
  <2>2. PICK j \in Pool(s)!Jobs : Holds(s, pipe[f], j)
    <3>1. pipe[f] # <<>>
      BY <2>1, <1>1
    <3> QED
      BY <3>1, <1>2, TailHolds
  <2>3. j \in cache /\ writeTo[j] = f
    BY <2>1, <2>2 DEF AtChildCached, WrittenThere, Traced
  <2>4. ~Tells(s, outq[f], "ready", j)
    BY <2>2, <1>2 DEF UnreadUnstarted
  <2>5. j \notin Pool(s)!Elements(outbound)
    BY <2>2 DEF WaitingUntraced, Traced
  <2> QED
    BY <2>3, <2>4, <2>5
<1>17. OneEach(s)'
  <2>1. ASSUME NEW g \in Pools[s].fds, g # f, Idle(s, g) \/ (g \in busy /\ Solo(s, g))
        PROVE  (Idle(s, g) \/ (g \in busy /\ Solo(s, g)))'
    BY <2>1, <1>1, <1>3 DEF Idle, Solo
  <2>2. ASSUME Idle(s, f) \/ (f \in busy /\ Solo(s, f))
        PROVE  (Idle(s, f) \/ (f \in busy /\ Solo(s, f)))'
    <3>1. CASE pipe'[f] = pipe[f]
      BY <2>2, <3>1, <1>1, <1>3 DEF Idle, Solo
    <3>2. CASE pipe'[f] # pipe[f]
      <4>1. pipe[f] # <<>> /\ Head(pipe[f]).whole
        BY <3>2, <1>1
      <4>2. /\ f \in busy /\ Len(pipe[f]) = 1 /\ ~Ready(s, outq[f])
            /\ writer[f] # None => ~pipe[f][1].whole
        BY <2>2, <4>1 DEF Idle, Solo
      <4>3. Head(pipe[f]) = pipe[f][1] /\ pipe'[f] = <<>>
        BY <1>2, <1>4, <3>2, <4>1, <4>2
      <4> QED
        BY <4>1, <4>2, <4>3, <1>1, <1>3 DEF Idle
    <3> QED
      BY <3>1, <3>2
  <2> QED
    BY <2>1, <2>2, <1>1, <1>3 DEF OneEach
<1>18. JobsSomewhere(s)'
  <2>1. \A j \in Pool(s)!Jobs : exec[f] = j \/ Holds(s, pipe[f], j) => writeTo[j] = f
    BY DEF WrittenThere, Traced
  <2> QED
    BY <1>1, <1>3, <2>1, PoolSets DEF JobsSomewhere
<1>19. BusyWithSome(s)'
  BY <1>1, <1>3, PoolSets DEF BusyWithSome
<1> QED
  BY <1>5, <1>8, <1>9, <1>10, <1>11, <1>12, <1>13, <1>14, <1>15, <1>16, <1>17, <1>18, <1>19

\* A job the consumer sends keeps it.
LEMMA SendJobStep ==
    ASSUME NEW s \in DOMAIN Pools, PoolInv(s), Pool(s)!SendJob
    PROVE  PoolInv(s)'
<1> USE DEF PoolInv
<1> DEFINE j == sent + 1
<1>1. /\ poolpc = "loop" /\ sent < Pools[s].jobs /\ sent' = j
      /\ cache' = cache \union {j} /\ outbound' = Append(outbound, j)
      /\ poolpc' = poolpc /\ accepted' = accepted /\ writeTo' = writeTo
      /\ revoked' = revoked /\ inq' = inq /\ busy' = busy
      /\ writer' = writer /\ outq' = outq /\ exec' = exec /\ pipe' = pipe
      /\ damaged' = damaged /\ child' = child /\ happened' = happened /\ starts' = starts
  BY DEF Pool!SendJob, Pool!children
<1>2. /\ j \in Pool(s)!Jobs /\ j \in Nat /\ j > sent /\ outbound \in Seq(Pool(s)!Jobs)
      /\ None \notin Pool(s)!Jobs
  BY <1>1, PoolsRight DEF Pool!TypeOK, Pool!AsynPoolConstants, Pool!Jobs
<1>3. Pool(s)!TypeOK'
  <2>1. sent' \in 0..Pools[s].jobs /\ cache' \subseteq 1..sent'
    BY <1>1, PoolsRight DEF Pool!TypeOK, Pool!AsynPoolConstants
  <2>2. outbound' \in Seq(Pool(s)!Jobs)
    BY <1>1, <1>2
  <2> QED
    BY <1>1, <2>1, <2>2 DEF Pool!TypeOK
<1> HIDE DEF j
<1>4. /\ Pool(s)!Elements(outbound') = Pool(s)!Elements(outbound) \cup {j}
      /\ DOMAIN outbound' = 1..Len(outbound) + 1 /\ DOMAIN outbound = 1..Len(outbound)
      /\ Len(outbound) \in Nat
      /\ (\A i \in DOMAIN outbound : outbound'[i] = outbound[i])
            /\ outbound'[Len(outbound) + 1] = j
  BY <1>1, <1>2, AppendElements
<1>5. /\ accepted[j] = None /\ writeTo[j] = None /\ starts[j] = 0
      /\ j \notin Pool(s)!Elements(outbound)
      /\ \A g \in Pools[s].fds : ~Traced(s, j, g)
  BY <1>2, PoolTypes DEF UnsentUnknown, WrittenThere
<1>6. \A g \in Pools[s].fds, i \in Pool(s)!Jobs : Traced(s, i, g)' <=> Traced(s, i, g)
  BY <1>1 DEF Traced
<1>7. /\ WrittenThere(s)' /\ AcceptedThere(s)' /\ UnreadUnstarted(s)' /\ PipesOrderly(s)'
      /\ Executing(s)' /\ UpFirst(s)' /\ OneEach(s)'
      /\ BusyWithSome(s)'
  BY <1>1, <1>6 DEF WrittenThere, AcceptedThere, UnreadUnstarted, PipesOrderly, Executing,
                    UpFirst, OneEach,
     Idle, Solo, BusyWithSome
<1>8. WaitingUntraced(s)'
  <2>1. ASSUME NEW i \in DOMAIN outbound', NEW k \in DOMAIN outbound', outbound'[i] = outbound'[k]
        PROVE  i = k
    <3>1. \A l \in DOMAIN outbound : outbound[l] # j
      BY <1>5 DEF Pool!Elements
    <3>2. (i \in DOMAIN outbound \/ i = Len(outbound) + 1)
             /\ (k \in DOMAIN outbound \/ k = Len(outbound) + 1)
      BY <1>4
    <3> QED
      BY <2>1, <3>1, <3>2, <1>4 DEF WaitingUntraced
  <2> QED
    BY <2>1, <1>1, <1>2, <1>4, <1>5, <1>6, PoolSets DEF WaitingUntraced
<1>9. UnsentUnknown(s)'
  BY <1>1, <1>2, <1>4, PoolSets DEF UnsentUnknown, j
<1>10. StartsHeard(s)' /\ AtChildCached(s)' /\ FlushedOut(s)'
  BY <1>1, <1>5 DEF StartsHeard, AtChildCached, FlushedOut
<1>11. DamagedFound(s)'
  <2>1. \A g \in damaged : writeTo[j] # g
    BY <1>5, PoolTypes, PoolSets
  <2> QED
    BY <1>1, <1>4, <2>1 DEF DamagedFound
<1>12. JobsSomewhere(s)'
  BY <1>1, <1>4 DEF JobsSomewhere
<1> QED
  BY <1>3, <1>7, <1>8, <1>9, <1>10, <1>11, <1>12

\* So does the revocation of a job.
LEMMA RevokeStep ==
    ASSUME NEW s \in DOMAIN Pools, PoolInv(s), NEW i \in Pool(s)!Jobs, Pool(s)!Revoke(i)
    PROVE  PoolInv(s)'
<1> USE DEF PoolInv
<1>1. /\ happened.revokes < Pools[s].revokes
      /\ happened' = [happened EXCEPT !.revokes = @ + 1] /\ revoked' = revoked \union {i}
      /\ poolpc' = poolpc /\ accepted' = accepted /\ writeTo' = writeTo /\ cache' = cache
      /\ outbound' = outbound /\ inq' = inq /\ busy' = busy
      /\ writer' = writer /\ outq' = outq /\ exec' = exec /\ pipe' = pipe
      /\ damaged' = damaged /\ child' = child /\ sent' = sent /\ starts' = starts
  BY DEF Pool!Revoke, Pool!children
<1>2. Pool(s)!TypeOK'
  <2>1. happened' \in [exits : 0..Pools[s].exits, flushes : 0..Pools[s].flushes,
                       revokes : 0..Pools[s].revokes]
    <3>1. happened.revokes \in 0..Pools[s].revokes /\ Pools[s].revokes \in Nat
      BY PoolsRight DEF Pool!TypeOK, Pool!AsynPoolConstants
    <3>2. happened.revokes + 1 \in 0..Pools[s].revokes
      BY <3>1, <1>1
    <3> QED
      BY <3>2, <1>1 DEF Pool!TypeOK
  <2> QED
    BY <1>1, <2>1 DEF Pool!TypeOK
<1>3. happened'.flushes = happened.flushes
  BY <1>1 DEF Pool!TypeOK
<1>4. \A g \in Pools[s].fds, k \in Pool(s)!Jobs : Traced(s, k, g)' <=> Traced(s, k, g)
  BY <1>1 DEF Traced
<1>5. /\ WrittenThere(s)' /\ AcceptedThere(s)' /\ UnreadUnstarted(s)' /\ PipesOrderly(s)'
      /\ Executing(s)' /\ UpFirst(s)' /\ OneEach(s)'
  BY <1>1, <1>3, <1>4 DEF WrittenThere, AcceptedThere, UnreadUnstarted, PipesOrderly, Executing,
                          UpFirst, OneEach,
     Idle, Solo
<1>6. /\ UnsentUnknown(s)' /\ StartsHeard(s)' /\ AtChildCached(s)' /\ FlushedOut(s)'
      /\ DamagedFound(s)' /\ JobsSomewhere(s)' /\ BusyWithSome(s)'
  BY <1>1, <1>3 DEF UnsentUnknown, StartsHeard, AtChildCached, FlushedOut, DamagedFound,
                    JobsSomewhere, BusyWithSome
<1>7. WaitingUntraced(s)'
  BY <1>1, <1>3, <1>4, PoolSets DEF WaitingUntraced
<1> QED
  BY <1>2, <1>5, <1>6, <1>7

\* So does the end of a flush.
LEMMA FlushEndStep ==
    ASSUME NEW s \in DOMAIN Pools, PoolInv(s), Pool(s)!FlushEnd
    PROVE  PoolInv(s)'
<1> USE DEF PoolInv
<1>1. /\ poolpc = "flush" /\ poolpc' = "loop" /\ busy' = busy \intersect Pool(s)!StillBusy
      /\ outbound' = <<>>
      /\ happened' = happened /\ revoked' = revoked
      /\ accepted' = accepted /\ writeTo' = writeTo /\ cache' = cache
      /\ inq' = inq /\ writer' = writer /\ outq' = outq /\ exec' = exec /\ pipe' = pipe
      /\ damaged' = damaged /\ child' = child /\ sent' = sent /\ starts' = starts
  BY DEF Pool!FlushEnd, Pool!children
<1>2. Pool(s)!TypeOK'
  BY <1>1 DEF Pool!TypeOK
<1>3. Pool(s)!Elements(outbound') = {} /\ Pool(s)!Elements(outbound) = {} /\ DOMAIN outbound' = {}
  BY <1>1, EmptyElements DEF FlushedOut
<1>4. \A g \in Pools[s].fds, k \in Pool(s)!Jobs : Traced(s, k, g)' <=> Traced(s, k, g)
  BY <1>1 DEF Traced
<1>5. /\ WrittenThere(s)' /\ AcceptedThere(s)' /\ UnreadUnstarted(s)' /\ PipesOrderly(s)'
      /\ Executing(s)' /\ UpFirst(s)'
  BY <1>1, <1>4 DEF WrittenThere, AcceptedThere, UnreadUnstarted, PipesOrderly, Executing, UpFirst
<1>6. /\ UnsentUnknown(s)' /\ StartsHeard(s)' /\ AtChildCached(s)' /\ FlushedOut(s)'
      /\ DamagedFound(s)' /\ JobsSomewhere(s)' /\ BusyWithSome(s)'
  BY <1>1, <1>3 DEF UnsentUnknown, StartsHeard, AtChildCached, FlushedOut, DamagedFound,
                    JobsSomewhere, BusyWithSome
<1>7. WaitingUntraced(s)'
  BY <1>3 DEF WaitingUntraced
<1>8. OneEach(s)'
  BY <1>1 DEF OneEach, FlushedOut
<1> QED
  BY <1>2, <1>5, <1>6, <1>7, <1>8

\* A pipe is orderly for whoever writes next when all its messages are whole.
LEMMA WholeFacts ==
    ASSUME NEW s \in DOMAIN Pools, NEW p \in Seq(Pool(s)!Chunk), NEW w, ChunksOrderly(s, p, w),
           None \notin Pool(s)!Jobs
    PROVE  /\ \A i \in DOMAIN p : p[i].job \in Pool(s)!Jobs /\ p[i].whole \in BOOLEAN
           /\ w = None => \A i \in DOMAIN p : p[i].whole
           /\ (\A i \in DOMAIN p : p[i].whole) => ~Holds(s, p, w)
           /\ \A j : (\A i \in DOMAIN p : p[i].whole) /\ ~Holds(s, p, j) => ChunksOrderly(s, p, j)
<1>1. \A i \in DOMAIN p :
         p[i] \in Pool(s)!Chunk /\ p[i].job \in Pool(s)!Jobs /\ p[i].whole \in BOOLEAN
  <2>1. \A i \in DOMAIN p : p[i] \in Pool(s)!Chunk
    OBVIOUS
  <2> QED
    BY <2>1 DEF Pool!Chunk
<1>2. w = None => \A i \in DOMAIN p : p[i].whole
  BY <1>1 DEF ChunksOrderly
<1>3. (\A i \in DOMAIN p : p[i].whole) => ~Holds(s, p, w)
  <2>1. (\A i \in DOMAIN p : p[i].whole) => \A i \in DOMAIN p : p[i].job # w
    BY DEF ChunksOrderly
  <2> QED
    BY <2>1, Zenon DEF Holds, Pool!Elements
<1>4. ASSUME NEW j, \A i \in DOMAIN p : p[i].whole, ~Holds(s, p, j)
      PROVE  ChunksOrderly(s, p, j)
  <2>1. \A i \in DOMAIN p : p[i].job # j
    BY <1>4, Zenon DEF Holds, Pool!Elements
  <2> QED
    BY <1>4, <2>1 DEF ChunksOrderly
<1> QED
  BY <1>1, <1>2, <1>3, <1>4

\* What is in a pipe after a write, in whole or in part.
LEMMA WriteFacts ==
    ASSUME NEW s \in DOMAIN Pools, Pool(s)!TypeOK, NEW f \in Pools[s].fds,
           NEW j \in Pool(s)!Jobs, NEW w, ChunksOrderly(s, pipe[f], w),
           \A i \in DOMAIN pipe[f] : pipe[f][i].whole, ~Holds(s, pipe[f], j), Pool(s)!Write(f, j)
    PROVE  /\ pipe' \in [Pools[s].fds -> Seq(Pool(s)!Chunk)]
           /\ writer' \in [Pools[s].fds -> Pool(s)!Jobs \cup {None}]
           /\ \A g \in Pools[s].fds : g # f => pipe'[g] = pipe[g] /\ writer'[g] = writer[g]
           /\ writer'[f] \in {j, None} /\ pipe'[f] # <<>>
           /\ ChunksOrderly(s, pipe'[f], writer'[f])
           /\ \A i : Holds(s, pipe'[f], i) => Holds(s, pipe[f], i) \/ i = j
           /\ \A i : Holds(s, pipe[f], i) => Holds(s, pipe'[f], i)
           /\ Holds(s, pipe'[f], j) \/ writer'[f] = j
           /\ pipe[f] = <<>> => /\ Len(pipe'[f]) = 1
                                /\ writer'[f] # None => ~pipe'[f][1].whole
<1>1. /\ pipe[f] \in Seq(Pool(s)!Chunk) /\ None \notin Pool(s)!Jobs
      /\ pipe \in [Pools[s].fds -> Seq(Pool(s)!Chunk)]
      /\ writer \in [Pools[s].fds -> Pool(s)!Jobs \cup {None}]
  BY PoolTypes DEF Pool!TypeOK
<1>2. ChunksOrderly(s, pipe[f], j)
  BY <1>1, WholeFacts
<1>3. ASSUME NEW b \in BOOLEAN,
             pipe' = [pipe EXCEPT ![f] = Append(@, [job |-> j, whole |-> b])],
             writer' = [writer EXCEPT ![f] = IF b THEN None ELSE j]
      PROVE  /\ pipe' \in [Pools[s].fds -> Seq(Pool(s)!Chunk)]
             /\ writer' \in [Pools[s].fds -> Pool(s)!Jobs \cup {None}]
             /\ \A g \in Pools[s].fds : g # f => pipe'[g] = pipe[g] /\ writer'[g] = writer[g]
             /\ writer'[f] \in {j, None} /\ pipe'[f] # <<>>
             /\ ChunksOrderly(s, pipe'[f], writer'[f])
             /\ \A i : Holds(s, pipe'[f], i) <=> Holds(s, pipe[f], i) \/ i = j
             /\ pipe[f] = <<>> => /\ Len(pipe'[f]) = 1
                                  /\ writer'[f] # None => ~pipe'[f][1].whole
  <2>1. pipe'[f] = Append(pipe[f], [job |-> j, whole |-> b])
    BY <1>1, <1>3
  <2>2. /\ pipe'[f] \in Seq(Pool(s)!Chunk) /\ pipe'[f] # <<>>
        /\ \A i : Holds(s, pipe'[f], i) <=> Holds(s, pipe[f], i) \/ i = j
        /\ Len(pipe'[f]) = Len(pipe[f]) + 1 /\ (pipe'[f][Len(pipe[f]) + 1].whole <=> b)
        /\ ChunksOrderly(s, pipe'[f], IF b THEN None ELSE j)
    <3> DEFINE c == [job |-> j, whole |-> b]
    <3>1. c \in Pool(s)!Chunk /\ c.job = j /\ (c.whole <=> b) /\ pipe'[f] = Append(pipe[f], c)
      BY <2>1 DEF Pool!Chunk
    <3> HIDE DEF c
    <3>2. /\ pipe'[f] \in Seq(Pool(s)!Chunk) /\ pipe'[f] # <<>>
          /\ \A i : Holds(s, pipe'[f], i) <=> Holds(s, pipe[f], i) \/ i = c.job
          /\ Len(pipe'[f]) = Len(pipe[f]) + 1 /\ pipe'[f][Len(pipe[f]) + 1] = c
          /\ ChunksOrderly(s, pipe'[f], IF c.whole THEN None ELSE c.job)
      BY <1>1, <1>2, <3>1, AppendHolds
    <3> QED
      BY <3>1, <3>2
  <2>3. writer'[f] = IF b THEN None ELSE j
    BY <1>1, <1>3
  <2>4. /\ pipe' \in [Pools[s].fds -> Seq(Pool(s)!Chunk)]
        /\ writer' \in [Pools[s].fds -> Pool(s)!Jobs \cup {None}]
        /\ \A g \in Pools[s].fds : g # f => pipe'[g] = pipe[g] /\ writer'[g] = writer[g]
    BY <1>1, <1>3, <2>1, <2>2
  <2>5. pipe[f] = <<>> => /\ Len(pipe'[f]) = 1
                          /\ writer'[f] # None => ~pipe'[f][1].whole
    BY <2>2, <2>3
  <2> QED
    BY <2>2, <2>3, <2>4, <2>5
<1>4. CASE /\ pipe' = [pipe EXCEPT ![f] = Append(@, [job |-> j, whole |-> TRUE])]
           /\ writer' = [writer EXCEPT ![f] = None]
  <2>1. writer' = [writer EXCEPT ![f] = IF TRUE THEN None ELSE j]
    BY <1>4
  <2> QED
    BY <1>3, <1>4, <2>1
<1>5. CASE /\ pipe' = [pipe EXCEPT ![f] = Append(@, [job |-> j, whole |-> FALSE])]
           /\ writer' = [writer EXCEPT ![f] = j]
  <2>1. writer' = [writer EXCEPT ![f] = IF FALSE THEN None ELSE j]
    BY <1>5
  <2> QED
    BY <1>3, <1>5, <2>1
<1>6. CASE pipe[f] # <<>> /\ pipe' = pipe /\ writer' = [writer EXCEPT ![f] = j]
  BY <1>1, <1>2, <1>6
<1> QED
  BY <1>4, <1>5, <1>6 DEF Pool!Write

\* Giving a job, in whole or in part, to the child it is written to keeps the invariant.
LEMMA GivenStep ==
    ASSUME NEW s \in DOMAIN Pools, PoolInv(s), NEW f \in Pools[s].fds, NEW j \in Pool(s)!Jobs,
           Pool(s)!TypeOK', outbound' = outbound \/ outbound' = Tail(outbound),
           outbound # <<>> \/ outbound' = outbound,
           \A i \in Pool(s)!Elements(outbound') : i # j,
           starts[j] = 0, accepted[j] = None,
           happened.flushes = 0 => j \in cache,
           \A g \in Pools[s].fds :
              exec[g] # j /\ ~Tells(s, outq[g], "ack", j) /\ ~Tells(s, outq[g], "ready", j),
           \A g \in Pools[s].fds : g # f => pipe'[g] = pipe[g] /\ writer'[g] = writer[g],
           \A g \in Pools[s].fds : g # f => ~Holds(s, pipe[g], j) /\ writer[g] # j,
           \A i \in Pool(s)!Jobs : Holds(s, pipe'[f], i) => Holds(s, pipe[f], i) \/ i = j,
           \A i \in Pool(s)!Jobs : Holds(s, pipe[f], i) => Holds(s, pipe'[f], i),
           Holds(s, pipe'[f], j) \/ writer'[f] = j,
           writer'[f] \in {j, None}, writer[f] \in {j, None},
           pipe'[f] # <<>>, ChunksOrderly(s, pipe'[f], writer'[f]),
           writeTo' = [writeTo EXCEPT ![j] = f], f \in busy' \/ busy' = busy,
           busy' \subseteq busy \cup {f},
           busy \subseteq busy',
           j \in Pool(s)!Elements(outbound) \/ writeTo[j] = f,
           Pool(s)!Elements(outbound) \subseteq Pool(s)!Elements(outbound') \cup {j},
           j <= sent,
           OneEach(s)',
           poolpc' = poolpc, cache' = cache, accepted' = accepted, revoked' = revoked, inq' = inq,
           outq' = outq, exec' = exec, damaged' = damaged, child' = child, happened' = happened,
           starts' = starts, sent' = sent
    PROVE  PoolInv(s)'
<1> USE DEF PoolInv
<1>1. /\ None \notin Pool(s)!Jobs /\ writeTo \in [Pool(s)!Jobs -> Pools[s].fds \cup {None}]
      /\ outbound \in Seq(Pool(s)!Jobs)
  BY PoolTypes DEF Pool!TypeOK
<1>2. writeTo'[j] = f /\ \A i \in Pool(s)!Jobs : i # j => writeTo'[i] = writeTo[i]
  BY <1>1
<1>3. /\ \A g \in Pools[s].fds, i \in Pool(s)!Jobs :
            i # j => (Traced(s, i, g)' => Traced(s, i, g))
      /\ \A g \in Pools[s].fds : Traced(s, j, g)' => g = f
  BY <1>1 DEF Traced
<1>4. WrittenThere(s)' /\ AcceptedThere(s)'
  BY <1>2, <1>3 DEF WrittenThere, AcceptedThere
<1>5. Pool(s)!Elements(outbound') \subseteq Pool(s)!Elements(outbound)
  <2>1. outbound # <<>> =>
           Pool(s)!Elements(outbound) = Pool(s)!Elements(Tail(outbound)) \cup {Head(outbound)}
    BY <1>1, TailElements
  <2> QED
    BY <2>1
<1>6. \A i, k \in DOMAIN outbound' : outbound'[i] = outbound'[k] => i = k
  <2>1. CASE outbound' = outbound
    BY <2>1 DEF WaitingUntraced
  <2>2. CASE outbound # <<>> /\ outbound' = Tail(outbound)
    <3>1. \A i \in DOMAIN Tail(outbound) :
             i \in Int /\ i + 1 \in DOMAIN outbound /\ Tail(outbound)[i] = outbound[i + 1]
      BY <2>2, <1>1, TailElements
    <3> QED
      BY <2>2, <3>1 DEF WaitingUntraced
  <2> QED
    BY <2>1, <2>2
<1>7. WaitingUntraced(s)'
  BY <1>3, <1>5, <1>6, PoolSets DEF WaitingUntraced
<1>8. UnsentUnknown(s)'
  BY <1>2, <1>5, PoolSets DEF UnsentUnknown
<1>9. UnreadUnstarted(s)'
  BY <1>1 DEF UnreadUnstarted
<1>10. PipesOrderly(s)'
  BY DEF PipesOrderly
<1>11. StartsHeard(s)' /\ Executing(s)' /\ UpFirst(s)' /\ AtChildCached(s)'
  BY <1>1 DEF StartsHeard, Executing, UpFirst, AtChildCached
<1>12. FlushedOut(s)'
  BY <1>5 DEF FlushedOut
<1>13. DamagedFound(s)'
  <2>1. \A g \in damaged, i \in cache : i \in Pool(s)!Jobs /\ g \in Pools[s].fds
    BY PoolSets
  <2>2. \A g \in damaged, i \in cache : writeTo[i] = g /\ i \notin Pool(s)!Elements(outbound) =>
           writeTo'[i] = g /\ i \notin Pool(s)!Elements(outbound')
    BY <1>2, <1>5, <2>1
  <2> QED
    BY <2>2 DEF DamagedFound
<1>14. JobsSomewhere(s)'
  <2>1. \A i \in cache : i \in Pool(s)!Jobs
    BY PoolSets
  <2>2. ASSUME NEW i \in cache, i # j
        PROVE  \/ i \in Pool(s)!Elements(outbound')
               \/ \E g \in Pools[s].fds : \/ writer'[g] = i \/ exec[g] = i \/ Holds(s, pipe'[g], i)
                                          \/ Tells(s, outq[g], "ready", i)
                                          \/ (writeTo'[i] = g /\ child[g] = "dead")
    <3>1. \A g \in Pools[s].fds : Holds(s, pipe[g], i) => Holds(s, pipe'[g], i)
      BY <2>1
    <3>2. \A g \in Pools[s].fds : writer[g] = i => writer'[g] = i
      BY <2>1, <2>2, <1>1
    <3> QED
      BY <2>1, <2>2, <1>2, <3>1, <3>2 DEF JobsSomewhere
  <2> QED
    BY <2>2 DEF JobsSomewhere
<1>15. BusyWithSome(s)'
  <2>1. ASSUME NEW g \in busy', g # f
        PROVE  \/ child[g] = "dead" \/ writer'[g] # None \/ pipe'[g] # <<>> \/ exec[g] # None
               \/ Ready(s, outq[g])
    BY <2>1, PoolSets DEF BusyWithSome
  <2> QED
    BY <2>1 DEF BusyWithSome
<1> QED
  BY <1>4, <1>7, <1>8, <1>9, <1>10, <1>11, <1>12, <1>13, <1>14, <1>15

\* The callback that writes the next job, or drops it, keeps it.
LEMMA ScheduleWritesStep ==
    ASSUME NEW s \in DOMAIN Pools, PoolInv(s), NEW f \in Pools[s].fds, Pool(s)!ScheduleWrites(f)
    PROVE  PoolInv(s)'
<1> USE DEF PoolInv
<1> DEFINE j == Head(outbound)
<1>1. /\ poolpc = "loop" /\ Pool(s)!MayWrite(f) /\ outbound # <<>> /\ outbound' = Tail(outbound)
      /\ poolpc' = poolpc /\ cache' = cache /\ accepted' = accepted /\ revoked' = revoked
      /\ inq' = inq
      /\ outq' = outq /\ exec' = exec /\ damaged' = damaged /\ child' = child
      /\ happened' = happened /\ starts' = starts /\ sent' = sent
      /\ \/ /\ accepted[j] # None
            /\ writeTo' = writeTo /\ busy' = busy /\ writer' = writer /\ pipe' = pipe
         \/ /\ accepted[j] = None /\ writeTo' = [writeTo EXCEPT ![j] = f]
            /\ busy' = busy \union {f} /\ Pool(s)!Write(f, j)
  BY DEF Pool!ScheduleWrites
<1>2. /\ j \in Pool(s)!Jobs /\ outbound' \in Seq(Pool(s)!Jobs) /\ j \in Pool(s)!Elements(outbound)
      /\ Pool(s)!Elements(outbound) = Pool(s)!Elements(outbound') \cup {j} /\ j = outbound[1]
      /\ DOMAIN outbound = 1..Len(outbound) /\ Len(outbound) \in Nat \ {0}
      /\ \A i \in DOMAIN outbound' :
            i \in Nat /\ i + 1 \in DOMAIN outbound /\ outbound'[i] = outbound[i + 1]
      /\ DOMAIN outbound' = 1..Len(outbound) - 1
  <2>1. outbound \in Seq(Pool(s)!Jobs)
    BY DEF Pool!TypeOK
  <2> QED
    BY <2>1, <1>1, TailElements
<1> HIDE DEF j
<1>3. /\ starts[j] = 0 /\ \A g \in Pools[s].fds : ~Traced(s, j, g)
      /\ j \in cache => accepted[j] = None
      /\ happened.flushes = 0 /\ accepted[j] = None => j \in cache
      /\ j <= sent
  BY <1>2, PoolSets DEF WaitingUntraced, UnsentUnknown
<1>4. /\ None \notin Pool(s)!Jobs /\ pipe[f] \in Seq(Pool(s)!Chunk) /\ writer[f] = None
      /\ ChunksOrderly(s, pipe[f], None)
  BY <1>1, PoolTypes DEF PipesOrderly, Pool!MayWrite
<1>5. ASSUME NEW i \in DOMAIN outbound' PROVE outbound'[i] # j
  <2>1. i + 1 \in DOMAIN outbound /\ 1 \in DOMAIN outbound /\ i + 1 # 1
    BY <1>2
  <2> QED
    BY <1>2, <2>1 DEF WaitingUntraced
<1>6. \A i \in Pool(s)!Elements(outbound') : i # j
  BY <1>5 DEF Pool!Elements
<1>7. CASE accepted[j] # None
  <2>1. writeTo' = writeTo /\ busy' = busy /\ writer' = writer /\ pipe' = pipe
    BY <1>1, <1>7
  <2>2. Pool(s)!TypeOK'
    BY <1>1, <1>2, <2>1 DEF Pool!TypeOK
  <2>3. \A g \in Pools[s].fds, k \in Pool(s)!Jobs : Traced(s, k, g)' <=> Traced(s, k, g)
    BY <1>1, <2>1 DEF Traced
  <2>4. /\ WrittenThere(s)' /\ AcceptedThere(s)' /\ UnreadUnstarted(s)' /\ PipesOrderly(s)'
        /\ Executing(s)' /\ UpFirst(s)' /\ OneEach(s)'
        /\ StartsHeard(s)' /\ AtChildCached(s)' /\ BusyWithSome(s)'
    BY <1>1, <2>1, <2>3 DEF WrittenThere, AcceptedThere, UnreadUnstarted, PipesOrderly,
                            Executing, UpFirst,
       OneEach, Idle, Solo, StartsHeard, AtChildCached, BusyWithSome
  <2>5. UnsentUnknown(s)' /\ FlushedOut(s)' /\ DamagedFound(s)'
    BY <1>1, <1>2, <2>1 DEF UnsentUnknown, FlushedOut, DamagedFound
  <2>6. JobsSomewhere(s)'
    BY <1>1, <1>2, <1>3, <1>7, <2>1 DEF JobsSomewhere
  <2>7. \A i, k \in DOMAIN outbound' : outbound'[i] = outbound'[k] => i = k
    BY <1>2 DEF WaitingUntraced
  <2>8. WaitingUntraced(s)'
    BY <1>1, <1>2, <2>1, <2>3, <2>7, PoolSets DEF WaitingUntraced
  <2> QED
    BY <2>2, <2>4, <2>5, <2>6, <2>8
<1>8. CASE accepted[j] = None
  <2>1. /\ writeTo' = [writeTo EXCEPT ![j] = f] /\ busy' = busy \union {f} /\ Pool(s)!Write(f, j)
    BY <1>1, <1>8
  <2>2. /\ pipe' \in [Pools[s].fds -> Seq(Pool(s)!Chunk)]
        /\ writer' \in [Pools[s].fds -> Pool(s)!Jobs \cup {None}]
        /\ \A g \in Pools[s].fds : g # f => pipe'[g] = pipe[g] /\ writer'[g] = writer[g]
        /\ writer'[f] \in {j, None} /\ pipe'[f] # <<>> /\ ChunksOrderly(s, pipe'[f], writer'[f])
        /\ \A i : Holds(s, pipe'[f], i) => Holds(s, pipe[f], i) \/ i = j
        /\ \A i : Holds(s, pipe[f], i) => Holds(s, pipe'[f], i)
        /\ Holds(s, pipe'[f], j) \/ writer'[f] = j
        /\ pipe[f] = <<>> => /\ Len(pipe'[f]) = 1
                             /\ writer'[f] # None => ~pipe'[f][1].whole
    <3>1. \A i \in DOMAIN pipe[f] : pipe[f][i].whole
      BY <1>4, WholeFacts
    <3>2. ~Holds(s, pipe[f], j)
      BY <1>3 DEF Traced
    <3>3. /\ Pool(s)!TypeOK /\ j \in Pool(s)!Jobs /\ ChunksOrderly(s, pipe[f], None)
          /\ Pool(s)!Write(f, j)
      BY <1>2, <1>4, <2>1
    <3> HIDE DEF PoolInv
    <3> QED
      BY <3>1, <3>2, <3>3, WriteFacts
  <2>3. Pool(s)!TypeOK'
    BY <1>1, <1>2, <2>1, <2>2 DEF Pool!TypeOK
  <2>4. OneEach(s)'
    <3>1. SUFFICES ASSUME Pools[s].fair, happened.flushes = 0, NEW g \in Pools[s].fds
                   PROVE  (Idle(s, g) \/ (g \in busy /\ Solo(s, g)))'
      BY <1>1 DEF OneEach
    <3>2. CASE g # f
      <4>1. Idle(s, g) \/ (g \in busy /\ Solo(s, g))
        BY <3>1 DEF OneEach
      <4> QED
        BY <3>2, <4>1, <1>1, <2>1, <2>2 DEF Idle, Solo
    <3>3. CASE g = f
      <4>1. Idle(s, f)
        BY <3>1, <1>1 DEF OneEach, Pool!MayWrite
      <4> QED
        BY <3>3, <4>1, <1>1, <2>1, <2>2 DEF Idle, Solo
    <3> QED
      BY <3>2, <3>3
  <2>5. \A g \in Pools[s].fds : /\ exec[g] # j /\ ~Tells(s, outq[g], "ack", j)
                                /\ ~Tells(s, outq[g], "ready", j)
                                /\ ~Holds(s, pipe[g], j) /\ writer[g] # j
    BY <1>3 DEF Traced
  <2> QED
    BY <1>1, <1>2, <1>3, <1>4, <1>6, <1>8, <2>1, <2>2, <2>3, <2>4, <2>5, GivenStep
<1> QED
  BY <1>7, <1>8

\* So does the rest of a write.
LEMMA WriteMoreStep ==
    ASSUME NEW s \in DOMAIN Pools, PoolInv(s), NEW f \in Pools[s].fds, Pool(s)!WriteMore(f)
    PROVE  PoolInv(s)'
<1> USE DEF PoolInv
<1> DEFINE j == writer[f]
<1>1. /\ j # None
      /\ poolpc' = poolpc /\ cache' = cache /\ accepted' = accepted /\ revoked' = revoked
      /\ inq' = inq
      /\ writeTo' = writeTo /\ outbound' = outbound /\ busy' = busy
      /\ outq' = outq /\ exec' = exec /\ damaged' = damaged /\ child' = child
      /\ happened' = happened /\ starts' = starts /\ sent' = sent
      /\ IF \E i \in DOMAIN pipe[f] : ~ pipe[f][i].whole
         THEN /\ pipe' = [pipe EXCEPT ![f][Len(pipe[f])] = [job |-> j, whole |-> TRUE]]
              /\ writer' = [writer EXCEPT ![f] = None]
         ELSE Pool(s)!Write(f, j) /\ pipe' # pipe
  BY DEF Pool!WriteMore
<1>2. /\ j \in Pool(s)!Jobs /\ None \notin Pool(s)!Jobs /\ pipe[f] \in Seq(Pool(s)!Chunk)
      /\ ChunksOrderly(s, pipe[f], j) /\ j = writer[f]
      /\ pipe \in [Pools[s].fds -> Seq(Pool(s)!Chunk)]
      /\ writer \in [Pools[s].fds -> Pool(s)!Jobs \cup {None}]
      /\ Len(pipe[f]) \in Nat /\ DOMAIN pipe[f] = 1..Len(pipe[f])
  <2>1. /\ pipe \in [Pools[s].fds -> Seq(Pool(s)!Chunk)]
        /\ writer \in [Pools[s].fds -> Pool(s)!Jobs \cup {None}]
        /\ ChunksOrderly(s, pipe[f], j)
    BY DEF PipesOrderly, Pool!TypeOK
  <2>2. None \notin Pool(s)!Jobs
    BY PoolTypes
  <2> QED
    BY <1>1, <2>1, <2>2
<1> HIDE DEF j
<1>3. /\ writeTo[j] = f /\ starts[j] = 0 /\ accepted[j] = None
      /\ j \notin Pool(s)!Elements(outbound)
      /\ happened.flushes = 0 => j \in cache
      /\ \A g \in Pools[s].fds :
            exec[g] # j /\ ~Tells(s, outq[g], "ack", j) /\ ~Tells(s, outq[g], "ready", j)
      /\ \A g \in Pools[s].fds : g # f => ~Holds(s, pipe[g], j) /\ writer[g] # j
      /\ j <= sent
  <2>1. Traced(s, j, f)
    BY <1>2 DEF Traced
  <2>2. /\ writeTo[j] = f /\ starts[j] = 0 /\ accepted[j] = None
        /\ j \notin Pool(s)!Elements(outbound)
    BY <1>2, <2>1 DEF WrittenThere, UnreadUnstarted, WaitingUntraced
  <2>3. \A g \in Pools[s].fds : Traced(s, j, g) => g = f
    BY <1>2, <2>2 DEF WrittenThere
  <2>4. exec[f] # j /\ ~Tells(s, outq[f], "ack", j) /\ ~Tells(s, outq[f], "ready", j)
    BY <1>2 DEF UnreadUnstarted
  <2>5. happened.flushes = 0 => j \in cache
    BY <1>2 DEF AtChildCached
  <2>6. j <= sent
    BY <1>2, <2>2, PoolSets, PoolTypes DEF UnsentUnknown
  <2> QED
    BY <2>2, <2>3, <2>4, <2>5, <2>6 DEF Traced
<1>4. /\ pipe' \in [Pools[s].fds -> Seq(Pool(s)!Chunk)]
      /\ writer' \in [Pools[s].fds -> Pool(s)!Jobs \cup {None}]
      /\ \A g \in Pools[s].fds : g # f => pipe'[g] = pipe[g] /\ writer'[g] = writer[g]
      /\ writer'[f] \in {j, None} /\ pipe'[f] # <<>> /\ ChunksOrderly(s, pipe'[f], writer'[f])
      /\ \A i : Holds(s, pipe'[f], i) => Holds(s, pipe[f], i) \/ i = j
      /\ \A i : Holds(s, pipe[f], i) => Holds(s, pipe'[f], i)
      /\ Holds(s, pipe'[f], j) \/ writer'[f] = j
      /\ (\E i \in DOMAIN pipe[f] : ~ pipe[f][i].whole) =>
            writer'[f] = None /\ Len(pipe'[f]) = Len(pipe[f])
  <2>1. CASE ~ \E i \in DOMAIN pipe[f] : ~ pipe[f][i].whole
    <3>1. Pool(s)!Write(f, j) /\ \A i \in DOMAIN pipe[f] : pipe[f][i].whole
      BY <2>1, <1>1
    <3>2. ~Holds(s, pipe[f], j)
      BY <3>1, <1>2, WholeFacts
    <3> QED
      BY <1>2, <2>1, <3>1, <3>2, WriteFacts
  <2>2. ASSUME NEW m \in DOMAIN pipe[f], ~ pipe[f][m].whole
        PROVE  /\ pipe' \in [Pools[s].fds -> Seq(Pool(s)!Chunk)]
               /\ writer' \in [Pools[s].fds -> Pool(s)!Jobs \cup {None}]
               /\ \A g \in Pools[s].fds : g # f => pipe'[g] = pipe[g] /\ writer'[g] = writer[g]
               /\ writer'[f] = None /\ pipe'[f] # <<>> /\ ChunksOrderly(s, pipe'[f], writer'[f])
               /\ \A i : Holds(s, pipe'[f], i) <=> Holds(s, pipe[f], i)
               /\ Holds(s, pipe'[f], j) /\ Len(pipe'[f]) = Len(pipe[f])
    <3> DEFINE n == Len(pipe[f])
    <3>1. m = n /\ pipe[f][n].job = j /\ n \in DOMAIN pipe[f]
      BY <2>2, <1>2 DEF ChunksOrderly
    <3>2. pipe' = [pipe EXCEPT ![f][n] = [job |-> j, whole |-> TRUE]]
             /\ writer' = [writer EXCEPT ![f] = None]
      BY <2>2, <1>1
    <3>3. writer'[f] = None /\ writer' \in [Pools[s].fds -> Pool(s)!Jobs \cup {None}]
          /\ \A g \in Pools[s].fds : g # f => pipe'[g] = pipe[g] /\ writer'[g] = writer[g]
      BY <3>2, <1>2
    <3>4. pipe[f][n] \in Pool(s)!Chunk
      BY <3>1, <1>2
    <3>6. pipe'[f] = [pipe[f] EXCEPT ![n] = [job |-> j, whole |-> TRUE]]
      BY <3>2, <1>2
    <3>7. [job |-> j, whole |-> TRUE] \in Pool(s)!Chunk
      BY <1>2 DEF Pool!Chunk
    <3>8. pipe'[f] \in Seq(Pool(s)!Chunk) /\ Len(pipe'[f]) = n /\ DOMAIN pipe'[f] = 1..n
          /\ pipe'[f][n] = [job |-> j, whole |-> TRUE]
          /\ \A i \in 1..n : i # n => pipe'[f][i] = pipe[f][i]
      BY <3>6, <3>7, <3>1, <1>2
    <3>9. pipe' \in [Pools[s].fds -> Seq(Pool(s)!Chunk)]
      BY <3>2, <3>8, <1>2
    <3>10. \A i \in 1..n : pipe'[f][i].job = pipe[f][i].job /\ pipe'[f][i].whole
                           /\ pipe[f][i].job # None
      <4>1. \A i \in 1..n : i # n => pipe[f][i].whole
        BY <1>2 DEF ChunksOrderly
      <4>2. \A i \in 1..n : pipe[f][i].job # None
        BY <1>2, WholeFacts
      <4> QED
        BY <4>1, <4>2, <3>1, <3>8
    <3>11. \A i : Holds(s, pipe'[f], i) <=> Holds(s, pipe[f], i)
      <4>1. DOMAIN pipe[f] = 1..n /\ DOMAIN pipe'[f] = 1..n
        BY <3>8, <1>2
      <4> HIDE DEF n
      <4>2. \A i : Holds(s, pipe[f], i) <=> \E k \in 1..n : pipe[f][k].job = i
        BY <4>1, Zenon DEF Holds, Pool!Elements
      <4>3. \A i : Holds(s, pipe'[f], i) <=> \E k \in 1..n : pipe'[f][k].job = i
        BY <4>1, Zenon DEF Holds, Pool!Elements
      <4> QED
        BY <4>2, <4>3, <3>10
    <3>12. Holds(s, pipe[f], j)
      BY <3>1 DEF Holds, Pool!Elements
    <3>13. ChunksOrderly(s, pipe'[f], None)
      BY <3>8, <3>10, <1>2 DEF ChunksOrderly
    <3>14. pipe'[f] # <<>>
      BY <3>1, <3>8, <1>2
    <3> QED
      BY <3>3, <3>8, <3>9, <3>11, <3>12, <3>13, <3>14
  <2> QED
    BY <2>1, <2>2
<1>5. Pool(s)!TypeOK'
  BY <1>1, <1>4 DEF Pool!TypeOK
<1>6. OneEach(s)'
  <2>1. SUFFICES ASSUME Pools[s].fair, happened.flushes = 0, NEW g \in Pools[s].fds
                 PROVE  (Idle(s, g) \/ (g \in busy /\ Solo(s, g)))'
    BY <1>1 DEF OneEach
  <2>2. Idle(s, g) \/ (g \in busy /\ Solo(s, g))
    BY <2>1 DEF OneEach
  <2>3. CASE g # f
    BY <2>2, <2>3, <1>1, <1>4 DEF Idle, Solo
  <2>4. CASE g = f
    <3>1. /\ f \in busy /\ Len(pipe[f]) = 1 /\ exec[f] = None /\ ~Ready(s, outq[f])
          /\ ~pipe[f][1].whole
      BY <2>2, <2>4, <1>1, <1>2 DEF Idle, Solo
    <3>2. 1 \in DOMAIN pipe[f]
      BY <1>2, <3>1
    <3>3. writer'[f] = None /\ Len(pipe'[f]) = 1
      BY <1>4, <3>1, <3>2
    <3> QED
      BY <2>4, <3>1, <3>3, <1>1 DEF Solo
  <2> QED
    BY <2>3, <2>4
<1>7. writeTo' = [writeTo EXCEPT ![j] = f]
  BY <1>1, <1>2, <1>3 DEF Pool!TypeOK
<1>8. \A i \in Pool(s)!Elements(outbound') : i # j
  BY <1>1, <1>3
<1>9. /\ \A g \in Pools[s].fds :
            exec[g] # j /\ ~Tells(s, outq[g], "ack", j) /\ ~Tells(s, outq[g], "ready", j)
      /\ \A g \in Pools[s].fds : g # f => ~Holds(s, pipe[g], j) /\ writer[g] # j
      /\ happened.flushes = 0 => j \in cache
      /\ writeTo[j] = f /\ j <= sent /\ starts[j] = 0 /\ accepted[j] = None
  BY <1>3
<1>10. /\ writer[f] \in {j, None} /\ busy' = busy /\ outbound' = outbound
       /\ busy' \subseteq busy \cup {f} /\ busy \subseteq busy'
       /\ Pool(s)!Elements(outbound) \subseteq Pool(s)!Elements(outbound') \cup {j}
  BY <1>1, <1>2
<1> HIDE DEF PoolInv
<1> QED
  BY <1>1, <1>2, <1>4, <1>5, <1>6, <1>7, <1>8, <1>9, <1>10, GivenStep

\* So does the handling of any message of a child.
LEMMA HandleResultStep ==
    ASSUME NEW s \in DOMAIN Pools, PoolInv(s), NEW f \in Pools[s].fds, Pool(s)!HandleResult(f)
    PROVE  PoolInv(s)'
<1> USE DEF PoolInv
<1> DEFINE m == Head(outq[f])
<1>1. /\ poolpc = "loop" /\ outq[f] # <<>> /\ outq' = [outq EXCEPT ![f] = Tail(@)]
      /\ poolpc' = poolpc /\ writeTo' = writeTo /\ revoked' = revoked /\ outbound' = outbound
      /\ writer' = writer /\ child' = child /\ pipe' = pipe /\ damaged' = damaged
      /\ exec' = exec /\ starts' = starts /\ sent' = sent /\ happened' = happened
      /\ Pool(s)!HandleMessage(f, m)
  BY DEF Pool!HandleResult
<1>2. /\ outq[f] \in Seq(Pool(s)!Message) /\ None \notin Pool(s)!Jobs /\ None \notin Pools[s].fds
  BY PoolTypes
<1>3. /\ m \in Pool(s)!Message /\ Tail(outq[f]) \in Seq(Pool(s)!Message)
      /\ \A l \in {"up", "ack", "ready"}, i \in Pool(s)!Jobs \cup {None} :
            Tells(s, outq[f], l, i) <=> Tells(s, Tail(outq[f]), l, i) \/ (m.kind = l /\ m.job = i)
      /\ Ready(s, outq[f]) <=> Ready(s, Tail(outq[f])) \/ m.kind = "ready"
      /\ DOMAIN outq[f] = 1..Len(outq[f]) /\ DOMAIN Tail(outq[f]) = 1..Len(outq[f]) - 1
      /\ Len(outq[f]) \in Nat \ {0} /\ m = outq[f][1]
      /\ \A i \in DOMAIN Tail(outq[f]) :
            i + 1 \in DOMAIN outq[f] /\ Tail(outq[f])[i] = outq[f][i + 1]
  BY <1>1, <1>2, TailTells
<1>4. outq'[f] = Tail(outq[f]) /\ \A g \in Pools[s].fds : g # f => outq'[g] = outq[g]
  BY <1>1 DEF Pool!TypeOK
<1> HIDE DEF m
<1>5. m.kind \in {"up", "ack", "ready"} /\ m.job \in Pool(s)!Jobs \cup {None}
  BY <1>3 DEF Pool!Message
<1>6. /\ m.kind = "up" =>
            inq' = inq \union {f} /\ cache' = cache /\ accepted' = accepted /\ busy' = busy
      /\ m.kind = "ack" =>
            /\ accepted' = IF m.job \in cache THEN [accepted EXCEPT ![m.job] = f] ELSE accepted
            /\ cache' = cache /\ inq' = inq /\ busy' = busy
      /\ m.kind = "ready" =>
            cache' = cache \ {m.job} /\ busy' = busy \ {f} /\ accepted' = accepted /\ inq' = inq
  BY <1>1, <1>5 DEF Pool!HandleMessage
<1>7. /\ \A g \in Pools[s].fds, l \in {"ack", "ready"}, i \in Pool(s)!Jobs :
            Tells(s, outq'[g], l, i) => Tells(s, outq[g], l, i)
      /\ \A g \in Pools[s].fds, l \in {"ack", "ready"}, i \in Pool(s)!Jobs :
            Tells(s, outq[g], l, i) =>
            Tells(s, outq'[g], l, i) \/ (g = f /\ m.kind = l /\ m.job = i)
      /\ \A g \in Pools[s].fds : Ready(s, outq'[g]) => Ready(s, outq[g])
      /\ \A g \in Pools[s].fds :
            Ready(s, outq[g]) => Ready(s, outq'[g]) \/ (g = f /\ m.kind = "ready")
      /\ \A l \in {"ack", "ready"}, i \in Pool(s)!Jobs :
            m.kind = l /\ m.job = i => Tells(s, outq[f], l, i)
  BY <1>3, <1>4
<1>8. /\ cache' \subseteq cache /\ cache \subseteq Pool(s)!Jobs /\ busy \subseteq Pools[s].fds
      /\ inq' \subseteq Pools[s].fds /\ busy' \subseteq busy
  BY <1>5, <1>6, PoolSets DEF Pool!TypeOK
<1>9. /\ \A i \in Pool(s)!Jobs :
            accepted'[i] = accepted[i] \/ (accepted'[i] = f /\ m.kind = "ack" /\ m.job = i)
      /\ accepted' \in [Pool(s)!Jobs -> Pools[s].fds \cup {None}]
      /\ m.kind = "ack" /\ m.job \in cache => accepted'[m.job] = f
  <2>1. CASE m.kind = "ack" /\ m.job \in cache
    <3>1. accepted' = [accepted EXCEPT ![m.job] = f] /\ m.job \in Pool(s)!Jobs
      BY <2>1, <1>6, <1>8
    <3> QED
      BY <2>1, <3>1 DEF Pool!TypeOK
  <2>2. CASE ~(m.kind = "ack" /\ m.job \in cache)
    <3>1. accepted' = accepted
      BY <2>2, <1>5, <1>6
    <3> QED
      BY <2>2, <3>1 DEF Pool!TypeOK
  <2> QED
    BY <2>1, <2>2
<1>10. Pool(s)!TypeOK'
  BY <1>1, <1>3, <1>6, <1>8, <1>9 DEF Pool!TypeOK
<1>11. \A g \in Pools[s].fds, i \in Pool(s)!Jobs : Traced(s, i, g)' => Traced(s, i, g)
  BY <1>1, <1>7 DEF Traced
<1>12. WrittenThere(s)'
  BY <1>1, <1>11 DEF WrittenThere
<1>13. \A i \in Pool(s)!Jobs : (m.kind = "ack" \/ m.kind = "ready") /\ m.job = i =>
          /\ Traced(s, i, f) /\ writeTo[i] = f /\ i \notin Pool(s)!Elements(outbound)
          /\ \A g \in Pools[s].fds : ~Holds(s, pipe[g], i) /\ writer[g] # i
          /\ m.kind = "ready" => \A g \in Pools[s].fds : exec[g] # i
  <2>1. SUFFICES ASSUME NEW i \in Pool(s)!Jobs, m.kind = "ack" \/ m.kind = "ready", m.job = i
        PROVE /\ Traced(s, i, f) /\ writeTo[i] = f /\ i \notin Pool(s)!Elements(outbound)
              /\ \A g \in Pools[s].fds : ~Holds(s, pipe[g], i) /\ writer[g] # i
              /\ m.kind = "ready" => \A g \in Pools[s].fds : exec[g] # i
    OBVIOUS
  <2>2. Tells(s, outq[f], "ack", i) \/ Tells(s, outq[f], "ready", i)
    BY <2>1, <1>7
  <2>3. Traced(s, i, f) /\ writeTo[i] = f
    BY <2>2 DEF Traced, WrittenThere
  <2>4. i \notin Pool(s)!Elements(outbound)
    BY <2>3 DEF WaitingUntraced
  <2>5. ~Holds(s, pipe[f], i) /\ writer[f] # i
    BY <2>2 DEF UnreadUnstarted
  <2>6. m.kind = "ready" => exec[f] # i
    BY <2>1, <1>2, <1>7 DEF Executing
  <2>7. \A g \in Pools[s].fds : g # f => ~Traced(s, i, g)
    BY <2>3 DEF WrittenThere
  <2> QED
    BY <2>3, <2>4, <2>5, <2>6, <2>7 DEF Traced
<1>14. AcceptedThere(s)' /\ UnsentUnknown(s)'
  <2>1. \A i \in Pool(s)!Jobs : accepted'[i] # accepted[i] => i <= sent
    BY <1>8, <1>9, <1>13, PoolSets, PoolTypes DEF UnsentUnknown
  <2>2. AcceptedThere(s)'
    BY <1>1, <1>9, <1>13 DEF AcceptedThere
  <2>3. UnsentUnknown(s)'
    BY <2>1, <1>1, PoolSets DEF UnsentUnknown
  <2> QED
    BY <2>2, <2>3
<1>15. WaitingUntraced(s)'
  <2>1. \A i \in Pool(s)!Elements(outbound) :
           accepted'[i] = accepted[i] /\ (i \in cache' <=> i \in cache)
    BY <1>5, <1>6, <1>8, <1>9, <1>13, PoolSets
  <2> QED
    BY <1>1, <1>11, <2>1, PoolSets DEF WaitingUntraced
<1>16. UnreadUnstarted(s)'
  <2>1. \A i \in Pool(s)!Jobs, g \in Pools[s].fds :
           Holds(s, pipe[g], i) \/ writer[g] = i => accepted'[i] = accepted[i]
    BY <1>9, <1>13
  <2> QED
    BY <1>1, <1>7, <2>1 DEF UnreadUnstarted
<1>17. PipesOrderly(s)' /\ FlushedOut(s)'
  BY <1>1 DEF PipesOrderly, FlushedOut
<1>18. StartsHeard(s)'
  BY <1>1, <1>2, <1>7, <1>8, <1>9 DEF StartsHeard
<1>19. Executing(s)'
  <2>1. \A g \in Pools[s].fds : exec[g] \in Pool(s)!Jobs \cup {None}
    BY DEF Pool!TypeOK
  <2> QED
    BY <1>1, <1>7, <2>1 DEF Executing
<1>20. UpFirst(s)'
  <2>1. \A i \in DOMAIN outq'[f] : outq'[f][i].kind # "up"
    <3>1. \A i \in DOMAIN outq[f] : outq[f][i].kind = "up" => i = 1
      BY DEF UpFirst
    <3>2. \A i \in DOMAIN outq'[f] :
             i \in Nat \ {0} /\ i + 1 \in DOMAIN outq[f] /\ outq'[f][i] = outq[f][i + 1]
      BY <1>3, <1>4
    <3>3. \A i \in Nat \ {0} : i + 1 # 1
      OBVIOUS
    <3> QED
      BY <3>1, <3>2, <3>3
  <2>2. child[f] # "starting"
    BY <1>1 DEF UpFirst
  <2>3. \A g \in Pools[s].fds : g # f => (g \in inq' <=> g \in inq)
    BY <1>5, <1>6
  <2> QED
    BY <1>1, <1>4, <2>1, <2>2, <2>3 DEF UpFirst
<1>21. DamagedFound(s)'
  <2>1. SUFFICES ASSUME happened.flushes = 0, NEW g \in damaged
                 PROVE  \E i \in cache' :
                           writeTo[i] = g /\ ~Tells(s, outq'[g], "ready", i)
                              /\ i \notin Pool(s)!Elements(outbound)
    BY <1>1 DEF DamagedFound
  <2>2. PICK i \in cache :
                writeTo[i] = g /\ ~Tells(s, outq[g], "ready", i)
                   /\ i \notin Pool(s)!Elements(outbound)
    BY <2>1 DEF DamagedFound
  <2>3. g \in Pools[s].fds /\ i \in Pool(s)!Jobs
    BY <1>8, PoolSets
  <2>4. i \in cache'
    BY <1>5, <1>6, <1>7, <1>13, <2>2, <2>3
  <2> QED
    BY <2>2, <2>3, <2>4, <1>7
<1>22. AtChildCached(s)'
  <2>1. \A i \in Pool(s)!Jobs : i \in cache /\ i \notin cache' => m.kind = "ready" /\ m.job = i
    BY <1>5, <1>6
  <2> QED
    BY <1>1, <1>13, <2>1 DEF AtChildCached
<1>23. OneEach(s)'
  <2>1. SUFFICES ASSUME Pools[s].fair, happened.flushes = 0, NEW g \in Pools[s].fds
                 PROVE  (Idle(s, g) \/ (g \in busy /\ Solo(s, g)))'
    BY <1>1 DEF OneEach
  <2>2. Idle(s, g) \/ (g \in busy /\ Solo(s, g))
    BY <2>1 DEF OneEach
  <2>3. CASE g # f
    <3>1. g \in busy' <=> g \in busy
      BY <2>3, <1>5, <1>6
    <3> QED
      BY <2>2, <2>3, <3>1, <1>1, <1>4 DEF Idle, Solo
  <2>4. CASE g = f /\ m.kind # "ready"
    <3>1. busy' = busy
      BY <2>4, <1>5, <1>6
    <3>2. (\A i, k \in DOMAIN outq[f] :
              outq[f][i].kind = "ready" /\ outq[f][k].kind = "ready" => i = k)
          => \A i, k \in DOMAIN outq'[f] :
             outq'[f][i].kind = "ready" /\ outq'[f][k].kind = "ready" => i = k
      BY <1>3, <1>4
    <3>3. ~Ready(s, outq[f]) => ~Ready(s, outq'[f])
      BY <1>7
    <3> QED
      BY <2>2, <2>4, <3>1, <3>2, <3>3, <1>1 DEF Idle, Solo
  <2>5. CASE g = f /\ m.kind = "ready"
    <3>1. Ready(s, outq[f])
      BY <2>5, <1>3
    <3>2. /\ pipe[f] = <<>> /\ writer[f] = None /\ exec[f] = None
          /\ \A i, k \in DOMAIN outq[f] :
                outq[f][i].kind = "ready" /\ outq[f][k].kind = "ready" => i = k
      BY <2>2, <2>5, <3>1 DEF Idle, Solo
    <3>3. \A i \in DOMAIN outq'[f] : outq'[f][i].kind # "ready"
      <4>1. \A i \in DOMAIN outq'[f] : /\ i \in Nat \ {0} /\ i + 1 # 1 /\ 1 \in DOMAIN outq[f]
                                       /\ i + 1 \in DOMAIN outq[f] /\ outq'[f][i] = outq[f][i + 1]
        BY <1>3, <1>4
      <4>2. outq[f][1].kind = "ready"
        BY <2>5, <1>3
      <4> QED
        BY <3>2, <4>1, <4>2
    <3>4. ~Ready(s, outq'[f])
      BY <3>3, Zenon DEF Ready, Pool!Elements
    <3> QED
      BY <2>5, <3>2, <3>4, <1>1 DEF Idle
  <2> QED
    BY <2>3, <2>4, <2>5
<1>24. JobsSomewhere(s)'
  <2>1. SUFFICES ASSUME NEW i \in cache'
                 PROVE  \/ i \in Pool(s)!Elements(outbound)
                        \/ \E g \in Pools[s].fds :
                              \/ writer[g] = i \/ exec[g] = i \/ Holds(s, pipe[g], i)
                              \/ Tells(s, outq'[g], "ready", i)
                              \/ (writeTo[i] = g /\ child[g] = "dead")
    BY <1>1 DEF JobsSomewhere
  <2>2. ~(m.kind = "ready" /\ m.job = i) /\ i \in cache /\ i \in Pool(s)!Jobs
    BY <1>6, <1>8
  <2> QED
    BY <2>2, <1>7 DEF JobsSomewhere
<1>25. BusyWithSome(s)'
  <2>1. \A g \in busy' : g \in busy /\ g \in Pools[s].fds /\ ~(g = f /\ m.kind = "ready")
    BY <1>6, <1>8
  <2> QED
    BY <1>1, <1>7, <2>1 DEF BusyWithSome
<1> QED
  BY <1>10, <1>12, <1>14, <1>15, <1>16, <1>17, <1>18, <1>19, <1>20, <1>21, <1>22, <1>23, <1>24,
     <1>25

\* The instance of FiniteSets in AsynPool is FiniteSets.
LEMMA JobSets ==
    ASSUME NEW s \in DOMAIN Pools, NEW S
    PROVE  (Pool(s)!IsFiniteSet(S) <=> IsFiniteSet(S)) /\ Pool(s)!Cardinality(S) = Cardinality(S)
<1>1. Pool(s)!IsFiniteSet(S) <=> IsFiniteSet(S)
  BY DEF Pool!IsFiniteSet, IsFiniteSet
<1>2. Pool(s)!Cardinality(S) = Cardinality(S)
  BY DEF Pool!Cardinality, Cardinality
<1> QED
  BY <1>1, <1>2

\* The elements of two sequences in a row.
LEMMA ConcatElements ==
    ASSUME NEW s \in DOMAIN Pools, NEW S, NEW p \in Seq(S), NEW q \in Seq(S)
    PROVE  /\ p \o q \in Seq(S)
           /\ Pool(s)!Elements(p \o q) = Pool(s)!Elements(p) \cup Pool(s)!Elements(q)
           /\ (\A i, k \in DOMAIN p : p[i] = p[k] => i = k)
                 /\ (\A i, k \in DOMAIN q : q[i] = q[k] => i = k)
              /\ Pool(s)!Elements(p) \cap Pool(s)!Elements(q) = {}
              => \A i, k \in DOMAIN (p \o q) : (p \o q)[i] = (p \o q)[k] => i = k
<1> DEFINE r == p \o q
<1>1. /\ r \in Seq(S) /\ Len(p) \in Nat /\ Len(q) \in Nat /\ DOMAIN p = 1..Len(p)
      /\ DOMAIN q = 1..Len(q) /\ DOMAIN r = 1..Len(p) + Len(q)
      /\ \A i \in 1..Len(p) + Len(q) : r[i] = IF i <= Len(p) THEN p[i] ELSE q[i - Len(p)]
  OBVIOUS
<1> HIDE DEF r
<1>2. /\ \A i \in DOMAIN r : \/ i \in DOMAIN p /\ r[i] = p[i]
                             \/ i - Len(p) \in DOMAIN q /\ r[i] = q[i - Len(p)]
      /\ \A i \in DOMAIN p : i \in DOMAIN r /\ r[i] = p[i]
      /\ \A i \in DOMAIN q : i + Len(p) \in DOMAIN r /\ r[i + Len(p)] = q[i]
  BY <1>1
<1>3. Pool(s)!Elements(r) = Pool(s)!Elements(p) \cup Pool(s)!Elements(q)
  <2>1. ASSUME NEW i \in DOMAIN r PROVE r[i] \in Pool(s)!Elements(p) \cup Pool(s)!Elements(q)
    BY <1>2 DEF Pool!Elements
  <2>2. ASSUME NEW i \in DOMAIN p PROVE p[i] \in Pool(s)!Elements(r)
    BY <1>2, Zenon DEF Pool!Elements
  <2>3. ASSUME NEW i \in DOMAIN q PROVE q[i] \in Pool(s)!Elements(r)
    <3>1. i + Len(p) \in DOMAIN r /\ r[i + Len(p)] = q[i]
      BY <1>2
    <3> QED
      BY <3>1 DEF Pool!Elements
  <2>4. Pool(s)!Elements(r) \subseteq Pool(s)!Elements(p) \cup Pool(s)!Elements(q)
    BY <2>1, Zenon DEF Pool!Elements
  <2>5. /\ Pool(s)!Elements(p) \subseteq Pool(s)!Elements(r)
        /\ Pool(s)!Elements(q) \subseteq Pool(s)!Elements(r)
    BY <2>2, <2>3, Zenon DEF Pool!Elements
  <2> QED
    BY <2>4, <2>5
<1>4. ASSUME \A i, k \in DOMAIN p : p[i] = p[k] => i = k, \A i,
             k \in DOMAIN q : q[i] = q[k] => i = k,
             Pool(s)!Elements(p) \cap Pool(s)!Elements(q) = {},
             NEW i \in DOMAIN r, NEW k \in DOMAIN r, r[i] = r[k]
      PROVE  i = k
  <2>1. \A a \in DOMAIN p, b \in DOMAIN q : p[a] # q[b]
    BY <1>4, Zenon DEF Pool!Elements
  <2>2. CASE i \in DOMAIN p /\ r[i] = p[i] /\ k \in DOMAIN p /\ r[k] = p[k]
    BY <2>2, <1>4
  <2>3. CASE /\ i - Len(p) \in DOMAIN q /\ r[i] = q[i - Len(p)]
             /\ k - Len(p) \in DOMAIN q /\ r[k] = q[k - Len(p)]
    <3>1. i - Len(p) = k - Len(p)
      BY <2>3, <1>4
    <3> QED
      BY <3>1, <1>1
  <2> QED
    BY <1>2, <1>4, <2>1, <2>2, <2>3
<1> QED
  BY <1>1, <1>3, <1>4 DEF r

\* The unread jobs are put back at the front, each once.
LEMMA PutBackFacts ==
    ASSUME NEW s \in DOMAIN Pools, Pool(s)!TypeOK, NEW C, C \subseteq cache,
           NEW buffer \in Seq(Pool(s)!Jobs),
           \A i, k \in DOMAIN buffer : buffer[i] = buffer[k] => i = k, Pool(s)!PutBack(C, buffer)
    PROVE  /\ outbound' \in Seq(Pool(s)!Jobs)
           /\ Pool(s)!Elements(outbound')
                 = (Pool(s)!UnreadJobs(C) \ revoked) \cup Pool(s)!Elements(buffer)
           /\ \A i, k \in DOMAIN outbound' : outbound'[i] = outbound'[k] => i = k
<1> DEFINE jobs == Pool(s)!UnreadJobs(C) \ (revoked \union Pool(s)!Elements(buffer))
<1>1. PICK front \in [1..Cardinality(jobs) -> jobs] :
            /\ Pool(s)!Elements(front) = jobs
            /\ \A i, k \in DOMAIN front : i < k => front[i] > front[k]
            /\ outbound' = front \o buffer
  BY JobSets DEF Pool!PutBack
<1>2. /\ jobs \subseteq Pool(s)!Jobs /\ Pool(s)!Jobs \subseteq Nat
      /\ Pool(s)!UnreadJobs(C) \subseteq Pool(s)!Jobs
  BY PoolSets DEF Pool!UnreadJobs, Pool!FlushedCache
<1>3. Cardinality(jobs) \in Nat
  <2>1. IsFiniteSet(Pool(s)!Jobs)
    BY PoolsRight, FS_Interval DEF Pool!Jobs, Pool!AsynPoolConstants
  <2>2. IsFiniteSet(jobs)
    BY <1>2, <2>1, FS_Subset
  <2> QED
    BY <2>2, JobSets, FS_CardinalityType
<1> HIDE DEF jobs
<1>4. front \in Seq(Pool(s)!Jobs) /\ DOMAIN front \subseteq Nat /\ \A i \in DOMAIN front :
         front[i] \in Nat
  <2> DEFINE n == Cardinality(jobs)
  <2>1. n \in Nat /\ front \in [1..n -> Pool(s)!Jobs]
    BY <1>1, <1>2, <1>3
  <2> HIDE DEF n
  <2>2. DOMAIN front = 1..n /\ \A i \in 1..n : front[i] \in Pool(s)!Jobs
    BY <2>1
  <2>3. front \in Seq(Pool(s)!Jobs)
    BY <2>1, SeqDef
  <2>4. 1..n \subseteq Nat
    BY <2>1
  <2> QED
    BY <2>2, <2>3, <2>4, <1>2
<1>5. \A i, k \in DOMAIN front : front[i] = front[k] => i = k
  BY <1>1, <1>4
<1>6. Pool(s)!Elements(front) \cap Pool(s)!Elements(buffer) = {}
  BY <1>1 DEF jobs
<1>7. /\ outbound' \in Seq(Pool(s)!Jobs)
      /\ Pool(s)!Elements(outbound') = Pool(s)!Elements(front) \cup Pool(s)!Elements(buffer)
      /\ \A i, k \in DOMAIN outbound' : outbound'[i] = outbound'[k] => i = k
  <2>1. /\ front \o buffer \in Seq(Pool(s)!Jobs)
        /\ Pool(s)!Elements(front \o buffer)
              = Pool(s)!Elements(front) \cup Pool(s)!Elements(buffer)
    BY <1>4, ConcatElements
  <2>2. \A i, k \in DOMAIN (front \o buffer) :
           (front \o buffer)[i] = (front \o buffer)[k] => i = k
    BY <1>4, <1>5, <1>6, ConcatElements, Zenon
  <2> QED
    BY <1>1, <2>1, <2>2
<1>8. Pool(s)!Elements(outbound')
         = (Pool(s)!UnreadJobs(C) \ revoked) \cup Pool(s)!Elements(buffer)
  BY <1>1, <1>7 DEF jobs
<1> QED
  BY <1>7, <1>8

\* What the parent finds of its jobs at the children that died.
LEMMA ReplaceFacts ==
    ASSUME NEW s \in DOMAIN Pools, PoolInv(s), NEW C, C \subseteq cache
    PROVE  /\ \A j \in Pool(s)!Jobs, k \in {"ack", "ready"} : Pool(s)!Said(k, j) =>
                 writeTo[j] \in Pool(s)!Dead /\ Tells(s, outq[writeTo[j]], k, j)
           /\ \A j \in Pool(s)!Jobs, k \in {"ack", "ready"}, f \in Pool(s)!Dead :
                 Tells(s, outq[f], k, j) => Pool(s)!Said(k, j)
           /\ Pool(s)!FlushedAccepted(C) \in [Pool(s)!Jobs -> Pools[s].fds \cup {None}]
           /\ \A j \in Pool(s)!Jobs :
                 Pool(s)!FlushedAccepted(C)[j] # None =>
                    Pool(s)!FlushedAccepted(C)[j] = writeTo[j]
           /\ \A j \in Pool(s)!Jobs : Pool(s)!FlushedAccepted(C)[j] # None <=>
                 accepted[j] # None \/ (j \in C /\ Pool(s)!Said("ack", j))
           /\ \A j \in C : writeTo[j] \in Pool(s)!Dead =>
                 j \notin Pool(s)!FlushedCache(C) \/ j \in Pool(s)!LostJobs(C)
                    \/ j \in Pool(s)!UnreadJobs(C)
           /\ Pool(s)!Destroyed(C) \subseteq Pool(s)!Dead /\ None \notin Pool(s)!Dead
           /\ Pool(s)!Dead \subseteq Pools[s].fds
           /\ \A j \in Pool(s)!LostJobs(C) \cup Pool(s)!UnreadJobs(C) :
                 j \in C /\ j \in Pool(s)!FlushedCache(C) /\ writeTo[j] \in Pool(s)!Destroyed(C)
           /\ \A j \in Pool(s)!UnreadJobs(C) : /\ starts[j] = 0
                                               /\ Pool(s)!FlushedAccepted(C)[j] = None
                                               /\ accepted[j] = None
<1> USE DEF PoolInv
<1> DEFINE FA == Pool(s)!FlushedAccepted(C)
<1>1. /\ Pool(s)!Dead \subseteq Pools[s].fds /\ None \notin Pool(s)!Dead
            /\ C \subseteq Pool(s)!Jobs
      /\ None \notin Pools[s].fds
  BY PoolSets, PoolsRight DEF Pool!Dead, Pool!AsynPoolConstants
<1>2. \A j \in Pool(s)!Jobs, k \in {"ack", "ready"}, f \in Pool(s)!Dead :
         Tells(s, outq[f], k, j) => f = writeTo[j] /\ Pool(s)!Said(k, j)
  BY <1>1 DEF WrittenThere, Traced, Pool!Said, Tells
<1>3. \A j \in Pool(s)!Jobs, k \in {"ack", "ready"} : Pool(s)!Said(k, j) =>
         writeTo[j] \in Pool(s)!Dead /\ Tells(s, outq[writeTo[j]], k, j)
  <2>1. SUFFICES ASSUME NEW j \in Pool(s)!Jobs, NEW k \in {"ack", "ready"}, Pool(s)!Said(k, j)
                 PROVE  writeTo[j] \in Pool(s)!Dead /\ Tells(s, outq[writeTo[j]], k, j)
    OBVIOUS
  <2>2. PICK f \in Pool(s)!Dead : Tells(s, outq[f], k, j)
    BY <2>1 DEF Pool!Said, Tells
  <2> QED
    BY <2>2, <1>2
<1>4. ASSUME NEW j \in Pool(s)!Jobs
      PROVE  FA[j] = IF j \in C /\ Pool(s)!Said("ack", j) THEN writeTo[j] ELSE accepted[j]
  <2>1. FA[j] = IF j \in C /\ Pool(s)!Said("ack", j)
                THEN CHOOSE f \in Pool(s)!Dead :
                   Pool(s)!Msg("ack", j) \in Pool(s)!Elements(outq[f]) ELSE accepted[j]
    BY DEF Pool!FlushedAccepted
  <2>2. ASSUME Pool(s)!Said("ack", j)
        PROVE  (CHOOSE f \in Pool(s)!Dead : Pool(s)!Msg("ack", j) \in Pool(s)!Elements(outq[f])) = writeTo[j]
    <3> DEFINE g == CHOOSE f \in Pool(s)!Dead :
       Pool(s)!Msg("ack", j) \in Pool(s)!Elements(outq[f])
    <3>1. \E f \in Pool(s)!Dead : Pool(s)!Msg("ack", j) \in Pool(s)!Elements(outq[f])
      BY <2>2 DEF Pool!Said
    <3>2. g \in Pool(s)!Dead /\ Pool(s)!Msg("ack", j) \in Pool(s)!Elements(outq[g])
      BY <3>1, Zenon
    <3> HIDE DEF g
    <3>3. g = writeTo[j]
      BY <3>2, <1>2 DEF Tells
    <3> QED
      BY <3>3 DEF g
  <2> QED
    BY <2>1, <2>2
<1>5. FA \in [Pool(s)!Jobs -> Pools[s].fds \cup {None}]
  <2>1. \A j \in Pool(s)!Jobs :
           writeTo[j] \in Pools[s].fds \cup {None} /\ accepted[j] \in Pools[s].fds \cup {None}
    BY DEF Pool!TypeOK
  <2>2. \A j \in Pool(s)!Jobs : FA[j] \in Pools[s].fds \cup {None}
    BY <1>4, <2>1
  <2>3. FA = [j \in Pool(s)!Jobs |-> FA[j]]
    BY DEF Pool!FlushedAccepted
  <2> HIDE DEF FA
  <2> QED
    BY <2>2, <2>3
<1>6. /\ \A j \in Pool(s)!Jobs : FA[j] # None => FA[j] = writeTo[j]
      /\ \A j \in Pool(s)!Jobs :
            FA[j] # None <=> accepted[j] # None \/ (j \in C /\ Pool(s)!Said("ack", j))
  BY <1>1, <1>3, <1>4 DEF AcceptedThere
<1> HIDE DEF FA
<1>7. /\ Pool(s)!LostJobs(C) = {j \in Pool(s)!FlushedCache(C) : FA[j] \in Pool(s)!Dead}
      /\ Pool(s)!UnreadJobs(C) =
            {j \in Pool(s)!FlushedCache(C) : FA[j] = None /\ writeTo[j] \in Pool(s)!Dead}
      /\ Pool(s)!FlushedCache(C) = {j \in C : ~ Pool(s)!Said("ready", j)}
  BY DEF Pool!LostJobs, Pool!UnreadJobs, Pool!FlushedCache, FA
<1>8. \A j \in C : writeTo[j] \in Pool(s)!Dead =>
         j \notin Pool(s)!FlushedCache(C) \/ j \in Pool(s)!LostJobs(C)
            \/ j \in Pool(s)!UnreadJobs(C)
  BY <1>1, <1>6, <1>7
<1>9. \A j \in Pool(s)!LostJobs(C) \cup Pool(s)!UnreadJobs(C) :
         j \in C /\ j \in Pool(s)!FlushedCache(C) /\ writeTo[j] \in Pool(s)!Destroyed(C)
            /\ writeTo[j] \in Pool(s)!Dead
  BY <1>1, <1>6, <1>7 DEF Pool!Destroyed
<1>10. Pool(s)!Destroyed(C) \subseteq Pool(s)!Dead
  BY <1>9 DEF Pool!Destroyed
<1>11. ASSUME NEW j \in Pool(s)!UnreadJobs(C)
       PROVE  starts[j] = 0 /\ FA[j] = None /\ accepted[j] = None
  <2>1. /\ j \in C /\ j \in Pool(s)!Jobs /\ FA[j] = None /\ writeTo[j] \in Pool(s)!Dead
        /\ j \in cache
    BY <1>1, <1>7
  <2>2. accepted[j] = None /\ ~Pool(s)!Said("ack", j)
    BY <1>6, <2>1
  <2>3. \A f \in Pools[s].fds : ~Tells(s, outq[f], "ack", j)
    BY <1>2, <2>1, <2>2 DEF WrittenThere, Traced
  <2> QED
    BY <2>1, <2>2, <2>3 DEF StartsHeard
<1> QED
  BY <1>1, <1>2, <1>3, <1>5, <1>6, <1>8, <1>9, <1>10, <1>11 DEF FA

\* Replacing the dead children, with all that is done for their jobs, keeps the invariant.
LEMMA ReplaceStep ==
    ASSUME NEW s \in DOMAIN Pools, PoolInv(s), NEW C, C \subseteq cache,
           NEW buffer \in Seq(Pool(s)!Jobs), Pool(s)!Replace(C, buffer),
           Pool(s)!Elements(buffer) \subseteq Pool(s)!Elements(outbound),
           \A i, k \in DOMAIN buffer : buffer[i] = buffer[k] => i = k,
           \A j \in C : j \in Pool(s)!Elements(outbound) => j \in Pool(s)!Elements(buffer),
           happened' \in [exits : 0..Pools[s].exits, flushes : 0..Pools[s].flushes,
                          revokes : 0..Pools[s].revokes],
           happened'.flushes = 0 => C = cache /\ happened.flushes = 0,
           poolpc' \in {"loop", "flush"}, sent' = sent,
           poolpc' = "flush" => /\ happened'.flushes # 0 /\ Pool(s)!Elements(buffer) = {}
                                /\ \A j \in C : accepted[j] # None
    PROVE  PoolInv(s)'
<1> USE DEF PoolInv
<1> DEFINE FA == Pool(s)!FlushedAccepted(C)
           FC == Pool(s)!FlushedCache(C)
           L == Pool(s)!LostJobs(C)
           U == Pool(s)!UnreadJobs(C)
           X == Pool(s)!Destroyed(C)
<1>1. /\ cache' = FC \ (L \union (U \intersect revoked))
      /\ accepted' = [j \in Pool(s)!Jobs |-> IF j \in U \intersect revoked THEN writeTo[j] ELSE FA[j]]
      /\ Pool(s)!PutBack(C, buffer)
      /\ inq' = inq \ Pool(s)!Dead /\ busy' = busy \ Pool(s)!Dead
      /\ writer' = [f \in Pools[s].fds |-> IF f \in X THEN None ELSE writer[f]]
      /\ child' = [f \in Pools[s].fds |-> IF f \in Pool(s)!Dead THEN "starting" ELSE child[f]]
      /\ pipe' = [f \in Pools[s].fds |-> IF f \in X THEN <<>> ELSE pipe[f]]
      /\ damaged' = damaged \ X
      /\ outq' = [f \in Pools[s].fds |-> IF f \in Pool(s)!Dead THEN <<>> ELSE outq[f]]
      /\ writeTo' = writeTo /\ revoked' = revoked /\ exec' = exec /\ starts' = starts
  BY DEF Pool!Replace
<1>2. /\ outbound' \in Seq(Pool(s)!Jobs)
      /\ Pool(s)!Elements(outbound') = (U \ revoked) \cup Pool(s)!Elements(buffer)
      /\ \A i, k \in DOMAIN outbound' : outbound'[i] = outbound'[k] => i = k
  BY <1>1, PutBackFacts
<1>3. /\ \A j \in Pool(s)!Jobs, k \in {"ack", "ready"} : Pool(s)!Said(k, j) =>
            writeTo[j] \in Pool(s)!Dead /\ Tells(s, outq[writeTo[j]], k, j)
      /\ \A j \in Pool(s)!Jobs, k \in {"ack", "ready"}, f \in Pool(s)!Dead :
            Tells(s, outq[f], k, j) => Pool(s)!Said(k, j)
      /\ FA \in [Pool(s)!Jobs -> Pools[s].fds \cup {None}]
      /\ \A j \in Pool(s)!Jobs : FA[j] # None => FA[j] = writeTo[j]
      /\ \A j \in Pool(s)!Jobs :
            FA[j] # None <=> accepted[j] # None \/ (j \in C /\ Pool(s)!Said("ack", j))
      /\ \A j \in C : writeTo[j] \in Pool(s)!Dead => j \notin FC \/ j \in L \/ j \in U
      /\ X \subseteq Pool(s)!Dead /\ None \notin Pool(s)!Dead
      /\ Pool(s)!Dead \subseteq Pools[s].fds
      /\ \A j \in L \cup U : j \in C /\ j \in FC /\ writeTo[j] \in X
      /\ \A j \in U : starts[j] = 0 /\ FA[j] = None /\ accepted[j] = None
  BY ReplaceFacts
<1>4. /\ FC = {j \in C : ~Pool(s)!Said("ready", j)} /\ \A j \in L : FA[j] \in Pool(s)!Dead
      /\ \A j \in C : j \in Pool(s)!Jobs /\ j \in cache
      /\ None \notin Pool(s)!Jobs /\ None \notin Pools[s].fds
  BY PoolSets, PoolsRight DEF Pool!FlushedCache, Pool!LostJobs, Pool!AsynPoolConstants, Pool!Jobs
<1> HIDE DEF FA, FC, L, U, X
<1>5. /\ \A j \in Pool(s)!Jobs :
            accepted'[j] = IF j \in U \intersect revoked THEN writeTo[j] ELSE FA[j]
      /\ \A f \in Pools[s].fds : /\ writer'[f] = IF f \in X THEN None ELSE writer[f]
                                 /\ child'[f] = IF f \in Pool(s)!Dead THEN "starting"
                                       ELSE child[f]
                                 /\ pipe'[f] = IF f \in X THEN <<>> ELSE pipe[f]
                                 /\ outq'[f] = IF f \in Pool(s)!Dead THEN <<>> ELSE outq[f]
  BY <1>1
<1>6. /\ \A j : ~Holds(s, <<>>, j) /\ ~Ready(s, <<>>)
      /\ \A k, j : ~Tells(s, <<>>, k, j)
  BY EmptyElements DEF Holds, Ready, Tells
<1>7. \A f \in Pools[s].fds : f \in Pool(s)!Dead <=> child[f] = "dead"
  BY DEF Pool!Dead
<1>8. \A f \in Pool(s)!Dead : exec[f] = None
  BY <1>3, <1>7 DEF Executing
<1>9. Pool(s)!TypeOK'
  <2>1. cache' \subseteq 1..sent' /\ revoked' \subseteq Pool(s)!Jobs
    BY <1>1, <1>4 DEF Pool!TypeOK
  <2>2. accepted' \in [Pool(s)!Jobs -> Pools[s].fds \cup {None}]
    BY <1>1, <1>3 DEF Pool!TypeOK
  <2>3. /\ writer' \in [Pools[s].fds -> Pool(s)!Jobs \cup {None}]
        /\ child' \in [Pools[s].fds -> {"starting", "up", "dead"}]
        /\ outq' \in [Pools[s].fds -> Seq(Pool(s)!Message)]
        /\ pipe' \in [Pools[s].fds -> Seq(Pool(s)!Chunk)]
    <3>1. <<>> \in Seq(Pool(s)!Message) /\ <<>> \in Seq(Pool(s)!Chunk)
      OBVIOUS
    <3> QED
      BY <1>1, <3>1 DEF Pool!TypeOK
  <2> QED
    BY <1>1, <1>2, <2>1, <2>2, <2>3 DEF Pool!TypeOK
<1>10. /\ \A f \in Pools[s].fds, j \in Pool(s)!Jobs :
             Traced(s, j, f)' => Traced(s, j, f) /\ f \notin X
       /\ \A f \in Pools[s].fds, j \in Pool(s)!Jobs, k \in {"ack", "ready"} :
             Tells(s, outq'[f], k, j) <=> Tells(s, outq[f], k, j) /\ f \notin Pool(s)!Dead
       /\ \A f \in Pools[s].fds, j \in Pool(s)!Jobs :
             Holds(s, pipe'[f], j) <=> Holds(s, pipe[f], j) /\ f \notin X
       /\ \A f \in Pools[s].fds, j \in Pool(s)!Jobs :
             writer'[f] = j <=> writer[f] = j /\ f \notin X
  <2>1. \A f \in Pools[s].fds, j \in Pool(s)!Jobs, k \in {"ack", "ready"} :
           Tells(s, outq'[f], k, j) <=> Tells(s, outq[f], k, j) /\ f \notin Pool(s)!Dead
    BY <1>5, <1>6
  <2>2. \A f \in Pools[s].fds, j \in Pool(s)!Jobs :
           Holds(s, pipe'[f], j) <=> Holds(s, pipe[f], j) /\ f \notin X
    BY <1>5, <1>6
  <2>3. \A f \in Pools[s].fds, j \in Pool(s)!Jobs : writer'[f] = j <=> writer[f] = j /\ f \notin X
    BY <1>4, <1>5
  <2>4. \A f \in Pools[s].fds, j \in Pool(s)!Jobs : exec[f] = j => f \notin X
    BY <1>3, <1>4, <1>8
  <2> QED
    BY <1>1, <1>3, <2>1, <2>2, <2>3, <2>4 DEF Traced
<1>11. /\ \A j \in Pool(s)!Jobs : accepted[j] # None => accepted'[j] # None
       /\ \A j \in Pool(s)!Jobs : accepted'[j] # None => accepted'[j] = writeTo[j]
       /\ \A j \in Pool(s)!Jobs : j \in U => writeTo[j] \in Pool(s)!Dead
       /\ \A j \in Pool(s)!Jobs : accepted'[j] # None => \/ accepted[j] # None
                                                         \/ (j \in C /\ Pool(s)!Said("ack", j))
                                                         \/ (j \in U /\ j \in revoked)
  BY <1>3, <1>5
<1>12. WrittenThere(s)' /\ AcceptedThere(s)'
  BY <1>1, <1>10, <1>11 DEF WrittenThere, AcceptedThere
<1>13. ASSUME NEW j \in Pool(s)!Jobs, NEW f \in Pools[s].fds, Holds(s, pipe[f],
              j) \/ writer[f] = j
       PROVE  /\ ~Pool(s)!Said("ack", j) /\ ~Pool(s)!Said("ready", j) /\ writeTo[j] = f
              /\ FA[j] = None
              /\ f \notin X => accepted'[j] = None /\ j \notin L /\ j \notin U
              /\ j \in C /\ f \in Pool(s)!Dead => f \in X
  <2>1. /\ writeTo[j] = f /\ accepted[j] = None /\ ~Tells(s, outq[f], "ack", j)
        /\ ~Tells(s, outq[f], "ready", j)
    BY <1>13 DEF WrittenThere, Traced, UnreadUnstarted
  <2>2. ~Pool(s)!Said("ack", j) /\ ~Pool(s)!Said("ready", j)
    BY <1>3, <2>1
  <2>3. FA[j] = None
    BY <1>3, <2>1, <2>2
  <2>4. f \notin X => j \notin L /\ j \notin U
    BY <1>3, <2>1
  <2>5. f \notin X => accepted'[j] = None
    BY <1>5, <2>3, <2>4
  <2>6. j \in C /\ f \in Pool(s)!Dead => f \in X
    BY <1>3, <1>4, <2>1, <2>2
  <2> QED
    BY <2>1, <2>2, <2>3, <2>4, <2>5, <2>6
<1>14. UnreadUnstarted(s)'
  BY <1>1, <1>10, <1>13 DEF UnreadUnstarted
<1>15. PipesOrderly(s)'
  <2>1. ChunksOrderly(s, <<>>, None)
    BY DEF ChunksOrderly
  <2> QED
    BY <1>5, <2>1 DEF PipesOrderly
<1>16. StartsHeard(s)'
  <2>1. SUFFICES ASSUME NEW j \in Pool(s)!Jobs, starts[j] # 0, j \in cache', accepted'[j] = None
                 PROVE  \E f \in Pools[s].fds : Tells(s, outq'[f], "ack", j)
    BY <1>1 DEF StartsHeard
  <2>2. j \in C /\ accepted[j] = None /\ j \in cache
    BY <2>1, <1>1, <1>4, <1>11
  <2>3. PICK f \in Pools[s].fds : Tells(s, outq[f], "ack", j)
    BY <2>1, <2>2 DEF StartsHeard
  <2>4. ~Pool(s)!Said("ack", j)
    BY <2>1, <2>2, <1>1, <1>3, <1>5
  <2>5. f \notin Pool(s)!Dead
    BY <2>3, <2>4, <1>3
  <2> QED
    BY <2>3, <2>5, <1>10
<1>17. Executing(s)'
  <2>1. \A f \in Pools[s].fds :
           exec[f] # None =>
              f \notin Pool(s)!Dead /\ child[f] = "up" /\ ~Tells(s, outq[f], "ready", exec[f])
    BY <1>8 DEF Executing
  <2> QED
    BY <1>1, <1>5, <2>1 DEF Executing
<1>18. UpFirst(s)'
  BY <1>1, <1>5, <1>7 DEF UpFirst
<1>19. FlushedOut(s)'
  <2>1. SUFFICES ASSUME poolpc' = "flush"
                 PROVE  Pool(s)!Elements(outbound') = {} /\ \A j \in cache' : accepted'[j] # None
    BY DEF FlushedOut
  <2>2. U = {}
    BY <2>1, <1>3
  <2>3. \A j \in cache' : j \in C
    BY <1>1, <1>4
  <2> QED
    BY <2>1, <2>2, <2>3, <1>2, <1>4, <1>11
<1>20. UnsentUnknown(s)'
  <2>1. \A j \in Pool(s)!Jobs : j > sent => j \notin C
    <3>1. sent \in Nat /\ cache \subseteq 1..sent /\ Pool(s)!Jobs \subseteq Nat
      BY PoolSets DEF Pool!TypeOK
    <3> QED
      BY <3>1
  <2> QED
    BY <2>1, <1>1, <1>2, <1>3, <1>11 DEF UnsentUnknown
<1>21. BusyWithSome(s)'
  BY <1>1, <1>3, <1>5, PoolSets DEF BusyWithSome
<1>22. ASSUME NEW j \in C, writeTo[j] \in Pool(s)!Dead, j \in FC, ~(j \in L),
              ~(j \in U /\ j \in revoked)
       PROVE  j \in Pool(s)!Elements(outbound')
  BY <1>22, <1>2, <1>3
<1>23. JobsSomewhere(s)'
  <2>1. SUFFICES ASSUME NEW j \in cache', j \notin Pool(s)!Elements(outbound')
                 PROVE  \E f \in Pools[s].fds : \/ writer'[f] = j \/ exec[f] = j \/ Holds(s, pipe'[f], j)
                                                \/ Tells(s, outq'[f], "ready", j)
                                                \/ (writeTo[j] = f /\ child'[f] = "dead")
    BY <1>1 DEF JobsSomewhere
  <2>2. /\ j \in C /\ j \in FC /\ j \notin L /\ ~(j \in U /\ j \in revoked) /\ j \in cache
        /\ j \in Pool(s)!Jobs
    BY <1>1, <1>4
  <2>3. writeTo[j] \notin Pool(s)!Dead
    BY <2>1, <2>2, <1>22
  <2>4. j \notin Pool(s)!Elements(outbound)
    BY <2>1, <2>2, <1>2
  <2>5. PICK f \in Pools[s].fds : \/ writer[f] = j \/ exec[f] = j \/ Holds(s, pipe[f], j)
                                  \/ Tells(s, outq[f], "ready", j)
                                  \/ (writeTo[j] = f /\ child[f] = "dead")
    BY <2>2, <2>4 DEF JobsSomewhere
  <2>6. ~(writeTo[j] = f /\ child[f] = "dead")
    BY <2>3, <1>7
  <2>7. f = writeTo[j]
    BY <2>2, <2>5, <2>6 DEF WrittenThere, Traced
  <2> QED
    BY <2>2, <2>3, <2>5, <2>6, <2>7, <1>3, <1>10
<1>24. DamagedFound(s)'
  <2>1. SUFFICES ASSUME happened'.flushes = 0, NEW f \in damaged PROVE f \in X
    BY <1>1 DEF DamagedFound
  <2>2. C = cache /\ happened.flushes = 0
    BY <2>1
  <2>3. f \in Pool(s)!Dead
    BY <2>2, <1>7, PoolSets DEF DamagedFound
  <2>4. PICK j \in cache : writeTo[j] = f /\ ~Tells(s, outq[f], "ready", j)
    BY <2>2 DEF DamagedFound
  <2>5. j \in FC
    BY <2>2, <2>4, <1>3, <1>4
  <2> QED
    BY <2>2, <2>3, <2>4, <2>5, <1>3
<1>25. AtChildCached(s)'
  <2>1. SUFFICES ASSUME happened'.flushes = 0, NEW f \in Pools[s].fds, NEW j \in Pool(s)!Jobs,
                        Holds(s, pipe'[f], j) \/ writer'[f] = j \/ exec[f] = j
                 PROVE  j \in cache'
    BY <1>1 DEF AtChildCached
  <2>2. C = cache /\ happened.flushes = 0
    BY <2>1
  <2>3. CASE Holds(s, pipe'[f], j) \/ writer'[f] = j
    <3>1. (Holds(s, pipe[f], j) \/ writer[f] = j) /\ f \notin X
      BY <2>3, <1>10
    <3>2. j \in C
      BY <3>1, <2>2 DEF AtChildCached
    <3> QED
      BY <3>1, <3>2, <1>1, <1>4, <1>13
  <2>4. CASE exec[f] = j
    <3>1. j \in C /\ writeTo[j] = f /\ f \notin Pool(s)!Dead
      BY <2>2, <2>4, <1>4, <1>8 DEF AtChildCached, WrittenThere, Traced
    <3>2. ~Pool(s)!Said("ready", j)
      BY <3>1, <1>3
    <3>3. j \notin L /\ j \notin U
      BY <3>1, <1>3
    <3> QED
      BY <3>1, <3>2, <3>3, <1>1, <1>4
  <2> QED
    BY <2>1, <2>3, <2>4
<1>26. OneEach(s)'
  <2>1. SUFFICES ASSUME Pools[s].fair, happened'.flushes = 0, NEW f \in Pools[s].fds
                 PROVE  (Idle(s, f) \/ (f \in busy /\ Solo(s, f)))'
    BY DEF OneEach
  <2>2. C = cache /\ happened.flushes = 0
    BY <2>1
  <2>3. CASE f \notin Pool(s)!Dead
    <3>1. Idle(s, f) \/ (f \in busy /\ Solo(s, f))
      BY <2>1, <2>2 DEF OneEach
    <3>2. /\ pipe'[f] = pipe[f] /\ writer'[f] = writer[f] /\ exec'[f] = exec[f]
          /\ outq'[f] = outq[f]
          /\ f \in busy' <=> f \in busy
      BY <2>3, <1>1, <1>3, <1>5
    <3> QED
      BY <3>1, <3>2 DEF Idle, Solo
  <2>4. CASE f \in Pool(s)!Dead
    <3>1. ASSUME NEW j \in Pool(s)!Jobs, Holds(s, pipe[f], j) \/ writer[f] = j PROVE f \in X
      <4>1. j \in C
        BY <3>1, <2>2 DEF AtChildCached
      <4> QED
        BY <4>1, <2>4, <3>1, <1>13
    <3>2. /\ writer[f] \in Pool(s)!Jobs \cup {None} /\ pipe[f] \in Seq(Pool(s)!Chunk)
          /\ ChunksOrderly(s, pipe[f], writer[f])
      BY PoolTypes DEF PipesOrderly
    <3>3. pipe[f] # <<>> => f \in X
      BY <3>1, <3>2, TailHolds
    <3>4. writer[f] # None => f \in X
      BY <3>1, <3>2
    <3> QED
      BY <2>4, <3>3, <3>4, <1>1, <1>5, <1>6, <1>8 DEF Idle
  <2> QED
    BY <2>3, <2>4
<1>27. WaitingUntraced(s)'
  <2>1. SUFFICES ASSUME NEW j \in Pool(s)!Elements(outbound')
                 PROVE  /\ starts[j] = 0 /\ \A f \in Pools[s].fds : ~Traced(s, j, f)'
                        /\ j \in cache' => accepted'[j] = None
                        /\ happened'.flushes = 0 /\ accepted'[j] = None => j \in cache'
    BY <1>1, <1>2 DEF WaitingUntraced
  <2>2. CASE j \in U /\ j \notin revoked
    <3>1. j \in Pool(s)!Jobs /\ starts[j] = 0 /\ FA[j] = None /\ writeTo[j] \in X /\ j \in FC
      BY <2>2, <1>3, <1>4
    <3>2. \A f \in Pools[s].fds : ~Traced(s, j, f)'
      BY <3>1, <1>10 DEF WrittenThere
    <3>3. accepted'[j] = None
      BY <2>2, <3>1, <1>5
    <3>4. j \in cache'
      BY <2>2, <3>1, <1>1, <1>3, <1>4
    <3> QED
      BY <3>1, <3>2, <3>3, <3>4
  <2>3. CASE j \in Pool(s)!Elements(buffer)
    <3>1. j \in Pool(s)!Jobs /\ j \in Pool(s)!Elements(outbound)
      BY <2>3, PoolSets
    <3>2. starts[j] = 0 /\ \A f \in Pools[s].fds : ~Traced(s, j, f)
      BY <3>1 DEF WaitingUntraced
    <3>3. ~Pool(s)!Said("ack", j) /\ ~Pool(s)!Said("ready", j)
      BY <3>1, <3>2, <1>3 DEF Traced
    <3>4. j \in cache' => accepted'[j] = None
      <4>1. SUFFICES ASSUME j \in cache' PROVE accepted'[j] = None
        OBVIOUS
      <4>2. j \in cache /\ ~(j \in U /\ j \in revoked)
        BY <4>1, <1>1, <1>4
      <4>3. accepted[j] = None
        BY <3>1, <4>2 DEF WaitingUntraced
      <4> QED
        BY <3>1, <3>3, <4>2, <4>3, <1>11
    <3>5. happened'.flushes = 0 /\ accepted'[j] = None => j \in cache'
      <4>1. SUFFICES ASSUME happened'.flushes = 0, accepted'[j] = None PROVE j \in cache'
        OBVIOUS
      <4>2. accepted[j] = None /\ C = cache /\ happened.flushes = 0 /\ FA[j] = None
            /\ ~(j \in U /\ j \in revoked)
        BY <4>1, <3>1, <3>3, <1>3, <1>5, <1>11
      <4>3. j \in C
        BY <4>2, <3>1 DEF WaitingUntraced
      <4> QED
        BY <4>2, <4>3, <3>3, <1>1, <1>3, <1>4
    <3> QED
      BY <3>1, <3>2, <3>4, <3>5, <1>10
  <2> QED
    BY <2>1, <2>2, <2>3, <1>2
<1> QED
  BY <1>9, <1>12, <1>14, <1>15, <1>16, <1>17, <1>18, <1>19, <1>20, <1>21, <1>23, <1>24, <1>25,
     <1>26, <1>27

\* The timer that does so keeps it.
LEMMA MaintainPoolStep ==
    ASSUME NEW s \in DOMAIN Pools, PoolInv(s), Pool(s)!MaintainPool
    PROVE  PoolInv(s)'
<1>1. /\ Pool(s)!Replace(cache, outbound) /\ poolpc' = poolpc /\ sent' = sent
      /\ happened' = happened
  BY DEF Pool!MaintainPool
<1>2. /\ outbound \in Seq(Pool(s)!Jobs) /\ \A i, k \in DOMAIN outbound :
            outbound[i] = outbound[k] => i = k
      /\ happened \in [exits : 0..Pools[s].exits, flushes : 0..Pools[s].flushes,
                       revokes : 0..Pools[s].revokes]
      /\ poolpc \in {"loop", "flush"}
  BY DEF PoolInv, Pool!TypeOK, WaitingUntraced
<1>3. poolpc = "flush" => /\ happened.flushes # 0 /\ Pool(s)!Elements(outbound) = {}
                          /\ \A j \in cache : accepted[j] # None
  BY DEF PoolInv, FlushedOut
<1> QED
  BY <1>1, <1>2, <1>3, ReplaceStep

\* So does a lost connection, which drops what waits and goes through the results.
LEMMA FlushBeginStep ==
    ASSUME NEW s \in DOMAIN Pools, PoolInv(s), Pool(s)!FlushBegin
    PROVE  PoolInv(s)'
<1> DEFINE C == {j \in cache : accepted[j] # None}
<1>1. /\ Pool(s)!Replace(C, <<>>) /\ poolpc' = "flush" /\ sent' = sent
      /\ happened.flushes < Pools[s].flushes
      /\ happened' = [happened EXCEPT !.flushes = @ + 1]
  BY DEF Pool!FlushBegin
<1>2. /\ happened' \in [exits : 0..Pools[s].exits, flushes : 0..Pools[s].flushes,
                        revokes : 0..Pools[s].revokes]
      /\ happened'.flushes # 0
  <2>1. happened.flushes \in 0..Pools[s].flushes /\ Pools[s].flushes \in Nat
    BY PoolsRight DEF PoolInv, Pool!TypeOK, Pool!AsynPoolConstants
  <2>2. happened.flushes + 1 \in 0..Pools[s].flushes /\ happened.flushes + 1 # 0
    BY <2>1, <1>1
  <2> QED
    BY <2>2, <1>1 DEF PoolInv, Pool!TypeOK
<1>3. <<>> \in Seq(Pool(s)!Jobs) /\ Pool(s)!Elements(<<>>) = {} /\ DOMAIN <<>> = {}
  BY EmptyElements
<1>4. C \subseteq cache /\ \A j \in C : accepted[j] # None /\ j \notin Pool(s)!Elements(outbound)
  BY DEF PoolInv, WaitingUntraced
<1> HIDE DEF C
<1> QED
  BY <1>1, <1>2, <1>3, <1>4, ReplaceStep

\* The invariant holds when the pool is started.
LEMMA JobsInit ==
    ASSUME NEW s \in DOMAIN Pools
    PROVE
    Pool(s)!Init => PoolInv(s)
<1> SUFFICES ASSUME Pool(s)!Init PROVE PoolInv(s)
  OBVIOUS
<1>1. \A k, j : ~Holds(s, <<>>, j) /\ ~Ready(s, <<>>) /\ ~Tells(s, <<>>, k, j)
  BY EmptyElements DEF Holds, Ready, Tells
<1>2. Pool(s)!Elements(outbound) = {} /\ DOMAIN outbound = {} /\ None \notin Pool(s)!Jobs
  BY EmptyElements, PoolsRight DEF Pool!Init, Pool!AsynPoolConstants, Pool!Jobs
<1>3. Pool(s)!TypeOK
  BY PoolsRight DEF Pool!Init, Pool!TypeOK, Pool!AsynPoolConstants
<1>4. \A j \in Pool(s)!Jobs, f \in Pools[s].fds : ~Traced(s, j, f)
  BY <1>1, <1>2 DEF Pool!Init, Traced
<1>5. /\ WrittenThere(s) /\ AcceptedThere(s) /\ WaitingUntraced(s) /\ UnsentUnknown(s)
      /\ UnreadUnstarted(s) /\ StartsHeard(s)
  BY <1>1, <1>2, <1>4 DEF Pool!Init, WrittenThere, AcceptedThere, WaitingUntraced,
                          UnsentUnknown, UnreadUnstarted, StartsHeard
<1>6. PipesOrderly(s) /\ Executing(s) /\ UpFirst(s) /\ DamagedFound(s) /\ AtChildCached(s)
  BY <1>1, <1>2 DEF Pool!Init, PipesOrderly, ChunksOrderly, Executing, UpFirst, DamagedFound,
                    AtChildCached
<1>7. OneEach(s) /\ FlushedOut(s) /\ JobsSomewhere(s) /\ BusyWithSome(s)
  BY <1>1, <1>2 DEF Pool!Init, OneEach, Idle, FlushedOut, JobsSomewhere, BusyWithSome
<1> QED
  BY <1>3, <1>5, <1>6, <1>7 DEF PoolInv

\* Every step of the parent and of its children keeps it.
LEMMA JobsStep ==
    ASSUME NEW s \in DOMAIN Pools, PoolInv(s), Pool(s)!Next
    PROVE  PoolInv(s)'
BY ChildUpStep, ChildReadStep, ChildDoneStep, ChildExitStep, SendJobStep, RevokeStep,
   FlushEndStep,
   ScheduleWritesStep, WriteMoreStep, HandleResultStep, MaintainPoolStep, FlushBeginStep
   DEF Pool!Next, Pool!Loop, Pool!Child

\* It gives what is to be shown of the jobs.
LEMMA JobsFollow ==
    ASSUME NEW s \in DOMAIN Pools, PoolInv(s)
    PROVE  /\ Pool(s)!TypeOK /\ Pool(s)!JobAccounted /\ Pool(s)!StartedOnce
           /\ Pool(s)!NoPhantomBusy /\ Pool(s)!UpIsNews
           /\ Pool(s)!BoundariesKept /\ Pool(s)!OneJobPerChild
<1> USE DEF PoolInv
<1>1. Pool(s)!JobAccounted
  BY DEF JobsSomewhere, Pool!JobAccounted, Holds, Tells
<1>2. Pool(s)!StartedOnce
  BY DEF StartsHeard, Pool!StartedOnce
<1>3. Pool(s)!NoPhantomBusy
  BY DEF BusyWithSome, Pool!NoPhantomBusy, Ready
<1>4. Pool(s)!UpIsNews
  <2>1. Pool(s)!Msg("up", None).kind = "up"
    BY DEF Pool!Msg
  <2> QED
    BY <2>1 DEF UpFirst, Pool!UpIsNews, Pool!Elements
<1>5. Pool(s)!BoundariesKept
  BY DEF DamagedFound, Pool!BoundariesKept
<1>6. Pool(s)!OneJobPerChild
  <2>1. SUFFICES ASSUME Pools[s].fair, happened.flushes = 0, NEW f \in Pools[s].fds
                 PROVE  Len(pipe[f]) + (IF exec[f] # None THEN 1 ELSE 0) <= 1
    BY DEF Pool!OneJobPerChild
  <2>2. Idle(s, f) \/ Solo(s, f)
    BY <2>1, Zenon DEF OneEach
  <2>3. CASE pipe[f] = <<>>
    <3>1. Len(pipe[f]) = 0
      BY <2>3
    <3>2. CASE exec[f] # None
      BY <3>1, <3>2
    <3>3. CASE exec[f] = None
      BY <3>1, <3>3
    <3> QED
      BY <3>2, <3>3
  <2>4. CASE Len(pipe[f]) = 1 /\ exec[f] = None
    BY <2>4
  <2> QED
    BY <2>2, <2>3, <2>4 DEF Idle, Solo
<1> QED
  BY <1>1, <1>2, <1>3, <1>4, <1>5, <1>6

\* A step of another part keeps it.
LEMMA JobsStay ==
    ASSUME NEW s \in DOMAIN Pools, PoolInv(s), UNCHANGED Pool(s)!vars
    PROVE  PoolInv(s)'
<1>1. \A g \in Pools[s].fds, k \in Pool(s)!Jobs : Traced(s, k, g)' <=> Traced(s, k, g)
  BY DEF Traced, Pool!vars, Pool!parent, Pool!children
<1>2. /\ WrittenThere(s)' /\ AcceptedThere(s)' /\ WaitingUntraced(s)' /\ UnsentUnknown(s)'
      /\ UnreadUnstarted(s)' /\ StartsHeard(s)' /\ Pool(s)!TypeOK'
  BY <1>1, PoolSets
     DEF PoolInv, Pool!vars, Pool!parent, Pool!children, WrittenThere, AcceptedThere,
     WaitingUntraced, UnsentUnknown, UnreadUnstarted,
         StartsHeard, Pool!TypeOK
<1>3. PipesOrderly(s)' /\ Executing(s)' /\ UpFirst(s)' /\ DamagedFound(s)' /\ AtChildCached(s)'
  BY DEF PoolInv, Pool!vars, Pool!parent, Pool!children, PipesOrderly, Executing, UpFirst,
         DamagedFound, AtChildCached
<1>4. OneEach(s)' /\ FlushedOut(s)' /\ JobsSomewhere(s)' /\ BusyWithSome(s)'
  BY DEF PoolInv, Pool!vars, Pool!parent, Pool!children, OneEach, Idle, Solo, FlushedOut,
         JobsSomewhere, BusyWithSome
<1> QED
  BY <1>2, <1>3, <1>4 DEF PoolInv

\* The invariant of each scenario that is about the pool.
PoolsInv == \A s \in DOMAIN Pools : scenario = s => PoolInv(s)

\* It holds at first.
LEMMA PoolsInit ==
    ScenarioInit => PoolsInv
<1> SUFFICES ASSUME ScenarioInit, NEW s \in DOMAIN Pools, scenario = s PROVE PoolInv(s)
  BY DEF PoolsInv
<1>1. PICK t \in DOMAIN Pools : scenario = t /\ Pool(t)!Init
  BY DEF ScenarioInit
<1> QED
  BY <1>1, JobsInit

\* Every step keeps it: a step of its own scenario, or one that is not about it.
LEMMA PoolsStep ==
    ASSUME PoolsInv, [ScenarioNext]_allVars PROVE PoolsInv'
<1> SUFFICES ASSUME NEW s \in DOMAIN Pools, scenario' = s PROVE PoolInv(s)'
  BY DEF PoolsInv
<1>1. scenario = s
  BY DEF ScenarioNext, InPool, InFlow, InRate, InQueues, InMulti, InBlueprint, allVars
<1>2. PoolInv(s)
  BY <1>1 DEF PoolsInv
<1>3. CASE \E t \in DOMAIN Pools : InPool(t) /\ Pool(t)!Next
  <2>1. PICK t \in DOMAIN Pools : InPool(t) /\ Pool(t)!Next
    BY <1>3
  <2>2. t = s
    BY <1>1, <2>1 DEF InPool
  <2> QED
    BY <1>2, <2>1, <2>2, JobsStep
<1>4. CASE UNCHANGED poolVars
  <2>1. UNCHANGED Pool(s)!vars
    BY <1>4 DEF poolVars, Pool!vars, Pool!parent, Pool!children
  <2> QED
    BY <1>2, <2>1, JobsStay
<1> QED
  BY <1>3, <1>4
     DEF ScenarioNext, InFlow, InRate, InQueues, InMulti, InBlueprint, allVars

(* Whatever children of the prefork pool die, and when, and whatever is    *)
(* revoked or flushed meanwhile, a job the pool took is in its cache only  *)
(* while it is still somewhere, no job is started twice, no child counts   *)
(* as busy without a reason, the queue a damaged pipe leaves is found, and *)
(* under fair scheduling a child has one job at a time.                    *)
THEOREM JobsKept == ScenarioSpec => []JobsAccounted
<1>1. PoolsInv => JobsAccounted
  BY JobsFollow DEF PoolsInv, JobsAccounted
<1> QED
  BY <1>1, PoolsInit, PoolsStep, PTL DEF ScenarioSpec
=============================================================================
