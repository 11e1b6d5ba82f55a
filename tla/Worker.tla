------------------------------- MODULE Worker -------------------------------
(***************************************************************************)
(* One worker with the event loop and the prefork pool, from the delivery  *)
(* of a task message to its acknowledgement: Request (worker/request.py),  *)
(* the request tables (worker/state.py), the task message handler          *)
(* (worker/strategy.py), the consumer's restart after a connection loss    *)
(* (worker/consumer/consumer.py, worker/loops.py), the revoke command      *)
(* (worker/control.py) and the cold shutdown (apps/worker.py).             *)
(*                                                                         *)
(* The main process is a single thread: each of its callbacks is one       *)
(* action.  The broker, the connection and the pool's children run beside  *)
(* it.  A Request object is a pair <<task id, n>>, the n-th delivery of    *)
(* that id; its boolean attributes are sets of such pairs.                 *)
(***************************************************************************)
EXTENDS Integers, FiniteSets

CONSTANTS
    Tasks,           \* task ids
    Options,         \* the option records a task may have
    Concurrency,     \* initial value of the pool semaphore
    CancelOnLoss,    \* worker_cancel_long_running_tasks_on_connection_loss
    Ends,            \* the outcomes a task may have, among Outcomes
    None,            \* no request
    MaxDeliveries,   \* bound on the deliveries of one id
    MaxDrops,        \* bound on the connection losses
    MaxCrashes       \* bound on the children lost for no reason of ours

Option == [late : BOOLEAN,           \* acks_late
           ackFailure : BOOLEAN,     \* acks_on_failure
           ackTimeout : BOOLEAN,     \* acks_on_timeout
           requeueLost : BOOLEAN,    \* reject_on_worker_lost
           limit : BOOLEAN,          \* the task has a hard time limit
           eta : BOOLEAN,            \* the message has an ETA or countdown
           expires : BOOLEAN]        \* the message has an expiry time

(* What a child can report of the task it ran (celery.app.trace).          *)
Outcomes == {"success", "failure", "retry", "ignore", "reject", "requeue", "exit"}

Requests == Tasks \X (1..MaxDeliveries)

ASSUME WorkerAssumption ==
    /\ Options \subseteq Option
    /\ Ends \subseteq Outcomes
    /\ {Concurrency, MaxDeliveries, MaxDrops, MaxCrashes} \subseteq Nat
    /\ Concurrency > 0
    /\ CancelOnLoss \in BOOLEAN
    /\ None \notin Requests
    /\ IsFiniteSet(Tasks)

VARIABLES
    opt,                \* task id -> its options
    queue, held,        \* broker: copies ready for delivery; unacked deliveries
    connected,          \* the connection to the broker is up
    soon,               \* hub.call_soon: acks and rejects not yet written
    requests,           \* state.requests: id -> Request
    reserved, active, scheduled, successful,     \* the other tables of state
    revoked,            \* state.revoked: ids
    acknowledged, started, alreadyRevoked, alreadyCancelled, terminateOnAck,
                        \* attributes of Request (started: time_start is set)
    requeued,           \* the requests settled with requeue=True
    waiting, slots,     \* the semaphore: its waiters, its value
    cache,              \* pool: jobs whose result is awaited
    terminated,         \* pool: jobs with ApplyResult._terminated set
    timers,             \* pool: jobs whose hard time limit timer is in the hub
    child, signalled,   \* what the child does with a job; signals sent to it
    result,             \* the state in the result backend, by id
    expired,            \* ids whose expiry time has passed
    count,              \* deliveries made, by id
    drops, crashes, mode

brokerVars == <<queue, held, connected>>
tableVars == <<requests, reserved, active, scheduled, successful, revoked>>
requestVars == <<acknowledged, requeued, started, alreadyRevoked, alreadyCancelled,
                 terminateOnAck>>
poolVars == <<waiting, slots, cache, terminated, timers>>
childVars == <<child, signalled, crashes>>
envVars == <<opt, expired, count, drops, mode>>
vars == <<brokerVars, soon, tableVars, requestVars, poolVars, childVars, result,
          envVars>>

Id(r) == r[1]

Over == Outcomes \union {"dead"}
Begun == Over \union {"run"}

States == {"PENDING", "RETRY", "SUCCESS", "FAILURE", "REVOKED"}
ReadyStates == {"SUCCESS", "FAILURE", "REVOKED"}

Settlements == {"ack", "reject", "requeue"}

TypeOK ==
    /\ opt \in [Tasks -> Options]
    /\ queue \in [Tasks -> Nat] /\ held \subseteq Requests /\ connected \in BOOLEAN
    /\ soon \subseteq Requests \X Settlements
    /\ requests \in [Tasks -> Requests \union {None}]
    /\ reserved \subseteq Requests /\ active \subseteq Requests
    /\ scheduled \subseteq Requests
    /\ successful \subseteq Tasks /\ revoked \subseteq Tasks
    /\ acknowledged \subseteq Requests /\ requeued \subseteq acknowledged
    /\ started \subseteq Requests
    /\ alreadyRevoked \subseteq Requests /\ alreadyCancelled \subseteq Requests
    /\ terminateOnAck \subseteq Requests
    /\ waiting \subseteq Requests /\ slots \in 0..Concurrency
    /\ cache \subseteq Requests /\ terminated \subseteq Requests
    /\ timers \subseteq Requests
    /\ child \in [Requests -> {"none", "buffered", "piped"} \union Begun]
    /\ signalled \subseteq Requests
    /\ result \in [Tasks -> States]
    /\ expired \subseteq Tasks
    /\ count \in [Tasks -> 0..MaxDeliveries]
    /\ drops \in Nat /\ crashes \in Nat
    /\ mode \in {"run", "cold", "gone"}

Init ==
    /\ opt \in [Tasks -> Options]
    /\ queue = [i \in Tasks |-> 1] /\ held = {} /\ connected = TRUE
    /\ soon = {}
    /\ requests = [i \in Tasks |-> None]
    /\ reserved = {} /\ active = {} /\ scheduled = {}
    /\ successful = {} /\ revoked = {}
    /\ acknowledged = {} /\ requeued = {} /\ started = {} /\ alreadyRevoked = {}
    /\ alreadyCancelled = {} /\ terminateOnAck = {}
    /\ waiting = {} /\ slots = Concurrency
    /\ cache = {} /\ terminated = {} /\ timers = {}
    /\ child = [r \in Requests |-> "none"] /\ signalled = {}
    /\ result = [i \in Tasks |-> "PENDING"]
    /\ expired = {}
    /\ count = [i \in Tasks |-> 0]
    /\ drops = 0 /\ crashes = 0 /\ mode = "run"

-----------------------------------------------------------------------------
(* Updates that several handlers share.                                    *)

(* A semaphore that has a free slot and a waiter calls the waiter at once: *)
(* no other callback of the main process runs in between.                  *)
MainIdle == mode # "gone" /\ ~ (slots > 0 /\ waiting # {})

TaskReserved(r) ==
    /\ requests' = [requests EXCEPT ![Id(r)] = r]
    /\ reserved' = reserved \union {r}
    /\ scheduled' = scheduled \ {r}

TaskScheduled(r) ==
    IF r \in reserved \union active
    THEN UNCHANGED <<requests, scheduled>>
    ELSE /\ requests' = [requests EXCEPT ![Id(r)] = r]
         /\ scheduled' = scheduled \union {r}

(* Mutant: the reserved set is forgotten.                                  *)
TaskReadyKeepsReserved(R) ==
    /\ requests' = [i \in Tasks |-> IF \E r \in R : Id(r) = i THEN None ELSE requests[i]]
    /\ active' = active \ R
    /\ scheduled' = scheduled \ R
    /\ UNCHANGED reserved

(* task_ready() of the requests R: the id is dropped, whoever it maps to.  *)
TaskReady(R) ==
    /\ requests' = [i \in Tasks |-> IF \E r \in R : Id(r) = i THEN None ELSE requests[i]]
    /\ active' = active \ R
    /\ reserved' = reserved \ R
    /\ scheduled' = scheduled \ R

(* acknowledge() and reject(): the first call decides.                     *)
settleVars == <<acknowledged, requeued, soon>>

Settle(r, how) ==
    IF r \in acknowledged
    THEN UNCHANGED settleVars
    ELSE /\ acknowledged' = acknowledged \union {r}
         /\ requeued' = IF how = "requeue" THEN requeued \union {r} ELSE requeued
         /\ soon' = soon \union {<<r, how>>}

(* A result that is SUCCESS is kept (KeyValueStoreBackend._store_result).  *)
Stored(i, s) == [result EXCEPT ![i] = IF @ = "SUCCESS" THEN @ ELSE s]

AnnounceRevoked(r) ==
    /\ TaskReady({r})
    /\ result' = Stored(Id(r), "REVOKED")
    /\ Settle(r, "ack")
    /\ alreadyRevoked' = alreadyRevoked \union {r}

(* Mutant: a semaphore without an upper bound.                             *)
ReleaseUnbounded == slots' = slots + 1

(* Semaphore.release() when a job's result has come in.                    *)
Release == slots' = IF slots < Concurrency THEN slots + 1 ELSE slots

(* revoked(): what it finds, and what it adds to the revoked ids.          *)
IsRevoked(r) == Id(r) \in revoked \union expired
RevokedAfter(r) == revoked \union (expired \cap {Id(r)})

-----------------------------------------------------------------------------
(* The main process.                                                       *)

(* on_task_received() and the strategy's task_message_handler().           *)
Deliver(i) ==
    LET r == <<i, count[i] + 1>> IN
    /\ MainIdle /\ mode = "run" /\ connected
    /\ queue[i] > 0 /\ count[i] < MaxDeliveries
    /\ count' = [count EXCEPT ![i] = @ + 1]
    /\ queue' = [queue EXCEPT ![i] = @ - 1]
    /\ held' = held \union {r}
    /\ \/ /\ IsRevoked(r)
          /\ revoked' = RevokedAfter(r)
          /\ AnnounceRevoked(r)
          /\ UNCHANGED waiting
       \/ /\ ~ IsRevoked(r) /\ opt[i].eta
          /\ TaskScheduled(r)
          /\ UNCHANGED <<reserved, active, revoked, waiting, result,
                         alreadyRevoked, settleVars>>
       \/ /\ ~ IsRevoked(r) /\ ~ opt[i].eta
          /\ TaskReserved(r)
          /\ waiting' = waiting \union {r}
          /\ UNCHANGED <<active, revoked, result, alreadyRevoked, settleVars>>
    /\ UNCHANGED <<connected, successful, started, alreadyCancelled,
                   terminateOnAck, slots, cache, terminated, timers, childVars,
                   opt, expired, drops, mode>>

(* The timer calls apply_eta_task().                                       *)
ApplyEtaTask(r) ==
    /\ MainIdle /\ mode = "run"
    /\ r \in scheduled
    /\ TaskReserved(r)
    /\ waiting' = waiting \union {r}
    /\ UNCHANGED <<brokerVars, soon, active, successful, revoked, requestVars,
                   slots, cache, terminated, timers, childVars, result, envVars>>

(* _process_task(): a slot is free; execute_using_pool() or give it back.  *)
ProcessTask(r) ==
    /\ mode # "gone" /\ slots > 0 /\ r \in waiting
    /\ waiting' = waiting \ {r}
    /\ \/ /\ r \in alreadyRevoked
          /\ UNCHANGED <<slots, cache, child, tableVars, result, settleVars,
                         alreadyRevoked>>
       \/ /\ r \notin alreadyRevoked /\ IsRevoked(r)
          /\ revoked' = RevokedAfter(r)
          /\ AnnounceRevoked(r)
          /\ UNCHANGED <<slots, cache, child, successful>>
       \/ /\ r \notin alreadyRevoked /\ ~ IsRevoked(r)
          /\ slots' = slots - 1
          /\ cache' = cache \union {r}
          /\ child' = [child EXCEPT ![r] = "buffered"]
          /\ UNCHANGED <<tableVars, result, settleVars, alreadyRevoked>>
    /\ UNCHANGED <<brokerVars, started, alreadyCancelled, terminateOnAck,
                   terminated, timers, signalled, crashes, envVars>>

(* on_inqueue_writable(): the job is written to the pipe of a child.       *)
WriteJob(r) ==
    /\ MainIdle
    /\ child[r] = "buffered"
    /\ child' = [child EXCEPT ![r] = "piped"]
    /\ UNCHANGED <<brokerVars, soon, tableVars, requestVars, poolVars, signalled,
                   crashes, result, envVars>>

(* Mutant: the job is marked and no signal is sent.                        *)
TerminateUnsignalled(r) ==
    /\ AnnounceRevoked(r)
    /\ terminated' = terminated \union ({r} \cap cache)
    /\ UNCHANGED signalled

(* Request.terminate() of a request that is running in a child.            *)
TerminateStarted(r) ==
    /\ signalled' = signalled \union {r}
    /\ AnnounceRevoked(r)
    /\ terminated' = terminated \union ({r} \cap cache)

(* Mutant: acks_late is not looked at when the task is accepted.           *)
AckAlways(r) == Settle(r, "ack")

(* Without acks_late the message is acknowledged when the task is accepted.*)
AckEarly(r) ==
    IF opt[Id(r)].late THEN UNCHANGED settleVars ELSE Settle(r, "ack")

(* The child's ACCEPT message: on_accepted().                              *)
OnAccepted(r) ==
    /\ MainIdle
    /\ r \in cache /\ r \notin started /\ child[r] \in Begun
    /\ started' = started \union {r}
    /\ timers' = IF opt[Id(r)].limit THEN timers \union {r} ELSE timers
    /\ \/ /\ r \in terminateOnAck
          /\ TerminateStarted(r)
       \/ /\ r \notin terminateOnAck
          /\ requests' = [requests EXCEPT ![Id(r)] = r]
          /\ active' = active \union {r}
          /\ AckEarly(r)
          /\ UNCHANGED <<reserved, scheduled, alreadyRevoked, signalled,
                         terminated, result>>
    /\ UNCHANGED <<brokerVars, successful, revoked, alreadyCancelled,
                   terminateOnAck, waiting, slots, cache, child, crashes,
                   envVars>>

(* Mutant: the slot is not given back.                                     *)
JobDoneKeepsSlot(r) ==
    /\ r \in cache /\ r \in started
    /\ cache' = cache \ {r}
    /\ timers' = timers \ {r}
    /\ UNCHANGED slots

(* The pool forgets a job and frees its slot before it calls the handler.  *)
JobDone(r) ==
    /\ r \in cache /\ r \in started
    /\ cache' = cache \ {r}
    /\ timers' = timers \ {r}
    /\ Release

(* on_failure() past its early returns, for a lost child or a time limit.  *)
RequeueOn(r, timeout) ==
    /\ opt[Id(r)].late
    /\ IF timeout THEN ~ opt[Id(r)].ackTimeout ELSE opt[Id(r)].requeueLost

FailureSettlement(r, timeout) ==
    LET ackFlag == IF timeout THEN opt[Id(r)].ackTimeout ELSE opt[Id(r)].ackFailure
    IN  IF RequeueOn(r, timeout) THEN "requeue" ELSE IF ackFlag THEN "ack" ELSE "reject"

SettleIfLate(r, how) ==
    IF opt[Id(r)].late THEN Settle(r, how) ELSE UNCHANGED settleVars

(* Mutant: a task that is to be requeued is not rejected.                  *)
WorkerLostUnsettled(r) ==
    /\ IF RequeueOn(r, FALSE) THEN UNCHANGED settleVars
       ELSE SettleIfLate(r, FailureSettlement(r, FALSE))
    /\ result' = IF RequeueOn(r, FALSE) THEN result ELSE Stored(Id(r), "FAILURE")
    /\ UNCHANGED alreadyRevoked

WorkerLost(r) ==
    /\ SettleIfLate(r, FailureSettlement(r, FALSE))
    /\ result' = IF RequeueOn(r, FALSE) THEN result ELSE Stored(Id(r), "FAILURE")
    /\ UNCHANGED alreadyRevoked

Nothing == UNCHANGED <<settleVars, result, alreadyRevoked>>

(* The child's READY message: on_success(), or on_failure() by way of it.  *)
OnReady(r) ==
    LET how == child[r] IN
    /\ MainIdle
    /\ how \in Outcomes
    /\ JobDone(r)
    /\ TaskReady({r})
    /\ successful' = IF how = "success" THEN successful \union {Id(r)} ELSE successful
    /\ \/ how \in {"success", "retry"} /\ SettleIfLate(r, "ack")
          /\ UNCHANGED <<result, alreadyRevoked>>
       \/ how = "failure"
          /\ SettleIfLate(r, IF opt[Id(r)].ackFailure THEN "ack" ELSE "reject")
          /\ UNCHANGED <<result, alreadyRevoked>>
       \/ how = "ignore" /\ Settle(r, "ack")
          /\ UNCHANGED <<result, alreadyRevoked>>
       \/ how = "reject" /\ Settle(r, "reject")
          /\ result' = Stored(Id(r), "FAILURE") /\ UNCHANGED alreadyRevoked
       \/ how = "requeue" /\ Settle(r, "requeue")
          /\ UNCHANGED <<result, alreadyRevoked>>
       \/ how = "exit" /\ r \in alreadyCancelled \union alreadyRevoked /\ Nothing
       \/ how = "exit" /\ r \notin alreadyCancelled \union alreadyRevoked /\ WorkerLost(r)
    /\ UNCHANGED <<brokerVars, revoked, started, alreadyCancelled, terminateOnAck,
                   waiting, terminated, childVars, envVars>>

(* The child is gone and its pipe is read: on_failure(Terminated) if the   *)
(* job was terminated, else on_failure(WorkerLostError).                   *)
OnProcessDown(r) ==
    /\ MainIdle
    /\ child[r] = "dead"
    /\ JobDone(r)
    /\ \/ /\ r \in terminated /\ r \notin alreadyCancelled \union alreadyRevoked
          /\ AnnounceRevoked(r)
       \/ /\ r \in terminated /\ r \in alreadyCancelled \union alreadyRevoked
          /\ TaskReady({r}) /\ Nothing
       \/ /\ r \notin terminated
          /\ TaskReady({r}) /\ WorkerLost(r)
    /\ UNCHANGED <<brokerVars, successful, revoked, started, alreadyCancelled,
                   terminateOnAck, waiting, terminated, childVars, envVars>>

(* on_hard_timeout(): on_failure(TimeLimitExceeded), on_timeout(), kill.   *)
OnHardTimeout(r) ==
    /\ MainIdle
    /\ r \in timers
    /\ JobDone(r)
    /\ TaskReady({r})
    /\ SettleIfLate(r, FailureSettlement(r, TRUE))
    /\ result' = IF mode = "cold" THEN result ELSE Stored(Id(r), "FAILURE")
    /\ child' = [child EXCEPT ![r] = IF @ = "run" THEN "dead" ELSE @]
    /\ UNCHANGED <<brokerVars, successful, revoked, started, alreadyRevoked,
                   alreadyCancelled, terminateOnAck, waiting, terminated,
                   signalled, crashes, envVars>>

(* Mutant: the requeue flag does not reach the broker.                     *)
CallSoonDiscard(p) ==
    /\ MainIdle
    /\ p \in soon
    /\ soon' = soon \ {p}
    /\ held' = held \ {p[1]}
    /\ UNCHANGED <<queue, connected, tableVars, requestVars, poolVars, childVars,
                   result, envVars>>

(* hub.call_soon: message.ack_log_error() or reject_log_error().  On a     *)
(* connection that is down this is an error that is logged.                *)
CallSoon(p) ==
    /\ MainIdle
    /\ p \in soon
    /\ soon' = soon \ {p}
    /\ held' = held \ {p[1]}
    /\ queue' = IF p[1] \in held /\ p[2] = "requeue"
                THEN [queue EXCEPT ![Id(p[1])] = @ + 1] ELSE queue
    /\ UNCHANGED <<connected, tableVars, requestVars, poolVars, childVars, result,
                   envVars>>

(* The revoke remote control command.                                      *)
Revoke(i, terminate) ==
    LET r == requests[i]
        marked == (r = None \/ r \notin active) /\ result[i] \notin ReadyStates
    IN
    /\ MainIdle /\ mode = "run" /\ connected
    /\ revoked' = revoked \union {i}
    /\ \/ /\ terminate /\ r # None /\ r \in started
          /\ TerminateStarted(r)
          /\ UNCHANGED terminateOnAck
       \/ /\ terminate /\ r # None /\ r \notin started
          /\ terminateOnAck' = terminateOnAck \union {r}
          /\ terminated' = terminated \union ({r} \cap cache)
          /\ result' = IF marked THEN Stored(i, "REVOKED") ELSE result
          /\ UNCHANGED <<requests, active, reserved, scheduled, settleVars,
                         alreadyRevoked, signalled>>
       \/ /\ ~ terminate \/ r = None
          /\ result' = IF marked THEN Stored(i, "REVOKED") ELSE result
          /\ UNCHANGED <<requests, active, reserved, scheduled, settleVars,
                         alreadyRevoked, signalled, terminated, terminateOnAck>>
    /\ UNCHANGED <<brokerVars, successful, started, alreadyCancelled, waiting,
                   slots, cache, timers, child, crashes, envVars>>

(* Request.cancel() of the running requests R; the results of those in     *)
(* retry are set to RETRY.                                                 *)
Cancel(R, retry) ==
    /\ signalled' = signalled \union R
    /\ terminated' = terminated \union (R \cap cache)
    /\ alreadyCancelled' = alreadyCancelled \union R
    /\ result' = [i \in Tasks |->
                    IF \E r \in retry : Id(r) = i THEN Stored(i, "RETRY")[i] ELSE result[i]]

(* AsynPool.flush(): jobs that were not accepted leave the cache; one that *)
(* is in a pipe already is run by the child all the same.                  *)
Flush ==
    /\ cache' = cache \cap started
    /\ child' = [r \in Requests |-> IF child[r] = "buffered" THEN "none" ELSE child[r]]

(* The loop fails: hub.reset() and timer.clear() in asynloop(), then       *)
(* on_connection_error_after_connected(), on_close(), and a new connection.*)
Restart ==
    LET lost == IF CancelOnLoss
                THEN {r \in active : opt[Id(r)].late /\ r \notin acknowledged} ELSE {}
        kept == active \ lost
        dropped == lost \union (reserved \ active) \union (scheduled \ kept)
    IN
    /\ MainIdle /\ mode = "run" /\ ~ connected
    /\ connected' = TRUE
    /\ soon' = {}
    /\ timers' = {}
    /\ Cancel(lost, lost)
    /\ requests' = [i \in Tasks |->
                      IF \E r \in dropped : Id(r) = i THEN None ELSE requests[i]]
    /\ active' = kept
    /\ reserved' = kept
    /\ scheduled' = {}
    /\ waiting' = {}
    /\ slots' = Concurrency
    /\ Flush
    /\ UNCHANGED <<queue, held, successful, revoked, acknowledged, requeued,
                   started, alreadyRevoked, terminateOnAck, crashes, envVars>>

(* on_cold_shutdown(): stop consuming, cancel_active_requests().           *)
ColdShutdown ==
    LET R == {r \in active : \/ ~ opt[Id(r)].late
                             \/ r \notin acknowledged /\ Id(r) \notin successful}
    IN
    /\ MainIdle /\ mode = "run"
    /\ mode' = "cold"
    /\ Cancel(R, {r \in R : ~ opt[Id(r)].late})
    /\ TaskReady(R)
    /\ UNCHANGED <<brokerVars, soon, successful, revoked, acknowledged, requeued,
                   started, alreadyRevoked, terminateOnAck, waiting, slots, cache,
                   timers, child, crashes, opt, expired, count, drops>>

-----------------------------------------------------------------------------
(* The broker and the pool's children.                                     *)

Copies(i) == Cardinality({r \in held : Id(r) = i})

(* What the broker does with the unacked deliveries of a dead connection.  *)
ReturnHeld ==
    /\ queue' = [i \in Tasks |-> queue[i] + Copies(i)]
    /\ held' = {}
    /\ connected' = FALSE

ConnectionLost ==
    /\ connected /\ mode # "gone" /\ drops < MaxDrops
    /\ ReturnHeld
    /\ drops' = drops + 1
    /\ UNCHANGED <<soon, tableVars, requestVars, poolVars, childVars, result, opt,
                   expired, count, mode>>

(* The cold shutdown is over and the process exits.                        *)
Exit ==
    /\ mode = "cold"
    /\ mode' = "gone"
    /\ ReturnHeld
    /\ UNCHANGED <<soon, tableVars, requestVars, poolVars, childVars, result, opt,
                   expired, count, drops>>

(* A child takes the next job from its pipe; there are Concurrency of them.*)
ChildStart(r) ==
    /\ mode # "gone" /\ child[r] = "piped"
    /\ Cardinality({q \in Requests : child[q] = "run"}) < Concurrency
    /\ child' = [child EXCEPT ![r] = "run"]
    /\ UNCHANGED <<brokerVars, soon, tableVars, requestVars, poolVars, signalled,
                   crashes, result, envVars>>

(* The tracer stores the result, and sends the message of a retry, before  *)
(* the child reports.                                                      *)
TracedState(how) ==
    [success |-> "SUCCESS", failure |-> "FAILURE", retry |-> "RETRY"][how]

ChildEnd(r, how) ==
    /\ mode # "gone" /\ child[r] = "run"
    /\ how = "retry" => queue[Id(r)] + count[Id(r)] < MaxDeliveries
    /\ child' = [child EXCEPT ![r] = how]
    /\ queue' = IF how = "retry" THEN [queue EXCEPT ![Id(r)] = @ + 1] ELSE queue
    /\ result' = IF how \in {"success", "failure", "retry"}
                 THEN Stored(Id(r), TracedState(how)) ELSE result
    /\ UNCHANGED <<held, connected, soon, tableVars, requestVars, poolVars,
                   signalled, crashes, envVars>>

(* A child dies of the signal it was sent, or is lost (killed, segfault).  *)
ChildDies(r) ==
    /\ mode # "gone" /\ child[r] = "run"
    /\ r \in signalled \/ crashes < MaxCrashes
    /\ child' = [child EXCEPT ![r] = "dead"]
    /\ crashes' = IF r \in signalled THEN crashes ELSE crashes + 1
    /\ UNCHANGED <<brokerVars, soon, tableVars, requestVars, poolVars, signalled,
                   result, envVars>>

Expire(i) ==
    /\ opt[i].expires /\ i \notin expired
    /\ expired' = expired \union {i}
    /\ UNCHANGED <<brokerVars, soon, tableVars, requestVars, poolVars, childVars,
                   result, opt, count, drops, mode>>

Next ==
    \/ \E i \in Tasks : Deliver(i) \/ Revoke(i, FALSE) \/ Revoke(i, TRUE) \/ Expire(i)
    \/ \E r \in Requests :
          \/ ApplyEtaTask(r) \/ ProcessTask(r) \/ WriteJob(r)
          \/ OnAccepted(r) \/ OnReady(r) \/ OnProcessDown(r) \/ OnHardTimeout(r)
          \/ ChildStart(r) \/ ChildDies(r)
          \/ \E how \in Ends : ChildEnd(r, how)
    \/ \E p \in soon : CallSoon(p)
    \/ ConnectionLost \/ Restart \/ ColdShutdown \/ Exit

Spec == Init /\ [][Next]_vars

(* The event loop calls every callback that is due and reconnects; a child *)
(* that is free reads its pipe; a signal ends the child it was sent to; a  *)
(* cold shutdown is seen through.                                          *)
MainStep(r) ==
    \/ ApplyEtaTask(r) \/ ProcessTask(r) \/ WriteJob(r)
    \/ OnAccepted(r) \/ OnReady(r) \/ OnProcessDown(r)

LoopFairness ==
    /\ \A r \in Requests : /\ WF_vars(MainStep(r))
                           /\ WF_vars(ChildStart(r))
                           /\ WF_vars(r \in signalled /\ ChildDies(r))
    /\ \A p \in Requests \X Settlements : WF_vars(CallSoon(p))
    /\ WF_vars(Restart) /\ WF_vars(Exit)

LoopSpec == Spec /\ LoopFairness

(* Every task that is run comes to an end: not of the worker's making.     *)
TasksEnd == \A r \in Requests : WF_vars(\E how \in Ends : ChildEnd(r, how))

-----------------------------------------------------------------------------
(* A delivery the broker still waits for belongs to somebody: its request  *)
(* waits for its ETA or a slot, or its job is in the pool, or its          *)
(* settlement is about to be written.  Nothing is left unacked for good    *)
(* (on_failure() has four ways to return without acknowledging).           *)
NoOrphan ==
    mode = "run" =>
        held \subseteq scheduled \union waiting \union cache \union {p[1] : p \in soon}

(* With acks_late a message is settled only once its child has ended or    *)
(* the request was revoked; without, once a child has accepted the task.   *)
SettledAfterEnd ==
    \A r \in acknowledged :
        \/ r \in alreadyRevoked
        \/ child[r] \in IF opt[Id(r)].late THEN Over ELSE Begun

(* A late acknowledged task is not lost: until a request for it is acked   *)
(* or dead-lettered, after its child has ended or it was revoked, the      *)
(* broker has the message, ready or unacked, through connection losses,    *)
(* lost children, time limits, cancellation and exit.                      *)
LateAckNotLost ==
    \A i \in Tasks : opt[i].late =>
        \/ queue[i] > 0
        \/ \E r \in held : Id(r) = i
        \/ \E r \in acknowledged \ requeued :
              Id(r) = i /\ (child[r] \in Over \/ r \in alreadyRevoked)

(* What inspect() shows as reserved or active is really in the worker, and *)
(* an active request was reserved: on_close() and flush() agree on what    *)
(* they forget.                                                            *)
TablesMatchPool ==
    /\ active \subseteq reserved
    /\ reserved \subseteq waiting \union cache
    /\ active \subseteq started

(* The tables of the worker are well formed and agree with the pool, and a *)
(* message is settled at the time its task asks for: early, or after its   *)
(* end.                                                                    *)
TablesAgree == TypeOK /\ TablesMatchPool /\ SettledAfterEnd

(* No slot of the pool is lost: what the semaphore has given out is held   *)
(* by a job that will give it back.                                        *)
NoSlotLeak == slots + Cardinality(cache) >= Concurrency

(* A revoke stops the request where it finds it.  One that was announced   *)
(* as revoked (its message acknowledged, its result REVOKED) is in no      *)
(* table, waits for no slot and is not on its way to a child, and if its   *)
(* child runs, that child was signalled.  A terminate that came while the  *)
(* job was in a buffer or a pipe, with no process to signal, is made up    *)
(* for as soon as the child accepts it (Request.on_accepted).              *)
RevokedStops ==
    /\ \A r \in alreadyRevoked :
          /\ r \notin reserved \union active \union scheduled \union waiting
          /\ child[r] \notin {"buffered", "piped"}
          /\ child[r] = "run" => r \in signalled
    /\ terminateOnAck \cap started \subseteq alreadyRevoked

(* If tasks end, no delivery stays unacked for ever: it is acked, rejected *)
(* or, with its connection, given back.                                    *)
DeliveriesSettle ==
    TasksEnd => \A r \in Requests : r \in held ~> r \notin held

(* A terminate request has its effect wherever it meets the request, even  *)
(* if the task would never end by itself: the job is dropped before it is  *)
(* run, or its child ends.  (A lost connection forgets the terminate of a  *)
(* job that was not accepted.)                                             *)
TerminateTakesEffect ==
    \A r \in Requests :
        r \in terminateOnAck \union signalled
            ~> [](\/ child[r] \notin {"buffered", "piped", "run"}
                 \/ mode = "gone" \/ drops > 0)

-----------------------------------------------------------------------------
(* What comments and documentation say of this code.                       *)

(* "a task invocation that already started is never executed again" (the   *)
(* user guide, of tasks acknowledged before they are executed).            *)
StartedNotExecutedAgain ==
    \A i \in Tasks : ~ opt[i].late =>
        Cardinality({r \in Requests : Id(r) = i /\ child[r] \in Begun}) <= 1

(* "Mapping of reserved task_id->Request": what is reserved is found by    *)
(* its id.                                                                 *)
ReservedFoundById == \A r \in reserved : requests[Id(r)] = r

(* "All hub timers are re-registered": a running job keeps its time limit. *)
TimeLimitArmed ==
    \A r \in cache \cap started : opt[Id(r)].limit => r \in timers

(* "only mark as failure if task has not been requeued"                    *)
RequeuedNotFailed ==
    [][\A p \in soon' \ soon :
          p[2] = "requeue" /\ result[Id(p[1])] # "FAILURE"
              => result'[Id(p[1])] # "FAILURE"]_vars
=============================================================================
