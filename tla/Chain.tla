------------------------------- MODULE Chain -------------------------------
(***************************************************************************)
(* The execution of a chain of late acknowledged tasks: trace_task() of    *)
(* app/trace.py with Task.retry(), Task.replace(), the mark_as_* methods   *)
(* of the result backend and the errbacks.  The last step may be a part of *)
(* a chord.                                                                *)
(*                                                                         *)
(* Each message the broker holds or a worker executes is an entry of runs. *)
(* A message whose worker process is lost is delivered again, marked as    *)
(* redelivered; worker_deduplicate_successful_tasks lets the tracer skip a *)
(* redelivered task that has succeeded.  The backend keeps SUCCESS against *)
(* later updates (the race in it is the subject of ChordCounter).          *)
(***************************************************************************)
EXTENDS Integers, Sequences

CONSTANTS
    Steps,         \* the length of the chain
    Dedup,         \* worker_deduplicate_successful_tasks
    Trail,         \* Task.trail: published tasks become stored children
    MaxRetries,    \* Task.max_retries
    MaxReplaced,   \* bound on the tasks that replace themselves
    MaxCrashes,    \* bound on the worker processes lost
    MaxFaults      \* bound on publishes, stores and handlers that raise,
                   \* and on Reject(requeue=True) by the task

ASSUME ChainAssumption ==
    /\ Steps \in Nat \ {0}
    /\ {MaxRetries, MaxReplaced, MaxCrashes, MaxFaults} \subseteq Nat
    /\ Dedup \in BOOLEAN /\ Trail \in BOOLEAN

Step == 1..Steps
States == {"PENDING", "STARTED", "RETRY", "FAILURE", "SUCCESS"}
Labels == {"queued", "start", "redispatch", "body", "retry", "markretry", "dispatch",
           "store", "chord", "post", "fail", "failchord", "errbacks", "done", "settled"}

VARIABLES
    runs,          \* the messages: step, retries, redelivered, pc, at
    result,        \* the state stored for each step
    children,      \* steps whose stored result names the next one
    returned,      \* steps whose body has returned (history)
    reported,      \* states on_chord_part_return() got for the last step
    dropped,       \* a task was ignored, or rejected for good
    overtaken,     \* a RETRY was stored after the failure of the retried task (history)
    notified,      \* the errbacks were called (history)
    replaced,      \* how often a task has replaced itself
    crashes, faults

storeVars == <<result, children>>
countVars == <<notified, replaced, crashes>>
vars == <<runs, storeVars, returned, reported, dropped, overtaken, countVars, faults>>

Message(s, n) ==
    [step |-> s, retries |-> n, redelivered |-> FALSE, pc |-> "queued", at |-> s]

Run == [step : Step, retries : 0..MaxRetries, redelivered : BOOLEAN,
        pc : Labels, at : 1..Steps + 1]

TypeOK ==
    /\ runs \in Seq(Run)
    /\ result \in [Step -> States]
    /\ children \subseteq Step /\ returned \subseteq Step
    /\ reported \subseteq {"SUCCESS", "FAILURE"} /\ dropped \in BOOLEAN /\ overtaken \in BOOLEAN
    /\ notified \in BOOLEAN /\ replaced \in 0..MaxReplaced
    /\ crashes \in 0..MaxCrashes /\ faults \in 0..MaxFaults

Init ==
    /\ runs = <<Message(1, 0)>>
    /\ result = [s \in Step |-> "PENDING"]
    /\ children = {} /\ returned = {} /\ reported = {} /\ dropped = FALSE /\ overtaken = FALSE
    /\ notified = FALSE /\ replaced = 0 /\ crashes = 0 /\ faults = 0

Goto(i, label) == [runs EXCEPT ![i].pc = label]

Fault == faults < MaxFaults /\ faults' = faults + 1

(* store_result(): SUCCESS is kept.                                        *)
Store(s, state) == [result EXCEPT ![s] = IF @ = "SUCCESS" THEN @ ELSE state]

Receive(i) ==
    /\ runs[i].pc = "queued"
    /\ runs' = Goto(i, "start")
    /\ UNCHANGED <<overtaken, storeVars, returned, reported, dropped, countVars, faults>>

(* Is the message a duplicate of a task that has succeeded?  A worker that *)
(* has it in successful_requests does not ask the backend, and a worker    *)
(* that cannot read the state executes the task.                           *)
Start(i) ==
    LET s == runs[i].step
        duplicate == Dedup /\ runs[i].redelivered /\ result[s] = "SUCCESS"
    IN
    /\ runs[i].pc = "start"
    /\ \/ /\ ~ duplicate
          /\ runs' = Goto(i, "body") /\ result' = Store(s, "STARTED")
          /\ UNCHANGED faults
       \/ /\ duplicate
          /\ runs' = Goto(i, IF s < Steps /\ s \notin children
                             THEN "redispatch" ELSE "done")
          /\ UNCHANGED <<result, faults>>
       \/ /\ duplicate /\ Fault
          /\ runs' = Goto(i, "body") /\ UNCHANGED result
    /\ UNCHANGED <<overtaken, children, returned, reported, dropped, countVars>>

(* The stored result has no children: the next step is published again.    *)
(* If that raises, the message is rejected and requeued.                   *)
Redispatch(i) ==
    LET s == runs[i].step IN
    /\ runs[i].pc = "redispatch"
    /\ \/ runs' = Append(Goto(i, "done"), Message(s + 1, 0)) /\ UNCHANGED faults
       \/ Fault /\ runs' = Goto(i, "queued")
    /\ UNCHANGED <<overtaken, storeVars, returned, reported, dropped, countVars>>

(* Mutant: a task that raises is followed as well.                         *)
BodyFollowed(i) ==
    LET s == runs[i].step IN
    /\ runs[i].pc = "body"
    /\ runs' = Goto(i, "dispatch") /\ returned' \in {returned, returned \union {s}}
    /\ UNCHANGED <<overtaken, storeVars, dropped, reported, countVars, faults>>

(* The task returns, raises, asks for a retry or is ignored or rejected.   *)
Body(i) ==
    LET s == runs[i].step IN
    /\ runs[i].pc = "body"
    /\ \/ /\ runs' = Goto(i, "dispatch") /\ returned' = returned \union {s}
          /\ UNCHANGED <<dropped, faults>>
       \/ /\ runs' = Goto(i, "fail") /\ UNCHANGED <<returned, dropped, faults>>
       \/ /\ runs[i].retries < MaxRetries
          /\ runs' = Goto(i, "retry") /\ UNCHANGED <<returned, dropped, faults>>
       \/ /\ runs' = Goto(i, "done") /\ dropped' = TRUE
          /\ UNCHANGED <<returned, faults>>
       \/ Fault /\ runs' = Goto(i, "queued") /\ UNCHANGED <<returned, dropped>>
    /\ UNCHANGED <<overtaken, storeVars, reported, countVars>>

(* Task.retry() publishes the task again; if that raises the message is    *)
(* rejected.                                                               *)
Retry(i) ==
    /\ runs[i].pc = "retry"
    /\ \/ /\ runs' = Append(Goto(i, "markretry"), Message(runs[i].step, runs[i].retries + 1))
          /\ UNCHANGED <<dropped, faults>>
       \/ Fault /\ runs' = Goto(i, "done") /\ dropped' = TRUE
    /\ UNCHANGED <<storeVars, returned, reported, overtaken, countVars>>

(* Only then the tracer stores RETRY, whatever the retried task has stored *)
(* meanwhile, but for SUCCESS.                                             *)
MarkRetry(i) ==
    LET s == runs[i].step IN
    /\ runs[i].pc = "markretry"
    /\ runs' = Goto(i, "done") /\ result' = Store(s, "RETRY")
    /\ overtaken' = (overtaken \/ result[s] = "FAILURE")
    /\ UNCHANGED <<children, returned, reported, dropped, countVars, faults>>

(* Task.replace(): another task with the id, the retained chain, chord and *)
(* errbacks of this one is published, and this one is ignored.  A publish  *)
(* that raises fails the task, and may have reached the broker.            *)
Replace(i) ==
    LET s == runs[i].step IN
    /\ runs[i].pc = "body" /\ replaced < MaxReplaced
    /\ replaced' = replaced + 1
    /\ \/ runs' = Append(Goto(i, "done"), Message(s, 0)) /\ UNCHANGED faults
       \/ Fault /\ runs' = Append(Goto(i, "fail"), Message(s, 0))
       \/ Fault /\ runs' = Goto(i, "fail")
    /\ UNCHANGED <<overtaken, storeVars, returned, reported, dropped, notified, crashes>>

(* Mutant: an exception of the publish is swallowed.                       *)
DispatchSwallows(i) ==
    LET s == runs[i].step IN
    /\ runs[i].pc = "dispatch"
    /\ \/ /\ s < Steps /\ runs' = Append(Goto(i, "store"), Message(s + 1, 0))
          /\ UNCHANGED faults
       \/ Fault /\ runs' = Goto(i, "store")
    /\ UNCHANGED <<overtaken, storeVars, returned, reported, dropped, countVars>>

(* The next step is published before the result is stored.  A publish that *)
(* raises may have reached the broker all the same.                        *)
Dispatch(i) ==
    LET s == runs[i].step
        publish(r) == IF s < Steps THEN Append(r, Message(s + 1, 0)) ELSE r
    IN
    /\ runs[i].pc = "dispatch"
    /\ \/ runs' = publish(Goto(i, "store")) /\ UNCHANGED faults
       \/ Fault /\ runs' \in {Goto(i, "fail"), publish(Goto(i, "fail"))}
    /\ UNCHANGED <<overtaken, storeVars, returned, reported, dropped, countVars>>

(* mark_as_done(): store_result(), which may raise EncodeError.            *)
StoreDone(i) ==
    LET s == runs[i].step IN
    /\ runs[i].pc = "store"
    /\ \/ /\ runs' = Goto(i, "chord")
          /\ result' = Store(s, "SUCCESS")
          /\ children' = IF Trail /\ s < Steps THEN children \union {s} ELSE children
          /\ UNCHANGED faults
       \/ Fault /\ runs' = Goto(i, "fail") /\ UNCHANGED storeVars
    /\ UNCHANGED <<overtaken, returned, reported, dropped, countVars>>

(* mark_as_done(): the last step reports to its chord.                     *)
ChordDone(i) ==
    /\ runs[i].pc = "chord"
    /\ runs' = Goto(i, "post")
    /\ reported' = IF runs[i].step = Steps THEN reported \union {"SUCCESS"} ELSE reported
    /\ UNCHANGED <<overtaken, storeVars, returned, dropped, countVars, faults>>

(* on_success(), after_return() and the signals: an exception is handled   *)
(* as a failure of the task.                                               *)
Post(i) ==
    /\ runs[i].pc = "post"
    /\ \/ runs' = Goto(i, "done") /\ UNCHANGED faults
       \/ Fault /\ runs' = Goto(i, "fail")
    /\ UNCHANGED <<overtaken, storeVars, returned, reported, dropped, countVars>>

(* Mutant: the failure is stored for the step alone.                       *)
FailSelf(i) ==
    /\ runs[i].pc = "fail"
    /\ result' = Store(runs[i].step, "FAILURE")
    /\ runs' = Goto(i, "done")
    /\ UNCHANGED <<overtaken, children, returned, reported, dropped, countVars, faults>>

(* Mutant: a redelivered task that fails again is not reported.            *)
FailOnce(i) ==
    LET k == runs[i].at IN
    /\ runs[i].pc = "fail"
    /\ result' = Store(k, "FAILURE")
    /\ runs' = [runs EXCEPT ![i].at = k + 1,
                            ![i].pc = IF runs[i].redelivered /\ result[k] = "FAILURE" THEN "done"
                                      ELSE IF k = Steps THEN "failchord" ELSE @]
    /\ UNCHANGED <<overtaken, children, returned, reported, dropped, countVars, faults>>

(* mark_as_failure(): the failure is stored for the step and, one after    *)
(* the other, for the rest of the chain.                                   *)
Fail(i) ==
    LET k == runs[i].at IN
    /\ runs[i].pc = "fail"
    /\ result' = Store(k, "FAILURE")
    /\ runs' = [runs EXCEPT ![i].at = k + 1,
                            ![i].pc = IF k = Steps THEN "failchord" ELSE @]
    /\ UNCHANGED <<overtaken, children, returned, reported, dropped, countVars, faults>>

FailChord(i) ==
    /\ runs[i].pc = "failchord"
    /\ reported' = reported \union {"FAILURE"}
    /\ runs' = Goto(i, "errbacks")
    /\ UNCHANGED <<overtaken, storeVars, returned, dropped, countVars, faults>>

(* _call_task_errbacks(): what an errback raises that is called here is    *)
(* logged; those sent as tasks are one publish, and if that raises nothing *)
(* tries again.                                                            *)
Errbacks(i) ==
    /\ runs[i].pc = "errbacks"
    /\ runs' = Goto(i, "done")
    /\ \/ notified' = TRUE /\ UNCHANGED faults
       \/ Fault /\ UNCHANGED notified
    /\ UNCHANGED <<overtaken, storeVars, returned, reported, dropped, replaced, crashes>>

Ack(i) ==
    /\ runs[i].pc = "done"
    /\ runs' = Goto(i, "settled")
    /\ UNCHANGED <<overtaken, storeVars, returned, reported, dropped, countVars, faults>>

(* The process is lost before the message is acknowledged.                 *)
Crash(i) ==
    /\ runs[i].pc \notin {"queued", "settled"} /\ crashes < MaxCrashes
    /\ crashes' = crashes + 1
    /\ runs' = [runs EXCEPT ![i].pc = "queued", ![i].at = runs[i].step,
                            ![i].redelivered = TRUE]
    /\ UNCHANGED <<overtaken, storeVars, returned, reported, dropped, notified, replaced, faults>>

Trace(i) ==
    \/ Receive(i) \/ Start(i) \/ Redispatch(i) \/ Body(i) \/ Retry(i) \/ MarkRetry(i)
    \/ Replace(i) \/ Dispatch(i) \/ StoreDone(i) \/ ChordDone(i) \/ Post(i)
    \/ Fail(i) \/ FailChord(i) \/ Errbacks(i) \/ Ack(i)

Next == \E i \in DOMAIN runs : Trace(i) \/ Crash(i)

Spec == Init /\ [][Next]_vars

(* A worker takes a message that is there and sees it through: runs is     *)
(* finite, and every message in it makes progress.                         *)
FairSpec == Spec /\ WF_vars(\E i \in DOMAIN runs : Trace(i))

-----------------------------------------------------------------------------
(* A step is executed only if the task before it has returned, however     *)
(* often either was delivered or retried.                                  *)
StepAfterReturn ==
    \A i \in DOMAIN runs : runs[i].step > 1 => runs[i].step - 1 \in returned

(* The stored result of a step is SUCCESS only if its task has returned,   *)
(* and then the message of the next step has been published.               *)
SuccessIsPassedOn ==
    \A s \in Step : result[s] = "SUCCESS" =>
        /\ s \in returned
        /\ s < Steps => \E i \in DOMAIN runs : runs[i].step = s + 1

(* Nobody waits for ever for a chain: unless a task was ignored or         *)
(* rejected, its last step has a result in the end, though processes are   *)
(* lost, publishes and stores raise and tasks are retried.  One case is    *)
(* excepted: the retried task failed before RETRY was stored for the first *)
(* try (RetryIsFirst), so that RETRY is what stays.                        *)
Settled ==
    \/ dropped \/ result[Steps] \in {"SUCCESS", "FAILURE"}
    \/ overtaken /\ result[Steps] = "RETRY"

(* No RETRY takes the place of the failure of the task that was retried.   *)
RetryIsFirst == ~ overtaken

(* So does a chord that the chain is a part of, if no call raises.  With   *)
(* deduplication it may wait for ever once a worker is lost: the           *)
(* redelivered task is skipped without a report.                           *)
PartReported ==
    dropped \/ reported # {} \/ faults > 0 \/ (Dedup /\ crashes > 0)

(* If the chain has failed its errbacks are called, though the worker may  *)
(* be lost after the failure was stored and before it called them, and     *)
(* though RETRY may have taken the place of the failure.                   *)
ErrbacksCalled ==
    dropped \/ result[Steps] \notin {"FAILURE", "RETRY"} \/ notified \/ faults > 0
=============================================================================
