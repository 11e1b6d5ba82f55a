----------------------------- MODULE ChordUnlock -----------------------------
(***************************************************************************)
(* A chord on a backend that cannot count: apply_chord() sends the task    *)
(* celery.chord_unlock (app/builtins.py), which looks whether the header   *)
(* is ready and sends itself again if it is not.                           *)
(*                                                                         *)
(* If the chord fails its body must not wait for ever: the error is stored *)
(* for it, and for a body that is a group for each of its tasks, which are *)
(* then revoked.  Each call of the backend or the broker is one step.      *)
(***************************************************************************)
EXTENDS Naturals, FiniteSets

CONSTANTS
    Parts,         \* the tasks of the header
    Members,       \* the tasks of a body that is a group
    Workers,       \* processes that may execute chord_unlock
    MaxAgain,      \* bound on the failed parts that are executed once more
    MaxCrashes,    \* bound on the workers lost
    MaxFaults      \* bound on the calls of the backend or the broker that raise

VARIABLES
    late,          \* chord_unlock is acknowledged when it has returned
    grouped,       \* the body is a group
    native,        \* deps.supports_native_join
    result,        \* the stored state of each part
    queue,         \* how many messages of chord_unlock are there
    pc,            \* worker -> where its execution is
    cached,        \* worker -> part -> the state its AsyncResult keeps
    todo,          \* worker -> members whose error is not stored yet
    state,         \* the stored state of the tasks of the body
    order,         \* member -> what the revoke has come to
    calls, errors, \* history: how often the body was applied, or its failure begun
    succeeded,     \* history: parts of which some execution has succeeded
    again, crashes, faults

setup == <<late, grouped, native>>
unlockVars == <<queue, pc, cached, todo>>
bodyVars == <<state, order, calls, errors>>
partVars == <<result, succeeded, again>>
vars == <<setup, partVars, unlockVars, bodyVars, crashes, faults>>

Ready == {"SUCCESS", "FAILURE", "REVOKED"}
Unread == [p \in Parts |-> "PENDING"]
Body == IF grouped THEN Members ELSE {CHOOSE m \in Members : TRUE}

TypeOK ==
    /\ result \in [Parts -> {"PENDING", "SUCCESS", "FAILURE"}]
    /\ queue \in Nat
    /\ pc \in [Workers -> {"idle", "ready", "retry", "join", "call", "error", "group",
                           "revoke", "fallback", "ack"}]
    /\ cached \in [Workers -> [Parts -> {"PENDING", "SUCCESS", "FAILURE"}]]
    /\ todo \in [Workers -> SUBSET Members]
    /\ state \in [Members -> {"PENDING", "FAILURE", "REVOKED"}]
    /\ order \in [Members -> {"none", "sent", "write", "done"}]
    /\ faults \in 0..MaxFaults /\ crashes \in 0..MaxCrashes

\* apply_chord, fallback_chord_unlock: the message goes out before the header
Init ==
    /\ late \in BOOLEAN /\ grouped \in BOOLEAN /\ native \in BOOLEAN
    /\ result = Unread /\ succeeded = {} /\ again = 0
    /\ queue = 1 /\ pc = [w \in Workers |-> "idle"]
    /\ cached = [w \in Workers |-> Unread] /\ todo = [w \in Workers |-> {}]
    /\ state = [m \in Members |-> "PENDING"] /\ order = [m \in Members |-> "none"]
    /\ calls = 0 /\ errors = 0 /\ crashes = 0 /\ faults = 0

Goto(w, label) == pc' = [pc EXCEPT ![w] = label]
Raise == faults < MaxFaults /\ faults' = faults + 1

\* a part ends; a failed one may be delivered again and end differently
Finish(p, s) ==
    /\ \/ result[p] = "PENDING" /\ UNCHANGED again
       \/ result[p] = "FAILURE" /\ again < MaxAgain /\ again' = again + 1
    /\ result' = [result EXCEPT ![p] = s]
    /\ succeeded' = IF s = "SUCCESS" THEN succeeded \cup {p} ELSE succeeded
    /\ UNCHANGED <<setup, unlockVars, bodyVars, crashes, faults>>

Deliver(w) ==
    /\ pc[w] = "idle" /\ queue > 0
    /\ queue' = queue - 1
    /\ cached' = [cached EXCEPT ![w] = Unread]
    /\ Goto(w, "ready")
    /\ UNCHANGED <<setup, partVars, todo, bodyVars, crashes, faults>>

\* deps.ready(): one part after the other, up to the first that is not ready
IsReady(w) ==
    /\ pc[w] = "ready"
    /\ \/ \E p \in Parts :
            LET read == [cached[w] EXCEPT ![p] = result[p]] IN
            /\ cached[w][p] = "PENDING"
            /\ \/ result[p] = "PENDING" /\ Goto(w, "retry")
               \/ /\ result[p] # "PENDING"
                  /\ Goto(w, IF \A q \in Parts : read[q] \in Ready THEN "join" ELSE "ready")
            /\ cached' = [cached EXCEPT ![w] = read]
            /\ UNCHANGED faults
       \/ Raise /\ Goto(w, "retry") /\ UNCHANGED cached
    /\ UNCHANGED <<setup, partVars, queue, todo, bodyVars, crashes>>

\* Mutant of Retry: the exception is raised, the message is not sent.
RetryUnsent(w) ==
    /\ pc[w] = "retry"
    /\ Goto(w, "ack")
    /\ UNCHANGED <<setup, partVars, queue, cached, todo, bodyVars, crashes, faults>>

\* self.retry(countdown=interval, max_retries=None) sends the message once more
Retry(w) ==
    /\ pc[w] = "retry"
    /\ queue' = queue + 1
    /\ Goto(w, "ack")
    /\ UNCHANGED <<setup, partVars, cached, todo, bodyVars, crashes, faults>>

(* join() goes by what the results have cached, join_native() reads them   *)
(* again; a part that has failed makes it raise.                           *)
Join(w) ==
    LET values == IF native THEN result ELSE cached[w]
        good == \A p \in Parts : values[p] = "SUCCESS" IN
    /\ pc[w] = "join"
    /\ Goto(w, IF good THEN "call" ELSE "error")
    /\ todo' = [todo EXCEPT ![w] = IF good THEN {} ELSE Body]
    /\ errors' = IF good THEN errors ELSE errors + 1
    /\ UNCHANGED <<setup, partVars, queue, cached, state, order, calls, crashes, faults>>

\* callback.delay(), which may raise before anything is published
Call(w) ==
    /\ pc[w] = "call"
    /\ \/ calls' = calls + 1 /\ Goto(w, "ack") /\ UNCHANGED <<todo, errors, faults>>
       \/ /\ Raise /\ Goto(w, "error")
          /\ todo' = [todo EXCEPT ![w] = Body]
          /\ errors' = errors + 1 /\ UNCHANGED calls
    /\ UNCHANGED <<setup, partVars, queue, cached, state, order, crashes>>

-----------------------------------------------------------------------------
(* chord_error_from_stack: the errbacks are called and the failure is      *)
(* stored.  An error of the store ends chord_unlock, unless the body is a  *)
(* group: then it is logged and the other tasks follow.                    *)
FailTask(w, m) ==
    LET left == todo[w] \ {m} IN
    /\ pc[w] = "error" /\ m \in todo[w]
    /\ \/ state' = [state EXCEPT ![m] = "FAILURE"] /\ UNCHANGED faults
       \/ Raise /\ UNCHANGED state
    /\ todo' = [todo EXCEPT ![w] = left]
    /\ Goto(w, IF left # {} THEN "error" ELSE IF grouped THEN "group" ELSE "ack")
    /\ UNCHANGED <<setup, partVars, queue, cached, order, calls, errors, crashes>>

\* _handle_group_chord_error: the failure of the group itself
FailGroup(w) ==
    /\ pc[w] = "group"
    /\ \/ Goto(w, "revoke") /\ UNCHANGED faults
       \/ Raise /\ Goto(w, "fallback")
    /\ UNCHANGED <<setup, partVars, queue, cached, todo, bodyVars, crashes>>

\* frozen_group.revoke() tells the workers of all its tasks
RevokeGroup(w) ==
    /\ pc[w] = "revoke"
    /\ \/ /\ order' = [m \in Members |-> IF order[m] = "write" THEN "write" ELSE "sent"]
          /\ Goto(w, "ack") /\ UNCHANGED faults
       \/ Raise /\ Goto(w, "fallback") /\ UNCHANGED order
    /\ UNCHANGED <<setup, partVars, queue, cached, todo, state, calls, errors, crashes>>

\* the failure is stored for the id of the group alone
Fallback(w) ==
    /\ pc[w] = "fallback"
    /\ Goto(w, "ack")
    /\ UNCHANGED <<setup, partVars, queue, cached, todo, bodyVars, crashes, faults>>

\* Mutant of ReadState: the state is not looked at.
ReadStateNever(m) ==
    /\ order[m] = "sent"
    /\ order' = [order EXCEPT ![m] = "write"]
    /\ UNCHANGED <<setup, partVars, unlockVars, state, calls, errors, crashes, faults>>

\* a worker handles the revoke: a task that has a result keeps it
ReadState(m) ==
    /\ order[m] = "sent"
    /\ order' = [order EXCEPT ![m] = IF state[m] \in Ready THEN "done" ELSE "write"]
    /\ UNCHANGED <<setup, partVars, unlockVars, state, calls, errors, crashes, faults>>

MarkAsRevoked(m) ==
    /\ order[m] = "write"
    /\ state' = [state EXCEPT ![m] = "REVOKED"]
    /\ order' = [order EXCEPT ![m] = "done"]
    /\ UNCHANGED <<setup, partVars, unlockVars, calls, errors, crashes, faults>>

-----------------------------------------------------------------------------
Ack(w) ==
    /\ pc[w] = "ack"
    /\ Goto(w, "idle")
    /\ cached' = [cached EXCEPT ![w] = Unread]
    /\ UNCHANGED <<setup, partVars, queue, todo, bodyVars, crashes, faults>>

\* only a message that is acknowledged late comes again
Crash(w) ==
    /\ pc[w] # "idle" /\ crashes < MaxCrashes
    /\ crashes' = crashes + 1
    /\ queue' = IF late THEN queue + 1 ELSE queue
    /\ cached' = [cached EXCEPT ![w] = Unread]
    /\ todo' = [todo EXCEPT ![w] = {}]
    /\ Goto(w, "idle")
    /\ UNCHANGED <<setup, partVars, bodyVars, faults>>

Step(w) ==
    \/ IsReady(w) \/ Retry(w) \/ Join(w) \/ Call(w) \/ FailGroup(w) \/ RevokeGroup(w)
    \/ Fallback(w) \/ Ack(w)
    \/ \E m \in Members : FailTask(w, m)

Handle(m) == ReadState(m) \/ MarkAsRevoked(m)
Ends(p) == Finish(p, "SUCCESS") \/ Finish(p, "FAILURE")

Next ==
    \/ \E p \in Parts : Ends(p)
    \/ \E w \in Workers : Deliver(w) \/ Step(w) \/ Crash(w)
    \/ \E m \in Members : Handle(m)

Spec == Init /\ [][Next]_vars

-----------------------------------------------------------------------------
(* "A chord is a task that only executes after all of the tasks in a group *)
(* have finished executing": with the polling task too the body is applied *)
(* only if every part has succeeded, whatever is executed again.           *)
BodyAfterAll == calls > 0 => succeeded = Parts

(* One answer: the body is applied or its failure stored, once, if         *)
(* chord_unlock is not delivered twice.                                    *)
AnsweredOnce == ~ late \/ crashes = 0 => calls + errors =< 1

(* "Store the failures before broadcasting the revoke, so the revoke       *)
(* handler finds them and keeps them" (backends/base.py:459).              *)
FailureKept == \A m \in Members : state[m] = "FAILURE" => state'[m] = "FAILURE"

(* How the variables of Chord are seen.                                    *)
Finished == [p \in Parts |-> IF result[p] = "PENDING" THEN "no" ELSE result[p]]
Applied == IF calls > 0 THEN "called" ELSE IF errors > 0 THEN "failed" ELSE "waiting"

(* Somebody who waits for the chord gets an answer, though chord_unlock    *)
(* has to be sent again and again; and if it fails, "group body tasks"     *)
(* do not hang "indefinitely" (backends/base.py:443), although one of the  *)
(* calls raises: what could not be stored is revoked.                      *)
ChordCompletes == <>(calls + errors > 0)
NobodyHangs ==
    errors > 0 /\ grouped ~> calls > 0 \/ \A m \in Members : state[m] \in Ready
=============================================================================
