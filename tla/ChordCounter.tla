---------------------------- MODULE ChordCounter ----------------------------
(***************************************************************************)
(* A chord on a key-value result backend that can increment a counter      *)
(* (backends/base.py): the header's GroupResult is saved before the header *)
(* is sent; every task of the header stores its result, increments the     *)
(* chord's counter, and the one that brings it to the size of the chord    *)
(* joins the results and applies the body.                                 *)
(*                                                                         *)
(* A run <<p, n>> is the n-th execution of part p: a worker executes a     *)
(* redelivered message again.  Each call of the backend is one step.       *)
(*                                                                         *)
(* GCSBackend (backends/gcs.py) counts first, and restores the GroupResult *)
(* only in the run that completes the chord.                               *)
(***************************************************************************)
EXTENDS Integers, FiniteSets

CONSTANTS
    Parts,         \* the tasks of the header
    MaxRuns,       \* bound on the executions of one part
    Duplicates,    \* a part may be redelivered though no run was lost
    MaxCrashes,    \* bound on the workers lost in the middle of a run
    MaxFaults,     \* bound on the callback.delay() that raise
    MaxLostReplies \* bound on the incr() that count and raise

ASSUME ChordAssumption ==
    /\ {MaxRuns, MaxCrashes, MaxFaults, MaxLostReplies} \subseteq Nat
    /\ IsFiniteSet(Parts) /\ Parts # {}
    /\ Duplicates \in BOOLEAN

Runs == Parts \X (1..MaxRuns)
Part(r) == r[1]

VARIABLES
    firestore,     \* the backend is GCSBackend, which counts in Firestore
    result,        \* the stored state of each part
    saved,         \* the GroupResult is in the backend
    counter,       \* the chord's key
    pc,            \* where each run is
    outcome,       \* the state it reports
    seen,          \* the state _store_result() has read
    calls,         \* how often the body was applied
    errors,        \* how often chord_error_from_stack() was called
    succeeded,     \* parts of which some run has stored SUCCESS (history)
    crashes, faults, lost

backendVars == <<result, saved, counter, succeeded>>
bodyVars == <<calls, errors>>
faultVars == <<crashes, faults, lost>>
vars == <<firestore, backendVars, pc, outcome, seen, bodyVars, faultVars>>

Labels == {"none", "run", "store", "restore", "incr", "count", "deps", "join", "call",
           "delgroup", "delkey", "done", "acked", "crashed"}
Stored == {"PENDING", "SUCCESS", "FAILURE"}

TypeOK ==
    /\ firestore \in BOOLEAN
    /\ result \in [Parts -> Stored]
    /\ saved \in BOOLEAN /\ counter \in Nat
    /\ pc \in [Runs -> Labels]
    /\ outcome \in [Runs -> Stored] /\ seen \in [Runs -> Stored]
    /\ calls \in Nat /\ errors \in Nat
    /\ succeeded \subseteq Parts
    /\ crashes \in Nat /\ faults \in Nat /\ lost \in Nat

Init ==
    /\ firestore \in BOOLEAN
    /\ result = [p \in Parts |-> "PENDING"]
    /\ saved = TRUE /\ counter = 0
    /\ pc = [r \in Runs |-> "none"]
    /\ outcome = [r \in Runs |-> "PENDING"] /\ seen = [r \in Runs |-> "PENDING"]
    /\ calls = 0 /\ errors = 0
    /\ succeeded = {}
    /\ crashes = 0 /\ faults = 0 /\ lost = 0

Size == Cardinality(Parts)

\* a run goes on; the backend stays what it is
Goto(r, label) == pc' = [pc EXCEPT ![r] = label] /\ UNCHANGED firestore

(* A worker receives the message of a part: for the first time, after the  *)
(* worker that had it was lost, or once more.                              *)
Begin(r) ==
    LET before == <<Part(r), r[2] - 1>> IN
    /\ pc[r] = "none"
    /\ \/ r[2] = 1
       \/ r[2] > 1 /\ pc[before] = "crashed"
       \/ r[2] > 1 /\ Duplicates /\ pc[before] # "none"
    /\ Goto(r, "run")
    /\ UNCHANGED <<backendVars, outcome, seen, bodyVars, faultVars>>

(* mark_as_done() or mark_as_failure(): _store_result() reads the state.   *)
ReadMeta(r, state) ==
    /\ pc[r] = "run"
    /\ outcome[r] # "PENDING" => state = outcome[r]
    /\ outcome' = [outcome EXCEPT ![r] = state]
    /\ seen' = [seen EXCEPT ![r] = result[Part(r)]]
    /\ Goto(r, "store")
    /\ UNCHANGED <<backendVars, bodyVars, faultVars>>

(* _store_result() writes, unless it has read SUCCESS.                     *)
StoreMeta(r) ==
    LET written == IF seen[r] = "SUCCESS" THEN result[Part(r)] ELSE outcome[r] IN
    /\ pc[r] = "store"
    /\ result' = [result EXCEPT ![Part(r)] = written]
    /\ succeeded' = IF written = "SUCCESS" THEN succeeded \union {Part(r)} ELSE succeeded
    /\ Goto(r, IF firestore THEN "count" ELSE "restore")
    /\ UNCHANGED <<saved, counter, outcome, seen, bodyVars, faultVars>>

(* on_chord_part_return(): GroupResult.restore().                          *)
RestoreGroup(r) ==
    /\ pc[r] = "restore"
    /\ \/ saved /\ Goto(r, "incr") /\ UNCHANGED errors
       \/ ~ saved /\ Goto(r, "done") /\ errors' = errors + 1
    /\ UNCHANGED <<backendVars, outcome, seen, calls, faultVars>>

(* Mutants: the size is off by one; or not compared exactly.               *)
IncrEarly(r) ==
    /\ pc[r] = "incr"
    /\ counter' = counter + 1
    /\ Goto(r, IF counter' = Size - 1 THEN "join" ELSE "done")
    /\ UNCHANGED <<result, saved, succeeded, outcome, seen, bodyVars, faultVars>>

IncrAtLeast(r) ==
    /\ pc[r] = "incr"
    /\ counter' = counter + 1
    /\ Goto(r, IF counter' >= Size THEN "join" ELSE "done")
    /\ UNCHANGED <<result, saved, succeeded, outcome, seen, bodyVars, faultVars>>

(* The counter is incremented; the run that brings it to the size goes on. *)
Incr(r) ==
    /\ pc[r] = "incr"
    /\ counter' = counter + 1
    /\ Goto(r, IF counter' = Size THEN "join" ELSE "done")
    /\ UNCHANGED <<result, saved, succeeded, outcome, seen, bodyVars, faultVars>>

(* GCSBackend.on_chord_part_return(): the counter first, compared with the *)
(* size the body was sent with.                                            *)
CountFirst(r) ==
    /\ pc[r] = "count"
    /\ counter' = counter + 1
    /\ Goto(r, IF counter' = Size THEN "deps" ELSE "done")
    /\ UNCHANGED <<result, saved, succeeded, outcome, seen, bodyVars, faultVars>>

(* GCSBackend._restore_deps().                                             *)
RestoreDeps(r) ==
    /\ pc[r] = "deps"
    /\ \/ saved /\ Goto(r, "join") /\ UNCHANGED errors
       \/ ~ saved /\ Goto(r, "done") /\ errors' = errors + 1
    /\ UNCHANGED <<backendVars, outcome, seen, calls, faultVars>>

(* Mutant: the results are joined with propagate=False.                    *)
JoinAny(r) ==
    /\ pc[r] = "join"
    /\ \A p \in Parts : result[p] # "PENDING"
    /\ Goto(r, "call")
    /\ UNCHANGED <<backendVars, outcome, seen, bodyVars, faultVars>>

(* deps.join(): the results of all parts, or an error if one has failed or *)
(* is not there in time.                                                   *)
Join(r) ==
    /\ pc[r] = "join"
    /\ \/ /\ \A p \in Parts : result[p] = "SUCCESS"
          /\ Goto(r, "call")
          /\ UNCHANGED errors
       \/ /\ \E p \in Parts : result[p] # "SUCCESS"
          /\ Goto(r, "delgroup")
          /\ errors' = errors + 1
    /\ UNCHANGED <<backendVars, outcome, seen, calls, faultVars>>

(* callback.delay(), which may raise.                                      *)
Call(r) ==
    /\ pc[r] = "call"
    /\ \/ calls' = calls + 1 /\ UNCHANGED <<errors, faults>>
       \/ /\ faults < MaxFaults /\ faults' = faults + 1
          /\ errors' = errors + 1 /\ UNCHANGED calls
    /\ Goto(r, "delgroup")
    /\ UNCHANGED <<backendVars, outcome, seen, crashes, lost>>

DeleteGroup(r) ==
    /\ pc[r] = "delgroup"
    /\ saved' = FALSE
    /\ Goto(r, "delkey")
    /\ UNCHANGED <<result, counter, succeeded, outcome, seen, bodyVars, faultVars>>

DeleteKey(r) ==
    /\ pc[r] = "delkey"
    /\ counter' = 0
    /\ Goto(r, "done")
    /\ UNCHANGED <<result, saved, succeeded, outcome, seen, bodyVars, faultVars>>

(* incr() raises though the backend has counted: the tracer reports the    *)
(* run once more, as a failure.                                            *)
IncrRaises(r) ==
    /\ pc[r] \in {"incr", "count"} /\ lost < MaxLostReplies
    /\ lost' = lost + 1
    /\ counter' = counter + 1
    /\ outcome' = [outcome EXCEPT ![r] = "FAILURE"]
    /\ Goto(r, "run")
    /\ UNCHANGED <<result, saved, succeeded, seen, bodyVars, crashes, faults>>

(* The message is acknowledged after the part has returned.                *)
Ack(r) ==
    /\ pc[r] = "done"
    /\ Goto(r, "acked")
    /\ UNCHANGED <<backendVars, outcome, seen, bodyVars, faultVars>>

(* The worker is lost before the message of the run is acknowledged.       *)
Crash(r) ==
    /\ pc[r] \notin {"none", "acked", "crashed"} /\ crashes < MaxCrashes
    /\ crashes' = crashes + 1
    /\ Goto(r, "crashed")
    /\ UNCHANGED <<backendVars, outcome, seen, bodyVars, faults, lost>>

Step(r) ==
    \/ ReadMeta(r, "SUCCESS") \/ ReadMeta(r, "FAILURE")
    \/ StoreMeta(r) \/ RestoreGroup(r) \/ Incr(r) \/ CountFirst(r) \/ RestoreDeps(r)
    \/ Join(r) \/ Call(r)
    \/ DeleteGroup(r) \/ DeleteKey(r) \/ Ack(r)

Next == \E r \in Runs : Begin(r) \/ Step(r) \/ IncrRaises(r) \/ Crash(r)

Spec == Init /\ [][Next]_vars

(* A worker takes a message that is there and sees its run through.        *)
FairSpec ==
    Spec /\ \A r \in Runs : WF_vars(Step(r)) /\ WF_vars(r[2] = 1 /\ Begin(r))

-----------------------------------------------------------------------------
(* "A chord is a task that only executes after all of the tasks in a group *)
(* have finished executing": the body is applied only if every part has    *)
(* succeeded, also when redelivered parts have counted more than once.     *)
BodyAfterAll == calls > 0 => succeeded = Parts

(* The body is applied at most once even if a worker is lost at any point  *)
(* and its part executed again.                                            *)
BodyAtMostOnce == calls <= 1

(* Nobody is left without an answer: in the end the body has been applied  *)
(* or marked as failed.                                                    *)
ChordCompletes == <>(calls + errors > 0)

(* How the variables of Chord are seen: on deliveries that are neither     *)
(* lost nor repeated this implements the abstract chord.                   *)
Body == IF calls > 0 THEN "called" ELSE IF errors > 0 THEN "failed" ELSE "waiting"
Finished == [p \in Parts |-> IF result[p] = "PENDING" THEN "no" ELSE result[p]]

(* "if the status is a success then we ignore any following update to the  *)
(* state" (the comment in _store_result()).                                *)
SuccessKept ==
    [][\A p \in Parts : result[p] = "SUCCESS" => result'[p] = "SUCCESS"]_vars
=============================================================================
