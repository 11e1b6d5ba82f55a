----------------------------- MODULE ChordRedis -----------------------------
(***************************************************************************)
(* A chord on the Redis result backend (backends/redis.py), for a header   *)
(* of simple tasks.  Each part puts its state into the collection .j of    *)
(* the group and reads, in the same transaction, how many are there, the   *)
(* size .s that group._apply_tasks() has set before it sent the last part, *)
(* and the count .t of the parts add_to_chord() has added since.  The run  *)
(* that finds the collection complete applies the body.                    *)
(*                                                                         *)
(* .j is a sorted set (result_chord_ordered, the default: the same report  *)
(* is there only once) or a list.  A run <<p, n>> is the n-th execution of *)
(* part p.                                                                 *)
(***************************************************************************)
EXTENDS Integers, FiniteSets, Sequences

CONSTANTS
    Header,          \* the parts the chord is made with
    Extra,           \* the parts add_to_chord() may add
    Ordered,         \* result_chord_ordered
    MaxRuns,         \* bound on the executions of one part
    Steady,          \* a part that is executed again reports the same
    MaxCrashes,      \* bound on the workers lost in the middle of a run
    MaxFaults        \* bound on the callback.delay() that raise

AllParts == Header \union Extra

RedisConstants ==
    /\ {MaxRuns, MaxCrashes, MaxFaults} \subseteq Nat
    /\ IsFiniteSet(AllParts) /\ Header # {} /\ Header \cap Extra = {}
    /\ Ordered \in BOOLEAN /\ Steady \in BOOLEAN

Runs == AllParts \X (1..MaxRuns)
Part(r) == r[1]

States == {"SUCCESS", "FAILURE"}

VARIABLES
    sent,            \* the parts whose messages were published
    added,           \* the parts that joined by add_to_chord()
    stash,           \* .j: what the runs have reported
    size, diff,      \* .s (0: not there) and .t
    pc,              \* where each run is
    resl,            \* what a run has collected
    applied,         \* what the body was applied with, one entry per call
    errors,          \* how often chord_error_from_stack() was called
    finished,        \* part -> "no" or the first state it reported (history)
    crashes, faults

keyVars == <<stash, size, diff>>
bodyVars == <<applied, errors>>
faultVars == <<crashes, faults>>
vars == <<sent, added, keyVars, pc, resl, bodyVars, finished, faultVars>>

Labels == {"none", "run", "adding", "collect", "call", "delete", "done",
           "acked", "crashed"}

(* A member of .j, [1, tid, state, result].  In a sorted set equal reports *)
(* are one; in a list, or if each run has a result of its own, they are    *)
(* told apart by the run.                                                  *)
Report(r, state) == <<Part(r), state, IF Ordered /\ Steady THEN 0 ELSE r[2]>>
Reports == AllParts \X States \X (0..MaxRuns)

TypeOK ==
    /\ sent \subseteq AllParts /\ added \subseteq Extra
    /\ stash \subseteq Reports /\ size \in Nat /\ diff \in Nat
    /\ pc \in [Runs -> Labels]
    /\ resl \in [Runs -> SUBSET Reports]
    /\ applied \in Seq(SUBSET Reports) /\ errors \in Nat
    /\ finished \in [AllParts -> States \union {"no"}]
    /\ crashes \in Nat /\ faults \in Nat

Init ==
    /\ sent = {} /\ added = {}
    /\ stash = {} /\ size = 0 /\ diff = 0
    /\ pc = [r \in Runs |-> "none"]
    /\ resl = [r \in Runs |-> {}]
    /\ applied = <<>> /\ errors = 0
    /\ finished = [p \in AllParts |-> "no"]
    /\ crashes = 0 /\ faults = 0

Goto(r, label) == pc' = [pc EXCEPT ![r] = label]

(* group._apply_tasks(): before the last part of the header is published   *)
(* the size is stored.                                                     *)
SetChordSize ==
    /\ size = 0 /\ Cardinality(Header \ sent) = 1
    /\ size' = Cardinality(Header)
    /\ UNCHANGED <<sent, added, stash, diff, pc, resl, bodyVars, finished, faultVars>>

(* Mutant: the last part may be published before the size is stored.       *)
SendUnsized(p) ==
    /\ p \in Header \ sent
    /\ sent' = sent \union {p}
    /\ UNCHANGED <<added, keyVars, pc, resl, bodyVars, finished, faultVars>>

Send(p) ==
    /\ p \in Header \ sent
    /\ Cardinality(Header \ sent) = 1 => size # 0
    /\ sent' = sent \union {p}
    /\ UNCHANGED <<added, keyVars, pc, resl, bodyVars, finished, faultVars>>

(* A worker receives the message of a part, again if the worker was lost   *)
(* before it has acknowledged the message (acks_late).                     *)
Begin(r) ==
    /\ pc[r] = "none" /\ Part(r) \in sent
    /\ r[2] > 1 => pc[<<Part(r), r[2] - 1>>] = "crashed"
    /\ Goto(r, "run")
    /\ UNCHANGED <<sent, added, keyVars, resl, bodyVars, finished, faultVars>>

(* Mutant: the new part is published before it is counted.                 *)
AddToChordUncounted(r, p) ==
    /\ pc[r] = "run" /\ p \in Extra \ added
    /\ added' = added \union {p}
    /\ Goto(r, "adding")
    /\ UNCHANGED <<sent, keyVars, resl, bodyVars, finished, faultVars>>

(* Mutant: the count goes the wrong way.                                   *)
AddToChordReversed(r, p) ==
    /\ pc[r] = "run" /\ p \in Extra \ added
    /\ added' = added \union {p}
    /\ diff' = diff - 1
    /\ Goto(r, "adding")
    /\ UNCHANGED <<sent, stash, size, resl, bodyVars, finished, faultVars>>

(* Task.add_to_chord() of a part that is running: count, then publish.     *)
AddToChord(r, p) ==
    /\ pc[r] = "run" /\ p \in Extra \ added
    /\ added' = added \union {p}
    /\ diff' = diff + 1
    /\ Goto(r, "adding")
    /\ UNCHANGED <<sent, stash, size, resl, bodyVars, finished, faultVars>>

SendAdded(r) ==
    /\ pc[r] = "adding"
    /\ sent' = sent \union added
    /\ Goto(r, "run")
    /\ UNCHANGED <<added, keyVars, resl, bodyVars, finished, faultVars>>

(* The transaction of on_chord_part_return().                              *)
PartReturn(r, state) ==
    LET p == Part(r) IN
    /\ pc[r] = "run"
    /\ Steady /\ finished[p] # "no" => state = finished[p]
    /\ finished' = [finished EXCEPT ![p] = IF @ = "no" THEN state ELSE @]
    /\ stash' = stash \union {Report(r, state)}
    /\ Goto(r, IF size # 0 /\ Cardinality(stash') = size + diff
               THEN "collect" ELSE "done")
    /\ UNCHANGED <<sent, added, size, diff, resl, bodyVars, faultVars>>

(* Mutant: failures are handed to the body.                                *)
CollectAny(r) ==
    /\ pc[r] = "collect"
    /\ resl' = [resl EXCEPT ![r] = stash]
    /\ Goto(r, "call")
    /\ UNCHANGED <<sent, added, keyVars, bodyVars, finished, faultVars>>

(* The reports are read and unpacked: a failure raises ChordError.         *)
Collect(r) ==
    /\ pc[r] = "collect"
    /\ \/ /\ \A m \in stash : m[2] = "SUCCESS"
          /\ resl' = [resl EXCEPT ![r] = stash]
          /\ Goto(r, "call")
          /\ UNCHANGED errors
       \/ /\ \E m \in stash : m[2] # "SUCCESS"
          /\ errors' = errors + 1
          /\ Goto(r, "done")
          /\ UNCHANGED resl
    /\ UNCHANGED <<sent, added, keyVars, applied, finished, faultVars>>

(* callback.delay(), which may raise.                                      *)
Call(r) ==
    /\ pc[r] = "call"
    /\ \/ applied' = Append(applied, resl[r]) /\ UNCHANGED <<errors, faults>>
       \/ /\ faults < MaxFaults /\ faults' = faults + 1
          /\ errors' = errors + 1 /\ UNCHANGED applied
    /\ Goto(r, "delete")
    /\ UNCHANGED <<sent, added, keyVars, resl, finished, crashes>>

Delete(r) ==
    /\ pc[r] = "delete"
    /\ stash' = {} /\ size' = 0 /\ diff' = 0
    /\ Goto(r, "done")
    /\ UNCHANGED <<sent, added, resl, bodyVars, finished, faultVars>>

(* The message is acknowledged after the part has returned.                *)
Ack(r) ==
    /\ pc[r] = "done"
    /\ Goto(r, "acked")
    /\ UNCHANGED <<sent, added, keyVars, resl, bodyVars, finished, faultVars>>

(* The worker is lost before the message of the run is acknowledged.       *)
Crash(r) ==
    /\ pc[r] \notin {"none", "acked", "crashed"} /\ crashes < MaxCrashes
    /\ crashes' = crashes + 1
    /\ Goto(r, "crashed")
    /\ UNCHANGED <<sent, added, keyVars, resl, bodyVars, finished, faults>>

Step(r) ==
    \/ SendAdded(r) \/ PartReturn(r, "SUCCESS") \/ PartReturn(r, "FAILURE")
    \/ Collect(r) \/ Call(r) \/ Delete(r) \/ Ack(r)

Next ==
    \/ SetChordSize
    \/ \E p \in Header : Send(p)
    \/ \E r \in Runs : \/ Begin(r) \/ Step(r) \/ Crash(r)
                       \/ \E p \in Extra : AddToChord(r, p)

Spec == Init /\ [][Next]_vars

(* The header is sent, every message is taken by a worker, and a run that  *)
(* is not lost goes on.                                                    *)
FairSpec ==
    /\ Spec
    /\ WF_vars(SetChordSize) /\ \A p \in Header : WF_vars(Send(p))
    /\ \A r \in Runs : WF_vars(Begin(r)) /\ WF_vars(Step(r))

-----------------------------------------------------------------------------
HeaderParts == Header \union added

(* The results r hold one successful result of each part.                  *)
HoldsAll(r) ==
    \A p \in HeaderParts : \E m \in r : m[2] = "SUCCESS" /\ {x \in r : x[1] = p} = {m}

(* However many workers are lost, before or after their part has reported, *)
(* the first time the body is applied every part has succeeded and the     *)
(* body is given one result of each.                                       *)
FirstCallGetsAll ==
    Len(applied) > 0 =>
        /\ \A p \in HeaderParts : finished[p] = "SUCCESS"
        /\ HoldsAll(applied[1])

(* A chord whose workers are lost at any point, and whose parts are then   *)
(* executed again with the same result, still comes to an end.             *)
ChordCompletes == <>(Len(applied) + errors > 0)

(* How the variable body of Chord is seen: if no part is executed twice    *)
(* this implements the abstract chord.                                     *)
Body == IF Len(applied) > 0 THEN "called"
        ELSE IF errors > 0 THEN "failed" ELSE "waiting"

(* "the callback can only be executed after all of the tasks in the header *)
(* have returned" (the user guide on chords).                              *)
BodyAfterAll == Len(applied) > 0 => \A p \in HeaderParts : finished[p] # "no"

(* "The callback is then applied with the return value of each task in the *)
(* header" (the user guide on chords).                                     *)
EveryCallGetsAll == \A i \in DOMAIN applied : HoldsAll(applied[i])
=============================================================================
