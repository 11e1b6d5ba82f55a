------------------------------- MODULE Chord -------------------------------
(***************************************************************************)
(* What a chord promises: the body is applied once, after every task of    *)
(* the header has finished, and only if all of them have succeeded;        *)
(* otherwise it is marked as failed.  ChordCounter, ChordRedis and         *)
(* ChordUnlock are the ways the result backends synchronise the header.    *)
(***************************************************************************)
CONSTANTS Parts          \* the tasks of the header, those added later too

VARIABLES
    members,             \* the tasks that have joined the header
    finished,            \* task -> "no", or the state it has finished in
    body                 \* "waiting", "called" or "failed"

vars == <<members, finished, body>>

Unfinished == {p \in members : finished[p] = "no"}

Init ==
    /\ members \in SUBSET Parts /\ members # {}
    /\ finished = [p \in Parts |-> "no"]
    /\ body = "waiting"

Add(p) ==
    /\ Unfinished # {}
    /\ p \notin members
    /\ members' = members \union {p}
    /\ UNCHANGED <<finished, body>>

Finish(p, state) ==
    /\ p \in Unfinished
    /\ finished' = [finished EXCEPT ![p] = state]
    /\ UNCHANGED <<members, body>>

Call ==
    /\ body = "waiting"
    /\ \A p \in members : finished[p] = "SUCCESS"
    /\ body' = "called"
    /\ UNCHANGED <<members, finished>>

Fail ==
    /\ body = "waiting"
    /\ Unfinished = {}
    /\ body' = "failed"
    /\ UNCHANGED <<members, finished>>

Next ==
    \/ \E p \in Parts : Add(p) \/ Finish(p, "SUCCESS") \/ Finish(p, "FAILURE")
    \/ Call \/ Fail

Spec == Init /\ [][Next]_vars
=============================================================================
