------------------------------ MODULE MCChords ------------------------------
(* The ways to synchronise a chord, on a header of two parts.  In each     *)
(* scenario one of them runs: undisturbed, with workers that are lost, or  *)
(* with messages that are delivered twice; firestore is the counter of     *)
(* GCSBackend, unlock the task that polls.                                 *)
EXTENDS ChordCounter

CONSTANTS Extra,       \* the parts add_to_chord() may add
    Members, Workers, MaxAgain
VARIABLES scenario,
    sent, added, stash, size, diff, rpc, resl, applied, rerrors, finished, rcrashes, rfaults,
    late, grouped, native, stored, queue, at, cached, todo, states, order, delays, uerrors,
    ended, again, ucrashes, ufaults

Redis == INSTANCE ChordRedis WITH
    Header <- Parts, Ordered <- TRUE, Steady <- TRUE,
    pc <- rpc, errors <- rerrors, crashes <- rcrashes, faults <- rfaults

Unlock == INSTANCE ChordUnlock WITH
    result <- stored, state <- states, pc <- at, calls <- delays, errors <- uerrors,
    succeeded <- ended, crashes <- ucrashes, faults <- ufaults

ASSUME ChordConstants ==
    Redis!RedisConstants /\ MaxAgain \in Nat /\ Members # {}

Quiet == {"counter", "firestore", "redis", "unlock"}
Counters == {"counter", "counter_lost", "counter_again"}
Firestores == {"firestore", "firestore_lost"}
Polled == {"unlock", "unlock_lost"}
Scenarios == Counters \union Firestores \union {"redis", "redis_lost"} \union Polled
redisVars == <<sent, added, stash, size, diff, rpc, resl, applied, rerrors, finished,
               rcrashes, rfaults>>
unlockVars == <<late, grouped, native, stored, queue, at, cached, todo, states, order, delays,
                uerrors, ended, again, ucrashes, ufaults>>
allVars == <<scenario, vars, redisVars, unlockVars>>

Redelivered == \A r \in Runs : r[2] > 1 /\ pc[r] # "none" => pc[<<r[1], r[2] - 1>>] = "crashed"

Within ==
    /\ scenario \in Quiet => {crashes, rcrashes, lost, ucrashes, again} = {0}
    /\ scenario \in {"counter", "firestore"} => Redelivered
    /\ scenario \in {"counter_lost", "firestore_lost"} => Redelivered /\ faults = 0
    /\ scenario = "counter_lost" => crashes + lost =< 2
    /\ scenario = "firestore_lost" => lost = 0
    /\ scenario = "counter_again" =>
          /\ crashes + lost + faults = 0
          /\ Cardinality({r \in Runs : r[2] > 1 /\ pc[r] # "none"}) =< 1
    /\ scenario = "redis_lost" => rfaults = 0 /\ added = {}
    /\ scenario = "unlock_lost" => ufaults = 0 /\ ucrashes <= 1

CounterScenario ==
    /\ scenario \in Counters \union Firestores
    /\ UNCHANGED <<scenario, redisVars, unlockVars>>

RedisScenario ==
    /\ scenario \in {"redis", "redis_lost"}
    /\ UNCHANGED <<scenario, vars, unlockVars>>

UnlockScenario ==
    /\ scenario \in Polled
    /\ UNCHANGED <<scenario, vars, redisVars>>

\* the settings of chord_unlock matter where it runs
EitherInit ==
    /\ Init /\ Redis!Init /\ Unlock!Init
    /\ scenario \in Scenarios
    /\ firestore = (scenario \in Firestores)
    /\ scenario \notin Polled => ~ late /\ ~ grouped
    /\ scenario # "unlock_lost" => ~ native

EitherNext ==
    /\ \/ CounterScenario /\ Next
       \/ RedisScenario /\ Redis!Next
       \/ UnlockScenario /\ Unlock!Next
    /\ Within'

(* The fairness of FairSpec, and for the counters only undisturbed; tasks  *)
(* end, and workers take the messages that are there.  A run is either to  *)
(* begin or to go on, and a behaviour has one scenario, so that one        *)
(* condition speaks of several actions.                                    *)
RunFairness(r) ==
    WF_allVars(\/ /\ r \in Runs /\ CounterScenario /\ scenario \in Quiet
                  /\ Begin(r) \/ Step(r)
                  /\ Within'
               \/ /\ r \in Redis!Runs /\ RedisScenario
                  /\ Redis!Begin(r) \/ Redis!Step(r)
                  /\ Within')

EitherFairness ==
    /\ \A r \in Runs \union Redis!Runs : RunFairness(r)
    /\ \A p \in Parts :
          WF_allVars(\/ RedisScenario /\ Redis!Send(p)
                     \/ UnlockScenario /\ Unlock!Ends(p) /\ again' = again)
    /\ WF_allVars(RedisScenario /\ Redis!SetChordSize)
    /\ \A w \in Workers :
          WF_allVars(UnlockScenario /\ (Unlock!Deliver(w) \/ Unlock!Step(w)) /\ Within')
    /\ \A m \in Members : WF_allVars(UnlockScenario /\ Unlock!Handle(m))

EitherSpec == EitherInit /\ [][EitherNext]_allVars /\ EitherFairness

-----------------------------------------------------------------------------
(* The body of a counter chord is called once, though not if a part is     *)
(* delivered twice although no worker was lost; of the body calls for a    *)
(* chord in redis the first has every result, however the keys grow and go *)
(* meanwhile; chord_unlock answers once, and only after every part.        *)
BodyOnce ==
    /\ scenario # "counter_again" => BodyAtMostOnce
    /\ Redis!TypeOK /\ Redis!FirstCallGetsAll
    /\ Unlock!TypeOK /\ Unlock!BodyAfterAll /\ Unlock!AnsweredOnce

CounterChord == INSTANCE Chord WITH
    members <- Parts,
    finished <- IF scenario \in Quiet THEN Finished ELSE [p \in Parts |-> "no"],
    body <- IF scenario \in Quiet THEN Body ELSE "waiting"

RedisChord == INSTANCE Chord WITH
    Parts <- Parts \union Extra,
    members <- Redis!HeaderParts,
    finished <- IF scenario = "redis" THEN finished ELSE [p \in Parts \union Extra |-> "no"],
    body <- IF scenario = "redis" THEN Redis!Body ELSE "waiting"

UnlockChord == INSTANCE Chord WITH
    members <- Parts,
    finished <- IF scenario = "unlock" THEN Unlock!Finished ELSE [p \in Parts |-> "no"],
    body <- IF scenario = "unlock" THEN Unlock!Applied ELSE "waiting"

(* If no message is delivered twice all chords implement the abstract one  *)
(* (in the other scenarios the abstract chord is not looked at), and       *)
(* whoever waits for the chord gets an answer, with chord_unlock also the  *)
(* tasks of a body that is a group; if a worker is lost, chord_unlock must *)
(* be acknowledged late for that.  A stored failure is not taken for       *)
(* something to be revoked.                                                *)
ImplementsChord ==
    /\ CounterChord!Spec /\ RedisChord!Spec /\ UnlockChord!Spec
    /\ scenario \in {"counter", "firestore"} => ChordCompletes
    /\ scenario \in {"redis", "redis_lost"} => Redis!ChordCompletes
    /\ scenario = "unlock" \/ (scenario = "unlock_lost" /\ late)
          => Unlock!ChordCompletes /\ Unlock!NobodyHangs
    /\ [][Unlock!FailureKept]_allVars
=============================================================================
