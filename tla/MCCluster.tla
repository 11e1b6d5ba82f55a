----------------------------- MODULE MCCluster ------------------------------
(* What the workers of a cluster know of each other, one part at a time:   *)
(*   set       the LimitedSet that holds the ids of revoked tasks          *)
(*   calm      Mingle, starts and revocations one after the other          *)
(*   rough     Mingle, starts, revocations and late answers as they come   *)
(*   party     Gossip, workers come, leave, die and are taken for dead     *)
(*   election  Gossip, one election in a party that stays together         *)
EXTENDS LimitedSet, Sequences

CONSTANTS w1, w2, w3, id1, id2

VARIABLES scenario,
    phase, revoked, db, mailbox, replies, faults,
    up, queue, known, started, asked, requests, acks, running, acted, decided,
    changes, elections

mingleVars == <<phase, revoked, db, mailbox, replies, faults>>
gossipVars == <<up, queue, known, started, asked, requests, acks, running, acted, decided,
                changes, elections>>
allVars == <<scenario, vars, mingleVars, gossipVars>>

Calm == INSTANCE Mingle WITH
    Workers <- {w1, w2, w3}, Ids <- {id1, id2}, MaxFaults <- 3,
    Overlap <- FALSE, SlowReplies <- FALSE, RevokeInBoot <- FALSE

Rough == INSTANCE Mingle WITH
    Workers <- {w1, w2}, Ids <- {id1}, MaxFaults <- 3,
    Overlap <- TRUE, SlowReplies <- TRUE, RevokeInBoot <- TRUE

Party == INSTANCE Gossip WITH
    clock <- started, replies <- acks, Workers <- 1..3, Clocks <- {1}, AllUp <- FALSE,
    MaxChanges <- 4, Elections <- 0

\* The workers are alike and (clock, host) pairs are totally ordered, so that one
\* assignment of clocks stands for all.
Vote == INSTANCE Gossip WITH
    clock <- started, replies <- acks, Workers <- 1..3, Clocks <- {1}, AllUp <- TRUE,
    MaxChanges <- 0, Elections <- 1

ASSUME Calm!EnvironmentConstants /\ Rough!EnvironmentConstants

-----------------------------------------------------------------------------
ScenarioInit ==
    /\ Init
    /\ \/ scenario = "set" /\ Calm!Init /\ Party!Init
       \/ scenario = "calm" /\ Calm!Init /\ Party!Init
       \/ scenario = "rough" /\ Rough!Init /\ Party!Init
       \/ scenario = "party" /\ Calm!Init /\ Party!Init
       \/ scenario = "election" /\ Calm!Init /\ Vote!Init

\* a step of one scenario leaves the other parts alone
InSet == scenario = "set" /\ UNCHANGED <<scenario, mingleVars, gossipVars>>
InMingle(s) == scenario = s /\ UNCHANGED <<scenario, vars, gossipVars>>
InGossip(s) == scenario = s /\ UNCHANGED <<scenario, vars, mingleVars>>

ScenarioNext ==
    \/ InSet /\ Next
    \/ InMingle("calm") /\ Calm!Next
    \/ InMingle("rough") /\ Rough!Next
    \/ InGossip("party") /\ Party!Next
    \/ InGossip("election") /\ Vote!Next

\* the fairness of LimitedSet, Mingle and Gossip
ScenarioSpec ==
    /\ ScenarioInit /\ [][ScenarioNext]_allVars
    /\ WF_allVars(InSet /\ Running)
    /\ \A w \in {w1, w2} : WF_allVars(InMingle("rough") /\ Rough!WorkerStep(w))
    /\ \A w \in 1..3 : /\ WF_allVars(InGossip("party") /\ Party!OnMessage(w))
                       /\ WF_allVars(InGossip("party") /\ Party!Heartbeat(w))
    /\ \A v, w \in 1..3 : WF_allVars(InGossip("party") /\ v \notin up /\ Party!NodeLost(w, v))

-----------------------------------------------------------------------------
(* Mingle!RevokedAgreed in both environments: the workers that are up      *)
(* agree on the revoked ids once nothing is on its way, if the environment *)
(* is calm; what a worker saved it knows again.                            *)
RevokedAgreed ==
    IF scenario = "rough" THEN Rough!RevokedAgreed ELSE Calm!RevokedAgreed

(* Nothing hangs: the loops of the set of revoked ids end, and workers     *)
(* that ask each other for them finish their start.                        *)
NothingHangs ==
    /\ scenario = "set" => OperationsReturn
    /\ scenario = "rough" => Rough!EveryoneBoots

(* Every view of the party comes to agree with who runs, and no event of a *)
(* worker comes after its good-bye.  An election of three workers ends for *)
(* all who take part, and nobody acts twice.                               *)
GossipRight ==
    /\ scenario = "party" =>
          [](Party!TypeOK /\ Party!OfflineIsLast) /\ Party!PartyConverges
    /\ scenario = "election" =>
          [](Vote!TypeOK /\ Vote!ActsOnce /\ Vote!ElectionEnds)
=============================================================================
