----------------------------- MODULE MCMachinery -----------------------------
(* What runs in and around a worker and has to get on, one part at a time: *)
(*   ends, fair, fcfs   AsynPool, jobs written to idle children only, while*)
(*                      the connection is lost or children die, or ahead   *)
(*   prefetch, quorum   Flow, a pool that is resized by hand, the latter   *)
(*                      with quorum queues                                 *)
(*   scaling            Flow, the autoscaler while long tasks run          *)
(*   rate               RateLimit, three messages, the limit changed twice *)
(*   queues             Queues, three commands and a lost connection       *)
(*   delays             Queues, two brokers with quorum queues             *)
(*   multi              Multi, two nodes, two commands, one crash          *)
(*   blueprint          Blueprint, every graph of three steps              *)
EXTENDS Naturals, FiniteSets, Sequences, SequencesExt, TLC

CONSTANTS None,
          Pools,        \* scenario -> the constants of AsynPool in it
          Flows,        \* scenario -> the constants of Flow in it
          Selections,   \* scenario -> the constants of Queues in it
          Nodes, Processes, MaxCommands, MaxCrashes, Patience

VARIABLES scenario,
    poolpc, cache, accepted, writeTo, revoked, outbound, inq, busy, writer, child, pipe,
    damaged, exec, outq, sent, starts, happened,
    place, unacked, carries, procs, scaler, initial, value, prev, granted, restored, restarts,
    commands, skew,
    timed, conn, queued, limited, current, contents, tokens, timers, etas, passed, came,
    looped, declared, selected, explicit, default, consuming, connected, pending, wanted,
    together, twice, asked, losses, todo, attempt, failed, bound, troubles,
    file, proc, cmd, launched, given, crashes, patient, raced, killed,
    requires, claimed, last, phase, known, stream, adjacent, low, stack, frames, components,
    arcs, count, ready, sorted, order, included

poolVars == <<poolpc, cache, accepted, writeTo, revoked, outbound, inq, busy, writer, child,
              pipe, damaged, exec, outq, sent, starts, happened>>
flowVars == <<place, unacked, carries, procs, scaler, initial, value, prev, granted, restored,
              restarts, commands, skew>>
rateVars == <<timed, conn, queued, limited, current, contents, tokens, timers, etas, passed,
              came>>
queueVars == <<looped, declared, selected, explicit, default, consuming, connected, pending,
               wanted, together, twice, asked, losses, todo, attempt, failed, bound, troubles>>
multiVars == <<file, proc, cmd, launched, given, crashes, patient, raced, killed>>
orderVars == <<requires, claimed, last, phase, known, stream, adjacent, low, stack, frames,
               components, arcs, count, ready, sorted, order, included>>
allVars == <<scenario, poolVars, flowVars, rateVars, queueVars, multiVars, orderVars>>

-----------------------------------------------------------------------------
Pool(s) == INSTANCE AsynPool WITH
    pc <- poolpc, Fds <- Pools[s].fds, MaxJobs <- Pools[s].jobs, Fair <- Pools[s].fair,
    MaxExits <- Pools[s].exits, MaxFlushes <- Pools[s].flushes, MaxRevokes <- Pools[s].revokes

ThreePools ==
    "ends" :> [fds |-> {"p", "q"}, jobs |-> 2, fair |-> TRUE, exits |-> 1, flushes |-> 1,
               revokes |-> 1]
    @@ "fair" :> [fds |-> {"p", "q"}, jobs |-> 3, fair |-> TRUE, exits |-> 2, flushes |-> 0,
                  revokes |-> 0]
    @@ "fcfs" :> [fds |-> {"p", "q"}, jobs |-> 3, fair |-> FALSE, exits |-> 1, flushes |-> 0,
                  revokes |-> 0]

Flowing(s) == INSTANCE Flow WITH
    task <- place, Tasks <- Flows[s].tasks, EtaTasks <- Flows[s].eta,
    LongTasks <- Flows[s].long, Multiplier <- Flows[s].multiplier,
    Concurrency <- Flows[s].concurrency, MaxProcs <- Flows[s].procs,
    Autoscale <- Flows[s].autoscale, AcksLate <- Flows[s].late, PerConsumer <- Flows[s].quorum,
    MaxLosses <- Flows[s].losses, MaxCommands <- Flows[s].commands

\* one task has an eta, and commands resize the pool, also under the static count of
\* quorum queues; or no task ends, and the autoscaler resizes the pool
ThreeFlows ==
    "prefetch" :> [tasks |-> 1..3, eta |-> {3}, long |-> {}, multiplier |-> 1,
                   concurrency |-> 2, procs |-> 3, autoscale |-> {}, late |-> TRUE,
                   quorum |-> FALSE, losses |-> 1, commands |-> 2]
    @@ "quorum" :> [tasks |-> 1..2, eta |-> {2}, long |-> {}, multiplier |-> 2,
                    concurrency |-> 1, procs |-> 2, autoscale |-> {}, late |-> FALSE,
                    quorum |-> TRUE, losses |-> 1, commands |-> 2]
    @@ "scaling" :> [tasks |-> 1..4, eta |-> {}, long |-> 1..4, multiplier |-> 1,
                     concurrency |-> 1, procs |-> 3, autoscale |-> {3}, late |-> TRUE,
                     quorum |-> FALSE, losses |-> 1, commands |-> 1]

Limiting == INSTANCE RateLimit WITH
    Messages <- 1..3, EtaMessages <- {3}, MaxLosses <- 1, MaxChanges <- 2, hub <- timed,
    pool <- passed

Selecting(s) == INSTANCE Queues WITH
    Names <- Selections[s].names, Configured <- Selections[s].configured,
    Alias <- Selections[s].alias, MaxCommands <- Selections[s].commands,
    MaxLosses <- Selections[s].losses, Native <- Selections[s].native,
    Urls <- Selections[s].urls, MaxRetries <- Selections[s].retries,
    MaxTroubles <- Selections[s].troubles,
    hub <- looped, known <- declared, given <- asked

\* x is another name of the queue q; or there are two brokers with quorum queues
TwoSelections ==
    "queues" :> [names |-> {"q", "s", "x"}, configured |-> {"q"},
                 alias |-> "x" :> "q", commands |-> 3, losses |-> 1, native |-> FALSE,
                 urls |-> {"u"}, retries |-> 0, troubles |-> 0]
    @@ "delays" :> [names |-> {"q", "r", "s"}, configured |-> {"q", "r"},
                    alias |-> <<>>, commands |-> 1, losses |-> 1, native |-> TRUE,
                    urls |-> {"u", "v"}, retries |-> 1, troubles |-> 2]

Pids == ToSet(Processes)
Supervising == INSTANCE Multi WITH starts <- launched

FourProcesses == <<"p1", "p2", "p3", "p4">>

Ordering == INSTANCE Blueprint WITH N <- 3

ASSUME MachineryConstants ==
    /\ Limiting!RateLimitConstants /\ Ordering!BlueprintConstants
    /\ DOMAIN Flows \cap DOMAIN Selections = {} /\ DOMAIN Flows \cap DOMAIN Pools = {}
    /\ DOMAIN Selections \cap DOMAIN Pools = {}

ASSUME PoolsRight == \A s \in DOMAIN Pools : Pool(s)!AsynPoolConstants
ASSUME FlowsRight == \A s \in DOMAIN Flows : Flowing(s)!FlowConstants
ASSUME SelectionsRight == \A s \in DOMAIN Selections : Selecting(s)!QueuesConstants
ASSUME NodesRight == Supervising!MultiConstants

-----------------------------------------------------------------------------
\* the parts that do not take part
NoPool == poolpc = 0 /\ cache = 0 /\ accepted = 0 /\ writeTo = 0 /\ revoked = 0 /\ outbound = 0 /\
          inq = 0 /\ busy = 0 /\ writer = 0 /\ child = 0 /\ pipe = 0 /\ damaged = 0 /\ exec = 0 /\
          outq = 0 /\ sent = 0 /\ starts = 0 /\ happened = 0
NoFlow == place = 0 /\ unacked = 0 /\ carries = 0 /\ procs = 0 /\ scaler = 0 /\ initial = 0 /\
          value = 0 /\ prev = 0 /\ granted = 0 /\ restored = 0 /\ restarts = 0 /\ commands = 0 /\ skew = 0
NoRate == timed = 0 /\ conn = 0 /\ queued = 0 /\ limited = 0 /\ current = 0 /\ contents = 0 /\
          tokens = 0 /\ timers = 0 /\ etas = 0 /\ passed = 0 /\ came = 0
NoQueues == looped = 0 /\ declared = 0 /\ selected = 0 /\ explicit = 0 /\ default = 0 /\
            consuming = 0 /\ connected = 0 /\ pending = 0 /\ wanted = 0 /\ together = 0 /\
            twice = 0 /\ asked = 0 /\ losses = 0 /\ todo = 0 /\ attempt = 0 /\ failed = 0 /\ bound = 0 /\
            troubles = 0
NoMulti == file = 0 /\ proc = 0 /\ cmd = 0 /\ launched = 0 /\ given = 0 /\ crashes = 0 /\
           patient = 0 /\ raced = 0 /\ killed = 0
NoBlueprint == requires = 0 /\ claimed = 0 /\ last = 0 /\ phase = 0 /\ known = 0 /\ stream = 0
               /\ adjacent = 0 /\ low = 0 /\ stack = 0 /\ frames = 0 /\ components = 0 /\ arcs =
               0 /\ count = 0 /\ ready = 0 /\ sorted = 0 /\ order = 0 /\ included = 0

Scenarios == {"rate", "multi", "blueprint"} \cup DOMAIN Pools \cup DOMAIN Flows
             \cup DOMAIN Selections

\* each part but one stands still
ScenarioInit ==
    /\ scenario \in Scenarios
    /\ IF scenario \in DOMAIN Pools THEN \E s \in DOMAIN Pools : scenario = s /\ Pool(s)!Init
                                    ELSE NoPool
    /\ IF scenario \in DOMAIN Flows THEN \E s \in DOMAIN Flows : scenario = s /\ Flowing(s)!Init
                                    ELSE NoFlow
    /\ IF scenario = "rate" THEN Limiting!Init ELSE NoRate
    /\ IF scenario \in DOMAIN Selections
         THEN \E s \in DOMAIN Selections : scenario = s /\ Selecting(s)!Init
         ELSE NoQueues
    /\ IF scenario = "multi" THEN Supervising!Init ELSE NoMulti
    /\ IF scenario = "blueprint" THEN Ordering!Init ELSE NoBlueprint

\* a step of one scenario leaves the other parts alone
InPool(s) ==
    scenario = s
    /\ UNCHANGED <<scenario, flowVars, rateVars, queueVars, multiVars, orderVars>>
InFlow(s) ==
    scenario = s
    /\ UNCHANGED <<scenario, poolVars, rateVars, queueVars, multiVars, orderVars>>
InRate ==
    scenario = "rate"
    /\ UNCHANGED <<scenario, poolVars, flowVars, queueVars, multiVars, orderVars>>
InQueues(s) ==
    scenario = s
    /\ UNCHANGED <<scenario, poolVars, flowVars, rateVars, multiVars, orderVars>>
InMulti ==
    scenario = "multi"
    /\ UNCHANGED <<scenario, poolVars, flowVars, rateVars, queueVars, orderVars>>
InBlueprint ==
    scenario = "blueprint"
    /\ UNCHANGED <<scenario, poolVars, flowVars, rateVars, queueVars, multiVars>>

ScenarioNext ==
    \/ \E s \in DOMAIN Pools : InPool(s) /\ Pool(s)!Next
    \/ \E s \in DOMAIN Flows : InFlow(s) /\ Flowing(s)!Next
    \/ InRate /\ Limiting!Next
    \/ \E s \in DOMAIN Selections : InQueues(s) /\ Selecting(s)!Next
    \/ InMulti /\ Supervising!Next
    \/ InBlueprint /\ Ordering!Next

\* The fairness of each part.  As a scenario does not change, one formula can say
\* it for a step of every scenario.
Fairly(k) ==
    \/ \E s \in DOMAIN Pools :
          /\ scenario = s
          /\ \/ k = 1 /\ \E f \in Pools[s].fds : Pool(s)!ScheduleWrites(f)
             \/ k = 2 /\ \E f \in Pools[s].fds : Pool(s)!WriteMore(f)
             \/ k = 3 /\ \E f \in Pools[s].fds : Pool(s)!HandleResult(f)
             \/ k = 4 /\ \E f \in Pools[s].fds : Pool(s)!Child(f)
             \/ k = 5 /\ Pool(s)!MaintainPool
             \/ k = 6 /\ Pool(s)!FlushEnd
          /\ InPool(s)
    \/ \E s \in DOMAIN Flows :
          /\ scenario = s
          /\ \/ /\ k \in Flows[s].tasks
                /\ Flowing(s)!Work(k) \/ Flowing(s)!Finish(k) \/ Flowing(s)!Publish(k)
             \/ k = 6 /\ Flowing(s)!UpdateQos
             \/ k = 7 /\ Flowing(s)!Autoscaler
          /\ InFlow(s)
    \/ /\ scenario = "rate"
       /\ \/ k \in 1..3 /\ Limiting!Deliver(k)
          \/ k \in 4..6 /\ (Limiting!BucketTimer(k - 4) \/ Limiting!Refill(k - 4))
          \/ k = 7 /\ \E e \in etas : Limiting!PostEta(e)
       /\ InRate
    \/ \E s \in DOMAIN Selections :
          /\ scenario = s
          /\ \/ k = 1 /\ Selecting(s)!Reconnect
             \/ k = 2 /\ \E i \in 1..Selections[s].commands : Selecting(s)!Perform(i)
             \/ k = 3 /\ Selecting(s)!DelayedDelivery
          /\ InQueues(s)
    \/ /\ scenario = "multi"
       /\ \/ k \in DOMAIN Processes /\ Supervising!Step(Processes[k])
          \/ k = 5 /\ Supervising!Operate
       /\ InMulti
    \/ scenario = "blueprint" /\ k = 1 /\ Ordering!Next /\ InBlueprint

ScenarioSpec ==
    /\ ScenarioInit /\ [][ScenarioNext]_allVars
    /\ WF_allVars(Fairly(1)) /\ WF_allVars(Fairly(2)) /\ WF_allVars(Fairly(3))
    /\ WF_allVars(Fairly(4)) /\ WF_allVars(Fairly(5)) /\ WF_allVars(Fairly(6))
    /\ WF_allVars(Fairly(7))

-----------------------------------------------------------------------------
(* Whatever children die and connections are lost, a job the pool took is  *)
(* still somewhere, is started at most once, is at one child at a time     *)
(* under fair scheduling, and messages stay in one piece.                  *)
JobsAccounted ==
    \A s \in DOMAIN Pools : scenario = s =>
        /\ Pool(s)!TypeOK /\ Pool(s)!JobAccounted /\ Pool(s)!StartedOnce
        /\ Pool(s)!NoPhantomBusy /\ Pool(s)!UpIsNews /\ Pool(s)!BoundariesKept
        /\ Pool(s)!OneJobPerChild

(* A worker asks for as many messages as it can take, however its pool is  *)
(* resized, its connection lost and its prefetch count restored meanwhile; *)
(* see Flow for the three exceptions.                                      *)
FlowRight == \A s \in DOMAIN Flows : scenario = s => Flowing(s)!FlowRight

(* Rate limited requests go to the pool in the order they came, each once, *)
(* and none of an earlier connection under the event loop.                 *)
LimitsRight ==
    /\ [](scenario = "rate" => Limiting!LimitsRight)
    /\ [][scenario = "rate" => Limiting!OldGoneFromCurrent]_allVars

(* The broker's consumer and the selected queues agree, and the last       *)
(* command for a queue counts if it was performed before the next came.    *)
(* With quorum queues, delayed tasks reach the configured queues through   *)
(* every broker whose setup was not given up.                              *)
QueuesRight == \A s \in DOMAIN Selections : scenario = s => Selecting(s)!QueuesRight

(* The pidfile holds as a lock and names the worker, through crashes and   *)
(* stale files, and a restart starts every node once.                      *)
Supervised == scenario = "multi" => Supervising!Supervised

(* The steps of a blueprint are started after what they require.           *)
BlueprintRight == scenario = "blueprint" => Ordering!BlueprintRight

\* Everything that was begun has come to its end.
Ended ==
    /\ \A s \in DOMAIN Pools : scenario = s => Pool(s)!JobsEnded
    /\ \A s \in DOMAIN Flows : scenario = s => Flowing(s)!ComesBack /\ Flowing(s)!ScaledUp
    /\ scenario = "rate" => \A m \in 1..3 : Limiting!Drained(m)
    /\ scenario \in DOMAIN Selections => pending = <<>> /\ connected /\ todo = {}
    /\ scenario = "multi" => /\ Supervising!CommandOver
                             /\ \A n \in Nodes : launched[n] > 0 => Supervising!NodeUp(n)
    /\ scenario = "blueprint" => phase = "done"

(* A job that was sent ends, unless a child waits at a queue it cannot     *)
(* read; the prefetch count comes back after a reconnect, and the          *)
(* autoscaler adds processes; a rate limited message gets through;         *)
(* operations on queues are performed, and brokers that do not answer do   *)
(* not keep a worker from its loop; a command of the operator ends, and    *)
(* leaves the nodes it started running; a blueprint is made.  (The jobs,   *)
(* messages and commands are bounded, so to be through with all of them    *)
(* again and again says it of each.)                                       *)
Progress == []<>Ended
=============================================================================
