--------------------------- MODULE MCApplication ----------------------------
(* What an application does that has to come to an end, one part at a      *)
(* time:                                                                   *)
(*   dedup, plain   Chain, redelivered tasks are deduplicated or are not   *)
(*   busy           ResultConsumer, two threads wait, give up, wait again  *)
(*   patient        ResultConsumer, two threads wait and never time out    *)
(*   same           ResultConsumer, two threads wait for one task, and the *)
(*                  connection is lost                                     *)
(*   rpc            Rpc, two tasks, an answer lost                         *)
(*   connections    Connections, two threads                               *)
(*   dynamo         DynamoTable, two processes                             *)
(*   app, apps      App, two threads with one application or with two      *)
(*   migrate        Migrate, every command, twice                          *)
EXTENDS Chain, FiniteSets

CONSTANTS MaxTrouble,    \* bound on the crashes, faults, retries and replacements of a chain together
    Threads, NoThread,   \* the threads, or processes, of an application
    Ids,                 \* tasks whose results are waited for: 1..n
    MaxGets, MaxLosses, Buffer, MaxDrops,
    MaxTimeouts, MaxProcCrashes, MaxErrors,
    Apps, Funs,          \* the first of them is alone in a scenario
    Messages, Wanted, Named, Limits, MaxRuns, MaxInterrupted

VARIABLES scenario,
    sent, stored, subs, inbox, up, epoch, subscribedTo, unsubscribe, lock, waiter, pending,
    buffer, ready, pc, ret, polled, gets, losses,
    answer, reply, queue, consuming, known, asked, kept, total, outOfBand, grouped, bucket,
    buckets, caller, joined, drops, gone,
    driver, mutex, session, cached, prepared, open, left, collided, made, user, used, timeouts,
    active, finalizers, finalized, finalizing, tasks, proxies, evaluated, thread, declared,
    op, source, unacked, dest, at, message, count, running, started, lost, moved,
    want, given, methods, table, ttl, attr, setup, seen, clean, died, errors

consumerVars == <<sent, stored, subs, inbox, up, epoch, subscribedTo, unsubscribe, lock, waiter,
                  pending, buffer, ready, pc, ret, polled, gets, losses>>
rpcVars == <<answer, reply, queue, consuming, known, asked, kept, total, outOfBand, grouped,
             bucket, buckets, caller, joined, drops, gone>>
connectionVars == <<driver, mutex, session, cached, prepared, open, left, collided, made, user, used, timeouts>>
appVars == <<active, finalizers, finalized, finalizing, tasks, proxies, evaluated, thread, declared>>
tableVars == <<want, given, methods, table, ttl, attr, setup, seen, clean, died, errors>>
migrateVars == <<op, source, unacked, dest, at, message, count, running, started, lost, moved>>
allVars == <<scenario, vars, consumerVars, rpcVars, connectionVars, appVars, tableVars, migrateVars>>

-----------------------------------------------------------------------------
Trouble ==
    crashes + faults + replaced
      + Cardinality({i \in DOMAIN runs : runs[i].retries > 0 \/ runs[i].pc = "retry"})

NoDedup == INSTANCE Chain WITH Dedup <- FALSE, Trail <- TRUE

-----------------------------------------------------------------------------
\* each thread waits for a task of its own, or all of them for one
OwnTask == CHOOSE f \in [Threads -> Ids] : \A t, u \in Threads : f[t] = f[u] => t = u
OneTask == [t \in Threads |-> CHOOSE i \in Ids : TRUE]

Busy == INSTANCE ResultConsumerProofs WITH
    None <- NoThread, Tasks <- Ids, Task <- OwnTask, Timeouts <- TRUE, MaxLosses <- 0
Patient == INSTANCE ResultConsumerProofs WITH
    None <- NoThread, Tasks <- Ids, Task <- OwnTask, MaxGets <- 1, Timeouts <- FALSE,
    MaxLosses <- 0
Same == INSTANCE ResultConsumerProofs WITH
    None <- NoThread, Tasks <- Ids, Task <- OneTask, MaxGets <- 1, Timeouts <- TRUE

Amqp == INSTANCE Rpc WITH
    worker <- answer, inbox <- queue, cache <- known, pending <- asked, buffer <- kept,
    client <- caller

Connecting == INSTANCE Connections WITH kind <- driver, lock <- mutex, thread <- user

Setup == INSTANCE DynamoTable WITH
    Procs <- Threads, MaxCrashes <- MaxProcCrashes, pc <- setup, crashes <- died

ASSUME ConsumerConstants ==
    /\ Busy!ResultConsumerConstants /\ Patient!ResultConsumerConstants
    /\ Same!ResultConsumerConstants
ASSUME BackendConstants ==
    Amqp!RpcConstants /\ Connecting!ConnectionsConstants /\ Setup!DynamoConstants

-----------------------------------------------------------------------------
\* all functions have one name; the first application finalizes itself
NameOf(f) == "f"
First(S) == CHOOSE x \in S : TRUE

OneApp == INSTANCE AppProofs WITH
    Apps <- {First(Apps)}, Name <- NameOf, AutoFinalize <- {First(Apps)}, mutex <- finalizing
TwoApps == INSTANCE AppProofs WITH
    Funs <- {First(Funs)}, Name <- NameOf, AutoFinalize <- {First(Apps)}, mutex <- finalizing

Moving == INSTANCE Migrate WITH MaxCrashes <- MaxInterrupted, runs <- started, crashes <- lost

ASSUME ApplicationConstants ==
    OneApp!AppConstants /\ TwoApps!AppConstants /\ Moving!MigrateConstants

-----------------------------------------------------------------------------
\* the parts that do not take part
NoConsumer == sent = 0 /\ stored = 0 /\ subs = 0 /\ inbox = 0 /\ up = 0 /\ epoch = 0
              /\ subscribedTo = 0 /\ unsubscribe = 0 /\ lock = 0 /\ waiter = 0 /\ pending = 0
              /\ buffer = 0 /\ ready = 0 /\ pc = 0 /\ ret = 0 /\ polled = 0 /\ gets = 0 /\ losses = 0
NoRpc == answer = 0 /\ reply = 0 /\ queue = 0 /\ consuming = 0 /\ known = 0 /\ asked = 0
         /\ kept = 0 /\ total = 0 /\ outOfBand = 0 /\ grouped = 0 /\ bucket = 0 /\ buckets = 0
         /\ caller = 0 /\ joined = 0 /\ drops = 0 /\ gone = 0
NoConnections == driver = 0 /\ mutex = 0 /\ session = 0 /\ cached = 0 /\ prepared = 0 /\ open = 0
                 /\ left = 0 /\ collided = 0 /\ made = 0 /\ user = 0 /\ used = 0 /\ timeouts = 0
NoTable == want = 0 /\ given = 0 /\ methods = 0 /\ table = 0 /\ ttl = 0 /\ attr = 0 /\ setup = 0
           /\ seen = 0 /\ clean = 0 /\ died = 0 /\ errors = 0
NoApp == active = 0 /\ finalizers = 0 /\ finalized = 0 /\ finalizing = 0 /\ tasks = 0
         /\ proxies = 0 /\ evaluated = 0 /\ thread = 0 /\ declared = 0
NoMigrate == op = 0 /\ source = 0 /\ unacked = 0 /\ dest = 0 /\ at = 0 /\ message = 0
             /\ count = 0 /\ running = 0 /\ started = 0 /\ lost = 0 /\ moved = 0

Scenarios == {"dedup", "plain", "busy", "patient", "same", "rpc", "connections", "dynamo", "app",
              "apps", "migrate"}

\* each part but one stands still
ScenarioInit ==
    /\ scenario \in Scenarios
    /\ Init
    /\ \/ scenario = "busy" /\ Busy!Init
       \/ scenario = "patient" /\ Patient!Init
       \/ scenario = "same" /\ Same!Init
       \/ scenario \notin {"busy", "patient", "same"} /\ NoConsumer
    /\ IF scenario = "rpc" THEN Amqp!Init ELSE NoRpc
    /\ IF scenario = "connections" THEN Connecting!Init ELSE NoConnections
    /\ IF scenario = "dynamo" THEN Setup!Init ELSE NoTable
    /\ \/ scenario = "app" /\ OneApp!Init
       \/ scenario = "apps" /\ TwoApps!Init
       \/ scenario \notin {"app", "apps"} /\ NoApp
    /\ IF scenario = "migrate" THEN Moving!Init ELSE NoMigrate

InChain(s) == scenario = s /\ UNCHANGED <<scenario, consumerVars, rpcVars, connectionVars,
                                          appVars, tableVars, migrateVars>>
InConsumer(s) == scenario = s /\ UNCHANGED <<scenario, vars, rpcVars, connectionVars,
                                             appVars, tableVars, migrateVars>>
InRpc == scenario = "rpc" /\ UNCHANGED <<scenario, vars, consumerVars, connectionVars,
                                         appVars, tableVars, migrateVars>>
InConnections == scenario = "connections" /\ UNCHANGED <<scenario, vars, consumerVars, rpcVars,
                                                         appVars, tableVars, migrateVars>>
InApp(s) == scenario = s /\ UNCHANGED <<scenario, vars, consumerVars, rpcVars, connectionVars, tableVars,
                                        migrateVars>>
InMigrate == scenario = "migrate" /\ UNCHANGED <<scenario, vars, consumerVars, rpcVars, connectionVars,
                                                 appVars, tableVars>>
InTable == scenario = "dynamo" /\ UNCHANGED <<scenario, vars, consumerVars, rpcVars, connectionVars,
                                              appVars, migrateVars>>

ScenarioNext ==
    \/ InChain("dedup") /\ Next /\ Trouble' <= MaxTrouble
    \/ InChain("plain") /\ NoDedup!Next /\ Trouble' <= MaxTrouble
    \/ InConsumer("busy") /\ Busy!Next
    \/ InConsumer("patient") /\ Patient!Next
    \/ InConsumer("same") /\ Same!Next
    \/ InRpc /\ Amqp!Next
    \/ InConnections /\ Connecting!Next
    \/ InTable /\ Setup!Next /\ died' + errors' <= MaxErrors
    \/ InApp("app") /\ OneApp!Next
    \/ InApp("apps") /\ TwoApps!Next
    \/ InMigrate /\ Moving!Next

ChainStep ==
    /\ \E i \in DOMAIN runs :
          \/ InChain("dedup") /\ Trace(i)
          \/ InChain("plain") /\ NoDedup!Trace(i)
    /\ Trouble' <= MaxTrouble

\* The fairness of each part.  As a scenario does not change, one formula can say
\* it for a step of every scenario.
Fair(t) ==
    \/ InConsumer("patient") /\ Patient!Step(t)
    \/ InApp("app") /\ OneApp!Step(t)
    \/ InApp("apps") /\ TwoApps!Step(t)
    \/ InConnections /\ Connecting!Step(t)
    \/ InTable /\ Setup!Step(t)
Fairly(i) ==
    \/ InConsumer("patient") /\ Patient!Finish(i)
    \/ InRpc /\ \E s \in Amqp!ReadyStates : Amqp!StoreResult(i, s)
    \/ InTable /\ Setup!Server

ScenarioSpec ==
    /\ ScenarioInit /\ [][ScenarioNext]_allVars
    /\ \A t \in Threads : WF_allVars(Fair(t))
    /\ \A i \in Ids : WF_allVars(Fairly(i))
    /\ WF_allVars((InRpc /\ Amqp!Push) \/ (InMigrate /\ Moving!Work) \/ ChainStep)
    /\ WF_allVars(InRpc /\ Amqp!Client)

-----------------------------------------------------------------------------
(* The tables of the consumer are well formed, a cancellation is not       *)
(* forgotten, and whoever waits is covered by the subscription, if no two  *)
(* AsyncResults share a task and the connection is up.                     *)
Covered ==
    /\ scenario = "busy" => Busy!Covered
    /\ scenario = "patient" => Patient!Covered
    /\ scenario = "same" => Same!Covered

(* Reading the one reply queue for a task loses the answer of no other     *)
(* task, and a join gives every result once.                               *)
ClientRight == scenario = "rpc" => Amqp!ClientRight

(* Threads that need the connection of a backend at once open one, and     *)
(* leave none behind; processes that set up one DynamoDB table at once     *)
(* have it set as they want it.                                            *)
ConnectionsRight ==
    /\ scenario = "connections" => Connecting!ConnectedOnce
    /\ scenario = "dynamo" => Setup!TypeOK /\ Setup!CleanMeansSet /\ Setup!NewTableIsSet

(* No declaration of a task is lost, whichever thread finalizes its        *)
(* application meanwhile.                                                  *)
Registration ==
    /\ scenario = "app" => OneApp!Registration
    /\ scenario = "apps" => TwoApps!Registration

(* Moving messages loses none, exceeds no limit, moves only what it should *)
(* wherever it is interrupted; with ack_messages only what it does not     *)
(* move may be lost.                                                       *)
MigrateRight == scenario = "migrate" => Moving!MigrateRight

\* What has to come to an end, in one formula for all scenarios too.
Owed ==
    CASE scenario = "rpc" -> caller # Amqp!Idle
      [] scenario = "migrate" -> running
      [] OTHER -> scenario # "busy" /\ scenario # "same"

Ended ==
    CASE scenario = "dedup" -> Settled /\ PartReported /\ ErrbacksCalled
      [] scenario = "plain" -> Settled /\ NoDedup!PartReported /\ ErrbacksCalled
      [] scenario = "patient" -> \A t \in Threads : pc[t] = "done"
      [] scenario = "rpc" -> Amqp!WaitOver
      [] scenario = "connections" -> \A t \in Threads : Connecting!At(t, "done")
      [] scenario = "dynamo" -> Setup!Through
      [] scenario \in {"app", "apps"} -> \A t \in Threads : thread[t] = OneApp!Idle
      [] scenario = "migrate" -> ~ running
      [] OTHER -> TRUE

(* A step stores no success that was not handed on.  A chain settles, the  *)
(* chord hears of the part it is, and the errbacks of a failure are        *)
(* called; a get() or join() returns; a thread that needs a connection     *)
(* gets it, and so does a process that sets up a table; one that declares  *)
(* a task comes to its end, no lock is kept; moving messages ends.         *)
Settles == [][SuccessIsPassedOn']_allVars /\ (Owed ~> Ended)
=============================================================================
