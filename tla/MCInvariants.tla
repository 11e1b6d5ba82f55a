---------------------------- MODULE MCInvariants ----------------------------
(* Parts of which only safety is claimed, one at a time:                   *)
(*   hub, threads  Dispatcher, a worker with an event loop whose           *)
(*                 connection is lost twice, or with pool threads that     *)
(*                 publish by themselves                                   *)
(*   order         EventState, a monitor hears three senders in any order  *)
(*   evict         EventState, more tasks than it keeps, and clears        *)
(*   beats         EventState, a worker comes, beats, works and leaves;    *)
(*                 clears and reloads                                      *)
(*   canvas        Canvas, every work-flow of up to five tasks             *)
(*   stamps        Stamps, three canvases, stamped twice                   *)
(*   settings      Settings, three calls in every order                    *)
(*   signals       Signals, two threads and a receiver made of another     *)
(*   cached        Signals, one thread with more calls, and use_caching    *)
(*   sending       Sending, two threads that call, retry and share a pool  *)
(*   stores        Stores, two deliveries of one task, in every backend    *)
EXTENDS Dispatcher, FiniteSets, TLC

CONSTANTS Nil, t1, t2, any

VARIABLES scenario,
    net, clock, now, tasks, lru, heap, pending, byType, byWorker, hearts, budget, seen, heard,
    beaten,
    expr, handle, messages, stored, size, parts, saved, joining, failed, ran,
    canvas, options, meant, appended, stamped, status, stamps, revoked, doomed, retries, orders,
    lazy, eager, style, calls, reset,
    caching, life, entries, flag, cached, cache, lock, pc, call, sweep, found, watched,
    registered, must, may, called, sends,
    setup, producers, sender, queue, bound, override, submits, log,
    kind, retry, skew, doc, writes, worker, client, known, removed, faults

monitorVars == <<net, clock, now, tasks, lru, heap, pending, byType, byWorker, hearts, budget,
                 seen, heard, beaten>>
canvasVars == <<expr, handle, messages, stored, size, parts, saved, joining, failed, ran>>
stampVars == <<canvas, options, meant, appended, stamped, status, stamps, revoked, doomed,
               retries, orders>>
settingVars == <<lazy, eager, style, calls, reset>>
signalVars == <<caching, life, entries, flag, cached, cache, lock, pc, call, sweep, found,
                watched, registered, must, may, called, sends>>
sendingVars == <<setup, producers, sender, queue, bound, override, submits, log>>
storeVars == <<kind, retry, skew, doc, writes, worker, client, known, removed, faults>>

Threaded == INSTANCE Dispatcher WITH
    Hub <- FALSE, Threads <- {t1, t2}, Groups0 <- {}, MaxEvents <- 4, MaxCommands <- 0

-----------------------------------------------------------------------------
(* What the senders publish: the client, 0, and the workers 1 and 2.  Only *)
(* task-sent and task-received carry the fields of the task.               *)
Ev(subject, task, c, ts) ==
    [subject |-> subject, task |-> task, clock |-> c, ts |-> ts,
     name |-> Nil, eta |-> Nil, parent |-> Nil]
Full(subject, task, parent, c, ts) ==
    [Ev(subject, task, c, ts) EXCEPT !.name = "add", !.eta = subject, !.parent = parent]

\* the client sends 1 and its child 2, two workers run them
ScriptTwoTasks ==
    (0 :> <<Full("sent", 1, Nil, 0, 1), Full("sent", 2, 1, 0, 4)>>)
    @@ (1 :> <<Full("received", 1, Nil, 2, 2), Ev("started", 1, 3, 3),
               Ev("succeeded", 1, 5, 5)>>)
    @@ (2 :> <<Full("received", 2, 1, 5, 5), Ev("started", 2, 6, 6),
               Ev("failed", 2, 7, 7)>>)

\* task 1 fails on worker 1 and is redelivered to worker 2
ScriptRedelivered ==
    (0 :> <<Full("sent", 1, Nil, 0, 1)>>)
    @@ (1 :> <<Full("received", 1, Nil, 2, 2), Ev("started", 1, 3, 3),
               Ev("failed", 1, 5, 6)>>)
    @@ (2 :> <<Full("received", 1, Nil, 3, 5), Ev("started", 1, 4, 6),
               Ev("progress", 1, 5, 7), Ev("succeeded", 1, 6, 8)>>)

\* task 1 asks for a retry on worker 1, worker 2 completes it
ScriptRetried ==
    (0 :> <<Full("sent", 1, Nil, 0, 1)>>)
    @@ (1 :> <<Full("received", 1, Nil, 2, 2), Ev("started", 1, 3, 3),
               Ev("retried", 1, 4, 4)>>)
    @@ (2 :> <<Full("received", 1, Nil, 5, 5), Ev("started", 1, 6, 6),
               Ev("succeeded", 1, 7, 7)>>)

\* three tasks, two of them children of the first
ScriptThreeTasks ==
    (0 :> <<Full("sent", 1, Nil, 0, 1)>>)
    @@ (1 :> <<Full("received", 1, Nil, 2, 2), Ev("rejected", 1, 3, 3),
               Ev("revoked", 1, 7, 8)>>)
    @@ (2 :> <<Full("received", 2, 1, 5, 5), Full("received", 3, 1, 6, 6),
               Ev("started", 2, 7, 7), Ev("succeeded", 2, 8, 8)>>)

\* the wall clocks of the client and of worker 2 are ahead of worker 1's
ScriptSkewed ==
    (0 :> <<Full("sent", 1, Nil, 0, 4)>>)
    @@ (1 :> <<Full("received", 1, Nil, 5, 3), Ev("started", 1, 6, 4),
               Ev("succeeded", 1, 7, 5)>>)
    @@ (2 :> <<Full("received", 2, 1, 2, 5), Ev("started", 2, 3, 6),
               Ev("succeeded", 2, 4, 7)>>)

\* worker 1 comes up, works, beats and leaves; its clock is right or slow
ScriptWorker(late) ==
    (0 :> <<>>)
    @@ (1 :> <<Ev("online", Nil, 1, 1), Ev("heartbeat", Nil, 2, 2),
               Full("received", 1, Nil, 3, 2 + late), Ev("started", 1, 4, 2 + late),
               Ev("succeeded", 1, 5, 3 + late), Ev("heartbeat", Nil, 6, 3),
               Ev("offline", Nil, 7, 4)>>)
    @@ (2 :> <<>>)

\* the monitor's queue was bound after worker 1 had sent its first n events
Joined(script, n) == [script EXCEPT ![1] = SubSeq(@, n + 1, Len(@))]

OrderScripts == {Joined(s, n) : n \in 0..1,
                    s \in {ScriptTwoTasks, ScriptRedelivered, ScriptRetried, ScriptThreeTasks,
                          ScriptSkewed}}

Order == INSTANCE EventState WITH None <- Nil,
    Tasks <- 1..3, Workers <- 1..2, Client <- 0, Scripts <- OrderScripts,
    MaxTasks <- 3, HeapMultiplier <- 4, HeartbeatMax <- 3, Window <- 2, FirstClocks <- {0, 2},
    FirstNow <- 3, MaxNow <- 3, OnNodeLeave <- FALSE, MaxClears <- 0, MaxReloads <- 0

Evict == INSTANCE EventState WITH None <- Nil,
    Tasks <- 1..3, Workers <- 1..2, Client <- 0, Scripts <- {ScriptThreeTasks},
    MaxTasks <- 2, HeapMultiplier <- 2, HeartbeatMax <- 3, Window <- 2, FirstClocks <- {0, 2},
    FirstNow <- 3, MaxNow <- 3, OnNodeLeave <- FALSE, MaxClears <- 1, MaxReloads <- 0

Beats == INSTANCE EventState WITH None <- Nil,
    Tasks <- 1..3, Workers <- 1..2, Client <- 0,
    Scripts <- {ScriptWorker(0), ScriptWorker(-1)},
    MaxTasks <- 3, HeapMultiplier <- 4, HeartbeatMax <- 3, Window <- 2, FirstClocks <- {0},
    FirstNow <- 3, MaxNow <- 8, OnNodeLeave <- TRUE, MaxClears <- 1, MaxReloads <- 1

-----------------------------------------------------------------------------
Syntax == INSTANCE Canvas WITH
    result <- handle, pending <- messages, Slow <- TRUE, Expressions <- {}

\* every work-flow of the tasks lo to hi, nested at most d times
RECURSIVE Shapes(_, _, _)
Shapes(lo, hi, d) ==
    IF lo = hi THEN {Syntax!Task(lo, lo = 4)}
    ELSE IF d = 0 THEN {}
    ELSE UNION {{Syntax!ChainOf(<<x, y>>), Syntax!GroupOf(<<x, y>>), Syntax!ChordOf(x, y)} :
                    <<x, y>> \in UNION {Shapes(lo, m, d - 1) \X Shapes(m + 1, hi, d - 1) :
                                            m \in lo..(hi - 1)}}

\* those with an empty group in the middle, and a chord whose part ends in a group
Gaps == {Syntax!ChainOf(<<x, Syntax!GroupOf(<<>>), y>>) :
            x \in Shapes(1, 2, 1), y \in Shapes(3, 4, 1)}
Uneven == Syntax!ChordOf(Syntax!GroupOf(<<Syntax!ChainOf(<<Syntax!Task(1, FALSE),
                            Syntax!GroupOf(<<Syntax!Task(2, FALSE), Syntax!Task(3, FALSE)>>)>>),
                          Syntax!Task(4, FALSE)>>), Syntax!Task(5, FALSE))

WorkFlows == INSTANCE Canvas WITH result <- handle, pending <- messages, Slow <- TRUE,
    Expressions <- UNION {Shapes(1, n, 4) : n \in 1..5} \cup Gaps \cup {Syntax!GroupOf(<<>>), Uneven}

-----------------------------------------------------------------------------
Node(type, up, role) == [kind |-> type, up |-> up, role |-> role]
One(x) == [list |-> FALSE, vals |-> {x}]
Many(x) == [list |-> TRUE, vals |-> {x}]
NoStamp == [h \in {} |-> {}]
With(h, v) == [x \in {h} |-> v]

\* a chord of two tasks; a chain of a group whose task has a callback, and a task;
\* a task with two errbacks
StampedCanvases ==
    {<<Node("chord", 0, "member"), Node("task", 1, "member"), Node("task", 1, "member"),
       Node("task", 1, "body")>>,
     <<Node("chain", 0, "member"), Node("group", 1, "member"), Node("task", 2, "member"),
       Node("task", 3, "link"), Node("task", 1, "member")>>,
     <<Node("task", 0, "member"), Node("task", 1, "errback"), Node("task", 1, "errback")>>}

\* the second visitor leaves the third node alone
VisitorHooks == {"signature", "group", "chain", "body", "link", "errback"}
StampVisitors ==
    {[on |-> [k \in VisitorHooks |-> CASE k = "signature" -> With("a", One(2))
                                       [] k = "group" -> With("b", One(1))
                                       [] OTHER -> NoStamp],
      skips |-> {}],
     [on |-> [k \in VisitorHooks |-> CASE k = "signature" -> With("b", Many(2))
                                       [] k = "group" -> NoStamp
                                       [] OTHER -> With("a", Many(1))],
      skips |-> {3}]}

Stamping == INSTANCE Stamps WITH
    Canvases <- StampedCanvases, Headers <- {"a", "b"}, Values <- {1, 2},
    Visitors <- StampVisitors, Plain <- {NoStamp, With("b", Many(1))},
    MaxStamps <- 2, MaxCommands <- 2, MaxRetries <- 1,
    commands <- orders

-----------------------------------------------------------------------------
\* a source has names with the prefix, or without; two names of one setting differ
ConfigurationSources ==
    {[n \in D |-> IF n[1] = "old" THEN "two" ELSE "one"] :
        D \in SUBSET ({"new", "old"} \X {"k", "l"}) \cup SUBSET ({"prefixed"} \X {"k", "l"})}

Conf == INSTANCE Settings WITH
    Keys <- {"k", "l"}, Values <- {"one", "two"}, Styles <- {"new", "old"},
    Sources <- ConfigurationSources, MaxCalls <- 3

-----------------------------------------------------------------------------
\* g is made where f was; h is retried until it succeeds
Signalling == INSTANCE Signals WITH
    Threads <- {t1, t2}, Receivers <- {"f", "g", "h"}, Later <- {"g"},
    Address <- [r \in {"f", "g", "h"} |-> IF r = "h" THEN 2 ELSE 1],
    Strong <- {}, Retried <- {"h"}, Senders <- {"s"}, AnySender <- any,
    Cachings <- BOOLEAN, MaxCalls <- 3, op <- call, calls <- sends

\* two receivers, connected and disconnected between two sends
Caching == INSTANCE Signals WITH
    Threads <- {t1}, Receivers <- {"f", "h"}, Later <- {},
    Address <- [r \in {"f", "h"} |-> IF r = "h" THEN 2 ELSE 1],
    Strong <- {}, Retried <- {"h"}, Senders <- {"s"}, AnySender <- any,
    Cachings <- {TRUE}, MaxCalls <- 5, op <- call, calls <- sends

-----------------------------------------------------------------------------
\* queues with direct or topic exchanges, with and without quorum queues and a
\* route, in every pair; one task names its queue itself
Nowhere == "no queue"
Setup(quorum, type, routed, attr) ==
    [quorum |-> quorum, type |-> [n \in {"celery", "other"} |-> type], routed |-> routed,
     attr |-> attr]
Calling == INSTANCE Sending WITH
    Threads <- {t1, t2}, Queues <- {"celery", "other"}, DefaultQueue <- "celery",
    Setups <- {Setup(FALSE, "direct", Nowhere, Nowhere), Setup(FALSE, "topic", "other", Nowhere),
               Setup(TRUE, "direct", "other", Nowhere), Setup(TRUE, "topic", Nowhere, Nowhere),
               Setup(FALSE, "topic", Nowhere, "other")},
    MaxCalls <- 2, MaxRetries <- 1, Overrides <- {-1}, PoolLimit <- 1,
    thread <- sender, calls <- submits

Keeping == INSTANCE Stores WITH
    Deliveries <- {"d1", "d2"}, Skews <- {0, 2}, MaxRetries <- 1, MaxFaults <- 1, cache <- known

ASSUME Calling!SendingConstants /\ Keeping!StoresConstants

-----------------------------------------------------------------------------
\* the parts that do not take part
NoMonitor == net = 0 /\ clock = 0 /\ now = 0 /\ tasks = 0 /\ lru = 0 /\ heap = 0 /\ pending = 0 /\
             byType = 0 /\ byWorker = 0 /\ hearts = 0 /\ budget = 0 /\ seen = 0 /\ heard = 0 /\
             beaten = 0
NoCanvas == expr = 0 /\ handle = 0 /\ messages = 0 /\ stored = 0 /\ size = 0 /\ parts = 0 /\ saved
            = 0 /\ joining = 0 /\ failed = 0 /\ ran = 0
NoStamps == canvas = 0 /\ options = 0 /\ meant = 0 /\ appended = 0 /\ stamped = 0 /\ status = 0 /\
            stamps = 0 /\ revoked = 0 /\ doomed = 0 /\ retries = 0 /\ orders = 0
NoSettings == lazy = 0 /\ eager = 0 /\ style = 0 /\ calls = 0 /\ reset = 0
NoSignals == caching = 0 /\ life = 0 /\ entries = 0 /\ flag = 0 /\ cached = 0 /\ cache = 0 /\ lock
             = 0 /\ pc = 0 /\ call = 0 /\ sweep = 0 /\ found = 0 /\ watched = 0 /\ registered = 0
             /\ must = 0 /\ may = 0 /\ called = 0 /\ sends = 0
NoSending == setup = 0 /\ producers = 0 /\ sender = 0 /\ queue = 0 /\ bound = 0 /\ override = 0 /\
             submits = 0 /\ log = 0
NoStores == kind = 0 /\ retry = 0 /\ skew = 0 /\ doc = 0 /\ writes = 0 /\ worker = 0 /\ client = 0
            /\ known = 0 /\ removed = 0 /\ faults = 0

-----------------------------------------------------------------------------
Scenarios == {"hub", "threads", "order", "evict", "beats", "canvas", "stamps", "settings",
              "signals", "cached", "sending", "stores"}

\* each part but one stands still
ScenarioInit ==
    /\ scenario \in Scenarios
    /\ IF scenario = "threads" THEN Threaded!Init ELSE Init
    /\ CASE scenario = "order" -> Order!Init
         [] scenario = "evict" -> Evict!Init
         [] scenario = "beats" -> Beats!Init
         [] OTHER -> NoMonitor
    /\ IF scenario = "canvas" THEN WorkFlows!Init ELSE NoCanvas
    /\ IF scenario = "stamps" THEN Stamping!Init ELSE NoStamps
    /\ IF scenario = "settings" THEN Conf!Init ELSE NoSettings
    /\ CASE scenario = "signals" -> Signalling!Init
         [] scenario = "cached" -> Caching!Init
         [] OTHER -> NoSignals
    /\ IF scenario = "sending" THEN Calling!Init ELSE NoSending
    /\ IF scenario = "stores" THEN Keeping!Init ELSE NoStores

\* a step of one scenario leaves the other parts alone
InDispatcher(s) ==
    /\ scenario = s
    /\ UNCHANGED <<scenario, monitorVars, canvasVars, stampVars, settingVars,
                   signalVars, sendingVars, storeVars>>
InMonitor(s) ==
    /\ scenario = s
    /\ UNCHANGED <<scenario, vars, canvasVars, stampVars, settingVars,
                   signalVars, sendingVars, storeVars>>
InCanvas ==
    /\ scenario = "canvas"
    /\ UNCHANGED <<scenario, vars, monitorVars, stampVars, settingVars,
                   signalVars, sendingVars, storeVars>>
InStamps ==
    /\ scenario = "stamps"
    /\ UNCHANGED <<scenario, vars, monitorVars, canvasVars, settingVars,
                   signalVars, sendingVars, storeVars>>
InSettings ==
    /\ scenario = "settings"
    /\ UNCHANGED <<scenario, vars, monitorVars, canvasVars, stampVars,
                   signalVars, sendingVars, storeVars>>
InSignals(s) ==
    /\ scenario = s
    /\ UNCHANGED <<scenario, vars, monitorVars, canvasVars, stampVars,
                   settingVars, sendingVars, storeVars>>
InSending ==
    /\ scenario = "sending"
    /\ UNCHANGED <<scenario, vars, monitorVars, canvasVars, stampVars,
                   settingVars, signalVars, storeVars>>
InStores ==
    /\ scenario = "stores"
    /\ UNCHANGED <<scenario, vars, monitorVars, canvasVars, stampVars,
                   settingVars, signalVars, sendingVars>>

ScenarioNext ==
    \/ InDispatcher("hub") /\ Next
    \/ InDispatcher("threads") /\ Threaded!Next
    \/ InMonitor("order") /\ Order!Next
    \/ InMonitor("evict") /\ Evict!Next
    \/ InMonitor("beats") /\ Beats!Next
    \/ InCanvas /\ WorkFlows!Next
    \/ InStamps /\ Stamping!Next
    \/ InSettings /\ Conf!Next
    \/ InSignals("signals") /\ Signalling!Next
    \/ InSignals("cached") /\ Caching!Next
    \/ InSending /\ Calling!Next
    \/ InStores /\ Keeping!Next

allVars == <<scenario, vars, monitorVars, canvasVars, stampVars, settingVars, signalVars,
             sendingVars, storeVars>>

ScenarioSpec == ScenarioInit /\ [][ScenarioNext]_allVars

-----------------------------------------------------------------------------
(* No event is published twice; with an event loop they are published in   *)
(* order, none that could not be published is forgotten, and what remote   *)
(* control has chosen survives a reconnect (EventDispatcher).              *)
EventsKept ==
    /\ PublishedOnce
    /\ scenario = "hub" => TypeOK /\ OrderKept /\ OutboundKept /\ GroupsRemembered

(* The tables of the monitor (celery.events.state.State) agree with each   *)
(* other, keep to their limits and stay sorted; in whichever order events  *)
(* arrive, a task shows the best state heard of and a child is linked to   *)
(* its parent; a worker counts as alive iff it was heard of lately, in     *)
(* spite of stale task events.                                             *)
MonitorRight ==
    /\ scenario = "order" => /\ Order!TypeOK /\ Order!HeapSorted /\ Order!HeartbeatsSorted
                             /\ Order!BestStateShown /\ Order!ChildrenLinked
    /\ scenario = "evict" => /\ Evict!TypeOK /\ Evict!HeapSorted /\ Evict!HeartbeatsSorted
                             /\ Evict!BestStateShown
    /\ scenario = "beats" => /\ Beats!TypeOK /\ Beats!HeartbeatsSorted /\ Beats!BestStateShown
                             /\ Beats!HeartbeatKeepsAlive /\ Beats!SilentIsOffline

(* Every work-flow runs as it was written, in whichever order its tasks    *)
(* run, and so it does in eager mode; see Exception in Canvas for the      *)
(* shapes of which this is not true.                                       *)
RunsAsWritten == scenario = "canvas" => WorkFlows!RunsAsWritten

(* Tasks carry the stamps they were to get, also through a retry, and      *)
(* those a worker was told to revoke by one header do not run.             *)
StampsRight == scenario = "stamps" => Stamping!StampsRight

(* It makes no difference to the configuration when it is first read, and  *)
(* another process gets the same one from a pickle.                        *)
ConfigurationStable == scenario = "settings" => Conf!ConfigurationStable

(* A signal reaches those connected when it is sent, and nobody else, with *)
(* receivers collected and their addresses used again meanwhile.           *)
SignalsRight ==
    /\ scenario = "signals" => Signalling!SignalsRight
    /\ scenario = "cached" => Caching!SignalsRight

(* Calls and retries reach the queue they were meant for, after the result *)
(* queue exists, with the right root and parent; no producer is kept.  A   *)
(* retry of a delayed call misses its queue if quorum queues are used with *)
(* topic exchanges, see Sending.                                           *)
SentAsMeant ==
    scenario = "sending" =>
        /\ Calling!SentAsMeant
        /\ \/ setup.quorum /\ \E n \in DOMAIN setup.type : setup.type[n] = "topic"
           \/ Calling!RetriedOnSameQueue

(* The document of a task ends ready in every result backend, with a state *)
(* a delivery gave it, and in Elasticsearch it is not overwritten by a     *)
(* late store.                                                             *)
StoresRight ==
    /\ [](scenario = "stores" => Keeping!StoresRight)
    /\ [][scenario = "stores" => Keeping!NotOverwritten]_allVars
=============================================================================
