----------------------------- MODULE MCPeriodic -----------------------------
(* Periodic tasks: beat, and the crontab schedules of its entries, which   *)
(* are checked by themselves.  In each scenario one of them runs:          *)
(*   crash   beat with two entries, dies and is started again              *)
(*   stop    beat stopped by signals, with celery.backend_cleanup          *)
(*   cron    crontab schedules on a calendar of two months                 *)
(*   parser  every range and step of fields of up to six numbers           *)
EXTENDS Crontab

CONSTANTS a, b, cleanup
VARIABLES scenario,
    time, conf, schedule, heap, old, disk, lastSync, tasks, pc, current, wake,
    sends, lastSend, happened

beatVars == <<time, conf, schedule, heap, old, disk, lastSync, tasks, pc, current, wake,
              sends, lastSend, happened>>

Crashing == INSTANCE Beat WITH
    now <- time, Entries <- {a, b}, Default <- cleanup, Intervals <- {2, 3},
    MaxInterval <- 4, SyncEvery <- 3, SyncTasks <- 0, Persistent <- TRUE, Cleanup <- FALSE,
    MaxTime <- 6, SendTime <- 1, MaxStops <- 0, MaxCrashes <- 1, MaxChanges <- 1

Stopped == INSTANCE Beat WITH
    now <- time, Entries <- {a, b}, Default <- cleanup, Intervals <- {2, 3},
    MaxInterval <- 4, SyncEvery <- 3, SyncTasks <- 2, Persistent <- TRUE, Cleanup <- TRUE,
    MaxTime <- 5, SendTime <- 1, MaxStops <- 1, MaxCrashes <- 0, MaxChanges <- 1

ASSUME Crashing!BeatConstants /\ Crashing!NoneApart

Star(step) == [star |-> TRUE, from |-> 0, to |-> 0, step |-> step]
From(x, y, step) == [star |-> FALSE, from |-> x, to |-> y, step |-> step]
One(x) == From(x, x, 1)

\* Two short months, the last one longer in odd years.
TwoMonths == <<3, 2>>

CronFields ==
    [minute |-> {{Star(1)}, {One(1)}},
     hour   |-> {{Star(1)}, {One(0)}},
     dow    |-> {{Star(1)}, {One(1)}, {From(2, 0, 1)}},
     dom    |-> {{Star(1)}, {One(3)}, {From(3, 1, 2)}},
     month  |-> {{Star(1)}, {One(2)}}]

NoCron == spec = None /\ cron = None /\ deadline = None /\ last = 0 /\ now = 0
NoBeat == Crashing!Init /\ conf = [n \in {a, b} |-> 2]

ScenarioInit ==
    \/ scenario = "parser" /\ NoBeat /\ NoCron
    \/ scenario = "crash" /\ Crashing!Init /\ conf[a] <= conf[b] /\ NoCron
    \/ scenario = "stop" /\ Stopped!Init /\ conf[a] = 2 /\ conf[b] = 3 /\ NoCron
    \/ scenario = "cron" /\ Init /\ NoBeat

ScenarioNext ==
    /\ UNCHANGED scenario
    /\ \/ scenario = "crash" /\ Crashing!Next /\ UNCHANGED vars
       \/ scenario = "stop" /\ Stopped!Next /\ UNCHANGED vars
       \/ scenario = "cron" /\ Next /\ UNCHANGED beatVars

ScenarioSpec == ScenarioInit /\ [][ScenarioNext]_<<scenario, vars, beatVars>>

-----------------------------------------------------------------------------
(* Beat never sleeps past the time its next entry is due; what the         *)
(* schedule file says has run was sent, if beat was not stopped between    *)
(* the two; and two runs of an entry are an interval apart, across changes *)
(* of the schedule and restarts.                                           *)
BeatRight ==
    /\ [](Crashing!TypeOK /\ Crashing!NoOversleep /\ Crashing!PersistedWasSent)
    /\ Crashing!RunsSpaced

(* A field of a crontab holds the numbers its parts denote, and the next   *)
(* run of the schedule is the first minute that matches, it is reported as *)
(* due within the deadline, and beat looks again before the next one.      *)
CronExact ==
    /\ scenario = "parser" => \A max \in 1..6, min \in {0, 1} : PartsExact(max, min)
    /\ scenario = "cron" => NextIsFirstMatch /\ DueIffMissedInTime /\ LooksAgainInTime
=============================================================================
