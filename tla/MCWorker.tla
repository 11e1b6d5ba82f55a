------------------------------ MODULE MCWorker ------------------------------
(* Worker on small instances.  A scenario says which tasks there are, with *)
(* which options, and how much may happen to them; a live instance has one *)
(* task and the fairness of the event loop.                                *)
EXTENDS Worker, TLC

CONSTANTS t, u
VARIABLE scenario

Opts(late, ackF, ackT, requeue, limit, eta, expires) ==
    [late : late, ackFailure : ackF, ackTimeout : ackT, requeueLost : requeue,
     limit : limit, eta : eta, expires : expires]

(* Every option of a task that has neither an ETA nor an expiry time.      *)
AckOptions == Opts(BOOLEAN, BOOLEAN, BOOLEAN, BOOLEAN, {TRUE}, {FALSE}, {FALSE})

(* Acknowledged late and given back when its child is lost, or             *)
(* acknowledged when it is accepted.                                       *)
LateOptions == Opts({TRUE}, {TRUE}, {FALSE}, {TRUE}, {FALSE}, {FALSE}, {FALSE})
EarlyOptions == Opts({FALSE}, {TRUE}, {TRUE}, {FALSE}, {FALSE}, {FALSE}, {FALSE})

(* With an ETA and an expiry time.                                         *)
EtaOptions == Opts(BOOLEAN, {TRUE}, {TRUE}, {TRUE}, {FALSE}, {TRUE}, {TRUE})

AllOptions == AckOptions \union LateOptions \union EarlyOptions \union EtaOptions
AllEnds == Outcomes

(* One task of every kind, two that compete for the slot, one with an ETA  *)
(* that is delivered three times.                                          *)
Scenario ==
    [one |-> [options |-> (t :> AckOptions), ends |-> Outcomes,
              deliveries |-> 2, drops |-> 1, crashes |-> 1],
     two |-> [options |-> (t :> LateOptions) @@ (u :> EarlyOptions), ends |-> {"success"},
              deliveries |-> 2, drops |-> 1, crashes |-> 0],
     eta |-> [options |-> (t :> EtaOptions), ends |-> {"retry"},
              deliveries |-> 3, drops |-> 2, crashes |-> 0]]

Within(s) ==
    /\ \A i \in Tasks : count[i] <= IF i \in DOMAIN s.options THEN s.deliveries ELSE 0
    /\ revoked \union expired \subseteq DOMAIN s.options
    /\ \A r \in Requests : child[r] \in Outcomes => child[r] \in s.ends
    /\ \A r \in Requests : child[r] = "retry" => r[2] < s.deliveries
    /\ drops <= s.drops /\ crashes <= s.crashes

ScenarioInit ==
    /\ Init
    /\ scenario \in DOMAIN Scenario
    /\ LET s == Scenario[scenario]
       IN  \A i \in Tasks :
              opt[i] \in IF i \in DOMAIN s.options THEN s.options[i] ELSE EarlyOptions

ScenarioNext == UNCHANGED scenario /\ Next /\ Within(Scenario[scenario])'

ScenarioSpec == ScenarioInit /\ [][ScenarioNext]_<<vars, scenario>>

-----------------------------------------------------------------------------
(* One task and fair scheduling.  The task is acknowledged late or early,  *)
(* at once or with an ETA; with a hard time limit or with an expiry time.  *)
OneTask(limit, eta, expires) == Opts(BOOLEAN, {TRUE}, {FALSE}, {TRUE}, limit, eta, expires)

LiveOptions ==
    OneTask({FALSE}, BOOLEAN, {FALSE}) \union OneTask({TRUE}, {FALSE}, {FALSE})
        \union OneTask({FALSE}, {TRUE}, {TRUE})

LimitOptions == OneTask({TRUE}, BOOLEAN, {FALSE})

LiveInit == Init /\ scenario = "live"
LiveNext == Next /\ UNCHANGED scenario
LiveSpec == LiveInit /\ [][LiveNext]_<<vars, scenario>> /\ LoopFairness

(* If the loop runs and tasks end, every delivery is finally acknowledged  *)
(* or given back, and a terminate that came before the pool had accepted   *)
(* the job still kills it.                                                 *)
AllSettled == DeliveriesSettle /\ TerminateTakesEffect
=============================================================================
