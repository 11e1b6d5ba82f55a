---------------------------- MODULE DynamoTable ----------------------------
(***************************************************************************)
(* The table of the DynamoDB result backend (backends/dynamodb.py).        *)
(* Every process makes sure, when it first needs its client, that the      *)
(* table exists and that Time to Live is switched as its url says.  The    *)
(* processes do this at the same time, and the table and its Time to Live  *)
(* change state on the server meanwhile.                                   *)
(*                                                                         *)
(* self._client is assigned before any of it.  A step that raises          *)
(* therefore leaves a client that the next operation uses as it is, unless *)
(* the url has credentials: then __init__ makes the client, no backend     *)
(* comes into being, and the next operation begins again.                  *)
(***************************************************************************)
EXTENDS Naturals

CONSTANTS
    Procs,
    MaxCrashes,   \* bound on the processes lost during their setup
    MaxErrors     \* bound on calls that raise for reasons of their own

DynamoConstants == MaxCrashes \in Nat /\ MaxErrors \in Nat

VARIABLES
    want,         \* _has_ttl(): "on", "off", or "ignore"
    given,        \* the url of the process has credentials
    methods,      \* boto3 has the Time to Live methods
    table, ttl,   \* TableStatus ("none": no table) and TimeToLiveStatus
    attr,         \* the attribute Time to Live is on: "ttl" or another one
    pc, seen,     \* where a process is, the description it has read
    clean,        \* the setup of the process raised nothing (history)
    crashes, errors

serverVars == <<table, ttl, attr>>
config == <<want, given, methods>>
vars == <<config, serverVars, pc, seen, clean, crashes, errors>>

On == {"ENABLING", "ENABLED"}
Off == {"DISABLING", "DISABLED"}
Description == [status : On \union Off, attr : {"ttl", "other"}]

TypeOK ==
    /\ table \in {"none", "CREATING", "ACTIVE"} /\ ttl \in On \union Off
    /\ attr \in {"ttl", "other"}
    /\ pc \in [Procs -> {"start", "create", "wait", "look", "update", "raised", "ready"}]
    /\ seen \in [Procs -> Description] /\ clean \in [Procs -> BOOLEAN]
    /\ crashes \in 0..MaxCrashes /\ errors \in 0..MaxErrors

(* __init__(): the url, for one process; the table is new or was used      *)
(* before, with Time to Live in any state.                                 *)
Init ==
    /\ want \in [Procs -> {"on", "off", "ignore"}]
    /\ given \in [Procs -> BOOLEAN] /\ methods \in BOOLEAN
    /\ \/ table = "none" /\ ttl = "DISABLED" /\ attr = "ttl"
       \/ table = "ACTIVE" /\ ttl \in On \union Off /\ attr \in {"ttl", "other"}
    /\ pc = [p \in Procs |-> "start"] /\ clean = [p \in Procs |-> TRUE]
    /\ seen = [p \in Procs |-> [status |-> "DISABLED", attr |-> "ttl"]]
    /\ crashes = 0 /\ errors = 0

Goto(p, label) == pc' = [pc EXCEPT ![p] = label] /\ UNCHANGED clean

(* An exception leaves _get_client().                                      *)
Raise(p) ==
    /\ pc' = [pc EXCEPT ![p] = IF given[p] THEN "start" ELSE "raised"]
    /\ clean' = [clean EXCEPT ![p] = FALSE]

(* _get_client() once the table is there: Time to Live, if it matters.     *)
(* _validate_ttl_methods() raises if boto3 is too old.                     *)
AfterTable(p) ==
    \/ want[p] = "ignore" /\ Goto(p, "ready")
    \/ want[p] # "ignore" /\ methods /\ Goto(p, "look")
    \/ want[p] # "ignore" /\ ~ methods /\ Raise(p)

(* _get_or_create_table(): a table that is being created is found as well. *)
DescribeTable(p) ==
    /\ pc[p] = "start"
    /\ \/ table = "none" /\ Goto(p, "create")
       \/ table # "none" /\ AfterTable(p)
    /\ UNCHANGED <<config, serverVars, seen, crashes, errors>>

(* create_table(): raises ResourceInUseException if another process was    *)
(* first.                                                                  *)
CreateTable(p) ==
    /\ pc[p] = "create"
    /\ \/ table = "none" /\ table' = "CREATING" /\ Goto(p, "wait")
       \/ table # "none" /\ Raise(p) /\ UNCHANGED table
    /\ UNCHANGED <<config, ttl, attr, seen, crashes, errors>>

(* _wait_for_table_status(): polls until the table is active.              *)
WaitForTableStatus(p) ==
    /\ pc[p] = "wait" /\ table = "ACTIVE"
    /\ AfterTable(p)
    /\ UNCHANGED <<config, serverVars, seen, crashes, errors>>

(* Mutant of AsWanted: the attribute is not compared.                      *)
AsWantedAnyAttribute(p, d) ==
    IF want[p] = "on" THEN d.status \in On ELSE d.status \in Off

(* _set_table_ttl(): is there nothing to do?                               *)
AsWanted(p, d) ==
    IF want[p] = "on" THEN d.status \in On /\ d.attr = "ttl" ELSE d.status \in Off

(* _get_table_ttl_description()                                            *)
DescribeTimeToLive(p) ==
    LET d == [status |-> ttl, attr |-> attr] IN
    /\ pc[p] = "look"
    /\ seen' = [seen EXCEPT ![p] = d]
    /\ Goto(p, IF AsWanted(p, d) THEN "ready" ELSE "update")
    /\ UNCHANGED <<config, serverVars, crashes, errors>>

(* _get_ttl_specification(): the attribute that is named to the server.    *)
AttributeName(p) == IF seen[p].status = "ENABLED" THEN seen[p].attr ELSE "ttl"

(* The server accepts a change of an active table whose Time to Live is    *)
(* settled, and refuses one that changes nothing or names an attribute it  *)
(* is not on.                                                              *)
Accepts(p) ==
    /\ table = "ACTIVE"
    /\ IF want[p] = "on" THEN ttl = "DISABLED" ELSE ttl = "ENABLED" /\ attr = AttributeName(p)

(* update_time_to_live()                                                   *)
UpdateTimeToLive(p) ==
    /\ pc[p] = "update"
    /\ \/ /\ Accepts(p) /\ Goto(p, "ready")
          /\ ttl' = IF want[p] = "on" THEN "ENABLING" ELSE "DISABLING"
          /\ attr' = AttributeName(p)
       \/ ~ Accepts(p) /\ Raise(p) /\ UNCHANGED <<ttl, attr>>
    /\ UNCHANGED <<config, table, seen, crashes, errors>>

(* The client that an exception left behind is used by the next operation. *)
UseAnyway(p) ==
    /\ pc[p] = "raised" /\ Goto(p, "ready")
    /\ UNCHANGED <<config, serverVars, seen, crashes, errors>>

(* Any call may raise a ClientError of its own: throttling, no permission, *)
(* Time to Live changed too often.                                         *)
CallFails(p) ==
    /\ pc[p] \notin {"raised", "ready"} /\ errors < MaxErrors
    /\ errors' = errors + 1 /\ Raise(p)
    /\ UNCHANGED <<config, serverVars, seen, crashes>>

(* The process is lost, and started again.                                 *)
Crash(p) ==
    /\ pc[p] # "start" /\ crashes < MaxCrashes
    /\ crashes' = crashes + 1
    /\ pc' = [pc EXCEPT ![p] = "start"] /\ clean' = [clean EXCEPT ![p] = TRUE]
    /\ UNCHANGED <<config, serverVars, seen, errors>>

(* DynamoDB finishes what it was asked for.                                *)
Server ==
    /\ \/ table = "CREATING" /\ table' = "ACTIVE" /\ UNCHANGED ttl
       \/ ttl = "ENABLING" /\ ttl' = "ENABLED" /\ UNCHANGED table
       \/ ttl = "DISABLING" /\ ttl' = "DISABLED" /\ UNCHANGED table
    /\ UNCHANGED <<config, attr, pc, seen, clean, crashes, errors>>

Step(p) ==
    \/ DescribeTable(p) \/ CreateTable(p) \/ WaitForTableStatus(p)
    \/ DescribeTimeToLive(p) \/ UpdateTimeToLive(p) \/ UseAnyway(p)

Next == Server \/ \E p \in Procs : Step(p) \/ CallFails(p) \/ Crash(p)

Spec == Init /\ [][Next]_vars /\ WF_vars(Server) /\ \A p \in Procs : WF_vars(Step(p))

-----------------------------------------------------------------------------
Has(p) ==
    /\ want[p] = "on" => ttl \in On /\ attr = "ttl"
    /\ want[p] = "off" => ttl \in Off

Agreed == \A p, q \in Procs : want[p] = want[q]

(* If the processes want the same, one whose setup raised nothing has the  *)
(* Time to Live it wants, whatever the others did since it looked.         *)
CleanMeansSet ==
    Agreed => \A p \in Procs : pc[p] = "ready" /\ clean[p] => Has(p)

(* Processes that start at once on a new table get in each other's way:    *)
(* one of two creates fails, and so does a change of a table that is being *)
(* created or has been changed.  The one that failed goes on with the      *)
(* client it has, and that is right: as long as nothing else fails, and    *)
(* Time to Live was not just being switched the other way, the table has   *)
(* what they want when all of them are through.                            *)
NewTableIsSet ==
    /\ Agreed /\ methods /\ crashes = 0 /\ errors = 0 /\ (ttl \in On => attr = "ttl")
    /\ \A p \in Procs :
          pc[p] = "ready" /\ (seen[p].status \in {"ENABLED", "DISABLED"} \/ AsWanted(p, seen[p]))
    => \A p \in Procs : Has(p)

(* Every process gets its client, unless it can only begin again.          *)
Through ==
    \A p \in Procs : pc[p] = "ready" \/ (given[p] /\ (~ methods \/ attr = "other"))

(* A process that has its client has the Time to Live of its url.  That is *)
(* not so: what raised once in the setup is not tried again.               *)
ReadyMeansSet == Agreed => \A p \in Procs : pc[p] = "ready" => Has(p)
=============================================================================
