---------------------------- MODULE WorkerProofs ----------------------------
(***************************************************************************)
(* The safety of Worker for every set of tasks, every assignment of        *)
(* options, any number of slots, deliveries, connection losses and lost    *)
(* children.                                                               *)
(*                                                                         *)
(* The properties are not inductive: that a reserved request is in the     *)
(* pool, say, needs that a job which was not accepted is still reserved,   *)
(* which needs that a request waiting for a slot has no job yet.  Fresh,   *)
(* Places, Marks and Settlement add what is missing.                       *)
(***************************************************************************)
EXTENDS Worker, FiniteSetTheorems, TLAPS

(* A request that has left any trace was delivered.                        *)
Fresh ==
    \A r \in Requests :
        \/ r \in scheduled \union waiting \union acknowledged
        \/ r \in started \union alreadyCancelled
        \/ child[r] # "none"
        => r[2] <= count[Id(r)]

(* Where a request is decides what its child does.                         *)
Places ==
    /\ \A r \in waiting \union scheduled : child[r] = "none" /\ r \notin alreadyRevoked
    /\ \A r \in cache : child[r] # "none"
    /\ \A r \in started : child[r] \in Begun
    /\ waiting \cap scheduled = {}
    /\ waiting \subseteq reserved
    /\ cache \ started \subseteq reserved

(* What the attributes of a request say about each other.                  *)
Marks ==
    /\ alreadyRevoked \subseteq acknowledged
    /\ \A r \in started : ~ opt[Id(r)].late => r \in acknowledged
    /\ mode = "run" => held \cap alreadyCancelled = {}

(* What the worker has settled and the broker has not heard of is queued.  *)
Settlement ==
    /\ ~ connected => held = {}
    /\ \A r \in held \cap acknowledged : \E how \in Settlements : <<r, how>> \in soon
    /\ \A p \in soon :
          /\ p[1] \in acknowledged
          /\ p[2] = "requeue" <=> p[1] \in requeued

Inv ==
    /\ TypeOK /\ Fresh /\ Places /\ Marks /\ Settlement
    /\ TablesMatchPool /\ SettledAfterEnd /\ NoOrphan

(* A request is a task and the number of its delivery. *)
LEMMA RequestFacts ==
    /\ \A r \in Requests : Id(r) \in Tasks /\ r[2] \in 1..MaxDeliveries
    /\ \A i \in Tasks, n \in 1..MaxDeliveries :
          <<i, n>> \in Requests /\ Id(<<i, n>>) = i /\ <<i, n>>[2] = n
    BY DEF Requests, Id

(* A worker that has just started satisfies the inductive invariant. *)
LEMMA InitInv == Init => Inv
    <1>. SUFFICES ASSUME Init PROVE Inv
        OBVIOUS
    <1>1. TypeOK
        BY WorkerAssumption DEF Init, TypeOK, States
    <1>2. Fresh /\ Places /\ Marks /\ Settlement
        BY DEF Init, Fresh, Places, Marks, Settlement
    <1>3. TablesMatchPool /\ SettledAfterEnd /\ NoOrphan
        BY DEF Init, TablesMatchPool, SettledAfterEnd, NoOrphan
    <1>. QED
        BY <1>1, <1>2, <1>3 DEF Inv

(* Settle() is idempotent, and what it settles is on its way.              *)
LEMMA SettleFacts ==
    ASSUME TypeOK, Settlement, NEW r \in Requests, NEW how \in Settlements, Settle(r, how)
    PROVE  /\ acknowledged' = acknowledged \union {r}
           /\ \A p \in soon' : /\ p[1] \in acknowledged'
                               /\ p[2] = "requeue" <=> p[1] \in requeued'
           /\ \A q \in acknowledged' :
                 q \in held \/ (q = r /\ r \notin acknowledged)
                     => \E h \in Settlements : <<q, h>> \in soon'
    <1>1. CASE r \in acknowledged
        BY <1>1 DEF Settle, settleVars, Settlement
    <1>2. CASE r \notin acknowledged
        <2>1. /\ acknowledged' = acknowledged \union {r}
              /\ soon' = soon \union {<<r, how>>}
              /\ requeued' = IF how = "requeue" THEN requeued \union {r} ELSE requeued
            BY <1>2 DEF Settle
        <2>2. \A p \in soon : p[1] # r
            BY <1>2 DEF Settlement
        <2>3. r \notin requeued
            BY <1>2 DEF TypeOK
        <2>4. ASSUME NEW p \in soon'
              PROVE  p[1] \in acknowledged' /\ (p[2] = "requeue" <=> p[1] \in requeued')
            <3>1. CASE p \in soon
                BY <2>1, <2>2, <3>1 DEF Settlement
            <3>2. CASE p = <<r, how>>
                BY <2>1, <2>3, <3>2
            <3>. QED
                BY <2>1, <3>1, <3>2
        <2>5. ASSUME NEW q \in acknowledged', q \in held \/ (q = r /\ r \notin acknowledged)
              PROVE  \E h \in Settlements : <<q, h>> \in soon'
            <3>1. CASE q = r
                BY <2>1, <3>1
            <3>2. CASE q # r
                BY <2>1, <2>5, <3>2 DEF Settlement
            <3>. QED
                BY <3>1, <3>2
        <2>. QED
            BY <2>1, <2>4, <2>5
    <1>. QED
        BY <1>1, <1>2

(* Settlement when a request is settled, or none is, on the same broker.   *)
LEMMA SettlementStep ==
    ASSUME TypeOK, Settlement, NEW r \in Requests,
           UNCHANGED settleVars \/ \E how \in Settlements : Settle(r, how),
           UNCHANGED <<held, connected>>
    PROVE  Settlement'
    <1>1. CASE UNCHANGED settleVars
        BY <1>1 DEF settleVars, Settlement
    <1>2. CASE \E how \in Settlements : Settle(r, how)
        BY <1>2, SettleFacts DEF Settlement
    <1>. QED
        BY <1>1, <1>2

(* A settled delivery the broker still holds has its settlement queued.    *)
LEMMA QueuedSettlement ==
    ASSUME Settlement, NEW r \in held, r \in acknowledged
    PROVE  r \in {p[1] : p \in soon}
    <1>1. PICK how \in Settlements : <<r, how>> \in soon
        BY DEF Settlement
    <1>. QED
        BY <1>1

(* A request may leave the pool once it is settled, or is not held.        *)
LEMMA NoOrphanStep ==
    ASSUME NoOrphan, NEW r \in Requests, Settlement', held' = held, mode' = mode,
           r \in acknowledged' \/ (mode = "run" => r \notin held),
           scheduled \ {r} \subseteq scheduled',
           waiting \ {r} \subseteq waiting', cache \ {r} \subseteq cache',
           \A p \in soon : p \in soon'
    PROVE  NoOrphan'
    <1>. SUFFICES ASSUME mode = "run", NEW q \in held
                 PROVE  q \in scheduled' \union waiting' \union cache'
                                \union {p[1] : p \in soon'}
        BY DEF NoOrphan
    <1>1. CASE q = r
        <2>1. r \in held' /\ r \in acknowledged'
            BY <1>1
        <2>2. PICK how \in Settlements : <<r, how>> \in soon'
            BY <2>1 DEF Settlement
        <2>3. <<r, how>>[1] = r
            OBVIOUS
        <2>. QED
            BY <1>1, <2>2, <2>3
    <1>2. CASE q # r
        BY <1>2 DEF NoOrphan
    <1>. QED
        BY <1>1, <1>2

(* The broker counts the unacked copies of a message.                      *)
LEMMA CopiesFacts ==
    ASSUME TypeOK, NEW i \in Tasks
    PROVE  /\ Copies(i) \in Nat
           /\ (\E r \in held : Id(r) = i) => Copies(i) > 0
    <1>1. IsFiniteSet(Requests)
        <2>1. IsFiniteSet(1..MaxDeliveries)
            BY WorkerAssumption, FS_Interval
        <2>. QED
            BY <2>1, WorkerAssumption, FS_Product DEF Requests
    <1>2. IsFiniteSet({r \in held : Id(r) = i})
        BY <1>1, FS_Subset DEF TypeOK
    <1>. QED
        BY <1>2, FS_CardinalityType, FS_EmptySet DEF Copies

(* on_task_received, with each of its early exits, preserves the inductive
   invariant. *)
LEMMA DeliverInv ==
    ASSUME Inv, NEW i \in Tasks, Deliver(i)
    PROVE  Inv'
    <1>. USE RequestFacts, WorkerAssumption
    <1>. USE DEF Inv, brokerVars, tableVars, requestVars, poolVars, childVars, envVars, settleVars
    <1>. DEFINE r == <<i, count[i] + 1>>
    <1>0. r \in Requests /\ Id(r) = i /\ r[2] = count[i] + 1
        BY DEF Deliver, TypeOK
    <1>. HIDE DEF r
    <1>1. TypeOK'
        <2>1. /\ count' \in [Tasks -> 0..MaxDeliveries] /\ queue' \in [Tasks -> Nat]
              /\ held' \subseteq Requests
            BY <1>0 DEF Deliver, TypeOK, r
        <2>. QED
            BY <1>0, <2>1 DEF Deliver, AnnounceRevoked, TaskReady, Settle, Stored, TaskScheduled, TaskReserved, RevokedAfter, TypeOK, States, Begun, Over, Outcomes, Settlements, r
    <1>2. Fresh'
        BY <1>0 DEF Deliver, AnnounceRevoked, TaskReady, Settle, Stored, TaskScheduled, TaskReserved, RevokedAfter, Fresh, TypeOK, Places, Marks, Settlement, TablesMatchPool, Fresh, Begun, Over, Outcomes, IsRevoked, r
    <1>3. Places'
        BY <1>0 DEF Deliver, AnnounceRevoked, TaskReady, Settle, Stored, TaskScheduled, TaskReserved, RevokedAfter, Places, TypeOK, Places, Marks, Settlement, TablesMatchPool, Fresh, Begun, Over, Outcomes, IsRevoked, r
    <1>4. Marks'
        BY <1>0 DEF Deliver, AnnounceRevoked, TaskReady, Settle, Stored, TaskScheduled, TaskReserved, RevokedAfter, Marks, TypeOK, Places, Marks, Settlement, TablesMatchPool, Fresh, Begun, Over, Outcomes, IsRevoked, r
    <1>5. Settlement'
        <2>1. r \notin acknowledged
            BY <1>0 DEF Fresh, TypeOK
        <2>2. held' = held \union {r} /\ connected /\ connected' = connected
            BY DEF Deliver, r
        <2>3. CASE UNCHANGED settleVars
            BY <2>1, <2>2, <2>3 DEF Settlement
        <2>4. CASE Settle(r, "ack")
            BY <1>0, <2>1, <2>2, <2>4, SettleFacts DEF Settlement, Settlements
        <2>. QED
            BY <2>3, <2>4 DEF Deliver, AnnounceRevoked, r
    <1>6. TablesMatchPool'
        BY <1>0 DEF Deliver, AnnounceRevoked, TaskReady, Settle, Stored, TaskScheduled, TaskReserved, RevokedAfter, TablesMatchPool, TypeOK, Places, Marks, Settlement, TablesMatchPool, Fresh, Begun, Over, Outcomes, IsRevoked, r
    <1>7. SettledAfterEnd'
        BY <1>0 DEF Deliver, AnnounceRevoked, TaskReady, Settle, Stored, TaskScheduled, TaskReserved, RevokedAfter, SettledAfterEnd, TypeOK, Places, Marks, Settlement, TablesMatchPool, Fresh, Begun, Over, Outcomes, IsRevoked, r
    <1>8. NoOrphan'
        <2>1. held' = held \union {r}
            BY DEF Deliver, r
        <2>2. CASE AnnounceRevoked(r) /\ UNCHANGED waiting
            <3>1. r \notin acknowledged /\ r \notin scheduled
                BY <1>0 DEF Fresh, TypeOK
            <3>2. <<r, "ack">> \in soon' /\ soon \subseteq soon' /\ <<r, "ack">>[1] = r
                BY <2>2, <3>1 DEF AnnounceRevoked, Settle
            <3>3. UNCHANGED <<cache, mode>> /\ scheduled' = scheduled
                BY <2>2, <3>1 DEF Deliver, AnnounceRevoked, TaskReady
            <3>. QED
                BY <2>1, <2>2, <3>2, <3>3 DEF NoOrphan
        <2>3. CASE ~ AnnounceRevoked(r) \/ ~ UNCHANGED waiting
            <3>1. UNCHANGED <<cache, mode, soon>> /\ waiting \subseteq waiting'
                BY <2>3 DEF Deliver, r
            <3>0. r \notin reserved \union active
                BY <1>0 DEF Fresh, Places, TablesMatchPool, TypeOK
            <3>2. scheduled \ {r} \subseteq scheduled' /\ r \in scheduled' \union waiting'
                BY <2>3, <3>0 DEF Deliver, TaskScheduled, TaskReserved, TypeOK, r
            <3>. QED
                BY <2>1, <3>1, <3>2 DEF NoOrphan
        <2>. QED
            BY <2>2, <2>3
    <1>. QED
        BY <1>1, <1>2, <1>3, <1>4, <1>5, <1>6, <1>7, <1>8

(* The expiry of an ETA timer (apply_eta_task) preserves the inductive
   invariant. *)
LEMMA ApplyEtaTaskInv ==
    ASSUME Inv, NEW r \in Requests, ApplyEtaTask(r)
    PROVE  Inv'
    <1>. USE RequestFacts, WorkerAssumption
    <1>. USE DEF Inv, brokerVars, tableVars, requestVars, poolVars, childVars, envVars, settleVars
    <1>1. TypeOK'
        BY DEF ApplyEtaTask, TaskReserved, TypeOK, States, Begun, Over, Outcomes, Settlements
    <1>2. Fresh'
        BY DEF ApplyEtaTask, TaskReserved, Fresh, TypeOK, Places, Marks, Settlement, TablesMatchPool, Fresh, Begun, Over, Outcomes, IsRevoked
    <1>3. Places'
        BY DEF ApplyEtaTask, TaskReserved, Places, TypeOK, Places, Marks, Settlement, TablesMatchPool, Fresh, Begun, Over, Outcomes, IsRevoked
    <1>4. Marks'
        BY DEF ApplyEtaTask, TaskReserved, Marks, TypeOK, Places, Marks, Settlement, TablesMatchPool, Fresh, Begun, Over, Outcomes, IsRevoked
    <1>5. Settlement'
        BY DEF ApplyEtaTask, TaskReserved, Settlement, TypeOK, Places, Marks, Settlement, TablesMatchPool, Fresh, Begun, Over, Outcomes, IsRevoked
    <1>6. TablesMatchPool'
        BY DEF ApplyEtaTask, TaskReserved, TablesMatchPool, TypeOK, Places, Marks, Settlement, TablesMatchPool, Fresh, Begun, Over, Outcomes, IsRevoked
    <1>7. SettledAfterEnd'
        BY DEF ApplyEtaTask, TaskReserved, SettledAfterEnd, TypeOK, Places, Marks, Settlement, TablesMatchPool, Fresh, Begun, Over, Outcomes, IsRevoked
    <1>8. NoOrphan'
        BY DEF ApplyEtaTask, TaskReserved, NoOrphan, TypeOK, Places, Marks, Settlement, TablesMatchPool, Fresh, Begun, Over, Outcomes, IsRevoked
    <1>. QED
        BY <1>1, <1>2, <1>3, <1>4, <1>5, <1>6, <1>7, <1>8

(* _process_task, with the revoked and the expired branch of execute_using_pool,
   preserves the inductive invariant. *)
LEMMA ProcessTaskInv ==
    ASSUME Inv, NEW r \in Requests, ProcessTask(r)
    PROVE  Inv'
    <1>. USE RequestFacts, WorkerAssumption
    <1>. USE DEF Inv, brokerVars, tableVars, requestVars, poolVars, childVars, envVars, settleVars
    <1>1. TypeOK'
        BY DEF ProcessTask, AnnounceRevoked, TaskReady, Settle, Stored, RevokedAfter, TypeOK, States, Begun, Over, Outcomes, Settlements
    <1>2. Fresh'
        BY DEF ProcessTask, AnnounceRevoked, TaskReady, Settle, Stored, RevokedAfter, Fresh, TypeOK, Places, Marks, Settlement, TablesMatchPool, Fresh, Begun, Over, Outcomes, IsRevoked
    <1>3. Places'
        <2>1. r \notin alreadyRevoked /\ child[r] = "none" /\ r \in reserved
            BY DEF ProcessTask, Places
        <2>2. CASE AnnounceRevoked(r)
            BY <2>1, <2>2 DEF ProcessTask, AnnounceRevoked, TaskReady, Settle, Stored, RevokedAfter, Places, TypeOK
        <2>3. CASE ~ AnnounceRevoked(r)
            <3>1. /\ waiting' = waiting \ {r} /\ cache' = cache \union {r}
                  /\ child' = [child EXCEPT ![r] = "buffered"]
                  /\ UNCHANGED <<scheduled, started, alreadyRevoked, reserved>>
                BY <2>1, <2>3 DEF ProcessTask
            <3>2. r \notin started
                BY <2>1 DEF Places, Begun, Over, Outcomes
            <3>3. /\ child'[r] = "buffered"
                  /\ \A q \in Requests \ {r} : child'[q] = child[q]
                BY <3>1 DEF TypeOK
            <3>4. r \notin scheduled
                BY DEF ProcessTask, Places
            <3>. QED
                BY <2>1, <3>1, <3>2, <3>3, <3>4 DEF Places, TypeOK
        <2>. QED
            BY <2>2, <2>3
    <1>4. Marks'
        BY DEF ProcessTask, AnnounceRevoked, TaskReady, Settle, Stored, RevokedAfter, Marks, TypeOK, Places, Marks, Settlement, TablesMatchPool, Fresh, Begun, Over, Outcomes, IsRevoked
    <1>5. Settlement'
        <2>1. UNCHANGED settleVars \/ \E how \in Settlements : Settle(r, how)
            BY DEF ProcessTask, AnnounceRevoked, TaskReady, Settlements
        <2>. QED
            BY <2>1, SettlementStep DEF ProcessTask
    <1>6. TablesMatchPool'
        BY DEF ProcessTask, AnnounceRevoked, TaskReady, Settle, Stored, RevokedAfter, TablesMatchPool, TypeOK, Places, Marks, Settlement, TablesMatchPool, Fresh, Begun, Over, Outcomes, IsRevoked
    <1>7. SettledAfterEnd'
        BY DEF ProcessTask, AnnounceRevoked, TaskReady, Settle, Stored, RevokedAfter, SettledAfterEnd, TypeOK, Places, Marks, Settlement, TablesMatchPool, Fresh, Begun, Over, Outcomes, IsRevoked
    <1>8. NoOrphan'
        <2>1. r \notin alreadyRevoked
            BY DEF ProcessTask, Places
        <2>2. CASE AnnounceRevoked(r)
            <3>1. r \in acknowledged' /\ (\A p \in soon : p \in soon')
                BY <2>2 DEF AnnounceRevoked, Settle
            <3>2. scheduled \ {r} \subseteq scheduled'
                BY <2>2 DEF AnnounceRevoked, TaskReady
            <3>3. cache \subseteq cache' /\ waiting' = waiting \ {r}
                BY DEF ProcessTask
            <3>. QED
                BY <1>5, <3>1, <3>2, <3>3, NoOrphanStep DEF ProcessTask
        <2>3. CASE ~ AnnounceRevoked(r)
            BY <2>1, <2>3 DEF ProcessTask, NoOrphan
        <2>. QED
            BY <2>2, <2>3
    <1>. QED
        BY <1>1, <1>2, <1>3, <1>4, <1>5, <1>6, <1>7, <1>8

(* Handing a job to the pool preserves the inductive invariant. *)
LEMMA WriteJobInv ==
    ASSUME Inv, NEW r \in Requests, WriteJob(r)
    PROVE  Inv'
    <1>. USE RequestFacts, WorkerAssumption
    <1>. USE DEF Inv, brokerVars, tableVars, requestVars, poolVars, childVars, envVars, settleVars
    <1>1. TypeOK'
        BY DEF WriteJob, TypeOK, States, Begun, Over, Outcomes, Settlements
    <1>2. Fresh'
        BY DEF WriteJob, Fresh, TypeOK, Places, Marks, Settlement, TablesMatchPool, Fresh, Begun, Over, Outcomes, IsRevoked
    <1>3. Places'
        BY DEF WriteJob, Places, TypeOK, Places, Marks, Settlement, TablesMatchPool, Fresh, Begun, Over, Outcomes, IsRevoked
    <1>4. Marks'
        BY DEF WriteJob, Marks, TypeOK, Places, Marks, Settlement, TablesMatchPool, Fresh, Begun, Over, Outcomes, IsRevoked
    <1>5. Settlement'
        BY DEF WriteJob, Settlement, TypeOK, Places, Marks, Settlement, TablesMatchPool, Fresh, Begun, Over, Outcomes, IsRevoked
    <1>6. TablesMatchPool'
        BY DEF WriteJob, TablesMatchPool, TypeOK, Places, Marks, Settlement, TablesMatchPool, Fresh, Begun, Over, Outcomes, IsRevoked
    <1>7. SettledAfterEnd'
        BY DEF WriteJob, SettledAfterEnd, TypeOK, Places, Marks, Settlement, TablesMatchPool, Fresh, Begun, Over, Outcomes, IsRevoked
    <1>8. NoOrphan'
        BY DEF WriteJob, NoOrphan, TypeOK, Places, Marks, Settlement, TablesMatchPool, Fresh, Begun, Over, Outcomes, IsRevoked
    <1>. QED
        BY <1>1, <1>2, <1>3, <1>4, <1>5, <1>6, <1>7, <1>8

(* Request.on_accepted preserves the inductive invariant. *)
LEMMA OnAcceptedInv ==
    ASSUME Inv, NEW r \in Requests, OnAccepted(r)
    PROVE  Inv'
    <1>. USE RequestFacts, WorkerAssumption
    <1>. USE DEF Inv, brokerVars, tableVars, requestVars, poolVars, childVars, envVars, settleVars
    <1>1. TypeOK'
        BY DEF OnAccepted, AckEarly, TerminateStarted, AnnounceRevoked, TaskReady, Settle, Stored, TypeOK, States, Begun, Over, Outcomes, Settlements
    <1>2. Fresh'
        BY DEF OnAccepted, AckEarly, TerminateStarted, AnnounceRevoked, TaskReady, Settle, Stored, Fresh, TypeOK, Places, Marks, Settlement, TablesMatchPool, Fresh, Begun, Over, Outcomes, IsRevoked
    <1>3. Places'
        BY DEF OnAccepted, AckEarly, TerminateStarted, AnnounceRevoked, TaskReady, Settle, Stored, Places, TypeOK, Places, Marks, Settlement, TablesMatchPool, Fresh, Begun, Over, Outcomes, IsRevoked
    <1>4. Marks'
        BY DEF OnAccepted, AckEarly, TerminateStarted, AnnounceRevoked, TaskReady, Settle, Stored, Marks, TypeOK, Places, Marks, Settlement, TablesMatchPool, Fresh, Begun, Over, Outcomes, IsRevoked
    <1>5. Settlement'
        <2>1. UNCHANGED settleVars \/ \E how \in Settlements : Settle(r, how)
            BY DEF OnAccepted, AckEarly, TerminateStarted, AnnounceRevoked, TaskReady, Settlements
        <2>. QED
            BY <2>1, SettlementStep DEF OnAccepted, AckEarly
    <1>6. TablesMatchPool'
        BY DEF OnAccepted, AckEarly, TerminateStarted, AnnounceRevoked, TaskReady, Settle, Stored, TablesMatchPool, TypeOK, Places, Marks, Settlement, TablesMatchPool, Fresh, Begun, Over, Outcomes, IsRevoked
    <1>7. SettledAfterEnd'
        BY DEF OnAccepted, AckEarly, TerminateStarted, AnnounceRevoked, TaskReady, Settle, Stored, SettledAfterEnd, TypeOK, Places, Marks, Settlement, TablesMatchPool, Fresh, Begun, Over, Outcomes, IsRevoked
    <1>8. NoOrphan'
        BY DEF OnAccepted, AckEarly, TerminateStarted, AnnounceRevoked, TaskReady, Settle, Stored, NoOrphan, TypeOK, Places, Marks, Settlement, TablesMatchPool, Fresh, Begun, Over, Outcomes, IsRevoked
    <1>. QED
        BY <1>1, <1>2, <1>3, <1>4, <1>5, <1>6, <1>7, <1>8

(* Request.on_success, on_failure and on_retry preserve the inductive invariant. *)
LEMMA OnReadyInv ==
    ASSUME Inv, NEW r \in Requests, OnReady(r)
    PROVE  Inv'
    <1>. USE RequestFacts, WorkerAssumption
    <1>. USE DEF Inv, brokerVars, tableVars, requestVars, poolVars, childVars, envVars, settleVars
    <1>1. TypeOK'
        BY DEF OnReady, JobDone, Release, TaskReady, SettleIfLate, Settle, Stored, Nothing, WorkerLost, FailureSettlement, RequeueOn, TypeOK, States, Begun, Over, Outcomes, Settlements
    <1>2. Fresh'
        BY DEF OnReady, JobDone, Release, TaskReady, SettleIfLate, Settle, Stored, Nothing, WorkerLost, FailureSettlement, RequeueOn, Fresh, TypeOK, Places, Marks, Settlement, TablesMatchPool, Fresh, Begun, Over, Outcomes, IsRevoked
    <1>3. Places'
        BY DEF OnReady, JobDone, Release, TaskReady, SettleIfLate, Settle, Stored, Nothing, WorkerLost, FailureSettlement, RequeueOn, Places, TypeOK, Places, Marks, Settlement, TablesMatchPool, Fresh, Begun, Over, Outcomes, IsRevoked
    <1>4. Marks'
        BY DEF OnReady, JobDone, Release, TaskReady, SettleIfLate, Settle, Stored, Nothing, WorkerLost, FailureSettlement, RequeueOn, Marks, TypeOK, Places, Marks, Settlement, TablesMatchPool, Fresh, Begun, Over, Outcomes, IsRevoked
    <1>5. Settlement'
        <2>1. UNCHANGED settleVars \/ \E how \in Settlements : Settle(r, how)
            BY DEF OnReady, JobDone, TaskReady, SettleIfLate, Nothing, WorkerLost, FailureSettlement, RequeueOn, Settlements
        <2>. QED
            BY <2>1, SettlementStep DEF OnReady
    <1>6. TablesMatchPool'
        BY DEF OnReady, JobDone, Release, TaskReady, SettleIfLate, Settle, Stored, Nothing, WorkerLost, FailureSettlement, RequeueOn, TablesMatchPool, TypeOK, Places, Marks, Settlement, TablesMatchPool, Fresh, Begun, Over, Outcomes, IsRevoked
    <1>7. SettledAfterEnd'
        BY DEF OnReady, JobDone, Release, TaskReady, SettleIfLate, Settle, Stored, Nothing, WorkerLost, FailureSettlement, RequeueOn, SettledAfterEnd, TypeOK, Places, Marks, Settlement, TablesMatchPool, Fresh, Begun, Over, Outcomes, IsRevoked
    <1>8. NoOrphan'
        <2>1. r \in acknowledged' \/ (mode = "run" => r \notin held)
            BY DEF OnReady, JobDone, TaskReady, SettleIfLate, Nothing, WorkerLost, FailureSettlement, RequeueOn, Settle, Marks
        <2>2. \A p \in soon : p \in soon'
            BY DEF OnReady, JobDone, TaskReady, SettleIfLate, Nothing, WorkerLost, FailureSettlement, RequeueOn, Settle
        <2>. QED
            BY <1>5, <2>1, <2>2, NoOrphanStep DEF OnReady, JobDone, AnnounceRevoked, TaskReady
    <1>. QED
        BY <1>1, <1>2, <1>3, <1>4, <1>5, <1>6, <1>7, <1>8

(* The WorkerLostError branch of Request.on_failure preserves the inductive
   invariant. *)
LEMMA OnProcessDownInv ==
    ASSUME Inv, NEW r \in Requests, OnProcessDown(r)
    PROVE  Inv'
    <1>. USE RequestFacts, WorkerAssumption
    <1>. USE DEF Inv, brokerVars, tableVars, requestVars, poolVars, childVars, envVars, settleVars
    <1>1. TypeOK'
        BY DEF OnProcessDown, JobDone, Release, AnnounceRevoked, TaskReady, SettleIfLate, Settle, Stored, Nothing, WorkerLost, FailureSettlement, RequeueOn, TypeOK, States, Begun, Over, Outcomes, Settlements
    <1>2. Fresh'
        BY DEF OnProcessDown, JobDone, Release, AnnounceRevoked, TaskReady, SettleIfLate, Settle, Stored, Nothing, WorkerLost, FailureSettlement, RequeueOn, Fresh, TypeOK, Places, Marks, Settlement, TablesMatchPool, Fresh, Begun, Over, Outcomes, IsRevoked
    <1>3. Places'
        BY DEF OnProcessDown, JobDone, Release, AnnounceRevoked, TaskReady, SettleIfLate, Settle, Stored, Nothing, WorkerLost, FailureSettlement, RequeueOn, Places, TypeOK, Places, Marks, Settlement, TablesMatchPool, Fresh, Begun, Over, Outcomes, IsRevoked
    <1>4. Marks'
        BY DEF OnProcessDown, JobDone, Release, AnnounceRevoked, TaskReady, SettleIfLate, Settle, Stored, Nothing, WorkerLost, FailureSettlement, RequeueOn, Marks, TypeOK, Places, Marks, Settlement, TablesMatchPool, Fresh, Begun, Over, Outcomes, IsRevoked
    <1>5. Settlement'
        <2>1. UNCHANGED settleVars \/ \E how \in Settlements : Settle(r, how)
            BY DEF OnProcessDown, JobDone, AnnounceRevoked, TaskReady, SettleIfLate, Nothing, WorkerLost, FailureSettlement, RequeueOn, Settlements
        <2>. QED
            BY <2>1, SettlementStep DEF OnProcessDown
    <1>6. TablesMatchPool'
        BY DEF OnProcessDown, JobDone, Release, AnnounceRevoked, TaskReady, SettleIfLate, Settle, Stored, Nothing, WorkerLost, FailureSettlement, RequeueOn, TablesMatchPool, TypeOK, Places, Marks, Settlement, TablesMatchPool, Fresh, Begun, Over, Outcomes, IsRevoked
    <1>7. SettledAfterEnd'
        BY DEF OnProcessDown, JobDone, Release, AnnounceRevoked, TaskReady, SettleIfLate, Settle, Stored, Nothing, WorkerLost, FailureSettlement, RequeueOn, SettledAfterEnd, TypeOK, Places, Marks, Settlement, TablesMatchPool, Fresh, Begun, Over, Outcomes, IsRevoked
    <1>8. NoOrphan'
        <2>1. r \in acknowledged' \/ (mode = "run" => r \notin held)
            BY DEF OnProcessDown, JobDone, AnnounceRevoked, TaskReady, SettleIfLate, Nothing, WorkerLost, FailureSettlement, RequeueOn, Settle, Marks
        <2>2. \A p \in soon : p \in soon'
            BY DEF OnProcessDown, JobDone, AnnounceRevoked, TaskReady, SettleIfLate, Nothing, WorkerLost, FailureSettlement, RequeueOn, Settle
        <2>. QED
            BY <1>5, <2>1, <2>2, NoOrphanStep DEF OnProcessDown, JobDone, AnnounceRevoked, TaskReady
    <1>. QED
        BY <1>1, <1>2, <1>3, <1>4, <1>5, <1>6, <1>7, <1>8

(* Request.on_timeout for the hard limit preserves the inductive invariant. *)
LEMMA OnHardTimeoutInv ==
    ASSUME Inv, NEW r \in Requests, OnHardTimeout(r)
    PROVE  Inv'
    <1>. USE RequestFacts, WorkerAssumption
    <1>. USE DEF Inv, brokerVars, tableVars, requestVars, poolVars, childVars, envVars, settleVars
    <1>1. TypeOK'
        BY DEF OnHardTimeout, JobDone, Release, TaskReady, SettleIfLate, Settle, Stored, FailureSettlement, RequeueOn, TypeOK, States, Begun, Over, Outcomes, Settlements
    <1>2. Fresh'
        BY DEF OnHardTimeout, JobDone, Release, TaskReady, SettleIfLate, Settle, Stored, FailureSettlement, RequeueOn, Fresh, TypeOK, Places, Marks, Settlement, TablesMatchPool, Fresh, Begun, Over, Outcomes, IsRevoked
    <1>3. Places'
        BY DEF OnHardTimeout, JobDone, Release, TaskReady, SettleIfLate, Settle, Stored, FailureSettlement, RequeueOn, Places, TypeOK, Places, Marks, Settlement, TablesMatchPool, Fresh, Begun, Over, Outcomes, IsRevoked
    <1>4. Marks'
        BY DEF OnHardTimeout, JobDone, Release, TaskReady, SettleIfLate, Settle, Stored, FailureSettlement, RequeueOn, Marks, TypeOK, Places, Marks, Settlement, TablesMatchPool, Fresh, Begun, Over, Outcomes, IsRevoked
    <1>5. Settlement'
        <2>1. UNCHANGED settleVars \/ \E how \in Settlements : Settle(r, how)
            BY DEF OnHardTimeout, JobDone, TaskReady, SettleIfLate, FailureSettlement, RequeueOn, Settlements
        <2>. QED
            BY <2>1, SettlementStep DEF OnHardTimeout
    <1>6. TablesMatchPool'
        BY DEF OnHardTimeout, JobDone, Release, TaskReady, SettleIfLate, Settle, Stored, FailureSettlement, RequeueOn, TablesMatchPool, TypeOK, Places, Marks, Settlement, TablesMatchPool, Fresh, Begun, Over, Outcomes, IsRevoked
    <1>7. SettledAfterEnd'
        BY DEF OnHardTimeout, JobDone, Release, TaskReady, SettleIfLate, Settle, Stored, FailureSettlement, RequeueOn, SettledAfterEnd, TypeOK, Places, Marks, Settlement, TablesMatchPool, Fresh, Begun, Over, Outcomes, IsRevoked
    <1>8. NoOrphan'
        <2>1. r \in acknowledged' \/ (mode = "run" => r \notin held)
            BY DEF OnHardTimeout, JobDone, TaskReady, SettleIfLate, FailureSettlement, RequeueOn, Settle, Marks
        <2>2. \A p \in soon : p \in soon'
            BY DEF OnHardTimeout, JobDone, TaskReady, SettleIfLate, FailureSettlement, RequeueOn, Settle
        <2>. QED
            BY <1>5, <2>1, <2>2, NoOrphanStep DEF OnHardTimeout, JobDone, AnnounceRevoked, TaskReady
    <1>. QED
        BY <1>1, <1>2, <1>3, <1>4, <1>5, <1>6, <1>7, <1>8

(* Running the queue of deferred calls preserves the inductive invariant. *)
LEMMA CallSoonInv ==
    ASSUME Inv, NEW p \in soon, CallSoon(p)
    PROVE  Inv'
    <1>. USE RequestFacts, WorkerAssumption
    <1>. USE DEF Inv, brokerVars, tableVars, requestVars, poolVars, childVars, envVars, settleVars
    <1>1. TypeOK'
        BY DEF CallSoon, TypeOK, States, Begun, Over, Outcomes, Settlements
    <1>2. Fresh'
        BY DEF CallSoon, Fresh, TypeOK, Places, Marks, Settlement, TablesMatchPool, Fresh, Begun, Over, Outcomes, IsRevoked
    <1>3. Places'
        BY DEF CallSoon, Places, TypeOK, Places, Marks, Settlement, TablesMatchPool, Fresh, Begun, Over, Outcomes, IsRevoked
    <1>4. Marks'
        BY DEF CallSoon, Marks, TypeOK, Places, Marks, Settlement, TablesMatchPool, Fresh, Begun, Over, Outcomes, IsRevoked
    <1>5. Settlement'
        <2>1. /\ soon' = soon \ {p} /\ held' = held \ {p[1]}
              /\ UNCHANGED <<acknowledged, requeued, connected>>
            BY DEF CallSoon
        <2>2. ASSUME NEW q \in held', q \in acknowledged
              PROVE  \E how \in Settlements : <<q, how>> \in soon'
            <3>1. PICK how \in Settlements : <<q, how>> \in soon
                BY <2>1, <2>2 DEF Settlement
            <3>2. <<q, how>> # p
                BY <2>1
            <3>. QED
                BY <2>1, <3>1, <3>2
        <2>. QED
            BY <2>1, <2>2 DEF Settlement
    <1>6. TablesMatchPool'
        BY DEF CallSoon, TablesMatchPool, TypeOK, Places, Marks, Settlement, TablesMatchPool, Fresh, Begun, Over, Outcomes, IsRevoked
    <1>7. SettledAfterEnd'
        BY DEF CallSoon, SettledAfterEnd, TypeOK, Places, Marks, Settlement, TablesMatchPool, Fresh, Begun, Over, Outcomes, IsRevoked
    <1>8. NoOrphan'
        BY DEF CallSoon, NoOrphan, TypeOK, Places, Marks, Settlement, TablesMatchPool, Fresh, Begun, Over, Outcomes, IsRevoked
    <1>. QED
        BY <1>1, <1>2, <1>3, <1>4, <1>5, <1>6, <1>7, <1>8

(* The revoke command, with and without terminate, preserves the inductive
   invariant. *)
LEMMA RevokeInv ==
    ASSUME Inv, NEW i \in Tasks, NEW t \in BOOLEAN, Revoke(i, t)
    PROVE  Inv'
    <1>. USE RequestFacts, WorkerAssumption
    <1>. USE DEF Inv, brokerVars, tableVars, requestVars, poolVars, childVars, envVars, settleVars
    <1>1. TypeOK'
        BY DEF Revoke, TerminateStarted, AnnounceRevoked, TaskReady, Settle, Stored, TypeOK, States, Begun, Over, Outcomes, Settlements
    <1>2. Fresh'
        BY DEF Revoke, TerminateStarted, AnnounceRevoked, TaskReady, Settle, Stored, Fresh, TypeOK, Places, Marks, Settlement, TablesMatchPool, Fresh, Begun, Over, Outcomes, IsRevoked
    <1>3. Places'
        BY DEF Revoke, TerminateStarted, AnnounceRevoked, TaskReady, Settle, Stored, Places, TypeOK, Places, Marks, Settlement, TablesMatchPool, Fresh, Begun, Over, Outcomes, IsRevoked
    <1>4. Marks'
        BY DEF Revoke, TerminateStarted, AnnounceRevoked, TaskReady, Settle, Stored, Marks, TypeOK, Places, Marks, Settlement, TablesMatchPool, Fresh, Begun, Over, Outcomes, IsRevoked
    <1>5. Settlement'
        <2>1. UNCHANGED settleVars
              \/ \E r \in Requests, how \in Settlements : Settle(r, how)
            BY DEF Revoke, TerminateStarted, AnnounceRevoked, TaskReady, Settlements, TypeOK
        <2>2. UNCHANGED <<held, connected>>
            BY DEF Revoke
        <2>3. CASE UNCHANGED settleVars
            BY <2>2, <2>3 DEF Settlement
        <2>4. ASSUME NEW r \in Requests, NEW how \in Settlements, Settle(r, how)
              PROVE  Settlement'
            BY <2>2, <2>4, SettlementStep
        <2>. QED
            BY <2>1, <2>3, <2>4
    <1>6. TablesMatchPool'
        BY DEF Revoke, TerminateStarted, AnnounceRevoked, TaskReady, Settle, Stored, TablesMatchPool, TypeOK, Places, Marks, Settlement, TablesMatchPool, Fresh, Begun, Over, Outcomes, IsRevoked
    <1>7. SettledAfterEnd'
        BY DEF Revoke, TerminateStarted, AnnounceRevoked, TaskReady, Settle, Stored, SettledAfterEnd, TypeOK, Places, Marks, Settlement, TablesMatchPool, Fresh, Begun, Over, Outcomes, IsRevoked
    <1>8. NoOrphan'
        BY DEF Revoke, TerminateStarted, AnnounceRevoked, TaskReady, Settle, Stored, NoOrphan, TypeOK, Places, Marks, Settlement, TablesMatchPool, Fresh, Begun, Over, Outcomes, IsRevoked
    <1>. QED
        BY <1>1, <1>2, <1>3, <1>4, <1>5, <1>6, <1>7, <1>8

(* The restart of the consumer after a lost connection preserves the inductive
   invariant. *)
LEMMA RestartInv ==
    ASSUME Inv, Restart
    PROVE  Inv'
    <1>. USE RequestFacts, WorkerAssumption
    <1>. USE DEF Inv, brokerVars, tableVars, requestVars, poolVars, childVars, envVars, settleVars
    <1>1. TypeOK'
        BY DEF Restart, Cancel, Flush, Stored, TypeOK, States, Begun, Over, Outcomes, Settlements
    <1>2. Fresh'
        BY DEF Restart, Cancel, Flush, Stored, Fresh, TypeOK, Places, Marks, Settlement, TablesMatchPool, Fresh, Begun, Over, Outcomes, IsRevoked
    <1>3. Places'
        BY DEF Restart, Cancel, Flush, Stored, Places, TypeOK, Places, Marks, Settlement, TablesMatchPool, Fresh, Begun, Over, Outcomes, IsRevoked
    <1>4. Marks'
        BY DEF Restart, Cancel, Flush, Stored, Marks, TypeOK, Places, Marks, Settlement, TablesMatchPool, Fresh, Begun, Over, Outcomes, IsRevoked
    <1>5. Settlement'
        BY DEF Restart, Cancel, Flush, Stored, Settlement, TypeOK, Places, Marks, Settlement, TablesMatchPool, Fresh, Begun, Over, Outcomes, IsRevoked
    <1>6. TablesMatchPool'
        BY DEF Restart, Cancel, Flush, Stored, TablesMatchPool, TypeOK, Places, Marks, Settlement, TablesMatchPool, Fresh, Begun, Over, Outcomes, IsRevoked
    <1>7. SettledAfterEnd'
        BY DEF Restart, Cancel, Flush, Stored, SettledAfterEnd, TypeOK, Places, Marks, Settlement, TablesMatchPool, Fresh, Begun, Over, Outcomes, IsRevoked
    <1>8. NoOrphan'
        BY DEF Restart, Cancel, Flush, Stored, NoOrphan, TypeOK, Places, Marks, Settlement, TablesMatchPool, Fresh, Begun, Over, Outcomes, IsRevoked
    <1>. QED
        BY <1>1, <1>2, <1>3, <1>4, <1>5, <1>6, <1>7, <1>8

(* A cold shutdown preserves the inductive invariant. *)
LEMMA ColdShutdownInv ==
    ASSUME Inv, ColdShutdown
    PROVE  Inv'
    <1>. USE RequestFacts, WorkerAssumption
    <1>. USE DEF Inv, brokerVars, tableVars, requestVars, poolVars, childVars, envVars, settleVars
    <1>1. TypeOK'
        BY DEF ColdShutdown, Cancel, TaskReady, Stored, TypeOK, States, Begun, Over, Outcomes, Settlements
    <1>2. Fresh'
        BY DEF ColdShutdown, Cancel, TaskReady, Stored, Fresh, TypeOK, Places, Marks, Settlement, TablesMatchPool, Fresh, Begun, Over, Outcomes, IsRevoked
    <1>3. Places'
        BY DEF ColdShutdown, Cancel, TaskReady, Stored, Places, TypeOK, Places, Marks, Settlement, TablesMatchPool, Fresh, Begun, Over, Outcomes, IsRevoked
    <1>4. Marks'
        BY DEF ColdShutdown, Cancel, TaskReady, Stored, Marks, TypeOK, Places, Marks, Settlement, TablesMatchPool, Fresh, Begun, Over, Outcomes, IsRevoked
    <1>5. Settlement'
        BY DEF ColdShutdown, Cancel, TaskReady, Stored, Settlement, TypeOK, Places, Marks, Settlement, TablesMatchPool, Fresh, Begun, Over, Outcomes, IsRevoked
    <1>6. TablesMatchPool'
        BY DEF ColdShutdown, Cancel, TaskReady, Stored, TablesMatchPool, TypeOK, Places, Marks, Settlement, TablesMatchPool, Fresh, Begun, Over, Outcomes, IsRevoked
    <1>7. SettledAfterEnd'
        BY DEF ColdShutdown, Cancel, TaskReady, Stored, SettledAfterEnd, TypeOK, Places, Marks, Settlement, TablesMatchPool, Fresh, Begun, Over, Outcomes, IsRevoked
    <1>8. NoOrphan'
        BY DEF ColdShutdown, Cancel, TaskReady, Stored, NoOrphan, TypeOK, Places, Marks, Settlement, TablesMatchPool, Fresh, Begun, Over, Outcomes, IsRevoked
    <1>. QED
        BY <1>1, <1>2, <1>3, <1>4, <1>5, <1>6, <1>7, <1>8

(* The loss of the broker connection preserves the inductive invariant. *)
LEMMA ConnectionLostInv ==
    ASSUME Inv, ConnectionLost
    PROVE  Inv'
    <1>. USE RequestFacts, WorkerAssumption
    <1>. USE DEF Inv, brokerVars, tableVars, requestVars, poolVars, childVars, envVars, settleVars
    <1>1. TypeOK'
        <2>1. \A i \in Tasks : queue[i] + Copies(i) \in Nat
            BY CopiesFacts DEF TypeOK
        <2>. HIDE DEF Inv
        <2>2. queue' \in [Tasks -> Nat] /\ held' = {} /\ connected' = FALSE
            BY <2>1 DEF ConnectionLost, ReturnHeld
        <2>3. drops' \in Nat /\ mode' \in {"run", "cold", "gone"}
            BY DEF ConnectionLost, Inv, TypeOK
        <2>. QED
            BY <2>2, <2>3 DEF ConnectionLost, Inv, TypeOK
    <1>2. Fresh'
        BY DEF ConnectionLost, ReturnHeld, Fresh, TypeOK, Places, Marks, Settlement, TablesMatchPool, Fresh, Begun, Over, Outcomes, IsRevoked
    <1>3. Places'
        BY DEF ConnectionLost, ReturnHeld, Places, TypeOK, Places, Marks, Settlement, TablesMatchPool, Fresh, Begun, Over, Outcomes, IsRevoked
    <1>4. Marks'
        BY DEF ConnectionLost, ReturnHeld, Marks, TypeOK, Places, Marks, Settlement, TablesMatchPool, Fresh, Begun, Over, Outcomes, IsRevoked
    <1>5. Settlement'
        BY DEF ConnectionLost, ReturnHeld, Settlement, TypeOK, Places, Marks, Settlement, TablesMatchPool, Fresh, Begun, Over, Outcomes, IsRevoked
    <1>6. TablesMatchPool'
        BY DEF ConnectionLost, ReturnHeld, TablesMatchPool, TypeOK, Places, Marks, Settlement, TablesMatchPool, Fresh, Begun, Over, Outcomes, IsRevoked
    <1>7. SettledAfterEnd'
        BY DEF ConnectionLost, ReturnHeld, SettledAfterEnd, TypeOK, Places, Marks, Settlement, TablesMatchPool, Fresh, Begun, Over, Outcomes, IsRevoked
    <1>8. NoOrphan'
        BY DEF ConnectionLost, ReturnHeld, NoOrphan, TypeOK, Places, Marks, Settlement, TablesMatchPool, Fresh, Begun, Over, Outcomes, IsRevoked
    <1>. QED
        BY <1>1, <1>2, <1>3, <1>4, <1>5, <1>6, <1>7, <1>8

(* The end of the worker process preserves the inductive invariant. *)
LEMMA ExitInv ==
    ASSUME Inv, Exit
    PROVE  Inv'
    <1>. USE RequestFacts, WorkerAssumption
    <1>. USE DEF Inv, brokerVars, tableVars, requestVars, poolVars, childVars, envVars, settleVars
    <1>1. TypeOK'
        <2>1. \A i \in Tasks : queue[i] + Copies(i) \in Nat
            BY CopiesFacts DEF TypeOK
        <2>. HIDE DEF Inv
        <2>2. queue' \in [Tasks -> Nat] /\ held' = {} /\ connected' = FALSE
            BY <2>1 DEF Exit, ReturnHeld
        <2>3. drops' \in Nat /\ mode' \in {"run", "cold", "gone"}
            BY DEF Exit, Inv, TypeOK
        <2>. QED
            BY <2>2, <2>3 DEF Exit, Inv, TypeOK
    <1>2. Fresh'
        BY DEF Exit, ReturnHeld, Fresh, TypeOK, Places, Marks, Settlement, TablesMatchPool, Fresh, Begun, Over, Outcomes, IsRevoked
    <1>3. Places'
        BY DEF Exit, ReturnHeld, Places, TypeOK, Places, Marks, Settlement, TablesMatchPool, Fresh, Begun, Over, Outcomes, IsRevoked
    <1>4. Marks'
        BY DEF Exit, ReturnHeld, Marks, TypeOK, Places, Marks, Settlement, TablesMatchPool, Fresh, Begun, Over, Outcomes, IsRevoked
    <1>5. Settlement'
        BY DEF Exit, ReturnHeld, Settlement, TypeOK, Places, Marks, Settlement, TablesMatchPool, Fresh, Begun, Over, Outcomes, IsRevoked
    <1>6. TablesMatchPool'
        BY DEF Exit, ReturnHeld, TablesMatchPool, TypeOK, Places, Marks, Settlement, TablesMatchPool, Fresh, Begun, Over, Outcomes, IsRevoked
    <1>7. SettledAfterEnd'
        BY DEF Exit, ReturnHeld, SettledAfterEnd, TypeOK, Places, Marks, Settlement, TablesMatchPool, Fresh, Begun, Over, Outcomes, IsRevoked
    <1>8. NoOrphan'
        BY DEF Exit, ReturnHeld, NoOrphan, TypeOK, Places, Marks, Settlement, TablesMatchPool, Fresh, Begun, Over, Outcomes, IsRevoked
    <1>. QED
        BY <1>1, <1>2, <1>3, <1>4, <1>5, <1>6, <1>7, <1>8

(* A child that starts a task preserves the inductive invariant. *)
LEMMA ChildStartInv ==
    ASSUME Inv, NEW r \in Requests, ChildStart(r)
    PROVE  Inv'
    <1>. USE RequestFacts, WorkerAssumption
    <1>. USE DEF Inv, brokerVars, tableVars, requestVars, poolVars, childVars, envVars, settleVars
    <1>1. TypeOK'
        BY DEF ChildStart, TypeOK, States, Begun, Over, Outcomes, Settlements
    <1>2. Fresh'
        BY DEF ChildStart, Fresh, TypeOK, Places, Marks, Settlement, TablesMatchPool, Fresh, Begun, Over, Outcomes, IsRevoked
    <1>3. Places'
        BY DEF ChildStart, Places, TypeOK, Places, Marks, Settlement, TablesMatchPool, Fresh, Begun, Over, Outcomes, IsRevoked
    <1>4. Marks'
        BY DEF ChildStart, Marks, TypeOK, Places, Marks, Settlement, TablesMatchPool, Fresh, Begun, Over, Outcomes, IsRevoked
    <1>5. Settlement'
        BY DEF ChildStart, Settlement, TypeOK, Places, Marks, Settlement, TablesMatchPool, Fresh, Begun, Over, Outcomes, IsRevoked
    <1>6. TablesMatchPool'
        BY DEF ChildStart, TablesMatchPool, TypeOK, Places, Marks, Settlement, TablesMatchPool, Fresh, Begun, Over, Outcomes, IsRevoked
    <1>7. SettledAfterEnd'
        BY DEF ChildStart, SettledAfterEnd, TypeOK, Places, Marks, Settlement, TablesMatchPool, Fresh, Begun, Over, Outcomes, IsRevoked
    <1>8. NoOrphan'
        BY DEF ChildStart, NoOrphan, TypeOK, Places, Marks, Settlement, TablesMatchPool, Fresh, Begun, Over, Outcomes, IsRevoked
    <1>. QED
        BY <1>1, <1>2, <1>3, <1>4, <1>5, <1>6, <1>7, <1>8

(* A child that ends a task preserves the inductive invariant. *)
LEMMA ChildEndInv ==
    ASSUME Inv, NEW r \in Requests, NEW how \in Ends, ChildEnd(r, how)
    PROVE  Inv'
    <1>. USE RequestFacts, WorkerAssumption
    <1>. USE DEF Inv, brokerVars, tableVars, requestVars, poolVars, childVars, envVars, settleVars
    <1>1. TypeOK'
        <2>1. queue' \in [Tasks -> Nat] /\ child' \in [Requests -> {"none", "buffered", "piped"} \union Begun]
            BY DEF ChildEnd, Stored, TypeOK, States, Begun, Over, Outcomes, Settlements
        <2>2. result' \in [Tasks -> States]
            BY DEF ChildEnd, Stored, TracedState, TypeOK, States
        <2>. QED
            BY <2>1, <2>2 DEF ChildEnd, TypeOK
    <1>2. Fresh'
        BY DEF ChildEnd, Stored, Fresh, TypeOK, Places, Marks, Settlement, TablesMatchPool, Fresh, Begun, Over, Outcomes, IsRevoked
    <1>3. Places'
        BY DEF ChildEnd, Stored, Places, TypeOK, Places, Marks, Settlement, TablesMatchPool, Fresh, Begun, Over, Outcomes, IsRevoked
    <1>4. Marks'
        BY DEF ChildEnd, Stored, Marks, TypeOK, Places, Marks, Settlement, TablesMatchPool, Fresh, Begun, Over, Outcomes, IsRevoked
    <1>5. Settlement'
        BY DEF ChildEnd, Stored, Settlement, TypeOK, Places, Marks, Settlement, TablesMatchPool, Fresh, Begun, Over, Outcomes, IsRevoked
    <1>6. TablesMatchPool'
        BY DEF ChildEnd, Stored, TablesMatchPool, TypeOK, Places, Marks, Settlement, TablesMatchPool, Fresh, Begun, Over, Outcomes, IsRevoked
    <1>7. SettledAfterEnd'
        BY DEF ChildEnd, Stored, SettledAfterEnd, TypeOK, Places, Marks, Settlement, TablesMatchPool, Fresh, Begun, Over, Outcomes, IsRevoked
    <1>8. NoOrphan'
        BY DEF ChildEnd, Stored, NoOrphan, TypeOK, Places, Marks, Settlement, TablesMatchPool, Fresh, Begun, Over, Outcomes, IsRevoked
    <1>. QED
        BY <1>1, <1>2, <1>3, <1>4, <1>5, <1>6, <1>7, <1>8

(* A child that dies preserves the inductive invariant. *)
LEMMA ChildDiesInv ==
    ASSUME Inv, NEW r \in Requests, ChildDies(r)
    PROVE  Inv'
    <1>. USE RequestFacts, WorkerAssumption
    <1>. USE DEF Inv, brokerVars, tableVars, requestVars, poolVars, childVars, envVars, settleVars
    <1>1. TypeOK'
        BY DEF ChildDies, TypeOK, States, Begun, Over, Outcomes, Settlements
    <1>2. Fresh'
        BY DEF ChildDies, Fresh, TypeOK, Places, Marks, Settlement, TablesMatchPool, Fresh, Begun, Over, Outcomes, IsRevoked
    <1>3. Places'
        BY DEF ChildDies, Places, TypeOK, Places, Marks, Settlement, TablesMatchPool, Fresh, Begun, Over, Outcomes, IsRevoked
    <1>4. Marks'
        BY DEF ChildDies, Marks, TypeOK, Places, Marks, Settlement, TablesMatchPool, Fresh, Begun, Over, Outcomes, IsRevoked
    <1>5. Settlement'
        BY DEF ChildDies, Settlement, TypeOK, Places, Marks, Settlement, TablesMatchPool, Fresh, Begun, Over, Outcomes, IsRevoked
    <1>6. TablesMatchPool'
        BY DEF ChildDies, TablesMatchPool, TypeOK, Places, Marks, Settlement, TablesMatchPool, Fresh, Begun, Over, Outcomes, IsRevoked
    <1>7. SettledAfterEnd'
        BY DEF ChildDies, SettledAfterEnd, TypeOK, Places, Marks, Settlement, TablesMatchPool, Fresh, Begun, Over, Outcomes, IsRevoked
    <1>8. NoOrphan'
        BY DEF ChildDies, NoOrphan, TypeOK, Places, Marks, Settlement, TablesMatchPool, Fresh, Begun, Over, Outcomes, IsRevoked
    <1>. QED
        BY <1>1, <1>2, <1>3, <1>4, <1>5, <1>6, <1>7, <1>8

(* The passing of an expiry time preserves the inductive invariant. *)
LEMMA ExpireInv ==
    ASSUME Inv, NEW i \in Tasks, Expire(i)
    PROVE  Inv'
    <1>. USE RequestFacts, WorkerAssumption
    <1>. USE DEF Inv, brokerVars, tableVars, requestVars, poolVars, childVars, envVars, settleVars
    <1>1. TypeOK'
        BY DEF Expire, TypeOK, States, Begun, Over, Outcomes, Settlements
    <1>2. Fresh'
        BY DEF Expire, Fresh, TypeOK, Places, Marks, Settlement, TablesMatchPool, Fresh, Begun, Over, Outcomes, IsRevoked
    <1>3. Places'
        BY DEF Expire, Places, TypeOK, Places, Marks, Settlement, TablesMatchPool, Fresh, Begun, Over, Outcomes, IsRevoked
    <1>4. Marks'
        BY DEF Expire, Marks, TypeOK, Places, Marks, Settlement, TablesMatchPool, Fresh, Begun, Over, Outcomes, IsRevoked
    <1>5. Settlement'
        BY DEF Expire, Settlement, TypeOK, Places, Marks, Settlement, TablesMatchPool, Fresh, Begun, Over, Outcomes, IsRevoked
    <1>6. TablesMatchPool'
        BY DEF Expire, TablesMatchPool, TypeOK, Places, Marks, Settlement, TablesMatchPool, Fresh, Begun, Over, Outcomes, IsRevoked
    <1>7. SettledAfterEnd'
        BY DEF Expire, SettledAfterEnd, TypeOK, Places, Marks, Settlement, TablesMatchPool, Fresh, Begun, Over, Outcomes, IsRevoked
    <1>8. NoOrphan'
        BY DEF Expire, NoOrphan, TypeOK, Places, Marks, Settlement, TablesMatchPool, Fresh, Begun, Over, Outcomes, IsRevoked
    <1>. QED
        BY <1>1, <1>2, <1>3, <1>4, <1>5, <1>6, <1>7, <1>8

(* Every step of the worker preserves the inductive invariant: one case for each
   disjunct of Next. *)
LEMMA StepInv == Inv /\ [Next]_vars => Inv'
    <1>. SUFFICES ASSUME Inv, [Next]_vars PROVE Inv'
        OBVIOUS
    <1>1. CASE UNCHANGED vars
        <2>1. TypeOK' /\ Fresh' /\ Places' /\ Marks' /\ Settlement'
            BY <1>1 DEF vars, brokerVars, tableVars, requestVars, poolVars, childVars,
                        envVars, Inv, TypeOK, Fresh, Places, Marks, Settlement
        <2>2. TablesMatchPool' /\ SettledAfterEnd' /\ NoOrphan'
            BY <1>1 DEF vars, brokerVars, tableVars, requestVars, poolVars, childVars,
                        envVars, Inv, TablesMatchPool, SettledAfterEnd, NoOrphan
        <2>. QED
            BY <2>1, <2>2 DEF Inv
    <1>2. ASSUME NEW i \in Tasks,
                 Deliver(i) \/ Revoke(i, FALSE) \/ Revoke(i, TRUE) \/ Expire(i)
          PROVE  Inv'
        BY <1>2, DeliverInv, RevokeInv, ExpireInv
    <1>3. ASSUME NEW r \in Requests,
                 \/ ApplyEtaTask(r) \/ ProcessTask(r) \/ WriteJob(r)
                 \/ OnAccepted(r) \/ OnReady(r) \/ OnProcessDown(r) \/ OnHardTimeout(r)
                 \/ ChildStart(r) \/ ChildDies(r)
                 \/ \E how \in Ends : ChildEnd(r, how)
          PROVE  Inv'
        BY <1>3, ApplyEtaTaskInv, ProcessTaskInv, WriteJobInv, OnAcceptedInv, OnReadyInv,
           OnProcessDownInv, OnHardTimeoutInv, ChildStartInv, ChildDiesInv, ChildEndInv
    <1>4. ASSUME NEW p \in soon, CallSoon(p) PROVE Inv'
        BY <1>4, CallSoonInv
    <1>5. CASE ConnectionLost \/ Restart \/ ColdShutdown \/ Exit
        BY <1>5, ConnectionLostInv, RestartInv, ColdShutdownInv, ExitInv
    <1>. QED
        BY <1>1, <1>2, <1>3, <1>4, <1>5 DEF Next

(* The inductive invariant holds in every reachable state. *)
LEMMA Invariance == Spec => []Inv
    BY InitInv, StepInv, PTL DEF Spec

(* No delivery the broker still waits for is left without an owner in the  *)
(* worker, whatever the loop, the children and the connection do.          *)
THEOREM Safety == Spec => []NoOrphan
    <1>1. Inv => NoOrphan
        BY DEF Inv
    <1>. QED
        BY <1>1, Invariance, PTL

(* The worker's tables and its pool agree: every table has its type, no    *)
(* request is reserved or active without a job, and no message is settled  *)
(* before its time.                                                        *)
THEOREM TablesAlwaysAgree == Spec => []TablesAgree
    <1>1. Inv => TablesAgree
        BY DEF Inv, TablesAgree
    <1>. QED
        BY <1>1, Invariance, PTL

-----------------------------------------------------------------------------
(* A request that was acked or dead-lettered after its end.                *)
Concluded(r) ==
    r \in acknowledged \ requeued /\ (child[r] \in Over \/ r \in alreadyRevoked)

(* No step takes back a conclusion, and the options do not change.         *)
LEMMA ConcludedIsStable ==
    ASSUME Inv, Next
    PROVE  /\ opt' = opt
           /\ \A q \in Requests : Concluded(q) => Concluded(q)'
    <1>. DEFINE Kept == /\ opt' = opt
                       /\ \A q \in Requests : Concluded(q) => Concluded(q)'
    <1>. USE DEF Inv, TypeOK, Concluded, Over, Begun, Outcomes, brokerVars, tableVars,
                 requestVars, poolVars, childVars, envVars, settleVars
    <1>1. ASSUME NEW i \in Tasks, Deliver(i)
          PROVE  Kept
        BY <1>1 DEF Deliver, AnnounceRevoked, Settle
    <1>2. ASSUME NEW r \in Requests, ApplyEtaTask(r)
          PROVE  Kept
        BY <1>2 DEF ApplyEtaTask
    <1>3. ASSUME NEW r \in Requests, ProcessTask(r)
          PROVE  Kept
        BY <1>3 DEF ProcessTask, AnnounceRevoked, Settle, Places
    <1>4. ASSUME NEW r \in Requests, WriteJob(r)
          PROVE  Kept
        BY <1>4 DEF WriteJob
    <1>5. ASSUME NEW r \in Requests, OnAccepted(r)
          PROVE  Kept
        BY <1>5 DEF OnAccepted, AckEarly, TerminateStarted, AnnounceRevoked, Settle
    <1>6. ASSUME NEW r \in Requests, OnReady(r)
          PROVE  Kept
        BY <1>6 DEF OnReady, JobDone, SettleIfLate, Settle, Nothing, WorkerLost
    <1>7. ASSUME NEW r \in Requests, OnProcessDown(r)
          PROVE  Kept
        BY <1>7 DEF OnProcessDown, JobDone, AnnounceRevoked, SettleIfLate, Settle, Nothing, WorkerLost
    <1>8. ASSUME NEW r \in Requests, OnHardTimeout(r)
          PROVE  Kept
        BY <1>8 DEF OnHardTimeout, JobDone, SettleIfLate, Settle
    <1>9. ASSUME NEW p \in soon, CallSoon(p)
          PROVE  Kept
        BY <1>9 DEF CallSoon
    <1>10. ASSUME NEW i \in Tasks, NEW t \in BOOLEAN, Revoke(i, t)
          PROVE  Kept
        BY <1>10 DEF Revoke, TerminateStarted, AnnounceRevoked, Settle
    <1>11. ASSUME Restart
          PROVE  Kept
        BY <1>11 DEF Restart, Cancel, Flush
    <1>12. ASSUME ColdShutdown
          PROVE  Kept
        BY <1>12 DEF ColdShutdown, Cancel
    <1>13. ASSUME ConnectionLost
          PROVE  Kept
        BY <1>13 DEF ConnectionLost, ReturnHeld
    <1>14. ASSUME Exit
          PROVE  Kept
        BY <1>14 DEF Exit, ReturnHeld
    <1>15. ASSUME NEW r \in Requests, ChildStart(r)
          PROVE  Kept
        BY <1>15 DEF ChildStart
    <1>16. ASSUME NEW r \in Requests, NEW how \in Ends, ChildEnd(r, how)
          PROVE  Kept
        BY <1>16 DEF ChildEnd
    <1>17. ASSUME NEW r \in Requests, ChildDies(r)
          PROVE  Kept
        BY <1>17 DEF ChildDies
    <1>18. ASSUME NEW i \in Tasks, Expire(i)
          PROVE  Kept
        BY <1>18 DEF Expire
    <1>. HIDE DEF Kept, Inv, TypeOK, Concluded, Over, Begun, Outcomes, brokerVars, tableVars,
                  requestVars, poolVars, childVars, envVars, settleVars
    <1>19. Kept
        <2>1. CASE \E i \in Tasks :
                     Deliver(i) \/ Revoke(i, FALSE) \/ Revoke(i, TRUE) \/ Expire(i)
            BY <1>1, <1>10, <1>18, <2>1
        <2>2. ASSUME NEW r \in Requests,
                     \/ ApplyEtaTask(r) \/ ProcessTask(r) \/ WriteJob(r)
                     \/ OnAccepted(r) \/ OnReady(r) \/ OnProcessDown(r) \/ OnHardTimeout(r)
                     \/ ChildStart(r) \/ ChildDies(r)
                     \/ \E how \in Ends : ChildEnd(r, how)
              PROVE  Kept
            BY <1>2, <1>3, <1>4, <1>5, <1>6, <1>7, <1>8, <1>15, <1>16, <1>17, <2>2
        <2>3. CASE \E p \in soon : CallSoon(p)
            BY <1>9, <2>3
        <2>4. CASE ConnectionLost \/ Restart \/ ColdShutdown \/ Exit
            BY <1>11, <1>12, <1>13, <1>14, <2>4
        <2>. QED
            BY <2>1, <2>2, <2>3, <2>4 DEF Next
    <1>. QED
        BY <1>19 DEF Kept

(* What the broker does with a message: it stays with the broker, or a     *)
(* settlement the worker has queued concludes it.                          *)
LEMMA BrokerKeepsMessages ==
    ASSUME Inv, Next, NEW i \in Tasks, opt[i].late,
           queue[i] > 0 \/ \E r \in held : Id(r) = i
    PROVE  \/ queue'[i] > 0
           \/ \E r \in held' : Id(r) = i
           \/ \E r \in Requests : Id(r) = i /\ Concluded(r)
    <1>. USE RequestFacts DEF Inv
    <1>1. CASE UNCHANGED <<queue, held>>
        BY <1>1
    <1>2. ASSUME NEW j \in Tasks, Deliver(j)
          PROVE  queue'[i] > 0 \/ \E r \in held' : Id(r) = i
        <2>1. /\ <<j, count[j] + 1>> \in held' /\ Id(<<j, count[j] + 1>>) = j
              /\ held \subseteq held'
              /\ queue' = [queue EXCEPT ![j] = @ - 1]
            <3>1. count[j] \in Nat /\ count[j] + 1 \in 1..MaxDeliveries
                BY <1>2, WorkerAssumption DEF Deliver, TypeOK
            <3>. QED
                BY <1>2, <3>1 DEF Deliver
        <2>2. CASE i = j
            BY <2>1, <2>2
        <2>3. CASE i # j
            BY <2>1, <2>3 DEF TypeOK
        <2>. QED
            BY <2>2, <2>3
    <1>3. ASSUME NEW p \in soon, CallSoon(p)
          PROVE  \/ queue'[i] > 0 \/ \E r \in held' : Id(r) = i
                 \/ \E r \in Requests : Id(r) = i /\ Concluded(r)
        <2>0. p[1] \in Requests /\ p[2] \in Settlements /\ p[1] \in acknowledged
            BY DEF TypeOK, Settlement
        <2>1. /\ held' = held \ {p[1]}
              /\ queue' = IF p[1] \in held /\ p[2] = "requeue"
                          THEN [queue EXCEPT ![Id(p[1])] = @ + 1] ELSE queue
            BY <1>3 DEF CallSoon
        <2>2. \A k \in Tasks : queue[k] \in Nat /\ queue'[k] \in Nat /\ queue'[k] >= queue[k]
            BY <2>0, <2>1 DEF TypeOK
        <2>3. CASE p[1] \in held /\ Id(p[1]) = i /\ p[2] = "requeue"
            BY <2>0, <2>1, <2>3 DEF TypeOK
        <2>4. CASE p[1] \in held /\ Id(p[1]) = i /\ p[2] # "requeue"
            <3>1. p[1] \notin requeued
                BY <2>4 DEF Settlement
            <3>2. p[1] \in alreadyRevoked \/ child[p[1]] \in Over
                BY <2>0, <2>4 DEF SettledAfterEnd
            <3>. QED
                BY <2>0, <2>4, <3>1, <3>2 DEF Concluded
        <2>5. CASE p[1] \notin held \/ Id(p[1]) # i
            BY <2>1, <2>2, <2>5
        <2>. QED
            BY <2>3, <2>4, <2>5
    <1>4. CASE ConnectionLost \/ Exit
        <2>1. queue'[i] = queue[i] + Copies(i)
            BY <1>4 DEF ConnectionLost, Exit, ReturnHeld
        <2>2. queue[i] \in Nat
            BY DEF TypeOK
        <2>. QED
            BY <2>1, <2>2, CopiesFacts
    <1>5. ASSUME NEW r \in Requests, NEW how \in Ends, ChildEnd(r, how)
          PROVE  queue'[i] > 0 \/ \E q \in held' : Id(q) = i
        BY <1>5 DEF ChildEnd, TypeOK
    <1>6. CASE Restart \/ ColdShutdown
        BY <1>6 DEF Restart, ColdShutdown, brokerVars
    <1>7. ASSUME NEW r \in Requests,
                 \/ ApplyEtaTask(r) \/ ProcessTask(r) \/ WriteJob(r)
                 \/ OnAccepted(r) \/ OnReady(r) \/ OnProcessDown(r) \/ OnHardTimeout(r)
                 \/ ChildStart(r) \/ ChildDies(r)
          PROVE  UNCHANGED <<queue, held>>
        BY <1>7 DEF ApplyEtaTask, ProcessTask, WriteJob, OnAccepted, AckEarly, OnReady, OnProcessDown,
                    OnHardTimeout, ChildStart, ChildDies, brokerVars
    <1>8. ASSUME NEW j \in Tasks, Revoke(j, FALSE) \/ Revoke(j, TRUE) \/ Expire(j)
          PROVE  UNCHANGED <<queue, held>>
        BY <1>8 DEF Revoke, Expire, brokerVars
    <1>. HIDE DEF Inv
    <1>. QED
        BY <1>1, <1>2, <1>3, <1>4, <1>5, <1>6, <1>7, <1>8 DEF Next

(* A task with acks_late is never lost: its message is with the broker     *)
(* until a request for it has been acked or dead-lettered after its child  *)
(* ended, or was revoked.                                                  *)
THEOREM LateTasksNotLost == Spec => []LateAckNotLost
    <1>1. Init => LateAckNotLost
        BY DEF Init, LateAckNotLost
    <1>2. Inv /\ LateAckNotLost /\ [Next]_vars => LateAckNotLost'
        <2>. SUFFICES ASSUME Inv, LateAckNotLost, [Next]_vars PROVE LateAckNotLost'
            OBVIOUS
        <2>1. CASE UNCHANGED vars
            BY <2>1 DEF vars, brokerVars, requestVars, childVars, envVars, LateAckNotLost
        <2>2. CASE Next
            <3>. SUFFICES ASSUME NEW i \in Tasks, opt'[i].late
                         PROVE  \/ queue'[i] > 0
                                \/ \E r \in held' : Id(r) = i
                                \/ \E r \in Requests : Id(r) = i /\ Concluded(r)'
                BY <2>2, StepInv DEF LateAckNotLost, Concluded, Inv, TypeOK
            <3>1. opt[i].late /\ \A q \in Requests : Concluded(q) => Concluded(q)'
                BY <2>2, ConcludedIsStable
            <3>2. \/ queue[i] > 0 \/ \E r \in held : Id(r) = i
                  \/ \E r \in Requests : Id(r) = i /\ Concluded(r)
                BY <3>1 DEF LateAckNotLost, Concluded, Inv, TypeOK
            <3>3. \/ queue'[i] > 0 \/ \E r \in held' : Id(r) = i
                  \/ \E r \in Requests : Id(r) = i /\ Concluded(r)
                BY <2>2, <3>1, <3>2, BrokerKeepsMessages
            <3>. QED
                BY <3>1, <3>3
        <2>. QED
            BY <2>1, <2>2
    <1>. QED
        BY <1>1, <1>2, Invariance, PTL DEF Spec

-----------------------------------------------------------------------------
(* Only _process_task() gives a job to the pool and takes a slot, and only *)
(* a job whose result has come in, or a restart of the pool, takes a job   *)
(* out of the cache.                                                       *)
LEMMA CacheSteps ==
    ASSUME Inv, Next
    PROVE  \/ UNCHANGED <<cache, slots>>
           \/ \E r \in waiting : /\ ~ IsRevoked(r)
                                 /\ slots > 0 /\ slots' = slots - 1
                                 /\ cache' = cache \union {r}
           \/ \E r \in cache : cache' = cache \ {r} /\ Release
           \/ cache' \subseteq cache /\ slots' = Concurrency
    <1>. DEFINE Goal == \/ UNCHANGED <<cache, slots>>
                        \/ \E r \in waiting : /\ ~ IsRevoked(r)
                                              /\ slots > 0 /\ slots' = slots - 1
                                              /\ cache' = cache \union {r}
                        \/ \E r \in cache : cache' = cache \ {r} /\ Release
                        \/ cache' \subseteq cache /\ slots' = Concurrency
    <1>1. ASSUME NEW i \in Tasks,
                 Deliver(i) \/ Revoke(i, FALSE) \/ Revoke(i, TRUE) \/ Expire(i)
          PROVE  Goal
        BY <1>1 DEF Deliver, Revoke, Expire, poolVars
    <1>2. ASSUME NEW r \in Requests,
                 \/ ApplyEtaTask(r) \/ WriteJob(r) \/ OnAccepted(r)
                 \/ ChildStart(r) \/ ChildDies(r) \/ \E how \in Ends : ChildEnd(r, how)
          PROVE  Goal
        BY <1>2 DEF ApplyEtaTask, WriteJob, OnAccepted, AckEarly, ChildStart, ChildDies, ChildEnd,
                    poolVars
    <1>3. ASSUME NEW r \in Requests, ProcessTask(r)
          PROVE  Goal
        BY <1>3 DEF ProcessTask
    <1>4. ASSUME NEW r \in Requests, OnReady(r) \/ OnProcessDown(r) \/ OnHardTimeout(r)
          PROVE  Goal
        BY <1>4 DEF OnReady, OnProcessDown, OnHardTimeout, JobDone
    <1>5. ASSUME NEW p \in soon, CallSoon(p)
          PROVE  Goal
        BY <1>5 DEF CallSoon, poolVars
    <1>6. ASSUME Restart
          PROVE  Goal
        BY <1>6 DEF Restart, Flush
    <1>7. ASSUME ConnectionLost \/ ColdShutdown \/ Exit
          PROVE  Goal
        BY <1>7 DEF ConnectionLost, ColdShutdown, Exit, poolVars
    <1>. HIDE DEF Goal
    <1>8. Goal
        BY <1>1, <1>2, <1>3, <1>4, <1>5, <1>6, <1>7 DEF Next
    <1>. QED
        BY <1>8 DEF Goal

(* No slot of the pool is ever lost, through revocations, lost children,   *)
(* time limits and restarts of the consumer: _process_task() gives back    *)
(* the slot of a request it does not execute, the pool that of every job.  *)
THEOREM NoSlotIsLost == Spec => []NoSlotLeak
    <1>1. Init => NoSlotLeak
        <2>. SUFFICES ASSUME Init PROVE NoSlotLeak
            OBVIOUS
        <2>1. cache = {} /\ slots = Concurrency /\ Cardinality({}) = 0
            BY FS_EmptySet DEF Init
        <2>. QED
            BY <2>1, WorkerAssumption DEF NoSlotLeak
    <1>2. Inv /\ NoSlotLeak /\ [Next]_vars => NoSlotLeak'
        <2>. SUFFICES ASSUME Inv, NoSlotLeak, [Next]_vars PROVE NoSlotLeak'
            OBVIOUS
        <2>1. /\ IsFiniteSet(cache) /\ Cardinality(cache) \in Nat
              /\ slots \in 0..Concurrency /\ Concurrency \in Nat
              /\ slots + Cardinality(cache) >= Concurrency
            <3>1. IsFiniteSet(Requests)
                <4>1. 1 \in Int /\ MaxDeliveries \in Int /\ IsFiniteSet(Tasks)
                    BY WorkerAssumption
                <4>2. IsFiniteSet(1..MaxDeliveries)
                    BY <4>1, FS_Interval
                <4>. QED
                    BY <4>1, <4>2, FS_Product DEF Requests
            <3>. QED
                BY <3>1, FS_Subset, FS_CardinalityType, WorkerAssumption
                DEF Inv, TypeOK, NoSlotLeak
        <2>2. CASE UNCHANGED <<cache, slots>>
            BY <2>1, <2>2 DEF NoSlotLeak
        <2>3. ASSUME NEW r \in waiting,
                     slots > 0, slots' = slots - 1, cache' = cache \union {r}
              PROVE  NoSlotLeak'
            <3>1. r \notin cache
                BY <2>3 DEF Inv, Places
            <3>2. Cardinality(cache') = Cardinality(cache) + 1
                BY <2>1, <2>3, <3>1, FS_AddElement
            <3>. QED
                BY <2>1, <2>3, <3>2 DEF NoSlotLeak
        <2>4. ASSUME NEW r \in cache, cache' = cache \ {r}, Release
              PROVE  NoSlotLeak'
            <3>1. Cardinality(cache') = Cardinality(cache) - 1
                BY <2>1, <2>4, FS_RemoveElement
            <3>2. Cardinality(cache') \in Nat
                BY <2>1, <2>4, FS_RemoveElement, FS_CardinalityType
            <3>. QED
                BY <2>1, <2>4, <3>1, <3>2 DEF NoSlotLeak, Release
        <2>5. CASE cache' \subseteq cache /\ slots' = Concurrency
            <3>1. Cardinality(cache') \in Nat
                BY <2>1, <2>5, FS_Subset, FS_CardinalityType
            <3>. QED
                BY <2>1, <2>5, <3>1 DEF NoSlotLeak
        <2>6. CASE Next
            BY <2>2, <2>3, <2>4, <2>5, <2>6, CacheSteps
        <2>7. CASE UNCHANGED vars
            BY <2>2, <2>7 DEF vars, poolVars
        <2>. QED
            BY <2>6, <2>7
    <1>. QED
        BY <1>1, <1>2, Invariance, PTL DEF Spec

-----------------------------------------------------------------------------
(* With RevokedStops, that a job announced as revoked was accepted.        *)
Stopped == RevokedStops /\ alreadyRevoked \cap cache \subseteq started

(* A delivery makes a request that has left no trace.                      *)
LEMMA DeliverStops ==
    ASSUME Inv, Stopped, NEW i \in Tasks, Deliver(i)
    PROVE  Stopped'
    <1>. DEFINE r == <<i, count[i] + 1>>
    <1>1. count[i] \in 0..MaxDeliveries /\ count[i] < MaxDeliveries
        BY DEF Inv, TypeOK, Deliver
    <1>2. r \in Requests /\ Id(r) = i /\ r[2] = count[i] + 1
        BY <1>1, RequestFacts, WorkerAssumption
    <1>3. /\ r \notin waiting /\ r \notin started /\ child[r] = "none" /\ r \notin alreadyRevoked
          /\ r \notin cache
        BY <1>1, <1>2 DEF Inv, Fresh, Marks, Places
    <1>4. UNCHANGED <<started, terminateOnAck, cache, child, signalled>>
        BY DEF Deliver, childVars
    <1>5. \/ /\ alreadyRevoked' = alreadyRevoked \union {r} /\ waiting' = waiting
             /\ reserved' = reserved \ {r} /\ active' = active \ {r}
             /\ scheduled' = scheduled \ {r}
          \/ /\ alreadyRevoked' = alreadyRevoked /\ waiting' \subseteq waiting \union {r}
             /\ reserved' \subseteq reserved \union {r} /\ active' = active
             /\ scheduled' \subseteq scheduled \union {r}
        BY DEF Deliver, AnnounceRevoked, TaskReady, TaskScheduled, TaskReserved
    <1>. HIDE DEF r
    <1>. QED
        BY <1>2, <1>3, <1>4, <1>5 DEF Stopped, RevokedStops

(* A request that waited has no job yet.                                   *)
LEMMA WaitingStops ==
    ASSUME Inv, Stopped, NEW r \in Requests, ApplyEtaTask(r) \/ ProcessTask(r)
    PROVE  Stopped'
    <1>1. child[r] = "none" /\ r \notin alreadyRevoked /\ r \notin cache /\ r \notin started
        BY DEF ApplyEtaTask, ProcessTask, Inv, Places, Begun, Over, Outcomes
    <1>2. UNCHANGED <<started, terminateOnAck, signalled>>
        BY DEF ApplyEtaTask, ProcessTask, requestVars, childVars
    <1>3. child \in [Requests -> {"none", "buffered", "piped"} \union Begun]
        BY DEF Inv, TypeOK
    <1>4. CASE ApplyEtaTask(r)
        <2>1. /\ UNCHANGED <<active, cache, child, alreadyRevoked>>
              /\ reserved' = reserved \union {r} /\ scheduled' = scheduled \ {r}
              /\ waiting' = waiting \union {r}
            BY <1>4 DEF ApplyEtaTask, TaskReserved, requestVars, childVars
        <2>. QED
            BY <1>1, <1>2, <2>1 DEF Stopped, RevokedStops
    <1>5. CASE ProcessTask(r) /\ IsRevoked(r)
        <2>1. /\ UNCHANGED <<cache, child>> /\ waiting' = waiting \ {r}
              /\ alreadyRevoked' = alreadyRevoked \union {r}
              /\ reserved' = reserved \ {r} /\ active' = active \ {r}
              /\ scheduled' = scheduled \ {r}
            BY <1>1, <1>5 DEF ProcessTask, AnnounceRevoked, TaskReady
        <2>. QED
            BY <1>1, <1>2, <2>1 DEF Stopped, RevokedStops
    <1>6. CASE ProcessTask(r) /\ ~ IsRevoked(r)
        <2>1. /\ UNCHANGED <<reserved, active, scheduled, alreadyRevoked>>
              /\ waiting' = waiting \ {r} /\ cache' = cache \union {r}
              /\ child' = [child EXCEPT ![r] = "buffered"]
            BY <1>1, <1>6 DEF ProcessTask, tableVars
        <2>. QED
            BY <1>1, <1>2, <1>3, <2>1 DEF Stopped, RevokedStops
    <1>. QED
        BY <1>4, <1>5, <1>6

(* A child that accepts a job is signalled if a terminate is remembered.   *)
LEMMA AcceptedStops ==
    ASSUME Inv, Stopped, NEW r \in Requests, OnAccepted(r)
    PROVE  Stopped'
    <1>1. r \in cache /\ r \notin started /\ child[r] \in Begun /\ r \notin alreadyRevoked
        BY DEF OnAccepted, Stopped
    <1>2. child[r] \notin {"buffered", "piped"} /\ r \notin waiting /\ r \notin scheduled
        BY <1>1 DEF Inv, Places, Begun, Over, Outcomes
    <1>3. UNCHANGED <<waiting, child, cache, terminateOnAck>> /\ started' = started \union {r}
        BY DEF OnAccepted, requestVars, childVars
    <1>4. CASE r \in terminateOnAck
        <2>1. /\ alreadyRevoked' = alreadyRevoked \union {r} /\ signalled' = signalled \union {r}
              /\ reserved' = reserved \ {r} /\ active' = active \ {r}
              /\ scheduled' = scheduled \ {r}
            BY <1>4 DEF OnAccepted, TerminateStarted, AnnounceRevoked, TaskReady
        <2>. QED
            BY <1>1, <1>2, <1>3, <2>1 DEF Stopped, RevokedStops
    <1>5. CASE r \notin terminateOnAck
        <2>1. /\ UNCHANGED <<alreadyRevoked, signalled, reserved, scheduled>>
              /\ active' = active \union {r}
            BY <1>5 DEF OnAccepted
        <2>. QED
            BY <1>1, <1>2, <1>3, <1>5, <2>1 DEF Stopped, RevokedStops
    <1>. QED
        BY <1>4, <1>5

(* The end of a job takes it out of every table.                           *)
LEMMA EndStops ==
    ASSUME Inv, Stopped, NEW r \in Requests, OnReady(r) \/ OnProcessDown(r) \/ OnHardTimeout(r)
    PROVE  Stopped'
    <1>1. /\ reserved' = reserved \ {r} /\ active' = active \ {r} /\ scheduled' = scheduled \ {r}
          /\ cache' = cache \ {r} /\ r \in started
          /\ UNCHANGED <<waiting, started, terminateOnAck, signalled>>
        BY DEF OnReady, OnProcessDown, OnHardTimeout, TaskReady, JobDone, AnnounceRevoked, childVars
    <1>2. child[r] \in Begun /\ r \notin waiting
        BY <1>1 DEF Inv, Places, Begun, Over, Outcomes
    <1>3. child[r] \notin {"buffered", "piped"}
        BY <1>2 DEF Begun, Over, Outcomes
    <1>4. /\ child' = child \/ child' = [child EXCEPT ![r] = IF @ = "run" THEN "dead" ELSE @]
          /\ child \in [Requests -> {"none", "buffered", "piped"} \union Begun]
        BY DEF OnReady, OnProcessDown, OnHardTimeout, childVars, Inv, TypeOK
    <1>5. \/ alreadyRevoked' = alreadyRevoked
          \/ alreadyRevoked' = alreadyRevoked \union {r} /\ child[r] = "dead" /\ child' = child
        <2>1. CASE OnReady(r)
            BY <2>1 DEF OnReady, Nothing, WorkerLost
        <2>2. CASE OnProcessDown(r)
            BY <2>2 DEF OnProcessDown, AnnounceRevoked, Nothing, WorkerLost, childVars
        <2>3. CASE OnHardTimeout(r)
            BY <2>3 DEF OnHardTimeout
        <2>. QED
            BY <2>1, <2>2, <2>3
    <1>6. ASSUME NEW q \in alreadyRevoked'
          PROVE  /\ q \notin reserved' \union active' \union scheduled' \union waiting'
                 /\ child'[q] \notin {"buffered", "piped"}
                 /\ child'[q] = "run" => q \in signalled
                 /\ q \in cache' => q \in started
        <2>1. q \in alreadyRevoked \/ (q = r /\ child[r] = "dead" /\ child' = child)
            BY <1>5
        <2>2. alreadyRevoked \subseteq Requests
            BY DEF Inv, TypeOK
        <2>3. q \in alreadyRevoked => /\ child'[q] \notin {"buffered", "piped"}
                                      /\ child'[q] = "run" => q \in signalled
            BY <1>4, <2>2 DEF Stopped, RevokedStops
        <2>4. q \in alreadyRevoked => /\ q \notin reserved \union active \union scheduled \union waiting
                                      /\ q \in cache => q \in started
            BY DEF Stopped, RevokedStops
        <2>. QED
            BY <1>1, <1>2, <1>3, <2>1, <2>3, <2>4
    <1>7. alreadyRevoked \subseteq alreadyRevoked'
        BY <1>5
    <1>. QED
        BY <1>1, <1>6, <1>7 DEF Stopped, RevokedStops

(* The command reaches a job that was accepted, or is remembered.          *)
LEMMA RevokeStops ==
    ASSUME Inv, Stopped, NEW i \in Tasks, NEW terminate \in BOOLEAN, Revoke(i, terminate)
    PROVE  Stopped'
    <1>. DEFINE r == requests[i]
    <1>1. UNCHANGED <<waiting, started, cache, child>>
        BY DEF Revoke
    <1>2. CASE terminate /\ r # None /\ r \in started
        <2>1. /\ alreadyRevoked' = alreadyRevoked \union {r} /\ signalled' = signalled \union {r}
              /\ reserved' = reserved \ {r} /\ active' = active \ {r}
              /\ scheduled' = scheduled \ {r} /\ UNCHANGED terminateOnAck
            BY <1>2 DEF Revoke, TerminateStarted, AnnounceRevoked, TaskReady
        <2>2. child[r] \in Begun /\ r \notin waiting
            BY <1>2 DEF Inv, Places, Begun, Over, Outcomes
        <2>3. child[r] \notin {"buffered", "piped"}
            BY <2>2 DEF Begun, Over, Outcomes
        <2>. QED
            BY <1>1, <1>2, <2>1, <2>2, <2>3 DEF Stopped, RevokedStops
    <1>3. CASE ~ (terminate /\ r # None /\ r \in started)
        <2>1. UNCHANGED <<alreadyRevoked, signalled, reserved, active, scheduled>>
            BY <1>3 DEF Revoke
        <2>2. \/ terminateOnAck' = terminateOnAck
              \/ terminateOnAck' = terminateOnAck \union {r} /\ r \notin started
            BY <1>3 DEF Revoke
        <2>. QED
            BY <1>1, <2>1, <2>2 DEF Stopped, RevokedStops
    <1>. QED
        BY <1>2, <1>3

(* What the children and the pool's pipes do.                              *)
LEMMA ChildStops ==
    ASSUME Inv, Stopped, NEW r \in Requests,
           \/ WriteJob(r) \/ ChildStart(r) \/ ChildDies(r)
           \/ \E how \in Ends : ChildEnd(r, how)
    PROVE  Stopped'
    <1>1. UNCHANGED <<alreadyRevoked, reserved, active, scheduled, waiting, cache, started,
                      signalled, terminateOnAck>>
        BY DEF WriteJob, ChildStart, ChildDies, ChildEnd, tableVars, requestVars, poolVars
    <1>2. \E to \in {"piped", "run", "dead"} \union Outcomes :
             /\ child' = [child EXCEPT ![r] = to]
             /\ to \in {"piped", "run"} => child[r] \in {"buffered", "piped"}
        <2>1. \A how \in Ends : ChildEnd(r, how) => how \in Outcomes /\ child' = [child EXCEPT ![r] = how]
            BY WorkerAssumption DEF ChildEnd
        <2>2. {"piped", "run"} \cap Outcomes = {}
            BY DEF Outcomes
        <2>. QED
            BY <2>1, <2>2 DEF WriteJob, ChildStart, ChildDies
    <1>3. child \in [Requests -> {"none", "buffered", "piped"} \union Begun]
        BY DEF Inv, TypeOK
    <1>4. ASSUME NEW q \in alreadyRevoked
          PROVE  /\ child'[q] \notin {"buffered", "piped"}
                 /\ child'[q] = "run" => q \in signalled
        <2>1. q \in Requests /\ child[q] \notin {"buffered", "piped"}
              /\ (child[q] = "run" => q \in signalled)
            BY DEF Inv, TypeOK, Stopped, RevokedStops
        <2>2. q # r => child'[q] = child[q]
            BY <1>2, <1>3, <2>1
        <2>3. q = r => child'[q] \in {"dead"} \union Outcomes
            BY <1>2, <1>3, <2>1
        <2>. QED
            BY <2>1, <2>2, <2>3 DEF Outcomes
    <1>. QED
        BY <1>1, <1>4 DEF Stopped, RevokedStops

(* A restart of the consumer, a cold shutdown and the broker.              *)
LEMMA OtherStops ==
    ASSUME Inv, Stopped,
           \/ Restart \/ ColdShutdown \/ ConnectionLost \/ Exit \/ \E p \in soon : CallSoon(p)
           \/ \E i \in Tasks : Expire(i)
    PROVE  Stopped'
    <1>1. CASE Restart
        <2>1. /\ UNCHANGED <<alreadyRevoked, started, terminateOnAck>> /\ waiting' = {}
              /\ scheduled' = {} /\ active' \subseteq active /\ reserved' \subseteq active
              /\ cache' \subseteq cache /\ signalled \subseteq signalled'
              /\ child' = [r \in Requests |-> IF child[r] = "buffered" THEN "none" ELSE child[r]]
            BY <1>1 DEF Restart, Flush, Cancel
        <2>2. alreadyRevoked \subseteq Requests
            BY DEF Inv, TypeOK
        <2>. QED
            BY <2>1, <2>2 DEF Stopped, RevokedStops
    <1>2. CASE ColdShutdown
        <2>1. /\ UNCHANGED <<alreadyRevoked, started, terminateOnAck, waiting, cache, child>>
              /\ scheduled' \subseteq scheduled /\ active' \subseteq active
              /\ reserved' \subseteq reserved /\ signalled \subseteq signalled'
            BY <1>2 DEF ColdShutdown, TaskReady, Cancel
        <2>. QED
            BY <2>1 DEF Stopped, RevokedStops
    <1>3. CASE ConnectionLost \/ Exit \/ (\E p \in soon : CallSoon(p)) \/ \E i \in Tasks : Expire(i)
        <2>1. UNCHANGED <<alreadyRevoked, reserved, active, scheduled, waiting, cache, started,
                          child, signalled, terminateOnAck>>
            BY <1>3 DEF ConnectionLost, Exit, CallSoon, Expire, tableVars, requestVars, poolVars,
                        childVars
        <2>. QED
            BY <2>1 DEF Stopped, RevokedStops
    <1>. QED
        BY <1>1, <1>2, <1>3

(* A revoked request is stopped wherever the revoke found it: one that was *)
(* announced as revoked is in no table and on its way to no child, its     *)
(* child, if it runs, was signalled, and a terminate that came before the  *)
(* child had accepted the job is not forgotten (Request.terminate,         *)
(* Request.on_accepted).                                                   *)
THEOREM RevokedIsStopped == Spec => []RevokedStops
    <1>1. Init => Stopped
        BY DEF Init, Stopped, RevokedStops
    <1>2. Inv /\ Stopped /\ [Next]_vars => Stopped'
        <2>. SUFFICES ASSUME Inv, Stopped, [Next]_vars PROVE Stopped'
            OBVIOUS
        <2>1. CASE UNCHANGED vars
            BY <2>1 DEF vars, tableVars, requestVars, poolVars, childVars, Stopped, RevokedStops
        <2>2. CASE Next
            BY <2>2, DeliverStops, WaitingStops, AcceptedStops, EndStops, RevokeStops, ChildStops,
               OtherStops DEF Next
        <2>. QED
            BY <2>1, <2>2
    <1>3. Stopped => RevokedStops
        BY DEF Stopped
    <1>. QED
        BY <1>1, <1>2, <1>3, Invariance, PTL DEF Spec
=============================================================================
