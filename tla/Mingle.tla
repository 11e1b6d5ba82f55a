------------------------------- MODULE Mingle -------------------------------
(***************************************************************************)
(* How the workers of a cluster come to agree on the revoked tasks: the    *)
(* revoke command is broadcast to the mailboxes that exist, and a worker   *)
(* that starts, or whose consumer restarts, exchanges its list with the    *)
(* workers that answer its hello (celery/worker/consumer/mingle.py,        *)
(* celery/worker/control.py, celery/worker/pidbox.py,                      *)
(* celery/worker/state.py).                                                *)
(*                                                                         *)
(* The consumer starts its steps in order: Mingle asks and waits up to a   *)
(* second for the answers, Tasks prepares the consumer, Control binds the  *)
(* mailbox; then the loop runs.  The last three constants say how friendly *)
(* the environment is: the guarantee needs all of it.                      *)
(***************************************************************************)
EXTENDS Integers, FiniteSets, SequencesExt, TLAPS

CONSTANTS
    Workers,
    Ids,            \* task ids that may be revoked
    MaxFaults,      \* bound: connection losses, stops and crashes
    Overlap,        \* may two workers start at the same time?
    SlowReplies,    \* may an answer take longer than the timeout of the hello?
    RevokeInBoot    \* may a task be revoked while a worker starts?

EnvironmentConstants ==
    Overlap \in BOOLEAN /\ SlowReplies \in BOOLEAN /\ RevokeInBoot \in BOOLEAN

VARIABLES
    phase,      \* off: no process; connecting; hello: Mingle waits for answers;
                \* tasks: the steps between Mingle and Control; up
    revoked,    \* state.revoked of each worker
    db,         \* the revoked ids in its state database
    mailbox,    \* the broadcast commands its pidbox has not handled yet
    replies,    \* the answers to its hello
    faults      \* faults so far

vars == <<phase, revoked, db, mailbox, replies, faults>>

Starting(w) == phase[w] \in {"hello", "tasks"}
Up == {w \in Workers : phase[w] = "up"}

\* a broadcast reaches every mailbox that is bound
Broadcast(msg) == [w \in Workers |-> IF w \in Up THEN Append(mailbox[w], msg) ELSE mailbox[w]]

RevokeMsg(id) == [type |-> "revoke", from |-> "client", ids |-> {id}]
HelloMsg(w) == [type |-> "hello", from |-> w, ids |-> revoked[w]]

-----------------------------------------------------------------------------

\* Mutant of Boot: the state database is not read.
BootEmpty(w) ==
    /\ phase[w] = "off"
    /\ phase' = [phase EXCEPT ![w] = "connecting"]
    /\ UNCHANGED <<revoked, db, mailbox, replies, faults>>

\* the process starts: Persistent.merge
Boot(w) ==
    /\ phase[w] = "off"
    /\ phase' = [phase EXCEPT ![w] = "connecting"]
    /\ revoked' = [revoked EXCEPT ![w] = db[w]]
    /\ UNCHANGED <<db, mailbox, replies, faults>>

\* Mingle.send_hello: inspect().hello(hostname, our_revoked)
SendHello(w) ==
    /\ phase[w] = "connecting"
    /\ Overlap \/ \A v \in Workers : ~Starting(v)
    /\ phase' = [phase EXCEPT ![w] = "hello"]
    /\ mailbox' = Broadcast(HelloMsg(w))
    /\ replies' = [replies EXCEPT ![w] = {}]
    /\ UNCHANGED <<revoked, db, faults>>

\* Mutant of HandleHello: the ids of the worker that asks are not merged.
HandleHelloAnswering(v) ==
    /\ phase[v] = "up" /\ mailbox[v] # <<>>
    /\ LET msg == Head(mailbox[v])
       IN /\ msg.type = "hello"
          /\ replies' = IF phase[msg.from] = "hello"
                        THEN [replies EXCEPT ![msg.from] = @ \cup revoked[v]]
                        ELSE replies
    /\ mailbox' = [mailbox EXCEPT ![v] = Tail(@)]
    /\ UNCHANGED <<phase, revoked, db, faults>>

\* control.hello: merges the ids it is sent and answers with its own; an
\* answer nobody waits for any more is lost
HandleHello(v) ==
    /\ phase[v] = "up" /\ mailbox[v] # <<>>
    /\ LET msg == Head(mailbox[v])
           known == revoked[v] \cup msg.ids
       IN /\ msg.type = "hello"
          /\ revoked' = [revoked EXCEPT ![v] = known]
          /\ replies' = IF phase[msg.from] = "hello"
                        THEN [replies EXCEPT ![msg.from] = @ \cup known]
                        ELSE replies
    /\ mailbox' = [mailbox EXCEPT ![v] = Tail(@)]
    /\ UNCHANGED <<phase, db, faults>>

\* control.revoke
HandleRevoke(v) ==
    /\ phase[v] = "up" /\ mailbox[v] # <<>>
    /\ Head(mailbox[v]).type = "revoke"
    /\ revoked' = [revoked EXCEPT ![v] = @ \cup Head(mailbox[v]).ids]
    /\ mailbox' = [mailbox EXCEPT ![v] = Tail(@)]
    /\ UNCHANGED <<phase, db, replies, faults>>

\* is a hello of w still unanswered?
Pending(w) ==
    \E v \in Up : \E i \in DOMAIN mailbox[v] :
        mailbox[v][i].type = "hello" /\ mailbox[v][i].from = w

\* Mutant of Collect: it waits until some worker has answered.
CollectWaiting(w) ==
    /\ phase[w] = "hello"
    /\ \E v \in Up : ~Pending(w)
    /\ phase' = [phase EXCEPT ![w] = "tasks"]
    /\ revoked' = [revoked EXCEPT ![w] = @ \cup replies[w]]
    /\ replies' = [replies EXCEPT ![w] = {}]
    /\ UNCHANGED <<db, mailbox, faults>>

\* the timeout of the inspection has passed: Mingle.on_node_reply for each
\* answer, sync_with_node, merge_revoked
Collect(w) ==
    /\ phase[w] = "hello"
    /\ SlowReplies \/ ~Pending(w)
    /\ phase' = [phase EXCEPT ![w] = "tasks"]
    /\ revoked' = [revoked EXCEPT ![w] = @ \cup replies[w]]
    /\ replies' = [replies EXCEPT ![w] = {}]
    /\ UNCHANGED <<db, mailbox, faults>>

\* Control.start: Pidbox.start binds the mailbox; the loop begins
StartControl(w) ==
    /\ phase[w] = "tasks"
    /\ phase' = [phase EXCEPT ![w] = "up"]
    /\ mailbox' = [mailbox EXCEPT ![w] = <<>>]
    /\ UNCHANGED <<revoked, db, replies, faults>>

\* a client revokes a task
Revoke(id) ==
    /\ Up # {}
    /\ RevokeInBoot \/ \A w \in Workers : ~Starting(w)
    /\ \A w \in Workers : id \notin revoked[w] /\ RevokeMsg(id) \notin ToSet(mailbox[w])
    /\ mailbox' = Broadcast(RevokeMsg(id))
    /\ UNCHANGED <<phase, revoked, db, replies, faults>>

-----------------------------------------------------------------------------
(* Faults *)

\* Mutant of LoseConnection: the mailbox outlives the connection.
LoseConnectionKeeping(w) ==
    /\ faults < MaxFaults
    /\ phase[w] \in {"hello", "tasks", "up"}
    /\ phase' = [phase EXCEPT ![w] = "connecting"]
    /\ replies' = [replies EXCEPT ![w] = {}]
    /\ faults' = faults + 1
    /\ UNCHANGED <<mailbox, revoked, db>>

\* the connection is lost: the consumer restarts, its mailbox is deleted
LoseConnection(w) ==
    /\ faults < MaxFaults
    /\ phase[w] \in {"hello", "tasks", "up"}
    /\ phase' = [phase EXCEPT ![w] = "connecting"]
    /\ mailbox' = [mailbox EXCEPT ![w] = <<>>]
    /\ replies' = [replies EXCEPT ![w] = {}]
    /\ faults' = faults + 1
    /\ UNCHANGED <<revoked, db>>

\* the worker stops: Persistent.save
Stop(w) ==
    /\ faults < MaxFaults
    /\ phase[w] = "up"
    /\ phase' = [phase EXCEPT ![w] = "off"]
    /\ db' = [db EXCEPT ![w] = revoked[w]]
    /\ revoked' = [revoked EXCEPT ![w] = {}]
    /\ mailbox' = [mailbox EXCEPT ![w] = <<>>]
    /\ faults' = faults + 1
    /\ UNCHANGED replies

\* the process is killed
Crash(w) ==
    /\ faults < MaxFaults
    /\ phase[w] # "off"
    /\ phase' = [phase EXCEPT ![w] = "off"]
    /\ revoked' = [revoked EXCEPT ![w] = {}]
    /\ mailbox' = [mailbox EXCEPT ![w] = <<>>]
    /\ replies' = [replies EXCEPT ![w] = {}]
    /\ faults' = faults + 1
    /\ UNCHANGED db

Init ==
    /\ phase = [w \in Workers |-> "off"]
    /\ revoked = [w \in Workers |-> {}]
    /\ db = [w \in Workers |-> {}]
    /\ mailbox = [w \in Workers |-> <<>>]
    /\ replies = [w \in Workers |-> {}]
    /\ faults = 0

WorkerStep(w) ==
    SendHello(w) \/ HandleHello(w) \/ HandleRevoke(w) \/ Collect(w) \/ StartControl(w)

Next ==
    \/ \E w \in Workers : Boot(w) \/ WorkerStep(w) \/ LoseConnection(w) \/ Stop(w) \/ Crash(w)
    \/ \E id \in Ids : Revoke(id)

Spec == Init /\ [][Next]_vars

\* a process that runs goes on running; nobody need start one
FairSpec == Spec /\ \A w \in Workers : WF_vars(WorkerStep(w))

-----------------------------------------------------------------------------
(* Properties *)

\* Type invariant.
TypeOK ==
    /\ phase \in [Workers -> {"off", "connecting", "hello", "tasks", "up"}]
    /\ revoked \in [Workers -> SUBSET Ids] /\ db \in [Workers -> SUBSET Ids]
    /\ replies \in [Workers -> SUBSET Ids]
    /\ \A w \in Workers :
          /\ phase[w] # "up" => mailbox[w] = <<>>
          /\ phase[w] # "hello" => replies[w] = {}
          /\ phase[w] = "off" => revoked[w] = {}

\* nobody starts and no command is on its way
Quiet == \A w \in Workers : ~Starting(w) /\ mailbox[w] = <<>>

\* When a worker starts up it synchronises its revoked tasks with the other
\* workers: once nothing is on its way, all workers that are up know the same ids,
\* whatever they missed while they were away or brought back from their database.
Agreement == Quiet => \A v, w \in Up : revoked[v] = revoked[w]

\* What a worker that is up knows as revoked it knows until it dies, and what it
\* saved when it stopped it knows again before it consumes a task.
Remembered ==
    \A w \in Workers : phase[w] = "up" => db[w] \subseteq revoked[w]

\* workers start one after the other, their hello is answered in time, and
\* nothing is revoked meanwhile
Calm == ~Overlap /\ ~SlowReplies /\ ~RevokeInBoot

\* The workers that are up agree on the revoked ids once nothing is on its way, if
\* the environment is calm; what a worker saved it knows again in any case.
RevokedAgreed == TypeOK /\ Remembered /\ (Calm => Agreement)

\* Workers that start at the same time do not wait for each other for ever.
EveryoneBoots == <>[](\A w \in Workers : phase[w] \in {"off", "up"})

-----------------------------------------------------------------------------
(* The guarantee for any number of workers, ids and faults.  Agreement     *)
(* speaks of the quiet states only.  What holds in all of them, in a calm  *)
(* environment, is that the workers that are up agree on what they know or *)
(* will know once they have handled their mailbox (Common); that a worker  *)
(* which asks is known to all of them and each of them has answered or has *)
(* the question last in its mailbox (HelloInv); and that nothing is on its *)
(* way between the last answer and the binding of the new mailbox          *)
(* (TasksInv).                                                             *)
Msg == [type : {"revoke"}, from : {"client"}, ids : SUBSET Ids]
         \cup [type : {"hello"}, from : Workers, ids : SUBSET Ids]

(* What the messages of a mailbox revoke, and what a worker knows or will. *)
IdsIn(s) == UNION {s[i].ids : i \in 1..Len(s)}
Know(w) == revoked[w] \cup IdsIn(mailbox[w])

Types == mailbox \in [Workers -> Seq(Msg)]

(* A process that runs has read its database.                              *)
Loaded == \A w \in Workers : phase[w] # "off" => db[w] \subseteq revoked[w]

OneStarts == \A v, w \in Workers : Starting(v) /\ Starting(w) => v = w

Common == \A v, w \in Up : Know(v) = Know(w)

(* v has answered h, or has the hello of h last in its mailbox.            *)
LastIsHello(s, h) == s[Len(s)].type = "hello" /\ s[Len(s)].from = h
Answered(h, v) ==
    IF mailbox[v] = <<>> THEN revoked[v] \subseteq replies[h]
                         ELSE LastIsHello(mailbox[v], h)

HelloInv ==
    \A h \in Workers, v \in Up :
        phase[h] = "hello" =>
            revoked[h] \cup replies[h] \subseteq Know(v) /\ Answered(h, v)

TasksInv ==
    \A h \in Workers, v \in Up :
        phase[h] = "tasks" => mailbox[v] = <<>> /\ revoked[v] = revoked[h]

CalmInv == OneStarts /\ Common /\ HelloInv /\ TasksInv

Inv == TypeOK /\ Types /\ Loaded /\ (Calm => CalmInv)

-----------------------------------------------------------------------------
(* The ids of an empty mailbox, of a longer one and of a shorter one. *)
LEMMA IdsEmpty == IdsIn(<<>>) = {}
    BY DEF IdsIn

(* A message is added at the end.                                          *)
LEMMA IdsAppend ==
    ASSUME NEW s \in Seq(Msg), NEW m \in Msg
    PROVE  IdsIn(Append(s, m)) = IdsIn(s) \cup m.ids
    <1>. DEFINE t == Append(s, m)
    <1>1. /\ Len(t) = Len(s) + 1 /\ t[Len(s) + 1] = m /\ Len(s) \in Nat
          /\ \A i \in 1..Len(s) : t[i] = s[i]
        OBVIOUS
    <1>. HIDE DEF t
    <1>2. 1..Len(t) = 1..Len(s) \cup {Len(s) + 1}
        BY <1>1
    <1>3. IdsIn(t) = IdsIn(s) \cup m.ids
        BY <1>1, <1>2 DEF IdsIn
    <1>. QED
        BY <1>3 DEF t

(* The first message is taken.                                             *)
LEMMA IdsTail ==
    ASSUME NEW s \in Seq(Msg), s # <<>>
    PROVE  /\ IdsIn(s) = Head(s).ids \cup IdsIn(Tail(s))
           /\ Head(s) \in Msg /\ Tail(s) \in Seq(Msg)
           /\ Tail(s) = <<>> => Head(s) = s[Len(s)]
           /\ Tail(s) # <<>> => Tail(s)[Len(Tail(s))] = s[Len(s)]
    <1>. DEFINE t == Tail(s)
    <1>1. /\ Len(s) \in Nat \ {0} /\ Len(t) = Len(s) - 1 /\ Head(s) = s[1] /\ Head(s) \in Msg
          /\ t \in Seq(Msg) /\ \A i \in 1..Len(t) : t[i] = s[i + 1]
        OBVIOUS
    <1>. HIDE DEF t
    <1>2. IdsIn(s) = Head(s).ids \cup IdsIn(t)
        <2>1. ASSUME NEW x \in IdsIn(s) PROVE x \in Head(s).ids \cup IdsIn(t)
            <3>1. PICK i \in 1..Len(s) : x \in s[i].ids
                BY <2>1 DEF IdsIn
            <3>2. CASE i = 1
                BY <1>1, <3>1, <3>2
            <3>3. CASE i # 1
                <4>1. i - 1 \in 1..Len(t) /\ t[i - 1] = s[i]
                    BY <1>1, <3>3
                <4>. QED
                    BY <3>1, <4>1 DEF IdsIn
            <3>. QED
                BY <3>2, <3>3
        <2>2. ASSUME NEW x \in IdsIn(t) PROVE x \in IdsIn(s)
            <3>1. PICK i \in 1..Len(t) : x \in t[i].ids
                BY <2>2 DEF IdsIn
            <3>2. i + 1 \in 1..Len(s) /\ t[i] = s[i + 1]
                BY <1>1
            <3>. QED
                BY <3>1, <3>2 DEF IdsIn
        <2>3. Head(s).ids \subseteq IdsIn(s)
            BY <1>1 DEF IdsIn
        <2>. QED
            BY <2>1, <2>2, <2>3
    <1>3. t = <<>> => Head(s) = s[Len(s)]
        BY <1>1
    <1>4. t # <<>> => t[Len(t)] = s[Len(s)]
        <2>1. t # <<>> => Len(t) \in 1..Len(t)
            BY <1>1
        <2>. QED
            BY <1>1, <2>1
    <1>. QED
        BY <1>1, <1>2, <1>3, <1>4 DEF t

(* A message is a revocation or a hello of a worker. *)
LEMMA MsgFacts ==
    /\ \A m \in Msg : m.ids \in SUBSET Ids /\ (m.type = "hello" => m.from \in Workers)
    /\ \A id \in Ids : RevokeMsg(id) \in Msg /\ RevokeMsg(id).ids = {id}
    /\ \A w \in Workers, S \in SUBSET Ids :
          LET m == [type |-> "hello", from |-> w, ids |-> S]
          IN m \in Msg /\ m.ids = S /\ m.type = "hello" /\ m.from = w
    BY DEF Msg, RevokeMsg

(* Every step keeps messages in the mailboxes. *)
LEMMA TypesStep ==
    ASSUME TypeOK, Types, [Next]_vars
    PROVE  Types'
    <1>1. ASSUME NEW w \in Workers, Boot(w) PROVE Types'
        BY <1>1 DEF Boot, Types
    <1>2. ASSUME NEW w \in Workers, SendHello(w) PROVE Types'
        <2>1. HelloMsg(w) \in Msg
            BY MsgFacts DEF HelloMsg, TypeOK
        <2>2. mailbox' = Broadcast(HelloMsg(w))
            BY <1>2 DEF SendHello
        <2>3. mailbox' \in [Workers -> Seq(Msg)]
            BY <2>1, <2>2 DEF Broadcast, Types
        <2>. QED
            BY <2>3 DEF Types
    <1>3. ASSUME NEW w \in Workers, HandleHello(w) PROVE Types'
        <2>1. mailbox[w] # <<>> /\ mailbox' = [mailbox EXCEPT ![w] = Tail(@)]
            BY <1>3 DEF HandleHello
        <2>2. Tail(mailbox[w]) \in Seq(Msg)
            BY <2>1, IdsTail DEF Types
        <2>. QED
            BY <2>1, <2>2 DEF Types
    <1>4. ASSUME NEW w \in Workers, HandleRevoke(w) PROVE Types'
        <2>1. mailbox[w] # <<>> /\ mailbox' = [mailbox EXCEPT ![w] = Tail(@)]
            BY <1>4 DEF HandleRevoke
        <2>2. Tail(mailbox[w]) \in Seq(Msg)
            BY <2>1, IdsTail DEF Types
        <2>. QED
            BY <2>1, <2>2 DEF Types
    <1>5. ASSUME NEW w \in Workers, Collect(w) PROVE Types'
        BY <1>5 DEF Collect, Types
    <1>6. ASSUME NEW w \in Workers, StartControl(w) PROVE Types'
        BY <1>6 DEF StartControl, Types
    <1>7. ASSUME NEW w \in Workers, LoseConnection(w) PROVE Types'
        BY <1>7 DEF LoseConnection, Types
    <1>8. ASSUME NEW w \in Workers, Stop(w) PROVE Types'
        BY <1>8 DEF Stop, Types
    <1>9. ASSUME NEW w \in Workers, Crash(w) PROVE Types'
        BY <1>9 DEF Crash, Types
    <1>10. ASSUME NEW id \in Ids, Revoke(id) PROVE Types'
        <2>1. RevokeMsg(id) \in Msg
            BY MsgFacts DEF HelloMsg, TypeOK
        <2>2. mailbox' = Broadcast(RevokeMsg(id))
            BY <1>10 DEF Revoke
        <2>3. mailbox' \in [Workers -> Seq(Msg)]
            BY <2>1, <2>2 DEF Broadcast, Types
        <2>. QED
            BY <2>3 DEF Types
    <1>11. CASE UNCHANGED vars
        BY <1>11 DEF vars, Types
    <1>. QED
        BY <1>1, <1>2, <1>3, <1>4, <1>5, <1>6, <1>7, <1>8, <1>9, <1>10, <1>11 DEF Next, WorkerStep

(* Every step keeps the type invariant. *)
LEMMA TypeOKStep ==
    ASSUME TypeOK, Types, [Next]_vars
    PROVE  TypeOK'
    <1>1. ASSUME NEW w \in Workers, Boot(w) PROVE TypeOK'
        BY <1>1 DEF Boot, TypeOK
    <1>2. ASSUME NEW w \in Workers, SendHello(w) PROVE TypeOK'
        BY <1>2 DEF SendHello, TypeOK, Broadcast, Up
    <1>3. ASSUME NEW w \in Workers, HandleHello(w) PROVE TypeOK'
        <2>1. Head(mailbox[w]) \in Msg
            BY <1>3, IdsTail DEF HandleHello, Types
        <2>2. /\ Head(mailbox[w]).ids \in SUBSET Ids
              /\ Head(mailbox[w]).type = "hello" => Head(mailbox[w]).from \in Workers
            BY <2>1, MsgFacts
        <2>. QED
            BY <1>3, <2>2 DEF HandleHello, TypeOK
    <1>4. ASSUME NEW w \in Workers, HandleRevoke(w) PROVE TypeOK'
        <2>1. Head(mailbox[w]) \in Msg
            BY <1>4, IdsTail DEF HandleRevoke, Types
        <2>2. /\ Head(mailbox[w]).ids \in SUBSET Ids
              /\ Head(mailbox[w]).type = "hello" => Head(mailbox[w]).from \in Workers
            BY <2>1, MsgFacts
        <2>. QED
            BY <1>4, <2>2 DEF HandleRevoke, TypeOK
    <1>5. ASSUME NEW w \in Workers, Collect(w) PROVE TypeOK'
        BY <1>5 DEF Collect, TypeOK
    <1>6. ASSUME NEW w \in Workers, StartControl(w) PROVE TypeOK'
        BY <1>6 DEF StartControl, TypeOK
    <1>7. ASSUME NEW w \in Workers, LoseConnection(w) PROVE TypeOK'
        <2>1. /\ phase' \in [Workers -> {"off", "connecting", "hello", "tasks", "up"}]
              /\ revoked' \in [Workers -> SUBSET Ids] /\ db' \in [Workers -> SUBSET Ids]
              /\ replies' \in [Workers -> SUBSET Ids]
            BY <1>7 DEF LoseConnection, TypeOK
        <2>2. ASSUME NEW v \in Workers
              PROVE  /\ phase'[v] # "up" => mailbox'[v] = <<>>
                     /\ phase'[v] # "hello" => replies'[v] = {}
                     /\ phase'[v] = "off" => revoked'[v] = {}
            BY <1>7 DEF LoseConnection, TypeOK, Types
        <2>. QED
            BY <2>1, <2>2 DEF TypeOK
    <1>8. ASSUME NEW w \in Workers, Stop(w) PROVE TypeOK'
        <2>1. /\ phase' \in [Workers -> {"off", "connecting", "hello", "tasks", "up"}]
              /\ revoked' \in [Workers -> SUBSET Ids] /\ db' \in [Workers -> SUBSET Ids]
              /\ replies' \in [Workers -> SUBSET Ids]
            BY <1>8 DEF Stop, TypeOK
        <2>2. ASSUME NEW v \in Workers
              PROVE  /\ phase'[v] # "up" => mailbox'[v] = <<>>
                     /\ phase'[v] # "hello" => replies'[v] = {}
                     /\ phase'[v] = "off" => revoked'[v] = {}
            BY <1>8 DEF Stop, TypeOK, Types
        <2>. QED
            BY <2>1, <2>2 DEF TypeOK
    <1>9. ASSUME NEW w \in Workers, Crash(w) PROVE TypeOK'
        <2>1. /\ phase' \in [Workers -> {"off", "connecting", "hello", "tasks", "up"}]
              /\ revoked' \in [Workers -> SUBSET Ids] /\ db' \in [Workers -> SUBSET Ids]
              /\ replies' \in [Workers -> SUBSET Ids]
            BY <1>9 DEF Crash, TypeOK
        <2>2. ASSUME NEW v \in Workers
              PROVE  /\ phase'[v] # "up" => mailbox'[v] = <<>>
                     /\ phase'[v] # "hello" => replies'[v] = {}
                     /\ phase'[v] = "off" => revoked'[v] = {}
            BY <1>9 DEF Crash, TypeOK, Types
        <2>. QED
            BY <2>1, <2>2 DEF TypeOK
    <1>10. ASSUME NEW id \in Ids, Revoke(id) PROVE TypeOK'
        BY <1>10 DEF Revoke, TypeOK, Broadcast, Up
    <1>11. CASE UNCHANGED vars
        BY <1>11 DEF vars, TypeOK
    <1>. QED
        BY <1>1, <1>2, <1>3, <1>4, <1>5, <1>6, <1>7, <1>8, <1>9, <1>10, <1>11 DEF Next, WorkerStep

(* Every step keeps what was read from the database. *)
LEMMA LoadedStep ==
    ASSUME TypeOK, Types, [Next]_vars, Loaded
    PROVE  Loaded'
    <1>1. ASSUME NEW w \in Workers, Boot(w) PROVE Loaded'
        BY <1>1 DEF Boot, TypeOK, Loaded
    <1>2. ASSUME NEW w \in Workers, SendHello(w) PROVE Loaded'
        BY <1>2 DEF SendHello, TypeOK, Loaded
    <1>3. ASSUME NEW w \in Workers, HandleHello(w) PROVE Loaded'
        BY <1>3 DEF HandleHello, TypeOK, Loaded
    <1>4. ASSUME NEW w \in Workers, HandleRevoke(w) PROVE Loaded'
        BY <1>4 DEF HandleRevoke, TypeOK, Loaded
    <1>5. ASSUME NEW w \in Workers, Collect(w) PROVE Loaded'
        BY <1>5 DEF Collect, TypeOK, Loaded
    <1>6. ASSUME NEW w \in Workers, StartControl(w) PROVE Loaded'
        BY <1>6 DEF StartControl, TypeOK, Loaded
    <1>7. ASSUME NEW w \in Workers, LoseConnection(w) PROVE Loaded'
        BY <1>7 DEF LoseConnection, TypeOK, Loaded
    <1>8. ASSUME NEW w \in Workers, Stop(w) PROVE Loaded'
        BY <1>8 DEF Stop, TypeOK, Loaded
    <1>9. ASSUME NEW w \in Workers, Crash(w) PROVE Loaded'
        BY <1>9 DEF Crash, TypeOK, Loaded
    <1>10. ASSUME NEW id \in Ids, Revoke(id) PROVE Loaded'
        BY <1>10 DEF Revoke, TypeOK, Loaded
    <1>11. CASE UNCHANGED vars
        BY <1>11 DEF vars, Loaded
    <1>. QED
        BY <1>1, <1>2, <1>3, <1>4, <1>5, <1>6, <1>7, <1>8, <1>9, <1>10, <1>11 DEF Next, WorkerStep

-----------------------------------------------------------------------------
(* A worker that starts its process, loses its connection, stops or dies   *)
(* disturbs none of the others.                                            *)
LEMMA LeaveStep ==
    ASSUME TypeOK, CalmInv, NEW w \in Workers, NEW p \in {"off", "connecting"},
           phase' = [phase EXCEPT ![w] = p],
           \A u \in Workers \ {w} : /\ revoked'[u] = revoked[u]
                                    /\ mailbox'[u] = mailbox[u]
                                    /\ replies'[u] = replies[u]
    PROVE  CalmInv'
    <1>1. /\ \A u \in Workers \ {w} : phase'[u] = phase[u]
          /\ phase'[w] \notin {"hello", "tasks", "up"}
        BY DEF TypeOK
    <1>2. \A u \in Up' : u \in Up /\ u # w
        BY <1>1 DEF Up
    <1>3. \A u \in Workers : Starting(u)' => Starting(u) /\ u # w
        BY <1>1 DEF Starting
    <1>4. \A u \in Workers \ {w} : Know(u)' = Know(u)
        BY DEF Know
    <1>5. OneStarts'
        BY <1>3 DEF CalmInv, OneStarts
    <1>6. Common'
        BY <1>2, <1>4 DEF CalmInv, Common, Up
    <1>7. HelloInv'
        <2>. SUFFICES ASSUME NEW h \in Workers, NEW v \in Up', phase'[h] = "hello"
                      PROVE  /\ revoked'[h] \cup replies'[h] \subseteq Know(v)'
                             /\ Answered(h, v)'
            BY DEF HelloInv
        <2>1. h # w /\ phase[h] = "hello" /\ v \in Up /\ v # w /\ v \in Workers
            BY <1>1, <1>2 DEF Up
        <2>2. revoked[h] \cup replies[h] \subseteq Know(v) /\ Answered(h, v)
            BY <2>1 DEF CalmInv, HelloInv
        <2>. QED
            BY <1>4, <2>1, <2>2 DEF Answered
    <1>8. TasksInv'
        BY <1>1, <1>2 DEF CalmInv, TasksInv, Up
    <1>. QED
        BY <1>5, <1>6, <1>7, <1>8 DEF CalmInv

(* A hello reaches every worker that is up, while nobody else starts. *)
LEMMA SendHelloStep ==
    ASSUME TypeOK, Types, CalmInv, ~Overlap, NEW w \in Workers, SendHello(w)
    PROVE  CalmInv'
    <1>1. /\ phase[w] = "connecting" /\ phase' = [phase EXCEPT ![w] = "hello"]
          /\ \A v \in Workers : ~Starting(v)
          /\ mailbox' = Broadcast(HelloMsg(w)) /\ replies' = [replies EXCEPT ![w] = {}]
          /\ revoked' = revoked
        BY DEF SendHello
    <1>2. /\ phase'[w] = "hello" /\ replies'[w] = {}
          /\ \A u \in Workers \ {w} : phase'[u] = phase[u] /\ ~Starting(u)'
        BY <1>1 DEF TypeOK, Starting
    <1>3. Up' = Up /\ w \notin Up
        BY <1>1, <1>2 DEF Up
    <1>. DEFINE m == HelloMsg(w)
    <1>4. m \in Msg /\ m.ids = revoked[w] /\ m.type = "hello" /\ m.from = w
        BY MsgFacts DEF HelloMsg, TypeOK
    <1>5. \A v \in Up : v \in Workers /\ mailbox'[v] = Append(mailbox[v], m)
        BY <1>1 DEF Broadcast, Up
    <1>. HIDE DEF m
    <1>6. ASSUME NEW v \in Up
          PROVE  Know(v)' = Know(v) \cup revoked[w] /\ Answered(w, v)'
        <2>1. IdsIn(mailbox'[v]) = IdsIn(mailbox[v]) \cup revoked[w]
            BY <1>4, <1>5, IdsAppend DEF Types
        <2>2. mailbox'[v] # <<>> /\ LastIsHello(mailbox'[v], w)
            BY <1>4, <1>5 DEF LastIsHello, Types
        <2>. QED
            BY <1>1, <2>1, <2>2 DEF Know, Answered
    <1>7. OneStarts'
        BY <1>2 DEF OneStarts
    <1>8. Common'
        BY <1>3, <1>6 DEF CalmInv, Common
    <1>9. HelloInv'
        <2>. SUFFICES ASSUME NEW h \in Workers, NEW v \in Up', phase'[h] = "hello"
                      PROVE  /\ revoked'[h] \cup replies'[h] \subseteq Know(v)'
                             /\ Answered(h, v)'
            BY DEF HelloInv
        <2>1. h = w /\ v \in Up
            BY <1>2, <1>3 DEF Starting
        <2>. QED
            BY <1>1, <1>2, <1>6, <2>1
    <1>10. TasksInv'
        BY <1>2 DEF TasksInv, Starting
    <1>. QED
        BY <1>7, <1>8, <1>9, <1>10 DEF CalmInv

(* A worker that handles a command knows what it was going to know; when   *)
(* it is the hello of a worker that waits, that is in the answer.          *)
LEMMA HandleStep ==
    ASSUME TypeOK, Types, CalmInv, NEW v \in Workers, HandleHello(v) \/ HandleRevoke(v)
    PROVE  CalmInv'
    <1>. DEFINE m == Head(mailbox[v])
    <1>1. /\ phase' = phase /\ phase[v] = "up" /\ mailbox[v] # <<>>
          /\ mailbox' = [mailbox EXCEPT ![v] = Tail(@)]
          /\ revoked' = [revoked EXCEPT ![v] = @ \cup m.ids]
        BY DEF HandleHello, HandleRevoke
    <1>2. \/ m.type = "revoke" /\ replies' = replies
          \/ /\ m.type = "hello"
             /\ replies' = IF phase[m.from] = "hello"
                           THEN [replies EXCEPT ![m.from] = @ \cup (revoked[v] \cup m.ids)]
                           ELSE replies
        BY DEF HandleHello, HandleRevoke
    <1>3. /\ IdsIn(mailbox[v]) = m.ids \cup IdsIn(Tail(mailbox[v]))
          /\ m \in Msg
          /\ Tail(mailbox[v]) = <<>> => m = mailbox[v][Len(mailbox[v])]
          /\ Tail(mailbox[v]) # <<>> =>
                Tail(mailbox[v])[Len(Tail(mailbox[v]))] = mailbox[v][Len(mailbox[v])]
        BY <1>1, IdsTail DEF Types
    <1>4. m.type = "hello" => m.from \in Workers
        BY <1>3, MsgFacts
    <1>. HIDE DEF m
    <1>5. Up' = Up /\ v \in Up /\ \A u \in Workers : Starting(u)' <=> Starting(u)
        BY <1>1 DEF Up, Starting
    <1>6. /\ mailbox'[v] = Tail(mailbox[v]) /\ revoked'[v] = revoked[v] \cup m.ids
          /\ \A u \in Workers \ {v} : mailbox'[u] = mailbox[u] /\ revoked'[u] = revoked[u]
        BY <1>1 DEF TypeOK, Types
    <1>7. \A u \in Workers : Know(u)' = Know(u)
        BY <1>3, <1>6 DEF Know
    <1>8. OneStarts'
        BY <1>5 DEF CalmInv, OneStarts
    <1>9. Common'
        BY <1>5, <1>7 DEF CalmInv, Common, Up
    <1>10. HelloInv'
        <2>. SUFFICES ASSUME NEW h \in Workers, NEW u \in Up', phase'[h] = "hello"
                      PROVE  /\ revoked'[h] \cup replies'[h] \subseteq Know(u)'
                             /\ Answered(h, u)'
            BY DEF HelloInv
        <2>1. phase[h] = "hello" /\ h # v /\ u \in Up /\ u \in Workers
            BY <1>1, <1>5 DEF Up
        <2>2. revoked[h] \cup replies[h] \subseteq Know(u) /\ Answered(h, u) /\ Answered(h, v)
            BY <1>5, <2>1 DEF CalmInv, HelloInv
        <2>3. revoked[v] \cup m.ids \subseteq Know(u)
            <3>1. Know(v) = Know(u)
                BY <1>5, <2>1 DEF CalmInv, Common
            <3>. QED
                BY <1>3, <3>1 DEF Know
        <2>4. /\ replies[h] \subseteq replies'[h]
              /\ replies'[h] \subseteq replies[h] \cup (revoked[v] \cup m.ids)
              /\ m.type = "hello" /\ m.from = h => revoked[v] \cup m.ids \subseteq replies'[h]
            BY <1>2, <1>4, <2>1 DEF TypeOK
        <2>5. revoked'[h] \cup replies'[h] \subseteq Know(u)'
            BY <1>6, <1>7, <2>1, <2>2, <2>3, <2>4
        <2>6. CASE u # v
            BY <1>6, <2>1, <2>2, <2>4, <2>5, <2>6 DEF Answered
        <2>7. CASE u = v
            <3>1. LastIsHello(mailbox[v], h)
                BY <1>1, <2>2 DEF Answered
            <3>2. CASE Tail(mailbox[v]) = <<>>
                BY <1>3, <1>6, <2>4, <2>5, <2>7, <3>1, <3>2 DEF Answered, LastIsHello
            <3>3. CASE Tail(mailbox[v]) # <<>>
                BY <1>3, <1>6, <2>5, <2>7, <3>1, <3>3 DEF Answered, LastIsHello
            <3>. QED
                BY <3>2, <3>3
        <2>. QED
            BY <2>6, <2>7
    <1>11. TasksInv'
        BY <1>1, <1>5 DEF CalmInv, TasksInv
    <1>. QED
        BY <1>8, <1>9, <1>10, <1>11 DEF CalmInv

(* Once every hello is answered the worker knows what the others know. *)
LEMMA CollectStep ==
    ASSUME TypeOK, Types, CalmInv, ~SlowReplies, NEW w \in Workers, Collect(w)
    PROVE  CalmInv'
    <1>1. /\ phase[w] = "hello" /\ ~Pending(w) /\ phase' = [phase EXCEPT ![w] = "tasks"]
          /\ revoked' = [revoked EXCEPT ![w] = @ \cup replies[w]] /\ mailbox' = mailbox
        BY DEF Collect
    <1>2. /\ phase'[w] = "tasks" /\ revoked'[w] = revoked[w] \cup replies[w]
          /\ \A u \in Workers \ {w} : phase'[u] = phase[u] /\ revoked'[u] = revoked[u]
        BY <1>1 DEF TypeOK
    <1>3. Up' = Up /\ w \notin Up
        BY <1>1, <1>2 DEF Up
    <1>4. \A u \in Workers \ {w} : phase'[u] \notin {"hello", "tasks"}
        BY <1>1, <1>2 DEF CalmInv, OneStarts, Starting
    <1>5. ASSUME NEW v \in Up
          PROVE  mailbox[v] = <<>> /\ revoked[v] = revoked[w] \cup replies[w]
        <2>1. revoked[w] \cup replies[w] \subseteq Know(v) /\ Answered(w, v)
            BY <1>1 DEF CalmInv, HelloInv
        <2>2. mailbox[v] = <<>>
            <3>1. SUFFICES ASSUME mailbox[v] # <<>> PROVE FALSE
                OBVIOUS
            <3>2. Len(mailbox[v]) \in DOMAIN mailbox[v]
                BY <3>1 DEF Types, Up
            <3>. QED
                BY <1>1, <2>1, <3>1, <3>2 DEF Answered, LastIsHello, Pending
        <2>3. Know(v) = revoked[v]
            BY <2>2, IdsEmpty DEF Know
        <2>. QED
            BY <2>1, <2>2, <2>3 DEF Answered
    <1>6. OneStarts'
        BY <1>4 DEF OneStarts, Starting
    <1>7. Common'
        BY <1>1, <1>2, <1>3 DEF CalmInv, Common, Know, Up
    <1>8. HelloInv'
        BY <1>2, <1>4 DEF HelloInv
    <1>9. TasksInv'
        <2>. SUFFICES ASSUME NEW h \in Workers, NEW v \in Up', phase'[h] = "tasks"
                      PROVE  mailbox'[v] = <<>> /\ revoked'[v] = revoked'[h]
            BY DEF TasksInv
        <2>1. h = w /\ v \in Up /\ v # w /\ v \in Workers
            BY <1>3, <1>4 DEF Up
        <2>. QED
            BY <1>1, <1>2, <1>5, <2>1
    <1>. QED
        BY <1>6, <1>7, <1>8, <1>9 DEF CalmInv

(* The new mailbox is empty, and so are the others. *)
LEMMA StartControlStep ==
    ASSUME TypeOK, Types, CalmInv, NEW w \in Workers, StartControl(w)
    PROVE  CalmInv'
    <1>1. /\ phase[w] = "tasks" /\ phase' = [phase EXCEPT ![w] = "up"]
          /\ mailbox' = [mailbox EXCEPT ![w] = <<>>] /\ revoked' = revoked
        BY DEF StartControl
    <1>2. /\ phase'[w] = "up" /\ mailbox'[w] = <<>>
          /\ \A u \in Workers \ {w} : phase'[u] = phase[u] /\ mailbox'[u] = mailbox[u]
        BY <1>1 DEF TypeOK, Types
    <1>3. Up' = Up \cup {w}
        BY <1>1, <1>2 DEF Up
    <1>4. \A u \in Workers : ~Starting(u)'
        BY <1>1, <1>2 DEF CalmInv, OneStarts, Starting
    <1>5. \A v \in Up' : Know(v)' = revoked[w]
        <2>. SUFFICES ASSUME NEW v \in Up' PROVE Know(v)' = revoked[w]
            OBVIOUS
        <2>1. mailbox'[v] = <<>> /\ revoked[v] = revoked[w]
            BY <1>1, <1>2, <1>3 DEF CalmInv, TasksInv, Up
        <2>. QED
            BY <1>1, <2>1, IdsEmpty DEF Know
    <1>6. OneStarts' /\ HelloInv' /\ TasksInv'
        BY <1>4 DEF OneStarts, HelloInv, TasksInv, Starting
    <1>7. Common'
        BY <1>5 DEF Common
    <1>. QED
        BY <1>6, <1>7 DEF CalmInv

(* A revocation reaches every worker that is up, while nobody starts. *)
LEMMA RevokeStep ==
    ASSUME TypeOK, Types, CalmInv, ~RevokeInBoot, NEW id \in Ids, Revoke(id)
    PROVE  CalmInv'
    <1>1. /\ \A u \in Workers : ~Starting(u)
          /\ mailbox' = Broadcast(RevokeMsg(id)) /\ phase' = phase /\ revoked' = revoked
        BY DEF Revoke
    <1>2. Up' = Up /\ \A u \in Workers : ~Starting(u)'
        BY <1>1 DEF Up, Starting
    <1>3. ASSUME NEW v \in Up PROVE Know(v)' = Know(v) \cup {id}
        <2>1. mailbox'[v] = Append(mailbox[v], RevokeMsg(id)) /\ mailbox[v] \in Seq(Msg)
            BY <1>1 DEF Broadcast, Up, Types
        <2>2. IdsIn(mailbox'[v]) = IdsIn(mailbox[v]) \cup {id}
            BY <2>1, IdsAppend, MsgFacts
        <2>. QED
            BY <1>1, <2>2 DEF Know
    <1>4. OneStarts' /\ HelloInv' /\ TasksInv'
        BY <1>2 DEF OneStarts, HelloInv, TasksInv, Starting
    <1>5. Common'
        BY <1>2, <1>3 DEF CalmInv, Common
    <1>. QED
        BY <1>4, <1>5 DEF CalmInv

(* In a calm environment every step keeps the calm invariant. *)
LEMMA CalmStep ==
    ASSUME TypeOK, Types, CalmInv, Calm, [Next]_vars
    PROVE  CalmInv'
    <1>1. ASSUME NEW w \in Workers, Boot(w) PROVE CalmInv'
        <2>1. /\ phase' = [phase EXCEPT ![w] = "connecting"]
              /\ revoked' = [revoked EXCEPT ![w] = db[w]]
              /\ mailbox' = mailbox /\ replies' = replies
            BY <1>1 DEF Boot
        <2>. QED
            BY <2>1, LeaveStep DEF TypeOK
    <1>2. ASSUME NEW w \in Workers, LoseConnection(w) PROVE CalmInv'
        <2>1. /\ phase' = [phase EXCEPT ![w] = "connecting"]
              /\ mailbox' = [mailbox EXCEPT ![w] = <<>>]
              /\ replies' = [replies EXCEPT ![w] = {}] /\ revoked' = revoked
            BY <1>2 DEF LoseConnection
        <2>. QED
            BY <2>1, LeaveStep DEF TypeOK, Types
    <1>3. ASSUME NEW w \in Workers, Stop(w) \/ Crash(w) PROVE CalmInv'
        <2>1. /\ phase' = [phase EXCEPT ![w] = "off"]
              /\ mailbox' = [mailbox EXCEPT ![w] = <<>>]
              /\ revoked' = [revoked EXCEPT ![w] = {}]
              /\ replies' = replies \/ replies' = [replies EXCEPT ![w] = {}]
            BY <1>3 DEF Stop, Crash
        <2>. QED
            BY <2>1, LeaveStep DEF TypeOK, Types
    <1>4. CASE UNCHANGED vars
        BY <1>4 DEF vars, CalmInv, OneStarts, Common, HelloInv, TasksInv, Up, Starting,
                    Know, Answered
    <1>. QED
        BY <1>1, <1>2, <1>3, <1>4, SendHelloStep, HandleStep, CollectStep, StartControlStep,
           RevokeStep DEF Calm, Next, WorkerStep

(* A cluster without workers satisfies the inductive invariant. *)
LEMMA InitInv == Init => Inv
    <1>. SUFFICES ASSUME Init PROVE Inv
        OBVIOUS
    <1>1. TypeOK /\ Types /\ Loaded
        BY DEF Init, TypeOK, Types, Loaded
    <1>2. \A w \in Workers : phase[w] = "off"
        BY DEF Init
    <1>3. CalmInv
        BY <1>2 DEF CalmInv, OneStarts, Common, HelloInv, TasksInv, Up, Starting
    <1>. QED
        BY <1>1, <1>3 DEF Inv

(* Every step keeps the inductive invariant. *)
LEMMA NextInv == Inv /\ [Next]_vars => Inv'
    BY TypesStep, TypeOKStep, LoadedStep, CalmStep DEF Inv, Calm

(* Where nothing is on its way a worker knows what it was going to know. *)
LEMMA InvAgrees == Inv => RevokedAgreed
    <1>. SUFFICES ASSUME Inv PROVE RevokedAgreed
        OBVIOUS
    <1>1. Remembered
        BY DEF Inv, Loaded, Remembered
    <1>2. ASSUME Calm, Quiet, NEW v \in Up, NEW w \in Up PROVE revoked[v] = revoked[w]
        <2>1. mailbox[v] = <<>> /\ mailbox[w] = <<>>
            BY <1>2 DEF Quiet, Up
        <2>2. Know(v) = Know(w)
            BY <1>2 DEF Inv, CalmInv, Common
        <2>. QED
            BY <2>1, <2>2, IdsEmpty DEF Know
    <1>. QED
        BY <1>1, <1>2 DEF Inv, RevokedAgreed, Agreement

(* Whatever workers stop, die and come back: in a calm environment those   *)
(* that are up agree on the revoked ids once nothing is on its way, and in *)
(* any environment a worker knows what it saved (Mingle.sync,              *)
(* control.hello, Persistent).                                             *)
THEOREM WorkersAgree == Spec => []RevokedAgreed
    BY InitInv, NextInv, InvAgrees, PTL DEF Spec
=============================================================================
