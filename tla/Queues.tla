------------------------------- MODULE Queues --------------------------------
(***************************************************************************)
(* Which queues a worker consumes from: the Queues mapping of app/amqp.py  *)
(* (select, deselect, select_add), the add_consumer and cancel_consumer    *)
(* commands, the pending operations of the consumer they are put into, and *)
(* the broker's consumer, which a lost connection builds anew.             *)
(*                                                                         *)
(* A command answers `ok' when its operation is put down.  The operations  *)
(* are performed later by the loop: without an event loop from the end of  *)
(* a list, under the event loop from a set, in no particular order.        *)
(*                                                                         *)
(* With quorum queues each start of the consumer also binds the queues of  *)
(* the mapping to the exchange for delays, at every broker                 *)
(* (worker/consumer/delayed_delivery.py).                                  *)
(***************************************************************************)
EXTENDS Naturals, Sequences, FiniteSets

CONSTANTS Names,        \* queue names
          Configured,   \* the queues of task_queues
          Alias,        \* alias -> the configured queue it stands for
          MaxCommands,  \* bound: commands given
          MaxLosses,    \* bound: connections lost
          Native,       \* quorum queues are detected: DelayedDelivery.include_if
          Urls,         \* the brokers of broker_url
          MaxRetries,   \* MAX_RETRIES of a broker's setup
          MaxTroubles   \* bound: setups that raise

QueuesConstants ==
    /\ Configured \subseteq Names /\ DOMAIN Alias \subseteq Names \ Configured
    /\ \A q \in DOMAIN Alias : Alias[q] \in Configured
    /\ {MaxCommands, MaxLosses, MaxRetries, MaxTroubles} \subseteq Nat
    /\ Native \in BOOLEAN /\ Urls # {}

VARIABLES hub,        \* the worker has an event loop
          known,      \* the keys of the mapping
          selected,   \* _consume_from, when queues were selected explicitly
          explicit,   \* whether they were: _consume_from is not None
          default,    \* _default_consume_from
          consuming,  \* the queues of the broker's consumer
          connected,
          pending,    \* operations put down, in order
          wanted,     \* history: name -> what the last command for it was
          together,   \* history: names two of whose operations were pending at once
          twice,      \* history: queues selected by adding an alias of theirs twice
          given, losses,
          todo,       \* DelayedDelivery.start: the brokers still to be set up
          attempt,    \* how often the setup of each was tried
          failed,     \* setup_errors: the brokers given up
          bound,      \* at each broker, the queues bound to the exchange for delays
          troubles

delayVars == <<todo, attempt, failed, bound, troubles>>
vars == <<hub, known, selected, explicit, default, consuming, connected, pending, wanted,
          together, twice, given, losses, delayVars>>
mapping == <<known, selected, explicit, default, twice>>

TypeOK ==
    /\ {known, selected, default, consuming, together, twice} \subseteq SUBSET Names
    /\ {hub, explicit, connected} \subseteq BOOLEAN
    /\ pending \in Seq([op : {"add", "cancel"}, queue : Names])
    /\ wanted \in [Names -> {"on", "off"}]
    /\ given \in 0..MaxCommands /\ losses \in 0..MaxLosses
    /\ todo \subseteq Urls /\ failed \subseteq Urls \ todo
    /\ attempt \in [Urls -> 0..MaxRetries] /\ bound \in [Urls -> SUBSET Names]
    /\ troubles \in 0..MaxTroubles

\* Queues.consume_from.
ConsumeFrom == IF explicit THEN selected ELSE default

\* The name a lookup by alias finds.
Real(q) == IF q \in DOMAIN Alias THEN Alias[q] ELSE q

\* Queues.select and deselect, on the mapping as the application made it: what is
\* selected explicitly, and what is consumed from if nothing is.
Select(include) == {Real(q) : q \in include}
Deselect(queues, exclude) == queues \ {Real(q) : q \in exclude}

\* The queue add_task_queue selects.  A name that is no key of the mapping is a new
\* queue, an alias too; one that is a key is looked up, and an alias shadows the key.
Found(q) == IF q \in known THEN Real(q) ELSE q

\* Queues.select_add: the queue is consumed from even where others were selected.
SelectAdd(q) ==
    /\ known' = known \cup {q}
    /\ IF explicit
         THEN selected' = selected \cup {q} /\ UNCHANGED default
         ELSE default' = default \cup {q} /\ UNCHANGED selected

(***************************************************************************)
(* Commands: the handlers of worker/control.py put an operation down.      *)
(***************************************************************************)
CallSoon(op, q) ==
    /\ given < MaxCommands /\ given' = given + 1
    /\ pending' = Append(pending, [op |-> op, queue |-> q])
    /\ together' = IF \E i \in DOMAIN pending : Real(pending[i].queue) = Real(q)
                     THEN together \cup {Real(q)} ELSE together
    /\ UNCHANGED <<hub, mapping, consuming, connected, losses, delayVars>>

AddConsumer(q) == CallSoon("add", q) /\ wanted' = [wanted EXCEPT ![q] = "on"]
CancelConsumer(q) == CallSoon("cancel", q) /\ wanted' = [wanted EXCEPT ![Real(q)] = "off"]

\* Mutant of AddTaskQueue: the broker is not told.
AddTaskQueueUntold(q) == SelectAdd(Found(q)) /\ UNCHANGED <<consuming, twice>>

(***************************************************************************)
(* Operations: add_task_queue, cancel_task_queue.  The mapping is changed  *)
(* first; the broker's consumer follows, unless the connection is gone,    *)
(* and then the error is logged and the operation is not tried again.      *)
(***************************************************************************)
AddTaskQueue(q) ==
    /\ SelectAdd(Found(q))
    /\ consuming' = IF connected /\ q \notin consuming THEN consuming \cup {Found(q)} ELSE consuming
    /\ twice' = IF Found(q) # q THEN twice \cup {Found(q)} ELSE twice

CancelTaskQueue(q) ==
    /\ IF explicit
         THEN selected' = Deselect(selected, {q}) /\ UNCHANGED default
         ELSE default' = Deselect(default, {q}) /\ UNCHANGED selected
    /\ consuming' = IF connected THEN consuming \ {Real(q)} ELSE consuming
    /\ UNCHANGED <<known, twice>>

\* the sequence without its element i
RemoveAt(s, i) == [j \in 1..Len(s) - 1 |-> IF j < i THEN s[j] ELSE s[j + 1]]

\* perform_pending_operations takes the last; the hub takes any.  Both are part of
\* the loop, which begins when all steps have started.
Perform(i) ==
    /\ todo = {}
    /\ i \in DOMAIN pending /\ (hub \/ i = Len(pending))
    /\ pending' = RemoveAt(pending, i)
    /\ \/ pending[i].op = "add" /\ AddTaskQueue(pending[i].queue)
       \/ pending[i].op = "cancel" /\ CancelTaskQueue(pending[i].queue)
    /\ UNCHANGED <<hub, explicit, connected, wanted, together, given, losses, delayVars>>

LoseConnection ==
    /\ todo = {} /\ connected /\ losses < MaxLosses
    /\ connected' = FALSE /\ losses' = losses + 1
    /\ UNCHANGED <<hub, mapping, consuming, pending, wanted, together, given, delayVars>>

\* Tasks.start: AMQP.TaskConsumer over consume_from.  DelayedDelivery.start follows.
Reconnect ==
    /\ ~connected
    /\ connected' = TRUE
    /\ consuming' = ConsumeFrom
    /\ todo' = IF Native THEN Urls ELSE {}
    /\ attempt' = [u \in Urls |-> 0] /\ failed' = {}
    /\ UNCHANGED <<hub, mapping, pending, wanted, together, given, losses, bound, troubles>>

(***************************************************************************)
(* DelayedDelivery.start: one broker after the other.                      *)
(***************************************************************************)
\* retry_over_time stays with a broker until it is through or given up
Turn(u) == u \in todo /\ \A v \in todo : attempt[v] > 0 => v = u

Bind(u, queues) == bound' = [bound EXCEPT ![u] = @ \cup queues]

\* _setup_delayed_delivery: declare, then bind every queue of the mapping
SetupDelayedDelivery(u) ==
    /\ Turn(u)
    /\ Bind(u, known)
    /\ todo' = todo \ {u}
    /\ UNCHANGED <<attempt, failed, troubles>>
    /\ UNCHANGED <<hub, mapping, consuming, connected, pending, wanted, together, given, losses>>

\* Mutant of BindFails: the exceptions that were collected are not raised.
BindFailsUnraised(u) ==
    /\ Turn(u) /\ troubles < MaxTroubles /\ troubles' = troubles + 1
    /\ \E queues \in SUBSET known \ {known} : Bind(u, queues)
    /\ todo' = todo \ {u}
    /\ UNCHANGED <<attempt, failed>>
    /\ UNCHANGED <<hub, mapping, consuming, connected, pending, wanted, together, given, losses>>

\* _bind_queues: a queue that cannot be bound does not keep the others from it;
\* the broker counts as failed.
BindFails(u) ==
    /\ Turn(u) /\ troubles < MaxTroubles /\ troubles' = troubles + 1
    /\ \E queues \in SUBSET known \ {known} : Bind(u, queues)
    /\ todo' = todo \ {u} /\ failed' = failed \cup {u}
    /\ UNCHANGED attempt
    /\ UNCHANGED <<hub, mapping, consuming, connected, pending, wanted, together, given, losses>>

\* ConnectionRefusedError or OSError, anywhere in it: from the beginning, and after
\* MAX_RETRIES the next broker
ConnectionFails(u) ==
    /\ Turn(u) /\ troubles < MaxTroubles /\ troubles' = troubles + 1
    /\ \E queues \in SUBSET known : Bind(u, queues)
    /\ IF attempt[u] < MaxRetries
         THEN attempt' = [attempt EXCEPT ![u] = @ + 1] /\ UNCHANGED <<todo, failed>>
         ELSE todo' = todo \ {u} /\ failed' = failed \cup {u} /\ UNCHANGED attempt
    /\ UNCHANGED <<hub, mapping, consuming, connected, pending, wanted, together, given, losses>>

DelayedDelivery ==
    \E u \in Urls : SetupDelayedDelivery(u) \/ BindFails(u) \/ ConnectionFails(u)

\* WorkController.setup_queues: select(include), then deselect(exclude).
Init ==
    \E include, exclude \in SUBSET (Configured \cup DOMAIN Alias) :
        /\ hub \in BOOLEAN
        /\ known = Configured
        /\ explicit = (include # {})
        /\ selected = IF explicit THEN Deselect(Select(include), exclude) ELSE {}
        /\ default = IF explicit THEN Configured ELSE Deselect(Configured, exclude)
        /\ consuming = ConsumeFrom /\ connected = TRUE /\ pending = <<>>
        /\ wanted = [q \in Names |-> IF q \in ConsumeFrom THEN "on" ELSE "off"]
        /\ together = {} /\ twice = {} /\ given = 0 /\ losses = 0
        /\ todo = (IF Native THEN Urls ELSE {}) /\ failed = {} /\ troubles = 0
        /\ attempt = [u \in Urls |-> 0] /\ bound = [u \in Urls |-> {}]

Next ==
    \/ \E q \in Names : AddConsumer(q) \/ CancelConsumer(q)
    \/ \E i \in 1..MaxCommands : Perform(i)
    \/ LoseConnection \/ Reconnect \/ DelayedDelivery

Fairness == WF_vars(DelayedDelivery) /\ WF_vars(Reconnect) /\ WF_vars(\E i \in 1..MaxCommands : Perform(i))
Spec == Init /\ [][Next]_vars /\ Fairness

(***************************************************************************)
(* Properties                                                              *)
(***************************************************************************)
\* On a live connection the broker's consumer and the mapping agree: a command
\* whose connection broke half way is made good by the reconnect.
ConsumesAllSelected == connected => consuming = ConsumeFrom

\* They do but for one case.  workers.rst:956 calls add_consumer idempotent; an alias
\* that is added a second time selects the queue it stands for, which is then consumed
\* from only after the next reconnect.
ConsumesSelected ==
    connected => consuming \subseteq ConsumeFrom /\ ConsumeFrom \subseteq consuming \cup twice

\* workers.rst ("You can cancel a consumer by queue name using the cancel_consumer
\* control command"): once the operations are done, the last command for a queue
\* is what counts.
LastCommandCounts ==
    pending = <<>> => \A q \in Names : q \in ConsumeFrom <=> wanted[q] = "on"

\* It does for a queue whose operations were never pending together, and that was not
\* selected by a second add_consumer of an alias.
LastCommandCountsApart ==
    pending = <<>> =>
        \A q \in Names \ (together \cup twice) : q \in ConsumeFrom <=> wanted[q] = "on"

\* Once the worker is up, a queue the application configured can receive delayed
\* tasks through every broker that was not given up, however the setups of the
\* others ended ("Failures are logged but don't prevent attempting remaining
\* URLs", delayed_delivery.py:70).
DelaysArrive ==
    Native /\ todo = {} /\ connected => \A u \in Urls \ failed : Configured \subseteq bound[u]

\* rabbitmq.rst:253 ("automatically enabled when quorum queues are detected"): so can
\* every queue the worker consumes from.  One added by add_consumer can not, until
\* the next start of the consumer.
AddedIsBound ==
    Native /\ todo = {} /\ connected => \A u \in Urls \ failed : consuming \subseteq bound[u]

QueuesRight == TypeOK /\ ConsumesSelected /\ LastCommandCountsApart /\ DelaysArrive
=============================================================================
