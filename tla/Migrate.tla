------------------------------- MODULE Migrate -------------------------------
(***************************************************************************)
(* Moving task messages: migrate_tasks (from one broker to another) and    *)
(* move (between queues) of contrib/migrate.py, with the Filterer both run *)
(* on.  For every message the consumer calls its callbacks in the order    *)
(* they were registered: the filter, which republishes, then update_state, *)
(* which counts and may stop, then the acknowledgement.  A run that stops, *)
(* for whatever reason, gives back what it did not acknowledge.  (Names of *)
(* tasks are read from the body, as task protocol 1 has them.)             *)
(***************************************************************************)
EXTENDS Naturals, Sequences, SequencesExt, FiniteSets

CONSTANTS Messages,
          Wanted,      \* messages that the predicate of a move wants
          Named,       \* messages of the task names a command may be restricted to
          Limits,      \* the limits to try; 0 is no limit
          MaxRuns,     \* bound: how often the operator runs the command
          MaxCrashes   \* bound: connections lost in the middle

MigrateConstants ==
    /\ IsFiniteSet(Messages) /\ Messages # {} /\ Limits \subseteq Nat
    /\ MaxRuns \in Nat /\ MaxCrashes \in Nat

VARIABLES op,        \* the command: which, its limit, whether to acknowledge, whether to filter
          source,    \* messages ready at the source, in order
          unacked,   \* messages delivered and not acknowledged
          dest,      \* messages published at the destination, in order
          at,        \* the callbacks the current message has still to go through
          message,   \* the current message
          count,     \* state.count, or state.filtered for move
          running, runs, crashes,
          moved      \* history: messages republished by this run

vars == <<op, source, unacked, dest, at, message, count, running, runs, crashes, moved>>

Ops == [kind : {"migrate", "move"}, limit : Limits, ack : BOOLEAN, tasks : BOOLEAN]

TypeOK ==
    /\ op \in Ops /\ message \in Messages
    /\ Range(source) \cup Range(dest) \cup unacked \cup moved \subseteq Messages
    /\ Range(at) \subseteq {"filter", "update_state", "moved", "ack"}
    /\ count \in 0..Cardinality(Messages) /\ running \in BOOLEAN
    /\ runs \in 0..MaxRuns /\ crashes \in 0..MaxCrashes

\* filter_callback: with task names, a callback sees only messages of these names.
Sees(m) == ~op.tasks \/ m \in Named

\* The messages the command is to move.
Moves(m) == Sees(m) /\ (op.kind = "move" => m \in Wanted)

\* The two halves of the filter: migrate_task and the update_state that follows, or
\* on_task of move before and after the message is published.  (update_state counts
\* for a move as well, but a move keeps its limit and its count to itself.)
Filter == IF op.kind = "move" THEN <<"filter", "moved">> ELSE <<"filter", "update_state">>

\* Mutant of Callbacks: a message is acknowledged before it is published.
CallbacksAckFirst(m) ==
    (IF op.ack THEN <<"ack">> ELSE <<>>) \o (IF Sees(m) THEN Filter ELSE <<>>)

\* Filterer.prepare_consumer: the callbacks a message goes through.  The filter and
\* the state are wrapped in filter_callback; ack_message is registered as it is.
Callbacks(m) ==
    (IF Sees(m) THEN Filter ELSE <<>>) \o (IF op.ack THEN <<"ack">> ELSE <<>>)

Start ==
    /\ ~running /\ runs < MaxRuns
    /\ running' = TRUE /\ runs' = runs + 1 /\ count' = 0 /\ moved' = {}
    /\ UNCHANGED <<op, source, unacked, dest, at, message, crashes>>

\* The consumer is closed: the broker has what was not acknowledged again.
Closed ==
    /\ running' = FALSE /\ at' = <<>>

Deliver ==
    /\ running /\ at = <<>> /\ source # <<>>
    /\ message' = Head(source) /\ source' = Tail(source)
    /\ unacked' = unacked \cup {Head(source)}
    /\ at' = Callbacks(Head(source))
    /\ UNCHANGED <<op, dest, count, running, runs, crashes, moved>>

\* migrate_task, republish.
MigrateTask ==
    /\ running /\ op.kind = "migrate" /\ at # <<>> /\ Head(at) = "filter"
    /\ dest' = Append(dest, message) /\ moved' = moved \cup {message}
    /\ at' = Tail(at)
    /\ UNCHANGED <<op, source, unacked, message, count, running, runs, crashes>>

\* move: republish what the predicate wants ...
OnTask ==
    /\ running /\ op.kind = "move" /\ at # <<>> /\ Head(at) = "filter"
    /\ IF message \in Wanted
         THEN dest' = Append(dest, message) /\ moved' = moved \cup {message} /\ at' = Tail(at)
         ELSE at' = Tail(Tail(at)) /\ UNCHANGED <<dest, moved>>
    /\ UNCHANGED <<op, source, unacked, message, count, running, runs, crashes>>

\* What happens to the unacknowledged messages when the run ends here.
GiveBack(left) == /\ source' = SetToSeq(left) \o source
                  /\ unacked' = {}

\* ... acknowledge it, count it, and stop at the limit.
OnTaskMoved ==
    /\ running /\ at # <<>> /\ Head(at) = "moved"
    /\ count' = count + 1
    /\ IF op.limit > 0 /\ count + 1 >= op.limit
         THEN Closed /\ GiveBack(unacked \ {message})
         ELSE at' = Tail(at) /\ unacked' = unacked \ {message} /\ UNCHANGED <<source, running>>
    /\ UNCHANGED <<op, dest, message, runs, crashes, moved>>

\* Filterer.update_state: StopFiltering leaves out the callbacks that follow.
UpdateState ==
    /\ running /\ at # <<>> /\ Head(at) = "update_state"
    /\ count' = count + 1
    /\ IF op.limit > 0 /\ count + 1 >= op.limit
         THEN Closed /\ GiveBack(unacked)
         ELSE at' = Tail(at) /\ UNCHANGED <<source, unacked, running>>
    /\ UNCHANGED <<op, dest, message, runs, crashes, moved>>

\* Filterer.ack_message.  A message that on_task has acknowledged cannot be
\* acknowledged again: kombu raises MessageStateError, which ends the run.
AckMessage ==
    /\ running /\ at # <<>> /\ Head(at) = "ack"
    /\ IF message \in unacked
         THEN unacked' = unacked \ {message} /\ at' = Tail(at) /\ UNCHANGED <<source, running>>
         ELSE Closed /\ GiveBack(unacked)
    /\ UNCHANGED <<op, dest, message, count, runs, crashes, moved>>

\* Filterer.start: the event loop times out when nothing comes any more.
Timeout ==
    /\ running /\ at = <<>> /\ source = <<>>
    /\ Closed /\ GiveBack(unacked)
    /\ UNCHANGED <<op, dest, message, count, runs, crashes, moved>>

\* The process or its connection is lost between any two of these.
Crash ==
    /\ running /\ crashes < MaxCrashes /\ crashes' = crashes + 1
    /\ Closed /\ GiveBack(unacked)
    /\ UNCHANGED <<op, dest, message, count, runs, moved>>

Init ==
    /\ op \in Ops
    /\ source = SetToSeq(Messages) /\ unacked = {} /\ dest = <<>>
    /\ at = <<>> /\ message = Head(source) /\ count = 0
    /\ running = FALSE /\ runs = 0 /\ crashes = 0 /\ moved = {}

Work == Deliver \/ MigrateTask \/ OnTask \/ OnTaskMoved \/ UpdateState \/ AckMessage \/ Timeout
Next == Start \/ Work \/ Crash
Spec == Init /\ [][Next]_vars /\ WF_vars(Work)

(***************************************************************************)
(* Properties                                                              *)
(***************************************************************************)
\* migrate.py, migrate_tasks ("Migrate tasks from one broker to another"): at every
\* moment a task is at the source or at the destination.
NothingLost == \A m \in Messages : m \in Range(source) \cup unacked \cup Range(dest)

\* It is so of the messages the command is to move, and of all of them if it was not
\* told to acknowledge (ack_messages): with it, the messages it does not move, those
\* of other names and those the predicate of a move does not want, are acknowledged
\* and not republished.
MovedOrKept ==
    \A m \in Messages :
        Moves(m) \/ ~op.ack => m \in Range(source) \cup unacked \cup Range(dest)

\* Only what was asked for is moved.
OnlyWanted == \A m \in Range(dest) : Moves(m)

\* A limit is not exceeded by any run.
LimitKept == op.limit > 0 => Cardinality(moved) =< op.limit

\* A run that ended without a crash has left nothing it moved at the source, if it
\* was to acknowledge; the message that reached the limit of a migration excepted.
MovedAway ==
    ~running /\ crashes = 0 /\ (op.kind = "move" \/ (op.ack /\ op.limit = 0)) =>
        Range(source) \cap Range(dest) = {} /\ IsInjective(dest)

MigrateRight == TypeOK /\ MovedOrKept /\ OnlyWanted /\ LimitKept /\ MovedAway
=============================================================================
