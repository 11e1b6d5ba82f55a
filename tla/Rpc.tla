-------------------------------- MODULE Rpc --------------------------------
(* The client of the RPC result backend: one reply queue for all results,  *)
(* read by a consumer and, when a state is asked for, emptied by hand; the *)
(* results of a group are joined (backends/rpc.py, asynchronous.py,        *)
(* result.py, BufferMap of utils/collections.py).                          *)
EXTENDS Naturals, Sequences, FiniteSets, SequencesExt, FiniteSetsExt

CONSTANTS Ids,        \* the tasks, in the order of the group: 1..n
    Buffer,           \* MESSAGE_BUFFER_MAX, the size of the map of messages
    MaxDrops          \* bound on the lost connections

RpcConstants ==
    /\ IsFiniteSet(Ids) /\ Ids = 1..Cardinality(Ids)
    /\ Buffer \in Nat \ {0} /\ MaxDrops \in Nat

States == {"PENDING", "STARTED", "SUCCESS", "FAILURE"}
ReadyStates == {"SUCCESS", "FAILURE"}

VARIABLES
    worker,     \* the state each task has reached and sent
    reply,      \* the reply queue, messages <<id, state>>
    inbox,      \* messages the broker has pushed to the consumer (no_ack)
    consuming,  \* the consumer has been started
    cache,      \* AsyncResult._cache: the ready state or "PENDING"
    pending,    \* backend._pending_results
    buffer,     \* backend._pending_messages: <<id, messages>>, least recently used first
    total,      \* its counter
    outOfBand,  \* backend._out_of_band
    grouped,    \* the GroupResult has been made
    bucket, buckets,  \* the bucket of a join, the results it collects
    client,     \* what the client is doing: <<operation, id>>
    joined,     \* what the join has got so far: <<id, state>>
    drops, gone \* lost connections, messages lost by them, evicted or forgotten

vars == <<worker, reply, inbox, consuming, cache, pending, buffer, total, outOfBand, grouped,
          bucket, buckets, client, joined, drops, gone>>

Idle == <<"idle", 0>>
Message(i, s) == <<i, s>>

Init ==
    /\ worker = [i \in Ids |-> "PENDING"]
    /\ reply = <<>> /\ inbox = <<>> /\ consuming = FALSE
    /\ cache = [i \in Ids |-> "PENDING"]
    /\ pending = {} /\ buffer = <<>> /\ total = 0
    /\ outOfBand = [i \in Ids |-> "PENDING"]
    /\ grouped = FALSE /\ bucket = <<>> /\ buckets = {}
    /\ client = Idle /\ joined = <<>> /\ drops = 0 /\ gone = {}

TypeOK ==
    /\ worker \in [Ids -> States] /\ cache \in [Ids -> ReadyStates \cup {"PENDING"}]
    /\ pending \subseteq Ids /\ total \in Nat

-----------------------------------------------------------------------------
\* BufferMap: the place of a key, the messages it has
Place(b, i) == CHOOSE n \in DOMAIN b : b[n][1] = i
Known(b, i) == \E n \in DOMAIN b : b[n][1] = i
At(b, i) == IF Known(b, i) THEN b[Place(b, i)][2] ELSE <<>>
Without(b, i) == SelectSeq(b, LAMBDA e : e[1] # i)
MoveToEnd(b, i, messages) == Append(Without(b, i), <<i, messages>>)
Count(b) == FoldSeq(LAMBDA e, n : Len(e[2]) + n, 0, b)

(* BufferMap.put: the key becomes the most recently used one, then         *)
(* messages of the least recently used are evicted: _evict, _pop_to_evict. *)
Put(m) ==
    LET put == MoveToEnd(buffer, m[1], Append(At(buffer, m[1]), m[2]))
        full == SelectSeq(put, LAMBDA e : e[2] # <<>>)
        oldest == Head(full)
    IN IF total + 1 <= Buffer
       THEN [buffer |-> put, total |-> total + 1, gone |-> {}]
       ELSE [buffer |-> IF Len(oldest[2]) = 1 THEN Tail(full)
                        ELSE Append(Tail(full), <<oldest[1], Tail(oldest[2])>>),
             total |-> total, gone |-> {oldest[1]}]

(* AsyncResult._maybe_set_cache: the ready state is kept and on_ready is   *)
(* called, which removes the pending result (_on_fulfilled).               *)
SetCache(i, s) ==
    /\ cache' = [cache EXCEPT ![i] = s]
    /\ pending' = pending \ {i}

(* on_state_change of the consumer, for a list of messages: a ready state  *)
(* is for the pending result, and goes to its bucket, or it is buffered.   *)
Awaited(m) == m[2] \in ReadyStates /\ m[1] \in pending
Unwanted(m) == m[2] \in ReadyStates /\ m[1] \notin pending

StateChange(m) ==
    /\ IF Awaited(m)
       THEN /\ SetCache(m[1], m[2])
            /\ bucket' = IF m[1] \in buckets THEN Append(bucket, m[1]) ELSE bucket
            /\ buckets' = buckets \ {m[1]}
            /\ UNCHANGED <<buffer, total, gone>>
       ELSE /\ IF Unwanted(m)
               THEN /\ buffer' = Put(m).buffer /\ total' = Put(m).total
                    /\ gone' = gone \cup Put(m).gone
               ELSE UNCHANGED <<buffer, total, gone>>
            /\ UNCHANGED <<cache, pending, bucket, buckets>>
    /\ outOfBand' = IF m[2] \in ReadyStates THEN [outOfBand EXCEPT ![m[1]] = "PENDING"]
                                            ELSE outOfBand

-----------------------------------------------------------------------------
\* the worker: store_result publishes each state to the reply queue
StoreResult(i, s) ==
    /\ \/ worker[i] = "PENDING" /\ s \in {"STARTED"} \cup ReadyStates
       \/ worker[i] = "STARTED" /\ s \in ReadyStates
    /\ worker' = [worker EXCEPT ![i] = s]
    /\ reply' = Append(reply, Message(i, s))
    /\ UNCHANGED <<inbox, consuming, cache, pending, buffer, total, outOfBand, grouped, bucket,
                   buckets, client, joined, drops, gone>>

\* the broker pushes what is in the queue to the consumer
Push ==
    /\ consuming /\ reply # <<>>
    /\ inbox' = inbox \o reply
    /\ reply' = <<>>
    /\ UNCHANGED <<worker, consuming, cache, pending, buffer, total, outOfBand, grouped, bucket,
                   buckets, client, joined, drops, gone>>

(* reconnect_on_error, _reconnect: a new connection with the same queues;  *)
(* what had been pushed is lost.                                           *)
Reconnect ==
    /\ consuming /\ drops < MaxDrops
    /\ drops' = drops + 1
    /\ inbox' = <<>>
    /\ gone' = gone \cup {inbox[n][1] : n \in DOMAIN inbox}
    /\ UNCHANGED <<worker, reply, consuming, cache, pending, buffer, total, outOfBand, grouped,
                   bucket, buckets, client, joined>>

-----------------------------------------------------------------------------
(* add_pending_result: a message that was buffered answers at once         *)
(* (BufferMap.take), otherwise the result is pending and the consumer runs.*)
Buffered(i) == At(buffer, i) # <<>>

AddPending(i) ==
    IF Buffered(i)
    THEN /\ SetCache(i, Head(At(buffer, i)))
         /\ buffer' = MoveToEnd(buffer, i, Tail(At(buffer, i)))
         /\ total' = total - 1
         /\ UNCHANGED consuming
    ELSE /\ pending' = pending \cup {i}
         /\ consuming' = TRUE
         /\ UNCHANGED <<cache, buffer, total>>

(* GroupResult(...): the barrier calls then() on every result that is not  *)
(* ready, one by one.                                                      *)
MakeGroup ==
    /\ client[1] = "group" \/ (client = Idle /\ ~ grouped)
    /\ LET i == IF client = Idle THEN 1 ELSE client[2] IN
       /\ IF cache[i] = "PENDING" THEN AddPending(i)
                                  ELSE UNCHANGED <<cache, pending, buffer, total, consuming>>
       /\ client' = IF i + 1 \in Ids THEN <<"group", i + 1>> ELSE Idle
       /\ grouped' = (i + 1 \notin Ids)
    /\ UNCHANGED <<worker, reply, inbox, outOfBand, bucket, buckets, joined, drops, gone>>

\* AsyncResult.get() until on_ready
Get(i) ==
    /\ client = Idle /\ cache[i] = "PENDING"
    /\ AddPending(i)
    /\ client' = <<"get", i>>
    /\ UNCHANGED <<worker, reply, inbox, outOfBand, grouped, bucket, buckets, joined, drops, gone>>

GetReturns ==
    /\ client[1] = "get" /\ cache[client[2]] # "PENDING"
    /\ client' = Idle
    /\ UNCHANGED <<worker, reply, inbox, consuming, cache, pending, buffer, total, outOfBand,
                   grouped, bucket, buckets, joined, drops, gone>>

\* ResultSet.join_native, iter_native: results that are ready are in the bucket already
Join ==
    /\ client = Idle /\ grouped /\ joined = <<>>
    /\ client' = <<"join", 0>>
    /\ bucket' = SelectSeq([i \in Ids |-> i], LAMBDA i : cache[i] # "PENDING")
    /\ buckets' = {i \in Ids : cache[i] = "PENDING"}
    /\ UNCHANGED <<worker, reply, inbox, consuming, cache, pending, buffer, total, outOfBand,
                   grouped, joined, drops, gone>>

\* one result from the bucket; a failure is raised
Collect ==
    /\ client[1] = "join" /\ bucket # <<>>
    /\ joined' = Append(joined, Message(Head(bucket), cache[Head(bucket)]))
    /\ bucket' = Tail(bucket)
    /\ client' = IF cache[Head(bucket)] = "FAILURE" \/ Len(joined) + 1 = Cardinality(Ids)
                 THEN Idle ELSE client
    /\ UNCHANGED <<worker, reply, inbox, consuming, cache, pending, buffer, total, outOfBand,
                   grouped, buckets, drops, gone>>

\* drain_events while the client waits: one message
DrainEvents ==
    /\ client[1] \in {"get", "join"} /\ inbox # <<>>
    /\ StateChange(Head(inbox))
    /\ inbox' = Tail(inbox)
    /\ UNCHANGED <<worker, reply, consuming, grouped, client, joined, drops>>

-----------------------------------------------------------------------------
(* AsyncResult.state: get_task_meta takes every message out of the queue;  *)
(* of each task the last one counts; the states of other tasks are handled *)
(* out of band (on_out_of_band_result), one after the other.               *)
LatestOf(i) ==
    LET mine == SelectSeq(reply, LAMBDA m : m[1] = i) IN
    IF mine = <<>> THEN "PENDING" ELSE mine[Len(mine)][2]

\* the state was left out of band by an earlier look: returned once
StateOutOfBand(i) ==
    /\ client = Idle /\ cache[i] = "PENDING" /\ outOfBand[i] # "PENDING"
    /\ outOfBand' = [outOfBand EXCEPT ![i] = "PENDING"]
    /\ UNCHANGED <<worker, reply, inbox, consuming, cache, pending, buffer, total, grouped,
                   bucket, buckets, client, joined, drops, gone>>

Slurp(i) ==
    /\ client = Idle /\ cache[i] = "PENDING" /\ outOfBand[i] = "PENDING"
    /\ client' = <<"slurp", i>>
    /\ UNCHANGED <<worker, reply, inbox, consuming, cache, pending, buffer, total, outOfBand,
                   grouped, bucket, buckets, joined, drops, gone>>

\* Mutant of SlurpOther: an answer to another task is thrown away.
SlurpOtherLost(j) ==
    /\ client[1] = "slurp" /\ j # client[2] /\ LatestOf(j) # "PENDING"
    /\ reply' = SelectSeq(reply, LAMBDA m : m[1] # j)
    /\ UNCHANGED <<cache, pending, buffer, total, bucket, buckets, gone, outOfBand>>
    /\ UNCHANGED <<worker, inbox, consuming, grouped, client, joined, drops>>

\* the last message of another task, while the queue is being emptied
SlurpOther(j) ==
    /\ client[1] = "slurp" /\ j # client[2] /\ LatestOf(j) # "PENDING"
    /\ IF LatestOf(j) \in ReadyStates
       THEN StateChange(Message(j, LatestOf(j)))
       ELSE /\ outOfBand' = [outOfBand EXCEPT ![j] = LatestOf(j)]
            /\ UNCHANGED <<cache, pending, buffer, total, bucket, buckets, gone>>
    /\ reply' = SelectSeq(reply, LAMBDA m : m[1] # j)
    /\ UNCHANGED <<worker, inbox, consuming, grouped, client, joined, drops>>

(* The last message of the task itself: a ready state is handed on and     *)
(* acknowledged, another is put back; without a message the buffer tells.  *)
SlurpOwn ==
    LET i == client[2] IN
    /\ client[1] = "slurp"
    /\ \A j \in Ids \ {i} : LatestOf(j) = "PENDING"
    /\ \/ /\ LatestOf(i) \in ReadyStates
          /\ IF i \in pending
             THEN /\ SetCache(i, LatestOf(i)) /\ UNCHANGED <<buffer, total, gone>>
             ELSE /\ buffer' = Put(Message(i, LatestOf(i))).buffer
                  /\ total' = Put(Message(i, LatestOf(i))).total
                  /\ gone' = gone \cup Put(Message(i, LatestOf(i))).gone
                  /\ cache' = [cache EXCEPT ![i] = LatestOf(i)] /\ UNCHANGED pending
          /\ reply' = <<>>
       \/ /\ LatestOf(i) = "STARTED"
          /\ reply' = <<Message(i, "STARTED")>>
          /\ UNCHANGED <<cache, pending, buffer, total, gone>>
       \/ /\ LatestOf(i) = "PENDING"
          /\ IF Buffered(i) THEN SetCache(i, At(buffer, i)[Len(At(buffer, i))])
                            ELSE UNCHANGED <<cache, pending>>
          /\ UNCHANGED <<reply, buffer, total, gone>>
    /\ client' = Idle
    /\ UNCHANGED <<worker, inbox, consuming, outOfBand, grouped, bucket, buckets, joined, drops>>

\* AsyncResult.forget(), RPCBackend.forget(): what is buffered is dropped
Forget(i) ==
    /\ client = Idle /\ cache[i] # "PENDING"
    /\ cache' = [cache EXCEPT ![i] = "PENDING"]
    /\ pending' = pending \ {i}
    /\ outOfBand' = [outOfBand EXCEPT ![i] = "PENDING"]
    /\ buffer' = Without(buffer, i)
    /\ total' = total - Len(At(buffer, i))
    /\ gone' = gone \cup {i}
    /\ UNCHANGED <<worker, reply, inbox, consuming, grouped, bucket, buckets, client, joined, drops>>

Client ==
    \/ MakeGroup \/ GetReturns \/ Collect \/ DrainEvents \/ SlurpOwn
    \/ \E j \in Ids : SlurpOther(j)

Next ==
    \/ \E i \in Ids : \E s \in States : StoreResult(i, s)
    \/ Push \/ Reconnect \/ Join \/ Client
    \/ \E i \in Ids : Get(i) \/ Forget(i) \/ Slurp(i) \/ StateOutOfBand(i)

(* Tasks end, the broker pushes, a client that has begun an operation goes *)
(* on with it.                                                             *)
Spec ==
    /\ Init /\ [][Next]_vars
    /\ WF_vars(Push) /\ WF_vars(Client)
    /\ \A i \in Ids : WF_vars(\E s \in ReadyStates : StoreResult(i, s))

-----------------------------------------------------------------------------
(* A ready state that was sent is somewhere, until it has been lost,       *)
(* evicted or forgotten: in a queue, in the buffer or with its result. No  *)
(* reading of the queue for one task loses the answer of another.          *)
Somewhere(i) ==
    \/ cache[i] # "PENDING" \/ Buffered(i) \/ i \in gone
    \/ \E n \in DOMAIN reply : reply[n] = Message(i, worker[i])
    \/ \E n \in DOMAIN inbox : inbox[n] = Message(i, worker[i])

AnswersKept ==
    /\ \A i \in Ids : worker[i] \in ReadyStates => Somewhere(i)
    /\ total = Count(buffer) /\ total <= Buffer
    /\ \A i \in Ids : cache[i] # "PENDING" => cache[i] = worker[i]

(* A join gives every result once, and the one its task sent.              *)
JoinIsRight ==
    /\ \A m, n \in DOMAIN joined : joined[m][1] = joined[n][1] => m = n
    /\ \A m \in DOMAIN joined : joined[m][1] \in gone \/ joined[m][2] = worker[joined[m][1]]

ClientRight == TypeOK /\ AnswersKept /\ JoinIsRight

(* get() or join() has returned, or a message was lost on the way.         *)
WaitOver == client = Idle \/ gone # {}
=============================================================================
