------------------------------ MODULE RateLimit ------------------------------
(***************************************************************************)
(* Rate limited tasks of one consumer: the token buckets of                *)
(* worker/consumer/consumer.py, the strategy that fills them, the timers   *)
(* that empty them, the rate_limit command that replaces them, and the     *)
(* lost connection that clears them.                                       *)
(*                                                                         *)
(* A rate_limit command puts a new bucket into task_buckets.  The old one  *)
(* lives on in the timer that was to empty it, and in the eta entries that *)
(* were made for it.                                                       *)
(***************************************************************************)
EXTENDS Naturals, Sequences, SequencesExt, FiniteSets

CONSTANTS Messages,    \* the messages of one task type
          EtaMessages, \* those with an eta
          MaxLosses,   \* bound: connections lost
          MaxChanges   \* bound: rate_limit commands

RateLimitConstants == EtaMessages \subseteq Messages /\ MaxLosses \in Nat /\ MaxChanges \in Nat

VARIABLES hub,       \* the worker runs the event loop, and its timers are the hub's
          conn,      \* the number of the connection
          queued,    \* messages at the broker
          limited,   \* whether the task type has a rate limit
          current,   \* the bucket in task_buckets
          contents,  \* bucket -> requests waiting in it, in order
          tokens,    \* buckets that can be consumed from
          timers,    \* buckets with a timer that will empty them
          etas,      \* eta entries: the request and the bucket it was made for
          pool,      \* requests given to the pool, in order
          came       \* history: bucket -> the requests put into it, in order

vars == <<hub, conn, queued, limited, current, contents, tokens, timers, etas, pool, came>>

Buckets == 0..MaxChanges
NoBucket == MaxChanges + 1
Requests == [msg : Messages, conn : 0..MaxLosses]
Waiting(r) == \E b \in Buckets : r \in Range(contents[b])
Held(r) == Waiting(r) \/ \E e \in etas : e.req = r

TypeOK ==
    /\ hub \in BOOLEAN /\ limited \in BOOLEAN
    /\ conn \in 0..MaxLosses /\ current \in Buckets
    /\ queued \subseteq Messages /\ tokens \subseteq Buckets /\ timers \subseteq Buckets
    /\ \A b \in Buckets : Range(contents[b]) \subseteq Requests
    /\ etas \subseteq [req : Requests, bucket : Buckets \cup {NoBucket}] /\ Range(pool) \subseteq Requests
    /\ \A b \in Buckets : Range(came[b]) \subseteq Requests

\* Mutant of Schedule: the request that finds no token goes to the end.
ScheduleBehind(b, waiting) ==
    LET moved == IF b \in tokens THEN (IF waiting = <<>> THEN 0 ELSE 1) ELSE 0
        left == SubSeq(waiting, moved + 1, Len(waiting))
    IN  /\ pool' = pool \o SubSeq(waiting, 1, moved)
        /\ contents' = [contents EXCEPT ![b] =
                            IF left = <<>> THEN left ELSE Append(Tail(left), Head(left))]
        /\ tokens' = IF moved = 1 THEN tokens \ {b} ELSE tokens
        /\ timers' = IF left = <<>> THEN timers \ {b} ELSE timers \cup {b}

(***************************************************************************)
(* _schedule_bucket_request, with what the bucket holds: requests go to    *)
(* the pool as long as there are tokens (a bucket holds one); the first    *)
(* that finds none goes back to the front and a timer is set for it.       *)
(***************************************************************************)
Schedule(b, waiting) ==
    LET moved == IF b \in tokens THEN (IF waiting = <<>> THEN 0 ELSE 1) ELSE 0
        left == SubSeq(waiting, moved + 1, Len(waiting))
    IN  /\ pool' = pool \o SubSeq(waiting, 1, moved)
        /\ contents' = [contents EXCEPT ![b] = left]
        /\ tokens' = IF moved = 1 THEN tokens \ {b} ELSE tokens
        /\ timers' = IF left = <<>> THEN timers \ {b} ELSE timers \cup {b}

\* bucket.add, _limit_task.
LimitTask(b, r) ==
    /\ came' = [came EXCEPT ![b] = Append(@, r)]
    /\ Schedule(b, Append(contents[b], r))

\* The strategy: an eta first, then the bucket of the task type, if it has one.
\* The bucket is looked up when the message arrives, and an eta entry keeps it.
Deliver(m) ==
    LET r == [msg |-> m, conn |-> conn]
    IN  /\ m \in queued
        /\ queued' = queued \ {m}
        /\ CASE m \in EtaMessages ->
                 /\ etas' = etas \cup {[req |-> r, bucket |-> IF limited THEN current ELSE NoBucket]}
                 /\ UNCHANGED <<contents, tokens, timers, pool, came>>
             [] limited /\ m \notin EtaMessages ->
                 /\ LimitTask(current, r)
                 /\ UNCHANGED etas
             [] OTHER ->
                 /\ pool' = Append(pool, r)
                 /\ UNCHANGED <<contents, tokens, timers, etas, came>>
        /\ UNCHANGED <<hub, conn, limited, current>>

\* _limit_post_eta, or apply_eta_task without a limit, when the eta has come.
PostEta(e) ==
    /\ e \in etas
    /\ etas' = etas \ {e}
    /\ IF e.bucket = NoBucket
         THEN /\ pool' = Append(pool, e.req)
              /\ UNCHANGED <<contents, tokens, timers, came>>
         ELSE LimitTask(e.bucket, e.req)
    /\ UNCHANGED <<hub, conn, queued, limited, current>>

\* The timer of a bucket; TokenBucket.expected_time is when its token is there.
BucketTimer(b) ==
    /\ b \in timers /\ b \in tokens
    /\ Schedule(b, contents[b])
    /\ UNCHANGED <<hub, conn, queued, limited, current, etas, came>>

Refill(b) ==
    /\ b \notin tokens
    /\ tokens' = tokens \cup {b}
    /\ UNCHANGED <<hub, conn, queued, limited, current, contents, timers, etas, pool, came>>

\* The buckets are made anew; the old ones are left to whoever still has them.
ResetRateLimits(limit) ==
    /\ limited' = limit
    /\ current' = current + 1

\* The rate_limit command: the task's limit, and reset_rate_limits.
SetRateLimit(limit) ==
    /\ current < MaxChanges
    /\ ResetRateLimits(limit)
    /\ UNCHANGED <<hub, conn, queued, contents, tokens, timers, etas, pool, came>>

\* on_close clears the buckets of task_buckets and cancels the eta entries; an event
\* loop that ends with an error clears its timers as well.  What was not given to
\* the pool was not acknowledged, and comes again.
LoseConnection ==
    /\ conn < MaxLosses
    /\ conn' = conn + 1
    /\ queued' = queued \cup {m \in Messages : Held([msg |-> m, conn |-> conn])}
    /\ contents' = [contents EXCEPT ![current] = <<>>]
    /\ etas' = {}
    /\ timers' = IF hub THEN {} ELSE timers
    /\ UNCHANGED <<hub, limited, current, tokens, pool, came>>

Init ==
    /\ hub \in BOOLEAN
    /\ conn = 0 /\ queued = Messages /\ limited = TRUE /\ current = 0
    /\ contents = [b \in Buckets |-> <<>>] /\ tokens = Buckets
    /\ timers = {} /\ etas = {} /\ pool = <<>>
    /\ came = [b \in Buckets |-> <<>>]

Next ==
    \/ \E m \in Messages : Deliver(m)
    \/ \E e \in etas : PostEta(e)
    \/ \E b \in Buckets : BucketTimer(b) \/ Refill(b)
    \/ \E limit \in BOOLEAN : SetRateLimit(limit)
    \/ LoseConnection

\* Time passes, timers fire, and the broker delivers.
Fairness == /\ \A m \in Messages : WF_vars(Deliver(m))
            /\ \A b \in Buckets : WF_vars(BucketTimer(b)) /\ WF_vars(Refill(b))
            /\ WF_vars(\E e \in etas : PostEta(e))
Spec == Init /\ [][Next]_vars /\ Fairness

(***************************************************************************)
(* Properties                                                              *)
(***************************************************************************)
\* consumer.py, on_close ("Clear internal queues to get rid of old messages"): a
\* request of an earlier connection is not given to the pool.
OldGone == \A i \in Len(pool) + 1 .. Len(pool') : pool'[i].conn = conn

\* It is so under the event loop, and everywhere for a bucket that was not replaced.
OldGoneFromCurrent ==
    \A i \in Len(pool) + 1 .. Len(pool') : hub \/ current = 0 => pool'[i].conn = conn

\* The requests of a bucket go to the pool in the order they came, however the
\* message, the timer and the eta that empty it take turns, and none goes twice.
InOrder ==
    /\ \A i, j \in DOMAIN pool : pool[i] = pool[j] => i = j
    /\ \A b \in Buckets : \A i, j \in DOMAIN came[b] : \A k, l \in DOMAIN pool :
        i < j /\ pool[k] = came[b][i] /\ pool[l] = came[b][j] => k < l

\* A message that waits in a bucket, be it one that was replaced, and one that has
\* got through.
Waits(m) == \E b \in Buckets : [msg |-> m, conn |-> conn] \in Range(contents[b])
Drained(m) == \E i \in DOMAIN pool : pool[i].msg = m

LimitsRight == TypeOK /\ InOrder
=============================================================================
