------------------------------ MODULE AsynPool ------------------------------
(***************************************************************************)
(* The prefork pool, celery.concurrency.asynpool: the parent writes jobs   *)
(* to the pipes of its child processes and reads their messages from an    *)
(* event loop, replaces children that exit, and forgets what it has not    *)
(* heard of when the connection to the broker is lost (flush).             *)
(*                                                                         *)
(* A child and its queues are named by the file descriptor of the inqueue. *)
(* A replacement of a child, and of queues that had to be destroyed, gets  *)
(* the same descriptors: the case the code guards against.                 *)
(***************************************************************************)
EXTENDS Integers, FiniteSets, Sequences

CONSTANTS
    Fds,         \* the inqueues, one for each process of the pool
    MaxJobs,     \* bound: jobs sent
    Fair,        \* the scheduling strategy is "fair"
    None,
    MaxExits,    \* bound: exits of children
    MaxFlushes,  \* bound: lost connections
    MaxRevokes   \* bound: revoked jobs

AsynPoolConstants ==
    /\ IsFiniteSet(Fds) /\ Fds # {} /\ None \notin Fds
    /\ MaxJobs \in Nat /\ None \notin 1..MaxJobs /\ Fair \in BOOLEAN
    /\ MaxExits \in Nat /\ MaxFlushes \in Nat /\ MaxRevokes \in Nat

Jobs == 1..MaxJobs
Chunk == [job : Jobs, whole : BOOLEAN]
Message == [kind : {"up", "ack", "ready"}, job : Jobs \union {None}]

VARIABLES
    pc,        \* "loop", or "flush" while flush() waits for its writers
    cache,     \* _cache: the jobs that have not ended
    accepted,  \* job._accepted, by which child
    writeTo,   \* job._write_to and job._scheduled_for
    revoked,   \* jobs revoked
    outbound,  \* outbound_buffer
    inq,       \* _fileno_to_inq and _all_inqueues
    busy,      \* _busy_workers
    writer,    \* _active_writers and _active_writes: the job being written to each fd
    child,     \* the child of each fd: "starting", "up" or "dead"
    pipe,      \* what is in each inqueue
    damaged,   \* inqueues whose message boundaries are lost
    exec,      \* the job each child executes
    outq,      \* what is in each outqueue
    sent,      \* jobs sent so far
    starts,    \* how often each job was started
    happened   \* how many exits, flushes and revokes there were

parent == <<cache, accepted, writeTo, revoked, outbound, inq, busy, writer>>
children == <<child, pipe, damaged, exec, outq, starts>>
vars == <<pc, parent, children, sent, happened>>

TypeOK ==
    /\ pc \in {"loop", "flush"}
    /\ cache \subseteq 1..sent /\ revoked \subseteq Jobs
    /\ accepted \in [Jobs -> Fds \union {None}]
    /\ writeTo \in [Jobs -> Fds \union {None}]
    /\ outbound \in Seq(Jobs)
    /\ inq \subseteq Fds /\ busy \subseteq Fds /\ damaged \subseteq Fds
    /\ writer \in [Fds -> Jobs \union {None}]
    /\ child \in [Fds -> {"starting", "up", "dead"}]
    /\ pipe \in [Fds -> Seq(Chunk)]
    /\ exec \in [Fds -> Jobs \union {None}]
    /\ outq \in [Fds -> Seq(Message)]
    /\ sent \in 0..MaxJobs
    /\ starts \in [Jobs -> Nat]
    /\ happened \in [exits : 0..MaxExits, flushes : 0..MaxFlushes, revokes : 0..MaxRevokes]

Init ==
    /\ pc = "loop"
    /\ cache = {} /\ revoked = {} /\ outbound = <<>>
    /\ accepted = [j \in Jobs |-> None] /\ writeTo = [j \in Jobs |-> None]
    /\ inq = {} /\ busy = {} /\ writer = [f \in Fds |-> None]
    /\ child = [f \in Fds |-> "starting"]
    /\ pipe = [f \in Fds |-> <<>>] /\ damaged = {}
    /\ exec = [f \in Fds |-> None] /\ outq = [f \in Fds |-> <<>>]
    /\ sent = 0 /\ starts = [j \in Jobs |-> 0]
    /\ happened = [exits |-> 0, flushes |-> 0, revokes |-> 0]

\* What is in a buffer, a pipe or a queue.
Elements(s) == {s[i] : i \in DOMAIN s}
Msg(k, j) == [kind |-> k, job |-> j]
Dead == {f \in Fds : child[f] = "dead"}

-----------------------------------------------------------------------------
(* The children. *)

\* Worker.on_loop_start
ChildUp(f) ==
    /\ child[f] = "starting"
    /\ child' = [child EXCEPT ![f] = "up"]
    /\ outq' = [outq EXCEPT ![f] = Append(@, Msg("up", None))]
    /\ UNCHANGED <<pc, parent, pipe, damaged, exec, starts, sent, happened>>

\* The child reads a job and says so before it starts it.  What it reads from a queue
\* that is damaged is no job: it waits for the rest of it, or exits (ChildExit).
ChildRead(f) ==
    /\ child[f] = "up" /\ exec[f] = None /\ f \notin damaged
    /\ pipe[f] # <<>> /\ Head(pipe[f]).whole
    /\ LET j == Head(pipe[f]).job IN
          /\ exec' = [exec EXCEPT ![f] = j]
          /\ outq' = [outq EXCEPT ![f] = Append(@, Msg("ack", j))]
          /\ starts' = [starts EXCEPT ![j] = @ + 1]
    /\ pipe' = [pipe EXCEPT ![f] = Tail(@)]
    /\ UNCHANGED <<pc, parent, child, damaged, sent, happened>>

ChildDone(f) ==
    /\ child[f] = "up" /\ exec[f] # None
    /\ outq' = [outq EXCEPT ![f] = Append(@, Msg("ready", exec[f]))]
    /\ exec' = [exec EXCEPT ![f] = None]
    /\ UNCHANGED <<pc, parent, child, pipe, damaged, starts, sent, happened>>

\* The child exits or is killed: maybe in the middle of a message it reads, maybe with
\* a job that it has read and not acknowledged.  (What it had written of a message of
\* its own is read and dropped by process_flush_queues.)
ChildExit(f) ==
    /\ child[f] # "dead" /\ happened.exits < MaxExits
    /\ happened' = [happened EXCEPT !.exits = @ + 1]
    /\ child' = [child EXCEPT ![f] = "dead"]
    /\ exec' = [exec EXCEPT ![f] = None]
    /\ \/ UNCHANGED <<pipe, damaged>>
       \/ /\ child[f] = "up" /\ exec[f] = None /\ pipe[f] # <<>>
          /\ damaged' = damaged \union {f} /\ UNCHANGED pipe
       \/ /\ child[f] = "up" /\ exec[f] = None /\ pipe[f] # <<>> /\ Head(pipe[f]).whole
          /\ pipe' = [pipe EXCEPT ![f] = Tail(@)] /\ UNCHANGED damaged
    /\ UNCHANGED <<pc, parent, outq, starts, sent>>

-----------------------------------------------------------------------------
(* The event loop of the parent. *)

\* send_job with the id of the job after this one.
SendJobNext ==
    /\ pc = "loop" /\ sent < MaxJobs
    /\ sent' = sent + 1
    /\ cache' = cache \union {sent' + 1}
    /\ outbound' = Append(outbound, sent')
    /\ UNCHANGED <<pc, accepted, writeTo, revoked, inq, busy, writer, children, happened>>

\* send_job
SendJob ==
    /\ pc = "loop" /\ sent < MaxJobs
    /\ sent' = sent + 1
    /\ cache' = cache \union {sent'}
    /\ outbound' = Append(outbound, sent')
    /\ UNCHANGED <<pc, accepted, writeTo, revoked, inq, busy, writer, children, happened>>

\* worker_state.revoked
Revoke(j) ==
    /\ pc = "loop" /\ j \in cache \ revoked /\ happened.revokes < MaxRevokes
    /\ happened' = [happened EXCEPT !.revokes = @ + 1]
    /\ revoked' = revoked \union {j}
    /\ UNCHANGED <<pc, cache, accepted, writeTo, outbound, inq, busy, writer, children, sent>>

\* The strategy that only looks at the writes under way.
MayWriteUnfair(f) == writer[f] = None /\ f \in inq

\* The condition inverted.
MayWriteBusy(f) == writer[f] = None /\ (Fair => f \in busy) /\ f \in inq

\* schedule_writes may give the inqueue f a job.
MayWrite(f) == writer[f] = None /\ (Fair => f \notin busy) /\ f \in inq

\* send_job_offset: some or all of the job goes into the pipe, or nothing if there is
\* a job in it already that the child has not read.
Write(f, j) ==
    \/ /\ pipe' = [pipe EXCEPT ![f] = Append(@, [job |-> j, whole |-> TRUE])]
       /\ writer' = [writer EXCEPT ![f] = None]
    \/ /\ pipe' = [pipe EXCEPT ![f] = Append(@, [job |-> j, whole |-> FALSE])]
       /\ writer' = [writer EXCEPT ![f] = j]
    \/ /\ pipe[f] # <<>> /\ UNCHANGED pipe
       /\ writer' = [writer EXCEPT ![f] = j]

\* schedule_writes: the next job for an inqueue that is writable.
ScheduleWrites(f) ==
    /\ pc = "loop" /\ MayWrite(f) /\ outbound # <<>>
    /\ outbound' = Tail(outbound)
    /\ LET j == Head(outbound) IN
          IF accepted[j] # None THEN UNCHANGED <<writeTo, busy, writer, pipe>>
          ELSE /\ writeTo' = [writeTo EXCEPT ![j] = f]
               /\ busy' = busy \union {f}
               /\ Write(f, j)
    /\ UNCHANGED <<pc, cache, accepted, revoked, inq, child, damaged, exec, outq, starts,
                   sent, happened>>

\* The rest of _write_job, from the loop or from flush().
WriteMore(f) ==
    /\ writer[f] # None
    /\ IF \E i \in DOMAIN pipe[f] : ~ pipe[f][i].whole
       THEN /\ pipe' = [pipe EXCEPT ![f][Len(pipe[f])] = [job |-> writer[f], whole |-> TRUE]]
            /\ writer' = [writer EXCEPT ![f] = None]
       ELSE Write(f, writer[f]) /\ pipe' # pipe
    /\ UNCHANGED <<pc, cache, accepted, writeTo, revoked, outbound, inq, busy,
                   child, damaged, exec, outq, starts, sent, happened>>

\* on_ready forgetting to call on_job_ready.
HandleMessageKeepingBusy(f, m) ==
    \/ /\ m.kind = "up" /\ inq' = inq \union {f}
       /\ UNCHANGED <<cache, accepted, busy>>
    \/ /\ m.kind = "ack"
       /\ accepted' = IF m.job \in cache THEN [accepted EXCEPT ![m.job] = f] ELSE accepted
       /\ UNCHANGED <<cache, inq, busy>>
    \/ /\ m.kind = "ready" /\ cache' = cache \ {m.job}
       /\ UNCHANGED <<accepted, inq, busy>>

\* on_state_change: on_process_alive, _ack, and on_job_ready with the end of the job.
HandleMessage(f, m) ==
    \/ /\ m.kind = "up" /\ inq' = inq \union {f}
       /\ UNCHANGED <<cache, accepted, busy>>
    \/ /\ m.kind = "ack"
       /\ accepted' = IF m.job \in cache THEN [accepted EXCEPT ![m.job] = f] ELSE accepted
       /\ UNCHANGED <<cache, inq, busy>>
    \/ /\ m.kind = "ready" /\ cache' = cache \ {m.job} /\ busy' = busy \ {f}
       /\ UNCHANGED <<accepted, inq>>

\* on_result_readable
HandleResult(f) ==
    /\ pc = "loop" /\ outq[f] # <<>>
    /\ HandleMessage(f, Head(outq[f]))
    /\ outq' = [outq EXCEPT ![f] = Tail(@)]
    /\ UNCHANGED <<pc, writeTo, revoked, outbound, writer, child, pipe, damaged, exec, starts,
                   sent, happened>>

-----------------------------------------------------------------------------
(* maintain_pool, with the children in Dead; C is the cache. *)

Said(k, j) == \E f \in Dead : Msg(k, j) \in Elements(outq[f])

\* The acknowledgements of dead children are not read any more.
FlushedAcceptedUnheard(C) == accepted

\* process_flush_queues: what the dead children have said is heard first.
FlushedCache(C) == {j \in C : ~ Said("ready", j)}
FlushedAccepted(C) ==
    [j \in Jobs |-> IF j \in C /\ Said("ack", j)
                    THEN CHOOSE f \in Dead : Msg("ack", j) \in Elements(outq[f]) ELSE accepted[j]]

\* Jobs of dead children: accepted, so lost; or not, so put back.
LostJobs(C) == {j \in FlushedCache(C) : FlushedAccepted(C)[j] \in Dead}
UnreadJobs(C) == {j \in FlushedCache(C) : FlushedAccepted(C)[j] = None /\ writeTo[j] \in Dead}

\* Only the queues of a child that was executing a job.
DestroyedIfLost(C) == {writeTo[j] : j \in LostJobs(C)}

\* on_partial_read: queues that cannot be used again.
Destroyed(C) == {writeTo[j] : j \in LostJobs(C) \union UnreadJobs(C)}

\* on_partial_read that leaves the job alone.
PutBackNothing(C, buffer) == outbound' = buffer

\* _put_back: to the front of the buffer, unless the job was revoked; that one is
\* acknowledged, for schedule_writes to skip it, and ends (see Replace).
PutBack(C, buffer) ==
    LET jobs == UnreadJobs(C) \ (revoked \union Elements(buffer))
    IN  \E front \in [1..Cardinality(jobs) -> jobs] :
            /\ Elements(front) = jobs
            /\ \A i, k \in DOMAIN front : i < k => front[i] > front[k]
            /\ outbound' = front \o buffer

\* on_process_down that leaves the inqueue in the index.
ReplaceKeepingInq(C, buffer) ==
    /\ cache' = FlushedCache(C) \ (LostJobs(C) \union (UnreadJobs(C) \intersect revoked))
    /\ accepted' = [j \in Jobs |-> IF j \in UnreadJobs(C) \intersect revoked
                                   THEN writeTo[j] ELSE FlushedAccepted(C)[j]]
    /\ PutBack(C, buffer)
    /\ inq' = inq /\ busy' = busy \ Dead
    /\ writer' = [f \in Fds |-> IF f \in Destroyed(C) THEN None ELSE writer[f]]
    /\ child' = [f \in Fds |-> IF f \in Dead THEN "starting" ELSE child[f]]
    /\ pipe' = [f \in Fds |-> IF f \in Destroyed(C) THEN <<>> ELSE pipe[f]]
    /\ damaged' = damaged \ Destroyed(C)
    /\ outq' = [f \in Fds |-> IF f \in Dead THEN <<>> ELSE outq[f]]
    /\ UNCHANGED <<writeTo, revoked, exec, starts>>

\* _join_exited_workers and _repopulate_pool.
Replace(C, buffer) ==
    /\ cache' = FlushedCache(C) \ (LostJobs(C) \union (UnreadJobs(C) \intersect revoked))
    /\ accepted' = [j \in Jobs |-> IF j \in UnreadJobs(C) \intersect revoked
                                   THEN writeTo[j] ELSE FlushedAccepted(C)[j]]
    /\ PutBack(C, buffer)
    /\ inq' = inq \ Dead /\ busy' = busy \ Dead
    /\ writer' = [f \in Fds |-> IF f \in Destroyed(C) THEN None ELSE writer[f]]
    /\ child' = [f \in Fds |-> IF f \in Dead THEN "starting" ELSE child[f]]
    /\ pipe' = [f \in Fds |-> IF f \in Destroyed(C) THEN <<>> ELSE pipe[f]]
    /\ damaged' = damaged \ Destroyed(C)
    /\ outq' = [f \in Fds |-> IF f \in Dead THEN <<>> ELSE outq[f]]
    /\ UNCHANGED <<writeTo, revoked, exec, starts>>

\* The sentinel of a child, or the timer; also from flush() while it waits.
MaintainPool ==
    /\ Dead # {}
    /\ Replace(cache, outbound)
    /\ UNCHANGED <<pc, sent, happened>>

-----------------------------------------------------------------------------
(* flush() *)

\* Jobs that are not accepted are forgotten, for the broker will deliver them again;
\* then the pool is maintained.
FlushBegin ==
    /\ pc = "loop" /\ happened.flushes < MaxFlushes
    /\ happened' = [happened EXCEPT !.flushes = @ + 1]
    /\ pc' = "flush"
    /\ Replace({j \in cache : accepted[j] # None}, <<>>)
    /\ UNCHANGED sent

\* The children that execute an accepted job.
StillBusy == {accepted[j] : j \in {i \in cache : accepted[i] # None}} \ Dead

FlushEnd ==
    /\ pc = "flush" /\ \A f \in Fds : writer[f] = None
    /\ pc' = "loop"
    /\ busy' = busy \intersect StillBusy
    /\ outbound' = <<>>
    /\ UNCHANGED <<cache, accepted, writeTo, revoked, inq, writer, children, sent, happened>>

-----------------------------------------------------------------------------
Loop(f) == ScheduleWrites(f) \/ WriteMore(f) \/ HandleResult(f)
Child(f) == ChildUp(f) \/ ChildRead(f) \/ ChildDone(f)

Next ==
    \/ \E f \in Fds : Loop(f) \/ Child(f) \/ ChildExit(f)
    \/ SendJob \/ (\E j \in Jobs : Revoke(j))
    \/ MaintainPool \/ FlushBegin \/ FlushEnd

Fairness ==
    /\ \A f \in Fds : WF_vars(ScheduleWrites(f)) /\ WF_vars(WriteMore(f))
                        /\ WF_vars(HandleResult(f)) /\ WF_vars(Child(f))
    /\ WF_vars(MaintainPool) /\ WF_vars(FlushEnd)

Spec == Init /\ [][Next]_vars
FairSpec == Spec /\ Fairness

-----------------------------------------------------------------------------
\* A job the parent knows of is somewhere: waiting, being written, in a pipe, with a
\* child, in a message not read yet, or with a child whose death is still to be
\* noticed; no write, exit or flush loses it.
JobAccounted ==
    \A j \in cache :
        \/ j \in Elements(outbound)
        \/ \E f \in Fds :
              \/ writer[f] = j \/ exec[f] = j
              \/ \E c \in Elements(pipe[f]) : c.job = j
              \/ Msg("ready", j) \in Elements(outq[f])
              \/ writeTo[j] = f /\ child[f] = "dead"

\* No job is started twice, however many children die and connections are lost.
StartedOnce == \A j \in Jobs : starts[j] <= 1

\* Fair scheduling, without a lost connection: a child never has a second job to wait
\* for behind another one.
OneJobPerChild ==
    Fair /\ happened.flushes = 0 =>
        \A f \in Fds : Len(pipe[f]) + (IF exec[f] # None THEN 1 ELSE 0) <= 1

\* asynpool.py: "the fair scheduler keeps avoiding mid-task workers across a broker
\* reconnect": no job is written to a child while it executes one.
MidTaskAvoided ==
    [][Fair => \A f \in Fds : exec[f] # None => Len(pipe'[f]) <= Len(pipe[f])]_vars

\* A queue that may hold part of a message is never used by another child (unless the
\* connection was lost: flush() forgets which jobs were being read).
BoundariesKept == happened.flushes = 0 => \A f \in damaged : child[f] = "dead"

\* A worker that counts as busy has, or had until it died, a job to account for it:
\* none is left aside for ever, also after a flush.
NoPhantomBusy ==
    \A f \in busy :
        \/ child[f] = "dead" \/ writer[f] # None \/ pipe[f] # <<>> \/ exec[f] # None
        \/ \E m \in Elements(outq[f]) : m.kind = "ready"

\* The assertion of on_process_alive: a child that says it is up is not known yet.
UpIsNews == \A f \in Fds : Msg("up", None) \in Elements(outq[f]) => f \notin inq

\* Every job that was sent has ended, was lost with its child or forgotten in a flush,
\* unless a child waits at a queue whose messages it cannot read.
JobsEnded == cache = {} \/ \E f \in damaged : child[f] = "up"

\* Without the exception.
EveryJobEnds == \A j \in Jobs : j \in cache ~> j \notin cache
=============================================================================
