----------------------------- MODULE Connections -----------------------------
(* The connection a result backend makes when it is first needed, when     *)
(* threads share the backend (result_backend_thread_safe): the cluster and *)
(* the statements of CassandraBackend._get_connection, and the engine and  *)
(* the session maker of the SessionManager of the database backend.        *)
EXTENDS Naturals, FiniteSets

CONSTANTS Threads, MaxTimeouts \* bound on the errors of the cluster and the database

ConnectionsConstants == MaxTimeouts \in Nat

None == 0

VARIABLES
    kind,        \* "cassandra" or "database"
    lock,        \* the threads that hold self._lock: at most one
    session,     \* cassandra: self._session; database: self._sessions[dburi]
    cached,      \* cassandra: self._cluster; database: self._engines[dburi]
    prepared,    \* cassandra: the statements are set; database: self.prepared
    open,        \* the clusters, or the engines, that were made and not shut down
    left,        \* history: the clusters that an error left open
    collided,    \* history: threads came in each other's way in the session manager
    made,        \* clusters and engines made so far
    thread,      \* each thread: where it is, the engine it has got
    used,        \* what the threads found when they used their connection
    timeouts

vars == <<kind, lock, session, cached, prepared, open, left, collided, made, thread, used, timeouts>>

Idle == [at |-> "idle", engine |-> None]

Init ==
    /\ kind \in {"cassandra", "database"}
    /\ lock = {} /\ session = None /\ cached = None /\ prepared = FALSE
    /\ open = {} /\ left = {} /\ collided = FALSE /\ made = 0
    /\ thread = [t \in Threads |-> Idle] /\ used = {} /\ timeouts = 0

TypeOK ==
    /\ lock \subseteq Threads /\ session \in 0..made /\ cached \in 0..made
    /\ open \cup left \subseteq 1..made
    /\ \A t \in Threads : thread[t].engine \in 0..made

At(t, at) == thread[t].at = at
Goto(t, at) == thread' = [thread EXCEPT ![t].at = at]
Done == [Idle EXCEPT !.at = "done"]
Trouble == timeouts < MaxTimeouts /\ timeouts' = timeouts + 1
OthersBusy(t) == \E u \in Threads \ {t} : thread[u].at \notin {"idle", "done"}

-----------------------------------------------------------------------------
\* _get_connection: nothing to do when there is a session
Check(t) ==
    /\ kind = "cassandra" /\ At(t, "idle")
    /\ Goto(t, IF session # None THEN "use" ELSE "wait")
    /\ UNCHANGED <<kind, lock, session, cached, prepared, open, left, collided, made, used, timeouts>>

\* Mutant of Lock: no second look.
LockBlindly(t) ==
    /\ At(t, "wait") /\ lock = {}
    /\ Goto(t, "cluster") /\ lock' = {t}
    /\ UNCHANGED <<kind, session, cached, prepared, open, left, collided, made, used, timeouts>>

\* the lock, and another look
Lock(t) ==
    /\ At(t, "wait") /\ lock = {}
    /\ IF session # None THEN Goto(t, "use") /\ UNCHANGED lock
                         ELSE Goto(t, "cluster") /\ lock' = {t}
    /\ UNCHANGED <<kind, session, cached, prepared, open, left, collided, made, used, timeouts>>

\* Cluster(...), whatever self._cluster was
MakeCluster(t) ==
    /\ At(t, "cluster")
    /\ made' = made + 1 /\ cached' = made + 1 /\ open' = open \cup {made + 1}
    /\ Goto(t, "connect")
    /\ UNCHANGED <<kind, lock, session, prepared, left, collided, used, timeouts>>

\* connect: the session is there from now on, and other threads may use it
Connect(t) ==
    /\ At(t, "connect")
    /\ session' = cached
    /\ Goto(t, "prepare")
    /\ UNCHANGED <<kind, lock, cached, prepared, open, left, collided, made, used, timeouts>>

Prepare(t) ==
    /\ At(t, "prepare")
    /\ prepared' = TRUE
    /\ Goto(t, "table")
    /\ UNCHANGED <<kind, lock, session, cached, open, left, collided, made, used, timeouts>>

\* CREATE TABLE of a writer, or AlreadyExists
CreateTable(t) ==
    /\ At(t, "table")
    /\ lock' = {}
    /\ Goto(t, "use")
    /\ UNCHANGED <<kind, session, cached, prepared, open, left, collided, made, used, timeouts>>

MayFail(t) == thread[t].at \in {"cluster", "connect", "table"}

(* OperationTimedOut: the cluster, if there is one, is shut down, there is *)
(* no session, the lock is released.                                       *)
TimedOut(t) ==
    /\ MayFail(t) /\ Trouble
    /\ open' = open \ {cached}
    /\ session' = None /\ cached' = None
    /\ lock' = {}
    /\ Goto(t, "idle")
    /\ UNCHANGED <<kind, prepared, left, collided, made, used>>

(* Any other exception (NoHostAvailable of connect, say) only releases the *)
(* lock.  A cluster that could not be connected stays open, and the next   *)
(* attempt replaces it.                                                    *)
OtherError(t) ==
    /\ MayFail(t) /\ Trouble
    /\ left' = IF At(t, "connect") THEN left \cup {cached} ELSE left
    /\ lock' = {}
    /\ Goto(t, "idle")
    /\ UNCHANGED <<kind, session, cached, prepared, open, collided, made, used>>

-----------------------------------------------------------------------------
\* SessionManager.get_engine in a forked child: the engine of the url, or a new one
GetEngine(t) ==
    /\ kind = "database" /\ At(t, "idle")
    /\ IF cached # None
         THEN /\ thread' = [thread EXCEPT ![t] = [at |-> "maker", engine |-> cached]]
              /\ UNCHANGED <<open, made>>
         ELSE /\ thread' = [thread EXCEPT ![t] = [at |-> "engine", engine |-> made + 1]]
              /\ made' = made + 1 /\ open' = open \cup {made + 1}
    /\ UNCHANGED <<kind, lock, session, cached, prepared, left, collided, used, timeouts>>

\* self._engines[dburi] = engine replaces the engine of another thread, which
\* nobody disposes
SetEngine(t) ==
    /\ At(t, "engine")
    /\ cached' = thread[t].engine
    /\ collided' = (collided \/ cached # None)
    /\ Goto(t, "maker")
    /\ UNCHANGED <<kind, lock, session, prepared, open, left, made, used, timeouts>>

\* create_session: a session maker for the engine, unless there is one
MakeSession(t) ==
    /\ At(t, "maker")
    /\ session' = IF session = None THEN thread[t].engine ELSE session
    /\ Goto(t, "read")
    /\ UNCHANGED <<kind, lock, cached, prepared, open, left, collided, made, used, timeouts>>

\* self._sessions[dburi], a KeyError if it was invalidated since
ReadSession(t) ==
    /\ At(t, "read")
    /\ IF session = None THEN /\ thread' = [thread EXCEPT ![t] = Done]
                              /\ used' = used \cup {"key_error"}
                         ELSE /\ thread' = [thread EXCEPT ![t] = [at |-> "models", engine |-> session]]
                              /\ UNCHANGED used
    /\ UNCHANGED <<kind, lock, session, cached, prepared, open, left, collided, made, timeouts>>

\* prepare_models: the tables of the engine, once
PrepareModels(t) ==
    /\ At(t, "models")
    /\ prepared' = TRUE
    /\ Goto(t, "use")
    /\ UNCHANGED <<kind, lock, session, cached, open, left, collided, made, used, timeouts>>

\* on_backend_retryable_error: invalidate drops the session maker ...
Invalidate(t) ==
    /\ kind = "database" /\ At(t, "use") /\ Trouble
    /\ session' = None
    /\ collided' = (collided \/ OthersBusy(t))
    /\ Goto(t, "dispose")
    /\ UNCHANGED <<kind, lock, cached, prepared, open, left, made, used>>

\* ... and then the engine, which it disposes; the operation starts again
Dispose(t) ==
    /\ At(t, "dispose")
    /\ open' = open \ {cached}
    /\ cached' = None
    /\ collided' = (collided \/ session # None \/ OthersBusy(t))
    /\ thread' = [thread EXCEPT ![t] = Idle]
    /\ UNCHANGED <<kind, lock, session, prepared, left, made, used, timeouts>>

-----------------------------------------------------------------------------
\* _session.execute(statement): what there is now is used; session(): the one it
\* got, whose engine connects again if it was disposed
Use(t) ==
    /\ At(t, "use")
    /\ used' = used \cup {IF kind = "database" THEN "ready" ELSE IF session = None THEN "no_session"
                          ELSE IF ~ prepared THEN "not_prepared" ELSE "ready"}
    /\ open' = IF kind = "database" THEN open \cup {thread[t].engine} ELSE open
    /\ thread' = [thread EXCEPT ![t] = Done]
    /\ UNCHANGED <<kind, lock, session, cached, prepared, left, collided, made, timeouts>>

Step(t) ==
    \/ Check(t) \/ Lock(t) \/ MakeCluster(t) \/ Connect(t) \/ Prepare(t) \/ CreateTable(t)
    \/ TimedOut(t) \/ OtherError(t)
    \/ GetEngine(t) \/ SetEngine(t) \/ MakeSession(t) \/ ReadSession(t) \/ PrepareModels(t)
    \/ Invalidate(t) \/ Dispose(t)
    \/ Use(t)

Next == \E t \in Threads :
    \/ Check(t) \/ Lock(t) \/ MakeCluster(t) \/ Connect(t) \/ Prepare(t) \/ CreateTable(t)
    \/ TimedOut(t) \/ OtherError(t)
    \/ GetEngine(t) \/ SetEngine(t) \/ MakeSession(t) \/ ReadSession(t) \/ PrepareModels(t)
    \/ Invalidate(t) \/ Dispose(t)
    \/ Use(t)

Spec == Init /\ [][Next]_vars /\ \A t \in Threads : WF_vars(Step(t))

-----------------------------------------------------------------------------
(* "leave this class in a consistent state" (cassandra.py:208): threads    *)
(* that need the connection at once open one cluster, the session is that  *)
(* cluster's, and after a time-out the next one is opened only when the    *)
(* first is shut down.  Only an error of connect that is not a time-out    *)
(* leaves a cluster behind.                                                *)
OneCluster ==
    kind = "cassandra" =>
        /\ open \ left \subseteq {cached}
        /\ session # None => session = cached /\ session \in open \ left
        /\ session = None /\ lock = {} => open \subseteq left

(* The session maker is that of the engine the manager knows, which is the *)
(* only one open besides those just being made, and is there when it is    *)
(* read, unless two threads make an engine at once or one invalidates      *)
(* what another is about to use.                                           *)
OneEngine ==
    kind = "database" /\ ~ collided =>
        /\ open \subseteq {cached} \cup {thread[t].engine : t \in {u \in Threads : At(u, "engine")}}
        /\ session # None => session = cached
        /\ "key_error" \notin used

ConnectedOnce == TypeOK /\ OneCluster /\ OneEngine

(* Neither exception is empty: with one of them                            *)
(* "consistent" fails, and so does the session manager.                    *)
NothingLeft == left = {}
NoKeyError == "key_error" \notin used
EnginesDisposed == kind = "database" => Cardinality(open) <= 1 + Cardinality({t \in Threads : At(t, "engine")})

(* When _get_connection returns, the connection is prepared.               *)
PreparedForAction == kind = "cassandra" => "not_prepared" \notin used
=============================================================================
