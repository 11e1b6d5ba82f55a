------------------------------- MODULE Stores -------------------------------
(* How the result backends that are read by polling keep the state of a    *)
(* task: several deliveries of one task store into it, a client polls it,  *)
(* it is forgotten and cleaned up (backends/base.py and the backends).     *)
EXTENDS Naturals

CONSTANTS Deliveries,  \* the workers that have got the task
    Skews,             \* how far the clock of a worker is ahead (cassandra)
    MaxRetries,        \* result_backend_max_retries
    MaxFaults          \* bound on the operations the network breaks

StoresConstants == Skews \subseteq Nat /\ MaxRetries \in Nat /\ MaxFaults \in Nat

(* A backend is what store_result does to it: whether the state is read    *)
(* first (KeyValueStoreBackend); how it is written: over anything, only if *)
(* it is not there, in a transaction, or beside the others with a date;    *)
(* whether a ready state is looked for after a conflict; whether errors    *)
(* are safe to retry; which results the clean-up or the store remove when  *)
(* they have expired; whether one can be deleted.                          *)
KeyValueStore ==
    [check |-> TRUE, write |-> "replace", keeps |-> FALSE, safe |-> FALSE, expire |-> {}, forget |-> TRUE]

Any == {"STARTED", "SUCCESS", "FAILURE"}
Done == {"SUCCESS", "FAILURE"}

Redis == [KeyValueStore EXCEPT !.safe = TRUE, !.expire = Any]
DynamoDB == [KeyValueStore EXCEPT !.expire = Any]
GCS == [KeyValueStore EXCEPT !.expire = Any]
Memcached == [KeyValueStore EXCEPT !.expire = Any]
Couchbase == [KeyValueStore EXCEPT !.expire = Any]
Filesystem == [KeyValueStore EXCEPT !.expire = Any]
S3 == KeyValueStore
AzureBlockBlob == KeyValueStore
ArangoDB == KeyValueStore
CouchDB == [KeyValueStore EXCEPT !.write = "create"]
Elasticsearch == [KeyValueStore EXCEPT !.write = "create", !.keeps = TRUE, !.safe = TRUE]
Database == [KeyValueStore EXCEPT !.check = FALSE, !.write = "commit", !.safe = TRUE, !.expire = Done]
MongoDB == [KeyValueStore EXCEPT !.check = FALSE, !.expire = Done]
Cassandra ==
    [KeyValueStore EXCEPT !.check = FALSE, !.write = "dated", !.expire = Any, !.forget = FALSE]

Backends ==
    {Redis, DynamoDB, GCS, Memcached, Couchbase, Filesystem, S3, AzureBlockBlob, ArangoDB,
     CouchDB, Elasticsearch, Database, MongoDB, Cassandra}

Absent == "PENDING"
ReadyStates == {"SUCCESS", "FAILURE"}
Stored == {"STARTED"} \cup ReadyStates

VARIABLES
    kind, retry,   \* the backend, one of Backends; result_backend_always_retry
    skew,          \* the skew of the clock of each worker
    doc,           \* the document or row: its state and revision (cassandra: its date)
    writes,        \* writes to the store so far: the next revision, the time
    worker,        \* each delivery: the step of its store, the state it stores, what
                   \* it has seen, its retries, the last state that was stored
    client, cache, \* what the client does; Backend._cache
    removed,       \* the result was forgotten or cleaned up
    faults

vars == <<kind, retry, skew, doc, writes, worker, client, cache, removed, faults>>

Steps == {"idle", "read", "write", "update", "create", "put", "ended", "failed"}

TypeOK ==
    /\ doc.status \in {Absent} \cup Stored /\ cache \in {"none", Absent} \cup Stored
    /\ \A d \in Deliveries : worker[d].at \in Steps /\ worker[d].tries \in 0..MaxRetries

Init ==
    /\ kind \in Backends /\ retry \in BOOLEAN
    /\ skew \in [Deliveries -> IF kind.write = "dated" THEN Skews ELSE {0}]
    /\ doc = [status |-> Absent, rev |-> 0] /\ writes = 0
    /\ worker = [d \in Deliveries |->
                   [at |-> "idle", state |-> Absent, seen |-> 0, tries |-> 0, told |-> Absent]]
    /\ client = "idle" /\ cache = "none" /\ removed = FALSE /\ faults = 0

Unchanged == UNCHANGED <<kind, retry, skew>>
Outside == UNCHANGED <<client, cache, removed, faults>>
Exists == doc.status # Absent

-----------------------------------------------------------------------------
(* A document is written under a new revision. A row of cassandra is       *)
(* written with the clock of the worker, and the one with the latest date  *)
(* is read.                                                                *)
Insert(s, date) ==
    /\ doc' = IF kind.write = "dated" /\ date < doc.rev THEN doc ELSE [status |-> s, rev |-> date]
    /\ writes' = writes + 1

Write(d) == Insert(worker[d].state, writes + 1 + skew[d])

Goto(d, at) == worker' = [worker EXCEPT ![d].at = at]
See(d, at) == worker' = [worker EXCEPT ![d].at = at, ![d].seen = doc.rev]

\* store_result returns: the delivery goes on, or has ended
Return(d) ==
    worker' = [worker EXCEPT ![d] =
      [at |-> IF worker[d].state \in ReadyStates THEN "ended" ELSE "idle",
       state |-> worker[d].state, seen |-> 0, tries |-> 0, told |-> worker[d].state]]

FirstStep == IF kind.check \/ kind.write = "commit" THEN "read" ELSE "write"

(* _ensure_retryable: an exception the backend calls safe to retry starts  *)
(* the operation again, if that is asked for; otherwise it is raised.      *)
Raise(d) ==
    worker' = [worker EXCEPT ![d] =
      IF retry /\ kind.safe /\ worker[d].tries < MaxRetries
      THEN [worker[d] EXCEPT !.at = FirstStep, !.tries = @ + 1]
      ELSE [worker[d] EXCEPT !.at = "failed"]]

\* mark_as_started, mark_as_done, mark_as_failure: store_result
StoreResult(d, s) ==
    /\ worker[d].at = "idle"
    /\ s \in IF worker[d].told = Absent THEN {"STARTED"} ELSE ReadyStates
    /\ worker' = [worker EXCEPT ![d].at = FirstStep, ![d].state = s]
    /\ UNCHANGED <<doc, writes>> /\ Outside /\ Unchanged

(* The read before the write: BaseKeyValueStoreBackend._store_result keeps *)
(* a SUCCESS; the database looks for the row it will update.               *)
Read(d) ==
    /\ worker[d].at = "read"
    /\ IF kind.check /\ doc.status = "SUCCESS" THEN Return(d) ELSE See(d, "write")
    /\ UNCHANGED <<doc, writes>> /\ Outside /\ Unchanged

\* set, replace_one, INSERT: whatever is there is replaced
Replace(d) ==
    /\ kind.write \in {"replace", "dated"}
    /\ Write(d) /\ Return(d)

(* The row is inserted, and another session has inserted it (the task_id   *)
(* is unique), or updated, and it is gone: IntegrityError, StaleDataError. *)
Commit(d) ==
    /\ kind.write = "commit"
    /\ IF Exists = (worker[d].seen # 0)
       THEN Write(d) /\ Return(d)
       ELSE Raise(d) /\ UNCHANGED <<doc, writes>>

\* save, index with op_type create: a document that exists is a conflict
Create(d) ==
    /\ kind.write = "create"
    /\ IF Exists THEN Goto(d, "update") /\ UNCHANGED <<doc, writes>>
                 ELSE Write(d) /\ Return(d)

WriteStep(d) ==
    /\ worker[d].at = "write"
    /\ Replace(d) \/ Commit(d) \/ Create(d)
    /\ Outside /\ Unchanged

\* Mutant of Kept: whoever reads the document again writes it.
KeptNever(d) == FALSE

(* After a conflict the document is read again. ElasticsearchBackend keeps *)
(* a SUCCESS, and a ready state from an unready one.                       *)
Kept(d) ==
    /\ kind.keeps
    /\ \/ doc.status = "SUCCESS"
       \/ doc.status \in ReadyStates /\ worker[d].state \notin ReadyStates

Update(d) ==
    /\ worker[d].at = "update"
    /\ IF ~ Exists THEN IF kind.keeps THEN Goto(d, "create") ELSE Raise(d)
       ELSE IF Kept(d) THEN Return(d) ELSE See(d, "put")
    /\ UNCHANGED <<doc, writes>> /\ Outside /\ Unchanged

\* the document was deleted after the conflict: index once more
CreateAgain(d) ==
    /\ worker[d].at = "create"
    /\ IF Exists THEN Raise(d) /\ UNCHANGED <<doc, writes>> ELSE Write(d) /\ Return(d)
    /\ Outside /\ Unchanged

\* update with if_seq_no, save with _rev: only over the revision that was read
Put(d) ==
    /\ worker[d].at = "put"
    /\ IF Exists /\ doc.rev = worker[d].seen THEN Write(d) /\ Return(d)
                                             ELSE Raise(d) /\ UNCHANGED <<doc, writes>>
    /\ Outside /\ Unchanged

\* the connection breaks: the write has been done or not, the caller cannot tell
Fault(d) ==
    /\ faults < MaxFaults /\ worker[d].at \in {"read", "write", "update", "create", "put"}
    /\ faults' = faults + 1
    /\ Raise(d)
    /\ \/ UNCHANGED <<doc, writes>>
       \/ /\ worker[d].at = "write" /\ kind.write \in {"replace", "dated"}
          /\ Write(d)
       \/ /\ worker[d].at \in {"write", "create"} /\ kind.write = "create"
          /\ ~ Exists /\ Write(d)
       \/ /\ worker[d].at = "write" /\ kind.write = "commit" /\ Exists = (worker[d].seen # 0)
          /\ Write(d)
       \/ /\ worker[d].at = "put" /\ Exists /\ doc.rev = worker[d].seen
          /\ Write(d)
    /\ UNCHANGED <<client, cache, removed>> /\ Unchanged

Store(d) == Read(d) \/ WriteStep(d) \/ Update(d) \/ CreateAgain(d) \/ Put(d)

-----------------------------------------------------------------------------
\* get_task_meta: the cache first; only a SUCCESS is put into it
Meta == IF cache # "none" THEN cache ELSE doc.status

\* wait_for, called by AsyncResult.get (wait_for_pending)
WaitFor ==
    /\ client # "waiting" /\ client' = "waiting"
    /\ UNCHANGED <<doc, writes, worker, cache, removed, faults>> /\ Unchanged

\* get_many does the same for several tasks
Poll ==
    /\ client = "waiting"
    /\ client' = IF Meta \in ReadyStates THEN Meta ELSE "waiting"
    /\ cache' = IF Meta = "SUCCESS" THEN "SUCCESS" ELSE cache
    /\ UNCHANGED <<doc, writes, worker, removed, faults>> /\ Unchanged

TimeOut ==
    /\ client = "waiting" /\ Meta \notin ReadyStates
    /\ client' = "idle"
    /\ UNCHANGED <<doc, writes, worker, cache, removed, faults>> /\ Unchanged

\* reload_task_result caches the state it reads, whatever it is
Reload ==
    /\ client \in ReadyStates
    /\ cache' = doc.status
    /\ UNCHANGED <<doc, writes, worker, client, removed, faults>> /\ Unchanged

Delete ==
    /\ doc' = [doc EXCEPT !.status = Absent, !.rev = IF kind.write = "dated" THEN @ ELSE 0]
    /\ removed' = TRUE

\* forget: the cache, then the document; cassandra cannot
Forget ==
    /\ client \in {"idle"} \cup ReadyStates /\ kind.forget /\ ~ removed
    /\ client' = "idle" /\ cache' = "none"
    /\ Delete
    /\ UNCHANGED <<writes, worker, faults>> /\ Unchanged

\* cleanup, run by the celery.backend_cleanup task, or the time to live in the store
Cleanup ==
    /\ doc.status \in kind.expire /\ ~ removed
    /\ Delete
    /\ UNCHANGED <<writes, worker, client, cache, faults>> /\ Unchanged

Next ==
    \/ \E d \in Deliveries : \E s \in Stored : StoreResult(d, s)
    \/ \E d \in Deliveries : Read(d) \/ WriteStep(d) \/ Update(d) \/ CreateAgain(d) \/ Put(d)
    \/ \E d \in Deliveries : Fault(d)
    \/ WaitFor \/ Poll \/ TimeOut \/ Reload \/ Forget \/ Cleanup

Spec == Init /\ [][Next]_vars

-----------------------------------------------------------------------------
(* A result that elasticsearch has told the client or another worker to be *)
(* a SUCCESS is not replaced by a late store of another delivery, and a    *)
(* ready state not by an unready one: the stores of the deliveries are     *)
(* ordered by the revisions (ElasticsearchBackend._update).                *)
NotOverwritten ==
    kind = Elasticsearch /\ doc'.status # Absent =>
        /\ doc.status = "SUCCESS" => doc'.status = "SUCCESS"
        /\ doc.status \in ReadyStates => doc'.status \in ReadyStates

(* When every delivery has ended and stored its state, the task is ready   *)
(* in every backend, however the stores overlapped, were repeated, or were *)
(* dated by workers whose clocks differ; and it has a state one of the     *)
(* deliveries ended with.                                                  *)
AllEnded == \A d \in Deliveries : worker[d].at = "ended"

EndsReady ==
    AllEnded /\ ~ removed => \E d \in Deliveries : doc.status = worker[d].told

(* What a client was given is a state that a delivery had stored or was    *)
(* storing: nothing is made up, also after retries and clean-up.           *)
GotWasStored ==
    client \in ReadyStates => \E d \in Deliveries : worker[d].state = client

StoresRight == TypeOK /\ EndsReady /\ GotWasStored
=============================================================================
