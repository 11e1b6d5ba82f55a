-------------------------------- MODULE Beat --------------------------------
(***************************************************************************)
(* The periodic task scheduler: Scheduler with its heap of events,         *)
(* PersistentScheduler with its shelve file, and the loop of Service.      *)
(*                                                                         *)
(* An entry is [every, last, count] (schedule, last_run_at and             *)
(* total_run_count).  The dictionary schedule maps names to entries; the   *)
(* heap holds, for each name, the time of its event and the entry object   *)
(* the event refers to, which need not be the one in the dictionary.  Time *)
(* is counted in units of the drift of Scheduler.adjust.                   *)
(***************************************************************************)
EXTENDS Integers, FiniteSets

CONSTANTS
    Entries,      \* names that may be in conf.beat_schedule
    Default,      \* celery.backend_cleanup
    Intervals,    \* intervals an entry may have
    MaxInterval,  \* max_interval
    SyncEvery,    \* sync_every
    SyncTasks,    \* beat_sync_every, 0 if not set
    Persistent,   \* the scheduler is a PersistentScheduler
    Cleanup,      \* results expire and the backend does not do it itself
    None,
    MaxTime,      \* bound: the clock
    SendTime,     \* bound: how long a send takes
    MaxStops,     \* bound: stops by a signal
    MaxCrashes,   \* bound: crashes
    MaxChanges    \* bound: changes of the schedule, at run time and while down

BeatConstants ==
    /\ Default \notin Entries /\ IsFiniteSet(Entries)
    /\ Intervals \subseteq Nat \ {0} /\ Intervals # {}
    /\ MaxInterval \in Nat \ {0} /\ SyncEvery \in Nat /\ SyncTasks \in Nat
    /\ Persistent \in BOOLEAN /\ Cleanup \in BOOLEAN
    /\ MaxTime \in Nat /\ SendTime \in Nat
    /\ MaxStops \in Nat /\ MaxCrashes \in Nat /\ MaxChanges \in Nat

Names == Entries \union {Default}
Entry == [every : Intervals, last : 0..MaxTime, count : Nat]
NoneApart == None \notin Entry /\ None \notin Intervals

VARIABLES
    now,       \* the clock
    conf,      \* conf.beat_schedule: the interval of each configured name, or None
    schedule,  \* Scheduler.schedule
    heap,      \* Scheduler._heap: for each name its event, or None
    old,       \* Scheduler.old_schedulers: its intervals, or None before the first tick
    disk,      \* what the shelve file would give back after a crash
    lastSync,  \* _last_sync, or None
    tasks,     \* _tasks_since_sync
    pc,        \* "down", "tick", "reserved", "sent" or "sleep"
    current,   \* the entry that is due in the tick under way
    wake,      \* when the sleep ends, or the send has to
    sends,     \* how often each name was sent, or tried to
    lastSend,  \* when it was last reserved, as far as beat can know, or None
    happened   \* how many stops, crashes and changes there were

memory == <<schedule, heap, old, lastSync, tasks>>
history == <<sends, lastSend>>
vars == <<now, conf, memory, disk, pc, current, wake, history, happened>>

Nobody == [n \in Names |-> None]
Due(e) == e.last + e.every

TypeOK ==
    /\ now \in 0..MaxTime
    /\ conf \in [Entries -> Intervals \union {None}]
    /\ \A n \in Names :
          /\ schedule[n] \in Entry \union {None}
          /\ disk[n] \in Entry \union {None}
          /\ heap[n] # None => heap[n].time \in Int /\ heap[n].entry \in Entry
    /\ old \in [Names -> Intervals \union {None}] \union {None}
    /\ lastSync \in 0..MaxTime \union {None}
    /\ tasks \in Nat
    /\ pc \in {"down", "tick", "reserved", "sent", "sleep"}
    /\ current \in Names \union {None}
    /\ wake \in Nat
    /\ lastSend \in [Names -> 0..MaxTime \union {None}]

Init ==
    /\ now = 0
    /\ conf \in [Entries -> Intervals]
    /\ schedule = Nobody /\ heap = Nobody /\ old = None
    /\ disk = Nobody
    /\ lastSync = None /\ tasks = 0
    /\ pc = "down" /\ current = None /\ wake = 0
    /\ sends = [n \in Names |-> 0]
    /\ lastSend = [n \in Names |-> None]
    /\ happened = [stops |-> 0, crashes |-> 0, changes |-> 0]

-----------------------------------------------------------------------------
\* ScheduleEntry(...): a new entry counts as run now.
NewEntry(i) == [every |-> i, last |-> now, count |-> 0]

\* merge_inplace keeping the names that are not configured any more.
MergeKeepsAll(s) ==
    [n \in Names |->
        IF n = Default THEN None
        ELSE IF s[n] = None THEN NewEntry(conf[n])
        ELSE [s[n] EXCEPT !.every = conf[n]]]

\* merge_inplace: names that are not configured are dropped, those that are keep
\* their last run if they are known.
MergeInplace(s) ==
    [n \in Names |->
        IF n = Default \/ (n \in Entries /\ conf[n] = None) THEN None
        ELSE IF s[n] = None THEN NewEntry(conf[n])
        ELSE [s[n] EXCEPT !.every = conf[n]]]

\* install_default_entries; the interval stands for its crontab.
InstallDefaultEntries(s) ==
    IF Cleanup /\ s[Default] = None
    THEN [s EXCEPT ![Default] = NewEntry(CHOOSE i \in Intervals : TRUE)] ELSE s

\* setup_schedule of PersistentScheduler and of Scheduler.
SetupSchedule ==
    IF Persistent THEN InstallDefaultEntries(MergeInplace(disk))
                  ELSE MergeInplace(InstallDefaultEntries(Nobody))

\* The process starts: the schedule is read, merged and written.
Start ==
    /\ pc = "down"
    /\ schedule' = SetupSchedule
    /\ disk' = IF Persistent THEN schedule' ELSE disk
    /\ heap' = Nobody /\ old' = None /\ lastSync' = None /\ tasks' = 0
    /\ pc' = "tick"
    /\ UNCHANGED <<now, conf, current, wake, history, happened>>

Adjust(d) == IF d > 0 THEN d - 1 ELSE d

\* populate_heap: an event for every entry, now if it is due.
PopulateHeap ==
    [n \in Names |->
        IF schedule[n] = None THEN None
        ELSE [time |-> IF Due(schedule[n]) <= now THEN now
                       ELSE now + Adjust(Due(schedule[n]) - now),
              entry |-> schedule[n]]]

Editable == [n \in Names |-> IF schedule[n] = None THEN None ELSE schedule[n].every]

\* The heap a tick works on: populated anew when schedules_equal says no.
Heap == IF old # Editable THEN PopulateHeap ELSE heap

\* heap[0]: entries that compare equal come in any order.
Tops(h) ==
    {n \in Names : h[n] # None /\ \A m \in Names : h[m] # None => h[n].time <= h[m].time}

Sleep(delay) ==
    IF delay > 0 THEN pc' = "sleep" /\ wake' = now + delay
                 ELSE pc' = "tick" /\ UNCHANGED wake

Min(a, b) == IF a < b THEN a ELSE b

\* tick() that leaves the waiting to max_interval.
TickEarlyMax ==
    /\ pc = "tick"
    /\ heap' = Heap /\ old' = Editable
    /\ \A n \in Tops(Heap) : Heap[n].time > now
    /\ Sleep(MaxInterval)
    /\ UNCHANGED <<now, conf, schedule, lastSync, tasks, disk, current, history, happened>>

\* tick() with nothing in the schedule, or with an event that is still to come.
TickEarly ==
    /\ pc = "tick"
    /\ heap' = Heap /\ old' = Editable
    /\ \/ Tops(Heap) = {} /\ Sleep(MaxInterval)
       \/ \E n \in Tops(Heap) :
             Heap[n].time > now /\ Sleep(Min(Heap[n].time - now, MaxInterval))
    /\ UNCHANGED <<now, conf, schedule, lastSync, tasks, disk, current, history, happened>>

\* tick() sending what the heap says without asking the entry.
TickDueUnasked ==
    /\ pc = "tick"
    /\ old' = Editable
    /\ \E n \in Tops(Heap) :
          LET e == Heap[n].entry IN
          /\ Heap[n].time <= now
          /\ heap' = [Heap EXCEPT ![n] = None]
          /\ schedule' = [schedule EXCEPT ![n] = [e EXCEPT !.last = now, !.count = @ + 1]]
          /\ current' = n
          /\ lastSend' = [lastSend EXCEPT ![n] = now]
    /\ pc' = "reserved" /\ wake' = now + SendTime
    /\ UNCHANGED <<now, conf, lastSync, tasks, disk, sends, happened>>

\* tick() writing the schedule as soon as the entry is reserved.
TickDueSynced ==
    /\ pc = "tick"
    /\ old' = Editable
    /\ \E n \in Tops(Heap) :
          LET e == Heap[n].entry IN
          /\ Heap[n].time <= now /\ Due(e) <= now
          /\ heap' = [Heap EXCEPT ![n] = None]
          /\ schedule' = [schedule EXCEPT ![n] = [e EXCEPT !.last = now, !.count = @ + 1]]
          /\ current' = n
          /\ lastSend' = [lastSend EXCEPT ![n] = now]
    /\ disk' = schedule'
    /\ pc' = "reserved" /\ wake' = now + SendTime
    /\ UNCHANGED <<now, conf, lastSync, tasks, sends, happened>>

\* tick() with an event whose entry is due: reserve() it.  What follows first is the
\* connection to the broker, which may take its time.
TickDue ==
    /\ pc = "tick"
    /\ old' = Editable
    /\ \E n \in Tops(Heap) :
          LET e == Heap[n].entry IN
          /\ Heap[n].time <= now /\ Due(e) <= now
          /\ heap' = [Heap EXCEPT ![n] = None]
          /\ schedule' = [schedule EXCEPT ![n] = [e EXCEPT !.last = now, !.count = @ + 1]]
          /\ current' = n
          /\ lastSend' = [lastSend EXCEPT ![n] = now]
    /\ pc' = "reserved" /\ wake' = now + SendTime
    /\ UNCHANGED <<now, conf, lastSync, tasks, disk, sends, happened>>

\* tick() with an event whose entry is not due yet: its event is moved, and the
\* next one gets its turn.
TickNotDue ==
    /\ pc = "tick"
    /\ old' = Editable
    /\ \E n \in Tops(Heap) :
          LET e == Heap[n].entry
              delay == Due(e) - now
              h == [Heap EXCEPT ![n].time = now + Adjust(delay)] IN
          /\ Heap[n].time <= now /\ delay > 0
          /\ heap' = h
          /\ \E top \in Tops(h) :
                IF top # n THEN Sleep(0) ELSE Sleep(Min(Adjust(delay), MaxInterval))
    /\ UNCHANGED <<now, conf, schedule, lastSync, tasks, disk, current, history, happened>>

ShouldSync(t) ==
    \/ lastSync = None
    \/ now - lastSync > SyncEvery
    \/ SyncTasks > 0 /\ t >= SyncTasks

DoSync(t) ==
    IF ShouldSync(t)
    THEN /\ disk' = IF Persistent THEN schedule ELSE disk
         /\ lastSync' = now /\ tasks' = 0
    ELSE tasks' = t /\ UNCHANGED <<disk, lastSync>>

\* apply_async has published the task, or failed to.
Send ==
    /\ pc = "reserved"
    /\ sends' = [sends EXCEPT ![current] = @ + 1]
    /\ pc' = "sent"
    /\ UNCHANGED <<now, conf, memory, disk, current, wake, lastSend, happened>>

\* The rest of apply_async and of tick: sync if it is time to, push the next event.
SendDone ==
    /\ pc = "sent"
    /\ DoSync(tasks + 1)
    /\ heap' = [heap EXCEPT ![current] =
                  [time |-> now + Adjust(schedule[current].every), entry |-> schedule[current]]]
    /\ pc' = "tick" /\ current' = None /\ wake' = 0
    /\ UNCHANGED <<now, conf, schedule, old, history, happened>>

\* Service.start: the sleep is over.
Wake ==
    /\ pc = "sleep" /\ wake <= now
    /\ DoSync(tasks)
    /\ pc' = "tick" /\ wake' = 0
    /\ UNCHANGED <<now, conf, schedule, heap, old, current, history, happened>>

\* add(): another entry, or another schedule for one, at run time.
Add(n, i) ==
    /\ pc \in {"tick", "sleep"} /\ happened.changes < MaxChanges
    /\ happened' = [happened EXCEPT !.changes = @ + 1]
    /\ schedule' = [schedule EXCEPT ![n] = NewEntry(i)]
    /\ UNCHANGED <<now, conf, heap, old, lastSync, tasks, disk, pc, current, wake, history>>

\* The process ends, and its memory with it.
Down ==
    /\ pc' = "down" /\ current' = None /\ wake' = 0
    /\ schedule' = Nobody /\ heap' = Nobody /\ old' = None
    /\ lastSync' = None /\ tasks' = 0

\* SIGTERM or SIGINT: the handler closes the scheduler, which writes the schedule,
\* wherever the main thread is.
Stop ==
    /\ pc # "down" /\ happened.stops < MaxStops
    /\ happened' = [happened EXCEPT !.stops = @ + 1]
    /\ disk' = IF Persistent THEN schedule ELSE disk
    /\ Down
    /\ UNCHANGED <<now, conf, history>>

\* The process dies; the runs the file does not have are forgotten.
Crash ==
    /\ pc # "down" /\ happened.crashes < MaxCrashes
    /\ happened' = [happened EXCEPT !.crashes = @ + 1]
    /\ Down
    /\ lastSend' = [n \in Names |->
                      IF lastSend[n] # None /\ disk[n] # None /\ disk[n].last < lastSend[n]
                      THEN None ELSE lastSend[n]]
    /\ UNCHANGED <<now, conf, disk, sends>>

\* While it is down the configuration is changed, or the file is lost: setup_schedule
\* removes a file it cannot read.
Reconfigure(n, i) ==
    /\ pc = "down" /\ happened.changes < MaxChanges
    /\ happened' = [happened EXCEPT !.changes = @ + 1]
    /\ conf' = [conf EXCEPT ![n] = i]
    /\ UNCHANGED <<now, memory, disk, pc, current, wake, history>>

LoseFile ==
    /\ pc = "down" /\ happened.changes < MaxChanges
    /\ happened' = [happened EXCEPT !.changes = @ + 1]
    /\ disk' = Nobody
    /\ UNCHANGED <<now, conf, memory, pc, current, wake, history>>

\* Time passes; while a task is being sent, at most SendTime of it.
Clock ==
    /\ now < MaxTime
    /\ pc \in {"reserved", "sent"} => now < wake
    /\ now' = now + 1
    /\ UNCHANGED <<conf, memory, disk, pc, current, wake, history, happened>>

Next ==
    \/ Start \/ TickEarly \/ TickDue \/ TickNotDue \/ Send \/ SendDone \/ Wake
    \/ \E n \in Entries, i \in Intervals : Add(n, i)
    \/ \E n \in Entries, i \in Intervals \union {None} : Reconfigure(n, i)
    \/ Stop \/ Crash \/ LoseFile \/ Clock

Spec == Init /\ [][Next]_vars

-----------------------------------------------------------------------------
\* Beat never sleeps past the time an entry of the schedule is due (plus the time
\* its last send took), however entries were added, moved in the heap or sent: it
\* is the event of each of them that the heap must keep, and not too late.
NoOversleep ==
    pc = "sleep" /\ old = Editable =>
        \A n \in Names : schedule[n] # None => wake <= Due(schedule[n]) + SendTime

\* An entry is never run twice within its interval, whatever the heap says, unless
\* beat has died since and the file does not have its last run; a send that fails
\* counts as a run.  Neither a stop by a signal, nor a change of the schedule, nor
\* the loss of the file makes a run come early.
RunsSpaced ==
    [][\A n \in Names : pc = "tick" /\ pc' = "reserved" /\ current' = n
          => lastSend[n] = None \/ now - lastSend[n] >= schedule[n].every]_vars

\* A crash may repeat a run and never skips one: what the file says was run was sent.
\* (Not so a stop by a signal, whose handler writes the file at any point of a tick.)
PersistedWasSent ==
    happened.stops = 0 => \A n \in Names : disk[n] # None => disk[n].count <= sends[n]

\* docs: "A built-in periodic task will delete the results after this time
\* (celery.backend_cleanup), assuming that celery beat is enabled".
DefaultInstalled ==
    Cleanup /\ pc \notin {"down"} => schedule[Default] # None

\* docs: PersistentScheduler "keeps track of the last run times".
LastRunKept ==
    [][pc = "down" /\ pc' = "tick" =>
          \A n \in Names : disk[n] # None /\ schedule'[n] # None
                             => schedule'[n].last = disk[n].last]_vars
=============================================================================
