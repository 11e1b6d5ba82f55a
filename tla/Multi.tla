-------------------------------- MODULE Multi --------------------------------
(***************************************************************************)
(* `celery multi': one operator starts, stops, restarts and kills a set of *)
(* worker nodes (apps/multi.py, bin/multi.py).  A node is known to the     *)
(* operator only by its pidfile, which the detached worker processes       *)
(* create, check and remove as a lock (platforms.py).                      *)
(*                                                                         *)
(* Every system call on a pidfile is a step of its own, so the processes   *)
(* of one node and the operator interleave between them.  A file is known  *)
(* by the process that created it: a process whose file was unlinked       *)
(* writes into an inode nobody else sees.                                  *)
(***************************************************************************)
EXTENDS Naturals, FiniteSets

CONSTANTS Nodes,        \* the nodes of the cluster
          Pids,         \* process ids, used again once their process is gone
          MaxCommands,  \* commands the operator gives
          MaxCrashes,   \* processes that die without cleaning up
          Patience      \* whether the operator waits between commands: some BOOLEANs

MultiConstants ==
    /\ IsFiniteSet(Nodes) /\ "none" \notin Nodes
    /\ IsFiniteSet(Pids) /\ {"nothing", "empty", "nobody"} \cap Pids = {}
    /\ MaxCommands \in Nat /\ MaxCrashes \in Nat /\ Patience \subseteq BOOLEAN

VARIABLES file,     \* node -> its pidfile: NoFile, or who made it and what it says
          proc,     \* pid -> the worker process: its node, where it is, which lock
          cmd,      \* the command under way: its operation and what is left of it
          starts,   \* node -> processes this command has started for it
          given,    \* commands given
          crashes,  \* processes crashed
          patient,  \* the operator waits for starts and exits before a command
          raced,    \* history: nodes two of whose processes were at the file at once
          killed    \* history: nodes a process of which died before its time

vars == <<file, proc, cmd, starts, given, crashes, patient, raced, killed>>
files == <<file, raced>>
operator == <<cmd, starts, given, patient>>

Operations == {"start", "stop", "stopwait", "restart", "kill"}
NoFile == [by |-> "nobody", says |-> "nothing"]
Empty == "empty"
Idle == [op |-> "idle", at |-> "idle", todo |-> {}, P |-> {}]
Gone == [node |-> "none", at |-> "gone", lock |-> "none"]
Settled == {"running", "gone"}
Working == {"running", "stopping"}

TypeOK ==
    /\ file \in [Nodes -> {NoFile} \cup [by : Pids, says : Pids \cup {Empty}]]
    /\ \A p \in Pids : proc[p] = Gone \/
         /\ proc[p].node \in Nodes /\ proc[p].lock \in {"test", "real"}
         /\ proc[p].at \in {"check", "read", "remove", "open", "write", "reread",
                            "release", "running", "stopping", "exiting"}
    /\ cmd.op \in Operations \cup {"idle"}
    /\ cmd.at \in {"idle", "start", "getpids", "send", "wait"} /\ cmd.P \cup cmd.todo \subseteq Nodes
    /\ starts \in [Nodes -> Nat] /\ given \in 0..MaxCommands /\ crashes \in 0..MaxCrashes
    /\ patient \in BOOLEAN /\ raced \subseteq Nodes /\ killed \subseteq Nodes

Alive(p) == proc[p].at # "gone"
Of(n) == {p \in Pids : Alive(p) /\ proc[p].node = n}

(***************************************************************************)
(* The pidfile: Pidfile of platforms.py.                                   *)
(***************************************************************************)
\* Two processes of the node are between looking at the file and leaving it.
Racing(n, procs) ==
    Cardinality({p \in Pids : procs[p].node = n /\ procs[p].at \notin Settled \cup {"stopping"}}) > 1

At(p, where) == [proc EXCEPT ![p].at = where]

Moved(procs) ==
    /\ proc' = procs
    /\ raced' = raced \cup {n \in Nodes : Racing(n, procs)}

\* read_pid: no file gives no pid, and a file without its newline is refused as broken.
ReadPid(n) == file[n].says
Names(n) == ReadPid(n) \in Pids

\* is_locked: os.path.exists.
IsLocked(p) ==
    /\ proc[p].at = "check"
    /\ Moved(At(p, IF file[proc[p].node] = NoFile THEN "open" ELSE "read"))
    /\ UNCHANGED <<file, operator, crashes, killed>>

\* Mutant of RemoveIfStale: any file is taken for a stale one.
RemoveIfThere(p) ==
    /\ proc[p].at = "read"
    /\ Moved(At(p, "remove"))
    /\ UNCHANGED <<file, operator, crashes, killed>>

\* remove_if_stale: a broken or vanished file, a file of this very pid and a file
\* of a dead process are removed; anybody else alive means EX_CANTCREAT.
RemoveIfStale(p) ==
    LET n == proc[p].node
        stale == ~Names(n) \/ ReadPid(n) = p \/ ~Alive(ReadPid(n))
    IN  /\ proc[p].at = "read"
        /\ Moved(IF stale THEN At(p, "remove") ELSE [proc EXCEPT ![p] = Gone])
        /\ UNCHANGED <<file, operator, crashes, killed>>

RemoveStale(p) ==
    /\ proc[p].at = "remove"
    /\ file' = [file EXCEPT ![proc[p].node] = NoFile]
    /\ Moved(At(p, "open"))
    /\ UNCHANGED <<operator, crashes, killed>>

\* write_pid opens with O_CREAT | O_EXCL: EEXIST is LockFailed, and the process ends.
Open(p) ==
    LET n == proc[p].node
    IN  /\ proc[p].at = "open"
        /\ IF file[n] = NoFile
             THEN /\ file' = [file EXCEPT ![n] = [by |-> p, says |-> Empty]]
                  /\ Moved(At(p, "write"))
             ELSE /\ UNCHANGED file
                  /\ Moved([proc EXCEPT ![p] = Gone])
        /\ UNCHANGED <<operator, crashes, killed>>

Mine(p) == file[proc[p].node].by = p

Write(p) ==
    /\ proc[p].at = "write"
    /\ file' = IF Mine(p) THEN [file EXCEPT ![proc[p].node].says = p] ELSE file
    /\ Moved(At(p, "reread"))
    /\ UNCHANGED <<operator, crashes, killed>>

\* The path is opened again: another content, or no file at all, is LockFailed.
\* The lock taken before the exec is only a test, and is released at once.
Reread(p) ==
    LET kept == ReadPid(proc[p].node) = p
        next == IF proc[p].lock = "test" THEN "release" ELSE "running"
    IN  /\ proc[p].at = "reread"
        /\ Moved(IF kept THEN At(p, next) ELSE [proc EXCEPT ![p] = Gone])
        /\ UNCHANGED <<file, operator, crashes, killed>>

\* detached: _create_pidlock(pidfile).release(), then os.execv; the new program
\* keeps the pid and takes the lock again in WorkController.on_start.
ReleaseTestLock(p) ==
    /\ proc[p].at = "release"
    /\ file' = [file EXCEPT ![proc[p].node] = NoFile]
    /\ Moved([proc EXCEPT ![p] = [node |-> @.node, at |-> "check", lock |-> "real"]])
    /\ UNCHANGED <<operator, crashes, killed>>

\* WorkController.on_stopped releases the lock while the process still has to end.
OnStopped(p) ==
    /\ proc[p].at = "stopping"
    /\ file' = [file EXCEPT ![proc[p].node] = NoFile]
    /\ Moved(At(p, "exiting"))
    /\ UNCHANGED <<operator, crashes, killed>>

\* The atexit handler of create_pidlock releases it a second time.
AtExit(p) ==
    /\ proc[p].at = "exiting"
    /\ file' = [file EXCEPT ![proc[p].node] = NoFile]
    /\ Moved([proc EXCEPT ![p] = Gone])
    /\ UNCHANGED <<operator, crashes, killed>>

\* The process is lost (out of memory, kill -9, power): its file stays.
Crash(p) ==
    /\ Alive(p) /\ crashes < MaxCrashes
    /\ crashes' = crashes + 1
    /\ killed' = killed \cup {proc[p].node}
    /\ Moved([proc EXCEPT ![p] = Gone])
    /\ UNCHANGED <<file, operator>>

(***************************************************************************)
(* The operator: Node and Cluster of apps/multi.py.                        *)
(***************************************************************************)
\* Node.start -> Popen -> DaemonContext._detach: the double fork leaves a process
\* of its own, and Popen.wait returns before that process has looked at the file.
Spawned(n) == [node |-> n, at |-> "check", lock |-> "test"]

\* A pid the kernel may give it: a fresh one (any is as good as another), or the
\* very pid that the stale file of this node names, as happens in a container.
NewPids(n) ==
    LET fresh == {p \in Pids : proc[p] = Gone /\ \A m \in Nodes : ReadPid(m) # p}
        any == IF fresh = {} THEN {} ELSE {CHOOSE p \in fresh : TRUE}
    IN  any \cup {p \in Pids : proc[p] = Gone /\ ReadPid(n) = p}

Start(n) ==
    /\ \E p \in NewPids(n) : Moved([proc EXCEPT ![p] = Spawned(n)])
    /\ starts' = [starts EXCEPT ![n] = @ + 1]
    /\ UNCHANGED killed

\* What a signal does: SIGKILL, or SIGTERM before the worker has its handlers,
\* ends the process as it stands; a running worker begins its warm shutdown.
Signalled(p, sig) ==
    IF sig = "KILL" \/ proc[p].at \notin Working \cup {"exiting"}
      THEN /\ Moved([proc EXCEPT ![p] = Gone])
           /\ killed' = killed \cup {proc[p].node}
      ELSE /\ Moved(IF proc[p].at = "running" THEN At(p, "stopping") ELSE proc)
           /\ UNCHANGED killed

\* Node.alive is send(0): the pid comes from the file at this moment.
NodeAlive(n) == Names(n) /\ Alive(ReadPid(n))

\* Node.send: no pid in the file, or no such process, is not an error.
Send(n, sig) ==
    IF NodeAlive(n)
      THEN Signalled(ReadPid(n), sig)
      ELSE UNCHANGED <<proc, raced, killed>>

Quiet == UNCHANGED <<proc, raced, killed, starts>>

\* on_down: restart starts the node again, the others only say that it is down.
OnDown(n) == IF cmd.op = "restart" THEN Start(n) ELSE Quiet

\* MultiTool.call_command.
Command(op) ==
    /\ cmd = Idle /\ given < MaxCommands
    /\ patient => \A p \in Pids : proc[p].at \in Settled
    /\ given' = given + 1
    /\ cmd' = [op |-> op, at |-> IF op = "start" THEN "start" ELSE "getpids",
               todo |-> Nodes, P |-> {}]
    /\ starts' = [n \in Nodes |-> 0]
    /\ UNCHANGED <<file, proc, raced, killed, crashes, patient>>

StartNode ==
    /\ cmd.at = "start"
    /\ \E n \in cmd.todo :
        /\ Start(n)
        /\ cmd' = IF cmd.todo = {n} THEN Idle ELSE [cmd EXCEPT !.todo = @ \ {n}]
    /\ UNCHANGED <<file, given, crashes, patient>>

\* getpids, and the end of the loop over it: a node without a pid is down at once.
\* kill sends as it goes; the others collect the nodes to signal first.
GetPids ==
    /\ cmd.at = "getpids"
    /\ \E n \in cmd.todo :
        LET P == IF Names(n) THEN cmd.P \cup {n} ELSE cmd.P
        IN  /\ \/ ~Names(n) /\ OnDown(n)
               \/ Names(n) /\ cmd.op = "kill" /\ Send(n, "KILL") /\ UNCHANGED starts
               \/ Names(n) /\ cmd.op # "kill" /\ Quiet
            /\ cmd' = CASE cmd.todo # {n} -> [cmd EXCEPT !.todo = @ \ {n}, !.P = P]
                        [] cmd.op = "kill" \/ P = {} -> Idle
                        [] OTHER -> [cmd EXCEPT !.at = "send", !.todo = P, !.P = P]
    /\ UNCHANGED <<file, given, crashes, patient>>

\* shutdown_nodes, the first loop: a node that cannot be signalled is down.  Without
\* a retry interval (stop) the command ends here.
SendSignal ==
    /\ cmd.at = "send"
    /\ \E n \in cmd.todo :
        LET P == IF NodeAlive(n) THEN cmd.P ELSE cmd.P \ {n}
        IN  /\ IF NodeAlive(n) THEN Send(n, "TERM") /\ UNCHANGED starts ELSE OnDown(n)
            /\ cmd' = CASE cmd.todo # {n} -> [cmd EXCEPT !.todo = @ \ {n}, !.P = P]
                        [] cmd.op = "stop" \/ P = {} -> Idle
                        [] OTHER -> [cmd EXCEPT !.at = "wait", !.todo = {}, !.P = P]
    /\ UNCHANGED <<file, given, crashes, patient>>

\* shutdown_nodes, the waiting loop: each pass takes the first node found dead.
WaitFor ==
    \E n \in cmd.P :
        /\ cmd.at = "wait" /\ ~NodeAlive(n)
        /\ OnDown(n)
        /\ cmd' = IF cmd.P = {n} THEN Idle ELSE [cmd EXCEPT !.P = @ \ {n}]
        /\ UNCHANGED <<file, given, crashes, patient>>

Init ==
    /\ file = [n \in Nodes |-> NoFile]
    /\ proc = [p \in Pids |-> Gone]
    /\ cmd = Idle
    /\ starts = [n \in Nodes |-> 0]
    /\ given = 0 /\ crashes = 0
    /\ patient \in Patience
    /\ raced = {} /\ killed = {}

Step(p) ==
    \/ IsLocked(p) \/ RemoveIfStale(p) \/ RemoveStale(p) \/ Open(p) \/ Write(p)
    \/ Reread(p) \/ ReleaseTestLock(p) \/ OnStopped(p) \/ AtExit(p)

Operate == StartNode \/ GetPids \/ SendSignal \/ WaitFor

Next ==
    \/ \E p \in Pids : Step(p) \/ Crash(p)
    \/ \E op \in Operations : Command(op)
    \/ Operate

\* Every process and the command under way go on; nobody is obliged to give
\* commands, and nothing has to crash.
Fairness == WF_vars(Operate) /\ \A p \in Pids : WF_vars(Step(p))
Spec == Init /\ [][Next]_vars /\ Fairness

(***************************************************************************)
(* Properties                                                              *)
(***************************************************************************)
\* create_pidlock ("If the pidfile already exists the program exits with an error
\* message"): a node never has two workers running.
OneRunning == \A n \in Nodes : Cardinality({p \in Of(n) : proc[p].at \in Working}) =< 1

\* What the lock does give: as long as no two processes of the node were at the
\* file at the same time, through crashes, stale files and pids used again, at most
\* one worker of it runs, and the file names that worker, so that it can be stopped.
LockHeld ==
    \A n \in Nodes \ raced : \A p \in Of(n) :
        proc[p].at \in Working =>
            /\ ReadPid(n) = p
            /\ \A q \in Of(n) : proc[q].at \in Working => p = q

\* Cluster.restart starts every node exactly once, however it was found to be down.
RestartOnce ==
    cmd.op = "restart" => \A n \in Nodes :
        starts[n] = IF n \in cmd.P \cup cmd.todo THEN 0 ELSE 1

\* A patient operator's command ends (stopwait and restart wait for the nodes they
\* signalled to be gone), unless two processes of a node met at its file.
CommandOver == ~patient \/ cmd = Idle \/ raced # {}

\* A patient operator's start or restart leaves the node with a worker running: a
\* stale or a broken file, or a worker that was up already, never leaves it with none.
NodeUp(n) == n \in raced \cup killed \/ \E p \in Of(n) : proc[p].at \in Working

\* The supervision of one cluster as a whole.
Supervised == TypeOK /\ LockHeld /\ RestartOnce
=============================================================================
