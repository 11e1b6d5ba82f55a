----------------------------- MODULE AppProofs -----------------------------
(***************************************************************************)
(* No task declaration is lost in App, for any number of threads,          *)
(* applications and functions, whichever of them share a name.             *)
(*                                                                         *)
(* The property speaks of the applications that no thread is finalizing;   *)
(* it is not inductive.  What is: a function that was connected is, in an  *)
(* application which is finalized, registered or being brought by the      *)
(* thread that holds the mutex (Done), because that thread sets            *)
(* `finalized' before it copies the functions and @task connects before    *)
(* it reads `finalized'.  DoneStep is the heart of the proof; Program,     *)
(* Locked, MadeInv and SharedInv are what it takes from the program text.  *)
(*                                                                         *)
(* Becomes says what a step leaves of the threads; the Move lemmas say it  *)
(* of each action once, and the rest of the proof uses only that.          *)
(***************************************************************************)
EXTENDS App, TLAPS

(* What a thread does, and where it is.                                    *)
Ops == {"idle", "task", "own", "now", "use", "shared_task", "finalize", "drain"}
Labels == {"idle", "connect", "look", "promise", "apps", "check", "insert", "made", "copy",
           "announce", "drain"}
(* A thread in _task_from_fun.                                             *)
Making == {"check", "insert", "made"}
Thread == [op : Ops, at : Labels, app : Apps \cup {NoOne}, fun : Funs \cup {NoOne},
           todo : SUBSET (Apps \cup Funs)]

DeclaredTypes == \A d \in declared : d = <<d[1], d[2], d[3]>> /\ d[3] \in Funs

ThreadTypes == thread \in [Threads -> Thread] /\ DeclaredTypes

(* What the place of a thread says about what it does: op, at, app, fun, todo. *)
Allowed(p, l, a, f, S) ==
    /\ l = "connect" =>
          /\ p \in {"task", "now", "shared_task"} /\ f \in Funs
          /\ p # "shared_task" => a \in Apps
    /\ l \in {"look", "promise"} => p \in {"task", "own", "now"} /\ a \in Apps /\ f \in Funs
    /\ l = "apps" => p = "shared_task" /\ f \in Funs
    /\ l \in Making => a \in Apps /\ f \in Funs /\ p # "idle"
    /\ l \in {"copy", "announce"} => p = "finalize" /\ a \in Apps
    /\ l = "drain" => p = "drain" /\ a \in Apps
    /\ p = "finalize" => S \subseteq Funs
    /\ p = "shared_task" => S \subseteq Apps
    /\ p \in {"task", "now", "shared_task"} /\ l # "connect" => f \in finalizers
    /\ p = "idle" => l = "idle"

Program ==
    \A t \in Threads :
       Allowed(thread[t].op, thread[t].at, thread[t].app, thread[t].fun, thread[t].todo)

(* The threads that hold the mutex of their application.                   *)
HoldsMutex(p, l) == p \in {"finalize", "drain"} \/ (p = "shared_task" /\ l \in Making)

Locked ==
    \A t \in Threads :
       HoldsMutex(thread[t].op, thread[t].at) =>
          thread[t].app \in Apps /\ mutex[thread[t].app] = t

(* The name of the function is taken in the application.                   *)
Registered(a, f) == tasks[a][Name(f)] # NoOne

(* What a thread has made is registered.                                   *)
MadeInv ==
    \A t \in Threads : thread[t].at = "made" => Registered(thread[t].app, thread[t].fun)

(* A thread that is like this brings g to b: it finalizes b and has not copied *)
(* the functions yet, has g in its copy, or is making g.                   *)
Brings(p, l, a, f, S, b, g) ==
    /\ p = "finalize" /\ a = b
    /\ l = "copy" \/ g \in S \/ (f = g /\ l \in {"check", "insert"})

Coming(b, g) ==
    \E t \in Threads :
       Brings(thread[t].op, thread[t].at, thread[t].app, thread[t].fun, thread[t].todo, b, g)

(* The function is registered or on its way.                               *)
Done(a, f) == Registered(a, f) \/ Coming(a, f)

(* @shared_task has still to go to the application, is there, or is done.  *)
SharedInv ==
    \A t \in Threads :
       thread[t].op = "shared_task" /\ thread[t].at \in Making \cup {"apps"} =>
          \A a \in active : finalized[a] =>
             \/ a \in thread[t].todo
             \/ thread[t].at \in {"check", "insert"} /\ thread[t].app = a
             \/ Done(a, thread[t].fun)

(* A declaration that has returned is done in the applications it is for.  *)
Kept(d) ==
    /\ d[1] \in {"task", "now", "shared_task"} => d[3] \in finalizers
    /\ d[1] = "shared_task" => \A a \in active : finalized[a] => Done(a, d[3])
    /\ d[1] \in {"task", "now"} => d[2] \in Apps /\ (finalized[d[2]] => Done(d[2], d[3]))

DeclaredInv == \A d \in declared : Kept(d)

(* So is one whose promise is about to be appended, though the application *)
(* may have been finalized since it was looked at.                         *)
PromisedInv ==
    \A t \in Threads :
       thread[t].at = "promise" => Kept(<<thread[t].op, thread[t].app, thread[t].fun>>)

IInv ==
    /\ TypeOK /\ ThreadTypes /\ Program /\ Locked /\ MadeInv /\ SharedInv
    /\ DeclaredInv /\ PromisedInv

(* What is known of the threads after a step that changes the record of t: *)
(* its fields, and that the other threads are where they were.             *)
Becomes(t, p, l, a, f, S) ==
    /\ thread' \in [Threads -> Thread]
    /\ thread'[t].op = p /\ thread'[t].at = l /\ thread'[t].app = a
    /\ thread'[t].fun = f /\ thread'[t].todo = S
    /\ \A u \in Threads \ {t} : thread'[u] = thread[u]

(* The assignments the actions make to the record of a thread.             *)
SetTodo(t, S) == thread' = [thread EXCEPT ![t].todo = S]
GotoOp(t, l, p) == thread' = [thread EXCEPT ![t].at = l, ![t].op = p]
GotoApp(t, l, a) ==
    thread' = [thread EXCEPT ![t].at = l, ![t].app = a]
GotoFun(t, l, f) ==
    thread' = [thread EXCEPT ![t].at = l, ![t].fun = f]
GotoTodo(t, l, S) ==
    thread' = [thread EXCEPT ![t].at = l, ![t].todo = S]
GotoAppTodo(t, l, a, S) ==
    thread' = [thread EXCEPT ![t].at = l, ![t].app = a, ![t].todo = S]
GotoFunTodo(t, l, f, S) ==
    thread' = [thread EXCEPT ![t].at = l, ![t].fun = f, ![t].todo = S]

(* A step that replaces the record of t. *)
LEMMA Assign ==
    ASSUME thread \in [Threads -> Thread], NEW t \in Threads, NEW r \in Thread,
           thread' = [thread EXCEPT ![t] = r]
    PROVE  Becomes(t, r.op, r.at, r.app, r.fun, r.todo)
    BY DEF Becomes

(* Each assignment as the record it makes: todo alone, *)
LEMMA TodoChanges ==
    ASSUME thread \in [Threads -> Thread], NEW t \in Threads,
           NEW S \in SUBSET (Apps \cup Funs),
           SetTodo(t, S)
    PROVE  Becomes(t, thread[t].op, thread[t].at, thread[t].app, thread[t].fun, S)
    <1>. DEFINE r == [thread[t] EXCEPT !.todo = S]
    <1>1. /\ r \in Thread /\ r.op = thread[t].op /\ r.at = thread[t].at
          /\ r.app = thread[t].app /\ r.fun = thread[t].fun /\ r.todo = S
        BY DEF Thread
    <1>2. thread' = [thread EXCEPT ![t] = r]
        BY DEF Thread, SetTodo
    <1>. HIDE DEF r
    <1>. QED
        BY <1>1, <1>2, Assign

(* the place alone (Goto), *)
LEMMA Goes ==
    ASSUME thread \in [Threads -> Thread], NEW t \in Threads,
           NEW l \in Labels,
           Goto(t, l)
    PROVE  Becomes(t, thread[t].op, l, thread[t].app, thread[t].fun, thread[t].todo)
    <1>. DEFINE r == [thread[t] EXCEPT !.at = l]
    <1>1. /\ r \in Thread /\ r.op = thread[t].op /\ r.at = l
          /\ r.app = thread[t].app /\ r.fun = thread[t].fun /\ r.todo = thread[t].todo
        BY DEF Thread
    <1>2. thread' = [thread EXCEPT ![t] = r]
        BY DEF Thread, Goto
    <1>. HIDE DEF r
    <1>. QED
        BY <1>1, <1>2, Assign

(* the place and the operation, *)
LEMMA GoesAs ==
    ASSUME thread \in [Threads -> Thread], NEW t \in Threads,
           NEW p \in Ops, NEW l \in Labels,
           GotoOp(t, l, p)
    PROVE  Becomes(t, p, l, thread[t].app, thread[t].fun, thread[t].todo)
    <1>. DEFINE r == [thread[t] EXCEPT !.at = l, !.op = p]
    <1>1. /\ r \in Thread /\ r.op = p /\ r.at = l
          /\ r.app = thread[t].app /\ r.fun = thread[t].fun /\ r.todo = thread[t].todo
        BY DEF Thread
    <1>2. thread' = [thread EXCEPT ![t] = r]
        BY DEF Thread, GotoOp
    <1>. HIDE DEF r
    <1>. QED
        BY <1>1, <1>2, Assign

(* the place and the application, *)
LEMMA GoesTo ==
    ASSUME thread \in [Threads -> Thread], NEW t \in Threads,
           NEW l \in Labels, NEW a \in Apps \cup {NoOne},
           GotoApp(t, l, a)
    PROVE  Becomes(t, thread[t].op, l, a, thread[t].fun, thread[t].todo)
    <1>. DEFINE r == [thread[t] EXCEPT !.at = l, !.app = a]
    <1>1. /\ r \in Thread /\ r.op = thread[t].op /\ r.at = l
          /\ r.app = a /\ r.fun = thread[t].fun /\ r.todo = thread[t].todo
        BY DEF Thread
    <1>2. thread' = [thread EXCEPT ![t] = r]
        BY DEF Thread, GotoApp
    <1>. HIDE DEF r
    <1>. QED
        BY <1>1, <1>2, Assign

(* the place and the function, *)
LEMMA GoesWith ==
    ASSUME thread \in [Threads -> Thread], NEW t \in Threads,
           NEW l \in Labels, NEW f \in Funs \cup {NoOne},
           GotoFun(t, l, f)
    PROVE  Becomes(t, thread[t].op, l, thread[t].app, f, thread[t].todo)
    <1>. DEFINE r == [thread[t] EXCEPT !.at = l, !.fun = f]
    <1>1. /\ r \in Thread /\ r.op = thread[t].op /\ r.at = l
          /\ r.app = thread[t].app /\ r.fun = f /\ r.todo = thread[t].todo
        BY DEF Thread
    <1>2. thread' = [thread EXCEPT ![t] = r]
        BY DEF Thread, GotoFun
    <1>. HIDE DEF r
    <1>. QED
        BY <1>1, <1>2, Assign

(* the place and what is to do, *)
LEMMA GoesDoing ==
    ASSUME thread \in [Threads -> Thread], NEW t \in Threads,
           NEW l \in Labels, NEW S \in SUBSET (Apps \cup Funs),
           GotoTodo(t, l, S)
    PROVE  Becomes(t, thread[t].op, l, thread[t].app, thread[t].fun, S)
    <1>. DEFINE r == [thread[t] EXCEPT !.at = l, !.todo = S]
    <1>1. /\ r \in Thread /\ r.op = thread[t].op /\ r.at = l
          /\ r.app = thread[t].app /\ r.fun = thread[t].fun /\ r.todo = S
        BY DEF Thread
    <1>2. thread' = [thread EXCEPT ![t] = r]
        BY DEF Thread, GotoTodo
    <1>. HIDE DEF r
    <1>. QED
        BY <1>1, <1>2, Assign

(* the place, the application and what is to do, *)
LEMMA GoesToDoing ==
    ASSUME thread \in [Threads -> Thread], NEW t \in Threads,
           NEW l \in Labels, NEW a \in Apps \cup {NoOne}, NEW S \in SUBSET (Apps \cup Funs),
           GotoAppTodo(t, l, a, S)
    PROVE  Becomes(t, thread[t].op, l, a, thread[t].fun, S)
    <1>. DEFINE r == [thread[t] EXCEPT !.at = l, !.app = a, !.todo = S]
    <1>1. /\ r \in Thread /\ r.op = thread[t].op /\ r.at = l
          /\ r.app = a /\ r.fun = thread[t].fun /\ r.todo = S
        BY DEF Thread
    <1>2. thread' = [thread EXCEPT ![t] = r]
        BY DEF Thread, GotoAppTodo
    <1>. HIDE DEF r
    <1>. QED
        BY <1>1, <1>2, Assign

(* the place, the function and what is to do. *)
LEMMA GoesWithDoing ==
    ASSUME thread \in [Threads -> Thread], NEW t \in Threads,
           NEW l \in Labels, NEW f \in Funs \cup {NoOne}, NEW S \in SUBSET (Apps \cup Funs),
           GotoFunTodo(t, l, f, S)
    PROVE  Becomes(t, thread[t].op, l, thread[t].app, f, S)
    <1>. DEFINE r == [thread[t] EXCEPT !.at = l, !.fun = f, !.todo = S]
    <1>1. /\ r \in Thread /\ r.op = thread[t].op /\ r.at = l
          /\ r.app = thread[t].app /\ r.fun = f /\ r.todo = S
        BY DEF Thread
    <1>2. thread' = [thread EXCEPT ![t] = r]
        BY DEF Thread, GotoFunTodo
    <1>. HIDE DEF r
    <1>. QED
        BY <1>1, <1>2, Assign

(* Where a thread that begins an operation is. *)
LEMMA Begins ==
    ASSUME IInv, NEW t \in Threads, NEW p \in Ops, NEW l \in Labels,
           NEW a \in Apps \cup {NoOne}, NEW f \in Funs \cup {NoOne}, Begin(t, p, l, a, f)
    PROVE  Becomes(t, p, l, a, f, {})
    <1>. DEFINE r == [op |-> p, at |-> l, app |-> a, fun |-> f, todo |-> {}]
    <1>1. /\ r \in Thread /\ r.op = p /\ r.at = l
          /\ r.app = a /\ r.fun = f /\ r.todo = {}
        BY DEF Thread
    <1>2. thread \in [Threads -> Thread] /\ thread' = [thread EXCEPT ![t] = r]
        BY DEF Begin, IInv, ThreadTypes
    <1>. HIDE DEF r
    <1>. QED
        BY <1>1, <1>2, Assign

(* A thread that returns is idle. *)
LEMMA Returns ==
    ASSUME IInv, NEW t \in Threads, Return(t)
    PROVE  Becomes(t, "idle", "idle", NoOne, NoOne, {})
    <1>1. /\ Idle \in Thread /\ Idle.op = "idle" /\ Idle.at = "idle"
          /\ Idle.app = NoOne /\ Idle.fun = NoOne /\ Idle.todo = {}
        BY DEF Idle, Thread, Ops, Labels
    <1>2. thread \in [Threads -> Thread] /\ thread' = [thread EXCEPT ![t] = Idle]
        BY DEF Return, IInv, ThreadTypes
    <1>. QED
        BY <1>1, <1>2, Assign

(* Where each step leaves its thread. After Connect it goes through the    *)
(* active applications (@shared_task) or looks at its own.                 *)
LEMMA MoveConnect ==
    ASSUME IInv, NEW t \in Threads, Connect(t)
    PROVE  \/ /\ thread[t].op = "shared_task"
              /\ Becomes(t, thread[t].op, "apps", thread[t].app, thread[t].fun, active)
           \/ /\ thread[t].op # "shared_task"
              /\ Becomes(t, thread[t].op, "look", thread[t].app, thread[t].fun, {})
    <1>. DEFINE l == IF thread[t].op = "shared_task" THEN "apps" ELSE "look"
                S == IF thread[t].op = "shared_task" THEN active ELSE {}
    <1>1. l \in Labels /\ S \in SUBSET (Apps \cup Funs)
        BY DEF IInv, TypeOK, Labels
    <1>2. GotoTodo(t, l, S)
        BY DEF Connect, GotoTodo
    <1>3. Becomes(t, thread[t].op, l, thread[t].app, thread[t].fun, S)
        <2>. HIDE DEF l, S
        <2>. QED
            BY <1>1, <1>2, GoesDoing DEF IInv, ThreadTypes
    <1>. QED
        BY <1>3

(* After Look the thread makes the task, promises it or has failed. *)
LEMMA MoveLook ==
    ASSUME IInv, NEW t \in Threads, Look(t)
    PROVE  \/ Becomes(t, thread[t].op, "check", thread[t].app, thread[t].fun, thread[t].todo)
           \/ /\ ~ finalized[thread[t].app]
              /\ Becomes(t, thread[t].op, "promise", thread[t].app, thread[t].fun, thread[t].todo)
           \/ Becomes(t, "idle", "idle", NoOne, NoOne, {})
    <1>1. \/ Goto(t, "check") \/ Return(t)
          \/ Goto(t, "promise") /\ ~ finalized[thread[t].app]
        BY DEF Look
    <1>2. "check" \in Labels /\ "promise" \in Labels
        BY DEF Labels
    <1>3. CASE Goto(t, "check")
        BY <1>2, <1>3, Goes DEF IInv, ThreadTypes
    <1>4. CASE Goto(t, "promise") /\ ~ finalized[thread[t].app]
        BY <1>2, <1>4, Goes DEF IInv, ThreadTypes
    <1>. QED
        BY <1>1, <1>3, <1>4, Returns

(* After Promise it is done. *)
LEMMA MovePromise ==
    ASSUME IInv, NEW t \in Threads, Promise(t)
    PROVE  Becomes(t, "idle", "idle", NoOne, NoOne, {})
    BY Returns DEF Promise

(* After NextApp it is done, makes the task in a finalized application, or skips one. *)
LEMMA MoveNextApp ==
    ASSUME IInv, NEW t \in Threads, NextApp(t)
    PROVE  \/ /\ thread[t].todo = {} /\ mutex' = mutex
              /\ Becomes(t, "idle", "idle", NoOne, NoOne, {})
           \/ \E a \in thread[t].todo :
                 /\ a \in Apps /\ finalized[a] /\ declared' = declared
                 /\ mutex[a] = NoOne /\ mutex' = [mutex EXCEPT ![a] = t]
                 /\ Becomes(t, thread[t].op, "check", a, thread[t].fun, thread[t].todo \ {a})
           \/ \E a \in thread[t].todo :
                 /\ a \in Apps /\ ~ finalized[a] /\ mutex' = mutex /\ declared' = declared
                 /\ Becomes(t, thread[t].op, thread[t].at, thread[t].app, thread[t].fun,
                            thread[t].todo \ {a})
    <1>1. thread \in [Threads -> Thread] /\ "check" \in Labels
        BY DEF IInv, ThreadTypes, Labels
    <1>2. thread[t].op = "shared_task" /\ thread[t].todo \subseteq Apps
        <2>1. thread[t].at = "apps"
            BY Zenon DEF NextApp
        <2>2. Program
            BY DEF IInv
        <2>. QED
            BY <2>1, <2>2, Zenon DEF Program, Allowed
    <1>3. \/ thread[t].todo = {} /\ mutex' = mutex /\ Return(t)
          \/ \E a \in thread[t].todo :
                /\ finalized[a] /\ declared' = declared
                /\ mutex[a] = NoOne /\ mutex' = [mutex EXCEPT ![a] = t]
                /\ GotoAppTodo(t, "check", a, thread[t].todo \ {a})
          \/ \E a \in thread[t].todo :
                /\ ~ finalized[a] /\ mutex' = mutex /\ declared' = declared
                /\ SetTodo(t, thread[t].todo \ {a})
        BY Zenon DEF NextApp, GotoAppTodo, SetTodo
    <1>4. \A a \in thread[t].todo : a \in Apps /\ thread[t].todo \ {a} \in SUBSET (Apps \cup Funs)
        BY <1>2
    <1>. QED
        BY <1>1, <1>3, <1>4, Returns, GoesToDoing, TodoChanges

(* After Check it inserts, or another has. *)
LEMMA MoveCheck ==
    ASSUME IInv, NEW t \in Threads, Check(t)
    PROVE  \/ Becomes(t, thread[t].op, "insert", thread[t].app, thread[t].fun, thread[t].todo)
           \/ /\ Registered(thread[t].app, thread[t].fun)
              /\ Becomes(t, thread[t].op, "made", thread[t].app, thread[t].fun, thread[t].todo)
    <1>1. thread \in [Threads -> Thread] /\ {"insert", "made"} \subseteq Labels
        BY DEF IInv, ThreadTypes, Labels
    <1>2. CASE Registered(thread[t].app, thread[t].fun)
        <2>1. Goto(t, "made")
            BY <1>2 DEF Check, Registered
        <2>. QED
            BY <1>1, <1>2, <2>1, Goes
    <1>3. CASE ~ Registered(thread[t].app, thread[t].fun)
        <2>1. Goto(t, "insert")
            BY <1>3 DEF Check, Registered
        <2>. QED
            BY <1>1, <2>1, Goes
    <1>. QED
        BY <1>2, <1>3

(* After Insert the task is made. *)
LEMMA MoveInsert ==
    ASSUME IInv, NEW t \in Threads, Insert(t)
    PROVE  Becomes(t, thread[t].op, "made", thread[t].app, thread[t].fun, thread[t].todo)
    <1>1. thread \in [Threads -> Thread] /\ "made" \in Labels
        BY DEF IInv, ThreadTypes, Labels
    <1>. QED
        BY <1>1, Goes DEF Insert

(* After Made it goes on with the operation. *)
LEMMA MoveMade ==
    ASSUME IInv, NEW t \in Threads, Made(t)
    PROVE  \/ /\ thread[t].op \in {"task", "own", "now", "use"} /\ mutex' = mutex
              /\ Becomes(t, "idle", "idle", NoOne, NoOne, {})
           \/ /\ thread[t].op = "shared_task" /\ declared' = declared
              /\ mutex' = [mutex EXCEPT ![thread[t].app] = NoOne]
              /\ Becomes(t, thread[t].op, "apps", NoOne, thread[t].fun, thread[t].todo)
           \/ /\ thread[t].op = "finalize" /\ declared' = declared /\ mutex' = mutex
              /\ Becomes(t, thread[t].op, "announce", thread[t].app, NoOne, thread[t].todo)
           \/ /\ thread[t].op = "drain" /\ declared' = declared /\ mutex' = mutex
              /\ Becomes(t, thread[t].op, "drain", thread[t].app, NoOne, thread[t].todo)
    <1>1. thread \in [Threads -> Thread] /\ {"apps", "announce", "drain"} \subseteq Labels
        BY DEF IInv, ThreadTypes, Labels
    <1>2. CASE Return(t) /\ thread[t].op \in {"task", "own", "now", "use"} /\ mutex' = mutex
        BY <1>2, Returns
    <1>3. CASE thread[t].op = "shared_task"
        <2>1. /\ GotoApp(t, "apps", NoOne) /\ declared' = declared
              /\ mutex' = [mutex EXCEPT ![thread[t].app] = NoOne]
            BY <1>3 DEF Made, GotoApp
        <2>. QED
            BY <1>1, <1>3, <2>1, GoesTo
    <1>4. CASE thread[t].op = "finalize"
        <2>1. GotoFun(t, "announce", NoOne) /\ mutex' = mutex /\ declared' = declared
            BY <1>4 DEF Made, GotoFun
        <2>. QED
            BY <1>1, <1>4, <2>1, GoesWith
    <1>5. CASE thread[t].op = "drain"
        <2>1. GotoFun(t, "drain", NoOne) /\ mutex' = mutex /\ declared' = declared
            BY <1>5 DEF Made, GotoFun
        <2>. QED
            BY <1>1, <1>5, <2>1, GoesWith
    <1>. QED
        BY <1>2, <1>3, <1>4, <1>5 DEF Made

(* After Copy it has every function that was connected to bring. *)
LEMMA MoveCopy ==
    ASSUME IInv, NEW t \in Threads, Copy(t)
    PROVE  Becomes(t, thread[t].op, "announce", thread[t].app, thread[t].fun, finalizers)
    <1>1. thread \in [Threads -> Thread] /\ "announce" \in Labels
        BY DEF IInv, ThreadTypes, Labels
    <1>2. finalizers \in SUBSET (Apps \cup Funs)
        BY DEF IInv, TypeOK
    <1>3. GotoTodo(t, "announce", finalizers)
        BY DEF Copy, GotoTodo
    <1>. QED
        BY <1>1, <1>2, <1>3, GoesDoing

(* After Announce it drains, or makes one of the functions. *)
LEMMA MoveAnnounce ==
    ASSUME IInv, NEW t \in Threads, Announce(t)
    PROVE  \/ /\ thread[t].todo = {}
              /\ Becomes(t, "drain", "drain", thread[t].app, thread[t].fun, thread[t].todo)
           \/ \E f \in thread[t].todo :
                 /\ f \in Funs
                 /\ Becomes(t, thread[t].op, "check", thread[t].app, f, thread[t].todo \ {f})
    <1>1. thread \in [Threads -> Thread] /\ {"check", "drain"} \subseteq Labels /\ "drain" \in Ops
        BY DEF IInv, ThreadTypes, Labels, Ops
    <1>2. thread[t].op = "finalize" /\ thread[t].todo \subseteq Funs
        <2>1. thread[t].at = "announce"
            BY Zenon DEF Announce
        <2>2. Program
            BY DEF IInv
        <2>. QED
            BY <2>1, <2>2, Zenon DEF Program, Allowed
    <1>3. \/ thread[t].todo = {} /\ GotoOp(t, "drain", "drain")
          \/ \E f \in thread[t].todo : GotoFunTodo(t, "check", f, thread[t].todo \ {f})
        BY Zenon DEF Announce, GotoOp, GotoFunTodo
    <1>4. \A f \in thread[t].todo : f \in Funs /\ thread[t].todo \ {f} \in SUBSET (Apps \cup Funs)
        BY <1>2
    <1>. QED
        BY <1>1, <1>3, <1>4, GoesAs, GoesWithDoing

(* After Drain it has finished, has skipped a promise, or makes one. *)
LEMMA MoveDrain ==
    ASSUME IInv, NEW t \in Threads, Drain(t)
    PROVE  \/ /\ mutex' = [mutex EXCEPT ![thread[t].app] = NoOne]
              /\ Becomes(t, "idle", "idle", NoOne, NoOne, {})
           \/ thread' = thread /\ mutex' = mutex
           \/ /\ mutex' = mutex
              /\ \E f \in Funs :
                    Becomes(t, thread[t].op, "check", thread[t].app, f, thread[t].todo)
    <1>1. thread \in [Threads -> Thread] /\ "check" \in Labels
        BY DEF IInv, ThreadTypes, Labels
    <1>2. thread[t].app \in Apps
        BY Zenon DEF IInv, Program, Allowed, Drain
    <1>. DEFINE f == Head(proxies[thread[t].app])
    <1>3. proxies[thread[t].app] # <<>> => f \in Funs
        BY <1>2 DEF IInv, TypeOK
    <1>4. ASSUME f \in Funs, GotoFun(t, "check", f)
          PROVE  \E g \in Funs :
                    Becomes(t, thread[t].op, "check", thread[t].app, g, thread[t].todo)
        <2>. HIDE DEF f
        <2>. QED
            BY <1>1, <1>4, GoesWith
    <1>. QED
        BY <1>3, <1>4, Returns DEF Drain, GotoFun

(* What the steps ask for, and what they do to the rest of the state. *)
LEMMA Frames ==
    ASSUME NEW t \in Threads
    PROVE  /\ Connect(t) =>
                 /\ thread[t].at = "connect" /\ finalizers' = finalizers \cup {thread[t].fun}
                 /\ UNCHANGED <<active, finalized, mutex, tasks, proxies, declared>>
           /\ Look(t) =>
                 /\ thread[t].at = "look"
                 /\ UNCHANGED <<active, finalizers, finalized, mutex, tasks, proxies, declared>>
           /\ Promise(t) =>
                 /\ thread[t].at = "promise" /\ Returned(t)
                 /\ proxies' = [proxies EXCEPT ![thread[t].app] = Append(@, thread[t].fun)]
                 /\ UNCHANGED <<active, finalizers, finalized, mutex, tasks>>
           /\ NextApp(t) =>
                 /\ thread[t].at = "apps"
                 /\ declared' = declared \/ Returned(t)
                 /\ UNCHANGED <<active, finalizers, finalized, tasks, proxies>>
           /\ Check(t) =>
                 /\ thread[t].at = "check"
                 /\ UNCHANGED <<active, finalizers, finalized, mutex, tasks, proxies, declared>>
           /\ Insert(t) =>
                 /\ thread[t].at = "insert"
                 /\ tasks' = [tasks EXCEPT ![thread[t].app][Name(thread[t].fun)] = thread[t].fun]
                 /\ UNCHANGED <<active, finalizers, finalized, mutex, proxies, declared>>
           /\ Made(t) =>
                 /\ thread[t].at = "made"
                 /\ declared' = declared \/ Returned(t)
                 /\ UNCHANGED <<active, finalizers, finalized, tasks, proxies>>
           /\ Copy(t) =>
                 /\ thread[t].at = "copy"
                 /\ UNCHANGED <<active, finalizers, finalized, mutex, tasks, proxies, declared>>
           /\ Announce(t) =>
                 /\ thread[t].at = "announce"
                 /\ UNCHANGED <<active, finalizers, finalized, mutex, tasks, proxies, declared>>
           /\ Drain(t) =>
                 /\ thread[t].at = "drain"
                 /\ \/ proxies' = proxies
                    \/ /\ proxies[thread[t].app] # <<>>
                       /\ proxies' = [proxies EXCEPT ![thread[t].app] = Tail(@)]
                 /\ UNCHANGED <<active, finalizers, finalized, tasks, declared>>
    <1>1. Connect(t) =>
           /\ thread[t].at = "connect" /\ finalizers' = finalizers \cup {thread[t].fun}
           /\ UNCHANGED <<active, finalized, mutex, tasks, proxies, declared>>
        BY Zenon DEF Connect
    <1>2. Look(t) =>
           /\ thread[t].at = "look"
           /\ UNCHANGED <<active, finalizers, finalized, mutex, tasks, proxies, declared>>
        BY Zenon DEF Look
    <1>10. Promise(t) =>
           /\ thread[t].at = "promise" /\ Returned(t)
           /\ proxies' = [proxies EXCEPT ![thread[t].app] = Append(@, thread[t].fun)]
           /\ UNCHANGED <<active, finalizers, finalized, mutex, tasks>>
        BY Zenon DEF Promise
    <1>3. NextApp(t) =>
           /\ thread[t].at = "apps"
           /\ declared' = declared \/ Returned(t)
           /\ UNCHANGED <<active, finalizers, finalized, tasks, proxies>>
        BY Zenon DEF NextApp
    <1>4. Check(t) =>
           /\ thread[t].at = "check"
           /\ UNCHANGED <<active, finalizers, finalized, mutex, tasks, proxies, declared>>
        BY Zenon DEF Check
    <1>5. Insert(t) =>
           /\ thread[t].at = "insert"
           /\ tasks' = [tasks EXCEPT ![thread[t].app][Name(thread[t].fun)] = thread[t].fun]
           /\ UNCHANGED <<active, finalizers, finalized, mutex, proxies, declared>>
        BY Zenon DEF Insert
    <1>6. Made(t) =>
           /\ thread[t].at = "made"
           /\ declared' = declared \/ Returned(t)
           /\ UNCHANGED <<active, finalizers, finalized, tasks, proxies>>
        BY Zenon DEF Made
    <1>7. Copy(t) =>
           /\ thread[t].at = "copy"
           /\ UNCHANGED <<active, finalizers, finalized, mutex, tasks, proxies, declared>>
        BY Zenon DEF Copy
    <1>8. Announce(t) =>
           /\ thread[t].at = "announce"
           /\ UNCHANGED <<active, finalizers, finalized, mutex, tasks, proxies, declared>>
        BY Zenon DEF Announce
    <1>9. Drain(t) =>
           /\ thread[t].at = "drain"
           /\ \/ proxies' = proxies
              \/ /\ proxies[thread[t].app] # <<>>
                 /\ proxies' = [proxies EXCEPT ![thread[t].app] = Tail(@)]
           /\ UNCHANGED <<active, finalizers, finalized, tasks, declared>>
        BY Zenon DEF Drain
    <1>. QED
        BY <1>1, <1>2, <1>3, <1>4, <1>5, <1>6, <1>7, <1>8, <1>9, <1>10, Zenon

(* Where a thread is that begins @app.task, *)
LEMMA MoveTask ==
    ASSUME IInv, NEW t \in Threads, NEW a \in Apps, NEW f \in Funs,
           NEW how \in {"task", "own", "now"}, Task(t, a, f, how)
    PROVE  /\ thread[t].op = "idle" /\ thread[t].at = "idle"
           /\ Becomes(t, how, IF how = "own" THEN "look" ELSE "connect", a, f, {})
           /\ UNCHANGED <<active, finalizers, finalized, mutex, tasks, proxies, declared>>
    <1>1. Begin(t, how, IF how = "own" THEN "look" ELSE "connect", a, f)
        BY Zenon DEF Task
    <1>2. Becomes(t, how, IF how = "own" THEN "look" ELSE "connect", a, f, {})
        BY <1>1, Begins DEF Ops, Labels
    <1>3. thread[t].op = "idle" /\ thread[t].at = "idle"
        BY <1>1 DEF Begin, Idle
    <1>. QED
        BY <1>2, <1>3, Zenon DEF Task

(* @shared_task, *)
LEMMA MoveSharedTask ==
    ASSUME IInv, NEW t \in Threads, NEW f \in Funs, SharedTask(t, f)
    PROVE  /\ thread[t].op = "idle" /\ thread[t].at = "idle"
           /\ Becomes(t, "shared_task", "connect", NoOne, f, {})
           /\ UNCHANGED <<active, finalizers, finalized, mutex, tasks, proxies, declared>>
    <1>1. Begin(t, "shared_task", "connect", NoOne, f)
        BY Zenon DEF SharedTask
    <1>2. Becomes(t, "shared_task", "connect", NoOne, f, {})
        BY <1>1, Begins DEF Ops, Labels
    <1>3. thread[t].op = "idle" /\ thread[t].at = "idle"
        BY <1>1 DEF Begin, Idle
    <1>. QED
        BY <1>2, <1>3, Zenon DEF SharedTask

(* the use of a promise, *)
LEMMA MoveUse ==
    ASSUME IInv, NEW t \in Threads, NEW a \in Apps, NEW f \in Funs, Use(t, a, f)
    PROVE  /\ thread[t].op = "idle" /\ thread[t].at = "idle"
           /\ Becomes(t, "use", "check", a, f, {})
           /\ UNCHANGED <<active, finalizers, finalized, mutex, tasks, proxies, declared>>
    <1>1. Begin(t, "use", "check", a, f)
        BY Zenon DEF Use
    <1>2. Becomes(t, "use", "check", a, f, {})
        BY <1>1, Begins DEF Ops, Labels
    <1>3. thread[t].op = "idle" /\ thread[t].at = "idle"
        BY <1>1 DEF Begin, Idle
    <1>. QED
        BY <1>2, <1>3, Zenon DEF Use

(* app.finalize, which takes the mutex and sets `finalized'. *)
LEMMA MoveFinalize ==
    ASSUME IInv, NEW t \in Threads, NEW a \in Apps, NEW auto \in BOOLEAN, Finalize(t, a, auto)
    PROVE  /\ thread[t].op = "idle" /\ thread[t].at = "idle"
           /\ Becomes(t, "finalize", "copy", a, NoOne, {})
           /\ UNCHANGED <<active, finalizers, tasks, proxies, declared>>
           /\ mutex[a] = NoOne /\ mutex' = [mutex EXCEPT ![a] = t]
           /\ ~ finalized[a] /\ finalized' = [finalized EXCEPT ![a] = TRUE]
    <1>1. Begin(t, "finalize", "copy", a, NoOne)
        BY Zenon DEF Finalize
    <1>2. Becomes(t, "finalize", "copy", a, NoOne, {})
        BY <1>1, Begins DEF Ops, Labels
    <1>3. thread[t].op = "idle" /\ thread[t].at = "idle"
        BY <1>1 DEF Begin, Idle
    <1>. QED
        BY <1>2, <1>3, Zenon DEF Finalize

(* A step of t keeps the program order if the record it makes is allowed. *)
LEMMA ProgramMove ==
    ASSUME IInv, NEW t \in Threads, NEW p, NEW l, NEW a, NEW f, NEW S,
           Becomes(t, p, l, a, f, S), finalizers \subseteq finalizers', Allowed(p, l, a, f, S)'
    PROVE  Program'
    <1>. SUFFICES ASSUME NEW u \in Threads
                  PROVE  Allowed(thread[u].op, thread[u].at, thread[u].app, thread[u].fun,
                                 thread[u].todo)'
        BY DEF Program
    <1>1. CASE u = t
        BY <1>1 DEF Becomes
    <1>2. CASE u # t
        <2>1. thread'[u] = thread[u]
            BY <1>2 DEF Becomes
        <2>2. Allowed(thread[u].op, thread[u].at, thread[u].app, thread[u].fun, thread[u].todo)
            BY DEF IInv, Program
        <2>. QED
            BY <2>1, <2>2 DEF Allowed
    <1>. QED
        BY <1>1, <1>2

(* ... and keeps the mutexes held if it takes none from another thread.   *)
LEMMA LockedMove ==
    ASSUME IInv, NEW t \in Threads, NEW p, NEW l, NEW a, NEW f, NEW S,
           Becomes(t, p, l, a, f, S),
           \A b \in Apps : mutex[b] \in Threads \ {t} => mutex'[b] = mutex[b],
           HoldsMutex(p, l) => a \in Apps /\ mutex'[a] = t
    PROVE  Locked'
    <1>. SUFFICES ASSUME NEW u \in Threads, HoldsMutex(thread'[u].op, thread'[u].at)
                  PROVE  thread'[u].app \in Apps /\ mutex'[thread'[u].app] = u
        BY DEF Locked, HoldsMutex
    <1>1. CASE u = t
        BY <1>1 DEF Becomes
    <1>2. CASE u # t
        BY <1>2 DEF Becomes, IInv, Locked
    <1>. QED
        BY <1>1, <1>2

(* ... and keeps what was made registered. *)
LEMMA MadeMove ==
    ASSUME IInv, NEW t \in Threads, NEW p, NEW l, NEW a, NEW f, NEW S,
           Becomes(t, p, l, a, f, S),
           \A b \in Apps, g \in Funs : Registered(b, g) => Registered(b, g)',
           l = "made" => Registered(a, f)'
    PROVE  MadeInv'
    <1>. SUFFICES ASSUME NEW u \in Threads, thread'[u].at = "made"
                  PROVE  Registered(thread[u].app, thread[u].fun)'
        BY DEF MadeInv
    <1>1. CASE u = t
        BY <1>1 DEF Becomes, Registered
    <1>2. CASE u # t
        <2>1. thread'[u] = thread[u]
            BY <1>2 DEF Becomes
        <2>2. thread[u].app \in Apps /\ thread[u].fun \in Funs
            BY <2>1 DEF IInv, Program, Allowed, Making
        <2>. QED
            BY <2>1, <2>2 DEF IInv, MadeInv, Registered
    <1>. QED
        BY <1>1, <1>2

(* ... and keeps a function on its way if it goes on bringing it. *)
LEMMA DoneMove ==
    ASSUME IInv, NEW t \in Threads, NEW p, NEW l, NEW a, NEW f, NEW S,
           Becomes(t, p, l, a, f, S), NEW b \in Apps, NEW g \in Funs, Done(b, g),
           Registered(b, g) => Registered(b, g)',
           Brings(thread[t].op, thread[t].at, thread[t].app, thread[t].fun, thread[t].todo, b, g)
             => Brings(p, l, a, f, S, b, g) \/ Registered(b, g)'
    PROVE  Done(b, g)'
    <1>1. CASE Registered(b, g)
        BY <1>1 DEF Done
    <1>2. CASE Coming(b, g)
        <2>1. PICK u \in Threads : Brings(thread[u].op, thread[u].at, thread[u].app,
                                          thread[u].fun, thread[u].todo, b, g)
            BY <1>2 DEF Coming
        <2>2. CASE u = t
            BY <2>1, <2>2 DEF Becomes, Done, Coming
        <2>3. CASE u # t
            <3>1. thread'[u] = thread[u]
                BY <2>3 DEF Becomes
            <3>. QED
                BY <2>1, <3>1 DEF Done, Coming
        <2>. QED
            BY <2>2, <2>3
    <1>. QED
        BY <1>1, <1>2 DEF Done

(* What is registered stays registered: a task may replace another. *)
LEMMA RegisteredStep ==
    ASSUME AppConstants, IInv, [Next]_vars
    PROVE  \A b \in Apps, g \in Funs : Registered(b, g) => Registered(b, g)'
    <1>1. ASSUME NEW a \in Apps, NewApp(a)
          PROVE  \A b \in Apps, g \in Funs : Registered(b, g) => Registered(b, g)'
        BY <1>1 DEF NewApp, Registered
    <1>2. ASSUME NEW a \in Apps, Close(a)
          PROVE  \A b \in Apps, g \in Funs : Registered(b, g) => Registered(b, g)'
        BY <1>2 DEF Close, Registered
    <1>3. ASSUME NEW t \in Threads, NEW a \in Apps, NEW f \in Funs,
                 NEW how \in {"task", "own", "now"}, Task(t, a, f, how)
          PROVE  \A b \in Apps, g \in Funs : Registered(b, g) => Registered(b, g)'
        BY <1>3, MoveTask DEF Registered
    <1>4. ASSUME NEW t \in Threads, NEW f \in Funs, SharedTask(t, f)
          PROVE  \A b \in Apps, g \in Funs : Registered(b, g) => Registered(b, g)'
        BY <1>4, MoveSharedTask DEF Registered
    <1>5. ASSUME NEW t \in Threads, NEW a \in Apps, NEW f \in Funs, Use(t, a, f)
          PROVE  \A b \in Apps, g \in Funs : Registered(b, g) => Registered(b, g)'
        BY <1>5, MoveUse DEF Registered
    <1>6. ASSUME NEW t \in Threads, NEW a \in Apps, NEW auto \in BOOLEAN, Finalize(t, a, auto)
          PROVE  \A b \in Apps, g \in Funs : Registered(b, g) => Registered(b, g)'
        BY <1>6, MoveFinalize DEF Registered
    <1>7. ASSUME NEW t \in Threads, NEW a \in Apps, NEW f \in Funs, RegisterTask(t, a, f)
          PROVE  \A b \in Apps, g \in Funs : Registered(b, g) => Registered(b, g)'
        BY <1>7 DEF RegisterTask, Registered, IInv, TypeOK, AppConstants, Names
    <1>8. ASSUME NEW t \in Threads, Insert(t)
          PROVE  \A b \in Apps, g \in Funs : Registered(b, g) => Registered(b, g)'
        <2>1. /\ thread[t].at = "insert"
              /\ tasks' = [tasks EXCEPT ![thread[t].app][Name(thread[t].fun)] = thread[t].fun]
            BY <1>8, Frames, Zenon
        <2>2. thread[t].app \in Apps /\ thread[t].fun \in Funs
            BY <2>1 DEF IInv, Program, Allowed, Making
        <2>. QED
            BY <2>1, <2>2 DEF Registered, IInv, TypeOK, AppConstants, Names
    <1>9. ASSUME NEW t \in Threads, 
              Connect(t) \/ Look(t) \/ Promise(t) \/ NextApp(t) \/ Check(t) \/
              Made(t) \/ Copy(t) \/ Announce(t) \/ Drain(t)
          PROVE  \A b \in Apps, g \in Funs : Registered(b, g) => Registered(b, g)'
        BY <1>9, Frames DEF Registered
    <1>10. CASE UNCHANGED vars
        BY <1>10 DEF vars, Registered
    <1>. QED
        BY <1>1, <1>2, <1>3, <1>4, <1>5, <1>6, <1>7, <1>8, <1>9, <1>10 DEF Next, Step

(* Every step keeps the threads in the order of the program. *)
LEMMA ProgramStep ==
    ASSUME AppConstants, IInv, [Next]_vars
    PROVE  Program'
    <1>1. ASSUME NEW a \in Apps, NewApp(a) PROVE Program'
        BY <1>1 DEF NewApp, IInv, Program, Allowed
    <1>2. ASSUME NEW a \in Apps, Close(a) PROVE Program'
        BY <1>2 DEF Close, IInv, Program, Allowed
    <1>3. ASSUME NEW t \in Threads, NEW a \in Apps, NEW f \in Funs,
                 NEW how \in {"task", "own", "now"}, Task(t, a, f, how)
          PROVE  Program'
        BY <1>3, MoveTask, ProgramMove DEF Allowed, Making
    <1>4. ASSUME NEW t \in Threads, NEW f \in Funs, SharedTask(t, f) PROVE Program'
        BY <1>4, MoveSharedTask, ProgramMove DEF Allowed, Making
    <1>5. ASSUME NEW t \in Threads, NEW a \in Apps, NEW f \in Funs, Use(t, a, f) PROVE Program'
        BY <1>5, MoveUse, ProgramMove DEF Allowed, Making
    <1>6. ASSUME NEW t \in Threads, NEW a \in Apps, NEW auto \in BOOLEAN, Finalize(t, a, auto)
          PROVE  Program'
        BY <1>6, MoveFinalize, ProgramMove DEF Allowed, Making
    <1>7. ASSUME NEW t \in Threads, NEW a \in Apps, NEW f \in Funs, RegisterTask(t, a, f)
          PROVE  Program'
        BY <1>7 DEF RegisterTask, IInv, Program, Allowed
    <1>8. ASSUME NEW t \in Threads, Connect(t) PROVE Program'
        <2>1. thread[t].at = "connect" /\ finalizers' = finalizers \cup {thread[t].fun}
            BY <1>8, Frames, Zenon
        <2>2. Allowed(thread[t].op, thread[t].at, thread[t].app, thread[t].fun, thread[t].todo)
            BY DEF IInv, Program
        <2>3. active \subseteq Apps /\ finalizers \subseteq Funs
            BY DEF IInv, TypeOK
        <2>. QED
            BY <1>8, MoveConnect, <2>1, <2>2, <2>3, ProgramMove DEF Allowed, Making
    <1>9. ASSUME NEW t \in Threads, Look(t) PROVE Program'
        <2>1. thread[t].at = "look" /\ finalizers' = finalizers
            BY <1>9, Frames, Zenon
        <2>2. Allowed(thread[t].op, thread[t].at, thread[t].app, thread[t].fun, thread[t].todo)
            BY DEF IInv, Program
        <2>. QED
            BY <1>9, MoveLook, <2>1, <2>2, ProgramMove DEF Allowed, Making
    <1>18. ASSUME NEW t \in Threads, Promise(t) PROVE Program'
        <2>1. finalizers' = finalizers
            BY <1>18, Frames, Zenon
        <2>. QED
            BY <1>18, MovePromise, <2>1, ProgramMove DEF Allowed, Making
    <1>10. ASSUME NEW t \in Threads, NextApp(t) PROVE Program'
        <2>1. thread[t].at = "apps" /\ finalizers' = finalizers
            BY <1>10, Frames, Zenon
        <2>2. Allowed(thread[t].op, thread[t].at, thread[t].app, thread[t].fun, thread[t].todo)
            BY DEF IInv, Program
        <2>4. CASE Becomes(t, "idle", "idle", NoOne, NoOne, {})
            BY <2>4, <2>1, <2>2, ProgramMove DEF Allowed, Making
        <2>5. ASSUME NEW a \in thread[t].todo, a \in Apps,
                     Becomes(t, thread[t].op, "check", a, thread[t].fun, thread[t].todo \ {a})
              PROVE  Program'
            BY <2>5, <2>1, <2>2, ProgramMove DEF Allowed, Making
        <2>6. ASSUME NEW a \in thread[t].todo,
                     Becomes(t, thread[t].op, thread[t].at, thread[t].app, thread[t].fun,
                             thread[t].todo \ {a})
              PROVE  Program'
            BY <2>6, <2>1, <2>2, ProgramMove DEF Allowed, Making
        <2>. QED
            BY <1>10, <2>4, <2>5, <2>6, MoveNextApp
    <1>11. ASSUME NEW t \in Threads, Check(t) PROVE Program'
        <2>1. thread[t].at = "check" /\ finalizers' = finalizers
            BY <1>11, Frames, Zenon
        <2>2. Allowed(thread[t].op, thread[t].at, thread[t].app, thread[t].fun, thread[t].todo)
            BY DEF IInv, Program
        <2>. QED
            BY <1>11, MoveCheck, <2>1, <2>2, ProgramMove DEF Allowed, Making
    <1>12. ASSUME NEW t \in Threads, Insert(t) PROVE Program'
        <2>1. thread[t].at = "insert" /\ finalizers' = finalizers
            BY <1>12, Frames, Zenon
        <2>2. Allowed(thread[t].op, thread[t].at, thread[t].app, thread[t].fun, thread[t].todo)
            BY DEF IInv, Program
        <2>. QED
            BY <1>12, MoveInsert, <2>1, <2>2, ProgramMove DEF Allowed, Making
    <1>13. ASSUME NEW t \in Threads, Made(t) PROVE Program'
        <2>1. thread[t].at = "made" /\ finalizers' = finalizers
            BY <1>13, Frames, Zenon
        <2>2. Allowed(thread[t].op, thread[t].at, thread[t].app, thread[t].fun, thread[t].todo)
            BY DEF IInv, Program
        <2>. QED
            BY <1>13, MoveMade, <2>1, <2>2, ProgramMove DEF Allowed, Making
    <1>14. ASSUME NEW t \in Threads, Copy(t) PROVE Program'
        <2>1. thread[t].at = "copy" /\ finalizers' = finalizers
            BY <1>14, Frames, Zenon
        <2>2. Allowed(thread[t].op, thread[t].at, thread[t].app, thread[t].fun, thread[t].todo)
            BY DEF IInv, Program
        <2>3. active \subseteq Apps /\ finalizers \subseteq Funs
            BY DEF IInv, TypeOK
        <2>. QED
            BY <1>14, MoveCopy, <2>1, <2>2, <2>3, ProgramMove DEF Allowed, Making
    <1>15. ASSUME NEW t \in Threads, Announce(t) PROVE Program'
        <2>1. thread[t].at = "announce" /\ finalizers' = finalizers
            BY <1>15, Frames, Zenon
        <2>2. Allowed(thread[t].op, thread[t].at, thread[t].app, thread[t].fun, thread[t].todo)
            BY DEF IInv, Program
        <2>4. CASE /\ thread[t].todo = {}
                   /\ Becomes(t, "drain", "drain", thread[t].app, thread[t].fun, thread[t].todo)
            BY <2>4, <2>1, <2>2, ProgramMove DEF Allowed, Making
        <2>5. ASSUME NEW f \in thread[t].todo, f \in Funs,
                     Becomes(t, thread[t].op, "check", thread[t].app, f, thread[t].todo \ {f})
              PROVE  Program'
            BY <2>5, <2>1, <2>2, ProgramMove DEF Allowed, Making
        <2>. QED
            BY <1>15, <2>4, <2>5, MoveAnnounce
    <1>16. ASSUME NEW t \in Threads, Drain(t) PROVE Program'
        <2>1. thread[t].at = "drain" /\ finalizers' = finalizers
            BY <1>16, Frames, Zenon
        <2>2. Allowed(thread[t].op, thread[t].at, thread[t].app, thread[t].fun, thread[t].todo)
            BY DEF IInv, Program
        <2>3. CASE thread' = thread
            BY <2>1, <2>3 DEF IInv, Program, Allowed
        <2>. QED
            BY <1>16, MoveDrain, <2>1, <2>2, <2>3, ProgramMove DEF Allowed, Making
    <1>17. CASE UNCHANGED vars
        BY <1>17 DEF vars, IInv, Program, Allowed
    <1>. QED
        BY <1>1, <1>2, <1>3, <1>4, <1>5, <1>6, <1>7, <1>8, <1>9, <1>10, <1>11, <1>12,
           <1>13, <1>14, <1>15, <1>16, <1>17, <1>18 DEF Next, Step

(* Every step leaves the mutexes with the threads that took them. *)
LEMMA LockedStep ==
    ASSUME AppConstants, IInv, [Next]_vars
    PROVE  Locked'
    <1>1. ASSUME NEW a \in Apps, NewApp(a) PROVE Locked'
        BY <1>1 DEF NewApp, IInv, Locked
    <1>2. ASSUME NEW a \in Apps, Close(a) PROVE Locked'
        BY <1>2 DEF Close, IInv, Locked
    <1>3. ASSUME NEW t \in Threads, NEW a \in Apps, NEW f \in Funs,
                 NEW how \in {"task", "own", "now"}, Task(t, a, f, how)
          PROVE  Locked'
        BY <1>3, MoveTask, LockedMove DEF HoldsMutex, Making
    <1>4. ASSUME NEW t \in Threads, NEW f \in Funs, SharedTask(t, f) PROVE Locked'
        BY <1>4, MoveSharedTask, LockedMove DEF HoldsMutex, Making
    <1>5. ASSUME NEW t \in Threads, NEW a \in Apps, NEW f \in Funs, Use(t, a, f) PROVE Locked'
        BY <1>5, MoveUse, LockedMove DEF HoldsMutex, Making
    <1>6. ASSUME NEW t \in Threads, NEW a \in Apps, NEW auto \in BOOLEAN, Finalize(t, a, auto)
          PROVE  Locked'
        <2>1. \A b \in Apps : mutex[b] \in Threads \ {t} => mutex'[b] = mutex[b]
            BY <1>6, MoveFinalize DEF IInv, TypeOK, AppConstants
        <2>2. mutex'[a] = t
            BY <1>6, MoveFinalize DEF IInv, TypeOK
        <2>. QED
            BY <1>6, <2>1, <2>2, MoveFinalize, LockedMove
    <1>7. ASSUME NEW t \in Threads, NEW a \in Apps, NEW f \in Funs, RegisterTask(t, a, f)
          PROVE  Locked'
        BY <1>7 DEF RegisterTask, IInv, Locked
    <1>8. ASSUME NEW t \in Threads, Connect(t) PROVE Locked'
        <2>1. thread[t].at = "connect" /\ mutex' = mutex
            BY <1>8, Frames, Zenon
        <2>2. Allowed(thread[t].op, thread[t].at, thread[t].app, thread[t].fun, thread[t].todo)
            BY DEF IInv, Program
        <2>3. HoldsMutex(thread[t].op, thread[t].at) =>
                 thread[t].app \in Apps /\ mutex[thread[t].app] = t
            BY DEF IInv, Locked
        <2>. QED
            BY <1>8, <2>1, <2>2, <2>3, MoveConnect, LockedMove DEF Allowed, HoldsMutex, Making
    <1>9. ASSUME NEW t \in Threads, Look(t) PROVE Locked'
        <2>1. thread[t].at = "look" /\ mutex' = mutex
            BY <1>9, Frames, Zenon
        <2>2. Allowed(thread[t].op, thread[t].at, thread[t].app, thread[t].fun, thread[t].todo)
            BY DEF IInv, Program
        <2>3. HoldsMutex(thread[t].op, thread[t].at) =>
                 thread[t].app \in Apps /\ mutex[thread[t].app] = t
            BY DEF IInv, Locked
        <2>. QED
            BY <1>9, <2>1, <2>2, <2>3, MoveLook, LockedMove DEF Allowed, HoldsMutex, Making
    <1>18. ASSUME NEW t \in Threads, Promise(t) PROVE Locked'
        <2>1. mutex' = mutex
            BY <1>18, Frames, Zenon
        <2>. QED
            BY <1>18, <2>1, MovePromise, LockedMove DEF HoldsMutex
    <1>10. ASSUME NEW t \in Threads, NextApp(t) PROVE Locked'
        <2>1. thread[t].at = "apps"
            BY <1>10, Frames, Zenon
        <2>2. CASE mutex' = mutex /\ Becomes(t, "idle", "idle", NoOne, NoOne, {})
            BY <2>2, LockedMove DEF HoldsMutex
        <2>3. ASSUME NEW a \in Apps, mutex[a] = NoOne, mutex' = [mutex EXCEPT ![a] = t],
                     Becomes(t, thread[t].op, "check", a, thread[t].fun, thread[t].todo \ {a})
              PROVE  Locked'
            <3>1. mutex'[a] = t /\ \A b \in Apps : mutex[b] \in Threads \ {t} => mutex'[b] = mutex[b]
                BY <2>3 DEF IInv, TypeOK, AppConstants
            <3>. QED
                BY <2>3, <3>1, LockedMove
        <2>4. ASSUME NEW a \in Apps, mutex' = mutex,
                     Becomes(t, thread[t].op, thread[t].at, thread[t].app, thread[t].fun,
                             thread[t].todo \ {a})
              PROVE  Locked'
            BY <2>1, <2>4, LockedMove DEF IInv, Locked
        <2>. QED
            BY <1>10, <2>2, <2>3, <2>4, MoveNextApp
    <1>11. ASSUME NEW t \in Threads, Check(t) PROVE Locked'
        <2>1. thread[t].at = "check" /\ mutex' = mutex
            BY <1>11, Frames, Zenon
        <2>2. Allowed(thread[t].op, thread[t].at, thread[t].app, thread[t].fun, thread[t].todo)
            BY DEF IInv, Program
        <2>3. HoldsMutex(thread[t].op, thread[t].at) =>
                 thread[t].app \in Apps /\ mutex[thread[t].app] = t
            BY DEF IInv, Locked
        <2>. QED
            BY <1>11, <2>1, <2>2, <2>3, MoveCheck, LockedMove DEF Allowed, HoldsMutex, Making
    <1>12. ASSUME NEW t \in Threads, Insert(t) PROVE Locked'
        <2>1. thread[t].at = "insert" /\ mutex' = mutex
            BY <1>12, Frames, Zenon
        <2>2. Allowed(thread[t].op, thread[t].at, thread[t].app, thread[t].fun, thread[t].todo)
            BY DEF IInv, Program
        <2>3. HoldsMutex(thread[t].op, thread[t].at) =>
                 thread[t].app \in Apps /\ mutex[thread[t].app] = t
            BY DEF IInv, Locked
        <2>. QED
            BY <1>12, <2>1, <2>2, <2>3, MoveInsert, LockedMove DEF Allowed, HoldsMutex, Making
    <1>13. ASSUME NEW t \in Threads, Made(t) PROVE Locked'
        <2>1. thread[t].at = "made" /\ thread[t].app \in Apps
            BY <1>13, Frames DEF IInv, Program, Allowed, Making
        <2>2. HoldsMutex(thread[t].op, thread[t].at) => mutex[thread[t].app] = t
            BY DEF IInv, Locked
        <2>3. CASE mutex' = mutex
            BY <1>13, <2>1, <2>2, <2>3, MoveMade, LockedMove DEF HoldsMutex, Making
        <2>4. CASE /\ thread[t].op = "shared_task"
                   /\ mutex' = [mutex EXCEPT ![thread[t].app] = NoOne]
                   /\ Becomes(t, thread[t].op, "apps", NoOne, thread[t].fun, thread[t].todo)
            <3>1. \A b \in Apps : mutex[b] \in Threads \ {t} => mutex'[b] = mutex[b]
                BY <2>1, <2>2, <2>4 DEF IInv, TypeOK, HoldsMutex, Making
            <3>. QED
                BY <2>4, <3>1, LockedMove DEF HoldsMutex, Making
        <2>. QED
            BY <1>13, <2>3, <2>4, MoveMade
    <1>14. ASSUME NEW t \in Threads, Copy(t) PROVE Locked'
        <2>1. thread[t].at = "copy" /\ mutex' = mutex
            BY <1>14, Frames, Zenon
        <2>2. Allowed(thread[t].op, thread[t].at, thread[t].app, thread[t].fun, thread[t].todo)
            BY DEF IInv, Program
        <2>3. HoldsMutex(thread[t].op, thread[t].at) =>
                 thread[t].app \in Apps /\ mutex[thread[t].app] = t
            BY DEF IInv, Locked
        <2>. QED
            BY <1>14, <2>1, <2>2, <2>3, MoveCopy, LockedMove DEF Allowed, HoldsMutex, Making
    <1>15. ASSUME NEW t \in Threads, Announce(t) PROVE Locked'
        <2>1. thread[t].at = "announce" /\ mutex' = mutex
            BY <1>15, Frames, Zenon
        <2>2. thread[t].op = "finalize"
            BY <2>1 DEF IInv, Program, Allowed
        <2>3. thread[t].app \in Apps /\ mutex[thread[t].app] = t
            <3>1. HoldsMutex(thread[t].op, thread[t].at)
                BY <2>2 DEF HoldsMutex
            <3>. QED
                BY <3>1 DEF IInv, Locked
        <2>4. CASE /\ thread[t].todo = {}
                   /\ Becomes(t, "drain", "drain", thread[t].app, thread[t].fun, thread[t].todo)
            BY <2>4, <2>1, <2>3, LockedMove
        <2>5. ASSUME NEW f \in thread[t].todo, f \in Funs,
                     Becomes(t, thread[t].op, "check", thread[t].app, f, thread[t].todo \ {f})
              PROVE  Locked'
            BY <2>5, <2>1, <2>3, LockedMove
        <2>. QED
            BY <1>15, <2>4, <2>5, MoveAnnounce
    <1>16. ASSUME NEW t \in Threads, Drain(t) PROVE Locked'
        <2>0. thread[t].at = "drain"
            BY <1>16, Frames, Zenon
        <2>1. thread[t].op = "drain" /\ thread[t].app \in Apps
            BY <2>0 DEF IInv, Program, Allowed
        <2>2. mutex[thread[t].app] = t
            <3>1. HoldsMutex(thread[t].op, thread[t].at)
                BY <2>1 DEF HoldsMutex
            <3>. QED
                BY <3>1 DEF IInv, Locked
        <2>3. CASE thread' = thread /\ mutex' = mutex
            BY <2>3 DEF IInv, Locked
        <2>4. CASE mutex' = [mutex EXCEPT ![thread[t].app] = NoOne]
            <3>1. \A b \in Apps : mutex[b] \in Threads \ {t} => mutex'[b] = mutex[b]
                BY <2>1, <2>2, <2>4 DEF IInv, TypeOK
            <3>2. \/ Becomes(t, "idle", "idle", NoOne, NoOne, {})
                  \/ thread' = thread /\ mutex' = mutex
                  \/ mutex' = mutex
                BY <1>16, MoveDrain
            <3>3. mutex' # mutex
                BY <2>1, <2>2, <2>4 DEF IInv, TypeOK, AppConstants
            <3>. QED
                BY <3>1, <3>2, <3>3, LockedMove DEF HoldsMutex
        <2>5. ASSUME mutex' = mutex, NEW f \in Funs,
                     Becomes(t, thread[t].op, "check", thread[t].app, f, thread[t].todo)
              PROVE  Locked'
            BY <2>1, <2>2, <2>5, LockedMove
        <2>. QED
            BY <1>16, <2>3, <2>4, <2>5, MoveDrain
    <1>17. CASE UNCHANGED vars
        BY <1>17 DEF vars, IInv, Locked
    <1>. QED
        BY <1>1, <1>2, <1>3, <1>4, <1>5, <1>6, <1>7, <1>8, <1>9, <1>10, <1>11, <1>12,
           <1>13, <1>14, <1>15, <1>16, <1>17, <1>18 DEF Next, Step

(* Every step keeps what was made registered. *)
LEMMA MadeStep ==
    ASSUME AppConstants, IInv, [Next]_vars
    PROVE  MadeInv'
    <1>1. ASSUME NEW a \in Apps, NewApp(a) PROVE MadeInv'
        BY <1>1 DEF NewApp, IInv, MadeInv, Registered
    <1>2. ASSUME NEW a \in Apps, Close(a) PROVE MadeInv'
        BY <1>2 DEF Close, IInv, MadeInv, Registered
    <1>3. ASSUME NEW t \in Threads, NEW a \in Apps, NEW f \in Funs,
                 NEW how \in {"task", "own", "now"}, Task(t, a, f, how)
          PROVE  MadeInv'
        BY <1>3, MoveTask, RegisteredStep, MadeMove
    <1>4. ASSUME NEW t \in Threads, NEW f \in Funs, SharedTask(t, f) PROVE MadeInv'
        BY <1>4, MoveSharedTask, RegisteredStep, MadeMove
    <1>5. ASSUME NEW t \in Threads, NEW a \in Apps, NEW f \in Funs, Use(t, a, f) PROVE MadeInv'
        BY <1>5, MoveUse, RegisteredStep, MadeMove
    <1>6. ASSUME NEW t \in Threads, NEW a \in Apps, NEW auto \in BOOLEAN, Finalize(t, a, auto)
          PROVE  MadeInv'
        BY <1>6, MoveFinalize, RegisteredStep, MadeMove
    <1>7. ASSUME NEW t \in Threads, NEW a \in Apps, NEW f \in Funs, RegisterTask(t, a, f)
          PROVE  MadeInv'
        <2>1. thread' = thread
            BY <1>7 DEF RegisterTask
        <2>. QED
            BY <2>1, RegisteredStep DEF IInv, MadeInv, Program, Allowed, Making
    <1>8. ASSUME NEW t \in Threads, Connect(t) PROVE MadeInv'
        BY <1>8, MoveConnect, RegisteredStep, MadeMove
    <1>9. ASSUME NEW t \in Threads, Look(t) PROVE MadeInv'
        BY <1>9, MoveLook, RegisteredStep, MadeMove
    <1>18. ASSUME NEW t \in Threads, Promise(t) PROVE MadeInv'
        BY <1>18, MovePromise, RegisteredStep, MadeMove
    <1>10. ASSUME NEW t \in Threads, NextApp(t) PROVE MadeInv'
        <2>1. thread[t].at = "apps"
            BY <1>10, Frames, Zenon
        <2>4. CASE Becomes(t, "idle", "idle", NoOne, NoOne, {})
            BY <2>4, <2>1, RegisteredStep, MadeMove
        <2>5. ASSUME NEW a \in thread[t].todo, a \in Apps,
                     Becomes(t, thread[t].op, "check", a, thread[t].fun, thread[t].todo \ {a})
              PROVE  MadeInv'
            BY <2>5, <2>1, RegisteredStep, MadeMove
        <2>6. ASSUME NEW a \in thread[t].todo,
                     Becomes(t, thread[t].op, thread[t].at, thread[t].app, thread[t].fun,
                             thread[t].todo \ {a})
              PROVE  MadeInv'
            BY <2>6, <2>1, RegisteredStep, MadeMove
        <2>. QED
            BY <1>10, <2>4, <2>5, <2>6, MoveNextApp
    <1>11. ASSUME NEW t \in Threads, Check(t) PROVE MadeInv'
        <2>1. thread[t].app \in Apps /\ thread[t].fun \in Funs
            BY <1>11, Frames DEF IInv, Program, Allowed, Making
        <2>. QED
            BY <1>11, <2>1, MoveCheck, RegisteredStep, MadeMove
    <1>12. ASSUME NEW t \in Threads, Insert(t) PROVE MadeInv'
        <2>1. /\ thread[t].app \in Apps /\ thread[t].fun \in Funs
              /\ tasks' = [tasks EXCEPT ![thread[t].app][Name(thread[t].fun)] = thread[t].fun]
            BY <1>12, Frames DEF IInv, Program, Allowed, Making
        <2>2. PICK a \in Apps, f \in Funs : a = thread[t].app /\ f = thread[t].fun
            BY <2>1
        <2>3. Registered(a, f)'
            <3>1. tasks \in [Apps -> [Names -> Funs \cup {NoOne}]] /\ Name(f) \in Names
                BY DEF IInv, TypeOK, Names
            <3>2. tasks' = [tasks EXCEPT ![a][Name(f)] = f] /\ f # NoOne
                BY <2>1, <2>2 DEF AppConstants
            <3>. QED
                BY <3>1, <3>2 DEF Registered
        <2>. QED
            BY <1>12, <2>2, <2>3, MoveInsert, RegisteredStep, MadeMove
    <1>13. ASSUME NEW t \in Threads, Made(t) PROVE MadeInv'
        BY <1>13, MoveMade, RegisteredStep, MadeMove
    <1>14. ASSUME NEW t \in Threads, Copy(t) PROVE MadeInv'
        BY <1>14, MoveCopy, RegisteredStep, MadeMove
    <1>15. ASSUME NEW t \in Threads, Announce(t) PROVE MadeInv'
        <2>4. CASE /\ thread[t].todo = {}
                   /\ Becomes(t, "drain", "drain", thread[t].app, thread[t].fun, thread[t].todo)
            BY <2>4, RegisteredStep, MadeMove
        <2>5. ASSUME NEW f \in thread[t].todo, f \in Funs,
                     Becomes(t, thread[t].op, "check", thread[t].app, f, thread[t].todo \ {f})
              PROVE  MadeInv'
            BY <2>5, RegisteredStep, MadeMove
        <2>. QED
            BY <1>15, <2>4, <2>5, MoveAnnounce
    <1>16. ASSUME NEW t \in Threads, Drain(t) PROVE MadeInv'
        <2>1. CASE thread' = thread
            BY <2>1, RegisteredStep DEF IInv, MadeInv, Program, Allowed, Making
        <2>. QED
            BY <1>16, <2>1, MoveDrain, RegisteredStep, MadeMove
    <1>17. CASE UNCHANGED vars
        BY <1>17 DEF vars, IInv, MadeInv, Registered
    <1>. QED
        BY <1>1, <1>2, <1>3, <1>4, <1>5, <1>6, <1>7, <1>8, <1>9, <1>10, <1>11, <1>12,
           <1>13, <1>14, <1>15, <1>16, <1>17, <1>18 DEF Next, Step

(* Every step keeps the types. *)
LEMMA TypesStep ==
    ASSUME AppConstants, IInv, [Next]_vars
    PROVE  TypeOK'
    <1>1. ASSUME NEW a \in Apps, NewApp(a) PROVE TypeOK'
        BY <1>1 DEF NewApp, IInv, TypeOK
    <1>2. ASSUME NEW a \in Apps, Close(a) PROVE TypeOK'
        BY <1>2 DEF Close, IInv, TypeOK
    <1>3. ASSUME NEW t \in Threads, NEW a \in Apps, NEW f \in Funs,
                 NEW how \in {"task", "own", "now"}, Task(t, a, f, how)
          PROVE  TypeOK'
        BY <1>3, MoveTask DEF IInv, TypeOK
    <1>4. ASSUME NEW t \in Threads, NEW f \in Funs, SharedTask(t, f) PROVE TypeOK'
        BY <1>4, MoveSharedTask DEF IInv, TypeOK
    <1>5. ASSUME NEW t \in Threads, NEW a \in Apps, NEW f \in Funs, Use(t, a, f) PROVE TypeOK'
        BY <1>5, MoveUse DEF IInv, TypeOK
    <1>6. ASSUME NEW t \in Threads, NEW a \in Apps, NEW auto \in BOOLEAN, Finalize(t, a, auto)
          PROVE  TypeOK'
        <2>4. mutex' = [mutex EXCEPT ![a] = t]
            BY <1>6, MoveFinalize, Zenon
        <2>1. mutex' \in [Apps -> Threads \cup {NoOne}]
            BY <2>4 DEF IInv, TypeOK
        <2>2. finalized \in [Apps -> BOOLEAN] /\ finalized' = [finalized EXCEPT ![a] = TRUE]
            BY <1>6, MoveFinalize DEF IInv, TypeOK
        <2>3. finalized' \in [Apps -> BOOLEAN]
            BY <2>2
        <2>. QED
            BY <1>6, <2>1, <2>3, MoveFinalize DEF IInv, TypeOK
    <1>7. ASSUME NEW t \in Threads, NEW a \in Apps, NEW f \in Funs, RegisterTask(t, a, f)
          PROVE  TypeOK'
        BY <1>7 DEF RegisterTask, IInv, TypeOK, Names
    <1>8. ASSUME NEW t \in Threads, Connect(t) PROVE TypeOK'
        <2>1. thread[t].at = "connect"
            BY <1>8, Frames, Zenon
        <2>2. thread[t].fun \in Funs
            BY <2>1 DEF IInv, Program, Allowed, Making
        <2>. QED
            BY <1>8, <2>2, Frames DEF IInv, TypeOK, Names
    <1>9. ASSUME NEW t \in Threads, Look(t) PROVE TypeOK'
        BY <1>9, Frames DEF IInv, TypeOK
    <1>18. ASSUME NEW t \in Threads, Promise(t) PROVE TypeOK'
        <2>1. thread[t].at = "promise" /\ UNCHANGED <<active, finalizers, finalized, mutex, tasks>>
            BY <1>18, Frames, Zenon
        <2>2. thread[t].app \in Apps /\ thread[t].fun \in Funs
            BY <2>1 DEF IInv, Program, Allowed
        <2>3. \/ proxies' = proxies
              \/ proxies' = [proxies EXCEPT ![thread[t].app] = Append(@, thread[t].fun)]
            BY <1>18, Frames, Zenon
        <2>4. proxies' \in [Apps -> Seq(Funs)]
            <3>1. /\ proxies \in [Apps -> Seq(Funs)]
                  /\ Append(proxies[thread[t].app], thread[t].fun) \in Seq(Funs)
                BY <2>2 DEF IInv, TypeOK
            <3>. QED
                BY <2>3, <3>1, Zenon
        <2>. QED
            BY <2>1, <2>4 DEF IInv, TypeOK
    <1>10. ASSUME NEW t \in Threads, NextApp(t) PROVE TypeOK'
        BY <1>10, Frames, MoveNextApp DEF IInv, TypeOK
    <1>11. ASSUME NEW t \in Threads, Check(t) PROVE TypeOK'
        BY <1>11, Frames DEF IInv, TypeOK
    <1>12. ASSUME NEW t \in Threads, Insert(t) PROVE TypeOK'
        <2>1. /\ thread[t].at = "insert"
              /\ tasks' = [tasks EXCEPT ![thread[t].app][Name(thread[t].fun)] = thread[t].fun]
              /\ UNCHANGED <<active, finalizers, finalized, mutex, proxies>>
            BY <1>12, Frames, Zenon
        <2>2. thread[t].app \in Apps /\ thread[t].fun \in Funs
            BY <2>1 DEF IInv, Program, Allowed, Making
        <2>3. tasks' \in [Apps -> [Names -> Funs \cup {NoOne}]]
            BY <2>1, <2>2 DEF IInv, TypeOK
        <2>. QED
            BY <2>1, <2>3 DEF IInv, TypeOK
    <1>13. ASSUME NEW t \in Threads, Made(t) PROVE TypeOK'
        <2>1. thread[t].at = "made"
            BY <1>13, Frames, Zenon
        <2>2. thread[t].app \in Apps
            BY <2>1 DEF IInv, Program, Allowed, Making
        <2>. QED
            BY <1>13, <2>2, Frames, MoveMade DEF IInv, TypeOK, Names
    <1>14. ASSUME NEW t \in Threads, Copy(t) PROVE TypeOK'
        BY <1>14, Frames DEF IInv, TypeOK
    <1>15. ASSUME NEW t \in Threads, Announce(t) PROVE TypeOK'
        BY <1>15, Frames DEF IInv, TypeOK
    <1>16. ASSUME NEW t \in Threads, Drain(t) PROVE TypeOK'
        <2>1. thread[t].at = "drain" /\ UNCHANGED <<active, finalizers, finalized, tasks>>
            BY <1>16, Frames, Zenon
        <2>2. thread[t].app \in Apps
            BY <2>1 DEF IInv, Program, Allowed
        <2>3. \/ proxies' = proxies
              \/ /\ proxies[thread[t].app] # <<>>
                 /\ proxies' = [proxies EXCEPT ![thread[t].app] = Tail(@)]
            BY <1>16, Frames, Zenon
        <2>4. proxies' \in [Apps -> Seq(Funs)]
            <3>1. /\ proxies \in [Apps -> Seq(Funs)]
                  /\ proxies[thread[t].app] # <<>> => Tail(proxies[thread[t].app]) \in Seq(Funs)
                BY <2>2 DEF IInv, TypeOK
            <3>. QED
                BY <2>3, <3>1, Zenon
        <2>5. mutex' \in [Apps -> Threads \cup {NoOne}]
            BY <1>16, <2>2, MoveDrain DEF IInv, TypeOK
        <2>. QED
            BY <2>1, <2>4, <2>5 DEF IInv, TypeOK
    <1>17. CASE UNCHANGED vars
        BY <1>17 DEF vars, IInv, TypeOK
    <1>. QED
        BY <1>1, <1>2, <1>3, <1>4, <1>5, <1>6, <1>7, <1>8, <1>9, <1>10, <1>11, <1>12,
           <1>13, <1>14, <1>15, <1>16, <1>17, <1>18 DEF Next, Step

(* Every step keeps the types of the threads. *)
LEMMA ThreadsStep ==
    ASSUME AppConstants, IInv, [Next]_vars
    PROVE  (thread \in [Threads -> Thread])'
    <1>1. ASSUME NEW a \in Apps, NewApp(a) PROVE (thread \in [Threads -> Thread])'
        BY <1>1 DEF NewApp, IInv, ThreadTypes
    <1>2. ASSUME NEW a \in Apps, Close(a) PROVE (thread \in [Threads -> Thread])'
        BY <1>2 DEF Close, IInv, ThreadTypes
    <1>3. ASSUME NEW t \in Threads, NEW a \in Apps, NEW f \in Funs,
                 NEW how \in {"task", "own", "now"}, Task(t, a, f, how)
          PROVE  (thread \in [Threads -> Thread])'
        BY <1>3, MoveTask DEF Becomes, IInv, ThreadTypes
    <1>4. ASSUME NEW t \in Threads, NEW f \in Funs, SharedTask(t, f)
          PROVE  (thread \in [Threads -> Thread])'
        BY <1>4, MoveSharedTask DEF Becomes, IInv, ThreadTypes
    <1>5. ASSUME NEW t \in Threads, NEW a \in Apps, NEW f \in Funs, Use(t, a, f)
          PROVE  (thread \in [Threads -> Thread])'
        BY <1>5, MoveUse DEF Becomes, IInv, ThreadTypes
    <1>6. ASSUME NEW t \in Threads, NEW a \in Apps, NEW auto \in BOOLEAN, Finalize(t, a, auto)
          PROVE  (thread \in [Threads -> Thread])'
        BY <1>6, MoveFinalize DEF Becomes, IInv, ThreadTypes
    <1>7. ASSUME NEW t \in Threads, NEW a \in Apps, NEW f \in Funs, RegisterTask(t, a, f)
          PROVE  (thread \in [Threads -> Thread])'
        BY <1>7 DEF RegisterTask, IInv, ThreadTypes
    <1>8. ASSUME NEW t \in Threads, Connect(t) PROVE (thread \in [Threads -> Thread])'
        BY <1>8, MoveConnect DEF Becomes, IInv, ThreadTypes
    <1>9. ASSUME NEW t \in Threads, Look(t) PROVE (thread \in [Threads -> Thread])'
        BY <1>9, MoveLook DEF Becomes, IInv, ThreadTypes
    <1>18. ASSUME NEW t \in Threads, Promise(t) PROVE (thread \in [Threads -> Thread])'
        BY <1>18, MovePromise DEF Becomes
    <1>10. ASSUME NEW t \in Threads, NextApp(t) PROVE (thread \in [Threads -> Thread])'
        <2>4. CASE Becomes(t, "idle", "idle", NoOne, NoOne, {})
            BY <2>4, Zenon DEF Becomes
        <2>5. ASSUME NEW a \in thread[t].todo, a \in Apps,
                     Becomes(t, thread[t].op, "check", a, thread[t].fun, thread[t].todo \ {a})
              PROVE  (thread \in [Threads -> Thread])'
            BY <2>5, Zenon DEF Becomes
        <2>6. ASSUME NEW a \in thread[t].todo,
                     Becomes(t, thread[t].op, thread[t].at, thread[t].app, thread[t].fun,
                             thread[t].todo \ {a})
              PROVE  (thread \in [Threads -> Thread])'
            BY <2>6, Zenon DEF Becomes
        <2>. QED
            BY <1>10, <2>4, <2>5, <2>6, MoveNextApp
    <1>11. ASSUME NEW t \in Threads, Check(t) PROVE (thread \in [Threads -> Thread])'
        BY <1>11, MoveCheck DEF Becomes, IInv, ThreadTypes
    <1>12. ASSUME NEW t \in Threads, Insert(t) PROVE (thread \in [Threads -> Thread])'
        BY <1>12, MoveInsert DEF Becomes, IInv, ThreadTypes
    <1>13. ASSUME NEW t \in Threads, Made(t) PROVE (thread \in [Threads -> Thread])'
        BY <1>13, MoveMade DEF Becomes, IInv, ThreadTypes
    <1>14. ASSUME NEW t \in Threads, Copy(t) PROVE (thread \in [Threads -> Thread])'
        BY <1>14, MoveCopy DEF Becomes, IInv, ThreadTypes
    <1>15. ASSUME NEW t \in Threads, Announce(t) PROVE (thread \in [Threads -> Thread])'
        <2>4. CASE /\ thread[t].todo = {}
                   /\ Becomes(t, "drain", "drain", thread[t].app, thread[t].fun, thread[t].todo)
            BY <2>4, Zenon DEF Becomes
        <2>5. ASSUME NEW f \in thread[t].todo, f \in Funs,
                     Becomes(t, thread[t].op, "check", thread[t].app, f, thread[t].todo \ {f})
              PROVE  (thread \in [Threads -> Thread])'
            BY <2>5, Zenon DEF Becomes
        <2>. QED
            BY <1>15, <2>4, <2>5, MoveAnnounce
    <1>16. ASSUME NEW t \in Threads, Drain(t) PROVE (thread \in [Threads -> Thread])'
        BY <1>16, MoveDrain DEF Becomes, IInv, ThreadTypes
    <1>17. CASE UNCHANGED vars
        BY <1>17 DEF vars, IInv, ThreadTypes
    <1>. QED
        BY <1>1, <1>2, <1>3, <1>4, <1>5, <1>6, <1>7, <1>8, <1>9, <1>10, <1>11, <1>12,
           <1>13, <1>14, <1>15, <1>16, <1>17, <1>18 DEF Next, Step

(* Every step adds a declaration only of a function. *)
LEMMA DeclaredTypesStep ==
    ASSUME AppConstants, IInv, [Next]_vars
    PROVE  DeclaredTypes'
    <1>1. ASSUME NEW a \in Apps, NewApp(a) PROVE DeclaredTypes'
        BY <1>1 DEF NewApp, DeclaredTypes, IInv, ThreadTypes
    <1>2. ASSUME NEW a \in Apps, Close(a) PROVE DeclaredTypes'
        BY <1>2 DEF Close, DeclaredTypes, IInv, ThreadTypes
    <1>3. ASSUME NEW t \in Threads, NEW a \in Apps, NEW f \in Funs,
                 NEW how \in {"task", "own", "now"}, Task(t, a, f, how)
          PROVE  DeclaredTypes'
        BY <1>3, MoveTask DEF DeclaredTypes, IInv, ThreadTypes
    <1>4. ASSUME NEW t \in Threads, NEW f \in Funs, SharedTask(t, f) PROVE DeclaredTypes'
        BY <1>4, MoveSharedTask DEF DeclaredTypes, IInv, ThreadTypes
    <1>5. ASSUME NEW t \in Threads, NEW a \in Apps, NEW f \in Funs, Use(t, a, f)
          PROVE  DeclaredTypes'
        BY <1>5, MoveUse DEF DeclaredTypes, IInv, ThreadTypes
    <1>6. ASSUME NEW t \in Threads, NEW a \in Apps, NEW auto \in BOOLEAN, Finalize(t, a, auto)
          PROVE  DeclaredTypes'
        BY <1>6, MoveFinalize DEF DeclaredTypes, IInv, ThreadTypes
    <1>7. ASSUME NEW t \in Threads, NEW a \in Apps, NEW f \in Funs, RegisterTask(t, a, f)
          PROVE  DeclaredTypes'
        BY <1>7 DEF RegisterTask, DeclaredTypes, IInv, ThreadTypes
    <1>8. ASSUME NEW t \in Threads, Connect(t) PROVE DeclaredTypes'
        BY <1>8, Frames DEF DeclaredTypes, IInv, ThreadTypes
    <1>9. ASSUME NEW t \in Threads, Look(t) PROVE DeclaredTypes'
        BY <1>9, Frames DEF IInv, ThreadTypes, DeclaredTypes
    <1>18. ASSUME NEW t \in Threads, Promise(t) PROVE DeclaredTypes'
        <2>1. thread[t].at = "promise" /\ (declared' = declared \/ Returned(t))
            BY <1>18, Frames, Zenon
        <2>2. thread[t].fun \in Funs
            BY <2>1 DEF IInv, Program, Allowed, Making
        <2>. QED
            BY <2>1, <2>2 DEF Returned, IInv, ThreadTypes, DeclaredTypes
    <1>10. ASSUME NEW t \in Threads, NextApp(t) PROVE DeclaredTypes'
        <2>1. thread[t].at = "apps" /\ (declared' = declared \/ Returned(t))
            BY <1>10, Frames, Zenon
        <2>2. thread[t].fun \in Funs
            BY <2>1 DEF IInv, Program, Allowed, Making
        <2>. QED
            BY <2>1, <2>2 DEF Returned, IInv, ThreadTypes, DeclaredTypes
    <1>11. ASSUME NEW t \in Threads, Check(t) PROVE DeclaredTypes'
        BY <1>11, Frames DEF DeclaredTypes, IInv, ThreadTypes
    <1>12. ASSUME NEW t \in Threads, Insert(t) PROVE DeclaredTypes'
        BY <1>12, Frames DEF DeclaredTypes, IInv, ThreadTypes
    <1>13. ASSUME NEW t \in Threads, Made(t) PROVE DeclaredTypes'
        <2>1. thread[t].at = "made" /\ (declared' = declared \/ Returned(t))
            BY <1>13, Frames, Zenon
        <2>2. thread[t].fun \in Funs
            BY <2>1 DEF IInv, Program, Allowed, Making
        <2>. QED
            BY <2>1, <2>2 DEF Returned, IInv, ThreadTypes, DeclaredTypes
    <1>14. ASSUME NEW t \in Threads, Copy(t) PROVE DeclaredTypes'
        BY <1>14, Frames DEF DeclaredTypes, IInv, ThreadTypes
    <1>15. ASSUME NEW t \in Threads, Announce(t) PROVE DeclaredTypes'
        BY <1>15, Frames DEF DeclaredTypes, IInv, ThreadTypes
    <1>16. ASSUME NEW t \in Threads, Drain(t) PROVE DeclaredTypes'
        BY <1>16, Frames DEF DeclaredTypes, IInv, ThreadTypes
    <1>17. CASE UNCHANGED vars
        BY <1>17 DEF vars, IInv, ThreadTypes, DeclaredTypes
    <1>. QED
        BY <1>1, <1>2, <1>3, <1>4, <1>5, <1>6, <1>7, <1>8, <1>9, <1>10, <1>11, <1>12,
           <1>13, <1>14, <1>15, <1>16, <1>17, <1>18 DEF Next, Step

(* A function that is registered, or that the thread which finalizes the   *)
(* application is bringing, stays so whatever the threads do.              *)
LEMMA DoneStep ==
    ASSUME AppConstants, IInv, [Next]_vars,
           NEW b \in Apps, NEW g \in finalizers, Done(b, g)
    PROVE  Done(b, g)'
    <1>0. g \in Funs /\ (Registered(b, g) => Registered(b, g)')
        BY RegisteredStep DEF IInv, TypeOK
    <1>1. ASSUME NEW a \in Apps, NewApp(a) PROVE Done(b, g)'
        <2>1. thread' = thread
            BY <1>1 DEF NewApp
        <2>. QED
            BY <2>1, <1>0 DEF Done, Coming
    <1>2. ASSUME NEW a \in Apps, Close(a) PROVE Done(b, g)'
        <2>1. thread' = thread
            BY <1>2 DEF Close
        <2>. QED
            BY <2>1, <1>0 DEF Done, Coming
    <1>3. ASSUME NEW t \in Threads, NEW a \in Apps, NEW f \in Funs,
                 NEW how \in {"task", "own", "now"}, Task(t, a, f, how)
          PROVE  Done(b, g)'
        BY <1>0, <1>3, MoveTask, DoneMove DEF Brings
    <1>4. ASSUME NEW t \in Threads, NEW f \in Funs, SharedTask(t, f) PROVE Done(b, g)'
        BY <1>0, <1>4, MoveSharedTask, DoneMove DEF Brings
    <1>5. ASSUME NEW t \in Threads, NEW a \in Apps, NEW f \in Funs, Use(t, a, f)
          PROVE  Done(b, g)'
        BY <1>0, <1>5, MoveUse, DoneMove DEF Brings
    <1>6. ASSUME NEW t \in Threads, NEW a \in Apps, NEW auto \in BOOLEAN, Finalize(t, a, auto)
          PROVE  Done(b, g)'
        BY <1>0, <1>6, MoveFinalize, DoneMove DEF Brings
    <1>7. ASSUME NEW t \in Threads, NEW a \in Apps, NEW f \in Funs, RegisterTask(t, a, f)
          PROVE  Done(b, g)'
        <2>1. thread' = thread
            BY <1>7 DEF RegisterTask
        <2>. QED
            BY <2>1, <1>0 DEF Done, Coming
    <1>8. ASSUME NEW t \in Threads, Connect(t) PROVE Done(b, g)'
        <2>1. thread[t].at = "connect"
            BY <1>8, Frames, Zenon
        <2>2. Allowed(thread[t].op, thread[t].at, thread[t].app, thread[t].fun, thread[t].todo)
            BY DEF IInv, Program
        <2>. QED
            BY <1>0, <1>8, <2>1, <2>2, MoveConnect, DoneMove DEF Brings, Allowed
    <1>9. ASSUME NEW t \in Threads, Look(t) PROVE Done(b, g)'
        <2>1. thread[t].at = "look"
            BY <1>9, Frames, Zenon
        <2>2. Allowed(thread[t].op, thread[t].at, thread[t].app, thread[t].fun, thread[t].todo)
            BY DEF IInv, Program
        <2>. QED
            BY <1>0, <1>9, <2>1, <2>2, MoveLook, DoneMove DEF Brings, Allowed
    <1>18. ASSUME NEW t \in Threads, Promise(t) PROVE Done(b, g)'
        <2>1. thread[t].at = "promise"
            BY <1>18, Frames, Zenon
        <2>2. Allowed(thread[t].op, thread[t].at, thread[t].app, thread[t].fun, thread[t].todo)
            BY DEF IInv, Program
        <2>. QED
            BY <1>0, <1>18, <2>1, <2>2, MovePromise, DoneMove DEF Brings, Allowed
    <1>10. ASSUME NEW t \in Threads, NextApp(t) PROVE Done(b, g)'
        <2>1. thread[t].at = "apps"
            BY <1>10, Frames, Zenon
        <2>2. Allowed(thread[t].op, thread[t].at, thread[t].app, thread[t].fun, thread[t].todo)
            BY DEF IInv, Program
        <2>4. CASE Becomes(t, "idle", "idle", NoOne, NoOne, {})
            BY <2>4, <1>0, <2>1, <2>2, DoneMove DEF Brings, Allowed
        <2>5. ASSUME NEW a \in thread[t].todo, a \in Apps,
                     Becomes(t, thread[t].op, "check", a, thread[t].fun, thread[t].todo \ {a})
              PROVE  Done(b, g)'
            BY <2>5, <1>0, <2>1, <2>2, DoneMove DEF Brings, Allowed
        <2>6. ASSUME NEW a \in thread[t].todo,
                     Becomes(t, thread[t].op, thread[t].at, thread[t].app, thread[t].fun,
                             thread[t].todo \ {a})
              PROVE  Done(b, g)'
            BY <2>6, <1>0, <2>1, <2>2, DoneMove DEF Brings, Allowed
        <2>. QED
            BY <1>10, <2>4, <2>5, <2>6, MoveNextApp
    <1>11. ASSUME NEW t \in Threads, Check(t) PROVE Done(b, g)'
        <2>1. thread[t].at = "check"
            BY <1>11, Frames, Zenon
        <2>2. Registered(thread[t].app, thread[t].fun) /\ thread[t].app = b /\ thread[t].fun = g
                 => Registered(b, g)'
            BY <1>0 DEF Registered
        <2>. QED
            BY <1>0, <1>11, <2>1, <2>2, MoveCheck, DoneMove DEF Brings
    <1>12. ASSUME NEW t \in Threads, Insert(t) PROVE Done(b, g)'
        <2>1. /\ thread[t].at = "insert"
              /\ tasks' = [tasks EXCEPT ![thread[t].app][Name(thread[t].fun)] = thread[t].fun]
            BY <1>12, Frames, Zenon
        <2>2. thread[t].app = b /\ thread[t].fun = g => Registered(b, g)'
            <3>1. tasks \in [Apps -> [Names -> Funs \cup {NoOne}]] /\ Name(g) \in Names
                BY DEF IInv, TypeOK, Names
            <3>2. g # NoOne
                BY <1>0 DEF AppConstants
            <3>. QED
                BY <2>1, <3>1, <3>2 DEF Registered
        <2>. QED
            BY <1>0, <1>12, <2>1, <2>2, MoveInsert, DoneMove DEF Brings
    <1>13. ASSUME NEW t \in Threads, Made(t) PROVE Done(b, g)'
        <2>1. thread[t].at = "made"
            BY <1>13, Frames, Zenon
        <2>. QED
            BY <1>0, <1>13, <2>1, MoveMade, DoneMove DEF Brings
    <1>14. ASSUME NEW t \in Threads, Copy(t) PROVE Done(b, g)'
        BY <1>0, <1>14, MoveCopy, DoneMove DEF Brings
    <1>15. ASSUME NEW t \in Threads, Announce(t) PROVE Done(b, g)'
        <2>1. thread[t].at = "announce"
            BY <1>15, Frames, Zenon
        <2>2. Allowed(thread[t].op, thread[t].at, thread[t].app, thread[t].fun, thread[t].todo)
            BY DEF IInv, Program
        <2>4. CASE /\ thread[t].todo = {}
                   /\ Becomes(t, "drain", "drain", thread[t].app, thread[t].fun, thread[t].todo)
            BY <2>4, <1>0, <2>1, <2>2, DoneMove DEF Brings, Allowed
        <2>5. ASSUME NEW f \in thread[t].todo, f \in Funs,
                     Becomes(t, thread[t].op, "check", thread[t].app, f, thread[t].todo \ {f})
              PROVE  Done(b, g)'
            BY <2>5, <1>0, <2>1, <2>2, DoneMove DEF Brings, Allowed
        <2>. QED
            BY <1>15, <2>4, <2>5, MoveAnnounce
    <1>16. ASSUME NEW t \in Threads, Drain(t) PROVE Done(b, g)'
        <2>1. thread[t].at = "drain"
            BY <1>16, Frames, Zenon
        <2>2. Allowed(thread[t].op, thread[t].at, thread[t].app, thread[t].fun, thread[t].todo)
            BY DEF IInv, Program
        <2>3. CASE thread' = thread
            BY <1>0, <2>3 DEF Done, Coming
        <2>. QED
            BY <1>0, <1>16, <2>1, <2>2, <2>3, MoveDrain, DoneMove DEF Brings, Allowed
    <1>17. CASE UNCHANGED vars
        BY <1>17 DEF vars, Done, Coming, Registered, Brings
    <1>. QED
        BY <1>1, <1>2, <1>3, <1>4, <1>5, <1>6, <1>7, <1>8, <1>9, <1>10, <1>11, <1>12,
           <1>13, <1>14, <1>15, <1>16, <1>17, <1>18 DEF Next, Step

(* An application is finalized by a thread that has yet to copy the        *)
(* functions: it brings them all.                                          *)
LEMMA Finalization ==
    ASSUME AppConstants, IInv, [Next]_vars, NEW b \in Apps, finalized'[b]
    PROVE  finalized[b] \/ \A g \in Funs : Done(b, g)'
    <1>1. ASSUME NEW a \in Apps, NewApp(a) PROVE finalized[b] \/ \A g \in Funs : Done(b, g)'
        BY <1>1 DEF NewApp
    <1>2. ASSUME NEW a \in Apps, Close(a) PROVE finalized[b] \/ \A g \in Funs : Done(b, g)'
        BY <1>2 DEF Close
    <1>3. ASSUME NEW t \in Threads, NEW a \in Apps, NEW f \in Funs,
                 NEW how \in {"task", "own", "now"}, Task(t, a, f, how)
          PROVE  finalized[b] \/ \A g \in Funs : Done(b, g)'
        BY <1>3, MoveTask
    <1>4. ASSUME NEW t \in Threads, NEW f \in Funs, SharedTask(t, f)
          PROVE  finalized[b] \/ \A g \in Funs : Done(b, g)'
        BY <1>4, MoveSharedTask
    <1>5. ASSUME NEW t \in Threads, NEW a \in Apps, NEW f \in Funs, Use(t, a, f)
          PROVE  finalized[b] \/ \A g \in Funs : Done(b, g)'
        BY <1>5, MoveUse
    <1>6. ASSUME NEW t \in Threads, NEW a \in Apps, NEW auto \in BOOLEAN, Finalize(t, a, auto)
          PROVE  finalized[b] \/ \A g \in Funs : Done(b, g)'
        <2>1. CASE a = b
            <3>1. \A g \in Funs : Coming(b, g)'
                BY <1>6, <2>1, MoveFinalize DEF Becomes, Coming, Brings
            <3>. QED
                BY <3>1 DEF Done
        <2>2. CASE a # b
            BY <1>6, <2>2, MoveFinalize DEF IInv, TypeOK
        <2>. QED
            BY <2>1, <2>2
    <1>7. ASSUME NEW t \in Threads, NEW a \in Apps, NEW f \in Funs, RegisterTask(t, a, f)
          PROVE  finalized[b] \/ \A g \in Funs : Done(b, g)'
        BY <1>7 DEF RegisterTask
    <1>8. ASSUME NEW t \in Threads, Step(t)
          PROVE  finalized[b] \/ \A g \in Funs : Done(b, g)'
        BY <1>8, Frames DEF Step
    <1>9. CASE UNCHANGED vars
        BY <1>9 DEF vars
    <1>. QED
        BY <1>1, <1>2, <1>3, <1>4, <1>5, <1>6, <1>7, <1>8, <1>9 DEF Next

(* A finalized application is not added to the active ones. *)
LEMMA Activation ==
    ASSUME AppConstants, IInv, [Next]_vars, NEW b \in active', finalized'[b]
    PROVE  b \in active /\ b \in Apps
    <1>. SUFFICES b \in active
        BY DEF IInv, TypeOK
    <1>1. ASSUME NEW a \in Apps, NewApp(a) PROVE b \in active
        BY <1>1 DEF NewApp
    <1>2. ASSUME NEW a \in Apps, Close(a) PROVE b \in active
        BY <1>2 DEF Close
    <1>3. ASSUME NEW t \in Threads, NEW a \in Apps, NEW f \in Funs,
                 NEW how \in {"task", "own", "now"}, Task(t, a, f, how)
          PROVE  b \in active
        BY <1>3, MoveTask
    <1>4. ASSUME NEW t \in Threads, NEW f \in Funs, SharedTask(t, f)
          PROVE  b \in active
        BY <1>4, MoveSharedTask
    <1>5. ASSUME NEW t \in Threads, NEW a \in Apps, NEW f \in Funs, Use(t, a, f)
          PROVE  b \in active
        BY <1>5, MoveUse
    <1>6. ASSUME NEW t \in Threads, NEW a \in Apps, NEW auto \in BOOLEAN, Finalize(t, a, auto)
          PROVE  b \in active
        BY <1>6, MoveFinalize
    <1>7. ASSUME NEW t \in Threads, NEW a \in Apps, NEW f \in Funs, RegisterTask(t, a, f)
          PROVE  b \in active
        BY <1>7 DEF RegisterTask
    <1>8. ASSUME NEW t \in Threads, Step(t)
          PROVE  b \in active
        BY <1>8, Frames DEF Step
    <1>9. CASE UNCHANGED vars
        BY <1>9 DEF vars
    <1>. QED
        BY <1>1, <1>2, <1>3, <1>4, <1>5, <1>6, <1>7, <1>8, <1>9 DEF Next

(* A function that is on its way stays on its way until it is registered,  *)
(* also in an application that is being finalized by this step.            *)
LEMMA StillDone ==
    ASSUME AppConstants, IInv, [Next]_vars, NEW b \in Apps, NEW g \in finalizers,
           finalized'[b], finalized[b] => Done(b, g)
    PROVE  Done(b, g)'
    BY Finalization, DoneStep DEF IInv, TypeOK

(* A step of t keeps the other shared declarations under way; its own, if  *)
(* the record it makes does.                                               *)
LEMMA SharedMove ==
    ASSUME AppConstants, IInv, [Next]_vars, NEW t \in Threads,
           NEW p, NEW l, NEW a, NEW f, NEW S, Becomes(t, p, l, a, f, S),
           \A b \in active' :
              finalized'[b] /\ p = "shared_task" /\ l \in Making \cup {"apps"} =>
                 \/ b \in S
                 \/ l \in {"check", "insert"} /\ a = b
                 \/ Done(b, f)'
    PROVE  SharedInv'
    <1>. SUFFICES ASSUME NEW u \in Threads, thread'[u].op = "shared_task",
                         thread'[u].at \in Making \cup {"apps"},
                         NEW b \in active', finalized'[b]
                  PROVE  \/ b \in thread'[u].todo
                         \/ thread'[u].at \in {"check", "insert"} /\ thread'[u].app = b
                         \/ Done(b, thread[u].fun)'
        BY DEF SharedInv
    <1>1. CASE u = t
        BY <1>1 DEF Becomes, Done, Registered, Coming, Brings
    <1>2. CASE u # t
        <2>1. thread'[u] = thread[u]
            BY <1>2 DEF Becomes
        <2>2. PICK g : g = thread[u].fun
            OBVIOUS
        <2>3. g \in finalizers
            BY <2>1, <2>2 DEF IInv, Program, Allowed, Making
        <2>4. b \in active /\ b \in Apps
            BY Activation
        <2>5. CASE finalized[b] => Done(b, g)
            <3>1. Done(b, g)'
                BY <2>3, <2>4, <2>5, StillDone
            <3>. QED
                BY <2>1, <2>2, <3>1 DEF Done, Registered, Coming, Brings
        <2>6. CASE finalized[b] /\ ~ Done(b, g)
            BY <2>1, <2>2, <2>4, <2>6 DEF IInv, SharedInv
        <2>. QED
            BY <2>5, <2>6
    <1>. QED
        BY <1>1, <1>2

(* A step that moves no thread keeps the shared declarations under way. *)
LEMMA SharedStay ==
    ASSUME AppConstants, IInv, [Next]_vars, thread' = thread
    PROVE  SharedInv'
    <1>. SUFFICES ASSUME NEW u \in Threads, thread[u].op = "shared_task",
                         thread[u].at \in Making \cup {"apps"},
                         NEW b \in active', finalized'[b]
                  PROVE  \/ b \in thread[u].todo
                         \/ thread[u].at \in {"check", "insert"} /\ thread[u].app = b
                         \/ Done(b, thread[u].fun)'
        BY DEF SharedInv
    <1>1. PICK g : g = thread[u].fun
        OBVIOUS
    <1>2. g \in finalizers
        BY <1>1 DEF IInv, Program, Allowed, Making
    <1>3. b \in active /\ b \in Apps
        BY Activation
    <1>4. CASE finalized[b] => Done(b, g)
        <2>1. Done(b, g)'
            BY <1>2, <1>3, <1>4, StillDone
        <2>. QED
            BY <1>1, <2>1 DEF Done, Registered, Coming, Brings
    <1>5. CASE finalized[b] /\ ~ Done(b, g)
        BY <1>1, <1>3, <1>5 DEF IInv, SharedInv
    <1>. QED
        BY <1>4, <1>5

(* What a thread that works on a shared declaration has still to do, or is *)
(* done after the step.                                                    *)
LEMMA OwnShared ==
    ASSUME AppConstants, IInv, [Next]_vars, NEW t \in Threads, NEW g, g = thread[t].fun,
           thread[t].op = "shared_task" \/ thread[t].at = "apps",
           thread[t].at \in Making \cup {"apps"}
    PROVE  \A b \in active' : finalized'[b] =>
              \/ b \in thread[t].todo
              \/ thread[t].at \in {"check", "insert"} /\ thread[t].app = b
              \/ Done(b, g)'
    <1>. SUFFICES ASSUME NEW b \in active', finalized'[b]
                  PROVE  \/ b \in thread[t].todo
                         \/ thread[t].at \in {"check", "insert"} /\ thread[t].app = b
                         \/ Done(b, g)'
        OBVIOUS
    <1>1. thread[t].op = "shared_task" /\ g \in finalizers
        BY DEF IInv, Program, Allowed, Making
    <1>2. b \in active /\ b \in Apps
        BY Activation
    <1>3. CASE finalized[b] => Done(b, g)
        BY <1>1, <1>2, <1>3, StillDone
    <1>4. CASE finalized[b] /\ ~ Done(b, g)
        BY <1>1, <1>2, <1>4 DEF IInv, SharedInv
    <1>. QED
        BY <1>3, <1>4

(* Every step keeps the shared declarations under way. *)
LEMMA SharedStep ==
    ASSUME AppConstants, IInv, [Next]_vars
    PROVE  SharedInv'
    <1>1. ASSUME NEW a \in Apps, NewApp(a) PROVE SharedInv'
        <2>1. thread' = thread
            BY <1>1 DEF NewApp
        <2>. QED
            BY <2>1, SharedStay
    <1>2. ASSUME NEW a \in Apps, Close(a) PROVE SharedInv'
        <2>1. thread' = thread
            BY <1>2 DEF Close
        <2>. QED
            BY <2>1, SharedStay
    <1>3. ASSUME NEW t \in Threads, NEW a \in Apps, NEW f \in Funs,
                 NEW how \in {"task", "own", "now"}, Task(t, a, f, how)
          PROVE  SharedInv'
        BY <1>3, MoveTask, SharedMove DEF Making
    <1>4. ASSUME NEW t \in Threads, NEW f \in Funs, SharedTask(t, f) PROVE SharedInv'
        BY <1>4, MoveSharedTask, SharedMove DEF Making
    <1>5. ASSUME NEW t \in Threads, NEW a \in Apps, NEW f \in Funs,
                 Use(t, a, f) PROVE SharedInv'
        BY <1>5, MoveUse, SharedMove DEF Making
    <1>6. ASSUME NEW t \in Threads, NEW a \in Apps, NEW auto \in BOOLEAN, Finalize(t, a, auto)
          PROVE  SharedInv'
        BY <1>6, MoveFinalize, SharedMove DEF Making
    <1>7. ASSUME NEW t \in Threads, NEW a \in Apps, NEW f \in Funs, RegisterTask(t, a, f)
          PROVE  SharedInv'
        <2>1. thread' = thread
            BY <1>7 DEF RegisterTask
        <2>. QED
            BY <2>1, SharedStay
    <1>8. ASSUME NEW t \in Threads, Connect(t) PROVE SharedInv'
        <2>1. active' = active
            BY <1>8, Frames, Zenon
        <2>. QED
            BY <1>8, <2>1, MoveConnect, SharedMove
    <1>9. ASSUME NEW t \in Threads, Look(t) PROVE SharedInv'
        <2>1. thread[t].op # "shared_task"
            <3>1. thread[t].at = "look"
                BY <1>9, Frames, Zenon
            <3>. QED
                BY <3>1 DEF IInv, Program, Allowed
        <2>. QED
            BY <1>9, <2>1, MoveLook, SharedMove
    <1>18. ASSUME NEW t \in Threads, Promise(t) PROVE SharedInv'
        BY <1>18, MovePromise, SharedMove
    <1>10. ASSUME NEW t \in Threads, NextApp(t) PROVE SharedInv'
        <2>1. thread[t].at = "apps" /\ active' = active /\ finalized' = finalized
            BY <1>10, Frames, Zenon
        <2>2. PICK g : g = thread[t].fun
            OBVIOUS
        <2>3. \A b \in active' : finalized'[b] => b \in thread[t].todo \/ Done(b, g)'
            BY <2>1, <2>2, OwnShared
        <2>4. CASE Becomes(t, "idle", "idle", NoOne, NoOne, {})
            BY <2>4, SharedMove
        <2>5. ASSUME NEW a \in thread[t].todo,
                     Becomes(t, thread[t].op, "check", a, thread[t].fun, thread[t].todo \ {a})
              PROVE  SharedInv'
            BY <2>2, <2>3, <2>5, SharedMove
        <2>6. ASSUME NEW a \in thread[t].todo, ~ finalized[a],
                     Becomes(t, thread[t].op, thread[t].at, thread[t].app, thread[t].fun,
                             thread[t].todo \ {a})
              PROVE  SharedInv'
            BY <2>1, <2>2, <2>3, <2>6, SharedMove
        <2>. QED
            BY <1>10, <2>4, <2>5, <2>6, MoveNextApp
    <1>11. ASSUME NEW t \in Threads, Check(t) PROVE SharedInv'
        <2>1. thread[t].at = "check" /\ tasks' = tasks
            BY <1>11, Frames, Zenon
        <2>2. PICK a \in Apps, g \in Funs : a = thread[t].app /\ g = thread[t].fun
            BY <2>1 DEF IInv, Program, Allowed, Making
        <2>3. thread[t].op = "shared_task" => \A b \in active' : finalized'[b] =>
                 b \in thread[t].todo \/ a = b \/ Done(b, g)'
            BY <2>1, <2>2, OwnShared DEF Making
        <2>4. CASE Becomes(t, thread[t].op, "insert", a, g, thread[t].todo)
            BY <2>3, <2>4, SharedMove
        <2>5. CASE Registered(a, g) /\ Becomes(t, thread[t].op, "made", a, g, thread[t].todo)
            <3>1. Done(a, g)'
                BY <2>1, <2>5 DEF Done, Registered
            <3>. QED
                BY <2>3, <2>5, <3>1, SharedMove
        <2>. QED
            BY <1>11, <2>2, <2>4, <2>5, MoveCheck
    <1>12. ASSUME NEW t \in Threads, Insert(t) PROVE SharedInv'
        <2>1. /\ thread[t].at = "insert"
              /\ tasks' = [tasks EXCEPT ![thread[t].app][Name(thread[t].fun)] = thread[t].fun]
            BY <1>12, Frames, Zenon
        <2>2. PICK a \in Apps, g \in Funs : a = thread[t].app /\ g = thread[t].fun
            BY <2>1 DEF IInv, Program, Allowed, Making
        <2>3. thread[t].op = "shared_task" => \A b \in active' : finalized'[b] =>
                 b \in thread[t].todo \/ a = b \/ Done(b, g)'
            BY <2>1, <2>2, OwnShared DEF Making
        <2>4. Done(a, g)'
            <3>1. tasks \in [Apps -> [Names -> Funs \cup {NoOne}]] /\ Name(g) \in Names
                BY DEF IInv, TypeOK, Names
            <3>2. g # NoOne
                BY DEF AppConstants
            <3>. QED
                BY <2>1, <2>2, <3>1, <3>2 DEF Done, Registered
        <2>. QED
            BY <1>12, <2>2, <2>3, <2>4, MoveInsert, SharedMove
    <1>13. ASSUME NEW t \in Threads, Made(t) PROVE SharedInv'
        <2>1. thread[t].at = "made"
            BY <1>13, Frames, Zenon
        <2>2. PICK g : g = thread[t].fun
            OBVIOUS
        <2>3. thread[t].op = "shared_task" => \A b \in active' : finalized'[b] =>
                 b \in thread[t].todo \/ Done(b, g)'
            BY <2>1, <2>2, OwnShared DEF Making
        <2>. QED
            BY <1>13, <2>2, <2>3, MoveMade, SharedMove
    <1>14. ASSUME NEW t \in Threads, Copy(t) PROVE SharedInv'
        <2>1. thread[t].op # "shared_task"
            <3>1. thread[t].at = "copy"
                BY <1>14, Frames, Zenon
            <3>. QED
                BY <3>1 DEF IInv, Program, Allowed
        <2>. QED
            BY <1>14, <2>1, MoveCopy, SharedMove
    <1>15. ASSUME NEW t \in Threads, Announce(t) PROVE SharedInv'
        <2>1. thread[t].op # "shared_task"
            <3>1. thread[t].at = "announce"
                BY <1>15, Frames, Zenon
            <3>. QED
                BY <3>1 DEF IInv, Program, Allowed
        <2>4. CASE /\ thread[t].todo = {}
                   /\ Becomes(t, "drain", "drain", thread[t].app, thread[t].fun, thread[t].todo)
            BY <2>4, <2>1, SharedMove
        <2>5. ASSUME NEW f \in thread[t].todo, f \in Funs,
                     Becomes(t, thread[t].op, "check", thread[t].app, f, thread[t].todo \ {f})
              PROVE  SharedInv'
            BY <2>5, <2>1, SharedMove
        <2>. QED
            BY <1>15, <2>4, <2>5, MoveAnnounce
    <1>16. ASSUME NEW t \in Threads, Drain(t) PROVE SharedInv'
        <2>1. thread[t].op # "shared_task"
            <3>1. thread[t].at = "drain"
                BY <1>16, Frames, Zenon
            <3>. QED
                BY <3>1 DEF IInv, Program, Allowed
        <2>. QED
            BY <1>16, <2>1, MoveDrain, SharedMove, SharedStay
    <1>17. CASE UNCHANGED vars
        BY <1>17, SharedStay DEF vars
    <1>. QED
        BY <1>1, <1>2, <1>3, <1>4, <1>5, <1>6, <1>7, <1>8, <1>9, <1>10, <1>11, <1>12,
           <1>13, <1>14, <1>15, <1>16, <1>17, <1>18 DEF Next, Step

(* No constructor is forgotten. *)
LEMMA FinalizersGrow ==
    ASSUME IInv, [Next]_vars
    PROVE  finalizers \subseteq finalizers'
    <1>1. ASSUME NEW a \in Apps, NewApp(a) PROVE finalizers \subseteq finalizers'
        BY <1>1 DEF NewApp
    <1>2. ASSUME NEW a \in Apps, Close(a) PROVE finalizers \subseteq finalizers'
        BY <1>2 DEF Close
    <1>3. ASSUME NEW t \in Threads, NEW a \in Apps, NEW f \in Funs,
                 NEW how \in {"task", "own", "now"}, Task(t, a, f, how)
          PROVE  finalizers \subseteq finalizers'
        BY <1>3, MoveTask
    <1>4. ASSUME NEW t \in Threads, NEW f \in Funs, SharedTask(t, f)
          PROVE  finalizers \subseteq finalizers'
        BY <1>4, MoveSharedTask
    <1>5. ASSUME NEW t \in Threads, NEW a \in Apps, NEW f \in Funs, Use(t, a, f)
          PROVE  finalizers \subseteq finalizers'
        BY <1>5, MoveUse
    <1>6. ASSUME NEW t \in Threads, NEW a \in Apps, NEW auto \in BOOLEAN, Finalize(t, a, auto)
          PROVE  finalizers \subseteq finalizers'
        BY <1>6, MoveFinalize
    <1>7. ASSUME NEW t \in Threads, NEW a \in Apps, NEW f \in Funs, RegisterTask(t, a, f)
          PROVE  finalizers \subseteq finalizers'
        BY <1>7 DEF RegisterTask
    <1>8. ASSUME NEW t \in Threads, Step(t)
          PROVE  finalizers \subseteq finalizers'
        BY <1>8, Frames DEF Step
    <1>9. CASE UNCHANGED vars
        BY <1>9 DEF vars
    <1>. QED
        BY <1>1, <1>2, <1>3, <1>4, <1>5, <1>6, <1>7, <1>8, <1>9 DEF Next

(* A declaration that is kept stays kept. *)
LEMMA KeptStep ==
    ASSUME AppConstants, IInv, [Next]_vars, NEW d, Kept(d)
    PROVE  Kept(d)'
    <1>1. finalizers \subseteq finalizers'
        BY FinalizersGrow
    <1>2. ASSUME d[1] = "shared_task", NEW b \in active', finalized'[b]
          PROVE  Done(b, d[3])'
        BY <1>2, Activation, StillDone DEF Kept
    <1>3. ASSUME d[1] \in {"task", "now"}, finalized'[d[2]]
          PROVE  Done(d[2], d[3])'
        BY <1>3, StillDone DEF Kept
    <1>. QED
        BY <1>1, <1>2, <1>3 DEF Kept

(* Every step keeps the declarations that have returned. *)
LEMMA DeclaredStep ==
    ASSUME AppConstants, IInv, [Next]_vars
    PROVE  DeclaredInv'
    <1>0. ASSUME NEW d \in declared
          PROVE  Kept(d)'
        BY KeptStep DEF IInv, DeclaredInv
    <1>1. ASSUME NEW a \in Apps, NewApp(a) PROVE DeclaredInv'
        BY <1>0, <1>1 DEF NewApp, DeclaredInv
    <1>2. ASSUME NEW a \in Apps, Close(a) PROVE DeclaredInv'
        BY <1>0, <1>2 DEF Close, DeclaredInv
    <1>3. ASSUME NEW t \in Threads, NEW a \in Apps, NEW f \in Funs,
                 NEW how \in {"task", "own", "now"}, Task(t, a, f, how)
          PROVE  DeclaredInv'
        BY <1>0, <1>3, MoveTask DEF DeclaredInv
    <1>4. ASSUME NEW t \in Threads, NEW f \in Funs, SharedTask(t, f) PROVE DeclaredInv'
        BY <1>0, <1>4, MoveSharedTask DEF DeclaredInv
    <1>5. ASSUME NEW t \in Threads, NEW a \in Apps, NEW f \in Funs, Use(t, a, f)
          PROVE  DeclaredInv'
        BY <1>0, <1>5, MoveUse DEF DeclaredInv
    <1>6. ASSUME NEW t \in Threads, NEW a \in Apps, NEW auto \in BOOLEAN, Finalize(t, a, auto)
          PROVE  DeclaredInv'
        BY <1>0, <1>6, MoveFinalize DEF DeclaredInv
    <1>7. ASSUME NEW t \in Threads, NEW a \in Apps, NEW f \in Funs, RegisterTask(t, a, f)
          PROVE  DeclaredInv'
        <2>1. declared' = declared \cup {<<"register_task", a, f>>}
            BY <1>7 DEF RegisterTask
        <2>2. Kept(<<"register_task", a, f>>)'
            BY DEF Kept
        <2>. QED
            BY <1>0, <2>1, <2>2 DEF DeclaredInv
    <1>8. ASSUME NEW t \in Threads, Connect(t) PROVE DeclaredInv'
        BY <1>0, <1>8, Frames DEF DeclaredInv
    <1>9. ASSUME NEW t \in Threads, Look(t) PROVE DeclaredInv'
        BY <1>0, <1>9, Frames DEF DeclaredInv
    <1>18. ASSUME NEW t \in Threads, Promise(t) PROVE DeclaredInv'
        <2>1. PICK p, a, g : p = thread[t].op /\ a = thread[t].app /\ g = thread[t].fun
            OBVIOUS
        <2>2. Kept(<<p, a, g>>)
            BY <1>18, <2>1, Frames DEF IInv, PromisedInv
        <2>3. Kept(<<p, a, g>>)'
            BY <2>2, KeptStep
        <2>. QED
            BY <1>0, <1>18, <2>1, <2>3, Frames DEF DeclaredInv, Returned
    <1>10. ASSUME NEW t \in Threads, NextApp(t) PROVE DeclaredInv'
        <2>1. CASE declared' = declared
            BY <1>0, <2>1 DEF DeclaredInv
        <2>2. CASE thread[t].todo = {} /\ Returned(t)
            <3>1. thread[t].at = "apps" /\ finalizers' = finalizers
                BY <1>10, Frames, Zenon
            <3>2. PICK a, g : a = thread[t].app /\ g = thread[t].fun
                OBVIOUS
            <3>3. Allowed(thread[t].op, thread[t].at, thread[t].app, thread[t].fun, thread[t].todo)
                BY DEF IInv, Program
            <3>4. \A b \in active' : finalized'[b] => Done(b, g)'
                BY <2>2, <3>1, <3>2, OwnShared
            <3>5. Kept(<<"shared_task", a, g>>)'
                BY <3>1, <3>2, <3>3, <3>4 DEF Kept, Allowed
            <3>. QED
                BY <1>0, <2>2, <3>1, <3>2, <3>3, <3>5 DEF DeclaredInv, Returned, Allowed
        <2>. QED
            BY <1>10, <2>1, <2>2, MoveNextApp, Frames
    <1>11. ASSUME NEW t \in Threads, Check(t) PROVE DeclaredInv'
        BY <1>0, <1>11, Frames DEF DeclaredInv
    <1>12. ASSUME NEW t \in Threads, Insert(t) PROVE DeclaredInv'
        BY <1>0, <1>12, Frames DEF DeclaredInv
    <1>13. ASSUME NEW t \in Threads, Made(t) PROVE DeclaredInv'
        <2>1. CASE declared' = declared
            BY <1>0, <2>1 DEF DeclaredInv
        <2>2. CASE thread[t].op \in {"task", "own", "now", "use"} /\ Returned(t)
            <3>1. thread[t].at = "made" /\ finalizers' = finalizers /\ tasks' = tasks
                BY <1>13, Frames, Zenon
            <3>2. PICK p, a, g : p = thread[t].op /\ a = thread[t].app /\ g = thread[t].fun
                OBVIOUS
            <3>3. Allowed(thread[t].op, thread[t].at, thread[t].app, thread[t].fun, thread[t].todo)
                BY DEF IInv, Program
            <3>4. Done(a, g)'
                BY <3>1, <3>2 DEF IInv, MadeInv, Done, Registered
            <3>5. Kept(<<p, a, g>>)'
                BY <2>2, <3>1, <3>2, <3>3, <3>4 DEF Kept, Allowed, Making
            <3>. QED
                BY <1>0, <2>2, <3>2, <3>5 DEF DeclaredInv, Returned
        <2>. QED
            BY <1>13, <2>1, <2>2, MoveMade, Frames
    <1>14. ASSUME NEW t \in Threads, Copy(t) PROVE DeclaredInv'
        BY <1>0, <1>14, Frames DEF DeclaredInv
    <1>15. ASSUME NEW t \in Threads, Announce(t) PROVE DeclaredInv'
        BY <1>0, <1>15, Frames DEF DeclaredInv
    <1>16. ASSUME NEW t \in Threads, Drain(t) PROVE DeclaredInv'
        BY <1>0, <1>16, Frames DEF DeclaredInv
    <1>17. CASE UNCHANGED vars
        BY <1>0, <1>17 DEF vars, DeclaredInv
    <1>. QED
        BY <1>1, <1>2, <1>3, <1>4, <1>5, <1>6, <1>7, <1>8, <1>9, <1>10, <1>11, <1>12,
           <1>13, <1>14, <1>15, <1>16, <1>17, <1>18 DEF Next, Step

(* A step of t keeps the promises of the others ... *)
LEMMA PromisedMove ==
    ASSUME AppConstants, IInv, [Next]_vars, NEW t \in Threads,
           NEW p, NEW l, NEW a, NEW f, NEW S, Becomes(t, p, l, a, f, S),
           l = "promise" => Kept(<<p, a, f>>)'
    PROVE  PromisedInv'
    <1>. SUFFICES ASSUME NEW u \in Threads, thread'[u].at = "promise"
                  PROVE  Kept(<<thread[u].op, thread[u].app, thread[u].fun>>)'
        BY DEF PromisedInv
    <1>1. CASE u = t
        BY <1>1 DEF Becomes, Kept, Done, Registered, Coming, Brings
    <1>2. CASE u # t
        <2>1. thread'[u] = thread[u]
            BY <1>2 DEF Becomes
        <2>2. PICK q, b, g : q = thread[u].op /\ b = thread[u].app /\ g = thread[u].fun
            OBVIOUS
        <2>3. Kept(<<q, b, g>>)
            BY <2>1, <2>2 DEF IInv, PromisedInv
        <2>4. Kept(<<q, b, g>>)'
            BY <2>3, KeptStep
        <2>. QED
            BY <2>1, <2>2, <2>4 DEF Kept, Done, Registered, Coming, Brings
    <1>. QED
        BY <1>1, <1>2

(* ... and so does one that moves no thread. *)
LEMMA PromisedStay ==
    ASSUME AppConstants, IInv, [Next]_vars, thread' = thread
    PROVE  PromisedInv'
    <1>. SUFFICES ASSUME NEW u \in Threads, thread[u].at = "promise"
                  PROVE  Kept(<<thread[u].op, thread[u].app, thread[u].fun>>)'
        BY DEF PromisedInv
    <1>1. PICK q, b, g : q = thread[u].op /\ b = thread[u].app /\ g = thread[u].fun
        OBVIOUS
    <1>2. Kept(<<q, b, g>>)'
        BY <1>1, KeptStep DEF IInv, PromisedInv
    <1>. QED
        BY <1>1, <1>2 DEF Kept, Done, Registered, Coming, Brings

(* A step that leaves its thread elsewhere than before an append keeps the  *)
(* promises of the other threads.                                           *)
LEMMA PromisedElse ==
    ASSUME AppConstants, IInv, [Next]_vars, NEW t \in Threads,
           thread'[t].at # "promise", \A u \in Threads \ {t} : thread'[u] = thread[u]
    PROVE  PromisedInv'
    <1>. SUFFICES ASSUME NEW u \in Threads, thread'[u].at = "promise"
                  PROVE  Kept(<<thread[u].op, thread[u].app, thread[u].fun>>)'
        BY DEF PromisedInv
    <1>1. thread'[u] = thread[u]
        OBVIOUS
    <1>2. PICK q, b, g : q = thread[u].op /\ b = thread[u].app /\ g = thread[u].fun
        OBVIOUS
    <1>3. Kept(<<q, b, g>>)'
        BY <1>1, <1>2, KeptStep DEF IInv, PromisedInv
    <1>. QED
        BY <1>1, <1>2, <1>3 DEF Kept, Done, Registered, Coming, Brings

(* Every step keeps the promises that are about to be appended. *)
LEMMA PromisedStep ==
    ASSUME AppConstants, IInv, [Next]_vars
    PROVE  PromisedInv'
    <1>1. ASSUME NEW a \in Apps, NewApp(a) PROVE PromisedInv'
        BY <1>1, PromisedStay DEF NewApp
    <1>2. ASSUME NEW a \in Apps, Close(a) PROVE PromisedInv'
        BY <1>2, PromisedStay DEF Close
    <1>3. ASSUME NEW t \in Threads, NEW a \in Apps, NEW f \in Funs,
                 NEW how \in {"task", "own", "now"}, Task(t, a, f, how)
          PROVE  PromisedInv'
        <2>1. thread'[t].at # "promise" /\ \A u \in Threads \ {t} : thread'[u] = thread[u]
            BY <1>3, MoveTask DEF Becomes
        <2>. QED
            BY <2>1, PromisedElse
    <1>4. ASSUME NEW t \in Threads, NEW f \in Funs, SharedTask(t, f) PROVE PromisedInv'
        BY <1>4, MoveSharedTask, PromisedMove
    <1>5. ASSUME NEW t \in Threads, NEW a \in Apps, NEW f \in Funs, Use(t, a, f)
          PROVE  PromisedInv'
        BY <1>5, MoveUse, PromisedMove
    <1>6. ASSUME NEW t \in Threads, NEW a \in Apps, NEW auto \in BOOLEAN, Finalize(t, a, auto)
          PROVE  PromisedInv'
        <2>1. Becomes(t, "finalize", "copy", a, NoOne, {})
            BY <1>6, MoveFinalize, Zenon
        <2>2. thread'[t].at # "promise" /\ \A u \in Threads \ {t} : thread'[u] = thread[u]
            BY <2>1 DEF Becomes
        <2>. QED
            BY <2>2, PromisedElse
    <1>7. ASSUME NEW t \in Threads, NEW a \in Apps, NEW f \in Funs, RegisterTask(t, a, f)
          PROVE  PromisedInv'
        BY <1>7, PromisedStay DEF RegisterTask
    <1>8. ASSUME NEW t \in Threads, Connect(t) PROVE PromisedInv'
        <2>1. thread'[t].at # "promise" /\ \A u \in Threads \ {t} : thread'[u] = thread[u]
            BY <1>8, MoveConnect DEF Becomes
        <2>. QED
            BY <2>1, PromisedElse
    <1>9. ASSUME NEW t \in Threads, Look(t) PROVE PromisedInv'
        <2>1. thread[t].at = "look" /\ finalized' = finalized /\ finalizers' = finalizers
            BY <1>9, Frames, Zenon
        <2>2. PICK p, a, g, S :
                 p = thread[t].op /\ a = thread[t].app /\ g = thread[t].fun /\ S = thread[t].todo
            OBVIOUS
        <2>3. Allowed(p, "look", a, g, S)
            BY <2>1, <2>2 DEF IInv, Program
        <2>4. ~ finalized[a] => Kept(<<p, a, g>>)'
            BY <2>1, <2>3 DEF Kept, Allowed
        <2>. QED
            BY <1>9, <2>2, <2>4, MoveLook, PromisedMove
    <1>18. ASSUME NEW t \in Threads, Promise(t) PROVE PromisedInv'
        BY <1>18, MovePromise, PromisedMove
    <1>10. ASSUME NEW t \in Threads, NextApp(t) PROVE PromisedInv'
        <2>1. thread[t].at = "apps"
            BY <1>10, Zenon DEF NextApp
        <2>2. thread'[t].at # "promise" /\ \A u \in Threads \ {t} : thread'[u] = thread[u]
            BY <1>10, <2>1, MoveNextApp DEF Becomes
        <2>. QED
            BY <2>2, PromisedElse
    <1>11. ASSUME NEW t \in Threads, Check(t) PROVE PromisedInv'
        <2>1. thread'[t].at # "promise" /\ \A u \in Threads \ {t} : thread'[u] = thread[u]
            BY <1>11, MoveCheck DEF Becomes
        <2>. QED
            BY <2>1, PromisedElse
    <1>12. ASSUME NEW t \in Threads, Insert(t) PROVE PromisedInv'
        <2>1. thread'[t].at # "promise" /\ \A u \in Threads \ {t} : thread'[u] = thread[u]
            BY <1>12, MoveInsert DEF Becomes
        <2>. QED
            BY <2>1, PromisedElse
    <1>13. ASSUME NEW t \in Threads, Made(t) PROVE PromisedInv'
        <2>1. thread'[t].at # "promise" /\ \A u \in Threads \ {t} : thread'[u] = thread[u]
            BY <1>13, MoveMade DEF Becomes
        <2>. QED
            BY <2>1, PromisedElse
    <1>14. ASSUME NEW t \in Threads, Copy(t) PROVE PromisedInv'
        BY <1>14, MoveCopy, PromisedMove
    <1>15. ASSUME NEW t \in Threads, Announce(t) PROVE PromisedInv'
        <2>1. thread'[t].at # "promise" /\ \A u \in Threads \ {t} : thread'[u] = thread[u]
            BY <1>15, MoveAnnounce DEF Becomes
        <2>. QED
            BY <2>1, PromisedElse
    <1>16. ASSUME NEW t \in Threads, Drain(t) PROVE PromisedInv'
        <2>1. \/ thread' = thread
              \/ /\ thread'[t].at # "promise"
                 /\ \A u \in Threads \ {t} : thread'[u] = thread[u]
            BY <1>16, MoveDrain DEF Becomes
        <2>. QED
            BY <2>1, PromisedElse, PromisedStay
    <1>17. CASE UNCHANGED vars
        BY <1>17, PromisedStay DEF vars
    <1>. QED
        BY <1>1, <1>2, <1>3, <1>4, <1>5, <1>6, <1>7, <1>8, <1>9, <1>10, <1>11, <1>12,
           <1>13, <1>14, <1>15, <1>16, <1>17, <1>18 DEF Next, Step

(* A process that has declared nothing satisfies the inductive invariant. *)
LEMMA InitInv == ASSUME AppConstants, Init PROVE IInv
    <1>1. Idle \in Thread /\ Idle.op = "idle" /\ Idle.at = "idle"
        BY DEF Idle, Thread, Ops, Labels
    <1>2. TypeOK /\ ThreadTypes
        BY <1>1 DEF Init, TypeOK, ThreadTypes, DeclaredTypes
    <1>3. \A t \in Threads : thread[t].op = "idle" /\ thread[t].at = "idle"
        BY <1>1 DEF Init
    <1>4. Program /\ Locked /\ MadeInv /\ SharedInv
        BY <1>3 DEF Program, Allowed, Locked, HoldsMutex, Making, MadeInv, SharedInv
    <1>5. DeclaredInv /\ PromisedInv
        BY <1>3 DEF Init, DeclaredInv, PromisedInv
    <1>. QED
        BY <1>2, <1>4, <1>5 DEF IInv

(* Every step keeps the inductive invariant. *)
LEMMA NextInv == ASSUME AppConstants, IInv, [Next]_vars PROVE IInv'
    BY TypesStep, ThreadsStep, DeclaredTypesStep, ProgramStep, LockedStep, MadeStep,
       SharedStep, DeclaredStep, PromisedStep DEF IInv, ThreadTypes

(* Where no one holds the mutex no one is finalizing. *)
LEMMA InvImplies == ASSUME AppConstants, IInv PROVE Registration
    <1>1. ASSUME NEW a \in Apps, NEW g, Ready(a), Done(a, g)
          PROVE  tasks[a][Name(g)] # NoOne
        <2>1. ~ Coming(a, g)
            <3>1. \A t \in Threads : thread[t].op = "finalize" => mutex[thread[t].app] = t
                BY DEF IInv, Locked, HoldsMutex
            <3>2. mutex[a] = NoOne
                BY <1>1 DEF Ready
            <3>. QED
                BY <3>1, <3>2 DEF Coming, Brings, AppConstants
        <2>. QED
            BY <1>1, <2>1 DEF Done, Registered
    <1>2. NoDeclarationLost
        BY <1>1 DEF IInv, DeclaredInv, Kept, NoDeclarationLost, Ready
    <1>. QED
        BY <1>2 DEF IInv, Registration

(* No declaration is lost, for any number of threads, applications and     *)
(* functions.                                                              *)
THEOREM NoneLost ==
    ASSUME AppConstants
    PROVE  Spec => []Registration
    <1>1. Init => IInv
        BY InitInv
    <1>2. IInv /\ [Next]_vars => IInv'
        BY NextInv
    <1>3. IInv => Registration
        BY InvImplies
    <1>. QED
        BY <1>1, <1>2, <1>3, PTL DEF Spec
=============================================================================
