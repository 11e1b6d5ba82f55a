-------------------------------- MODULE App --------------------------------
(* The task registry of an application: tasks are declared by decorators   *)
(* in any thread, before, while and after another thread finalizes the     *)
(* application (app/base.py, app/__init__.py, _state.py, local.py).        *)
EXTENDS Naturals, Sequences, FiniteSets, SequencesExt

CONSTANTS Threads, Apps, Funs,
    Name(_),          \* the name a function is registered under
    AutoFinalize      \* the applications made with autofinalize=True

NoOne == "no one"
AppConstants == NoOne \notin Threads \cup Apps \cup Funs

VARIABLES
    active,       \* _state._apps
    finalizers,   \* _state._on_app_finalizers, the functions they register
    finalized,    \* app.finalized
    mutex,        \* app._finalize_mutex, its owner
    tasks,        \* app._tasks, for each name the function
    proxies,      \* app._pending, the functions of the promises
    evaluated,    \* the promises that have been kept: <<app, function>>
    thread,       \* what each thread is doing
    declared      \* the declarations that have returned: <<how, app, function>>

vars == <<active, finalizers, finalized, mutex, tasks, proxies, evaluated, thread, declared>>

Names == {Name(f) : f \in Funs}
Idle == [op |-> "idle", at |-> "idle", app |-> NoOne, fun |-> NoOne, todo |-> {}]

TypeOK ==
    /\ active \subseteq Apps /\ finalizers \subseteq Funs
    /\ finalized \in [Apps -> BOOLEAN]
    /\ mutex \in [Apps -> Threads \cup {NoOne}]
    /\ tasks \in [Apps -> [Names -> Funs \cup {NoOne}]]
    /\ proxies \in [Apps -> Seq(Funs)]

Init ==
    /\ active = {} /\ finalizers = {} /\ evaluated = {} /\ declared = {}
    /\ finalized = [a \in Apps |-> FALSE]
    /\ mutex = [a \in Apps |-> NoOne]
    /\ tasks = [a \in Apps |-> [n \in Names |-> NoOne]]
    /\ proxies = [a \in Apps |-> <<>>]
    /\ thread = [t \in Threads |-> Idle]

Unused(f) ==
    /\ \A t \in Threads : thread[t].fun # f
    /\ \A d \in declared : d[3] # f

Begin(t, op, at, a, f) ==
    /\ thread[t] = Idle
    /\ thread' = [thread EXCEPT ![t] =
          [op |-> op, at |-> at, app |-> a, fun |-> f, todo |-> {}]]

Goto(t, at) == thread' = [thread EXCEPT ![t].at = at]

\* the declaration a thread works on has returned
Returned(t) == declared' = declared \cup {<<thread[t].op, thread[t].app, thread[t].fun>>}
Return(t) == thread' = [thread EXCEPT ![t] = Idle]

-----------------------------------------------------------------------------
\* Celery.__init__ ends with _register_app
NewApp(a) ==
    /\ a \notin active
    /\ ~ finalized[a]     \* an application that was closed is not made again
    /\ active' = active \cup {a}
    /\ UNCHANGED <<finalizers, finalized, mutex, tasks, proxies, evaluated, thread, declared>>

\* app.close()
Close(a) ==
    /\ a \in active /\ finalized[a]
    /\ active' = active \ {a}
    /\ UNCHANGED <<finalizers, finalized, mutex, tasks, proxies, evaluated, thread, declared>>

(* @app.task(shared=..., lazy=...): "task" shared and lazy, "own" not      *)
(* shared, "now" shared and not lazy.                                      *)
Task(t, a, f, how) ==
    /\ a \in active /\ Unused(f)
    /\ Begin(t, how, IF how = "own" THEN "look" ELSE "connect", a, f)
    /\ UNCHANGED <<active, finalizers, finalized, mutex, tasks, proxies, evaluated, declared>>

\* @shared_task
SharedTask(t, f) ==
    /\ Unused(f)
    /\ Begin(t, "shared_task", "connect", NoOne, f)
    /\ UNCHANGED <<active, finalizers, finalized, mutex, tasks, proxies, evaluated, declared>>

\* Mutant of Connect: the constructor is only remembered by the apps there are.
ConnectForgotten(t) ==
    /\ thread[t].at = "connect"
    /\ thread' = [thread EXCEPT ![t].at = IF thread[t].op = "shared_task"
                                          THEN "apps" ELSE "look",
                                ![t].todo = IF thread[t].op = "shared_task" THEN active ELSE {}]
    /\ UNCHANGED <<active, finalizers, finalized, mutex, tasks, proxies, evaluated, declared>>

\* connect_on_app_finalize; shared_task then goes through the active apps
Connect(t) ==
    /\ thread[t].at = "connect"
    /\ finalizers' = finalizers \cup {thread[t].fun}
    /\ thread' = [thread EXCEPT ![t].at = IF thread[t].op = "shared_task"
                                          THEN "apps" ELSE "look",
                                ![t].todo = IF thread[t].op = "shared_task" THEN active ELSE {}]
    /\ UNCHANGED <<active, finalized, mutex, tasks, proxies, evaluated, declared>>

\* if not lazy or self.finalized: make the task, else promise it
Look(t) ==
    LET a == thread[t].app
        make == thread[t].op = "now" \/ finalized[a]
        breach == ~ finalized[a] /\ a \notin AutoFinalize
    IN
    /\ thread[t].at = "look"
    /\ \/ make /\ ~ breach /\ Goto(t, "check")
       \/ make /\ breach /\ Return(t)          \* RuntimeError
       \/ ~ make /\ Goto(t, "promise")
    /\ UNCHANGED <<active, finalizers, finalized, mutex, tasks, proxies, evaluated, declared>>

\* self._pending.append(ret): the application may have been finalized since
Promise(t) ==
    /\ thread[t].at = "promise"
    /\ proxies' = [proxies EXCEPT ![thread[t].app] = Append(@, thread[t].fun)]
    /\ Returned(t) /\ Return(t)
    /\ UNCHANGED <<active, finalizers, finalized, mutex, tasks, evaluated>>

\* for app in _get_active_apps(): if app.finalized: with app._finalize_mutex
NextApp(t) ==
    /\ thread[t].at = "apps"
    /\ \/ /\ thread[t].todo = {}
          /\ Returned(t) /\ Return(t)
          /\ UNCHANGED mutex
       \/ \E a \in thread[t].todo :
             /\ IF finalized[a]
                THEN /\ mutex[a] = NoOne
                     /\ mutex' = [mutex EXCEPT ![a] = t]
                     /\ thread' = [thread EXCEPT ![t].at = "check", ![t].app = a,
                                                 ![t].todo = thread[t].todo \ {a}]
                ELSE /\ thread' = [thread EXCEPT ![t].todo = thread[t].todo \ {a}]
                     /\ UNCHANGED mutex
             /\ UNCHANGED declared
    /\ UNCHANGED <<active, finalizers, finalized, tasks, proxies, evaluated>>

-----------------------------------------------------------------------------
(* _task_from_fun: if name not in self._tasks ... self._tasks[name] = task *)
(* The lookup and the insertion are two steps.                             *)
Check(t) ==
    /\ thread[t].at = "check"
    /\ Goto(t, IF tasks[thread[t].app][Name(thread[t].fun)] = NoOne THEN "insert" ELSE "made")
    /\ UNCHANGED <<active, finalizers, finalized, mutex, tasks, proxies, evaluated, declared>>

Insert(t) ==
    /\ thread[t].at = "insert"
    /\ tasks' = [tasks EXCEPT ![thread[t].app][Name(thread[t].fun)] = thread[t].fun]
    /\ Goto(t, "made")
    /\ UNCHANGED <<active, finalizers, finalized, mutex, proxies, evaluated, declared>>

\* what the caller of _task_from_fun does next
Made(t) ==
    LET a == thread[t].app IN
    /\ thread[t].at = "made"
    /\ \/ /\ thread[t].op \in {"task", "own", "now"}
          /\ Returned(t) /\ Return(t)
          /\ UNCHANGED <<mutex, evaluated>>
       \/ /\ thread[t].op = "use"
          /\ evaluated' = evaluated \cup {<<a, thread[t].fun>>}
          /\ Return(t)
          /\ UNCHANGED <<mutex, declared>>
       \/ /\ thread[t].op = "shared_task"
          /\ mutex' = [mutex EXCEPT ![a] = NoOne]
          /\ thread' = [thread EXCEPT ![t].at = "apps", ![t].app = NoOne]
          /\ UNCHANGED <<evaluated, declared>>
       \/ /\ thread[t].op = "finalize"
          /\ thread' = [thread EXCEPT ![t].at = "announce", ![t].fun = NoOne]
          /\ UNCHANGED <<mutex, evaluated, declared>>
       \/ /\ thread[t].op = "drain"
          /\ evaluated' = evaluated \cup {<<a, thread[t].fun>>}
          /\ thread' = [thread EXCEPT ![t].at = "drain", ![t].fun = NoOne]
          /\ UNCHANGED <<mutex, declared>>
    /\ UNCHANGED <<active, finalizers, finalized, tasks, proxies>>

\* a promise is used: PromiseProxy._get_current_object, __evaluate__
Use(t, a, f) ==
    /\ <<a, f>> \notin evaluated
    /\ \E how \in {"task", "own"} : <<how, a, f>> \in declared
    /\ finalized[a] \/ a \in AutoFinalize
    /\ Begin(t, "use", "check", a, f)
    /\ UNCHANGED <<active, finalizers, finalized, mutex, tasks, proxies, evaluated, declared>>

\* register_task: app.tasks finalizes first, then the task replaces another
RegisterTask(t, a, f) ==
    /\ thread[t] = Idle /\ Unused(f)
    /\ finalized[a] /\ mutex[a] = NoOne /\ a \in active
    /\ tasks' = [tasks EXCEPT ![a][Name(f)] = f]
    /\ declared' = declared \cup {<<"register_task", a, f>>}
    /\ UNCHANGED <<active, finalizers, finalized, mutex, proxies, evaluated, thread>>

-----------------------------------------------------------------------------
\* app.finalize(auto): app.tasks calls it with auto=True
Finalize(t, a, auto) ==
    /\ a \in active
    /\ auto => a \in AutoFinalize \/ finalized[a]   \* otherwise RuntimeError
    /\ mutex[a] = NoOne
    /\ ~ finalized[a]
    /\ Begin(t, "finalize", "copy", a, NoOne)
    /\ mutex' = [mutex EXCEPT ![a] = t]
    /\ finalized' = [finalized EXCEPT ![a] = TRUE]
    /\ UNCHANGED <<active, finalizers, tasks, proxies, evaluated, declared>>

\* _announce_app_finalized: callbacks = set(_on_app_finalizers)
Copy(t) ==
    /\ thread[t].at = "copy"
    /\ thread' = [thread EXCEPT ![t].at = "announce", ![t].todo = finalizers]
    /\ UNCHANGED <<active, finalizers, finalized, mutex, tasks, proxies, evaluated, declared>>

Announce(t) ==
    /\ thread[t].at = "announce"
    /\ \/ /\ thread[t].todo = {}
          /\ thread' = [thread EXCEPT ![t].at = "drain", ![t].op = "drain"]
       \/ \E f \in thread[t].todo :
             thread' = [thread EXCEPT ![t].at = "check", ![t].fun = f,
                                         ![t].todo = thread[t].todo \ {f}]
    /\ UNCHANGED <<active, finalizers, finalized, mutex, tasks, proxies, evaluated, declared>>

\* while pending: maybe_evaluate(pending.popleft()); then bind and release
Drain(t) ==
    LET a == thread[t].app IN
    /\ thread[t].at = "drain"
    /\ IF proxies[a] = <<>>
       THEN /\ mutex' = [mutex EXCEPT ![a] = NoOne]
            /\ Return(t)
            /\ UNCHANGED proxies
       ELSE /\ proxies' = [proxies EXCEPT ![a] = Tail(@)]
            /\ thread' = IF <<a, Head(proxies[a])>> \in evaluated THEN thread
                         ELSE [thread EXCEPT ![t].at = "check", ![t].fun = Head(proxies[a])]
            /\ UNCHANGED mutex
    /\ UNCHANGED <<active, finalizers, finalized, tasks, evaluated, declared>>

Step(t) ==
    Connect(t) \/ Look(t) \/ Promise(t) \/ NextApp(t) \/ Check(t) \/ Insert(t) \/ Made(t)
      \/ Copy(t) \/ Announce(t) \/ Drain(t)

Next ==
    \/ \E a \in Apps : NewApp(a) \/ Close(a)
    \/ \E t \in Threads, f \in Funs : SharedTask(t, f)
    \/ \E t \in Threads, a \in Apps, f \in Funs :
          \/ \E how \in {"task", "own", "now"} : Task(t, a, f, how)
          \/ Use(t, a, f)
          \/ RegisterTask(t, a, f)
    \/ \E t \in Threads, a \in Apps : \E auto \in BOOLEAN : Finalize(t, a, auto)
    \/ \E t \in Threads : Step(t)

\* a thread that runs goes on running
Spec == Init /\ [][Next]_vars /\ \A t \in Threads : WF_vars(Step(t))

-----------------------------------------------------------------------------
Ready(a) == a \in active /\ finalized[a] /\ mutex[a] = NoOne

(* Whatever the threads do, a declaration that has returned is not lost:   *)
(* what @app.task declared with shared=True is registered in its           *)
(* application once that is finalized, what @shared_task declared is       *)
(* registered in every finalized application.  (base.py:611 connects the   *)
(* function before it looks at `finalized', finalize sets `finalized'      *)
(* before it copies the functions.)                                        *)
NoDeclarationLost ==
    \A d \in declared, a \in Apps :
       /\ Ready(a)
       /\ \/ d[1] = "shared_task"
          \/ d[1] \in {"task", "now"} /\ d[2] = a
       => tasks[a][Name(d[3])] # NoOne

\* base.py:585, "the act of creating the task is not performed until the task is used
\* or the task registry is accessed": what @app.task(shared=False) declared is in the
\* registry of an application that has been finalized.
OwnTasksKept ==
    \A d \in declared, a \in Apps :
       Ready(a) /\ d[1] = "own" /\ d[2] = a => tasks[a][Name(d[3])] # NoOne

Registration == TypeOK /\ NoDeclarationLost
=============================================================================
