------------------------ MODULE ResultConsumerProofs ------------------------
(***************************************************************************)
(* Waiting for results, for any number of threads, tasks and get() calls:  *)
(* no cancellation is forgotten, and a thread that waits will be woken.    *)
(*                                                                         *)
(* The first needs only that the lock has the holder the code says         *)
(* (LockInv).  The second follows a get() from its first line on (Stage):  *)
(* before it registers its AsyncResult nothing else is registered for its  *)
(* task; from then on it has its result or stays registered; once it has   *)
(* subscribed, the channel stays; and once it has looked whether the       *)
(* result is stored already, a stored result has its message in the        *)
(* connection.                                                             *)
(***************************************************************************)
EXTENDS ResultConsumer, TLAPS

Locked == {"leave", "towait", "mget", "resub"}
LockInv == \A t \in Threads : (pc[t] \in Locked <=> lock = t) /\ ret[t] \notin Locked

(* The places a get() passes, those of the calls it makes included.        *)
Calls == {"leave", "flush"}
Early(t) ==
    \/ pc[t] \in {"call", "send", "add", "register"}
    \/ pc[t] \in Calls \cup {"consume"} /\ ret[t] \in {"send", "add"}
Subscribing(t) == pc[t] = "consume" /\ ret[t] = "meta"
Looking(t) == pc[t] = "meta" \/ (pc[t] \in Calls /\ ret[t] = "meta")

Registered(t) == pending[Task[t]] = t
Subscribed(t) == Registered(t) /\ Task[t] \in subs \ unsubscribe
Announced(t) == Subscribed(t) /\ (Task[t] \in stored => Task[t] \in inbox)

(* Where a thread is, and what holds there.                                *)
Stage(t) ==
    \/ Early(t) /\ pending[Task[t]] = None
    \/ Subscribing(t) /\ (ready[t] \/ Registered(t))
    \/ Looking(t) /\ (ready[t] \/ Subscribed(t))
    \/ Waiting(t) /\ (ready[t] \/ Announced(t))
    \/ pc[t] = "done" /\ ready[t]

Owned == \A k \in Tasks : pending[k] # None => Task[pending[k]] = k
Connected ==
    /\ up /\ losses = 0 /\ subs = subscribedTo
    /\ \A t \in Threads : pc[t] \notin {"mget", "resub"}

CoverInv == Connected /\ Owned /\ \A t \in Threads : Stage(t)

Inv ==
    /\ TypeOK /\ LockInv /\ CancelNotForgotten
    /\ OwnTasks /\ MaxLosses = 0 => CoverInv

-----------------------------------------------------------------------------
(* Every step keeps the tables well formed.                                *)
LEMMA TypeInit == ASSUME ResultConsumerConstants, Init PROVE TypeOK
    <1>1. 1 \in 1..MaxGets /\ 0 \in 0..MaxLosses
        BY DEF ResultConsumerConstants
    <1>. QED
        BY <1>1 DEF Init, TypeOK, Labels

(* The variables keep their types.                                         *)
LEMMA TypeStep ==
    ASSUME ResultConsumerConstants, TypeOK, [Next]_vars PROVE TypeOK'
    <1>1. ASSUME NEW t \in Threads, OnTaskCall(t) PROVE TypeOK'
        BY <1>1 DEF OnTaskCall, Call, TypeOK, Labels, ResultConsumerConstants, serverVars,
                    keyVars, resultVars, threadVars
    <1>2. ASSUME NEW t \in Threads, Send(t) PROVE TypeOK'
        BY <1>2 DEF Send, Goto, TypeOK, Labels, ResultConsumerConstants, serverVars,
                    keyVars, resultVars, threadVars
    <1>3. ASSUME NEW t \in Threads, ConsumeFrom(t) PROVE TypeOK'
        BY <1>3 DEF ConsumeFrom, Goto, TypeOK, Labels, ResultConsumerConstants,
                    serverVars, keyVars, resultVars, threadVars
    <1>4. ASSUME NEW t \in Threads, AddPending(t) PROVE TypeOK'
        <2>1. Task[t] \in Tasks
            BY DEF ResultConsumerConstants
        <2>2. /\ buffer' \subseteq stored /\ ready' \in [Threads -> BOOLEAN]
              /\ unsubscribe' \subseteq Tasks
              /\ pending' \in [Tasks -> Threads \union {None}]
            BY <1>4, <2>1 DEF AddPending, RemovePending, TypeOK
        <2>3. pc' \in [Threads -> Labels] /\ ret' \in [Threads -> Labels]
            BY <1>4 DEF AddPending, Call, Goto, TypeOK, Labels
        <2>. QED
            BY <1>4, <2>2, <2>3
               DEF AddPending, TypeOK, serverVars, keyVars, resultVars, threadVars
    <1>5. ASSUME NEW t \in Threads, Register(t) PROVE TypeOK'
        BY <1>5 DEF Register, Call, Goto, TypeOK, Labels, ResultConsumerConstants,
                    serverVars, keyVars, resultVars, threadVars
    <1>6. ASSUME NEW t \in Threads, ReadMeta(t) PROVE TypeOK'
        <2>1. Task[t] \in Tasks
            BY DEF ResultConsumerConstants
        <2>2. buffer' \subseteq stored /\ ready' \in [Threads -> BOOLEAN]
            BY <1>6 DEF ReadMeta, TypeOK
        <2>3. /\ unsubscribe' \subseteq Tasks
              /\ pending' \in [Tasks -> Threads \union {None}]
            BY <1>6, <2>1 DEF ReadMeta, RemovePending, TypeOK
        <2>4. pc' \in [Threads -> Labels] /\ ret' \in [Threads -> Labels]
            BY <1>6 DEF ReadMeta, Call, Goto, TypeOK, Labels
        <2>. QED
            BY <1>6, <2>2, <2>3, <2>4
               DEF ReadMeta, TypeOK, serverVars, keyVars, resultVars, threadVars
    <1>7. ASSUME NEW t \in Threads, GetDone(t) PROVE TypeOK'
        BY <1>7 DEF GetDone, Goto, TypeOK, Labels, ResultConsumerConstants, serverVars,
                    keyVars, resultVars, threadVars
    <1>8. ASSUME NEW t \in Threads, Drain(t) PROVE TypeOK'
        <2>1. pc' \in [Threads -> Labels] /\ ret' \in [Threads -> Labels]
            BY <1>8 DEF Drain, DrainOne, Goto, Call, TypeOK, Labels
        <2>2. CASE UNCHANGED <<inbox, unsubscribe, resultVars>>
            BY <1>8, <2>1, <2>2
               DEF Drain, TypeOK, serverVars, keyVars, resultVars, threadVars
        <2>3. CASE \E k \in inbox : inbox' = inbox \ {k} /\ StateChange({k})
            <3>1. /\ inbox' \subseteq stored /\ unsubscribe' \subseteq Tasks
                  /\ pending' \in [Tasks -> Threads \union {None}]
                  /\ buffer' \subseteq stored /\ ready' \in [Threads -> BOOLEAN]
                BY <2>3 DEF StateChange, TypeOK
            <3>. QED
                BY <1>8, <2>1, <3>1
                   DEF Drain, TypeOK, serverVars, keyVars, resultVars, threadVars
        <2>. QED
            BY <1>8, <2>2, <2>3 DEF Drain, DrainOne
    <1>9. ASSUME NEW t \in Threads, Poll(t) PROVE TypeOK'
        BY <1>9 DEF Poll, Goto, TypeOK, Labels, ResultConsumerConstants, serverVars,
                    keyVars, resultVars, threadVars
    <1>10. ASSUME NEW t \in Threads, DrainPolled(t) PROVE TypeOK'
        BY <1>10 DEF DrainPolled, NotifyAll, StateChange, TypeOK, Labels,
                     ResultConsumerConstants, serverVars, keyVars, resultVars, threadVars
    <1>11. ASSUME NEW t \in Threads, Wait(t) PROVE TypeOK'
        BY <1>11 DEF Wait, Goto, TypeOK, Labels, ResultConsumerConstants, serverVars,
                     keyVars, resultVars, threadVars
    <1>12. ASSUME NEW t \in Threads, WaitTimeout(t) PROVE TypeOK'
        BY <1>12 DEF WaitTimeout, Goto, TypeOK, Labels, ResultConsumerConstants,
                     serverVars, keyVars, resultVars, threadVars
    <1>13. ASSUME NEW t \in Threads, Woken(t) PROVE TypeOK'
        BY <1>13 DEF Woken, Call, TypeOK, Labels, ResultConsumerConstants, serverVars,
                     keyVars, resultVars, threadVars
    <1>14. ASSUME NEW t \in Threads, Mget(t) PROVE TypeOK'
        BY <1>14 DEF Mget, StateChange, Goto, TypeOK, Labels, ResultConsumerConstants,
                     serverVars, keyVars, resultVars, threadVars
    <1>15. ASSUME NEW t \in Threads, Resubscribe(t) PROVE TypeOK'
        BY <1>15 DEF Resubscribe, Goto, TypeOK, Labels, ResultConsumerConstants,
                     serverVars, keyVars, resultVars, threadVars
    <1>16. ASSUME NEW t \in Threads, Leave(t) PROVE TypeOK'
        BY <1>16 DEF Leave, Goto, TypeOK, Labels, ResultConsumerConstants, serverVars,
                     keyVars, resultVars, threadVars
    <1>17. ASSUME NEW t \in Threads, Flush(t) PROVE TypeOK'
        BY <1>17 DEF Flush, Goto, TypeOK, Labels, ResultConsumerConstants, serverVars,
                     keyVars, resultVars, threadVars
    <1>18. ASSUME NEW t \in Threads, GiveUp(t) PROVE TypeOK'
        BY <1>18 DEF GiveUp, RemovePending, Call, TypeOK, Labels, ResultConsumerConstants,
                     serverVars, keyVars, resultVars, threadVars
    <1>19. ASSUME NEW k \in Tasks, Finish(k) PROVE TypeOK'
        BY <1>19 DEF Finish, TypeOK, serverVars, keyVars, resultVars, threadVars
    <1>20. CASE ConnectionLost
        <2>1. losses' \in 0..MaxLosses
            BY <1>20 DEF ConnectionLost, TypeOK, ResultConsumerConstants
        <2>. QED
            BY <1>20, <2>1 DEF ConnectionLost, TypeOK, serverVars, keyVars, resultVars,
                               threadVars
    <1>21. CASE UNCHANGED vars
        BY <1>21 DEF vars, TypeOK, serverVars, keyVars, resultVars, threadVars
    <1>. QED
        BY <1>1, <1>2, <1>3, <1>4, <1>5, <1>6, <1>7, <1>8, <1>9, <1>10, <1>11, <1>12,
           <1>13, <1>14, <1>15, <1>16, <1>17, <1>18, <1>19, <1>20, <1>21
           DEF Next, Step

(* The lock has the holder that its place says, and none otherwise.        *)
LEMMA LockStep ==
    ASSUME ResultConsumerConstants, TypeOK, LockInv, [Next]_vars PROVE LockInv'
    <1>1. ASSUME NEW t \in Threads, OnTaskCall(t) PROVE LockInv'
        BY <1>1 DEF OnTaskCall, Call, LockInv, Locked, TypeOK, ResultConsumerConstants
    <1>2. ASSUME NEW t \in Threads, Send(t) PROVE LockInv'
        BY <1>2 DEF Send, Goto, LockInv, Locked, TypeOK, ResultConsumerConstants
    <1>3. ASSUME NEW t \in Threads, ConsumeFrom(t) PROVE LockInv'
        BY <1>3 DEF ConsumeFrom, Goto, LockInv, Locked, TypeOK, ResultConsumerConstants
    <1>4. ASSUME NEW t \in Threads, AddPending(t) PROVE LockInv'
        BY <1>4 DEF AddPending, RemovePending, Call, Goto, LockInv, Locked, TypeOK,
                    ResultConsumerConstants
    <1>5. ASSUME NEW t \in Threads, Register(t) PROVE LockInv'
        BY <1>5 DEF Register, Call, Goto, LockInv, Locked, TypeOK, ResultConsumerConstants
    <1>6. ASSUME NEW t \in Threads, ReadMeta(t) PROVE LockInv'
        BY <1>6 DEF ReadMeta, RemovePending, Call, Goto, LockInv, Locked, TypeOK,
                    ResultConsumerConstants
    <1>7. ASSUME NEW t \in Threads, GetDone(t) PROVE LockInv'
        BY <1>7 DEF GetDone, Goto, LockInv, Locked, TypeOK, ResultConsumerConstants
    <1>8. ASSUME NEW t \in Threads, Drain(t) PROVE LockInv'
        BY <1>8 DEF Drain, DrainOne, StateChange, Goto, Call, LockInv, Locked, TypeOK,
                    ResultConsumerConstants
    <1>9. ASSUME NEW t \in Threads, Poll(t) PROVE LockInv'
        BY <1>9 DEF Poll, Goto, LockInv, Locked, TypeOK, ResultConsumerConstants
    <1>10. ASSUME NEW t \in Threads, DrainPolled(t) PROVE LockInv'
        BY <1>10 DEF DrainPolled, NotifyAll, StateChange, LockInv, Locked, TypeOK,
                     ResultConsumerConstants
    <1>11. ASSUME NEW t \in Threads, Wait(t) PROVE LockInv'
        BY <1>11 DEF Wait, Goto, LockInv, Locked, TypeOK, ResultConsumerConstants
    <1>12. ASSUME NEW t \in Threads, WaitTimeout(t) PROVE LockInv'
        BY <1>12 DEF WaitTimeout, Goto, LockInv, Locked, TypeOK, ResultConsumerConstants
    <1>13. ASSUME NEW t \in Threads, Woken(t) PROVE LockInv'
        BY <1>13 DEF Woken, Call, LockInv, Locked, TypeOK, ResultConsumerConstants
    <1>14. ASSUME NEW t \in Threads, Mget(t) PROVE LockInv'
        BY <1>14 DEF Mget, StateChange, Goto, LockInv, Locked, TypeOK,
                     ResultConsumerConstants
    <1>15. ASSUME NEW t \in Threads, Resubscribe(t) PROVE LockInv'
        BY <1>15 DEF Resubscribe, Goto, LockInv, Locked, TypeOK, ResultConsumerConstants
    <1>16. ASSUME NEW t \in Threads, Leave(t) PROVE LockInv'
        BY <1>16 DEF Leave, Goto, LockInv, Locked, TypeOK, ResultConsumerConstants
    <1>17. ASSUME NEW t \in Threads, Flush(t) PROVE LockInv'
        BY <1>17 DEF Flush, Goto, LockInv, Locked, TypeOK, ResultConsumerConstants
    <1>18. ASSUME NEW t \in Threads, GiveUp(t) PROVE LockInv'
        BY <1>18 DEF GiveUp, RemovePending, Call, LockInv, Locked, TypeOK,
                     ResultConsumerConstants
    <1>19. ASSUME NEW k \in Tasks, Finish(k) PROVE LockInv'
        BY <1>19 DEF Finish, LockInv, threadVars
    <1>20. CASE ConnectionLost
        BY <1>20 DEF ConnectionLost, LockInv, threadVars
    <1>21. CASE UNCHANGED vars
        BY <1>21 DEF vars, LockInv, threadVars
    <1>. QED
        BY <1>1, <1>2, <1>3, <1>4, <1>5, <1>6, <1>7, <1>8, <1>9, <1>10, <1>11, <1>12,
           <1>13, <1>14, <1>15, <1>16, <1>17, <1>18, <1>19, <1>20, <1>21
           DEF Next, Step

(* Who cancels a key, or leaves the lock, goes on to look at the keys.     *)
LEMMA CancelStep ==
    ASSUME ResultConsumerConstants, TypeOK, LockInv, CancelNotForgotten, [Next]_vars
    PROVE  CancelNotForgotten'
    <1>1. ASSUME NEW t \in Threads, OnTaskCall(t) PROVE CancelNotForgotten'
        BY <1>1 DEF OnTaskCall, Call, CancelNotForgotten, LockInv, Locked, TypeOK,
                       ResultConsumerConstants, keyVars
    <1>2. ASSUME NEW t \in Threads, Send(t) PROVE CancelNotForgotten'
        BY <1>2 DEF Send, Goto, CancelNotForgotten, LockInv, Locked, TypeOK,
                       ResultConsumerConstants, keyVars
    <1>3. ASSUME NEW t \in Threads, ConsumeFrom(t) PROVE CancelNotForgotten'
        BY <1>3 DEF ConsumeFrom, Goto, CancelNotForgotten, LockInv, Locked, TypeOK,
                       ResultConsumerConstants, keyVars
    <1>4. ASSUME NEW t \in Threads, AddPending(t) PROVE CancelNotForgotten'
        BY <1>4 DEF AddPending, RemovePending, Call, Goto, CancelNotForgotten, LockInv,
                    Locked, TypeOK,
                       ResultConsumerConstants, keyVars
    <1>5. ASSUME NEW t \in Threads, Register(t) PROVE CancelNotForgotten'
        BY <1>5 DEF Register, Call, Goto, CancelNotForgotten, LockInv, Locked, TypeOK,
                       ResultConsumerConstants, keyVars
    <1>6. ASSUME NEW t \in Threads, ReadMeta(t) PROVE CancelNotForgotten'
        BY <1>6 DEF ReadMeta, RemovePending, Call, Goto, CancelNotForgotten, LockInv,
                    Locked, TypeOK,
                       ResultConsumerConstants, keyVars
    <1>7. ASSUME NEW t \in Threads, GetDone(t) PROVE CancelNotForgotten'
        BY <1>7 DEF GetDone, Goto, CancelNotForgotten, LockInv, Locked, TypeOK,
                       ResultConsumerConstants, keyVars
    <1>8. ASSUME NEW t \in Threads, Drain(t) PROVE CancelNotForgotten'
        BY <1>8 DEF Drain, DrainOne, StateChange, Goto, Call, CancelNotForgotten, LockInv,
                    Locked, TypeOK,
                       ResultConsumerConstants, keyVars
    <1>9. ASSUME NEW t \in Threads, Poll(t) PROVE CancelNotForgotten'
        BY <1>9 DEF Poll, Goto, CancelNotForgotten, LockInv, Locked, TypeOK,
                       ResultConsumerConstants, keyVars
    <1>10. ASSUME NEW t \in Threads, DrainPolled(t) PROVE CancelNotForgotten'
        BY <1>10 DEF DrainPolled, NotifyAll, StateChange, CancelNotForgotten, LockInv,
                     Locked, TypeOK,
                       ResultConsumerConstants, keyVars
    <1>11. ASSUME NEW t \in Threads, Wait(t) PROVE CancelNotForgotten'
        BY <1>11 DEF Wait, Goto, CancelNotForgotten, LockInv, Locked, TypeOK,
                       ResultConsumerConstants, keyVars
    <1>12. ASSUME NEW t \in Threads, WaitTimeout(t) PROVE CancelNotForgotten'
        BY <1>12 DEF WaitTimeout, Goto, CancelNotForgotten, LockInv, Locked, TypeOK,
                       ResultConsumerConstants, keyVars
    <1>13. ASSUME NEW t \in Threads, Woken(t) PROVE CancelNotForgotten'
        BY <1>13 DEF Woken, Call, CancelNotForgotten, LockInv, Locked, TypeOK,
                       ResultConsumerConstants, keyVars
    <1>14. ASSUME NEW t \in Threads, Mget(t) PROVE CancelNotForgotten'
        BY <1>14 DEF Mget, StateChange, Goto, CancelNotForgotten, LockInv, Locked, TypeOK,
                       ResultConsumerConstants, keyVars
    <1>15. ASSUME NEW t \in Threads, Resubscribe(t) PROVE CancelNotForgotten'
        BY <1>15 DEF Resubscribe, Goto, CancelNotForgotten, LockInv, Locked, TypeOK,
                       ResultConsumerConstants, keyVars
    <1>16. ASSUME NEW t \in Threads, Leave(t) PROVE CancelNotForgotten'
        BY <1>16 DEF Leave, Goto, CancelNotForgotten, LockInv, Locked, TypeOK,
                       ResultConsumerConstants, keyVars
    <1>17. ASSUME NEW t \in Threads, Flush(t) PROVE CancelNotForgotten'
        BY <1>17 DEF Flush, Goto, CancelNotForgotten, LockInv, Locked, TypeOK,
                       ResultConsumerConstants, keyVars
    <1>18. ASSUME NEW t \in Threads, GiveUp(t) PROVE CancelNotForgotten'
        BY <1>18 DEF GiveUp, RemovePending, Call, CancelNotForgotten, LockInv, Locked,
                     TypeOK,
                       ResultConsumerConstants, keyVars
    <1>19. ASSUME NEW k \in Tasks, Finish(k) PROVE CancelNotForgotten'
        BY <1>19 DEF Finish, CancelNotForgotten, keyVars, threadVars
    <1>20. CASE ConnectionLost
        BY <1>20 DEF ConnectionLost, CancelNotForgotten, keyVars, threadVars
    <1>21. CASE UNCHANGED vars
        BY <1>21 DEF vars, CancelNotForgotten, keyVars, threadVars
    <1>. QED
        BY <1>1, <1>2, <1>3, <1>4, <1>5, <1>6, <1>7, <1>8, <1>9, <1>10, <1>11, <1>12,
           <1>13, <1>14, <1>15, <1>16, <1>17, <1>18, <1>19, <1>20, <1>21
           DEF Next, Step

-----------------------------------------------------------------------------
(* What a step does to the get() of a thread that it is not a step of: the *)
(* thread stays where it is, or is woken, and what its waiting relies on   *)
(* is kept until it has its result.                                        *)
Still(u) ==
    /\ pc'[u] = pc[u] \/ (pc[u] = "wait" /\ pc'[u] = "woken")
    /\ ret'[u] = ret[u]

Safe(u) ==
    /\ ready[u] => ready'[u]
    /\ pending[Task[u]] = None => pending'[Task[u]] = None
    /\ Registered(u) => ready'[u] \/ Registered(u)'
    /\ Subscribed(u) => ready'[u] \/ Subscribed(u)'
    /\ Announced(u) => ready'[u] \/ Announced(u)'

(* Such a step leaves it at its stage.                                     *)
LEMMA StageKept ==
    ASSUME NEW u \in Threads, Stage(u), Still(u), Safe(u) PROVE Stage(u)'
    <1>1. CASE Early(u) /\ pending[Task[u]] = None
        <2>1. Early(u)'
            BY <1>1 DEF Early, Still, Calls
        <2>. QED
            BY <1>1, <2>1 DEF Stage, Safe
    <1>2. CASE Subscribing(u) /\ (ready[u] \/ Registered(u))
        <2>1. Subscribing(u)'
            BY <1>2 DEF Subscribing, Still
        <2>. QED
            BY <1>2, <2>1 DEF Stage, Safe
    <1>3. CASE Looking(u) /\ (ready[u] \/ Subscribed(u))
        <2>1. Looking(u)'
            BY <1>3 DEF Looking, Calls, Still
        <2>. QED
            BY <1>3, <2>1 DEF Stage, Safe
    <1>4. CASE Waiting(u) /\ (ready[u] \/ Announced(u))
        <2>1. Waiting(u)'
            BY <1>4 DEF Waiting, Still
        <2>. QED
            BY <1>4, <2>1 DEF Stage, Safe
    <1>5. CASE pc[u] = "done" /\ ready[u]
        BY <1>5 DEF Stage, Still, Safe
    <1>. QED
        BY <1>1, <1>2, <1>3, <1>4, <1>5 DEF Stage

(* A thread that goes on waiting relies on the same.                       *)
LEMMA WaitingKept ==
    ASSUME NEW u \in Threads, Stage(u), Waiting(u), pc[u] \notin {"leave", "flush"},
           Safe(u), Waiting(u)'
    PROVE  Stage(u)'
    <1>1. ready[u] \/ Announced(u)
        BY DEF Stage, Waiting, Early, Subscribing, Looking, Calls
    <1>. QED
        BY <1>1 DEF Stage, Safe

(* Nothing a thread relies on is changed.                                  *)
LEMMA NothingToIt ==
    ASSUME NEW u \in Threads,
           UNCHANGED <<ready, pending, subs, unsubscribe, stored, inbox>>
    PROVE  Safe(u)
    BY DEF Safe, Registered, Subscribed, Announced

(* A message is read: its task's thread has its result, the others keep    *)
(* theirs.                                                                 *)
LEMMA ReadIsSafe ==
    ASSUME ResultConsumerConstants, TypeOK, Owned, NEW u \in Threads,
           UNCHANGED <<subs, stored>>, NEW k \in inbox, inbox' = inbox \ {k},
           StateChange({k})
    PROVE  Safe(u)
    <1>1. Task[u] \in Tasks /\ k \in Tasks /\ u # None
        BY DEF TypeOK, ResultConsumerConstants
    <1>2. CASE Task[u] = k
        <2>1. pending'[k] = None /\ (pending[k] = u => ready'[u])
            BY <1>1 DEF StateChange
        <2>2. ready[u] => ready'[u]
            BY DEF StateChange
        <2>. QED
            BY <1>2, <2>1, <2>2 DEF Safe, Registered, Subscribed, Announced
    <1>3. CASE Task[u] # k
        <2>1. pending'[Task[u]] = pending[Task[u]] /\ (ready[u] => ready'[u])
            BY <1>1, <1>3 DEF StateChange
        <2>2. Task[u] \in unsubscribe' => Task[u] \in unsubscribe
            BY <1>3 DEF StateChange
        <2>3. Task[u] \in inbox => Task[u] \in inbox'
            BY <1>3
        <2>. QED
            BY <2>1, <2>2, <2>3 DEF Safe, Registered, Subscribed, Announced
    <1>. QED
        BY <1>2, <1>3

(* Reading results takes no task from its thread.                          *)
LEMMA ReadKeepsOwned ==
    ASSUME ResultConsumerConstants, TypeOK, Owned, NEW K \in SUBSET Tasks, StateChange(K)
    PROVE  Owned'
    BY DEF Owned, StateChange, TypeOK, ResultConsumerConstants

(* A thread's result is removed: no other thread waits for its task.       *)
LEMMA RemoveIsSafe ==
    ASSUME ResultConsumerConstants, TypeOK, OwnTasks, NEW t \in Threads,
           NEW u \in Threads \ {t}, RemovePending(t), UNCHANGED <<subs, stored, inbox>>,
           ready[u] => ready'[u]
    PROVE  Safe(u)
    <1>1. Task[u] \in Tasks /\ Task[u] # Task[t]
        BY DEF OwnTasks, ResultConsumerConstants
    <1>2. pending'[Task[u]] = pending[Task[u]]
        BY <1>1 DEF RemovePending, TypeOK
    <1>3. Task[u] \in unsubscribe' => Task[u] \in unsubscribe
        BY <1>1 DEF RemovePending
    <1>. QED
        BY <1>2, <1>3 DEF Safe, Registered, Subscribed, Announced

(* A thread that removes its result leaves those of the others.            *)
LEMMA RemoveKeepsOwned ==
    ASSUME ResultConsumerConstants, TypeOK, Owned, NEW t \in Threads, RemovePending(t)
    PROVE  Owned' /\ pending'[Task[t]] = None
    BY DEF Owned, RemovePending, TypeOK, ResultConsumerConstants

(* A step of t moves no other thread, whichever way it goes on.            *)
LEMMA OthersStill ==
    ASSUME TypeOK, NEW t \in Threads, NEW label, NEW next,
           Goto(t, label) \/ Call(t, label, next)
    PROVE  \A u \in Threads \ {t} : Still(u)
    BY DEF TypeOK, Goto, Call, Still

(* A step that keeps its own thread at its stage, and the others safe,     *)
(* keeps every stage.                                                      *)
LEMMA StagesStep ==
    ASSUME NEW t \in Threads, \A u \in Threads : Stage(u), Stage(t)',
           \A u \in Threads \ {t} : Still(u) /\ Safe(u)
    PROVE  \A u \in Threads : Stage(u)'
    BY StageKept

(* Steps that move a thread and nothing that a get() relies on.            *)
LEMMA Walk ==
    ASSUME TypeOK, CoverInv, NEW t \in Threads, NEW label, NEW next,
           Goto(t, label) \/ Call(t, label, next), label \notin {"mget", "resub"},
           UNCHANGED <<subs, inbox, stored, up, losses, keyVars, resultVars>>,
           Stage(t)'
    PROVE  CoverInv'
    <1>1. \A u \in Threads \ {t} : Still(u) /\ Safe(u)
        BY OthersStill, NothingToIt DEF keyVars, resultVars
    <1>2. \A u \in Threads : Stage(u)'
        BY <1>1, StagesStep DEF CoverInv
    <1>3. Owned'
        BY DEF CoverInv, Owned, resultVars
    <1>4. Connected'
        BY DEF CoverInv, Connected, keyVars, Goto, Call, TypeOK
    <1>. QED
        BY <1>2, <1>3, <1>4 DEF CoverInv

(* The stage of a thread that is at a given place.                         *)
LEMMA AtStage ==
    ASSUME NEW t \in Threads, Stage(t)
    PROVE  /\ pc[t] \in {"call", "send", "add", "register"} => pending[Task[t]] = None
           /\ pc[t] = "consume" =>
                 \/ ret[t] \in {"send", "add"} /\ pending[Task[t]] = None
                 \/ ret[t] = "meta" /\ (ready[t] \/ Registered(t))
           /\ pc[t] \in Calls =>
                 \/ ret[t] \in {"send", "add"} /\ pending[Task[t]] = None
                 \/ ret[t] = "meta" /\ (ready[t] \/ Subscribed(t))
                 \/ ret[t] \in {"loop", "poll", "event"} /\ (ready[t] \/ Announced(t))
           /\ pc[t] = "meta" => ready[t] \/ Subscribed(t)
           /\ pc[t] \in {"loop", "poll", "event", "readable", "timeout", "towait",
                         "wait", "woken"} => ready[t] \/ Announced(t)
    BY DEF Stage, Early, Subscribing, Looking, Waiting, Calls

(* A thread subscribes: what it has just cancelled is not cancelled again. *)
LEMMA ConsumeFromCovers ==
    ASSUME ResultConsumerConstants, OwnTasks, TypeOK, CoverInv,
           NEW t \in Threads, ConsumeFrom(t)
    PROVE  CoverInv'
    <1>1. Task[t] \in Tasks /\ up /\ Stage(t)
        BY DEF ResultConsumerConstants, CoverInv, Connected
    <1>2. Goto(t, "leave") /\ Task[t] \in subs' \ unsubscribe'
        BY <1>1 DEF ConsumeFrom, CoverInv, Connected
    <1>3. \A u \in Threads : Safe(u)
        BY DEF ConsumeFrom, CoverInv, Connected, Safe, Registered, Subscribed, Announced,
               resultVars
    <1>4. Stage(t)'
        <2>1. pc'[t] = "leave" /\ ret'[t] = ret[t] /\ pc[t] = "consume"
            BY <1>2 DEF Goto, TypeOK, ConsumeFrom
        <2>2. CASE ret[t] \in {"send", "add"} /\ pending[Task[t]] = None
            BY <2>1, <2>2, <1>3 DEF Stage, Early, Calls, Safe
        <2>3. CASE ret[t] = "meta" /\ (ready[t] \/ Registered(t))
            BY <2>1, <2>3, <1>2, <1>3 DEF Stage, Looking, Calls, Safe, Subscribed
        <2>. QED
            BY <2>1, <2>2, <2>3, <1>1, AtStage
    <1>5. \A u \in Threads : Stage(u)'
        BY <1>2, <1>3, <1>4, OthersStill, StagesStep DEF CoverInv
    <1>6. Owned'
        BY DEF ConsumeFrom, CoverInv, Owned, resultVars
    <1>7. Connected'
        BY <1>2 DEF ConsumeFrom, CoverInv, Connected, Goto, TypeOK
    <1>. QED
        BY <1>5, <1>6, <1>7 DEF CoverInv

(* A thread takes its result from the buffer, or goes on to register.      *)
LEMMA AddPendingCovers ==
    ASSUME ResultConsumerConstants, OwnTasks, TypeOK, CoverInv,
           NEW t \in Threads, AddPending(t)
    PROVE  CoverInv'
    <1>1. Stage(t) /\ pc[t] = "add"
        BY DEF CoverInv, AddPending
    <1>2. CASE Task[t] \in buffer
        <2>1. RemovePending(t) /\ Call(t, "flush", "meta")
            BY <1>2 DEF AddPending
        <2>2. ready' = [ready EXCEPT ![t] = TRUE]
            BY <1>2 DEF AddPending
        <2>3. UNCHANGED <<subs, stored, inbox, up, losses, subscribedTo>>
            BY DEF AddPending, serverVars
        <2>4. \A u \in Threads \ {t} : Safe(u)
            BY <2>1, <2>2, <2>3, RemoveIsSafe DEF TypeOK
        <2>5. Stage(t)'
            BY <2>1, <2>2 DEF Call, TypeOK, Stage, Looking, Calls
        <2>6. \A u \in Threads : Stage(u)'
            BY <2>1, <2>4, <2>5, OthersStill, StagesStep DEF CoverInv
        <2>7. Owned'
            BY <2>1, RemoveKeepsOwned DEF CoverInv
        <2>8. Connected'
            BY <2>1, <2>3 DEF CoverInv, Connected, Call, TypeOK
        <2>. QED
            BY <2>6, <2>7, <2>8 DEF CoverInv
    <1>3. CASE Task[t] \notin buffer
        <2>1. Goto(t, "register") /\ UNCHANGED <<buffer, ready, pending, unsubscribe>>
            BY <1>3 DEF AddPending
        <2>2. UNCHANGED <<subs, inbox, stored, up, losses, keyVars, resultVars>>
            BY <2>1 DEF AddPending, serverVars, keyVars, resultVars
        <2>3. Stage(t)'
            BY <1>1, <2>1, <2>2, AtStage DEF Stage, Early, Goto, TypeOK, resultVars
        <2>. QED
            BY <2>1, <2>2, <2>3, Walk
    <1>. QED
        BY <1>2, <1>3

(* A thread registers its AsyncResult: nothing was registered.             *)
LEMMA RegisterCovers ==
    ASSUME ResultConsumerConstants, OwnTasks, TypeOK, CoverInv,
           NEW t \in Threads, Register(t)
    PROVE  CoverInv'
    <1>1. pending[Task[t]] = None /\ Task[t] \in Tasks /\ t # None
        BY AtStage DEF CoverInv, Register, ResultConsumerConstants
    <1>2. pending' = [pending EXCEPT ![Task[t]] = t] /\ Call(t, "consume", "meta")
        BY <1>1 DEF Register
    <1>3. UNCHANGED <<subs, stored, inbox, up, losses, keyVars, ready>>
        BY DEF Register, serverVars
    <1>4. Stage(t)'
        BY <1>1, <1>2 DEF Stage, Subscribing, Registered, Call, TypeOK
    <1>5. \A u \in Threads \ {t} : Safe(u)
        <2>. TAKE u \in Threads \ {t}
        <2>1. Task[u] \in Tasks /\ Task[u] # Task[t]
            BY DEF OwnTasks, ResultConsumerConstants
        <2>2. pending'[Task[u]] = pending[Task[u]]
            BY <1>2, <2>1 DEF TypeOK
        <2>. QED
            BY <1>3, <2>2 DEF Safe, Registered, Subscribed, Announced, keyVars
    <1>6. \A u \in Threads : Stage(u)'
        BY <1>2, <1>4, <1>5, OthersStill, StagesStep DEF CoverInv
    <1>7. Owned'
        BY <1>1, <1>2 DEF CoverInv, Owned, TypeOK
    <1>8. Connected'
        BY <1>2, <1>3 DEF CoverInv, Connected, Call, TypeOK, keyVars
    <1>. QED
        BY <1>6, <1>7, <1>8 DEF CoverInv

(* A thread finds its result stored, or it will be told of it.             *)
LEMMA ReadMetaCovers ==
    ASSUME ResultConsumerConstants, OwnTasks, TypeOK, CoverInv,
           NEW t \in Threads, ReadMeta(t)
    PROVE  CoverInv'
    <1>1. Stage(t) /\ pc[t] = "meta"
        BY DEF CoverInv, ReadMeta
    <1>2. CASE ready[t] \/ Task[t] \in stored
        <2>1. RemovePending(t) /\ Call(t, "flush", "loop")
            BY <1>2 DEF ReadMeta
        <2>2. ready'[t] /\ \A u \in Threads : ready[u] => ready'[u]
            BY <1>2 DEF ReadMeta
        <2>3. UNCHANGED <<subs, stored, inbox, up, losses, subscribedTo>>
            BY DEF ReadMeta, serverVars
        <2>4. \A u \in Threads \ {t} : Safe(u)
            BY <2>1, <2>2, <2>3, RemoveIsSafe
        <2>5. Stage(t)'
            BY <2>1, <2>2 DEF Call, TypeOK, Stage, Waiting
        <2>6. \A u \in Threads : Stage(u)'
            BY <2>1, <2>4, <2>5, OthersStill, StagesStep DEF CoverInv
        <2>7. Owned'
            BY <2>1, RemoveKeepsOwned DEF CoverInv
        <2>8. Connected'
            BY <2>1, <2>3 DEF CoverInv, Connected, Call, TypeOK
        <2>. QED
            BY <2>6, <2>7, <2>8 DEF CoverInv
    <1>3. CASE ~ ready[t] /\ Task[t] \notin stored
        <2>1. Goto(t, "loop") /\ UNCHANGED <<buffer, ready, pending, unsubscribe>>
            BY <1>3 DEF ReadMeta
        <2>2. UNCHANGED <<subs, inbox, stored, up, losses, keyVars, resultVars>>
            BY <2>1 DEF ReadMeta, serverVars, keyVars, resultVars
        <2>3. Announced(t)'
            BY <1>1, <1>3, <2>2, AtStage
               DEF Announced, Subscribed, Registered, resultVars, keyVars
        <2>4. Stage(t)'
            BY <2>1, <2>3 DEF Stage, Waiting, Goto, TypeOK
        <2>. QED
            BY <2>1, <2>2, <2>4, Walk
    <1>. QED
        BY <1>2, <1>3

(* A thread reads a message, or finds none and goes on waiting.            *)
LEMMA ReadCovers ==
    ASSUME ResultConsumerConstants, TypeOK, CoverInv, NEW t \in Threads,
           UNCHANGED <<subs, stored, up, losses, subscribedTo>>,
           \/ UNCHANGED <<inbox, unsubscribe, resultVars>>
           \/ \E k \in inbox : inbox' = inbox \ {k} /\ StateChange({k}),
           Waiting(t), pc[t] \notin {"leave", "flush"}, Waiting(t)',
           pc'[t] \notin {"mget", "resub"}, \A u \in Threads \ {t} : Still(u)
    PROVE  CoverInv'
    <1>1. /\ \A u \in Threads : Safe(u)
          /\ Owned'
        <2>1. CASE UNCHANGED <<inbox, unsubscribe, resultVars>>
            BY <2>1, NothingToIt DEF resultVars, Owned, CoverInv
        <2>2. CASE \E k \in inbox : inbox' = inbox \ {k} /\ StateChange({k})
            <3>1. PICK k \in inbox : inbox' = inbox \ {k} /\ StateChange({k})
                BY <2>2
            <3>2. {k} \in SUBSET Tasks
                BY DEF TypeOK
            <3>. QED
                BY <3>1, <3>2, ReadIsSafe, ReadKeepsOwned DEF CoverInv
        <2>. QED
            BY <2>1, <2>2
    <1>2. Stage(t)'
        BY <1>1, WaitingKept DEF CoverInv
    <1>3. \A u \in Threads : Stage(u)'
        BY <1>1, <1>2, StagesStep DEF CoverInv
    <1>4. Connected'
        BY DEF CoverInv, Connected, Still
    <1>. QED
        BY <1>1, <1>3, <1>4 DEF CoverInv

(* A thread reads what is announced: the results it covers stay covered.   *)
LEMMA DrainCovers ==
    ASSUME ResultConsumerConstants, TypeOK, CoverInv, NEW t \in Threads, Drain(t)
    PROVE  CoverInv'
    <1>1. pc[t] = "loop" /\ up
        BY DEF Drain, CoverInv, Connected
    <1>2. UNCHANGED <<subs, stored, up, losses, subscribedTo>>
        BY DEF Drain
    <1>3. \/ UNCHANGED <<inbox, unsubscribe, resultVars>>
          \/ \E k \in inbox : inbox' = inbox \ {k} /\ StateChange({k})
        BY <1>1 DEF Drain, DrainOne
    <1>4. \/ Goto(t, "towait")
          \/ Call(t, "leave", "loop")
          \/ Call(t, "leave", "event")
          \/ Call(t, "leave", "poll")
        BY <1>1 DEF Drain, DrainOne
    <1>5. \A u \in Threads \ {t} : Still(u)
        BY <1>4, OthersStill
    <1>6. Waiting(t) /\ Waiting(t)' /\ pc'[t] \notin {"mget", "resub"}
        BY <1>1, <1>4 DEF Waiting, Goto, Call, TypeOK
    <1>. QED
        BY <1>1, <1>2, <1>3, <1>5, <1>6, ReadCovers

(* The same, after it had waited for the socket without the lock.          *)
LEMMA DrainPolledCovers ==
    ASSUME ResultConsumerConstants, TypeOK, CoverInv, NEW t \in Threads, DrainPolled(t)
    PROVE  CoverInv'
    <1>1. pc[t] \in {"readable", "timeout"} /\ up
        BY DEF DrainPolled, CoverInv, Connected
    <1>2. UNCHANGED <<subs, stored, up, losses, subscribedTo>>
        BY DEF DrainPolled
    <1>3. \/ UNCHANGED <<inbox, unsubscribe, resultVars>>
          \/ \E k \in inbox : inbox' = inbox \ {k} /\ StateChange({k})
        BY DEF DrainPolled
    <1>4. pc' = [NotifyAll(pc) EXCEPT ![t] = "leave"] /\ ret' = [ret EXCEPT ![t] = "loop"]
        BY <1>1 DEF DrainPolled
    <1>5. \A u \in Threads \ {t} : Still(u)
        BY <1>4 DEF NotifyAll, Still, TypeOK
    <1>6. Waiting(t) /\ Waiting(t)' /\ pc'[t] \notin {"mget", "resub"}
        BY <1>1, <1>4 DEF Waiting, NotifyAll, TypeOK
    <1>. QED
        BY <1>1, <1>2, <1>3, <1>5, <1>6, ReadCovers

(* The cancelled channels are sent: no waiting thread needs one.           *)
LEMMA FlushCovers ==
    ASSUME ResultConsumerConstants, TypeOK, CoverInv, NEW t \in Threads, Flush(t)
    PROVE  CoverInv'
    <1>1. Stage(t) /\ pc[t] = "flush" /\ up /\ subs = subscribedTo
        BY DEF CoverInv, Flush, Connected
    <1>2. UNCHANGED <<stored, inbox, up, losses, resultVars>>
        BY DEF Flush
    <1>3. /\ Goto(t, ret[t]) \/ Goto(t, "leave")
          /\ subs' = subscribedTo'
          /\ unsubscribe' \subseteq unsubscribe
          /\ subs \ unsubscribe \subseteq subs'
        BY <1>1 DEF Flush
    <1>4. \A u \in Threads : Safe(u)
        BY <1>2, <1>3 DEF Safe, Registered, Subscribed, Announced, resultVars
    <1>5. ret'[t] = ret[t] /\ pc'[t] \in {ret[t], "leave"}
        BY <1>3 DEF Goto, TypeOK
    <1>6. Stage(t)'
        <2>1. CASE ret[t] \in {"send", "add"} /\ pending[Task[t]] = None
            BY <1>4, <1>5, <2>1 DEF Stage, Early, Calls, Safe
        <2>2. CASE ret[t] = "meta" /\ (ready[t] \/ Subscribed(t))
            BY <1>4, <1>5, <2>2 DEF Stage, Looking, Calls, Safe
        <2>3. CASE ret[t] \in {"loop", "poll", "event"} /\ (ready[t] \/ Announced(t))
            BY <1>4, <1>5, <2>3 DEF Stage, Waiting, Safe
        <2>. QED
            BY <1>1, <2>1, <2>2, <2>3, AtStage DEF Calls
    <1>7. \A u \in Threads : Stage(u)'
        BY <1>3, <1>4, <1>6, OthersStill, StagesStep DEF CoverInv
    <1>8. Owned'
        BY <1>2 DEF CoverInv, Owned, resultVars
    <1>9. Connected'
        <2>1. pc'[t] \notin {"mget", "resub"}
            BY <1>1, <1>5, AtStage DEF Calls
        <2>. QED
            BY <1>2, <1>3, <2>1 DEF CoverInv, Connected, Goto, TypeOK
    <1>. QED
        BY <1>7, <1>8, <1>9 DEF CoverInv

(* A thread that gives up forgets its own task only.                       *)
LEMMA GiveUpCovers ==
    ASSUME ResultConsumerConstants, OwnTasks, TypeOK, CoverInv,
           NEW t \in Threads, GiveUp(t)
    PROVE  CoverInv'
    <1>1. RemovePending(t) /\ Call(t, "flush", "add")
        BY DEF GiveUp
    <1>2. UNCHANGED <<subs, stored, inbox, up, losses, subscribedTo, ready>>
        BY DEF GiveUp, serverVars
    <1>3. \A u \in Threads \ {t} : Safe(u)
        BY <1>1, <1>2, RemoveIsSafe
    <1>4. Owned' /\ pending'[Task[t]] = None
        BY <1>1, RemoveKeepsOwned DEF CoverInv
    <1>5. Stage(t)'
        BY <1>1, <1>4 DEF Call, TypeOK, Stage, Early, Calls
    <1>6. \A u \in Threads : Stage(u)'
        BY <1>1, <1>3, <1>5, OthersStill, StagesStep DEF CoverInv
    <1>7. Connected'
        BY <1>1, <1>2 DEF CoverInv, Connected, Call, TypeOK
    <1>. QED
        BY <1>4, <1>6, <1>7 DEF CoverInv

(* A result is stored: if its thread has subscribed, a message comes.      *)
LEMMA FinishCovers ==
    ASSUME TypeOK, CoverInv, NEW k \in Tasks, Finish(k)
    PROVE  CoverInv'
    <1>1. UNCHANGED <<subs, up, losses, keyVars, resultVars, threadVars>>
        BY DEF Finish
    <1>2. \A u \in Threads : Safe(u)
        BY DEF Finish, CoverInv, Connected, Safe, Registered, Subscribed, Announced,
               keyVars, resultVars
    <1>3. \A u \in Threads : Still(u)
        BY <1>1 DEF Still, threadVars
    <1>4. \A u \in Threads : Stage(u)'
        BY <1>2, <1>3, StageKept DEF CoverInv
    <1>5. Owned' /\ Connected'
        BY <1>1 DEF CoverInv, Owned, Connected, keyVars, resultVars, threadVars
    <1>. QED
        BY <1>4, <1>5 DEF CoverInv

(* Every step covers the threads that wait.                                *)
LEMMA CoverStep ==
    ASSUME ResultConsumerConstants, OwnTasks, MaxLosses = 0, TypeOK, CoverInv,
           [Next]_vars
    PROVE  CoverInv'
    <1>. DEFINE Kept == UNCHANGED <<subs, inbox, stored, up, losses, keyVars, resultVars>>
    <1>1. ASSUME NEW t \in Threads, OnTaskCall(t) PROVE CoverInv'
        <2>1. Call(t, "consume", "send") /\ Kept
            BY <1>1 DEF OnTaskCall, serverVars
        <2>2. Stage(t)'
            BY <1>1, <2>1, AtStage
               DEF OnTaskCall, CoverInv, Stage, Early, Call, TypeOK, resultVars
        <2>. QED
            BY <2>1, <2>2, Walk
    <1>2. ASSUME NEW t \in Threads, Send(t) PROVE CoverInv'
        <2>1. Goto(t, "add") /\ Kept
            BY <1>2 DEF Send
        <2>2. Stage(t)'
            BY <1>2, <2>1, AtStage
               DEF Send, CoverInv, Stage, Early, Goto, TypeOK, resultVars
        <2>. QED
            BY <2>1, <2>2, Walk
    <1>3. ASSUME NEW t \in Threads, GetDone(t) PROVE CoverInv'
        <2>1. Goto(t, "done") /\ Kept
            BY <1>3 DEF GetDone, serverVars
        <2>2. Stage(t)'
            BY <1>3, <2>1 DEF GetDone, Stage, Goto, TypeOK, resultVars
        <2>3. "done" \notin {"mget", "resub"}
            OBVIOUS
        <2>. QED
            BY <2>1, <2>2, <2>3, Walk
    <1>4. ASSUME NEW t \in Threads, Poll(t) \/ Wait(t) \/ WaitTimeout(t) PROVE CoverInv'
        <2>1. PICK label \in {"readable", "timeout", "wait", "woken"} : Goto(t, label)
            BY <1>4 DEF Poll, Wait, WaitTimeout
        <2>2. Kept
            BY <1>4 DEF Poll, Wait, WaitTimeout, serverVars
        <2>3. Waiting(t) /\ pc[t] \notin {"leave", "flush"} /\ Waiting(t)'
            BY <1>4, <2>1 DEF Poll, Wait, WaitTimeout, Waiting, Goto, TypeOK
        <2>4. Stage(t)'
            BY <2>2, <2>3, NothingToIt, WaitingKept DEF CoverInv, keyVars, resultVars
        <2>. QED
            BY <2>1, <2>2, <2>4, Walk
    <1>5. ASSUME NEW t \in Threads, Woken(t) PROVE CoverInv'
        <2>1. Call(t, "leave", "loop") /\ Kept
            BY <1>5 DEF Woken, serverVars
        <2>2. Waiting(t) /\ pc[t] \notin {"leave", "flush"} /\ Waiting(t)'
            BY <1>5, <2>1 DEF Woken, Waiting, Call, TypeOK
        <2>3. Stage(t)'
            BY <2>1, <2>2, NothingToIt, WaitingKept DEF CoverInv, keyVars, resultVars
        <2>. QED
            BY <2>1, <2>3, Walk
    <1>6. ASSUME NEW t \in Threads, Mget(t) \/ Resubscribe(t) PROVE CoverInv'
        BY <1>6 DEF Mget, Resubscribe, CoverInv, Connected
    <1>7. ASSUME NEW t \in Threads, Leave(t) PROVE CoverInv'
        <2>1. Goto(t, "flush") /\ Kept /\ pc[t] = "leave"
            BY <1>7 DEF Leave, serverVars
        <2>2. Safe(t) /\ Stage(t)
            BY <2>1, NothingToIt DEF CoverInv, keyVars, resultVars
        <2>3. pc'[t] = "flush" /\ ret'[t] = ret[t]
            BY <2>1 DEF Goto, TypeOK
        <2>4. Stage(t)'
            <3>1. CASE ret[t] \in {"send", "add"} /\ pending[Task[t]] = None
                BY <2>2, <2>3, <3>1 DEF Stage, Early, Calls, Safe
            <3>2. CASE ret[t] = "meta" /\ (ready[t] \/ Subscribed(t))
                BY <2>2, <2>3, <3>2 DEF Stage, Looking, Calls, Safe
            <3>3. CASE ret[t] \in {"loop", "poll", "event"} /\ (ready[t] \/ Announced(t))
                BY <2>2, <2>3, <3>3 DEF Stage, Waiting, Safe
            <3>. QED
                BY <2>1, <2>2, <3>1, <3>2, <3>3, AtStage DEF Calls
        <2>5. "flush" \notin {"mget", "resub"}
            OBVIOUS
        <2>. QED
            BY <2>1, <2>4, <2>5, Walk
    <1>8. CASE ConnectionLost
        BY <1>8 DEF ConnectionLost, CoverInv, Connected
    <1>9. CASE UNCHANGED vars
        <2>1. \A u \in Threads : Safe(u) /\ Still(u)
            <3>1. UNCHANGED <<ready, pending, subs, unsubscribe, stored, inbox, pc, ret>>
                BY <1>9 DEF vars, serverVars, keyVars, resultVars, threadVars
            <3>2. \A u \in Threads : Safe(u)
                BY <3>1, NothingToIt
            <3>. QED
                BY <3>1, <3>2 DEF Still
        <2>2. \A u \in Threads : Stage(u)'
            BY <2>1, StageKept DEF CoverInv
        <2>3. Owned' /\ Connected'
            BY <1>9 DEF vars, serverVars, keyVars, resultVars, threadVars, CoverInv,
                        Owned,
                        Connected
        <2>. QED
            BY <2>2, <2>3 DEF CoverInv
    <1>. QED
        BY <1>1, <1>2, <1>3, <1>4, <1>5, <1>6, <1>7, <1>8, <1>9, ConsumeFromCovers,
           AddPendingCovers, RegisterCovers, ReadMetaCovers, DrainCovers,
           DrainPolledCovers, FlushCovers, GiveUpCovers, FinishCovers
           DEF Next, Step

-----------------------------------------------------------------------------
(* The invariant holds before the first result is asked for.               *)
LEMMA InitInv == ASSUME ResultConsumerConstants, Init PROVE Inv
    <1>1. TypeOK
        BY TypeInit
    <1>2. LockInv /\ CancelNotForgotten
        BY DEF Init, LockInv, Locked, CancelNotForgotten, ResultConsumerConstants
    <1>3. CoverInv
        <2>1. \A t \in Threads : Stage(t)
            BY DEF Init, Stage, Early, ResultConsumerConstants
        <2>. QED
            BY <2>1 DEF Init, CoverInv, Connected, Owned
    <1>. QED
        BY <1>1, <1>2, <1>3 DEF Inv

(* Every step preserves the invariant.                                     *)
LEMMA NextInv == ASSUME ResultConsumerConstants, Inv, [Next]_vars PROVE Inv'
    BY TypeStep, LockStep, CancelStep, CoverStep DEF Inv, OwnTasks

(* A result that is stored is announced to the thread that waits, or will  *)
(* be read by it.                                                          *)
LEMMA InvImplies == ASSUME Inv PROVE Covered
    <1>1. ASSUME OwnTasks /\ MaxLosses = 0 PROVE WaiterIsCovered
        <2>1. \A t \in Threads : Stage(t)
            BY <1>1 DEF Inv, CoverInv
        <2>. QED
            BY <2>1 DEF WaiterIsCovered, Stage, Waiting, Early, Subscribing, Looking,
                        Calls, Announced, Subscribed, Registered
    <1>. QED
        BY <1>1 DEF Inv, Covered

(* The consumer of results of the Redis backend (_pending_unsubscribe,     *)
(* subscribed_to, _pending_results): however many threads call get(), time *)
(* out and delete their AsyncResults, a key whose cancellation is pending  *)
(* is looked at by somebody; and a thread that waits for a result of its   *)
(* own is registered and subscribed, and has its message in the connection *)
(* if the result is stored, unless the connection was lost.                *)
THEOREM WaitersCovered ==
    ASSUME ResultConsumerConstants PROVE Spec => []Covered
    <1>1. Init => Inv
        BY InitInv
    <1>2. Inv /\ [Next]_vars => Inv'
        BY NextInv
    <1>3. Inv => Covered
        BY InvImplies
    <1>. QED
        BY <1>1, <1>2, <1>3, PTL DEF Spec
=============================================================================
