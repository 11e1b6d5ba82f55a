------------------------------- MODULE Signals -------------------------------
(***************************************************************************)
(* A signal of utils/dispatch/signal.py: threads connect, disconnect and   *)
(* send while receivers that are only weakly held are collected.           *)
(*                                                                         *)
(* A receiver is known by the address of its function.  The address of a   *)
(* collected one may be given to another, so its entry must be gone before *)
(* the other connects.  The finalizer may run while the lock is held and   *)
(* only sets a flag; whoever holds the lock next sweeps the list.          *)
(***************************************************************************)
EXTENDS Naturals, Sequences, SequencesExt, FiniteSets

CONSTANTS Threads,
          Receivers,   \* callables that exist now or will be made
          Later,       \* those made only after another has been collected
          Address,     \* receiver -> address of its function
          Strong,      \* receivers connected with weak=False
          Retried,     \* receivers connected with retry=True, which are strong too
          Senders,
          AnySender,   \* sender=None of connect
          Cachings,    \* the values of use_caching to start with
          MaxCalls     \* bound: connects, disconnects and sends

VARIABLES caching,   \* use_caching
          life,      \* receiver -> not made yet, alive, its weak references cleared, gone
          entries,   \* receivers: what is connected to which sender, in order
          flag,      \* _dead_receivers
          cached,    \* senders in sender_receivers_cache
          cache,     \* sender -> the entries it was found to have; none is NO_RECEIVERS
          lock,      \* the threads in the lock
          pc, op,    \* per thread: where it is, and the call it is in
          sweep,     \* per thread: _clear_dead_receivers found the flag
          found,     \* per thread: entries found for a send, then those still to be called
          watched,   \* receivers with a finalizer
          registered,\* history: what was connected, not disconnected, and lives
          must, may, called, \* history, per thread: see SentToAll
          calls

vars == <<caching, life, entries, flag, cached, cache, lock, pc, op, sweep, found, watched,
          registered, must, may, called, calls>>
table == <<entries, cached, cache>>
history == <<registered, must, may, called>>

Entry == [rec : Receivers, sender : Senders \cup {AnySender}]
Alive(r) == life[r] = "alive"
Deref(es) == SelectSeq(es, LAMBDA e : Alive(e.rec))

TypeOK ==
    /\ life \in [Receivers -> {"later", "alive", "cleared", "gone"}]
    /\ Range(entries) \subseteq Entry /\ registered \subseteq Entry
    /\ flag \in BOOLEAN /\ cached \subseteq Senders
    /\ \A s \in Senders : Range(cache[s]) \subseteq Entry
    /\ lock \subseteq Threads /\ Cardinality(lock) =< 1
    /\ pc \in [Threads -> {"idle", "wait", "locked", "look", "deref", "call"}]
    /\ \A t \in Threads : Range(found[t]) \subseteq Entry
    /\ calls \in 0..MaxCalls

\* _make_lookup_key.
Key(e) == <<Address[e.rec], e.sender>>

(***************************************************************************)
(* Garbage collection                                                      *)
(***************************************************************************)
\* Who else holds a receiver: a strong entry, a send that calls it, a call it is given to.
Held(r) ==
    \/ r \in Strong \cup Retried /\ \E i \in DOMAIN entries : entries[i].rec = r
    \/ \E t \in Threads :
        \/ pc[t] = "call" /\ \E i \in DOMAIN found[t] : found[t][i].rec = r
        \/ pc[t] # "idle" /\ op[t].kind # "send" /\ op[t].rec = r

\* The program drops its last reference: first the weak references are cleared,
\* then the finalizer runs (_remove_receiver), then the memory is free.
Collect(r) ==
    /\ Alive(r) /\ ~Held(r)
    /\ life' = [life EXCEPT ![r] = "cleared"]
    /\ registered' = {e \in registered : e.rec # r}
    /\ must' = [t \in Threads |-> {e \in must[t] : e.rec # r}]
    /\ UNCHANGED <<caching, table, flag, lock, pc, op, sweep, found, watched, may, called, calls>>

RemoveReceiver(r) ==
    /\ life[r] = "cleared"
    /\ life' = [life EXCEPT ![r] = "gone"]
    /\ flag' = (flag \/ r \in watched)
    /\ UNCHANGED <<caching, table, lock, pc, op, sweep, found, watched, history, calls>>

Make(r) ==
    /\ life[r] = "later"
    /\ \A q \in Receivers \ {r} : Address[q] = Address[r] => life[q] = "gone"
    /\ life' = [life EXCEPT ![r] = "alive"]
    /\ UNCHANGED <<caching, table, flag, lock, pc, op, sweep, found, watched, history, calls>>

(***************************************************************************)
(* connect and disconnect                                                  *)
(***************************************************************************)
Begin(t, call, where) ==
    /\ pc[t] = "idle" /\ calls < MaxCalls /\ calls' = calls + 1
    /\ op' = [op EXCEPT ![t] = call]
    /\ pc' = [pc EXCEPT ![t] = where]

\* Both make the lookup key first; a weak receiver gets its finalizer.
Connect(t, r, s) ==
    /\ Alive(r)
    /\ Begin(t, [kind |-> "connect", rec |-> r, sender |-> s], "wait")
    /\ watched' = IF r \in Strong \cup Retried THEN watched ELSE watched \cup {r}
    /\ UNCHANGED <<caching, life, table, flag, lock, sweep, found, history>>

Disconnect(t, r, s) ==
    /\ Alive(r)
    /\ Begin(t, [kind |-> "disconnect", rec |-> r, sender |-> s], "wait")
    /\ UNCHANGED <<caching, life, table, flag, lock, sweep, found, watched, history>>

\* The lock, and the first half of _clear_dead_receivers: the flag is taken down
\* before the list is swept, so that a receiver lost meanwhile puts it up again.
Acquire(t) ==
    /\ pc[t] = "wait" /\ lock = {}
    /\ lock' = {t}
    /\ sweep' = [sweep EXCEPT ![t] = flag] /\ flag' = FALSE
    /\ pc' = [pc EXCEPT ![t] = "locked"]
    /\ UNCHANGED <<caching, life, table, op, found, watched, history, calls>>

\* The second half.
Swept(t) ==
    IF sweep[t] THEN SelectSeq(entries, LAMBDA e : e.rec \in Strong \cup Retried \/ Alive(e.rec))
                ELSE entries

Unlock(t, to) == /\ lock' = {} /\ pc' = [pc EXCEPT ![t] = to]
                 /\ UNCHANGED <<caching, life, flag, op, sweep, watched, calls>>

\* Mutant of ConnectLocked: the entries of the dead stay where they are.
ConnectLockedUnswept(t) ==
    LET e == [rec |-> op[t].rec, sender |-> op[t].sender]
        old == entries
    IN  /\ pc[t] = "locked" /\ op[t].kind = "connect"
        /\ entries' = IF \E i \in DOMAIN old : Key(old[i]) = Key(e) THEN old ELSE Append(old, e)
        /\ cached' = {} /\ UNCHANGED cache
        /\ registered' = registered \cup {e}
        /\ may' = [u \in Threads |-> may[u] \cup {e}]
        /\ Unlock(t, "idle")
        /\ UNCHANGED <<found, must, called>>

\* _connect_signal: an entry with the key keeps its place and its receiver.
ConnectLocked(t) ==
    LET e == [rec |-> op[t].rec, sender |-> op[t].sender]
        old == Swept(t)
    IN  /\ pc[t] = "locked" /\ op[t].kind = "connect"
        /\ entries' = IF \E i \in DOMAIN old : Key(old[i]) = Key(e) THEN old ELSE Append(old, e)
        /\ cached' = {} /\ UNCHANGED cache
        /\ registered' = registered \cup {e}
        /\ may' = [u \in Threads |-> may[u] \cup {e}]
        /\ Unlock(t, "idle")
        /\ UNCHANGED <<found, must, called>>

\* Mutant of DisconnectLocked: the cache is not cleared.
DisconnectLockedCached(t) ==
    LET e == [rec |-> op[t].rec, sender |-> op[t].sender]
        old == Swept(t)
        at == {i \in DOMAIN old : Key(old[i]) = Key(e)}
    IN  /\ pc[t] = "locked" /\ op[t].kind = "disconnect"
        /\ entries' = IF at = {} THEN old
                                 ELSE RemoveAt(old, CHOOSE i \in at : \A j \in at : i =< j)
        /\ registered' = registered \ {e}
        /\ must' = [u \in Threads |-> must[u] \ {e}]
        /\ Unlock(t, "idle")
        /\ UNCHANGED <<cached, cache, found, may, called>>

DisconnectLocked(t) ==
    LET e == [rec |-> op[t].rec, sender |-> op[t].sender]
        old == Swept(t)
        at == {i \in DOMAIN old : Key(old[i]) = Key(e)}
    IN  /\ pc[t] = "locked" /\ op[t].kind = "disconnect"
        /\ entries' = IF at = {} THEN old
                                 ELSE RemoveAt(old, CHOOSE i \in at : \A j \in at : i =< j)
        /\ cached' = {} /\ UNCHANGED cache
        /\ registered' = registered \ {e}
        /\ must' = [u \in Threads |-> must[u] \ {e}]
        /\ Unlock(t, "idle")
        /\ UNCHANGED <<found, may, called>>

(***************************************************************************)
(* send                                                                    *)
(***************************************************************************)
For(s) == {e \in registered : e.sender \in {s, AnySender}}

Send(t, s) ==
    /\ Begin(t, [kind |-> "send", sender |-> s], "look")
    /\ must' = [must EXCEPT ![t] = For(s)]
    /\ may' = [may EXCEPT ![t] = For(s)]
    /\ called' = [called EXCEPT ![t] = <<>>]
    /\ UNCHANGED <<caching, life, table, flag, lock, sweep, found, watched, registered>>

\* Nobody is connected, or the sender is known to have no receivers; otherwise
\* _live_receivers goes by the cache, unless somebody died, and then by the list.
Look(t) ==
    LET s == op[t].sender
        hit == s \in cached /\ (cache[s] = <<>> \/ ~flag)
    IN  /\ pc[t] = "look"
        /\ \/ /\ entries = <<>> \/ hit
              /\ found' = [found EXCEPT ![t] = IF entries = <<>> THEN <<>> ELSE cache[s]]
              /\ pc' = [pc EXCEPT ![t] = "deref"]
           \/ /\ entries # <<>> /\ ~hit
              /\ pc' = [pc EXCEPT ![t] = "wait"]
              /\ UNCHANGED found
        /\ UNCHANGED <<caching, life, table, flag, lock, op, sweep, watched, history, calls>>

LiveLocked(t) ==
    LET s == op[t].sender
        mine == SelectSeq(Swept(t), LAMBDA e : e.sender \in {s, AnySender})
    IN  /\ pc[t] = "locked" /\ op[t].kind = "send"
        /\ entries' = Swept(t)
        /\ found' = [found EXCEPT ![t] = mine]
        /\ IF caching THEN cached' = cached \cup {s} /\ cache' = [cache EXCEPT ![s] = mine]
                      ELSE UNCHANGED <<cached, cache>>
        /\ Unlock(t, "deref")
        /\ UNCHANGED history

Dereference(t) ==
    /\ pc[t] = "deref"
    /\ found' = [found EXCEPT ![t] = Deref(@)]
    /\ pc' = [pc EXCEPT ![t] = "call"]
    /\ UNCHANGED <<caching, life, table, flag, lock, op, sweep, watched, history, calls>>

\* An exception is a response like another; a retried receiver is called until it
\* returns, and the others wait.
Call(t, raises) ==
    LET e == Head(found[t])
    IN  /\ pc[t] = "call" /\ found[t] # <<>>
        /\ IF raises /\ e.rec \in Retried
             THEN UNCHANGED <<found, called>>
             ELSE /\ found' = [found EXCEPT ![t] = Tail(@)]
                  /\ called' = [called EXCEPT ![t] = Append(@, e)]
        /\ UNCHANGED <<caching, life, table, flag, lock, pc, op, sweep, watched, registered,
                       must, may, calls>>

Return(t) ==
    /\ pc[t] = "call" /\ found[t] = <<>>
    /\ pc' = [pc EXCEPT ![t] = "idle"]
    /\ UNCHANGED <<caching, life, table, flag, lock, op, sweep, found, watched, history, calls>>

Init ==
    /\ caching \in Cachings
    /\ life = [r \in Receivers |-> IF r \in Later THEN "later" ELSE "alive"]
    /\ entries = <<>> /\ flag = FALSE /\ cached = {} /\ cache = [s \in Senders |-> <<>>]
    /\ lock = {} /\ pc = [t \in Threads |-> "idle"]
    /\ op = [t \in Threads |-> [kind |-> "none"]]
    /\ sweep = [t \in Threads |-> FALSE] /\ found = [t \in Threads |-> <<>>]
    /\ watched = {} /\ registered = {}
    /\ must = [t \in Threads |-> {}] /\ may = must /\ called = [t \in Threads |-> <<>>]
    /\ calls = 0

Step(t) ==
    \/ Acquire(t) \/ ConnectLocked(t) \/ DisconnectLocked(t)
    \/ Look(t) \/ LiveLocked(t) \/ Dereference(t) \/ Call(t, FALSE) \/ Return(t)

Next ==
    \/ \E r \in Receivers : Collect(r) \/ RemoveReceiver(r) \/ Make(r)
    \/ \E t \in Threads :
        \/ \E r \in Receivers, s \in Senders \cup {AnySender} : Connect(t, r, s) \/ Disconnect(t, r, s)
        \/ \E s \in Senders : Send(t, s)
        \/ Step(t) \/ Call(t, TRUE)

Spec == Init /\ [][Next]_vars

(***************************************************************************)
(* Properties                                                              *)
(***************************************************************************)
\* Receivers whose address no other living receiver shares (two bound methods of
\* one function do, and count as one: _make_id).
Apart(r) == \A q \in Receivers \ {r} : Address[q] = Address[r] => life[q] \in {"later", "gone"}

\* signal.py, send ("Send signal from sender to all connected receivers"): whoever
\* was connected when the send began, and neither left nor died, has been called,
\* and nobody who was not connected at some time during the send has; each once
\* for each connection, and even if another receiver raised.
SentToAll ==
    \A t \in Threads : pc[t] = "call" /\ found[t] = <<>> =>
        /\ \A e \in must[t] : Apart(e.rec) => e \in Range(called[t])
        /\ Range(called[t]) \subseteq may[t]
        /\ IsInjective(called[t])

\* connect ("Receivers are added unless another has their dispatch_uid"): what was
\* connected is in the list, also at an address that a dead receiver had.
ConnectedIsListed ==
    \A e \in registered : Apart(e.rec) => e \in Range(entries)

\* Nothing dead stays in the list unnoticed: the flag is up, or somebody is about
\* to put it up or to sweep.
DeadNoticed ==
    (\E i \in DOMAIN entries : ~Alive(entries[i].rec)) =>
        \/ flag
        \/ \E r \in Receivers : life[r] = "cleared"
        \/ \E t \in lock : sweep[t]

\* Signals reach the receivers they should.
SignalsRight == TypeOK /\ SentToAll /\ ConnectedIsListed /\ DeadNoticed
=============================================================================
