----------------------------- MODULE LimitedSet -----------------------------
(***************************************************************************)
(* celery.utils.collections.LimitedSet, the kind-of set behind             *)
(* worker.state.revoked and worker.state.successful_requests.  A dict      *)
(* item -> entry says what is in the set; a heap of entries, from which    *)
(* re-added and discarded items are removed lazily, says what is oldest.   *)
(*                                                                         *)
(* An operation runs to its end before the next one starts.  The two       *)
(* loops of purge() are steps of their own (loop), so that each pop of the *)
(* heap can be observed; the operation that called purge() owns them.      *)
(***************************************************************************)
EXTENDS Integers, FiniteSets

CONSTANTS
    Items,       \* what may be put in the set
    MaxLen,      \* maxlen; 0: no bound
    MinLen,      \* minlen: what the expiry leaves in the set
    Expires,     \* expires; 0: items do not expire
    Overload,    \* max_heap_percent_overload
    MaxClock,    \* bound on time.monotonic()
    MaxSeq,      \* bound on the insertions
    MaxOther     \* bound on the size of a LimitedSet given to update()

ASSUME BoundsAssumption ==
    /\ {MaxLen, MinLen, Expires, Overload, MaxClock, MaxSeq, MaxOther} \subseteq Nat
    /\ MinLen <= MaxLen
    /\ IsFiniteSet(Items)

VARIABLES
    data,    \* _data: item -> entry
    heap,    \* _heap: the entries pushed and not popped
    seq,     \* _seq: the next sequence number
    clock,   \* time.monotonic()
    todo,    \* item -> insertion time, what update() has still to add
    loop     \* the while loop of purge() or pop() being run, or "idle"

vars == <<data, heap, seq, clock, todo, loop>>

Entry == [time : Nat, seq : Nat, item : Items]

TypeOK ==
    /\ DOMAIN data \subseteq Items
    /\ \A x \in DOMAIN data : data[x] \in Entry /\ data[x].item = x
    /\ heap \subseteq Entry
    /\ IsFiniteSet(heap)
    /\ seq \in Nat
    /\ clock \in Nat
    /\ DOMAIN todo \subseteq Items
    /\ \A x \in DOMAIN todo : todo[x] \in Nat
    /\ loop \in {"idle", "maxlen", "expire", "expirepop", "pop"}

-----------------------------------------------------------------------------
(* Tuple comparison of (inserted, seq, item).  Two entries that agree on   *)
(* time and seq (one came with another LimitedSet) are ordered by their    *)
(* items, which the model leaves open.                                     *)
Older(e, f) == e.time < f.time \/ (e.time = f.time /\ e.seq < f.seq)

IsOldest(e) == e \in heap /\ \A f \in heap : ~ Older(f, e)

Without(d, x) == [y \in DOMAIN d \ {x} |-> d[y]]

With(d, x, e) == [y \in DOMAIN d \union {x} |-> IF y = x THEN e ELSE d[y]]

Entries(d) == {d[x] : x \in DOMAIN d}

Size(d) == Cardinality(DOMAIN d)

AtLeast1(n) == IF n = 0 THEN 1 ELSE n

(* _maybe_refresh_heap: rebuild the heap h from d once it is Overload      *)
(* percent longer.                                                         *)
HeapAfterRefresh(d, h) ==
    IF Cardinality(h) * 100 >= (100 + Overload) * AtLeast1(Size(d))
    THEN Entries(d)
    ELSE h

Empty == [x \in {} |-> 0]

Idle == loop = "idle" /\ DOMAIN todo = {}

Init ==
    /\ data = Empty
    /\ heap = {}
    /\ seq = 0
    /\ clock = 0
    /\ todo = Empty
    /\ loop = "idle"

(* The body of add(item, now): discard what is there, push the new entry,  *)
(* purge when maxlen is reached.                                           *)
AddEntry(x, t) ==
    LET d == Without(data, x)
        h == IF x \in DOMAIN data THEN HeapAfterRefresh(d, heap) ELSE heap
        e == [time |-> t, seq |-> seq, item |-> x]
    IN  /\ seq < MaxSeq
        /\ seq' = seq + 1
        /\ data' = With(data, x, e)
        /\ heap' = h \union {e}
        /\ loop' = IF MaxLen # 0 /\ Cardinality(DOMAIN data \union {x}) >= MaxLen
                   THEN "maxlen" ELSE "idle"
        /\ UNCHANGED clock

Add(x, t) ==
    /\ Idle
    /\ AddEntry(x, t)
    /\ UNCHANGED todo

(* update() with an iterable (every time is clock) or with a dict          *)
(* {item: inserted}: add() each item, in an order the argument fixes.      *)
Update(f) ==
    /\ Idle
    /\ seq + Cardinality(DOMAIN f) <= MaxSeq
    /\ todo' = f
    /\ UNCHANGED <<data, heap, seq, clock, loop>>

UpdateAdd(x) ==
    /\ loop = "idle"
    /\ x \in DOMAIN todo
    /\ AddEntry(x, todo[x])
    /\ todo' = Without(todo, x)

(* Mutant: the heap is not rebuilt.                                        *)
UpdateFromStaleHeap(other) ==
    /\ Idle
    /\ DOMAIN other # {}
    /\ data' = [y \in DOMAIN data \union DOMAIN other |->
                    IF y \in DOMAIN other THEN other[y] ELSE data[y]]
    /\ loop' = "maxlen"
    /\ UNCHANGED <<heap, seq, clock, todo>>

(* update() with another LimitedSet whose _data is other.                  *)
UpdateFrom(other) ==
    /\ Idle
    /\ DOMAIN other # {}
    /\ data' = [y \in DOMAIN data \union DOMAIN other |->
                    IF y \in DOMAIN other THEN other[y] ELSE data[y]]
    /\ heap' = Entries(data')
    /\ loop' = "maxlen"
    /\ UNCHANGED <<seq, clock, todo>>

Discard(x) ==
    /\ Idle
    /\ data' = Without(data, x)
    /\ heap' = HeapAfterRefresh(data', heap)
    /\ UNCHANGED <<seq, clock, todo, loop>>

Clear ==
    /\ Idle
    /\ data' = Empty
    /\ heap' = {}
    /\ UNCHANGED <<seq, clock, todo, loop>>

Purge ==
    /\ Idle
    /\ loop' = "maxlen"
    /\ UNCHANGED <<data, heap, seq, clock, todo>>

Pop ==
    /\ Idle
    /\ loop' = "pop"
    /\ UNCHANGED <<data, heap, seq, clock, todo>>

(* One heappop(): the item of the oldest entry leaves the set if it is in  *)
(* it, whichever of its entries this is.                                   *)
HeapPop(e) ==
    /\ IsOldest(e)
    /\ heap' = heap \ {e}
    /\ data' = Without(data, e.item)
    /\ UNCHANGED <<seq, clock, todo>>

(* Mutant: pop() waits for an item that is in the set.                     *)
PopLoopNonEmpty(after) ==
    \E e \in heap : /\ HeapPop(e)
                    /\ loop' = IF e.item \in DOMAIN data THEN after ELSE loop

(* pop(): heappop() until an item has left the set or the heap is empty.   *)
PopLoop(after) ==
    \/ \E e \in heap : /\ HeapPop(e)
                      /\ loop' = IF e.item \in DOMAIN data THEN after ELSE loop
    \/ /\ heap = {}
       /\ loop' = after
       /\ UNCHANGED <<data, heap, seq, clock, todo>>

PopStep == loop = "pop" /\ PopLoop("idle")

(* while len(self._data) > self.maxlen: self.pop()                         *)
PurgeMaxLen ==
    /\ loop = "maxlen"
    /\ MaxLen # 0 /\ Size(data) > MaxLen
    /\ PopLoop("maxlen")

PurgeMaxLenDone ==
    /\ loop = "maxlen"
    /\ ~ (MaxLen # 0 /\ Size(data) > MaxLen)
    /\ loop' = "expire"
    /\ UNCHANGED <<data, heap, seq, clock, todo>>

Expired(e) == e.time + Expires <= clock

(* while len(self._data) > self.minlen: pop() if heap[0] has expired.      *)
PurgeExpired ==
    /\ loop = "expire"
    /\ Expires # 0 /\ Size(data) > MinLen
    /\ \E e \in heap : IsOldest(e) /\ Expired(e)
    /\ loop' = "expirepop"
    /\ UNCHANGED <<data, heap, seq, clock, todo>>

PurgePop == loop = "expirepop" /\ PopLoop("expire")

(* Mutant: any entry that has not expired ends the loop.                   *)
PurgeDoneAnyEntry ==
    /\ loop = "expire"
    /\ \/ Expires = 0
       \/ Size(data) <= MinLen
       \/ \E e \in heap : ~ Expired(e)
    /\ loop' = "idle"
    /\ UNCHANGED <<data, heap, seq, clock, todo>>

PurgeDone ==
    /\ loop = "expire"
    /\ \/ Expires = 0
       \/ Size(data) <= MinLen
       \/ \E e \in heap : IsOldest(e) /\ ~ Expired(e)
    /\ loop' = "idle"
    /\ UNCHANGED <<data, heap, seq, clock, todo>>

Tick ==
    /\ Idle
    /\ clock < MaxClock
    /\ clock' = clock + 1
    /\ UNCHANGED <<data, heap, seq, todo, loop>>

(* What update() is given: a dict, or the _data of another LimitedSet.     *)
Stamps == UNION {[S -> 0..MaxClock] : S \in SUBSET Items}

Others ==
    LET Sets == {S \in SUBSET Items : Cardinality(S) <= MaxOther}
        Made(S, t) == [x \in S |-> [time |-> t[x], seq |-> 0, item |-> x]]
    IN  UNION {{Made(S, t) : t \in [S -> 0..MaxClock]} : S \in Sets}

Next ==
    \/ \E x \in Items : Add(x, clock) \/ Discard(x) \/ UpdateAdd(x)
    \/ \E f \in Stamps : Update(f)
    \/ \E o \in Others : UpdateFrom(o)
    \/ Clear \/ Purge \/ Pop \/ Tick
    \/ PopStep \/ PurgeMaxLen \/ PurgeMaxLenDone
    \/ PurgeExpired \/ PurgePop \/ PurgeDone

(* The loops of purge() and pop(), and the iterations of update().         *)
Running ==
    \/ \E x \in Items : UpdateAdd(x)
    \/ PopStep \/ PurgeMaxLen \/ PurgeMaxLenDone
    \/ PurgeExpired \/ PurgePop \/ PurgeDone

Spec == Init /\ [][Next]_vars

FairSpec == Spec /\ WF_vars(Running)

-----------------------------------------------------------------------------
(* Every live item can be found in the heap, under its own entry.  purge() *)
(* reads heap[0] without a test, and only the heap leads it to an item.    *)
HeapCoversData == \A x \in DOMAIN data : data[x] \in heap

(* "maxlen is enforced at all times": between two operations no more than  *)
(* maxlen items are in the set, whatever update() merged into it.          *)
MaxLenEnforced == loop = "idle" /\ MaxLen # 0 => Size(data) <= MaxLen

(* A purge() that returns has left no expired item, minlen excepted, in    *)
(* spite of the stale entries that stand in the heap's order.              *)
PurgeLeavesNoExpired ==
    [][PurgeDone /\ Expires # 0 =>
          \/ Size(data) <= MinLen
          \/ \A x \in DOMAIN data : ~ Expired(data[x])]_vars

(* The expiry never takes the set below its residual size minlen, however  *)
(* many stale entries a pop() skips before it finds a live item.           *)
MinLenKept == [][loop = "expirepop" => Size(data') >= MinLen]_vars

(* Every operation returns: the while loops and update() come to an end.   *)
OperationsReturn == []<>Idle

(* What the docstring of add() promises: "reset the expiry time of an      *)
(* existing item".  The expiry loop removes no item before its time.       *)
ExpiryRemovesOnlyExpired ==
    [][loop = "expirepop" =>
          \A x \in DOMAIN data : x \notin DOMAIN data' => Expired(data[x])]_vars
=============================================================================
