--------------------------- MODULE ClusterProofs ----------------------------
(***************************************************************************)
(* The set of revoked ids keeps its promises for every maxlen, minlen,     *)
(* expiry and set of items, and workers that ask each other for their      *)
(* revoked ids agree on them.                                              *)
(*                                                                         *)
(* The set: every item has its entry in the heap, so the oldest entry of   *)
(* the heap is as old as any item.  The workers: Mingle has the induction  *)
(* for one environment; here it is used for the two that are played.       *)
(***************************************************************************)
EXTENDS MCCluster, FiniteSetTheorems, TLAPS

-----------------------------------------------------------------------------
(* What holds for every maxlen, minlen, expiry and set of items.  The      *)
(* inductive invariant Inv adds to the properties that the bound already   *)
(* holds once the maxlen loop of purge() is over, and that the expiry pops *)
(* only from a set that is larger than minlen.                             *)
BoundedAfterLoop ==
    MaxLen # 0 /\ loop # "maxlen" => Size(data) <= MaxLen

ExpiryFromMore ==
    loop = "expirepop" => Size(data) > MinLen

Inv == TypeOK /\ HeapCoversData /\ BoundedAfterLoop /\ ExpiryFromMore

(* Removing an item leaves a function on fewer items, none of them changed. *)
LEMMA WithoutFacts ==
    ASSUME NEW d, NEW x
    PROVE  /\ DOMAIN Without(d, x) = DOMAIN d \ {x}
           /\ \A y \in DOMAIN d \ {x} : Without(d, x)[y] = d[y]
    BY DEF Without

(* A set of items is finite; losing an item makes it at most one smaller,  *)
(* and losing what is not in it changes nothing.                           *)
LEMMA SizeShrinks ==
    ASSUME NEW d, DOMAIN d \subseteq Items, NEW x
    PROVE  /\ Size(d) \in Nat
           /\ Size(Without(d, x)) \in Nat
           /\ Size(Without(d, x)) <= Size(d)
           /\ Size(Without(d, x)) >= Size(d) - 1
           /\ x \notin DOMAIN d => Size(Without(d, x)) = Size(d)
    <1>1. IsFiniteSet(DOMAIN d)
        BY FS_Subset, BoundsAssumption
    <1>2. DOMAIN d \ {x} \subseteq DOMAIN d
        OBVIOUS
    <1>3. /\ IsFiniteSet(DOMAIN d \ {x})
          /\ Cardinality(DOMAIN d \ {x}) <= Cardinality(DOMAIN d)
        BY <1>1, <1>2, FS_Subset
    <1>4. Cardinality(DOMAIN d \ {x}) =
              IF x \in DOMAIN d THEN Cardinality(DOMAIN d) - 1 ELSE Cardinality(DOMAIN d)
        BY <1>1, FS_RemoveElement
    <1>5. /\ Size(d) = Cardinality(DOMAIN d)
          /\ Size(Without(d, x)) = Cardinality(DOMAIN d \ {x})
        BY WithoutFacts DEF Size
    <1>6. Cardinality(DOMAIN d) \in Nat /\ Cardinality(DOMAIN d \ {x}) \in Nat
        BY <1>1, <1>3, FS_CardinalityType
    <1>. QED
        BY <1>3, <1>4, <1>5, <1>6

(* The heap _maybe_refresh_heap leaves holds every entry of d.             *)
LEMMA RefreshKeepsCover ==
    ASSUME NEW d, NEW h,
           DOMAIN d \subseteq Items,
           \A x \in DOMAIN d : d[x] \in Entry /\ d[x].item = x,
           \A x \in DOMAIN d : d[x] \in h,
           h \subseteq Entry, IsFiniteSet(h)
    PROVE  /\ \A x \in DOMAIN d : d[x] \in HeapAfterRefresh(d, h)
           /\ HeapAfterRefresh(d, h) \subseteq h
           /\ HeapAfterRefresh(d, h) \subseteq Entry
           /\ IsFiniteSet(HeapAfterRefresh(d, h))
    <1>1. Entries(d) \subseteq h
        BY DEF Entries
    <1>2. IsFiniteSet(Entries(d))
        BY <1>1, FS_Subset
    <1>. QED
        BY <1>1, <1>2 DEF HeapAfterRefresh, Entries

(* The empty set of LimitedSet.__init__ satisfies the inductive invariant. *)
LEMMA InitInv == Init => Inv
    <1>. SUFFICES ASSUME Init PROVE Inv
        OBVIOUS
    <1>1. DOMAIN data = {} /\ DOMAIN todo = {}
        BY DEF Init, Empty
    <1>2. Cardinality({}) = 0 /\ IsFiniteSet({})
        BY FS_EmptySet
    <1>. QED
        BY <1>1, <1>2, BoundsAssumption
        DEF Init, Inv, TypeOK, HeapCoversData, BoundedAfterLoop, ExpiryFromMore, Size

(* One add(): whatever was in the heap, the new entry covers the item.     *)
LEMMA AddEntryInv ==
    ASSUME Inv, NEW x \in Items, NEW t \in Nat, AddEntry(x, t),
           DOMAIN todo' \subseteq Items, \A y \in DOMAIN todo' : todo'[y] \in Nat
    PROVE  Inv'
    <1>. DEFINE d == Without(data, x)
               e == [time |-> t, seq |-> seq, item |-> x]
               h == IF x \in DOMAIN data THEN HeapAfterRefresh(d, heap) ELSE heap
    <1>1. /\ DOMAIN d \subseteq Items
          /\ \A y \in DOMAIN d : d[y] \in Entry /\ d[y].item = y /\ d[y] \in heap
        <2>1. DOMAIN d = DOMAIN data \ {x} /\ \A y \in DOMAIN d : d[y] = data[y]
            BY WithoutFacts
        <2>2. \A y \in DOMAIN data :
                  data[y] \in Entry /\ data[y].item = y /\ data[y] \in heap
            BY DEF Inv, TypeOK, HeapCoversData
        <2>. HIDE DEF d
        <2>. QED
            BY <2>1, <2>2 DEF Inv, TypeOK
    <1>2. /\ h \subseteq Entry /\ IsFiniteSet(h)
          /\ \A y \in DOMAIN d : d[y] \in h
        BY <1>1, RefreshKeepsCover DEF Inv, TypeOK
    <1>3. e \in Entry /\ e.item = x
        BY DEF Inv, TypeOK, Entry
    <1>4. data' = With(data, x, e) /\ heap' = h \union {e} /\ seq' = seq + 1
        BY DEF AddEntry
    <1>5. /\ DOMAIN data' = DOMAIN data \union {x}
          /\ data'[x] = e
          /\ \A y \in DOMAIN data \ {x} : y \in DOMAIN d /\ data'[y] = d[y]
        BY <1>4, WithoutFacts DEF With
    <1>. HIDE DEF d, e, h
    <1>6. IsFiniteSet(heap')
        BY <1>2, <1>4, FS_AddElement
    <1>7. TypeOK'
        <2>1. DOMAIN data' \subseteq Items
            BY <1>5 DEF Inv, TypeOK
        <2>2. \A y \in DOMAIN data' : data'[y] \in Entry /\ data'[y].item = y
            BY <1>1, <1>3, <1>5
        <2>3. heap' \subseteq Entry
            BY <1>2, <1>3, <1>4
        <2>. QED
            BY <1>6, <2>1, <2>2, <2>3 DEF Inv, TypeOK, AddEntry
    <1>8. HeapCoversData'
        BY <1>2, <1>4, <1>5 DEF HeapCoversData
    <1>9. BoundedAfterLoop'
        <2>1. Size(data') \in Nat
            BY <1>7, SizeShrinks DEF TypeOK
        <2>. QED
            BY <1>5, <2>1, BoundsAssumption DEF AddEntry, BoundedAfterLoop, Size
    <1>10. ExpiryFromMore'
        BY DEF AddEntry, ExpiryFromMore
    <1>. QED
        BY <1>7, <1>8, <1>9, <1>10 DEF Inv

(* One iteration of pop(), called from the loop that goes on in after.     *)
LEMMA PopLoopInv ==
    ASSUME Inv, NEW after \in {"idle", "maxlen", "expire"}, PopLoop(after),
           loop = "maxlen" => after = "maxlen"
    PROVE  Inv'
    <1>1. CASE \E e \in heap : /\ HeapPop(e)
                               /\ loop' = IF e.item \in DOMAIN data THEN after ELSE loop
        <2>. PICK e \in heap : /\ HeapPop(e)
                               /\ loop' = IF e.item \in DOMAIN data THEN after ELSE loop
            BY <1>1
        <2>1. heap' = heap \ {e} /\ data' = Without(data, e.item)
            BY DEF HeapPop
        <2>2. /\ DOMAIN data' = DOMAIN data \ {e.item}
              /\ \A y \in DOMAIN data' : data'[y] = data[y]
            BY <2>1, WithoutFacts
        <2>3. heap' \subseteq heap /\ IsFiniteSet(heap')
            BY <2>1, FS_Subset DEF Inv, TypeOK
        <2>4. TypeOK'
            BY <2>2, <2>3 DEF Inv, TypeOK, HeapPop
        <2>5. HeapCoversData'
            BY <2>1, <2>2 DEF Inv, TypeOK, HeapCoversData
        <2>6. Size(data') \in Nat /\ Size(data) \in Nat /\ Size(data') <= Size(data)
            BY <2>1, SizeShrinks DEF Inv, TypeOK
        <2>7. BoundedAfterLoop'
            BY <2>6, BoundsAssumption DEF Inv, TypeOK, BoundedAfterLoop
        <2>8. ExpiryFromMore'
            <3>1. CASE e.item \in DOMAIN data
                BY <3>1 DEF ExpiryFromMore
            <3>2. CASE e.item \notin DOMAIN data
                <4>1. loop' = loop /\ Size(data') = Size(data)
                    BY <2>1, <3>2, SizeShrinks DEF Inv, TypeOK
                <4>. QED
                    BY <4>1 DEF Inv, ExpiryFromMore
            <3>. QED
                BY <3>1, <3>2
        <2>. QED
            BY <2>4, <2>5, <2>7, <2>8 DEF Inv
    <1>2. CASE heap = {} /\ loop' = after /\ UNCHANGED <<data, heap, seq, clock, todo>>
        BY <1>2 DEF Inv, TypeOK, HeapCoversData, BoundedAfterLoop, ExpiryFromMore, Size
    <1>. QED
        BY <1>1, <1>2 DEF PopLoop

(* Every operation of LimitedSet preserves the inductive invariant. *)
LEMMA StepInv == Inv /\ [Next]_vars => Inv'
    <1>. SUFFICES ASSUME Inv, [Next]_vars PROVE Inv'
        OBVIOUS
    <1>. USE DEF Inv
    <1>1. ASSUME NEW x \in Items, Add(x, clock) PROVE Inv'
        <2>1. AddEntry(x, clock) /\ todo' = todo
            BY <1>1 DEF Add
        <2>. QED
            BY <2>1, AddEntryInv DEF TypeOK
    <1>2. ASSUME NEW x \in Items, Discard(x) PROVE Inv'
        <2>1. /\ data' = Without(data, x)
              /\ heap' = HeapAfterRefresh(data', heap)
              /\ UNCHANGED <<seq, clock, todo, loop>>
            BY <1>2 DEF Discard
        <2>2. /\ DOMAIN data' = DOMAIN data \ {x}
              /\ \A y \in DOMAIN data' : data'[y] = data[y]
            BY <2>1, WithoutFacts
        <2>3. /\ DOMAIN data' \subseteq Items
              /\ \A y \in DOMAIN data' : data'[y] \in Entry /\ data'[y].item = y
              /\ \A y \in DOMAIN data' : data'[y] \in heap
            BY <2>2 DEF TypeOK, HeapCoversData
        <2>4. TypeOK' /\ HeapCoversData'
            <3>1. heap \subseteq Entry /\ IsFiniteSet(heap)
                BY DEF TypeOK
            <3>2. /\ \A y \in DOMAIN data' : data'[y] \in heap'
                  /\ heap' \subseteq Entry
                  /\ IsFiniteSet(heap')
                BY <2>1, <2>3, <3>1, RefreshKeepsCover
            <3>. QED
                BY <2>1, <2>3, <3>2 DEF TypeOK, HeapCoversData
        <2>5. Size(data') \in Nat /\ Size(data) \in Nat /\ Size(data') <= Size(data)
            BY <2>1, SizeShrinks DEF TypeOK
        <2>6. BoundedAfterLoop'
            BY <2>1, <2>5, BoundsAssumption DEF BoundedAfterLoop
        <2>7. ExpiryFromMore'
            BY <1>2 DEF Discard, Idle, ExpiryFromMore
        <2>. QED
            BY <2>4, <2>6, <2>7
    <1>3. ASSUME NEW x \in Items, UpdateAdd(x) PROVE Inv'
        <2>1. /\ AddEntry(x, todo[x])
              /\ x \in DOMAIN todo
              /\ todo' = Without(todo, x)
            BY <1>3 DEF UpdateAdd
        <2>2. /\ todo[x] \in Nat
              /\ DOMAIN todo' \subseteq Items
              /\ \A y \in DOMAIN todo' : todo'[y] \in Nat
            <3>1. /\ DOMAIN todo' = DOMAIN todo \ {x}
                  /\ \A y \in DOMAIN todo' : todo'[y] = todo[y]
                BY <2>1, WithoutFacts
            <3>. QED
                BY <2>1, <3>1 DEF TypeOK
        <2>. QED
            BY <2>1, <2>2, AddEntryInv
    <1>4. ASSUME NEW f \in Stamps, Update(f) PROVE Inv'
        <2>1. DOMAIN f \subseteq Items /\ \A x \in DOMAIN f : f[x] \in Nat
            BY BoundsAssumption DEF Stamps
        <2>. QED
            BY <1>4, <2>1 DEF Update, TypeOK, HeapCoversData, BoundedAfterLoop,
                              ExpiryFromMore, Size
    <1>5. ASSUME NEW o \in Others, UpdateFrom(o) PROVE Inv'
        <2>1. /\ DOMAIN o \subseteq Items
              /\ \A x \in DOMAIN o : o[x] \in Entry /\ o[x].item = x
            BY BoundsAssumption DEF Others, Entry
        <2>2. data' = [y \in DOMAIN data \union DOMAIN o |->
                           IF y \in DOMAIN o THEN o[y] ELSE data[y]]
            BY <1>5 DEF UpdateFrom
        <2>3. /\ DOMAIN data' \subseteq Items
              /\ \A x \in DOMAIN data' : data'[x] \in Entry /\ data'[x].item = x
            BY <2>1, <2>2 DEF TypeOK
        <2>4. heap' = Entries(data')
            BY <1>5 DEF UpdateFrom
        <2>5. IsFiniteSet(heap')
            <3>1. IsFiniteSet(DOMAIN data')
                BY <2>3, FS_Subset, BoundsAssumption
            <3>2. data' \in Surjection(DOMAIN data', heap')
                BY <2>2, <2>4 DEF Surjection, Entries
            <3>. QED
                BY <3>1, <3>2, FS_Surjection
        <2>6. loop' = "maxlen" /\ UNCHANGED <<seq, clock, todo>>
            BY <1>5 DEF UpdateFrom
        <2>7. heap' \subseteq Entry /\ HeapCoversData'
            BY <2>3, <2>4 DEF Entries, HeapCoversData
        <2>. QED
            BY <2>3, <2>5, <2>6, <2>7 DEF TypeOK, BoundedAfterLoop, ExpiryFromMore
    <1>6. CASE Clear
        <2>1. DOMAIN data' = {} /\ heap' = {}
            BY <1>6 DEF Clear, Empty
        <2>2. IsFiniteSet(heap') /\ Size(data') = 0
            BY <2>1, FS_EmptySet DEF Size
        <2>. QED
            BY <1>6, <2>1, <2>2, BoundsAssumption
            DEF Clear, Idle, TypeOK, HeapCoversData, BoundedAfterLoop, ExpiryFromMore
    <1>7. CASE Purge \/ Pop \/ Tick \/ UNCHANGED vars
        BY <1>7 DEF Purge, Pop, Tick, Idle, vars, TypeOK, HeapCoversData,
                    BoundedAfterLoop, ExpiryFromMore, Size
    <1>8. CASE PopStep \/ PurgePop \/ PurgeMaxLen
        <2>1. PopLoop("idle") /\ loop = "pop" => Inv'
            BY PopLoopInv
        <2>2. PopLoop("expire") /\ loop = "expirepop" => Inv'
            BY PopLoopInv
        <2>3. PopLoop("maxlen") => Inv'
            BY PopLoopInv
        <2>. QED
            BY <1>8, <2>1, <2>2, <2>3 DEF PopStep, PurgePop, PurgeMaxLen
    <1>9. CASE PurgeMaxLenDone \/ PurgeExpired \/ PurgeDone
        <2>1. Size(data) \in Nat
            BY SizeShrinks DEF TypeOK
        <2>. QED
            BY <1>9, <2>1, BoundsAssumption
            DEF PurgeMaxLenDone, PurgeExpired, PurgeDone, TypeOK, HeapCoversData,
                BoundedAfterLoop, ExpiryFromMore, Size
    <1>. QED
        BY <1>1, <1>2, <1>3, <1>4, <1>5, <1>6, <1>7, <1>8, <1>9 DEF Next

(* LimitedSet is type correct, every live item is in the heap under its    *)
(* own entry, and no operation returns with more than maxlen items.        *)
THEOREM Safety == Spec => [](TypeOK /\ HeapCoversData /\ MaxLenEnforced)
    <1>1. Inv => TypeOK /\ HeapCoversData /\ MaxLenEnforced
        BY DEF Inv, BoundedAfterLoop, MaxLenEnforced
    <1>. QED
        BY <1>1, InitInv, StepInv, PTL DEF Spec

(* purge() returns with at most minlen items or with none that expired:    *)
(* the heap's oldest entry is fresh, and it is as old as any live item's.  *)
THEOREM PurgeIsComplete == Spec => PurgeLeavesNoExpired
    <1>1. Inv /\ [Next]_vars =>
              [PurgeDone /\ Expires # 0 =>
                  \/ Size(data) <= MinLen
                  \/ \A x \in DOMAIN data : ~ Expired(data[x])]_vars
        <2>. SUFFICES ASSUME Inv, PurgeDone, Expires # 0, ~ (Size(data) <= MinLen),
                            NEW x \in DOMAIN data
                     PROVE  ~ Expired(data[x])
            BY DEF vars
        <2>1. PICK e \in heap : IsOldest(e) /\ ~ Expired(e)
            BY DEF PurgeDone
        <2>2. data[x] \in heap /\ data[x] \in Entry /\ e \in Entry
            BY DEF Inv, TypeOK, HeapCoversData
        <2>3. ~ Older(data[x], e)
            BY <2>1, <2>2 DEF IsOldest
        <2>4. Expires \in Nat /\ clock \in Nat
            BY BoundsAssumption DEF Inv, TypeOK
        <2>. QED
            BY <2>1, <2>2, <2>3, <2>4 DEF Older, Expired, Entry
    <1>. QED
        BY <1>1, InitInv, StepInv, PTL DEF Spec, PurgeLeavesNoExpired

(* Expiry leaves minlen items in the set: each pop() of its loop starts    *)
(* from more than minlen of them and takes one, stale entries or not.      *)
THEOREM ExpiryKeepsMinLen == Spec => MinLenKept
    <1>1. Inv /\ [Next]_vars => [loop = "expirepop" => Size(data') >= MinLen]_vars
        <2>. SUFFICES ASSUME Inv, Next, loop = "expirepop" PROVE Size(data') >= MinLen
            BY DEF vars
        <2>1. PopLoop("expire")
            BY DEF Next, Add, Discard, UpdateAdd, Update, UpdateFrom, Clear, Purge, Pop,
                   Tick, Idle, PopStep, PurgeMaxLen, PurgeMaxLenDone, PurgeExpired,
                   PurgePop, PurgeDone
        <2>2. Size(data) \in Nat /\ Size(data) > MinLen /\ MinLen \in Nat
            BY SizeShrinks, BoundsAssumption DEF Inv, TypeOK, ExpiryFromMore
        <2>3. CASE data' = data
            BY <2>2, <2>3
        <2>4. ASSUME NEW e \in heap, HeapPop(e) PROVE Size(data') >= MinLen
            <3>1. data' = Without(data, e.item)
                BY <2>4 DEF HeapPop
            <3>2. Size(data') \in Nat /\ Size(data') >= Size(data) - 1
                BY <3>1, SizeShrinks DEF Inv, TypeOK
            <3>. QED
                BY <2>2, <3>2
        <2>. QED
            BY <2>1, <2>3, <2>4 DEF PopLoop
    <1>. QED
        BY <1>1, InitInv, StepInv, PTL DEF Spec, MinLenKept

-----------------------------------------------------------------------------
(* The workers of the scenario that is played satisfy the invariant of     *)
(* Mingle in its environment; in the other scenarios they stay at rest.    *)
AgreeInv == IF scenario = "rough" THEN Rough!Inv ELSE Calm!Inv

(* All scenarios start without a worker.                                   *)
LEMMA AgreeInit == ScenarioInit => AgreeInv
    <1>1. Calm!Init => Calm!Inv
        BY Calm!InitInv
    <1>2. Rough!Init => Rough!Inv
        BY Rough!InitInv
    <1>. QED
        BY <1>1, <1>2 DEF ScenarioInit, AgreeInv

(* A step of the workers belongs to their scenario.                        *)
LEMMA AgreeStep == AgreeInv /\ [ScenarioNext]_allVars => AgreeInv'
    <1>. SUFFICES ASSUME AgreeInv, [ScenarioNext]_allVars PROVE AgreeInv'
        OBVIOUS
    <1>1. scenario' = scenario
        BY DEF ScenarioNext, InSet, InMingle, InGossip, allVars
    <1>2. scenario = "rough" => [Rough!Next]_mingleVars
        BY DEF ScenarioNext, InSet, InMingle, InGossip, allVars
    <1>3. scenario # "rough" => [Calm!Next]_mingleVars
        BY DEF ScenarioNext, InSet, InMingle, InGossip, allVars
    <1>4. Rough!Inv /\ [Rough!Next]_mingleVars => Rough!Inv'
        BY Rough!NextInv DEF Rough!vars, mingleVars
    <1>5. Calm!Inv /\ [Calm!Next]_mingleVars => Calm!Inv'
        BY Calm!NextInv DEF Calm!vars, mingleVars
    <1>. QED
        BY <1>1, <1>2, <1>3, <1>4, <1>5 DEF AgreeInv

(* Workers that start, stop and die while tasks are revoked: with starts   *)
(* and revocations one after the other those that are up agree on the      *)
(* revoked ids once nothing is on its way, and however these overlap a     *)
(* worker knows what it saved (Mingle.sync, control.hello, Persistent).    *)
THEOREM ClusterAgrees == ScenarioSpec => []RevokedAgreed
    <1>1. AgreeInv => RevokedAgreed
        BY Rough!InvAgrees, Calm!InvAgrees DEF AgreeInv, RevokedAgreed
    <1>. QED
        BY <1>1, AgreeInit, AgreeStep, PTL DEF ScenarioSpec
=============================================================================
