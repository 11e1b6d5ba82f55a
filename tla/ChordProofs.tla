----------------------------- MODULE ChordProofs -----------------------------
(***************************************************************************)
(* The body of a chord on a counting backend is applied only after every   *)
(* part has succeeded: for every header, however often its parts are       *)
(* executed again, whichever worker is lost and whichever call raises.     *)
(*                                                                         *)
(* The counter alone does not give this (a redelivered part counts twice), *)
(* the join does: what a run has joined was stored by some run of each     *)
(* part, and the history variable succeeded keeps that, though the stored  *)
(* state itself may be overwritten.                                        *)
(*                                                                         *)
(* Without duplicates the counter reaches the size of the header once, so  *)
(* the body is called at most once; and if every part is executed once and *)
(* no reply of the store is lost, every step of the counting backend is    *)
(* one of the abstract Chord, or none.                                     *)
(*                                                                         *)
(* The same for the other two protocols: a set of results in the store     *)
(* whose size the last part reads (redis), where the body belongs to the   *)
(* part that made the set complete; and a task of its own that polls the   *)
(* parts (unlock), where the body belongs to the one message of that task. *)
(* The model that plays the three on one header inherits all of it.        *)
(***************************************************************************)
EXTENDS MCChords, Sequences, FiniteSetTheorems, TLAPS

Inv ==
    /\ TypeOK
    /\ \A p \in Parts : result[p] = "SUCCESS" => p \in succeeded
    /\ \A r \in Runs : pc[r] = "call" => succeeded = Parts
    /\ BodyAfterAll

(* A run belongs to a part of the header.                                  *)
LEMMA RunFacts == \A r \in Runs : Part(r) \in Parts
    BY DEF Runs, Part

(* The invariant holds before the header is sent.                          *)
LEMMA InitInv == Init => Inv
    BY DEF Init, Inv, TypeOK, Labels, Stored, BodyAfterAll

(* Each step of a run preserves the invariant: succeeded only grows, and   *)
(* only a join that has seen every part lets a run go on to the call.      *)
LEMMA StepInv == Inv /\ [Next]_vars => Inv'
    <1>. SUFFICES ASSUME Inv, [Next]_vars PROVE Inv'
        OBVIOUS
    <1>. USE RunFacts DEF Inv, TypeOK, BodyAfterAll, Goto, backendVars, bodyVars, faultVars,
                          Labels, Stored
    <1>1. CASE UNCHANGED vars
        BY <1>1 DEF vars
    <1>2. ASSUME NEW r \in Runs, Begin(r)
          PROVE  Inv'
        BY <1>2 DEF Begin
    <1>3. ASSUME NEW r \in Runs, NEW state \in {"SUCCESS", "FAILURE"}, ReadMeta(r, state)
          PROVE  Inv'
        BY <1>3 DEF ReadMeta
    <1>4. ASSUME NEW r \in Runs, StoreMeta(r)
          PROVE  Inv'
        BY <1>4 DEF StoreMeta
    <1>5. ASSUME NEW r \in Runs, RestoreGroup(r)
          PROVE  Inv'
        BY <1>5 DEF RestoreGroup
    <1>6. ASSUME NEW r \in Runs, Incr(r)
          PROVE  Inv'
        BY <1>6 DEF Incr
    <1>6a. ASSUME NEW r \in Runs, CountFirst(r)
           PROVE  Inv'
        BY <1>6a DEF CountFirst
    <1>6b. ASSUME NEW r \in Runs, RestoreDeps(r)
           PROVE  Inv'
        BY <1>6b DEF RestoreDeps
    <1>7. ASSUME NEW r \in Runs, Join(r)
          PROVE  Inv'
        <2>1. ASSUME \A p \in Parts : result[p] = "SUCCESS", Goto(r, "call"), UNCHANGED errors
              PROVE  Inv'
            <3>1. succeeded = Parts
                BY <2>1
            <3>. QED
                BY <1>7, <2>1, <3>1 DEF Join
        <2>2. ASSUME Goto(r, "delgroup"), errors' = errors + 1
              PROVE  Inv'
            BY <1>7, <2>2 DEF Join
        <2>. QED
            BY <1>7, <2>1, <2>2 DEF Join
    <1>8. ASSUME NEW r \in Runs, Call(r)
          PROVE  Inv'
        BY <1>8 DEF Call
    <1>9. ASSUME NEW r \in Runs, DeleteGroup(r) \/ DeleteKey(r) \/ Ack(r)
          PROVE  Inv'
        <2>1. ASSUME DeleteGroup(r)
              PROVE  Inv'
            BY <2>1 DEF DeleteGroup
        <2>2. ASSUME DeleteKey(r)
              PROVE  Inv'
            BY <2>2 DEF DeleteKey
        <2>3. ASSUME Ack(r)
              PROVE  Inv'
            BY <2>3 DEF Ack
        <2>. QED
            BY <1>9, <2>1, <2>2, <2>3
    <1>10. ASSUME NEW r \in Runs, IncrRaises(r) \/ Crash(r)
           PROVE  Inv'
        BY <1>10 DEF IncrRaises, Crash
    <1>. HIDE DEF Inv
    <1>. QED
        BY <1>1, <1>2, <1>3, <1>4, <1>5, <1>6, <1>6a, <1>6b, <1>7, <1>8, <1>9, <1>10
           DEF Next, Step

(* The body is applied only after every task of the header has succeeded   *)
(* (on_chord_part_return() of the key-value backends).                     *)
THEOREM CounterBodyAfterAll == Spec => []BodyAfterAll
    <1>1. Inv => BodyAfterAll
        BY DEF Inv
    <1>. QED
        BY <1>1, InitInv, StepInv, PTL DEF Spec

-----------------------------------------------------------------------------
(***************************************************************************)
(* The body is applied at most once, if a part is executed again only      *)
(* after the worker that had it was lost.  A chord is open until its       *)
(* counter reaches its size; then at most one run closes it, and as long   *)
(* as the counter is not deleted no other run can meet the size; after     *)
(* that the GroupResult is gone, and of the runs that had restored it      *)
(* before too few are left to bring a new counter to the size.             *)
(***************************************************************************)
(* A run that may still apply the body, or has to clean up after it.       *)
Closer(r) ==
    \/ pc[r] \in {"join", "call", "delgroup", "delkey"}
    \/ pc[r] = "deps" /\ saved

(* The parts that have restored the GroupResult and not counted yet.       *)
AtIncr == {p \in Parts : \E n \in 1..MaxRuns : pc[<<p, n>>] = "incr"}

OneAtATime ==
    \A p \in Parts : \A m, n \in 1..MaxRuns :
        m < n /\ pc[<<p, n>>] # "none" => pc[<<p, m>>] = "crashed"

(* A part is executed again only if the worker that had it was lost.       *)
AfterCrash(r) == r[2] > 1 => pc[<<Part(r), r[2] - 1>>] = "crashed"

Flavour ==
    \A r \in Runs : IF firestore THEN pc[r] \notin {"restore", "incr"}
                                 ELSE pc[r] \notin {"count", "deps"}

Open == counter < Size /\ calls = 0 /\ \A r \in Runs : ~ Closer(r)

Closing ==
    /\ counter >= Size /\ calls <= 1
    /\ \A r, s \in Runs : Closer(r) /\ Closer(s) => r = s
    /\ \A r \in Runs : Closer(r) /\ pc[r] \notin {"delgroup", "delkey"} => calls = 0
    /\ \A r \in Runs : pc[r] = "delkey" => ~ saved

Closed ==
    /\ ~ saved /\ calls <= 1
    /\ \A r \in Runs : ~ Closer(r)
    /\ firestore \/ counter + Cardinality(AtIncr) < Size

OnceInv == TypeOK /\ OneAtATime /\ Flavour /\ (Open \/ Closing \/ Closed)

(* The header has a size, and the parts about to count are some of it.     *)
LEMMA SizeFacts ==
    /\ Size \in Nat \ {0}
    /\ IsFiniteSet(AtIncr) /\ Cardinality(AtIncr) \in Nat
    <1>1. IsFiniteSet(Parts) /\ AtIncr \subseteq Parts /\ Parts # {}
        BY ChordAssumption DEF AtIncr
    <1>. QED
        BY <1>1, FS_Subset, FS_CardinalityType, FS_EmptySet DEF Size

(* The chord is open before the header is sent.                            *)
LEMMA OnceInit == Init => OnceInv
    BY SizeFacts DEF Init, OnceInv, TypeOK, OneAtATime, Flavour, Open, Closer, Labels, Stored, Runs

(* Every step moves one run, and none that is over.                        *)
LEMMA OneRunMoves ==
    ASSUME TypeOK, NEW r \in Runs, Begin(r) \/ Step(r) \/ IncrRaises(r) \/ Crash(r)
    PROVE  /\ \E label \in Labels : pc' = [pc EXCEPT ![r] = label]
           /\ firestore' = firestore
           /\ pc[r] # "crashed"
           /\ pc[r] = "none" <=> Begin(r)
    BY DEF TypeOK, Labels, Goto, Begin, Step, ReadMeta, StoreMeta, RestoreGroup, Incr, CountFirst,
           RestoreDeps, Join, Call, DeleteGroup, DeleteKey, Ack, IncrRaises, Crash

(* If messages are not duplicated, all runs of a part but the last were    *)
(* lost.                                                                   *)
LEMMA OneAtATimeStep ==
    ASSUME TypeOK, OneAtATime, NEW r \in Runs,
           Begin(r) \/ Step(r) \/ IncrRaises(r) \/ Crash(r),
           Begin(r) => AfterCrash(r)
    PROVE  OneAtATime'
    <1>1. PICK label \in Labels : pc' = [pc EXCEPT ![r] = label]
        BY OneRunMoves
    <1>2. SUFFICES ASSUME NEW p \in Parts, NEW m \in 1..MaxRuns, NEW n \in 1..MaxRuns,
                          m < n, pc'[<<p, n>>] # "none"
                   PROVE  pc'[<<p, m>>] = "crashed"
        BY DEF OneAtATime
    <1>3. <<p, m>> \in Runs /\ <<p, n>> \in Runs /\ <<p, m>> # <<p, n>>
        BY <1>2, ChordAssumption DEF Runs
    <1>4. CASE pc[<<p, n>>] # "none"
        <2>1. pc[<<p, m>>] = "crashed"
            BY <1>2, <1>4 DEF OneAtATime
        <2>2. <<p, m>> # r
            BY <2>1, OneRunMoves
        <2>. QED
            BY <1>1, <1>3, <2>1, <2>2 DEF TypeOK
    <1>5. CASE pc[<<p, n>>] = "none"
        <2>1. r = <<p, n>> /\ Begin(r)
            BY <1>1, <1>2, <1>3, <1>5, OneRunMoves DEF TypeOK
        <2>2. n > 1 /\ pc[<<p, n - 1>>] = "crashed" /\ n - 1 \in 1..MaxRuns
            BY <1>2, <2>1, ChordAssumption DEF AfterCrash, Part
        <2>3. m = n - 1 \/ (m < n - 1 /\ pc[<<p, m>>] = "crashed")
            BY <1>2, <2>2, ChordAssumption DEF OneAtATime
        <2>. QED
            BY <1>1, <1>3, <2>1, <2>2, <2>3 DEF TypeOK
    <1>. QED
        BY <1>4, <1>5

(* A backend counts in one of the two ways.                                *)
LEMMA FlavourStep ==
    ASSUME TypeOK, Flavour, NEW r \in Runs, Begin(r) \/ Step(r) \/ IncrRaises(r) \/ Crash(r)
    PROVE  Flavour'
    BY ChordAssumption
       DEF TypeOK, Flavour, Goto, Begin, Step, ReadMeta, StoreMeta, RestoreGroup, Incr, CountFirst,
           RestoreDeps, Join, Call, DeleteGroup, DeleteKey, Ack, IncrRaises, Crash

(* While another run of its part closes the chord no run is about to       *)
(* count, so that there are fewer of them than parts.                      *)
LEMMA FewAtIncr ==
    ASSUME TypeOK, OneAtATime, NEW r \in Runs, pc[r] = "delkey"
    PROVE  Cardinality(AtIncr) < Size
    <1>1. Part(r) \in Parts /\ r = <<Part(r), r[2]>> /\ r[2] \in 1..MaxRuns
        BY DEF Runs, Part
    <1>2. Part(r) \notin AtIncr
        <2>. SUFFICES ASSUME NEW n \in 1..MaxRuns, pc[<<Part(r), n>>] = "incr"
                      PROVE  FALSE
            BY DEF AtIncr
        <2>1. n < r[2] \/ n = r[2] \/ r[2] < n
            BY <1>1, ChordAssumption
        <2>. QED
            BY <1>1, <2>1 DEF OneAtATime
    <1>3. AtIncr \subseteq Parts /\ AtIncr # Parts
        BY <1>1, <1>2 DEF AtIncr
    <1>. QED
        BY <1>3, ChordAssumption, FS_Subset, FS_CardinalityType DEF Size

(* A run that counts leaves the parts about to count.                      *)
LEMMA IncrLeaves ==
    ASSUME TypeOK, OneAtATime, NEW r \in Runs, pc[r] = "incr",
           NEW label \in Labels \ {"incr"}, pc' = [pc EXCEPT ![r] = label]
    PROVE  Cardinality(AtIncr') = Cardinality(AtIncr) - 1
    <1>1. Part(r) \in Parts /\ r = <<Part(r), r[2]>> /\ r[2] \in 1..MaxRuns
        BY DEF Runs, Part
    <1>2. Part(r) \in AtIncr
        BY <1>1 DEF AtIncr
    <1>3. AtIncr' = AtIncr \ {Part(r)}
        <2>1. \A n \in 1..MaxRuns : n # r[2] => pc[<<Part(r), n>>] # "incr"
            <3>. TAKE n \in 1..MaxRuns
            <3>1. n < r[2] \/ n = r[2] \/ r[2] < n
                BY <1>1, ChordAssumption
            <3>. QED
                BY <1>1, <3>1 DEF OneAtATime
        <2>2. \A p \in Parts : \A n \in 1..MaxRuns :
                 pc'[<<p, n>>] = IF p = Part(r) /\ n = r[2] THEN label ELSE pc[<<p, n>>]
            BY <1>1 DEF TypeOK, Runs
        <2>3. ASSUME NEW p \in Parts, p # Part(r) PROVE p \in AtIncr' <=> p \in AtIncr
            <3>1. \A n \in 1..MaxRuns : pc'[<<p, n>>] = pc[<<p, n>>]
                BY <2>2, <2>3
            <3>. QED
                BY <3>1 DEF AtIncr
        <2>4. Part(r) \notin AtIncr'
            <3>1. \A n \in 1..MaxRuns : pc'[<<Part(r), n>>] # "incr"
                BY <1>1, <2>1, <2>2
            <3>. QED
                BY <3>1 DEF AtIncr
        <2>5. AtIncr \subseteq Parts /\ AtIncr' \subseteq Parts
            BY DEF AtIncr
        <2>. QED
            BY <2>3, <2>4, <2>5
    <1>. QED
        BY <1>2, <1>3, SizeFacts, FS_RemoveElement

(* A step that takes no run to the increment adds no part to it.           *)
LEMMA IncrShrinks ==
    ASSUME TypeOK, NEW r \in Runs,
           NEW label \in Labels \ {"incr"}, pc' = [pc EXCEPT ![r] = label]
    PROVE  Cardinality(AtIncr') \in Nat /\ Cardinality(AtIncr') <= Cardinality(AtIncr)
    <1>1. AtIncr' \subseteq AtIncr
        BY DEF AtIncr, TypeOK, Runs
    <1>. QED
        BY <1>1, SizeFacts, FS_Subset, FS_CardinalityType

(* Each step of a run keeps the chord open, closes it, or leaves it        *)
(* closed.                                                                 *)
LEMMA PhaseStep ==
    ASSUME OnceInv, TypeOK', OneAtATime', NEW r \in Runs,
           Begin(r) \/ Step(r) \/ IncrRaises(r) \/ Crash(r)
    PROVE  (Open \/ Closing \/ Closed)'
    <1>. DEFINE Phases == Open \/ Closing \/ Closed
    <1>. USE DEF OnceInv, TypeOK, Goto, backendVars, bodyVars, faultVars
    <1>0. Size' = Size /\ Size \in Nat \ {0} /\ Cardinality(AtIncr) \in Nat
        BY SizeFacts DEF Size
    \* a step that neither counts nor closes
    <1>1. ASSUME NEW label \in Labels \ {"deps", "incr", "join", "call", "delgroup", "delkey"},
                 pc' = [pc EXCEPT ![r] = label], UNCHANGED <<firestore, counter, calls, saved>>
          PROVE  Phases'
        <2>1. \A q \in Runs : Closer(q)' => Closer(q) /\ pc'[q] = pc[q] /\ q # r
            BY <1>1 DEF Closer
        <2>2. Cardinality(AtIncr') \in Nat /\ Cardinality(AtIncr') <= Cardinality(AtIncr)
            BY <1>1, IncrShrinks
        <2>3. CASE Open
            BY <1>0, <1>1, <2>1, <2>3 DEF Open
        <2>4. CASE Closing
            BY <1>0, <1>1, <2>1, <2>4 DEF Closing
        <2>5. CASE Closed
            BY <1>0, <1>1, <2>1, <2>2, <2>5 DEF Closed
        <2>. QED
            BY <2>3, <2>4, <2>5
    <1>2. CASE Begin(r) \/ Ack(r) \/ Crash(r)
        BY <1>1, <1>2 DEF Begin, Ack, Crash, Labels
    <1>3. ASSUME NEW state \in {"SUCCESS", "FAILURE"}, ReadMeta(r, state)
          PROVE  Phases'
        BY <1>1, <1>3 DEF ReadMeta, Labels
    <1>4. CASE StoreMeta(r)
        BY <1>1, <1>4 DEF StoreMeta, Labels
    <1>5. CASE RestoreGroup(r)
        <2>1. CASE ~ saved
            BY <1>1, <1>5, <2>1 DEF RestoreGroup, Labels
        <2>2. CASE saved
            <3>1. pc' = [pc EXCEPT ![r] = "incr"] /\ UNCHANGED <<firestore, counter, calls, saved>>
                BY <1>5, <2>2 DEF RestoreGroup
            <3>2. \A q \in Runs : Closer(q)' => Closer(q) /\ pc'[q] = pc[q] /\ q # r
                BY <3>1 DEF Closer
            <3>3. CASE Open
                BY <1>0, <3>1, <3>2, <3>3 DEF Open
            <3>4. CASE Closing
                BY <1>0, <3>1, <3>2, <3>4, <1>5 DEF Closing, RestoreGroup
            <3>. QED
                BY <2>2, <3>3, <3>4 DEF Closed
        <2>. QED
            BY <2>1, <2>2
    <1>6. CASE Incr(r)
        <2>. DEFINE label == IF counter + 1 = Size THEN "join" ELSE "done"
        <2>1. /\ pc[r] = "incr" /\ pc' = [pc EXCEPT ![r] = label]
              /\ counter' = counter + 1 /\ UNCHANGED <<firestore, calls, saved>> /\ counter \in Nat
              /\ label \in Labels \ {"incr"}
            BY <1>0, <1>6 DEF Incr, Labels
        <2>2. \A q \in Runs : Closer(q)' => (Closer(q) /\ q # r) \/ (q = r /\ counter' = Size)
            BY <2>1 DEF Closer
        <2>3. CASE Open
            BY <1>0, <2>1, <2>2, <2>3 DEF Open, Closing, Closer
        <2>4. CASE Closing
            BY <1>0, <2>1, <2>2, <2>4 DEF Closing
        <2>5. CASE Closed
            <3>1. Cardinality(AtIncr') = Cardinality(AtIncr) - 1
                BY <2>1, IncrLeaves
            <3>2. ~ firestore
                BY <2>1 DEF Flavour
            <3>3. Cardinality(AtIncr') \in Nat
                BY <2>1, IncrShrinks
            <3>4. counter + 1 # Size
                BY <1>0, <2>1, <2>5, <3>1, <3>2, <3>3 DEF Closed
            <3>. QED
                BY <1>0, <2>1, <2>2, <2>5, <3>1, <3>2, <3>3, <3>4 DEF Closed
        <2>. QED
            BY <2>3, <2>4, <2>5
    <1>7. CASE CountFirst(r)
        <2>. DEFINE label == IF counter + 1 = Size THEN "deps" ELSE "done"
        <2>1. /\ pc[r] = "count" /\ pc' = [pc EXCEPT ![r] = label]
              /\ counter' = counter + 1 /\ UNCHANGED <<firestore, calls, saved>> /\ counter \in Nat
            BY <1>0, <1>7 DEF CountFirst, Labels
        <2>2. \A q \in Runs : Closer(q)' => \/ Closer(q) /\ q # r
                                            \/ q = r /\ counter' = Size /\ saved
            BY <2>1 DEF Closer
        <2>3. CASE Open
            BY <1>0, <2>1, <2>2, <2>3 DEF Open, Closing, Closer
        <2>4. CASE Closing
            BY <1>0, <2>1, <2>2, <2>4 DEF Closing
        <2>5. CASE Closed
            <3>1. firestore
                BY <2>1 DEF Flavour
            <3>. QED
                BY <2>1, <2>2, <2>5, <3>1 DEF Closed
        <2>. QED
            BY <2>3, <2>4, <2>5
    \* a step of the run that closes the chord
    <1>8. ASSUME Closer(r), NEW label \in {"join", "call", "delgroup", "done"}, saved' = saved,
                 pc' = [pc EXCEPT ![r] = label], UNCHANGED <<firestore, counter>>,
                 calls' = calls \/ (pc[r] = "call" /\ label = "delgroup" /\ calls' = calls + 1),
                 pc[r] \notin {"delgroup", "delkey"} \/ label = "done",
                 pc[r] = "delkey" => label # "done"
          PROVE  Phases'
        <2>1. Closing
            BY <1>8 DEF Open, Closed
        <2>2. \A q \in Runs : Closer(q)' => q = r
            BY <1>8, <2>1 DEF Closing, Closer
        <2>3. \A q \in Runs : q # r => pc'[q] # "delkey"
            BY <1>8, <2>1 DEF Closing, Closer
        <2>. QED
            BY <1>8, <2>1, <2>2, <2>3 DEF Closing, Closer
    <1>9. CASE RestoreDeps(r)
        <2>1. CASE saved
            BY <1>8, <1>9, <2>1 DEF RestoreDeps, Closer
        <2>2. CASE ~ saved
            BY <1>1, <1>9, <2>2 DEF RestoreDeps, Labels
        <2>. QED
            BY <2>1, <2>2
    <1>10. CASE Join(r)
        BY <1>8, <1>10 DEF Join, Closer
    <1>11. CASE Call(r)
        BY <1>8, <1>11 DEF Call, Closer
    <1>12. CASE DeleteGroup(r)
        <2>1. /\ Closer(r) /\ pc[r] = "delgroup" /\ pc' = [pc EXCEPT ![r] = "delkey"]
              /\ ~ saved' /\ UNCHANGED <<firestore, counter, calls>>
            BY <1>12 DEF DeleteGroup, Closer
        <2>2. Closing
            BY <2>1 DEF Open, Closed
        <2>3. \A q \in Runs : Closer(q)' => q = r
            BY <2>1, <2>2 DEF Closing, Closer
        <2>. QED
            BY <1>0, <2>1, <2>2, <2>3 DEF Closing
    <1>13. CASE DeleteKey(r)
        <2>1. /\ Closer(r) /\ pc[r] = "delkey" /\ pc' = [pc EXCEPT ![r] = "done"]
              /\ counter' = 0 /\ UNCHANGED <<firestore, saved, calls>>
            BY <1>13 DEF DeleteKey, Closer
        <2>2. Closing
            BY <2>1 DEF Open, Closed
        <2>3. ~ saved /\ \A q \in Runs : ~ Closer(q)'
            BY <2>1, <2>2 DEF Closing, Closer
        <2>4. Cardinality(AtIncr') \in Nat /\ Cardinality(AtIncr') < Size
            <3>1. Cardinality(AtIncr) < Size
                BY <2>1, FewAtIncr
            <3>2. Cardinality(AtIncr') \in Nat /\ Cardinality(AtIncr') <= Cardinality(AtIncr)
                BY <2>1, IncrShrinks DEF Labels
            <3>. QED
                BY <1>0, <3>1, <3>2
        <2>. QED
            BY <1>0, <2>1, <2>2, <2>3, <2>4 DEF Closing, Closed
    <1>14. CASE IncrRaises(r)
        <2>1. /\ pc[r] \in {"incr", "count"} /\ pc' = [pc EXCEPT ![r] = "run"]
              /\ counter' = counter + 1 /\ UNCHANGED <<firestore, calls, saved>> /\ counter \in Nat
            BY <1>14 DEF IncrRaises
        <2>2. \A q \in Runs : Closer(q)' => Closer(q) /\ pc'[q] = pc[q] /\ q # r
            BY <2>1 DEF Closer
        <2>3. CASE Open
            BY <1>0, <2>1, <2>2, <2>3 DEF Open, Closing, Closer
        <2>4. CASE Closing
            BY <1>0, <2>1, <2>2, <2>4 DEF Closing
        <2>5. CASE Closed
            <3>1. CASE pc[r] = "incr"
                <4>1. Cardinality(AtIncr') = Cardinality(AtIncr) - 1
                    BY <2>1, <3>1, IncrLeaves DEF Labels
                <4>. QED
                    BY <1>0, <2>1, <2>2, <2>5, <4>1 DEF Closed
            <3>2. CASE pc[r] = "count"
                <4>1. firestore
                    BY <3>2 DEF Flavour
                <4>. QED
                    BY <2>1, <2>2, <2>5, <4>1 DEF Closed
            <3>. QED
                BY <2>1, <3>1, <3>2
        <2>. QED
            BY <2>3, <2>4, <2>5
    <1>. QED
        BY <1>2, <1>3, <1>4, <1>5, <1>6, <1>7, <1>9, <1>10, <1>11, <1>12, <1>13, <1>14 DEF Step

(* The invariant is preserved, if messages are not duplicated.             *)
LEMMA OnceStep ==
    ASSUME Inv, OnceInv, [Next]_vars, \A r \in Runs : Begin(r) => AfterCrash(r)
    PROVE  OnceInv'
    <1>1. CASE UNCHANGED vars
        BY <1>1 DEF OnceInv, TypeOK, OneAtATime, Flavour, Open, Closing, Closed, Closer, AtIncr,
                    Size, vars, backendVars, bodyVars, faultVars
    <1>2. ASSUME NEW r \in Runs, Begin(r) \/ Step(r) \/ IncrRaises(r) \/ Crash(r)
          PROVE  OnceInv'
        <2>1. TypeOK'
            BY StepInv DEF Inv
        <2>. QED
            BY <1>2, <2>1, OneAtATimeStep, FlavourStep, PhaseStep DEF OnceInv
    <1>. QED
        BY <1>1, <1>2 DEF Next

(* The body of a chord is applied at most once, whichever workers are      *)
(* lost and however often the parts they had are executed again, if no     *)
(* message is delivered twice otherwise (on_chord_part_return() compares   *)
(* the counter with the size, and deletes it after the GroupResult).       *)
THEOREM CounterBodyOnce ==
    ASSUME ~ Duplicates
    PROVE  Spec => []BodyAtMostOnce
    <1>1. OnceInv => BodyAtMostOnce
        BY DEF OnceInv, Open, Closing, Closed, BodyAtMostOnce
    <1>2. \A r \in Runs : Begin(r) => AfterCrash(r)
        BY ChordAssumption DEF Begin, AfterCrash, Runs
    <1>3. Inv /\ OnceInv /\ [Next]_vars => OnceInv'
        BY <1>2, OnceStep
    <1>. QED
        BY <1>1, <1>3, InitInv, StepInv, OnceInit, PTL DEF Spec

-----------------------------------------------------------------------------
(***************************************************************************)
(* If every message is delivered once and no answer of the counter is      *)
(* lost, the counter chord implements the abstract one; workers may be     *)
(* lost and the call may raise.  Each part then counts once, after it has  *)
(* stored its state, so the counter never exceeds the number of parts that *)
(* are past it, and the run that closes the chord finds all results.       *)
(***************************************************************************)
Abstract == INSTANCE Chord WITH members <- Parts, finished <- Finished, body <- Body

Before == {"none", "run", "store"}
Shut == {"deps", "join", "call", "delgroup", "delkey"}

(* Every part is executed once.                                            *)
Firsts == {r \in Runs : r[2] = 1}
Single == \A r \in Runs : r[2] > 1 => pc[r] = "none"

(* The parts that have stored their state and counted, or were lost.       *)
Past == {p \in Parts : /\ result[p] # "PENDING"
                       /\ pc[<<p, 1>>] \notin Before \union {"restore", "incr", "count"}}

ChordInv ==
    /\ TypeOK /\ Single
    /\ counter <= Cardinality(Past)
    /\ (\E r \in Firsts : pc[r] \in Shut) \/ ~ saved \/ calls + errors > 0 => Past = Parts
    /\ \A r \in Firsts : pc[r] = "call" => \A p \in Parts : result[p] = "SUCCESS"
    /\ \A r, s \in Firsts : pc[r] \in Shut /\ pc[s] \in Shut => r = s
    /\ \A r \in Firsts : pc[r] \in {"deps", "join", "call"} => calls + errors = 0
    /\ \A r \in Firsts : pc[r] \in Before => result[Part(r)] = "PENDING"
    /\ \A r \in Firsts : pc[r] \in {"restore", "incr", "count"} => result[Part(r)] # "PENDING"
    /\ \A r \in Firsts : pc[r] = "store" => outcome[r] # "PENDING" /\ seen[r] = "PENDING"

(* Parts that are past the counter are some of the header.                 *)
LEMMA PastFacts ==
    /\ IsFiniteSet(Past) /\ Cardinality(Past) \in Nat
    /\ Cardinality(Past) >= Size => Past = Parts
    <1>1. IsFiniteSet(Parts) /\ Past \subseteq Parts
        BY ChordAssumption DEF Past
    <1>. QED
        BY <1>1, FS_Subset, FS_CardinalityType DEF Size

(* The one run of a part.                                                  *)
LEMMA OneRun ==
    ASSUME NEW r \in Firsts
    PROVE  r = <<Part(r), 1>> /\ Part(r) \in Parts
    BY DEF Firsts, Runs, Part

(* The invariant holds before the header is sent.                          *)
LEMMA ChordInitInv == Init => ChordInv
    <1>1. Cardinality(Past) \in Nat
        BY PastFacts
    <1>. QED
        BY <1>1 DEF Init, ChordInv, TypeOK, Shut, Before, Labels, Stored, Firsts, Single, Runs, Part

(* A step of the run of p that leaves the results, and that does not go    *)
(* back, loses no part that is past the counter.                           *)
LEMMA PastGrows ==
    ASSUME TypeOK, NEW r \in Firsts, NEW label \in Labels,
           pc' = [pc EXCEPT ![r] = label], result' = result,
           pc[r] \in Before \union {"restore", "incr", "count"}
             \/ label \notin Before \union {"restore", "incr", "count"}
    PROVE  /\ Past \subseteq Past' /\ Cardinality(Past) <= Cardinality(Past')
           /\ Past = Parts => Past' = Parts
           /\ IsFiniteSet(Past')
    <1>1. Past \subseteq Past'
        BY OneRun DEF Past, TypeOK, Runs, Part
    <1>2. Past' \subseteq Parts /\ IsFiniteSet(Past')
        BY ChordAssumption, FS_Subset DEF Past
    <1>. QED
        BY <1>1, <1>2, FS_Subset

(* While a run has not counted its part is not past the counter, and       *)
(* nobody closes the chord.                                                *)
LEMMA NotYetClosed ==
    ASSUME ChordInv, NEW r \in Firsts,
           pc[r] \in Before \union {"restore", "incr", "count"}
    PROVE  /\ Part(r) \notin Past /\ saved /\ calls = 0 /\ errors = 0
           /\ \A q \in Firsts : pc[q] \notin Shut
    <1>1. Part(r) \in Parts /\ Part(r) \notin Past
        BY OneRun DEF Past
    <1>2. Past # Parts
        BY <1>1
    <1>. QED
        BY <1>1, <1>2 DEF ChordInv, TypeOK

(* Once the chord is being closed every part has finished.                 *)
LEMMA AllFinished ==
    ASSUME Past = Parts
    PROVE  \A p \in Parts : result[p] # "PENDING"
    BY DEF Past

(* A body that nobody called or failed is waiting.                         *)
LEMMA Waiting ==
    ASSUME TypeOK, calls + errors = 0
    PROVE  Body = "waiting" /\ calls = 0 /\ errors = 0
    BY DEF TypeOK, Body

ChordStep == [Abstract!Next]_(Abstract!vars)

(* A step that changes neither results nor the body is invisible.          *)
LEMMA Invisible ==
    ASSUME UNCHANGED <<result, calls, errors>>
    PROVE  ChordStep
    BY DEF ChordStep, Abstract!vars, Finished, Body

(* Each step preserves the invariant and is a step of the abstract chord   *)
(* or invisible in it.                                                     *)
LEMMA ChordStepInv ==
    ASSUME ChordInv, TypeOK', Single', lost' = lost, [Next]_vars
    PROVE  ChordInv' /\ ChordStep
    <1>. DEFINE Goal == ChordInv' /\ ChordStep
    <1>. SUFFICES Goal
        OBVIOUS
    <1>. USE DEF Goto, backendVars, bodyVars, faultVars
    <1>1. CASE UNCHANGED vars
        <2>1. ChordInv'
            BY <1>1 DEF ChordInv, TypeOK, Past, vars
        <2>. QED
            BY <1>1, <2>1, Invisible DEF vars
    \* steps that leave the results and the body alone
    <1>2. ASSUME NEW r \in Firsts, NEW label \in Labels \ (Shut \union Before),
                 pc' = [pc EXCEPT ![r] = label],
                 UNCHANGED <<result, calls, errors, saved, outcome, seen>>,
                 counter' = counter \/ counter' = 0,
                 label \in {"restore", "incr", "count"} => pc[r] \in {"restore", "incr", "count"}
          PROVE  Goal
        <2>1. /\ Cardinality(Past) <= Cardinality(Past')
              /\ Past = Parts => Past' = Parts
              /\ IsFiniteSet(Past')
            BY <1>2, PastGrows DEF ChordInv
        <2>2. Cardinality(Past) \in Nat /\ Cardinality(Past') \in Nat
            BY <2>1, PastFacts, FS_CardinalityType
        <2>3. counter' <= Cardinality(Past')
            BY <1>2, <2>1, <2>2 DEF ChordInv, TypeOK
        <2>4. ChordInv'
            BY <1>2, <2>1, <2>3 DEF ChordInv, TypeOK, Shut, Before
        <2>. QED
            BY <1>2, <2>4, Invisible
    <1>3. ASSUME NEW r \in Firsts, Begin(r)
          PROVE  Goal
        <2>1. /\ Cardinality(Past) <= Cardinality(Past')
              /\ Past = Parts => Past' = Parts
              /\ IsFiniteSet(Past')
            BY <1>3, PastGrows DEF ChordInv, Begin, Before, Labels
        <2>2. Cardinality(Past) \in Nat /\ Cardinality(Past') \in Nat
            BY <2>1, PastFacts, FS_CardinalityType
        <2>3. counter' <= Cardinality(Past')
            BY <1>3, <2>1, <2>2 DEF Begin, ChordInv, TypeOK
        <2>4. ChordInv'
            BY <1>3, <2>1, <2>3 DEF Begin, ChordInv, TypeOK, Shut, Before
        <2>. QED
            BY <1>3, <2>4, Invisible DEF Begin
    <1>4. ASSUME NEW r \in Firsts, NEW state \in {"SUCCESS", "FAILURE"}, ReadMeta(r, state)
          PROVE  Goal
        <2>1. /\ Cardinality(Past) <= Cardinality(Past')
              /\ Past = Parts => Past' = Parts
              /\ IsFiniteSet(Past')
            BY <1>4, PastGrows DEF ChordInv, ReadMeta, Before, Labels
        <2>2. Cardinality(Past) \in Nat /\ Cardinality(Past') \in Nat
            BY <2>1, PastFacts, FS_CardinalityType
        <2>3. counter' <= Cardinality(Past')
            BY <1>4, <2>1, <2>2 DEF ReadMeta, ChordInv, TypeOK
        <2>4. ChordInv'
            BY <1>4, <2>1, <2>3 DEF ReadMeta, ChordInv, TypeOK, Shut, Before
        <2>. QED
            BY <1>4, <2>4, Invisible DEF ReadMeta
    <1>5. ASSUME NEW r \in Firsts, StoreMeta(r)
          PROVE  Goal
        <2>. DEFINE p == Part(r)
                    state == outcome[r]
        <2>0. r = <<p, 1>> /\ p \in Parts /\ \A q \in Firsts : q = <<Part(q), 1>>
            BY OneRun
        <2>1. /\ pc[r] = "store" /\ result[p] = "PENDING" /\ state \in {"SUCCESS", "FAILURE"}
              /\ result' = [result EXCEPT ![p] = state]
            BY <1>5, <2>0 DEF StoreMeta, ChordInv, Before, TypeOK, Stored
        <2>2. Past' = Past
            BY <1>5, <2>0, <2>1 DEF StoreMeta, Past, Before, TypeOK, Runs
        <2>3. \A q \in Firsts : pc[q] \notin Shut /\ (q # r => Part(q) # p)
            BY <2>0, <2>1, NotYetClosed DEF Before
        <2>4. ChordInv'
            BY <1>5, <2>0, <2>1, <2>2, <2>3 DEF StoreMeta, ChordInv, TypeOK, Shut, Before
        <2>5. Abstract!Finish(p, state)
            BY <1>5, <2>0, <2>1 DEF StoreMeta, Abstract!Finish, Abstract!Unfinished, Finished,
                                   Body, TypeOK, ChordInv
        <2>. QED
            BY <2>0, <2>1, <2>4, <2>5 DEF ChordStep, Abstract!Next
    <1>6. ASSUME NEW r \in Firsts, RestoreGroup(r)
          PROVE  Goal
        BY <1>2, <1>6, NotYetClosed DEF RestoreGroup, Labels, Shut, Before
    \* the counter: the run has not been past it, and is now
    <1>7. ASSUME NEW r \in Firsts, Incr(r) \/ CountFirst(r)
          PROVE  Goal
        <2>0. r = <<Part(r), 1>> /\ Part(r) \in Parts
            BY OneRun
        <2>1. /\ pc[r] \in {"incr", "count"} /\ counter' = counter + 1
              /\ UNCHANGED <<result, calls, errors, saved, outcome, seen>>
              /\ \E label \in {"join", "deps"} :
                    pc' = [pc EXCEPT ![r] = IF counter' = Size THEN label ELSE "done"]
            BY <1>7 DEF Incr, CountFirst
        <2>2. /\ Part(r) \notin Past /\ saved /\ calls = 0 /\ errors = 0
              /\ \A q \in Firsts : pc[q] \notin Shut
            BY <2>1, NotYetClosed
        <2>3. Past' = Past \union {Part(r)}
            BY <2>0, <2>1 DEF Past, Before, ChordInv, TypeOK, Runs
        <2>4. Cardinality(Past') = Cardinality(Past) + 1 /\ Cardinality(Past) \in Nat
            BY <2>2, <2>3, PastFacts, FS_AddElement
        <2>5. counter' <= Cardinality(Past')
            BY <2>1, <2>4 DEF ChordInv, TypeOK
        <2>6. counter' = Size => Past' = Parts
            <3>1. Past' \subseteq Parts /\ IsFiniteSet(Parts)
                BY ChordAssumption DEF Past
            <3>. QED
                BY <2>4, <2>5, <3>1, FS_Subset, FS_CardinalityType DEF Size
        <2>7. ChordInv'
            BY <2>1, <2>2, <2>5, <2>6 DEF ChordInv, TypeOK, Shut, Before
        <2>. QED
            BY <2>1, <2>7, Invisible
    \* a step of the run that closes the chord
    <1>8. ASSUME NEW r \in Firsts, pc[r] \in Shut,
                 NEW label \in {"join", "call", "delgroup", "delkey", "done"},
                 pc' = [pc EXCEPT ![r] = label],
                 UNCHANGED <<result, counter, outcome, seen>>,
                 label = "call" => \A p \in Parts : result[p] = "SUCCESS",
                 label \in {"join", "call"} => calls' + errors' = 0
          PROVE  ChordInv' /\ Past = Parts
        <2>1. Past = Parts
            BY <1>8 DEF ChordInv
        <2>2. /\ Cardinality(Past) <= Cardinality(Past')
              /\ Past' = Parts
              /\ IsFiniteSet(Past')
            BY <1>8, <2>1, PastGrows DEF ChordInv, Labels, Before
        <2>3. \A q \in Firsts : pc'[q] \in Shut => q = r
            BY <1>8 DEF ChordInv, TypeOK
        <2>4. counter' <= Cardinality(Past')
            BY <1>8, <2>1, <2>2 DEF ChordInv
        <2>5. pc'[r] = label /\ \A q \in Firsts : q # r => pc'[q] = pc[q]
            BY <1>8 DEF ChordInv, TypeOK, Firsts
        <2>6. /\ \A q \in Firsts : pc'[q] = "call" => \A p \in Parts : result'[p] = "SUCCESS"
              /\ \A q, t \in Firsts : pc'[q] \in Shut /\ pc'[t] \in Shut => q = t
              /\ \A q \in Firsts : pc'[q] \in {"deps", "join", "call"} => calls' + errors' = 0
            BY <1>8, <2>3, <2>5 DEF Shut
        <2>7. /\ \A q \in Firsts : pc'[q] \in Before => result'[Part(q)] = "PENDING"
              /\ \A q \in Firsts : pc'[q] \in {"restore", "incr", "count"}
                                      => result'[Part(q)] # "PENDING"
              /\ \A q \in Firsts : pc'[q] = "store" => outcome'[q] # "PENDING"
                                                        /\ seen'[q] = "PENDING"
            BY <1>8, <2>5 DEF Before, ChordInv
        <2>. QED
            BY <2>1, <2>2, <2>4, <2>6, <2>7 DEF ChordInv
    <1>9. ASSUME Past = Parts, UNCHANGED <<result, calls>>, calls + errors = 0, errors' = errors + 1
          PROVE  ChordStep
        <2>1. Body = "waiting" /\ Body' = "failed" /\ Finished' = Finished
            BY <1>9 DEF Body, Finished, ChordInv, TypeOK
        <2>2. Abstract!Fail
            <3>1. \A p \in Parts : Finished[p] # "no"
                BY <1>9, AllFinished DEF Finished, ChordInv, TypeOK, Stored
            <3>. QED
                BY <2>1, <3>1 DEF Abstract!Fail, Abstract!Unfinished
        <2>. QED
            BY <2>2 DEF ChordStep, Abstract!Next
    <1>10. ASSUME NEW r \in Firsts, RestoreDeps(r)
           PROVE  Goal
        <2>1. calls + errors = 0 /\ pc[r] \in Shut
            BY <1>10 DEF RestoreDeps, ChordInv, Shut
        <2>2. CASE saved
            BY <1>8, <1>10, <2>1, <2>2, Invisible DEF RestoreDeps
        <2>3. CASE ~ saved
            BY <1>8, <1>9, <1>10, <2>1, <2>3 DEF RestoreDeps
        <2>. QED
            BY <2>2, <2>3
    <1>11. ASSUME NEW r \in Firsts, Join(r)
           PROVE  Goal
        <2>1. calls + errors = 0 /\ pc[r] \in Shut
            BY <1>11 DEF Join, ChordInv, Shut
        <2>2. CASE \A p \in Parts : result[p] = "SUCCESS"
            BY <1>8, <1>11, <2>1, <2>2, Invisible DEF Join
        <2>3. CASE ~ \A p \in Parts : result[p] = "SUCCESS"
            BY <1>8, <1>9, <1>11, <2>1, <2>3 DEF Join
        <2>. QED
            BY <2>2, <2>3
    <1>12. ASSUME NEW r \in Firsts, Call(r)
           PROVE  Goal
        <2>1. calls + errors = 0 /\ pc[r] \in Shut /\ \A p \in Parts : result[p] = "SUCCESS"
            BY <1>12 DEF Call, ChordInv, Shut
        <2>2. ChordInv' /\ Past = Parts
            BY <1>8, <1>12, <2>1 DEF Call
        <2>3. CASE UNCHANGED calls
            <3>1. errors' = errors + 1 /\ result' = result
                BY <1>12, <2>3 DEF Call, ChordInv, TypeOK
            <3>. QED
                BY <1>9, <2>1, <2>2, <2>3, <3>1
        <2>4. CASE calls' = calls + 1 /\ UNCHANGED errors
            <3>1. Body = "waiting" /\ Body' = "called" /\ Finished' = Finished
                BY <1>12, <2>1, <2>4 DEF Call, Body, Finished, ChordInv, TypeOK
            <3>2. Abstract!Call
                BY <2>1, <3>1 DEF Abstract!Call, Finished
            <3>. QED
                BY <2>2, <3>2 DEF ChordStep, Abstract!Next
        <2>. QED
            BY <1>12, <2>3, <2>4 DEF Call
    <1>13. ASSUME NEW r \in Firsts, DeleteGroup(r)
           PROVE  Goal
        BY <1>8, <1>13, Invisible DEF DeleteGroup, Shut
    <1>14. ASSUME NEW r \in Firsts, DeleteKey(r) \/ Ack(r) \/ Crash(r)
           PROVE  Goal
        BY <1>2, <1>14 DEF DeleteKey, Ack, Crash, Labels, Shut, Before
    <1>15. ASSUME NEW r \in Firsts, IncrRaises(r)
           PROVE  Goal
        BY <1>15 DEF IncrRaises, ChordInv, TypeOK
    <1>16. ASSUME NEW r \in Runs, Begin(r) \/ Step(r) \/ IncrRaises(r) \/ Crash(r)
           PROVE  r \in Firsts
        <2>1. pc[r] # "none" \/ pc'[r] # "none"
            BY <1>16, OneRunMoves DEF Begin, ChordInv, TypeOK
        <2>. QED
            BY <2>1, ChordAssumption DEF Firsts, Runs, ChordInv, Single
    <1>. HIDE DEF Goal
    <1>. QED
        BY <1>1, <1>3, <1>4, <1>5, <1>6, <1>7, <1>10, <1>11, <1>12, <1>13, <1>14, <1>15, <1>16
           DEF Next, Step

(* On a counting backend a chord keeps what Chord promises: its body is    *)
(* applied once, after all parts have succeeded, or marked as failed after *)
(* all have finished, for headers of any size.                             *)
THEOREM CounterImplementsChord ==
    ASSUME MaxRuns = 1, MaxLostReplies = 0
    PROVE  Spec => Abstract!Spec
    <1>1. Init => Abstract!Init
        BY ChordAssumption DEF Init, Abstract!Init, Finished, Body
    <1>2. Inv /\ ChordInv /\ [Next]_vars => ChordInv' /\ [Abstract!Next]_(Abstract!vars)
        <2>. SUFFICES ASSUME Inv, ChordInv, [Next]_vars
                      PROVE  ChordInv' /\ [Abstract!Next]_(Abstract!vars)
            OBVIOUS
        <2>1. Inv' /\ Single'
            BY StepInv DEF Single, Runs
        <2>2. lost' = lost
            <3>1. \A r \in Runs : Begin(r) \/ Step(r) \/ Crash(r) => lost' = lost
                BY DEF Step, Begin, ReadMeta, StoreMeta, RestoreGroup, Incr, CountFirst,
                       RestoreDeps, Join, Call, DeleteGroup, DeleteKey, Ack, Crash, faultVars
            <3>2. \A r \in Runs : ~ IncrRaises(r)
                BY DEF IncrRaises, Inv, TypeOK
            <3>. QED
                BY <3>1, <3>2 DEF Next, vars, faultVars
        <2>. QED
            BY <2>1, <2>2, ChordStepInv DEF Inv, ChordStep
    <1>. QED
        BY <1>1, <1>2, InitInv, StepInv, ChordInitInv, PTL DEF Spec, Abstract!Spec

-----------------------------------------------------------------------------
(***************************************************************************)
(* The chord in redis: the first call of the body has one result of every  *)
(* part, in each environment the run looks at: no worker is lost, or none  *)
(* of the parts adds another and no call raises.                           *)
(*                                                                         *)
(* As long as the keys are kept, .j holds at most one report of each part, *)
(* and .s and .t say how many parts there are: a run that finds as many    *)
(* reports has one of every part.  After the keys were deleted .s is gone, *)
(* and nobody who has not found the reports complete before will again.    *)
(***************************************************************************)
HeaderParts == Redis!HeaderParts
Reporting == {"collect", "call", "delete"}

Kept == ~ (Parts \subseteq sent /\ size = 0)

Complete == \A p \in HeaderParts : finished[p] # "no" /\ <<p, finished[p], 0>> \in stash

Undisturbed == rcrashes = 0 \/ (added = {} /\ rfaults = 0)

(* What the keys say.                                                      *)
KeysRight ==
    /\ sent \subseteq HeaderParts
    /\ size \in {0, Cardinality(Parts)}
    /\ Kept => diff = Cardinality(added)
    /\ \A m \in stash : /\ m[1] \in sent /\ finished[m[1]] # "no"
                        /\ m = <<m[1], finished[m[1]], 0>>

(* What a run may rely on that has found the reports complete.             *)
ReportersRight ==
    /\ Kept => \A r \in Redis!Runs : rpc[r] \in Reporting => Complete
    /\ Kept => \A r \in Redis!Runs :
                  rpc[r] = "call" => resl[r] = stash /\ \A m \in stash : m[2] = "SUCCESS"
    /\ \A r \in Redis!Runs : rpc[r] = "delete" => Len(applied) + rfaults > 0
    /\ ~ Kept => Len(applied) + rfaults > 0

(* If no worker is lost every part is executed once, and one run reports.  *)
RunOnce ==
    rcrashes = 0 =>
        /\ \A r \in Redis!Runs : rpc[r] # "crashed" /\ (r[2] > 1 => rpc[r] = "none")
        /\ \A r \in Redis!Runs : r[2] = 1 /\ rpc[r] \in {"none", "run", "adding"}
                                  => finished[r[1]] = "no"
        /\ \A r, s \in Redis!Runs : rpc[r] \in Reporting /\ rpc[s] \in Reporting => r = s
        /\ ~ Kept => \A r \in Redis!Runs : rpc[r] \notin Reporting

RedisInv ==
    /\ Redis!TypeOK /\ Undisturbed
    /\ \A r \in Redis!Runs : rpc[r] # "none" => r[1] \in sent
    /\ KeysRight /\ ReportersRight /\ RunOnce
    /\ Redis!FirstCallGetsAll

(* Finite sets are the same in an instance.                                *)
LEMMA SameSets ==
    \A S : (Redis!IsFiniteSet(S) <=> IsFiniteSet(S)) /\ Redis!Cardinality(S) = Cardinality(S)
    <1>1. \A S : Redis!IsFiniteSet(S) <=> IsFiniteSet(S)
        BY DEF Redis!IsFiniteSet, IsFiniteSet
    <1>2. \A S : Redis!Cardinality(S) = Cardinality(S)
        BY <1>1 DEF Redis!Cardinality, Cardinality
    <1>. QED
        BY <1>1, <1>2

(* What the provers need to know of the constants and of a run.            *)
LEMMA RedisFacts ==
    /\ Parts # {} /\ IsFiniteSet(Parts) /\ Parts \cap Extra = {}
    /\ Cardinality(Parts) \in Nat \ {0}
    /\ \A S : S \subseteq Extra => IsFiniteSet(S) /\ Cardinality(S) \in Nat
    /\ \A r \in Redis!Runs : r[1] \in Parts \union Extra /\ r[2] \in 1..MaxRuns
                             /\ Redis!Part(r) = r[1] /\ r = <<r[1], r[2]>>
    /\ MaxRuns \in Nat
    /\ \A r \in Redis!Runs : r[2] > 1 => <<r[1], r[2] - 1>> \in Redis!Runs
    <1>1. IsFiniteSet(Parts \union Extra) /\ Parts # {} /\ Parts \cap Extra = {} /\ MaxRuns \in Nat
        BY ChordConstants, SameSets DEF Redis!RedisConstants, Redis!AllParts
    <1>2. \A S : S \subseteq Parts \union Extra => IsFiniteSet(S) /\ Cardinality(S) \in Nat
        BY <1>1, FS_Subset, FS_CardinalityType
    <1>3. Cardinality(Parts) # 0
        BY <1>1, <1>2, FS_EmptySet
    <1>4. \A r \in Redis!Runs : r[1] \in Parts \union Extra /\ r[2] \in 1..MaxRuns
                                /\ Redis!Part(r) = r[1] /\ r = <<r[1], r[2]>>
        BY DEF Redis!Runs, Redis!AllParts, Redis!Part
    <1>5. \A r \in Redis!Runs : r[2] > 1 => <<r[1], r[2] - 1>> \in Redis!Runs
        BY <1>1 DEF Redis!Runs, Redis!AllParts
    <1>. QED
        BY <1>1, <1>2, <1>3, <1>4, <1>5

(* The invariant holds before the header is sent.                          *)
LEMMA RedisInitInv == Redis!Init => RedisInv
    <1>. SUFFICES ASSUME Redis!Init PROVE RedisInv
        OBVIOUS
    <1>. USE RedisFacts DEF Redis!Init
    <1>1. Redis!TypeOK
        BY DEF Redis!TypeOK, Redis!AllParts, Redis!Labels, Redis!States
    <1>2. Kept /\ diff = Cardinality(added)
        BY FS_EmptySet DEF Kept
    <1>3. KeysRight
        BY <1>2 DEF KeysRight, HeaderParts, Redis!HeaderParts
    <1>4. ReportersRight
        BY <1>2 DEF ReportersRight, Reporting
    <1>5. RunOnce
        BY <1>2 DEF RunOnce, Reporting, Redis!AllParts
    <1>. QED
        BY <1>1, <1>3, <1>4, <1>5 DEF RedisInv, Undisturbed, Redis!FirstCallGetsAll

(* A report of a part says how the part has finished; a part reports its   *)
(* state once for all.                                                     *)
LEMMA ReportIs ==
    ASSUME NEW r \in Redis!Runs, NEW st \in Redis!States
    PROVE  Redis!Report(r, st) = <<r[1], st, 0>>
    BY RedisFacts DEF Redis!Report

(* Every step preserves the types.                                         *)
LEMMA RedisTypeStep ==
    ASSUME Redis!TypeOK, [Redis!Next]_redisVars
    PROVE  Redis!TypeOK'
    <1>. USE RedisFacts DEF Redis!TypeOK, Redis!Goto, Redis!keyVars, Redis!bodyVars,
                 Redis!faultVars, Redis!AllParts, Redis!Labels
    <1>1. CASE UNCHANGED redisVars
        BY <1>1 DEF redisVars
    <1>2. CASE Redis!SetChordSize
        BY <1>2, SameSets DEF Redis!SetChordSize
    <1>3. ASSUME NEW p \in Parts, Redis!Send(p) PROVE Redis!TypeOK'
        BY <1>3 DEF Redis!Send
    <1>4. ASSUME NEW r \in Redis!Runs, Redis!Begin(r) PROVE Redis!TypeOK'
        BY <1>4 DEF Redis!Begin
    <1>5. ASSUME NEW r \in Redis!Runs, Redis!SendAdded(r) PROVE Redis!TypeOK'
        BY <1>5 DEF Redis!SendAdded
    <1>6. ASSUME NEW r \in Redis!Runs, NEW st \in Redis!States, Redis!PartReturn(r, st)
          PROVE  Redis!TypeOK'
        <2>1. Redis!Report(r, st) \in Redis!Reports
            BY ReportIs DEF Redis!Reports
        <2>. QED
            BY <1>6, <2>1 DEF Redis!PartReturn
    <1>7. ASSUME NEW r \in Redis!Runs, Redis!Collect(r) PROVE Redis!TypeOK'
        <2>1. resl' \in [Redis!Runs -> SUBSET Redis!Reports] /\ rerrors' \in Nat
            BY <1>7 DEF Redis!Collect
        <2>2. rpc' \in [Redis!Runs -> Redis!Labels]
            BY <1>7 DEF Redis!Collect
        <2>. QED
            BY <1>7, <2>1, <2>2 DEF Redis!Collect
    <1>8. ASSUME NEW r \in Redis!Runs, Redis!Call(r) PROVE Redis!TypeOK'
        <2>3. Append(applied, resl[r]) \in Seq(SUBSET Redis!Reports)
            OBVIOUS
        <2>4. /\ applied' = Append(applied, resl[r]) \/ applied' = applied
              /\ rerrors' \in {rerrors, rerrors + 1} /\ rfaults' \in {rfaults, rfaults + 1}
            BY <1>8 DEF Redis!Call
        <2>5. applied' \in Seq(SUBSET Redis!Reports)
            BY <2>3, <2>4
        <2>6. rerrors' \in Nat /\ rfaults' \in Nat
            <3>1. rerrors \in Nat /\ rfaults \in Nat
                OBVIOUS
            <3>. HIDE RedisFacts DEF Redis!TypeOK
            <3>. QED
                BY <2>4, <3>1
        <2>1. applied' \in Seq(SUBSET Redis!Reports) /\ rerrors' \in Nat /\ rfaults' \in Nat
            BY <2>5, <2>6
        <2>2. rpc' \in [Redis!Runs -> Redis!Labels]
            BY <1>8 DEF Redis!Call
        <2>. QED
            BY <1>8, <2>1, <2>2 DEF Redis!Call
    <1>9a. ASSUME NEW r \in Redis!Runs, Redis!Delete(r) PROVE Redis!TypeOK'
        BY <1>9a DEF Redis!Delete
    <1>9. ASSUME NEW r \in Redis!Runs, Redis!Ack(r) PROVE Redis!TypeOK'
        BY <1>9 DEF Redis!Ack
    <1>10. ASSUME NEW r \in Redis!Runs, Redis!Crash(r) PROVE Redis!TypeOK'
        BY <1>10 DEF Redis!Crash
    <1>11. ASSUME NEW r \in Redis!Runs, NEW p \in Extra, Redis!AddToChord(r, p)
           PROVE  Redis!TypeOK'
        BY <1>11 DEF Redis!AddToChord
    <1>. HIDE DEF Redis!TypeOK
    <1>. QED
        BY <1>1, <1>2, <1>3, <1>4, <1>5, <1>6, <1>7, <1>8, <1>9a, <1>9, <1>10, <1>11
           DEF Redis!Next, Redis!Step, Redis!States

(* A run that moves on by itself, and does not report.                     *)
LEMMA RedisMove ==
    ASSUME RedisInv, (Redis!TypeOK)', Undisturbed', NEW r \in Redis!Runs, NEW l,
           l \notin Reporting, Redis!Goto(r, l), r[1] \in sent, RunOnce',
           UNCHANGED <<sent, added, stash, size, diff, resl, applied, finished, rfaults>>
    PROVE  RedisInv'
    <1>1. rpc' = [rpc EXCEPT ![r] = l] /\ rpc \in [Redis!Runs -> Redis!Labels]
        BY DEF Redis!Goto, RedisInv, Redis!TypeOK
    <1>2. KeysRight' /\ Kept' = Kept /\ Complete' = Complete
        BY DEF RedisInv, KeysRight, Kept, Complete, HeaderParts, Redis!HeaderParts
    <1>3. \A s \in Redis!Runs : rpc'[s] \in Reporting => rpc'[s] = rpc[s]
        BY <1>1
    <1>4. ReportersRight'
        <2>1. \A s \in Redis!Runs : rpc'[s] = "call" => rpc[s] = "call"
            BY <1>3 DEF Reporting
        <2>2. \A s \in Redis!Runs : rpc'[s] = "delete" => rpc[s] = "delete"
            BY <1>3 DEF Reporting
        <2>. QED
            BY <1>2, <1>3, <2>1, <2>2 DEF RedisInv, ReportersRight
    <1>5. (Redis!FirstCallGetsAll)'
        BY DEF RedisInv, Redis!FirstCallGetsAll, Redis!HoldsAll, Redis!HeaderParts
    <1>6. \A s \in Redis!Runs : rpc'[s] # "none" => s[1] \in sent'
        BY <1>1 DEF RedisInv
    <1>. QED
        BY <1>2, <1>4, <1>5, <1>6 DEF RedisInv

(* A worker takes a part: again only after a worker was lost with it.      *)
LEMMA RedisBegin ==
    ASSUME RedisInv, (Redis!TypeOK)', Undisturbed', NEW r \in Redis!Runs, Redis!Begin(r)
    PROVE  RedisInv'
    <1>. USE DEF Redis!keyVars, Redis!bodyVars, Redis!faultVars
    <1>1. /\ rpc[r] = "none" /\ r[1] \in sent /\ Redis!Goto(r, "run")
          /\ r[2] > 1 => rpc[<<r[1], r[2] - 1>>] = "crashed"
        BY RedisFacts DEF Redis!Begin
    <1>2. rpc' = [rpc EXCEPT ![r] = "run"] /\ rpc \in [Redis!Runs -> Redis!Labels]
        BY <1>1 DEF Redis!Goto, RedisInv, Redis!TypeOK
    <1>3. rcrashes = 0 => r[2] = 1
        BY <1>1, RedisFacts DEF RedisInv, RunOnce
    <1>4. RunOnce'
        <2>1. UNCHANGED <<sent, size, finished, rcrashes>> /\ Kept' = Kept
            BY DEF Redis!Begin, Kept
        <2>2. \A s \in Redis!Runs : rpc'[s] \in Reporting => rpc'[s] = rpc[s]
            BY <1>2 DEF Reporting
        <2>. QED
            BY <1>1, <1>2, <1>3, <2>1, <2>2 DEF RedisInv, RunOnce
    <1>. QED
        BY <1>1, <1>4, RedisMove DEF Redis!Begin, Reporting

(* A part is acknowledged.                                                 *)
LEMMA RedisAck ==
    ASSUME RedisInv, (Redis!TypeOK)', Undisturbed', NEW r \in Redis!Runs, Redis!Ack(r)
    PROVE  RedisInv'
    <1>. USE DEF Redis!keyVars, Redis!bodyVars, Redis!faultVars
    <1>1. rpc' = [rpc EXCEPT ![r] = "acked"] /\ rpc \in [Redis!Runs -> Redis!Labels]
        BY DEF Redis!Ack, Redis!Goto, RedisInv, Redis!TypeOK
    <1>2. RunOnce'
        <2>1. UNCHANGED <<sent, size, finished, rcrashes>> /\ Kept' = Kept /\ rpc[r] = "done"
            BY DEF Redis!Ack, Kept
        <2>2. \A s \in Redis!Runs : rpc'[s] \in Reporting => rpc'[s] = rpc[s]
            BY <1>1 DEF Reporting
        <2>. QED
            BY <1>1, <2>1, <2>2 DEF RedisInv, RunOnce
    <1>. QED
        BY <1>2, RedisMove DEF Redis!Ack, Reporting, RedisInv

(* A worker is lost with its part.                                         *)
LEMMA RedisCrash ==
    ASSUME RedisInv, (Redis!TypeOK)', Undisturbed', NEW r \in Redis!Runs, Redis!Crash(r)
    PROVE  RedisInv'
    <1>. USE DEF Redis!keyVars, Redis!bodyVars, Redis!faultVars
    <1>1. RunOnce'
        BY DEF Redis!Crash, RunOnce, RedisInv, Redis!TypeOK
    <1>. QED
        BY <1>1, RedisMove DEF Redis!Crash, Reporting, RedisInv

(* The size of the header is stored before its last part is sent.          *)
LEMMA RedisSetChordSize ==
    ASSUME RedisInv, (Redis!TypeOK)', Undisturbed', Redis!SetChordSize
    PROVE  RedisInv'
    <1>. USE DEF Redis!keyVars, Redis!bodyVars, Redis!faultVars
    <1>1. size' = Cardinality(Parts) /\ ~ (Parts \subseteq sent)
        <2>1. Cardinality(Parts \ sent) = 1 /\ size' = Cardinality(Parts)
            BY SameSets DEF Redis!SetChordSize
        <2>. QED
            BY <2>1, FS_EmptySet
    <1>2. UNCHANGED <<sent, added, stash, diff, rpc, resl, applied, finished, rcrashes, rfaults>>
        BY DEF Redis!SetChordSize
    <1>3. Kept /\ Kept' /\ Complete' = Complete
        BY <1>1, <1>2 DEF Kept, Complete, HeaderParts, Redis!HeaderParts
    <1>4. KeysRight'
        BY <1>1, <1>2, <1>3 DEF RedisInv, KeysRight, HeaderParts, Redis!HeaderParts
    <1>5. ReportersRight' /\ RunOnce'
        BY <1>2, <1>3 DEF RedisInv, ReportersRight, RunOnce
    <1>6. (Redis!FirstCallGetsAll)'
        BY <1>2 DEF RedisInv, Redis!FirstCallGetsAll, Redis!HoldsAll, Redis!HeaderParts
    <1>. QED
        BY <1>2, <1>4, <1>5, <1>6 DEF RedisInv

(* A part of the header is sent.                                           *)
LEMMA RedisSend ==
    ASSUME RedisInv, (Redis!TypeOK)', Undisturbed', NEW p \in Parts, Redis!Send(p)
    PROVE  RedisInv'
    <1>. USE DEF Redis!keyVars, Redis!bodyVars, Redis!faultVars
    <1>1. p \notin sent /\ sent' = sent \union {p} /\ (Cardinality(Parts \ sent) = 1 => size # 0)
        BY SameSets DEF Redis!Send
    <1>2. UNCHANGED <<added, stash, size, diff, rpc, resl, applied, finished, rcrashes, rfaults>>
        BY DEF Redis!Send
    <1>3. Kept /\ Kept' /\ Complete' = Complete
        <2>1. Kept /\ Complete' = Complete
            BY <1>1, <1>2 DEF Kept, Complete, HeaderParts, Redis!HeaderParts
        <2>2. ASSUME Parts \subseteq sent'
              PROVE  size # 0
            <3>1. Parts \ sent = {p}
                BY <1>1, <2>2
            <3>. QED
                BY <1>1, <3>1, FS_Singleton
        <2>. QED
            BY <1>2, <2>1, <2>2 DEF Kept
    <1>4. KeysRight'
        BY <1>1, <1>2, <1>3 DEF RedisInv, KeysRight, HeaderParts, Redis!HeaderParts
    <1>5. ReportersRight' /\ RunOnce'
        BY <1>2, <1>3 DEF RedisInv, ReportersRight, RunOnce
    <1>6. (Redis!FirstCallGetsAll)'
        BY <1>2 DEF RedisInv, Redis!FirstCallGetsAll, Redis!HoldsAll, Redis!HeaderParts
    <1>. QED
        BY <1>1, <1>2, <1>4, <1>5, <1>6 DEF RedisInv

(* A running part sends the parts it adds to the header.                   *)
LEMMA RedisSendAdded ==
    ASSUME RedisInv, (Redis!TypeOK)', Undisturbed', NEW r \in Redis!Runs, Redis!SendAdded(r)
    PROVE  RedisInv'
    <1>. USE DEF Redis!keyVars, Redis!bodyVars, Redis!faultVars
    <1>1. /\ sent' = sent \union added /\ rpc' = [rpc EXCEPT ![r] = "run"] /\ rpc[r] = "adding"
          /\ rpc \in [Redis!Runs -> Redis!Labels] /\ added \subseteq Extra
        BY DEF Redis!SendAdded, Redis!Goto, RedisInv, Redis!TypeOK
    <1>2. UNCHANGED <<added, stash, size, diff, resl, applied, finished, rcrashes, rfaults>>
        BY DEF Redis!SendAdded
    <1>3. Kept' = Kept /\ Complete' = Complete
        <2>1. Parts \subseteq sent' <=> Parts \subseteq sent
            BY <1>1, RedisFacts
        <2>. QED
            BY <1>2, <2>1 DEF Kept, Complete, HeaderParts, Redis!HeaderParts
    <1>4. KeysRight'
        BY <1>1, <1>2, <1>3 DEF RedisInv, KeysRight, HeaderParts, Redis!HeaderParts
    <1>5. \A s \in Redis!Runs : /\ rpc'[s] \in Reporting => rpc'[s] = rpc[s]
                                /\ rpc'[s] = "call" => rpc[s] = "call"
                                /\ rpc'[s] = "delete" => rpc[s] = "delete"
        BY <1>1 DEF Reporting
    <1>6. ReportersRight'
        BY <1>2, <1>3, <1>5 DEF RedisInv, ReportersRight
    <1>7. RunOnce'
        BY <1>1, <1>2, <1>3, <1>5 DEF RedisInv, RunOnce
    <1>8. (Redis!FirstCallGetsAll)'
        BY <1>2 DEF RedisInv, Redis!FirstCallGetsAll, Redis!HoldsAll, Redis!HeaderParts
    <1>9. \A s \in Redis!Runs : rpc'[s] # "none" => s[1] \in sent'
        BY <1>1 DEF RedisInv
    <1>. QED
        BY <1>4, <1>6, <1>7, <1>8, <1>9 DEF RedisInv

(* A part is added by a part that has not reported: nobody has found the   *)
(* reports complete, and the body was not applied.                         *)
LEMMA RedisAddToChord ==
    ASSUME RedisInv, (Redis!TypeOK)', Undisturbed', NEW r \in Redis!Runs, NEW p \in Extra,
           Redis!AddToChord(r, p)
    PROVE  RedisInv'
    <1>. USE DEF Redis!keyVars, Redis!bodyVars, Redis!faultVars
    <1>1. /\ rpc[r] = "run" /\ p \notin added /\ added' = added \union {p} /\ diff' = diff + 1
          /\ rpc' = [rpc EXCEPT ![r] = "adding"]
          /\ rpc \in [Redis!Runs -> Redis!Labels] /\ added \subseteq Extra /\ diff \in Nat
        BY DEF Redis!AddToChord, Redis!Goto, RedisInv, Redis!TypeOK
    <1>2. UNCHANGED <<sent, stash, size, resl, applied, finished, rcrashes, rfaults>>
        BY DEF Redis!AddToChord
    <1>3. rcrashes = 0
        BY <1>1, <1>2 DEF Undisturbed
    <1>4. r[2] = 1 /\ finished[r[1]] = "no" /\ r[1] \in HeaderParts
        <2>1. r[2] = 1
            BY <1>1, <1>3, RedisFacts DEF RedisInv, RunOnce
        <2>. QED
            BY <1>1, <1>3, <2>1 DEF RedisInv, RunOnce, KeysRight
    <1>5. \A s \in Redis!Runs : rpc[s] \notin Reporting
        BY <1>3, <1>4 DEF RedisInv, RunOnce, ReportersRight, Complete
    <1>6. Kept' = Kept
        BY <1>2 DEF Kept
    <1>7. \A s \in Redis!Runs : rpc'[s] \notin Reporting
        BY <1>1, <1>5 DEF Reporting
    <1>8. KeysRight'
        <2>1. HeaderParts \subseteq HeaderParts'
            BY <1>1 DEF HeaderParts, Redis!HeaderParts
        <2>2. Cardinality(added') = Cardinality(added) + 1
            BY <1>1, RedisFacts, FS_AddElement
        <2>. QED
            BY <1>1, <1>2, <1>6, <2>1, <2>2 DEF RedisInv, KeysRight
    <1>9. ReportersRight'
        BY <1>2, <1>6, <1>7 DEF RedisInv, ReportersRight, Reporting
    <1>10. RunOnce'
        BY <1>1, <1>2, <1>4, <1>7 DEF RedisInv, RunOnce
    <1>11. (Redis!FirstCallGetsAll)'
        BY <1>2, <1>4 DEF RedisInv, Redis!FirstCallGetsAll, HeaderParts
    <1>12. \A s \in Redis!Runs : rpc'[s] # "none" => s[1] \in sent'
        BY <1>1, <1>2 DEF RedisInv
    <1>. QED
        BY <1>8, <1>9, <1>10, <1>11, <1>12 DEF RedisInv

(* As many reports as there are parts, at most one of each: one of each.   *)
LEMMA AllReported ==
    Redis!TypeOK /\ KeysRight /\ Kept /\ size # 0 /\ Cardinality(stash) = size + diff
        => Complete
    <1>. SUFFICES ASSUME Redis!TypeOK, KeysRight, Kept, size # 0,
                         Cardinality(stash) = size + diff
                  PROVE  Complete
        OBVIOUS
    <1>1. added \subseteq Extra /\ IsFiniteSet(added) /\ IsFiniteSet(Parts)
        BY RedisFacts DEF Redis!TypeOK
    <1>2. HeaderParts = Parts \union added /\ Parts \cap added = {}
        BY <1>1, RedisFacts DEF HeaderParts, Redis!HeaderParts
    <1>3. /\ IsFiniteSet(HeaderParts)
          /\ Cardinality(HeaderParts) = Cardinality(Parts) + Cardinality(added)
                                        - Cardinality(Parts \cap added)
        BY <1>1, <1>2, FS_Union
    <1>4. Cardinality(stash) = Cardinality(HeaderParts)
        <2>1. Cardinality(Parts \cap added) = 0
            BY <1>2, FS_EmptySet
        <2>2. size = Cardinality(Parts) /\ diff = Cardinality(added)
            BY DEF KeysRight
        <2>. QED
            BY <1>1, <1>3, <2>1, <2>2, RedisFacts
    <1>. DEFINE part == [m \in stash |-> m[1]]
    <1>5. part \in Injection(stash, HeaderParts)
        <2>1. \A m \in stash : m[1] \in HeaderParts
            BY DEF KeysRight
        <2>2. \A m, n \in stash : m[1] = n[1] => m = n
            BY DEF KeysRight
        <2>. QED
            BY <2>1, <2>2 DEF Injection, IsInjective
    <1>6. part \in Surjection(stash, HeaderParts)
        <2>1. IsFiniteSet(stash)
            BY <1>3, <1>5, FS_Injection
        <2>. QED
            BY <1>3, <1>4, <1>5, <2>1, FS_Injection
    <1>7. \A p \in HeaderParts : \E m \in stash : m[1] = p
        BY <1>6 DEF Surjection
    <1>. QED
        BY <1>7 DEF Complete, KeysRight

(* A part returns: its result joins the set, and the part that makes the   *)
(* set as large as the header goes on to collect it.                       *)
LEMMA RedisPartReturn ==
    ASSUME RedisInv, (Redis!TypeOK)', Undisturbed', NEW r \in Redis!Runs,
           NEW st \in Redis!States, Redis!PartReturn(r, st)
    PROVE  RedisInv'
    <1>. USE DEF Redis!keyVars, Redis!bodyVars, Redis!faultVars
    <1>. DEFINE p == r[1]
                all == size # 0 /\ Cardinality(stash') = size + diff
    <1>1. /\ rpc[r] = "run" /\ stash' = stash \union {<<p, st, 0>>}
          /\ finished[p] # "no" => st = finished[p]
          /\ finished' = [finished EXCEPT ![p] = IF @ = "no" THEN st ELSE @]
          /\ rpc' = [rpc EXCEPT ![r] = IF all THEN "collect" ELSE "done"]
        BY RedisFacts, ReportIs, SameSets DEF Redis!PartReturn, Redis!Goto
    <1>2. UNCHANGED <<sent, added, size, diff, resl, applied, rcrashes, rfaults>>
        BY DEF Redis!PartReturn
    <1>3. /\ p \in Parts \union Extra /\ p \in sent /\ p \in HeaderParts
          /\ finished \in [Parts \union Extra -> Redis!States \union {"no"}]
          /\ rpc \in [Redis!Runs -> Redis!Labels]
          /\ HeaderParts \subseteq Parts \union Extra
        BY <1>1, RedisFacts
           DEF RedisInv, KeysRight, Redis!TypeOK, HeaderParts, Redis!HeaderParts, Redis!AllParts
    <1>4. /\ finished'[p] = st /\ st # "no"
          /\ \A q \in Parts \union Extra : finished[q] # "no" => finished'[q] = finished[q]
          /\ \A q \in Parts \union Extra : q # p => finished'[q] = finished[q]
        BY <1>1, <1>3 DEF Redis!States
    <1>5. Kept' = Kept /\ HeaderParts' = HeaderParts
        BY <1>2 DEF Kept, HeaderParts, Redis!HeaderParts
    <1>6. KeysRight'
        <2>1. \A m \in stash' : /\ m[1] \in sent' /\ finished'[m[1]] # "no"
                                /\ m = <<m[1], finished'[m[1]], 0>>
            <3>1. \A m \in stash : /\ m[1] \in sent' /\ finished'[m[1]] # "no"
                                   /\ m = <<m[1], finished'[m[1]], 0>>
                <4>1. \A m \in stash : m[1] \in Parts \union Extra
                    BY <1>3 DEF RedisInv, KeysRight
                <4>. QED
                    BY <1>2, <1>4, <4>1 DEF RedisInv, KeysRight
            <3>. QED
                BY <1>1, <1>2, <1>3, <1>4, <3>1
        <2>2. Kept' => diff' = Cardinality(added')
            BY <1>2, <1>5 DEF RedisInv, KeysRight
        <2>3. sent' \subseteq HeaderParts' /\ size' \in {0, Cardinality(Parts)}
            BY <1>2, <1>5 DEF RedisInv, KeysRight
        <2>. QED
            BY <2>1, <2>2, <2>3 DEF KeysRight
    <1>7. Complete => Complete' /\ stash' = stash
        <2>1. Complete => stash' = stash
            BY <1>1, <1>3 DEF Complete
        <2>. QED
            BY <1>3, <1>4, <1>5, <2>1 DEF Complete
    <1>8. all => Kept /\ Complete'
        <2>1. size' = size /\ diff' = diff
            BY <1>2
        <2>2. all => Kept /\ Kept'
            BY <1>5 DEF Kept
        <2>3. (Redis!TypeOK /\ KeysRight /\ Kept /\ size # 0
                 /\ Cardinality(stash) = size + diff => Complete)'
            BY AllReported, PTL
        <2>. QED
            BY <1>6, <2>1, <2>2, <2>3
    <1>9. \A s \in Redis!Runs : s # r => rpc'[s] = rpc[s]
        BY <1>1, <1>3
    <1>10. rpc'[r] = IF all THEN "collect" ELSE "done"
        BY <1>1, <1>3
    <1>11. ReportersRight'
        <2>1. ASSUME Kept', NEW s \in Redis!Runs, rpc'[s] \in Reporting PROVE Complete'
            BY <1>5, <1>7, <1>8, <1>9, <1>10, <2>1 DEF RedisInv, ReportersRight, Reporting
        <2>2. ASSUME Kept', NEW s \in Redis!Runs, rpc'[s] = "call"
              PROVE  resl'[s] = stash' /\ \A m \in stash' : m[2] = "SUCCESS"
            <3>1. rpc[s] = "call" /\ Complete
                BY <1>5, <1>9, <1>10, <2>2 DEF RedisInv, ReportersRight, Reporting
            <3>. QED
                BY <1>2, <1>5, <1>7, <2>2, <3>1 DEF RedisInv, ReportersRight
        <2>3. \A s \in Redis!Runs : rpc'[s] = "delete" => Len(applied') + rfaults' > 0
            BY <1>2, <1>9, <1>10 DEF RedisInv, ReportersRight
        <2>4. ~ Kept' => Len(applied') + rfaults' > 0
            BY <1>2, <1>5 DEF RedisInv, ReportersRight
        <2>. QED
            BY <2>1, <2>2, <2>3, <2>4 DEF ReportersRight
    <1>12. RunOnce'
        <2>. SUFFICES ASSUME rcrashes = 0 PROVE RunOnce'
            BY <1>2 DEF RunOnce
        <2>1. r[2] = 1 /\ finished[p] = "no"
            BY <1>1, RedisFacts DEF RedisInv, RunOnce
        <2>2. \A s \in Redis!Runs : rpc'[s] # "crashed" /\ (s[2] > 1 => rpc'[s] = "none")
            BY <1>9, <1>10, <2>1 DEF RedisInv, RunOnce
        <2>3. ASSUME NEW s \in Redis!Runs, s[2] = 1, rpc'[s] \in {"none", "run", "adding"}
              PROVE  finished'[s[1]] = "no"
            <3>1. s # r
                BY <1>10, <2>3
            <3>2. s[1] # p
                BY <2>1, <2>3, <3>1, RedisFacts
            <3>. QED
                BY <1>4, <1>9, <2>3, <3>1, <3>2, RedisFacts DEF RedisInv, RunOnce
        <2>4. ~ Complete
            BY <1>3, <2>1 DEF Complete
        <2>5. \A s \in Redis!Runs : Kept /\ s # r => rpc'[s] \notin Reporting
            BY <1>9, <2>4 DEF RedisInv, ReportersRight
        <2>6. ~ Kept => \A s \in Redis!Runs : rpc'[s] \notin Reporting
            BY <1>8, <1>9, <1>10 DEF RedisInv, RunOnce, Reporting
        <2>7. \A s, t \in Redis!Runs : rpc'[s] \in Reporting /\ rpc'[t] \in Reporting => s = t
            BY <2>5, <2>6
        <2>. QED
            BY <1>5, <2>2, <2>3, <2>6, <2>7 DEF RunOnce
    <1>13. (Redis!FirstCallGetsAll)'
        <2>1. Len(applied) > 0 => \A q \in HeaderParts : finished[q] = "SUCCESS"
            BY DEF RedisInv, Redis!FirstCallGetsAll, HeaderParts
        <2>2. Len(applied) > 0 => \A q \in HeaderParts : finished'[q] = "SUCCESS"
            BY <1>3, <1>4, <2>1
        <2>. QED
            BY <1>2, <1>5, <2>2
               DEF RedisInv, Redis!FirstCallGetsAll, HeaderParts, Redis!HoldsAll
    <1>14. \A s \in Redis!Runs : rpc'[s] # "none" => s[1] \in sent'
        BY <1>1, <1>2, <1>9 DEF RedisInv
    <1>. QED
        BY <1>6, <1>11, <1>12, <1>13, <1>14 DEF RedisInv

(* The set is collected: complete, it becomes the argument of the body.    *)
LEMMA RedisCollect ==
    ASSUME RedisInv, (Redis!TypeOK)', Undisturbed', NEW r \in Redis!Runs, Redis!Collect(r)
    PROVE  RedisInv'
    <1>. USE DEF Redis!keyVars, Redis!bodyVars, Redis!faultVars
    <1>1. /\ rpc[r] = "collect"
          /\ \/ /\ \A m \in stash : m[2] = "SUCCESS"
                /\ resl' = [resl EXCEPT ![r] = stash]
                /\ rpc' = [rpc EXCEPT ![r] = "call"]
             \/ resl' = resl /\ rpc' = [rpc EXCEPT ![r] = "done"]
          /\ rpc \in [Redis!Runs -> Redis!Labels]
          /\ resl \in [Redis!Runs -> SUBSET Redis!Reports]
        BY DEF Redis!Collect, Redis!Goto, RedisInv, Redis!TypeOK
    <1>2. UNCHANGED <<sent, added, stash, size, diff, applied, finished, rcrashes, rfaults>>
        BY DEF Redis!Collect
    <1>3. KeysRight' /\ Kept' = Kept /\ Complete' = Complete
        BY <1>2 DEF RedisInv, KeysRight, Kept, Complete, HeaderParts, Redis!HeaderParts
    <1>4. /\ \A s \in Redis!Runs : s # r => rpc'[s] = rpc[s] /\ resl'[s] = resl[s]
          /\ rpc'[r] \in {"call", "done"}
          /\ rpc'[r] = "call" => resl'[r] = stash /\ \A m \in stash : m[2] = "SUCCESS"
        BY <1>1
    <1>5. \A s \in Redis!Runs : rpc'[s] \in Reporting => rpc[s] \in Reporting
        BY <1>1, <1>4 DEF Reporting
    <1>6. ReportersRight'
        <2>1. Kept' => \A s \in Redis!Runs : rpc'[s] \in Reporting => Complete'
            BY <1>3, <1>5 DEF RedisInv, ReportersRight
        <2>2. Kept' => \A s \in Redis!Runs : rpc'[s] = "call" =>
                          resl'[s] = stash' /\ \A m \in stash' : m[2] = "SUCCESS"
            BY <1>2, <1>3, <1>4 DEF RedisInv, ReportersRight
        <2>3. \A s \in Redis!Runs : rpc'[s] = "delete" => Len(applied') + rfaults' > 0
            BY <1>2, <1>4 DEF RedisInv, ReportersRight
        <2>4. ~ Kept' => Len(applied') + rfaults' > 0
            BY <1>2, <1>3 DEF RedisInv, ReportersRight
        <2>. QED
            BY <2>1, <2>2, <2>3, <2>4 DEF ReportersRight
    <1>7. RunOnce'
        BY <1>1, <1>2, <1>3, <1>4, <1>5 DEF RedisInv, RunOnce
    <1>8. (Redis!FirstCallGetsAll)'
        BY <1>2 DEF RedisInv, Redis!FirstCallGetsAll, Redis!HoldsAll, Redis!HeaderParts
    <1>9. \A s \in Redis!Runs : rpc'[s] # "none" => s[1] \in sent'
        BY <1>1, <1>2, <1>4 DEF RedisInv
    <1>. QED
        BY <1>3, <1>6, <1>7, <1>8, <1>9 DEF RedisInv

(* The first to call the body has collected while the keys were kept.      *)
LEMMA RedisCall ==
    ASSUME RedisInv, (Redis!TypeOK)', Undisturbed', NEW r \in Redis!Runs, Redis!Call(r)
    PROVE  RedisInv'
    <1>. USE DEF Redis!keyVars, Redis!bodyVars, Redis!faultVars
    <1>1. /\ rpc[r] = "call" /\ rpc' = [rpc EXCEPT ![r] = "delete"]
          /\ \/ applied' = Append(applied, resl[r]) /\ rfaults' = rfaults
             \/ applied' = applied /\ rfaults' = rfaults + 1
          /\ rpc \in [Redis!Runs -> Redis!Labels]
          /\ applied \in Seq(SUBSET Redis!Reports) /\ resl[r] \in SUBSET Redis!Reports
          /\ rfaults \in Nat
        BY DEF Redis!Call, Redis!Goto, RedisInv, Redis!TypeOK
    <1>2. UNCHANGED <<sent, added, stash, size, diff, resl, finished, rcrashes>>
        BY DEF Redis!Call
    <1>3. KeysRight' /\ Kept' = Kept /\ Complete' = Complete
        BY <1>2 DEF RedisInv, KeysRight, Kept, Complete, HeaderParts, Redis!HeaderParts
    <1>4. Len(applied') + rfaults' > 0
        BY <1>1
    <1>5. /\ \A s \in Redis!Runs : s # r => rpc'[s] = rpc[s]
          /\ rpc'[r] = "delete"
        BY <1>1
    <1>6. \A s \in Redis!Runs : /\ rpc'[s] \in Reporting => rpc[s] \in Reporting
                                /\ rpc'[s] = "call" => rpc[s] = "call"
        BY <1>1, <1>5 DEF Reporting
    <1>7. ReportersRight'
        BY <1>2, <1>3, <1>4, <1>6 DEF RedisInv, ReportersRight
    <1>8. RunOnce'
        BY <1>1, <1>2, <1>3, <1>5, <1>6 DEF RedisInv, RunOnce
    <1>9. (Redis!FirstCallGetsAll)'
        <2>1. CASE applied' = applied
            BY <1>2, <2>1 DEF RedisInv, Redis!FirstCallGetsAll, Redis!HoldsAll, Redis!HeaderParts
        <2>2. CASE applied' = Append(applied, resl[r]) /\ Len(applied) > 0
            <3>1. applied'[1] = applied[1]
                BY <1>1, <2>2
            <3>. QED
                BY <1>2, <2>2, <3>1
                   DEF RedisInv, Redis!FirstCallGetsAll, Redis!HoldsAll, Redis!HeaderParts
        <2>3. CASE applied' = Append(applied, resl[r]) /\ Len(applied) = 0
            <3>1. applied'[1] = resl[r]
                BY <1>1, <2>3
            <3>2. Kept
                <4>1. rpc[r] \in Reporting
                    BY <1>1 DEF Reporting
                <4>. QED
                    BY <1>1, <2>3, <4>1
                       DEF RedisInv, ReportersRight, RunOnce, Undisturbed
            <3>3. resl[r] = stash /\ Complete /\ \A m \in stash : m[2] = "SUCCESS"
                BY <1>1, <3>2 DEF RedisInv, ReportersRight, Reporting
            <3>4. ASSUME NEW q \in HeaderParts
                  PROVE  /\ finished[q] = "SUCCESS"
                         /\ \E m \in stash : m[2] = "SUCCESS" /\ {x \in stash : x[1] = q} = {m}
                <4>. DEFINE m == <<q, finished[q], 0>>
                <4>1. m \in stash /\ m[2] = "SUCCESS" /\ finished[q] = "SUCCESS" /\ m[1] = q
                    BY <3>3 DEF Complete
                <4>2. \A x \in stash : x[1] = q => x = m
                    BY DEF RedisInv, KeysRight
                <4>. HIDE DEF m
                <4>. QED
                    BY <4>1, <4>2
            <3>. QED
                BY <1>2, <3>1, <3>3, <3>4
                   DEF Redis!FirstCallGetsAll, Redis!HoldsAll, Redis!HeaderParts, HeaderParts
        <2>4. Len(applied) \in Nat
            BY <1>1
        <2>. QED
            BY <1>1, <2>1, <2>2, <2>3, <2>4
    <1>10. \A s \in Redis!Runs : rpc'[s] # "none" => s[1] \in sent'
        BY <1>1, <1>2, <1>5 DEF RedisInv
    <1>. QED
        BY <1>3, <1>7, <1>8, <1>9, <1>10 DEF RedisInv

(* The keys of the chord are deleted after the body was called.            *)
LEMMA RedisDelete ==
    ASSUME RedisInv, (Redis!TypeOK)', Undisturbed', NEW r \in Redis!Runs, Redis!Delete(r)
    PROVE  RedisInv'
    <1>. USE DEF Redis!keyVars, Redis!bodyVars, Redis!faultVars
    <1>1. /\ rpc[r] = "delete" /\ rpc' = [rpc EXCEPT ![r] = "done"]
          /\ stash' = {} /\ size' = 0 /\ diff' = 0
          /\ rpc \in [Redis!Runs -> Redis!Labels]
        BY DEF Redis!Delete, Redis!Goto, RedisInv, Redis!TypeOK
    <1>2. UNCHANGED <<sent, added, resl, applied, finished, rcrashes, rfaults>>
        BY DEF Redis!Delete
    <1>3. ~ Kept'
        <2>1. CASE Kept
            <3>1. \A p \in HeaderParts : p \in sent
                BY <1>1, <2>1 DEF RedisInv, ReportersRight, Reporting, Complete, KeysRight
            <3>. QED
                BY <1>1, <1>2, <3>1 DEF Kept, HeaderParts, Redis!HeaderParts
        <2>2. CASE ~ Kept
            BY <1>1, <1>2, <2>2 DEF Kept
        <2>. QED
            BY <2>1, <2>2
    <1>4. KeysRight'
        BY <1>1, <1>2, <1>3 DEF RedisInv, KeysRight, HeaderParts, Redis!HeaderParts
    <1>5. Len(applied) + rfaults > 0
        BY <1>1 DEF RedisInv, ReportersRight
    <1>6. ReportersRight'
        BY <1>2, <1>3, <1>5 DEF ReportersRight
    <1>7. /\ \A s \in Redis!Runs : s # r => rpc'[s] = rpc[s]
          /\ rpc'[r] = "done"
        BY <1>1
    <1>8. RunOnce'
        <2>. SUFFICES ASSUME rcrashes = 0 PROVE RunOnce'
            BY <1>2 DEF RunOnce
        <2>1. \A s \in Redis!Runs : rpc'[s] \notin Reporting
            <3>1. \A s \in Redis!Runs : rpc[s] \in Reporting => s = r
                BY <1>1 DEF RedisInv, RunOnce, Reporting
            <3>. QED
                BY <1>7, <3>1 DEF Reporting
        <2>. QED
            BY <1>1, <1>2, <1>7, <2>1 DEF RedisInv, RunOnce
    <1>9. (Redis!FirstCallGetsAll)'
        BY <1>2 DEF RedisInv, Redis!FirstCallGetsAll, Redis!HoldsAll, Redis!HeaderParts
    <1>10. \A s \in Redis!Runs : rpc'[s] # "none" => s[1] \in sent'
        BY <1>1, <1>2, <1>7 DEF RedisInv
    <1>. QED
        BY <1>4, <1>6, <1>8, <1>9, <1>10 DEF RedisInv

(* Every step of a chord in redis preserves the invariant.                 *)
LEMMA RedisStep ==
    ASSUME RedisInv, [Redis!Next]_redisVars, Undisturbed'
    PROVE  RedisInv'
    <1>1. (Redis!TypeOK)'
        BY RedisTypeStep DEF RedisInv
    <1>2. CASE UNCHANGED redisVars
        <2>1. KeysRight' /\ Kept' = Kept /\ Complete' = Complete
            BY <1>2
               DEF redisVars, RedisInv, KeysRight, Kept, Complete, HeaderParts, Redis!HeaderParts
        <2>2. ReportersRight'
            BY <1>2, <2>1 DEF redisVars, RedisInv, ReportersRight
        <2>3. RunOnce'
            BY <1>2, <2>1 DEF redisVars, RedisInv, RunOnce
        <2>4. (Redis!FirstCallGetsAll)'
            BY <1>2
               DEF redisVars, RedisInv, Redis!FirstCallGetsAll, Redis!HoldsAll, Redis!HeaderParts
        <2>. QED
            BY <1>1, <1>2, <2>1, <2>2, <2>3, <2>4 DEF redisVars, RedisInv
    <1>3. ASSUME NEW r \in Redis!Runs, Redis!Step(r) PROVE RedisInv'
        BY <1>1, <1>3, RedisSendAdded, RedisPartReturn, RedisCollect, RedisCall, RedisDelete,
           RedisAck DEF Redis!Step, Redis!States
    <1>. QED
        BY <1>1, <1>2, <1>3, RedisSetChordSize, RedisSend, RedisBegin, RedisCrash,
           RedisAddToChord DEF Redis!Next

-----------------------------------------------------------------------------
(***************************************************************************)
(* The task that polls: the body is applied only after every part, and     *)
(* there is one answer, unless the message of chord_unlock comes again.    *)
(*                                                                         *)
(* What a worker has read of a part, now or when it was cached, was stored *)
(* by some execution of it.  If the message is not delivered twice it is   *)
(* in the queue or with one worker, until there is an answer.  A stored    *)
(* failure stays: the revoke goes out when all failures are stored, so     *)
(* that a task is only marked as revoked if a store has raised, and then   *)
(* nobody stores failures any more.                                        *)
(***************************************************************************)
Asking == {"ready", "retry", "join", "call"}
Failing == {"error", "group", "revoke", "fallback"}

UnlockUndisturbed == ucrashes = 0 \/ ufaults = 0

(* What was read was reported.                                             *)
ReadRight ==
    /\ ended \subseteq Parts
    /\ \A p \in Parts : stored[p] = "SUCCESS" => p \in ended
    /\ \A w \in Workers, p \in Parts : cached[w][p] = "SUCCESS" => p \in ended
    /\ \A w \in Workers : at[w] = "call" => ended = Parts

(* There is one message, until there is an answer.                         *)
OneMessage ==
    ~ late \/ ucrashes = 0 =>
        /\ \A v, w \in Workers : {at[v], at[w]} \subseteq Asking \union Failing => v = w
        /\ queue =< 1
        /\ queue = 1 => \A w \in Workers : at[w] \notin Asking \union Failing
        /\ queue = 1 \/ (\E w \in Workers : at[w] \in Asking) => delays + uerrors = 0
        /\ queue = 1 \/ (\E w \in Workers : at[w] \in Asking \union Failing)
              => \A m \in Members : order[m] = "none"

(* Where no store has raised every failure is stored when the revoke goes  *)
(* out, and no task is marked as revoked.                                  *)
FailuresStored ==
    ufaults = 0 =>
        /\ \A w \in Workers : /\ at[w] \in {"group", "revoke"} => grouped
                              /\ at[w] = "fallback" => FALSE
        /\ \A w \in Workers, m \in Members :
              \/ at[w] = "error" /\ grouped /\ m \notin todo[w]
              \/ at[w] \in {"group", "revoke"}
              => states[m] # "PENDING"
        /\ \A m \in Members : order[m] # "write" /\ (order[m] = "sent" => states[m] # "PENDING")

UnlockInv ==
    /\ Unlock!TypeOK /\ delays \in Nat /\ uerrors \in Nat
    /\ UnlockUndisturbed /\ ReadRight /\ OneMessage /\ FailuresStored
    /\ \A m \in Members : order[m] = "write" => states[m] # "FAILURE"
    /\ Unlock!BodyAfterAll /\ Unlock!AnsweredOnce

(* The unlock scenario of the run starts as the invariant says.            *)
LEMMA UnlockFacts ==
    /\ MaxFaults \in Nat /\ MaxCrashes \in Nat
    /\ Unlock!Body \subseteq Members /\ (grouped => Unlock!Body = Members)
    BY ChordConstants DEF Redis!RedisConstants, Unlock!Body

(* The invariant holds before the header is sent.                          *)
LEMMA UnlockInitInv == Unlock!Init => UnlockInv
    <1>. SUFFICES ASSUME Unlock!Init PROVE UnlockInv
        OBVIOUS
    <1>. USE UnlockFacts DEF Unlock!Init, Unlock!Unread
    <1>1. Unlock!TypeOK
        BY DEF Unlock!TypeOK
    <1>2. ReadRight
        BY DEF ReadRight
    <1>3. OneMessage
        BY DEF OneMessage, Asking, Failing
    <1>4. FailuresStored
        BY DEF FailuresStored
    <1>. QED
        BY <1>1, <1>2, <1>3, <1>4
           DEF UnlockInv, UnlockUndisturbed, Unlock!BodyAfterAll, Unlock!AnsweredOnce

(* Every step preserves the types.                                         *)
LEMMA UnlockTypeStep ==
    ASSUME Unlock!TypeOK, delays \in Nat, uerrors \in Nat, [Unlock!Next]_unlockVars
    PROVE  (Unlock!TypeOK)' /\ delays' \in Nat /\ uerrors' \in Nat
    <1>. DEFINE Typed == Unlock!TypeOK /\ delays \in Nat /\ uerrors \in Nat
    <1>. SUFFICES Typed'
        OBVIOUS
    <1>. USE UnlockFacts DEF Unlock!TypeOK, Unlock!Goto, Unlock!Raise, Unlock!Unread,
             Unlock!setup, Unlock!unlockVars, Unlock!bodyVars, Unlock!partVars
    <1>1. CASE UNCHANGED unlockVars
        BY <1>1 DEF unlockVars
    <1>2. ASSUME NEW p \in Parts, NEW st \in {"SUCCESS", "FAILURE"}, Unlock!Finish(p, st)
          PROVE  Typed'
        BY <1>2 DEF Unlock!Finish
    <1>3. ASSUME NEW w \in Workers, Unlock!Deliver(w) PROVE Typed'
        BY <1>3 DEF Unlock!Deliver
    <1>4. ASSUME NEW w \in Workers, Unlock!IsReady(w) PROVE Typed'
        <2>1. UNCHANGED <<stored, queue, todo, states, order, delays, uerrors, ucrashes>>
              /\ ufaults' \in 0..MaxFaults
            BY <1>4 DEF Unlock!IsReady
        <2>2. at' \in [Workers -> {"idle", "ready", "retry", "join", "call", "error", "group",
                                   "revoke", "fallback", "ack"}]
            <3>1. \E l \in {"retry", "join", "ready"} : at' = [at EXCEPT ![w] = l]
                BY <1>4 DEF Unlock!IsReady
            <3>. QED
                BY <3>1
        <2>3. \/ cached' = cached
              \/ \E p \in Parts :
                    cached' = [cached EXCEPT ![w] = [cached[w] EXCEPT ![p] = stored[p]]]
            BY <1>4 DEF Unlock!IsReady
        <2>4. cached' \in [Workers -> [Parts -> {"PENDING", "SUCCESS", "FAILURE"}]]
            <3>. DEFINE S == {"PENDING", "SUCCESS", "FAILURE"}
            <3>1. cached \in [Workers -> [Parts -> S]] /\ stored \in [Parts -> S]
                OBVIOUS
            <3>. HIDE UnlockFacts DEF S, Unlock!TypeOK
            <3>2. \A p \in Parts : [cached[w] EXCEPT ![p] = stored[p]] \in [Parts -> S]
                BY <3>1
            <3>3. cached' \in [Workers -> [Parts -> S]]
                BY <2>3, <3>1, <3>2
            <3>. QED
                BY <3>3 DEF S
        <2>. QED
            BY <2>1, <2>2, <2>4
    <1>5. ASSUME NEW w \in Workers, Unlock!Retry(w) PROVE Typed'
        BY <1>5 DEF Unlock!Retry
    <1>6. ASSUME NEW w \in Workers, Unlock!Join(w) PROVE Typed'
        BY <1>6 DEF Unlock!Join
    <1>7. ASSUME NEW w \in Workers, Unlock!Call(w) PROVE Typed'
        BY <1>7 DEF Unlock!Call
    <1>8. ASSUME NEW w \in Workers, Unlock!FailGroup(w) PROVE Typed'
        BY <1>8 DEF Unlock!FailGroup
    <1>9. ASSUME NEW w \in Workers, Unlock!RevokeGroup(w) PROVE Typed'
        BY <1>9 DEF Unlock!RevokeGroup
    <1>10. ASSUME NEW w \in Workers, Unlock!Fallback(w) PROVE Typed'
        BY <1>10 DEF Unlock!Fallback
    <1>11. ASSUME NEW w \in Workers, Unlock!Ack(w) PROVE Typed'
        BY <1>11 DEF Unlock!Ack
    <1>12. ASSUME NEW w \in Workers, Unlock!Crash(w) PROVE Typed'
        BY <1>12 DEF Unlock!Crash
    <1>13. ASSUME NEW w \in Workers, NEW m \in Members, Unlock!FailTask(w, m)
          PROVE  Typed'
        BY <1>13 DEF Unlock!FailTask
    <1>14. ASSUME NEW m \in Members, Unlock!ReadState(m) PROVE Typed'
        BY <1>14 DEF Unlock!ReadState
    <1>15. ASSUME NEW m \in Members, Unlock!MarkAsRevoked(m) PROVE Typed'
        BY <1>15 DEF Unlock!MarkAsRevoked
    <1>. HIDE DEF Typed, Unlock!TypeOK
    <1>. QED
        BY <1>1, <1>2, <1>3, <1>4, <1>5, <1>6, <1>7, <1>8, <1>9, <1>10, <1>11, <1>12, <1>13,
           <1>14, <1>15 DEF Unlock!Next, Unlock!Step, Unlock!Handle, Unlock!Ends

(* What a worker finds in the results was reported by some execution.      *)
LEMMA ReadRightStep ==
    ASSUME Unlock!TypeOK, ReadRight, Unlock!BodyAfterAll, delays \in Nat, [Unlock!Next]_unlockVars
    PROVE  ReadRight' /\ (Unlock!BodyAfterAll)'
    <1>. DEFINE Read == ReadRight /\ Unlock!BodyAfterAll
    <1>. SUFFICES Read'
        OBVIOUS
    <1>. USE DEF ReadRight, Unlock!BodyAfterAll, Unlock!TypeOK, Unlock!Goto, Unlock!Raise,
             Unlock!Unread, Unlock!setup, Unlock!unlockVars, Unlock!bodyVars, Unlock!partVars
    <1>1. CASE UNCHANGED unlockVars
        BY <1>1 DEF unlockVars
    <1>2. ASSUME NEW p \in Parts, NEW st \in {"SUCCESS", "FAILURE"}, Unlock!Finish(p, st)
          PROVE  Read'
        BY <1>2 DEF Unlock!Finish
    <1>3. ASSUME NEW w \in Workers, Unlock!Deliver(w) PROVE Read'
        BY <1>3 DEF Unlock!Deliver
    <1>4. ASSUME NEW w \in Workers, Unlock!IsReady(w) PROVE Read'
        BY <1>4 DEF Unlock!IsReady
    <1>5. ASSUME NEW w \in Workers, Unlock!Retry(w) PROVE Read'
        BY <1>5 DEF Unlock!Retry
    <1>6. ASSUME NEW w \in Workers, Unlock!Join(w) PROVE Read'
        BY <1>6 DEF Unlock!Join
    <1>7. ASSUME NEW w \in Workers, Unlock!Call(w) PROVE Read'
        BY <1>7 DEF Unlock!Call
    <1>8. ASSUME NEW w \in Workers, Unlock!FailGroup(w) PROVE Read'
        BY <1>8 DEF Unlock!FailGroup
    <1>9. ASSUME NEW w \in Workers, Unlock!RevokeGroup(w) PROVE Read'
        BY <1>9 DEF Unlock!RevokeGroup
    <1>10. ASSUME NEW w \in Workers, Unlock!Fallback(w) PROVE Read'
        BY <1>10 DEF Unlock!Fallback
    <1>11. ASSUME NEW w \in Workers, Unlock!Ack(w) PROVE Read'
        BY <1>11 DEF Unlock!Ack
    <1>12. ASSUME NEW w \in Workers, Unlock!Crash(w) PROVE Read'
        BY <1>12 DEF Unlock!Crash
    <1>13. ASSUME NEW w \in Workers, NEW m \in Members, Unlock!FailTask(w, m)
          PROVE  Read'
        BY <1>13 DEF Unlock!FailTask
    <1>14. ASSUME NEW m \in Members, Unlock!ReadState(m) PROVE Read'
        BY <1>14 DEF Unlock!ReadState
    <1>15. ASSUME NEW m \in Members, Unlock!MarkAsRevoked(m) PROVE Read'
        BY <1>15 DEF Unlock!MarkAsRevoked
    <1>. HIDE DEF Read, ReadRight, Unlock!BodyAfterAll, Unlock!TypeOK
    <1>. QED
        BY <1>1, <1>2, <1>3, <1>4, <1>5, <1>6, <1>7, <1>8, <1>9, <1>10, <1>11, <1>12, <1>13,
           <1>14, <1>15 DEF Unlock!Next, Unlock!Step, Unlock!Handle, Unlock!Ends

(* The message of chord_unlock is in one place, and answered once.         *)
LEMMA OneMessageStep ==
    ASSUME Unlock!TypeOK, delays \in Nat, uerrors \in Nat, OneMessage, Unlock!AnsweredOnce,
           [Unlock!Next]_unlockVars
    PROVE  OneMessage' /\ (Unlock!AnsweredOnce)'
    <1>. DEFINE Once == OneMessage /\ Unlock!AnsweredOnce
    <1>. SUFFICES Once'
        OBVIOUS
    <1>. USE DEF OneMessage, Unlock!AnsweredOnce, Asking, Failing, Unlock!TypeOK, Unlock!Goto,
             Unlock!Raise, Unlock!setup, Unlock!unlockVars, Unlock!bodyVars, Unlock!partVars
    <1>1. CASE UNCHANGED unlockVars
        BY <1>1 DEF unlockVars
    <1>2. ASSUME NEW p \in Parts, NEW st \in {"SUCCESS", "FAILURE"}, Unlock!Finish(p, st)
          PROVE  Once'
        BY <1>2 DEF Unlock!Finish
    <1>3. ASSUME NEW w \in Workers, Unlock!Deliver(w) PROVE Once'
        BY <1>3 DEF Unlock!Deliver
    <1>4. ASSUME NEW w \in Workers, Unlock!IsReady(w) PROVE Once'
        BY <1>4 DEF Unlock!IsReady
    <1>5. ASSUME NEW w \in Workers, Unlock!Retry(w) PROVE Once'
        BY <1>5 DEF Unlock!Retry
    <1>6. ASSUME NEW w \in Workers, Unlock!Join(w) PROVE Once'
        BY <1>6 DEF Unlock!Join
    <1>7. ASSUME NEW w \in Workers, Unlock!Call(w) PROVE Once'
        <2>1. CASE delays' = delays + 1 /\ at' = [at EXCEPT ![w] = "ack"] /\ uerrors' = uerrors
            BY <1>7, <2>1 DEF Unlock!Call
        <2>2. CASE delays' = delays /\ at' = [at EXCEPT ![w] = "error"] /\ uerrors' = uerrors + 1
            BY <1>7, <2>2 DEF Unlock!Call
        <2>. QED
            BY <1>7, <2>1, <2>2 DEF Unlock!Call
    <1>8. ASSUME NEW w \in Workers, Unlock!FailGroup(w) PROVE Once'
        BY <1>8 DEF Unlock!FailGroup
    <1>9. ASSUME NEW w \in Workers, Unlock!RevokeGroup(w) PROVE Once'
        <2>1. UNCHANGED <<late, queue, delays, uerrors, ucrashes>> /\ at[w] = "revoke"
            BY <1>9 DEF Unlock!RevokeGroup
        <2>2. CASE at' = [at EXCEPT ![w] = "ack"]
            BY <2>1, <2>2
        <2>3. CASE at' = [at EXCEPT ![w] = "fallback"] /\ order' = order
            BY <2>1, <2>3
        <2>. QED
            BY <1>9, <2>2, <2>3 DEF Unlock!RevokeGroup
    <1>10. ASSUME NEW w \in Workers, Unlock!Fallback(w) PROVE Once'
        BY <1>10 DEF Unlock!Fallback
    <1>11. ASSUME NEW w \in Workers, Unlock!Ack(w) PROVE Once'
        BY <1>11 DEF Unlock!Ack
    <1>12. ASSUME NEW w \in Workers, Unlock!Crash(w) PROVE Once'
        BY <1>12 DEF Unlock!Crash
    <1>13. ASSUME NEW w \in Workers, NEW m \in Members, Unlock!FailTask(w, m)
          PROVE  Once'
        BY <1>13 DEF Unlock!FailTask
    <1>14. ASSUME NEW m \in Members, Unlock!ReadState(m) PROVE Once'
        BY <1>14 DEF Unlock!ReadState
    <1>15. ASSUME NEW m \in Members, Unlock!MarkAsRevoked(m) PROVE Once'
        BY <1>15 DEF Unlock!MarkAsRevoked
    <1>. HIDE DEF Once, OneMessage, Unlock!AnsweredOnce, Unlock!TypeOK
    <1>. QED
        BY <1>1, <1>2, <1>3, <1>4, <1>5, <1>6, <1>7, <1>8, <1>9, <1>10, <1>11, <1>12, <1>13,
           <1>14, <1>15 DEF Unlock!Next, Unlock!Step, Unlock!Handle, Unlock!Ends

(* The failures are stored before the revoke goes out.                     *)
LEMMA FailuresStep ==
    ASSUME Unlock!TypeOK, (Unlock!TypeOK)', OneMessage, FailuresStored, UnlockUndisturbed,
           \A m \in Members : order[m] = "write" => states[m] # "FAILURE",
           [Unlock!Next]_unlockVars
    PROVE  /\ FailuresStored'
           /\ \A m \in Members : order'[m] = "write" => states'[m] # "FAILURE"
           /\ Unlock!FailureKept
    <1>. DEFINE Stays == /\ FailuresStored'
                         /\ \A m \in Members : order'[m] = "write" => states'[m] # "FAILURE"
                         /\ Unlock!FailureKept
    <1>. SUFFICES Stays
        OBVIOUS
    <1>. USE UnlockFacts DEF FailuresStored, Unlock!FailureKept, Unlock!TypeOK, Unlock!Goto,
             Unlock!Raise, Unlock!setup, Unlock!unlockVars, Unlock!bodyVars, Unlock!partVars
    <1>1. CASE UNCHANGED unlockVars
        BY <1>1 DEF unlockVars
    <1>2. ASSUME NEW p \in Parts, NEW st \in {"SUCCESS", "FAILURE"}, Unlock!Finish(p, st)
          PROVE  Stays
        BY <1>2 DEF Unlock!Finish
    <1>3. ASSUME NEW w \in Workers, Unlock!Deliver(w) PROVE Stays
        BY <1>3 DEF Unlock!Deliver
    <1>4. ASSUME NEW w \in Workers, Unlock!IsReady(w) PROVE Stays
        BY <1>4 DEF Unlock!IsReady
    <1>5. ASSUME NEW w \in Workers, Unlock!Retry(w) PROVE Stays
        BY <1>5 DEF Unlock!Retry
    <1>6. ASSUME NEW w \in Workers, Unlock!Join(w) PROVE Stays
        BY <1>6 DEF Unlock!Join
    <1>7. ASSUME NEW w \in Workers, Unlock!Call(w) PROVE Stays
        BY <1>7 DEF Unlock!Call
    <1>8. ASSUME NEW w \in Workers, Unlock!FailGroup(w) PROVE Stays
        BY <1>8 DEF Unlock!FailGroup
    <1>9. ASSUME NEW w \in Workers, Unlock!RevokeGroup(w) PROVE Stays
        BY <1>9 DEF Unlock!RevokeGroup
    <1>10. ASSUME NEW w \in Workers, Unlock!Fallback(w) PROVE Stays
        BY <1>10 DEF Unlock!Fallback
    <1>11. ASSUME NEW w \in Workers, Unlock!Ack(w) PROVE Stays
        BY <1>11 DEF Unlock!Ack
    <1>12. ASSUME NEW w \in Workers, Unlock!Crash(w) PROVE Stays
        BY <1>12 DEF Unlock!Crash
    <1>13. ASSUME NEW w \in Workers, NEW m \in Members, Unlock!FailTask(w, m)
          PROVE  Stays
        <2>1. order[m] # "write"
            BY <1>13 DEF Unlock!FailTask, OneMessage, UnlockUndisturbed, Failing
        <2>. QED
            BY <1>13, <2>1 DEF Unlock!FailTask
    <1>14. ASSUME NEW m \in Members, Unlock!ReadState(m) PROVE Stays
        BY <1>14 DEF Unlock!ReadState, Unlock!Ready
    <1>15. ASSUME NEW m \in Members, Unlock!MarkAsRevoked(m) PROVE Stays
        BY <1>15 DEF Unlock!MarkAsRevoked
    <1>. HIDE DEF Stays, FailuresStored, Unlock!FailureKept, Unlock!TypeOK
    <1>. QED
        BY <1>1, <1>2, <1>3, <1>4, <1>5, <1>6, <1>7, <1>8, <1>9, <1>10, <1>11, <1>12, <1>13,
           <1>14, <1>15 DEF Unlock!Next, Unlock!Step, Unlock!Handle, Unlock!Ends

(* Every step of the task that polls preserves the invariant, and keeps a  *)
(* failure it has stored.                                                  *)
LEMMA UnlockStep ==
    ASSUME UnlockInv, [Unlock!Next]_unlockVars, UnlockUndisturbed'
    PROVE  UnlockInv' /\ Unlock!FailureKept
    <1>1. (Unlock!TypeOK)' /\ delays' \in Nat /\ uerrors' \in Nat
        BY UnlockTypeStep DEF UnlockInv
    <1>2. ReadRight' /\ (Unlock!BodyAfterAll)'
        BY ReadRightStep DEF UnlockInv
    <1>3. OneMessage' /\ (Unlock!AnsweredOnce)'
        BY OneMessageStep DEF UnlockInv
    <1>4. /\ FailuresStored' /\ Unlock!FailureKept
          /\ \A m \in Members : order'[m] = "write" => states'[m] # "FAILURE"
        BY <1>1, FailuresStep DEF UnlockInv
    <1>. QED
        BY <1>1, <1>2, <1>3, <1>4 DEF UnlockInv

-----------------------------------------------------------------------------
(***************************************************************************)
(* Every scenario of the run, for headers and bodies of any size and any   *)
(* bounds: each keeps the environment its component needs (Within), and    *)
(* leaves the variables of the other components as they are.               *)
(***************************************************************************)
EitherInv ==
    /\ scenario \in Scenarios /\ Inv
    /\ scenario # "counter_again" => OnceInv
    /\ RedisInv /\ UnlockInv

(* Redelivered says that a part begins again after a loss only.            *)
LEMMA BeginsAfterCrash ==
    ASSUME TypeOK, NEW r \in Runs, Begin(r), Redelivered'
    PROVE  AfterCrash(r)
    <1>1. pc' = [pc EXCEPT ![r] = "run"] /\ pc \in [Runs -> Labels]
        BY DEF Begin, Goto, TypeOK
    <1>2. CASE r[2] > 1
        <2>1. pc'[<<r[1], r[2] - 1>>] = "crashed"
            BY <1>1, <1>2 DEF Redelivered
        <2>2. <<r[1], r[2] - 1>> \in Runs /\ <<r[1], r[2] - 1>> # r
            BY <1>2, ChordAssumption DEF Runs
        <2>. QED
            BY <1>1, <2>1, <2>2 DEF AfterCrash, Part
    <1>. QED
        BY <1>2 DEF AfterCrash

(* All three protocols start in their invariants.                          *)
LEMMA EitherInitInv == EitherInit => EitherInv
    BY InitInv, OnceInit, RedisInitInv, UnlockInitInv DEF EitherInit, EitherInv

(* One protocol moves at a time, and keeps its own invariant.              *)
LEMMA EitherStepInv ==
    ASSUME EitherInv, [EitherNext]_allVars
    PROVE  EitherInv' /\ Unlock!FailureKept
    <1>. USE DEF EitherInv
    <1>1. scenario' = scenario
        BY DEF EitherNext, CounterScenario, RedisScenario, UnlockScenario, allVars
    <1>2. [Next]_vars /\ [Redis!Next]_redisVars /\ [Unlock!Next]_unlockVars
        BY DEF EitherNext, CounterScenario, RedisScenario, UnlockScenario, allVars
    <1>3. Inv'
        BY <1>2, StepInv
    <1>4. CASE UNCHANGED allVars
        <2>1. UNCHANGED <<rcrashes, added, rfaults, ucrashes, ufaults>> /\ UNCHANGED vars
            BY <1>4 DEF allVars, redisVars, unlockVars
        <2>2. Undisturbed' /\ UnlockUndisturbed'
            BY <2>1 DEF RedisInv, UnlockInv, Undisturbed, UnlockUndisturbed
        <2>3. \A r \in Runs : ~ Begin(r)
            BY <2>1 DEF Begin, Goto, Inv, TypeOK, vars
        <2>. QED
            BY <1>1, <1>2, <1>3, <2>2, <2>3, RedisStep, UnlockStep, OnceStep
    <1>5. CASE CounterScenario /\ Next /\ Within'
        <2>1. UNCHANGED <<rcrashes, added, rfaults, ucrashes, ufaults>>
            BY <1>5 DEF CounterScenario, redisVars, unlockVars
        <2>2. Undisturbed' /\ UnlockUndisturbed'
            BY <2>1 DEF RedisInv, UnlockInv, Undisturbed, UnlockUndisturbed
        <2>3. scenario # "counter_again" => Redelivered'
            BY <1>1, <1>5 DEF Within, CounterScenario, Counters, Firestores
        <2>4. scenario # "counter_again" => OnceInv'
            BY <1>2, <2>3, BeginsAfterCrash, OnceStep DEF Inv
        <2>. QED
            BY <1>1, <1>2, <1>3, <2>2, <2>4, RedisStep, UnlockStep
    <1>6. ASSUME RedisScenario \/ UnlockScenario, Within'
          PROVE  EitherInv' /\ Unlock!FailureKept
        <2>1. UNCHANGED vars /\ scenario # "counter_again"
            BY <1>6 DEF RedisScenario, UnlockScenario, Polled
        <2>2. \A r \in Runs : ~ Begin(r)
            BY <2>1 DEF Begin, Goto, Inv, TypeOK, vars
        <2>3. OnceInv'
            BY <1>2, <2>1, <2>2, OnceStep
        <2>4. Undisturbed'
            <3>1. CASE scenario = "redis_lost"
                BY <1>1, <1>6, <3>1 DEF Within, Undisturbed
            <3>2. CASE scenario = "redis"
                BY <1>1, <1>6, <3>2 DEF Within, Undisturbed, Quiet
            <3>3. CASE UnlockScenario
                BY <3>3 DEF UnlockScenario, redisVars, RedisInv, Undisturbed
            <3>. QED
                BY <1>6, <3>1, <3>2, <3>3 DEF RedisScenario
        <2>5. UnlockUndisturbed'
            <3>1. CASE scenario = "unlock_lost"
                BY <1>1, <1>6, <3>1 DEF Within, UnlockUndisturbed
            <3>2. CASE scenario = "unlock"
                BY <1>1, <1>6, <3>2 DEF Within, UnlockUndisturbed, Quiet
            <3>3. CASE RedisScenario
                BY <3>3 DEF RedisScenario, unlockVars, UnlockInv, UnlockUndisturbed
            <3>. QED
                BY <1>6, <3>1, <3>2, <3>3 DEF UnlockScenario, Polled
        <2>. QED
            BY <1>1, <1>2, <1>3, <2>3, <2>4, <2>5, RedisStep, UnlockStep
    <1>. QED
        BY <1>4, <1>5, <1>6 DEF EitherNext

(* On every kind of backend the body of a chord is applied once: on a      *)
(* counting one if no message is delivered twice while its worker lives,   *)
(* in redis the first time with one result of each part, and by            *)
(* chord_unlock after every part, with one answer, unless the message of   *)
(* chord_unlock is delivered again (on_chord_part_return() of the          *)
(* backends, chord_unlock() of app/builtins.py).                           *)
THEOREM ChordBodyOnce == EitherSpec => []BodyOnce
    <1>1. EitherInv => BodyOnce
        BY DEF EitherInv, BodyOnce, OnceInv, Open, Closing, Closed, BodyAtMostOnce, RedisInv,
               UnlockInv
    <1>2. EitherInv /\ [EitherNext]_allVars => EitherInv'
        BY EitherStepInv
    <1>. QED
        BY <1>1, <1>2, EitherInitInv, PTL DEF EitherSpec

(* A stored failure of the body's tasks is not taken for something to be   *)
(* revoked (_handle_group_chord_error() of backends/base.py stores the     *)
(* failures before it tells the workers).                                  *)
THEOREM UnlockFailureKept == EitherSpec => [][Unlock!FailureKept]_allVars
    <1>1. EitherInv /\ [EitherNext]_allVars => EitherInv' /\ [Unlock!FailureKept]_allVars
        BY EitherStepInv
    <1>. QED
        BY <1>1, EitherInitInv, PTL DEF EitherSpec

-----------------------------------------------------------------------------
(***************************************************************************)
(* In the undisturbed scenarios each chord implements the abstract one.    *)
(* What is needed beyond EitherInv: nobody closes the chord a second time, *)
(* and whoever closes it finds every part finished.                        *)
(***************************************************************************)
CounterQuiet ==
    /\ crashes = 0 /\ lost = 0 /\ ChordInv
    /\ \A r \in Runs : pc[r] # "crashed"

RedisQuiet ==
    /\ rcrashes = 0
    /\ Len(applied) + rerrors > 0 => \A p \in HeaderParts : finished[p] # "no"
    /\ \A r \in Redis!Runs : rpc[r] \in {"collect", "call"} => Len(applied) + rerrors = 0

UnlockQuiet ==
    /\ ucrashes = 0 /\ again = 0
    /\ \A w \in Workers, p \in Parts : cached[w][p] \in {"PENDING", stored[p]}
    /\ \A w \in Workers : at[w] = "join" => \A p \in Parts : cached[w][p] # "PENDING"
    /\ \A w \in Workers : at[w] = "call" => \A p \in Parts : stored[p] = "SUCCESS"

QuietInv ==
    /\ scenario \in {"counter", "firestore"} => CounterQuiet
    /\ scenario = "redis" => RedisQuiet
    /\ scenario = "redis_lost" => added = {}
    /\ scenario = "unlock" => UnlockQuiet

(* Redis: a part reports once, and the one that completes the chord calls  *)
(* the body or stores its failure.                                         *)
LEMMA RedisQuietStep ==
    ASSUME RedisInv, RedisInv', RedisQuiet, rcrashes' = 0, [Redis!Next]_redisVars,
           scenario = "redis", scenario' = scenario
    PROVE  RedisQuiet' /\ [RedisChord!Next]_(RedisChord!vars)
    <1>. DEFINE Goal == RedisQuiet' /\ [RedisChord!Next]_(RedisChord!vars)
    <1>. SUFFICES Goal
        OBVIOUS
    <1>. USE DEF Redis!keyVars, Redis!bodyVars, Redis!faultVars
    <1>1. /\ rpc \in [Redis!Runs -> Redis!Labels] /\ applied \in Seq(SUBSET Redis!Reports)
          /\ rerrors \in Nat /\ Len(applied) \in Nat
          /\ finished \in [Parts \union Extra -> {"SUCCESS", "FAILURE", "no"}]
          /\ HeaderParts \subseteq Parts \union Extra
        BY RedisFacts DEF RedisInv, Redis!TypeOK, Redis!AllParts, Redis!States, HeaderParts,
                          Redis!HeaderParts
    \* steps that show nothing
    <1>2. ASSUME UNCHANGED <<added, applied, rerrors, finished>>,
                 \A r \in Redis!Runs : rpc'[r] \in {"collect", "call"}
                                       => rpc[r] \in {"collect", "call"}
          PROVE  Goal
        <2>1. RedisQuiet'
            BY <1>2 DEF RedisQuiet, HeaderParts, Redis!HeaderParts
        <2>2. UNCHANGED RedisChord!vars
            BY <1>2 DEF RedisChord!vars, Redis!HeaderParts, Redis!Body
        <2>. QED
            BY <2>1, <2>2
    <1>3. CASE UNCHANGED redisVars
        BY <1>2, <1>3 DEF redisVars
    <1>4. CASE Redis!SetChordSize \/ \E p \in Parts : Redis!Send(p)
        BY <1>2, <1>4 DEF Redis!SetChordSize, Redis!Send
    <1>5. ASSUME NEW r \in Redis!Runs,
                 Redis!Begin(r) \/ Redis!SendAdded(r) \/ Redis!Delete(r) \/ Redis!Ack(r)
                 \/ Redis!Crash(r)
          PROVE  Goal
        BY <1>1, <1>2, <1>5
           DEF Redis!Begin, Redis!SendAdded, Redis!Delete, Redis!Ack, Redis!Crash, Redis!Goto
    <1>6. ASSUME NEW r \in Redis!Runs, rpc[r] \in {"run", "call", "collect"}
          PROVE  /\ rpc[r] = "run" => finished[r[1]] = "no" /\ r[1] \in HeaderParts
                                      /\ Len(applied) = 0 /\ rerrors = 0
                 /\ rpc[r] # "run" => Kept /\ Complete /\ Len(applied) = 0 /\ rerrors = 0
        <2>1. CASE rpc[r] = "run"
            <3>1. r[2] = 1
                BY <2>1, RedisFacts DEF RedisInv, RunOnce, RedisQuiet
            <3>2. finished[r[1]] = "no" /\ r[1] \in HeaderParts
                BY <2>1, <3>1 DEF RedisInv, RunOnce, RedisQuiet, KeysRight
            <3>. QED
                BY <1>1, <2>1, <3>2 DEF RedisQuiet
        <2>2. CASE rpc[r] # "run"
            <3>1. rpc[r] \in Reporting
                BY <1>6, <2>2 DEF Reporting
            <3>2. Kept /\ Complete
                BY <3>1 DEF RedisInv, RunOnce, RedisQuiet, ReportersRight
            <3>. QED
                BY <1>1, <1>6, <2>2, <3>2 DEF RedisQuiet
        <2>. QED
            BY <2>1, <2>2
    <1>7. ASSUME NEW r \in Redis!Runs, NEW p \in Extra, Redis!AddToChord(r, p)
          PROVE  Goal
        <2>1. /\ added' = added \union {p} /\ p \notin added /\ rpc[r] = "run"
              /\ rpc' = [rpc EXCEPT ![r] = "adding"]
              /\ UNCHANGED <<applied, rerrors, finished>>
            BY <1>7 DEF Redis!AddToChord, Redis!Goto
        <2>2. finished[r[1]] = "no" /\ r[1] \in HeaderParts /\ Len(applied) = 0 /\ rerrors = 0
            BY <1>6, <2>1
        <2>3. RedisQuiet'
            BY <1>1, <2>1, <2>2 DEF RedisQuiet
        <2>4. RedisChord!Add(p)
            BY <2>1, <2>2, RedisFacts
               DEF RedisChord!Add, RedisChord!Unfinished, Redis!HeaderParts, HeaderParts, Redis!Body
        <2>. QED
            BY <2>3, <2>4 DEF RedisChord!Next
    <1>8. ASSUME NEW r \in Redis!Runs, NEW st \in {"SUCCESS", "FAILURE"}, Redis!PartReturn(r, st)
          PROVE  Goal
        <2>1. /\ rpc[r] = "run" /\ UNCHANGED <<added, applied, rerrors>>
              /\ finished' = [finished EXCEPT ![r[1]] = IF @ = "no" THEN st ELSE @]
            BY <1>8, RedisFacts DEF Redis!PartReturn
        <2>2. finished[r[1]] = "no" /\ r[1] \in HeaderParts /\ Len(applied) = 0 /\ rerrors = 0
            BY <1>6, <2>1
        <2>3. RedisQuiet'
            BY <1>1, <2>1, <2>2 DEF RedisQuiet
        <2>4. RedisChord!Finish(r[1], st)
            BY <1>1, <2>1, <2>2
               DEF RedisChord!Finish, RedisChord!Unfinished, Redis!HeaderParts, HeaderParts,
                   Redis!Body
        <2>. QED
            BY <1>1, <2>2, <2>3, <2>4 DEF RedisChord!Next
    <1>9. ASSUME NEW r \in Redis!Runs, rpc[r] \in {"collect", "call"},
                 rpc'[r] \notin {"collect", "call"},
                 \A s \in Redis!Runs : s # r => rpc'[s] = rpc[s],
                 UNCHANGED <<added, finished>>
          PROVE  RedisQuiet'
        <2>1. \A s \in Redis!Runs : rpc'[s] \notin {"collect", "call"}
            BY <1>9 DEF RedisInv, RunOnce, RedisQuiet, Reporting
        <2>2. \A p \in HeaderParts' : finished'[p] # "no"
            BY <1>6, <1>9 DEF Complete, HeaderParts, Redis!HeaderParts
        <2>. QED
            BY <2>1, <2>2 DEF RedisQuiet
    \* the failure of the chord
    <1>10. ASSUME Complete, Len(applied) = 0, rerrors = 0, rerrors' = 1,
                  UNCHANGED <<added, applied, finished>>
           PROVE  RedisChord!Next
        <2>1. RedisChord!Fail
            <3>1. RedisChord!Unfinished = {}
                BY <1>10 DEF RedisChord!Unfinished, Complete, HeaderParts
            <3>2. Redis!Body = "waiting" /\ (Redis!Body)' = "failed"
                BY <1>10 DEF Redis!Body
            <3>3. (Redis!HeaderParts)' = Redis!HeaderParts
                BY <1>10 DEF Redis!HeaderParts
            <3>. QED
                BY <1>10, <3>1, <3>2, <3>3 DEF RedisChord!Fail
        <2>. QED
            BY <2>1 DEF RedisChord!Next
    <1>11. ASSUME NEW r \in Redis!Runs, Redis!Collect(r)
           PROVE  Goal
        <2>1. rpc[r] = "collect" /\ UNCHANGED <<added, applied, finished>>
            BY <1>11 DEF Redis!Collect
        <2>2. CASE rerrors' = rerrors /\ rpc' = [rpc EXCEPT ![r] = "call"]
            BY <1>1, <1>2, <2>1, <2>2
        <2>3. CASE rerrors' = rerrors + 1 /\ rpc' = [rpc EXCEPT ![r] = "done"]
            <3>1. RedisQuiet'
                BY <1>1, <1>9, <2>1, <2>3
            <3>. QED
                BY <1>6, <1>10, <2>1, <2>3, <3>1
        <2>. QED
            BY <1>11, <2>2, <2>3 DEF Redis!Collect, Redis!Goto
    <1>12. ASSUME NEW r \in Redis!Runs, Redis!Call(r)
           PROVE  Goal
        <2>1. /\ rpc[r] = "call" /\ UNCHANGED <<added, finished>>
              /\ rpc' = [rpc EXCEPT ![r] = "delete"]
              /\ resl[r] \in SUBSET Redis!Reports
            BY <1>12 DEF Redis!Call, Redis!Goto, RedisInv, Redis!TypeOK
        <2>2. RedisQuiet'
            BY <1>1, <1>9, <2>1
        <2>3. Kept /\ Complete /\ Len(applied) = 0 /\ rerrors = 0
            BY <1>6, <2>1
        <2>4. CASE applied' = applied /\ rerrors' = rerrors + 1
            BY <1>10, <2>1, <2>2, <2>3, <2>4
        <2>5. CASE applied' = Append(applied, resl[r]) /\ rerrors' = rerrors
            <3>1. \A p \in HeaderParts : finished[p] = "SUCCESS"
                BY <2>1, <2>3 DEF RedisInv, ReportersRight, Complete
            <3>2. Len(applied') > 0
                BY <1>1, <2>1, <2>5
            <3>3. RedisChord!Call
                BY <2>1, <2>3, <2>5, <3>1, <3>2
                   DEF RedisChord!Call, Redis!HeaderParts, HeaderParts, Redis!Body
            <3>. QED
                BY <2>2, <3>3 DEF RedisChord!Next
        <2>. QED
            BY <1>12, <2>4, <2>5 DEF Redis!Call
    <1>. HIDE DEF Goal
    <1>. QED
        BY <1>3, <1>4, <1>5, <1>7, <1>8, <1>11, <1>12 DEF Redis!Next, Redis!Step

(* The task that polls: what it has cached of a part stays true, as a part *)
(* that has finished is not executed again.                                *)
LEMMA UnlockQuietStep ==
    ASSUME UnlockInv, UnlockQuiet, ucrashes' = 0, again' = 0, [Unlock!Next]_unlockVars,
           scenario = "unlock", scenario' = scenario
    PROVE  UnlockQuiet' /\ [UnlockChord!Next]_(UnlockChord!vars)
    <1>. DEFINE Goal == UnlockQuiet' /\ [UnlockChord!Next]_(UnlockChord!vars)
    <1>. SUFFICES Goal
        OBVIOUS
    <1>. USE DEF Unlock!setup, Unlock!unlockVars, Unlock!bodyVars, Unlock!partVars, Unlock!Goto
    <1>1. /\ stored \in [Parts -> {"PENDING", "SUCCESS", "FAILURE"}]
          /\ cached \in [Workers -> [Parts -> {"PENDING", "SUCCESS", "FAILURE"}]]
          /\ DOMAIN at = Workers /\ delays \in Nat /\ uerrors \in Nat
        BY DEF UnlockInv, Unlock!TypeOK
    <1>2. \A w \in Workers : at[w] \in Asking => delays = 0 /\ uerrors = 0
        <2>1. \A w \in Workers : at[w] \in Asking => delays + uerrors = 0
            BY DEF UnlockInv, OneMessage, UnlockQuiet
        <2>. QED
            BY <1>1, <2>1
    \* steps that leave the results and the answer
    <1>3. ASSUME UNCHANGED <<stored, delays, uerrors>>
          PROVE  UNCHANGED UnlockChord!vars
        BY <1>3 DEF UnlockChord!vars, Unlock!Finished, Unlock!Applied
    <1>4. CASE UNCHANGED unlockVars
        BY <1>3, <1>4 DEF unlockVars, UnlockQuiet
    <1>5. ASSUME NEW p \in Parts, NEW st \in {"SUCCESS", "FAILURE"}, Unlock!Finish(p, st)
          PROVE  Goal
        <2>1. /\ stored[p] = "PENDING" /\ stored' = [stored EXCEPT ![p] = st]
              /\ UNCHANGED <<at, cached, delays, uerrors>>
            BY <1>5 DEF Unlock!Finish, UnlockQuiet
        <2>2. UnlockQuiet'
            BY <1>1, <2>1 DEF UnlockQuiet
        <2>3. UnlockChord!Finish(p, st)
            <3>1. (Unlock!Finished)' = [Unlock!Finished EXCEPT ![p] = st]
                BY <1>1, <2>1 DEF Unlock!Finished
            <3>2. p \in UnlockChord!Unfinished /\ (Unlock!Applied)' = Unlock!Applied
                BY <2>1 DEF UnlockChord!Unfinished, Unlock!Finished, Unlock!Applied
            <3>. QED
                BY <3>1, <3>2 DEF UnlockChord!Finish
        <2>. QED
            BY <2>2, <2>3 DEF UnlockChord!Next
    <1>6. ASSUME NEW w \in Workers,
                 Unlock!Deliver(w) \/ Unlock!Ack(w) \/ Unlock!Crash(w)
          PROVE  Goal
        <2>1. /\ \E l \in {"ready", "idle"} : at' = [at EXCEPT ![w] = l]
              /\ cached' = [cached EXCEPT ![w] = Unlock!Unread]
              /\ UNCHANGED <<stored, delays, uerrors>>
            BY <1>6 DEF Unlock!Deliver, Unlock!Ack, Unlock!Crash
        <2>2. UnlockQuiet'
            BY <1>1, <2>1 DEF UnlockQuiet, Unlock!Unread
        <2>. QED
            BY <1>3, <2>1, <2>2
    <1>7. ASSUME NEW w \in Workers,
                 NEW l \in {"retry", "ack", "error", "group", "revoke", "fallback"},
                 at' = [at EXCEPT ![w] = l], UNCHANGED <<cached, stored>>
          PROVE  UnlockQuiet'
        BY <1>1, <1>7 DEF UnlockQuiet
    <1>8. ASSUME NEW w \in Workers, NEW m \in Members,
                 \/ Unlock!Retry(w) \/ Unlock!FailGroup(w) \/ Unlock!RevokeGroup(w)
                 \/ Unlock!Fallback(w) \/ Unlock!FailTask(w, m)
          PROVE  Goal
        <2>1. /\ \E l \in {"ack", "error", "group", "revoke", "fallback"} :
                    at' = [at EXCEPT ![w] = l]
              /\ UNCHANGED <<stored, cached, delays, uerrors>>
            BY <1>8 DEF Unlock!Retry, Unlock!FailGroup, Unlock!RevokeGroup, Unlock!Fallback,
                        Unlock!FailTask
        <2>. QED
            BY <1>3, <1>7, <2>1
    <1>9. ASSUME NEW m \in Members, Unlock!ReadState(m) \/ Unlock!MarkAsRevoked(m)
          PROVE  Goal
        BY <1>3, <1>9 DEF Unlock!ReadState, Unlock!MarkAsRevoked, UnlockQuiet
    <1>10. ASSUME NEW w \in Workers, Unlock!IsReady(w)
           PROVE  Goal
        <2>1. UNCHANGED <<stored, delays, uerrors>>
            BY <1>10 DEF Unlock!IsReady
        <2>2. CASE at' = [at EXCEPT ![w] = "retry"] /\ cached' = cached
            BY <1>3, <1>7, <2>1, <2>2
        <2>3. ASSUME NEW p \in Parts,
                     LET read == [cached[w] EXCEPT ![p] = stored[p]] IN
                     /\ cached[w][p] = "PENDING"
                     /\ \/ at' = [at EXCEPT ![w] = "retry"]
                        \/ at' = [at EXCEPT ![w] = IF \A q \in Parts : read[q] \in Unlock!Ready
                                                   THEN "join" ELSE "ready"]
                     /\ cached' = [cached EXCEPT ![w] = read]
              PROVE  Goal
            <3>. DEFINE read == [cached[w] EXCEPT ![p] = stored[p]]
            <3>1. cached' = [cached EXCEPT ![w] = read]
                BY <2>3
            <3>2. \A q \in Parts : read[q] \in {"PENDING", stored[q]}
                BY <1>1 DEF UnlockQuiet
            <3>3. at'[w] = "join" => \A q \in Parts : read[q] # "PENDING"
                BY <1>1, <2>3 DEF Unlock!Ready
            <3>4. at'[w] # "call" /\ \A v \in Workers : v # w => at'[v] = at[v]
                BY <1>1, <2>3
            <3>. HIDE DEF read
            <3>5. cached'[w] = read /\ \A v \in Workers : v # w => cached'[v] = cached[v]
                BY <1>1, <3>1
            <3>6. UnlockQuiet'
                BY <2>1, <3>2, <3>3, <3>4, <3>5 DEF UnlockQuiet
            <3>. QED
                BY <1>3, <2>1, <3>6
        <2>. QED
            BY <1>10, <2>2, <2>3 DEF Unlock!IsReady
    \* the failure of the chord
    <1>11. ASSUME \A p \in Parts : stored[p] # "PENDING", delays = 0, uerrors = 0, uerrors' = 1,
                  UNCHANGED <<stored, delays>>
           PROVE  UnlockChord!Next
        <2>1. UnlockChord!Unfinished = {}
            BY <1>1, <1>11 DEF UnlockChord!Unfinished, Unlock!Finished
        <2>2. Unlock!Applied = "waiting" /\ (Unlock!Applied)' = "failed"
              /\ (Unlock!Finished)' = Unlock!Finished
            BY <1>11 DEF Unlock!Applied, Unlock!Finished
        <2>. QED
            BY <2>1, <2>2 DEF UnlockChord!Fail, UnlockChord!Next
    <1>12. ASSUME NEW w \in Workers, Unlock!Join(w)
           PROVE  Goal
        <2>1. at[w] = "join" /\ UNCHANGED <<stored, cached, delays>>
            BY <1>12 DEF Unlock!Join
        <2>2. /\ \A p \in Parts : stored[p] # "PENDING" /\ cached[w][p] = stored[p]
              /\ delays = 0 /\ uerrors = 0
            BY <1>2, <2>1 DEF UnlockQuiet, Asking
        <2>3. CASE \A p \in Parts : stored[p] = "SUCCESS"
            <3>1. at' = [at EXCEPT ![w] = "call"] /\ uerrors' = uerrors
                BY <1>12, <2>2, <2>3 DEF Unlock!Join
            <3>2. UnlockQuiet'
                BY <1>1, <2>1, <2>3, <3>1 DEF UnlockQuiet
            <3>. QED
                BY <1>3, <2>1, <3>1, <3>2
        <2>4. CASE ~ \A p \in Parts : stored[p] = "SUCCESS"
            <3>1. at' = [at EXCEPT ![w] = "error"] /\ uerrors' = uerrors + 1
                BY <1>12, <2>2, <2>4 DEF Unlock!Join
            <3>2. UnlockQuiet'
                BY <1>7, <2>1, <3>1
            <3>3. UnlockChord!Next
                BY <1>11, <2>1, <2>2, <3>1
            <3>. QED
                BY <3>2, <3>3
        <2>. QED
            BY <2>3, <2>4
    <1>13. ASSUME NEW w \in Workers, Unlock!Call(w)
           PROVE  Goal
        <2>1. at[w] = "call" /\ UNCHANGED <<stored, cached>>
            BY <1>13 DEF Unlock!Call
        <2>2. (\A p \in Parts : stored[p] = "SUCCESS") /\ delays = 0 /\ uerrors = 0
            BY <1>2, <2>1 DEF UnlockQuiet, Asking
        <2>3. CASE delays' = delays + 1 /\ at' = [at EXCEPT ![w] = "ack"] /\ uerrors' = uerrors
            <3>1. /\ Unlock!Applied = "waiting" /\ (Unlock!Applied)' = "called"
                  /\ (Unlock!Finished)' = Unlock!Finished
                  /\ \A p \in Parts : Unlock!Finished[p] = "SUCCESS"
                BY <2>1, <2>2, <2>3 DEF Unlock!Applied, Unlock!Finished
            <3>2. UnlockChord!Call
                BY <3>1 DEF UnlockChord!Call
            <3>. QED
                BY <1>7, <2>1, <2>3, <3>2 DEF UnlockChord!Next
        <2>4. CASE delays' = delays /\ at' = [at EXCEPT ![w] = "error"] /\ uerrors' = uerrors + 1
            <3>1. UnlockQuiet'
                BY <1>7, <2>1, <2>4
            <3>2. \A p \in Parts : stored[p] # "PENDING"
                BY <2>2
            <3>3. UnlockChord!Next
                BY <1>11, <2>1, <2>2, <2>4, <3>2
            <3>. QED
                BY <3>1, <3>3
        <2>. QED
            BY <1>13, <2>3, <2>4 DEF Unlock!Call
    <1>14. ASSUME NEW w \in Workers, Unlock!Step(w)
           PROVE  Goal
        <2>. HIDE DEF Goal
        <2>1. \E m \in Members : TRUE
            BY ChordConstants
        <2>. QED
            BY <1>6, <1>8, <1>10, <1>12, <1>13, <1>14, <2>1 DEF Unlock!Step
    <1>. HIDE DEF Goal
    <1>. QED
        BY <1>4, <1>5, <1>6, <1>9, <1>14 DEF Unlock!Next, Unlock!Handle, Unlock!Ends

(* The counter, where no worker is lost: a part is executed once.          *)
LEMMA CounterQuietStep ==
    ASSUME Inv, Inv', CounterQuiet, crashes' = 0, lost' = 0, Redelivered', [Next]_vars
    PROVE  CounterQuiet' /\ ChordStep
    <1>1. \A r \in Runs : pc'[r] # "crashed"
        <2>1. \A r \in Runs : ~ Crash(r)
            BY DEF Crash, CounterQuiet
        <2>2. ASSUME NEW r \in Runs, Begin(r) \/ Step(r) \/ IncrRaises(r)
              PROVE  \A s \in Runs : pc'[s] # "crashed"
            <3>1. \E l \in Labels \ {"crashed"} : pc' = [pc EXCEPT ![r] = l]
                BY <2>2 DEF Goto, Labels, Begin, Step, ReadMeta, StoreMeta, RestoreGroup, Incr,
                            CountFirst, RestoreDeps, Join, Call, DeleteGroup, DeleteKey, Ack,
                            IncrRaises
            <3>. QED
                BY <3>1 DEF Inv, TypeOK, CounterQuiet
        <2>3. CASE UNCHANGED vars
            BY <2>3 DEF vars, CounterQuiet
        <2>. QED
            BY <2>1, <2>2, <2>3 DEF Next
    <1>2. Single'
        <2>1. \A r \in Runs : r[2] > 1 => <<r[1], r[2] - 1>> \in Runs
            BY ChordAssumption DEF Runs
        <2>. QED
            BY <1>1, <2>1 DEF Single, Redelivered
    <1>3. ChordInv' /\ ChordStep
        BY <1>2, ChordStepInv DEF Inv, CounterQuiet
    <1>. QED
        BY <1>1, <1>3 DEF CounterQuiet

ChordSteps ==
    /\ [CounterChord!Next]_(CounterChord!vars)
    /\ [RedisChord!Next]_(RedisChord!vars)
    /\ [UnlockChord!Next]_(UnlockChord!vars)

(* All three start where the abstract chord does.                          *)
LEMMA QuietInit == EitherInit => /\ QuietInv
                                 /\ CounterChord!Init /\ RedisChord!Init /\ UnlockChord!Init
    <1>. SUFFICES ASSUME EitherInit
                  PROVE  /\ QuietInv
                         /\ CounterChord!Init /\ RedisChord!Init /\ UnlockChord!Init
        OBVIOUS
    <1>. USE DEF EitherInit
    <1>1. CounterQuiet /\ CounterChord!Init
        BY ChordInitInv, ChordAssumption
           DEF Init, CounterQuiet, CounterChord!Init, Finished, Body
    <1>2. RedisQuiet /\ added = {} /\ RedisChord!Init
        BY RedisFacts DEF Redis!Init, RedisQuiet, RedisChord!Init, Redis!Body, Redis!HeaderParts,
                          Redis!AllParts
    <1>3. UnlockQuiet /\ UnlockChord!Init
        BY ChordAssumption
           DEF Unlock!Init, UnlockQuiet, UnlockChord!Init, Unlock!Unread, Unlock!Finished,
               Unlock!Applied
    <1>. QED
        BY <1>1, <1>2, <1>3 DEF QuietInv

(* Each step of each is a step of the abstract chord, or none.             *)
LEMMA QuietStep ==
    ASSUME EitherInv, EitherInv', QuietInv, [EitherNext]_allVars
    PROVE  QuietInv' /\ ChordSteps
    <1>1. scenario' = scenario
        BY DEF EitherNext, CounterScenario, RedisScenario, UnlockScenario, allVars
    <1>2. [Next]_vars /\ [Redis!Next]_redisVars /\ [Unlock!Next]_unlockVars
        BY DEF EitherNext, CounterScenario, RedisScenario, UnlockScenario, allVars
    <1>3. /\ UNCHANGED vars \/ (CounterScenario /\ Within')
          /\ UNCHANGED redisVars \/ (RedisScenario /\ Within')
          /\ UNCHANGED unlockVars \/ (UnlockScenario /\ Within')
        <2>1. CounterScenario => UNCHANGED <<redisVars, unlockVars>>
            BY DEF CounterScenario
        <2>2. RedisScenario => UNCHANGED <<vars, unlockVars>>
            BY DEF RedisScenario
        <2>3. UnlockScenario => UNCHANGED <<vars, redisVars>>
            BY DEF UnlockScenario
        <2>4. CASE CounterScenario /\ Within'
            BY <2>1, <2>4
        <2>5. CASE RedisScenario /\ Within'
            BY <2>2, <2>5
        <2>6. CASE UnlockScenario /\ Within'
            BY <2>3, <2>6
        <2>7. CASE UNCHANGED allVars
            <3>1. UNCHANGED vars /\ UNCHANGED redisVars /\ UNCHANGED unlockVars
                BY <2>7 DEF allVars
            <3>. QED
                BY <3>1
        <2>. QED
            BY <2>4, <2>5, <2>6, <2>7 DEF EitherNext
    <1>4. /\ scenario \in {"counter", "firestore"} => CounterQuiet'
          /\ [CounterChord!Next]_(CounterChord!vars)
        <2>1. CASE scenario \in {"counter", "firestore"}
            <3>1. crashes' = 0 /\ lost' = 0 /\ Redelivered'
                <4>1. CASE UNCHANGED vars
                    BY <2>1, <4>1
                       DEF vars, faultVars, QuietInv, CounterQuiet, ChordInv, Single, Redelivered
                <4>2. CASE Within'
                    BY <1>1, <2>1, <4>2 DEF Within, Quiet
                <4>. QED
                    BY <1>3, <4>1, <4>2
            <3>2. CounterQuiet' /\ ChordStep
                BY <1>2, <2>1, <3>1, CounterQuietStep DEF EitherInv, QuietInv
            <3>3. scenario \in Quiet /\ scenario' \in Quiet
                BY <1>1, <2>1 DEF Quiet
            <3>4. [CounterChord!Next]_(CounterChord!vars)
                BY <3>2, <3>3
                   DEF ChordStep, Abstract!Next, Abstract!Add, Abstract!Finish, Abstract!Call,
                       Abstract!Fail, Abstract!Unfinished, Abstract!vars, CounterChord!Next,
                       CounterChord!Add, CounterChord!Finish, CounterChord!Call,
                       CounterChord!Fail, CounterChord!Unfinished, CounterChord!vars
            <3>. QED
                BY <3>2, <3>4
        <2>2. CASE scenario \notin {"counter", "firestore"}
            <3>1. UNCHANGED CounterChord!vars
                <4>1. CASE scenario \in Quiet
                    <5>1. UNCHANGED vars
                        BY <1>3, <2>2, <4>1
                           DEF CounterScenario, Quiet, Counters, Firestores
                    <5>. QED
                        BY <1>1, <5>1 DEF CounterChord!vars, Finished, Body, vars, backendVars,
                                          bodyVars
                <4>2. CASE scenario \notin Quiet
                    BY <1>1, <4>2 DEF CounterChord!vars
                <4>. QED
                    BY <4>1, <4>2
            <3>. QED
                BY <2>2, <3>1
        <2>. QED
            BY <2>1, <2>2
    <1>5. /\ scenario = "redis" => RedisQuiet'
          /\ scenario = "redis_lost" => added' = {}
          /\ [RedisChord!Next]_(RedisChord!vars)
        <2>1. CASE scenario = "redis"
            <3>1. rcrashes' = 0
                BY <1>1, <1>3, <2>1 DEF Within, Quiet, redisVars, QuietInv, RedisQuiet
            <3>. QED
                BY <1>1, <1>2, <2>1, <3>1, RedisQuietStep DEF EitherInv, QuietInv
        <2>2. CASE scenario # "redis"
            <3>1. added' = added /\ (scenario = "redis_lost" => added' = {})
                BY <1>1, <1>3, <2>2 DEF RedisScenario, Within, redisVars, QuietInv
            <3>2. UNCHANGED RedisChord!vars
                BY <1>1, <2>2, <3>1 DEF RedisChord!vars, Redis!HeaderParts
            <3>. QED
                BY <2>2, <3>1, <3>2
        <2>. QED
            BY <2>1, <2>2
    <1>6. /\ scenario = "unlock" => UnlockQuiet'
          /\ [UnlockChord!Next]_(UnlockChord!vars)
        <2>1. CASE scenario = "unlock"
            <3>1. ucrashes' = 0 /\ again' = 0
                BY <1>1, <1>3, <2>1 DEF Within, Quiet, unlockVars, QuietInv, UnlockQuiet
            <3>. QED
                BY <1>1, <1>2, <2>1, <3>1, UnlockQuietStep DEF EitherInv, QuietInv
        <2>2. CASE scenario # "unlock"
            BY <1>1, <2>2 DEF UnlockChord!vars
        <2>. QED
            BY <2>1, <2>2
    <1>. QED
        BY <1>1, <1>4, <1>5, <1>6 DEF QuietInv, ChordSteps

(* If no worker is lost and no message delivered twice, the chord of every *)
(* kind of backend is the abstract one: with parts that are added while    *)
(* others run, calls that raise and polls that find nothing, the body is   *)
(* applied once, after all parts have succeeded, or fails once, after all  *)
(* have finished (on_chord_part_return() of the backends, chord_unlock()). *)
THEOREM ChordsImplementChord ==
    EitherSpec => CounterChord!Spec /\ RedisChord!Spec /\ UnlockChord!Spec
    <1>1. EitherInv /\ QuietInv /\ [EitherNext]_allVars
            => /\ EitherInv' /\ QuietInv'
               /\ [CounterChord!Next]_(CounterChord!vars)
               /\ [RedisChord!Next]_(RedisChord!vars)
               /\ [UnlockChord!Next]_(UnlockChord!vars)
        BY EitherStepInv, QuietStep DEF ChordSteps
    <1>. QED
        BY <1>1, EitherInitInv, QuietInit, PTL
           DEF EitherSpec, CounterChord!Spec, RedisChord!Spec, UnlockChord!Spec
=============================================================================
