------------------------- MODULE ApplicationProofs -------------------------
(***************************************************************************)
(* Chains, result stores' clients, applications and the migration of       *)
(* messages, and the model that plays one of them at a time.               *)
(*                                                                         *)
(* A chain, however often its messages are delivered again or retried: a   *)
(* step is published only after the task before it has returned, and a     *)
(* result that says SUCCESS was followed by its next step.  The invariant  *)
(* records what a run has behind it at each place of trace_task(): from    *)
(* "dispatch" on its task has returned, and from "store" on the next step  *)
(* is published.                                                           *)
(*                                                                         *)
(* The connections of a result store: whoever makes or prepares a session  *)
(* of Cassandra holds the lock, and no cluster is open but that of the     *)
(* session; of the engines of a database only the one assigned last is     *)
(* kept.                                                                   *)
(*                                                                         *)
(* The setup of a table: a process that has found the table as it wanted   *)
(* it, or has asked for it, leaves something behind (a status, a request   *)
(* under way) that only a process of another mind, a lost process or an    *)
(* error can undo.                                                         *)
(*                                                                         *)
(* The migration of messages: a message is acknowledged only after it was  *)
(* republished, unless the filter by task names passed it over, and what   *)
(* is not acknowledged goes back to the source when the run ends.          *)
(*                                                                         *)
(* In the model that plays them, the parts a scenario leaves alone stay at *)
(* their initial values, so the invariant of each part is carried by its   *)
(* own scenario; waiting results and applications rest on their own        *)
(* modules of proofs.                                                      *)
(***************************************************************************)
EXTENDS MCApplication, Functions, FiniteSetTheorems, SequenceTheorems, TLAPS

After == {"dispatch", "store", "chord", "post"}
Failing == {"markretry", "fail", "failchord", "errbacks", "done", "settled"}

Published(s) == \E j \in DOMAIN runs : runs[j].step = s + 1

Inv ==
    /\ TypeOK
    /\ StepAfterReturn
    /\ SuccessIsPassedOn
    /\ \A i \in DOMAIN runs :
          /\ runs[i].pc \in After => runs[i].step \in returned
          /\ runs[i].pc \in After \ {"dispatch"} /\ runs[i].step < Steps
                => Published(runs[i].step)
          /\ runs[i].pc = "redispatch" =>
                result[runs[i].step] = "SUCCESS" /\ runs[i].step < Steps
          /\ runs[i].pc = "fail" => runs[i].at \in Step
          /\ runs[i].pc = "retry" => runs[i].retries < MaxRetries
          /\ runs[i].pc \notin Failing => runs[i].at = runs[i].step

(* The bounds are natural numbers.                                         *)
LEMMA BoundFacts ==
    /\ Steps \in Nat /\ Steps > 0
    /\ MaxRetries \in Nat /\ MaxReplaced \in Nat /\ MaxCrashes \in Nat /\ MaxFaults \in Nat
    BY ChainAssumption

(* The message of a step is a run that nobody has taken.                   *)
LEMMA MessageFacts ==
    ASSUME NEW s \in Step, NEW n \in 0..MaxRetries
    PROVE  /\ Message(s, n) \in Run
           /\ Message(s, n).step = s /\ Message(s, n).pc = "queued"
           /\ Message(s, n).at = s
    BY BoundFacts DEF Message, Run, Step, Labels

(* Goto() moves one run and leaves the others alone.                       *)
LEMMA GotoFacts ==
    ASSUME runs \in Seq(Run), NEW i \in DOMAIN runs, NEW label \in Labels
    PROVE  /\ Goto(i, label) \in Seq(Run)
           /\ DOMAIN Goto(i, label) = DOMAIN runs
           /\ \A j \in DOMAIN runs :
                 /\ Goto(i, label)[j].step = runs[j].step
                 /\ Goto(i, label)[j].retries = runs[j].retries
                 /\ Goto(i, label)[j].at = runs[j].at
                 /\ Goto(i, label)[j].pc = IF j = i THEN label ELSE runs[j].pc
    <1>3. \A j \in DOMAIN runs : runs[j] \in Run
        OBVIOUS
    <1>1. [runs[i] EXCEPT !.pc = label] \in Run
        <2>1. runs[i] \in Run
            BY <1>3
        <2>. QED
            BY <2>1 DEF Run
    <1>2. Goto(i, label) = [runs EXCEPT ![i] = [runs[i] EXCEPT !.pc = label]]
        BY DEF Goto
    <1>. QED
        BY <1>1, <1>2, <1>3 DEF Run

(* A published message comes after the runs that are there.                *)
LEMMA AppendFacts ==
    ASSUME NEW r \in Seq(Run), NEW m \in Run
    PROVE  /\ Append(r, m) \in Seq(Run)
           /\ DOMAIN Append(r, m) = DOMAIN r \union {Len(r) + 1}
           /\ Append(r, m)[Len(r) + 1] = m
           /\ \A j \in DOMAIN r : Append(r, m)[j] = r[j]
    OBVIOUS

(* The chain begins with its first step, and nothing is stored.            *)
LEMMA InitInv == Init => Inv
    <1>. SUFFICES ASSUME Init PROVE Inv
        OBVIOUS
    <1>1. Message(1, 0) \in Run
        BY ChainAssumption DEF Message, Run, Step, Labels
    <1>2. runs \in Seq(Run) /\ Len(runs) = 1 /\ DOMAIN runs = {1} /\ runs[1] = Message(1, 0)
        BY <1>1 DEF Init
    <1>3. TypeOK
        <2>1. result \in [Step -> States] /\ children = {} /\ returned = {} /\ reported = {}
            BY DEF Init, States
        <2>2. dropped \in BOOLEAN /\ overtaken \in BOOLEAN /\ notified \in BOOLEAN
            BY DEF Init
        <2>3. replaced \in 0..MaxReplaced /\ crashes \in 0..MaxCrashes /\ faults \in 0..MaxFaults
            BY BoundFacts DEF Init
        <2>. QED
            BY <1>2, <2>1, <2>2, <2>3 DEF TypeOK
    <1>4. runs[1].step = 1 /\ runs[1].pc = "queued" /\ runs[1].at = 1
        BY <1>2 DEF Message
    <1>. QED
        BY <1>2, <1>3, <1>4 DEF Init, Inv, StepAfterReturn, SuccessIsPassedOn, After, Failing

(* A step that changes one run: what it must see to at its new place.      *)
LEMMA EntryInv ==
    ASSUME Inv, NEW i \in DOMAIN runs, NEW m \in Run,
           runs' = [runs EXCEPT ![i] = m], TypeOK',
           m.step = runs[i].step,
           returned \subseteq returned',
           \A s \in Step : result'[s] = "SUCCESS" =>
                \/ result[s] = "SUCCESS"
                \/ s \in returned /\ (s < Steps => Published(s)),
           \A s \in Step : result[s] = "SUCCESS" => result'[s] = "SUCCESS",
           m.pc \in After => m.step \in returned',
           m.pc \in After \ {"dispatch"} /\ m.step < Steps => Published(m.step),
           m.pc = "redispatch" => result[m.step] = "SUCCESS" /\ m.step < Steps,
           m.pc = "fail" => m.at \in Step,
           m.pc = "retry" => m.retries < MaxRetries,
           m.pc \notin Failing => m.at = m.step
    PROVE  Inv'
    <1>. USE DEF Inv
    <1>0. \A j \in DOMAIN runs : runs[j] \in Run
        BY DEF TypeOK
    <1>1. /\ DOMAIN runs' = DOMAIN runs
          /\ runs'[i] = m
          /\ \A j \in DOMAIN runs : j # i => runs'[j] = runs[j]
          /\ \A j \in DOMAIN runs : runs'[j].step = runs[j].step
        BY DEF TypeOK
    <1>2. \A s \in Step : Published(s)' <=> Published(s)
        BY <1>1 DEF Published
    <1>3. \A j \in DOMAIN runs : runs[j].step \in Step
        BY <1>0 DEF Run
    <1>4. StepAfterReturn'
        BY <1>1 DEF StepAfterReturn
    <1>5. SuccessIsPassedOn'
        BY <1>1, <1>2 DEF SuccessIsPassedOn, Published
    <1>6. ASSUME NEW j \in DOMAIN runs'
          PROVE  /\ runs'[j].pc \in After => runs'[j].step \in returned'
                 /\ runs'[j].pc \in After \ {"dispatch"} /\ runs'[j].step < Steps
                       => Published(runs[j].step)'
                 /\ runs'[j].pc = "redispatch" =>
                       result'[runs'[j].step] = "SUCCESS" /\ runs'[j].step < Steps
                 /\ runs'[j].pc = "fail" => runs'[j].at \in Step
                 /\ runs'[j].pc = "retry" => runs'[j].retries < MaxRetries
                 /\ runs'[j].pc \notin Failing => runs'[j].at = runs'[j].step
        <2>1. CASE j = i
            BY <1>1, <1>2, <1>3, <1>6, <2>1
        <2>2. CASE j # i
            BY <1>1, <1>2, <1>3, <1>6, <2>2
        <2>. QED
            BY <2>1, <2>2
    <1>. QED
        BY <1>1, <1>4, <1>5, <1>6 DEF Published

(* The same for a step that only moves a run on.                           *)
LEMMA MoveInv ==
    ASSUME Inv, NEW i \in DOMAIN runs, NEW label \in Labels,
           runs' = Goto(i, label), TypeOK',
           returned \subseteq returned',
           \A s \in Step : result'[s] = "SUCCESS" =>
                \/ result[s] = "SUCCESS"
                \/ s \in returned /\ (s < Steps => Published(s)),
           \A s \in Step : result[s] = "SUCCESS" => result'[s] = "SUCCESS",
           label \in After => runs[i].step \in returned',
           label \in After \ {"dispatch"} /\ runs[i].step < Steps
                => Published(runs[i].step),
           label = "redispatch" =>
                result[runs[i].step] = "SUCCESS" /\ runs[i].step < Steps,
           label = "fail" => runs[i].at \in Step,
           label = "retry" => runs[i].retries < MaxRetries,
           label \notin Failing => runs[i].at = runs[i].step
    PROVE  Inv'
    <1>1. runs[i] \in Run
        BY DEF Inv, TypeOK
    <1>. DEFINE m == [runs[i] EXCEPT !.pc = label]
    <1>2. m \in Run /\ m.pc = label /\ m.step = runs[i].step /\ m.at = runs[i].at
          /\ m.retries = runs[i].retries
        BY <1>1 DEF Run
    <1>3. runs' = [runs EXCEPT ![i] = m]
        BY DEF Goto
    <1>. HIDE DEF m
    <1>. QED
        BY <1>2, <1>3, EntryInv

(* A published message is preceded by a task that has returned.            *)
LEMMA PublishInv ==
    ASSUME Inv, NEW i \in DOMAIN runs, NEW label \in Labels,
           NEW s \in Step, NEW n \in 0..MaxRetries,
           runs' = Append(Goto(i, label), Message(s, n)), TypeOK',
           UNCHANGED returned,
           \A t \in Step : result'[t] = "SUCCESS" => result[t] = "SUCCESS",
           \A t \in Step : result[t] = "SUCCESS" => result'[t] = "SUCCESS",
           s > 1 => s - 1 \in returned,
           label \in {"store", "fail", "markretry", "done"},
           label = "store" => /\ runs[i].step \in returned /\ s = runs[i].step + 1
                              /\ runs[i].at = runs[i].step,
           label = "fail" => runs[i].at \in Step
    PROVE  Inv'
    <1>. USE DEF Inv
    <1>. DEFINE old == Goto(i, label)
                m == Message(s, n)
    <1>1. /\ old \in Seq(Run)
          /\ DOMAIN old = DOMAIN runs
          /\ \A j \in DOMAIN runs :
                /\ old[j].step = runs[j].step
                /\ old[j].retries = runs[j].retries
                /\ old[j].at = runs[j].at
                /\ old[j].pc = IF j = i THEN label ELSE runs[j].pc
        BY GotoFacts DEF TypeOK
    <1>2. m \in Run /\ m.step = s /\ m.pc = "queued" /\ m.at = s
        BY MessageFacts
    <1>. HIDE DEF old, m
    <1>3. PICK k : /\ DOMAIN runs' = DOMAIN runs \union {k}
                   /\ k \notin DOMAIN runs
                   /\ runs'[k] = m
                   /\ \A j \in DOMAIN runs : runs'[j] = old[j]
        <2>1. Len(old) + 1 \notin DOMAIN old
            BY <1>1
        <2>. QED
            BY <1>1, <1>2, <2>1, AppendFacts DEF old, m
    <1>4. \A j \in DOMAIN runs : runs[j].step \in Step
        <2>1. \A j \in DOMAIN runs : runs[j] \in Run
            BY DEF TypeOK
        <2>. QED
            BY <2>1 DEF Run
    <1>5. \A t \in Step : Published(t) => Published(t)'
        BY <1>1, <1>3 DEF Published
    <1>6. s > 1 => Published(s - 1)'
        BY <1>2, <1>3, BoundFacts DEF Published, Step
    <1>7. StepAfterReturn'
        BY <1>1, <1>2, <1>3 DEF StepAfterReturn
    <1>8. SuccessIsPassedOn'
        BY <1>5 DEF SuccessIsPassedOn, Published
    <1>9. ASSUME NEW j \in DOMAIN runs'
          PROVE  /\ runs'[j].pc \in After => runs'[j].step \in returned'
                 /\ runs'[j].pc \in After \ {"dispatch"} /\ runs'[j].step < Steps
                       => Published(runs[j].step)'
                 /\ runs'[j].pc = "redispatch" =>
                       result'[runs'[j].step] = "SUCCESS" /\ runs'[j].step < Steps
                 /\ runs'[j].pc = "fail" => runs'[j].at \in Step
                 /\ runs'[j].pc = "retry" => runs'[j].retries < MaxRetries
                 /\ runs'[j].pc \notin Failing => runs'[j].at = runs'[j].step
        <2>1. CASE j = k
            BY <1>2, <1>3, <2>1 DEF After, Failing
        <2>2. CASE j \in DOMAIN runs /\ j # i
            <3>1. runs'[j].step = runs[j].step /\ runs'[j].pc = runs[j].pc
                  /\ runs'[j].at = runs[j].at /\ runs'[j].retries = runs[j].retries
                BY <1>1, <1>3, <2>2
            <3>. QED
                BY <1>4, <1>5, <2>2, <3>1
        <2>3. CASE j = i
            <3>1. runs'[i].step = runs[i].step /\ runs'[i].pc = label
                  /\ runs'[i].at = runs[i].at
                BY <1>1, <1>3
            <3>2. label = "store" => Published(runs[i].step)'
                BY <1>2, <1>3, <3>1 DEF Published
            <3>. QED
                BY <1>4, <2>3, <3>1, <3>2 DEF After, Failing
        <2>. QED
            BY <1>3, <1>9, <2>1, <2>2, <2>3
    <1>. QED
        BY <1>1, <1>7, <1>8, <1>9 DEF Published

(* Every step of the tracer preserves the invariant.                       *)
LEMMA TraceInv ==
    ASSUME Inv, NEW i \in DOMAIN runs, Trace(i)
    PROVE  Inv'
    <1>. DEFINE s == runs[i].step
    <1>0. /\ runs \in Seq(Run) /\ runs[i] \in Run
          /\ s \in Step /\ runs[i].retries \in 0..MaxRetries
          /\ runs[i].at \in 1..Steps + 1
          /\ result \in [Step -> States]
        <2>1. runs \in Seq(Run) /\ result \in [Step -> States]
            BY DEF Inv, TypeOK
        <2>2. runs[i] \in Run
            BY <2>1
        <2>. QED
            BY <2>1, <2>2 DEF Run
    <1>a. ASSUME NEW label \in Labels
          PROVE  Goto(i, label) \in Seq(Run)
        BY <1>a, <1>0, GotoFacts
    <1>b. ASSUME NEW label \in Labels, NEW t \in Step, NEW n \in 0..MaxRetries
          PROVE  Append(Goto(i, label), Message(t, n)) \in Seq(Run)
        BY <1>a, <1>b, MessageFacts, AppendFacts
    <1>c. ASSUME NEW t \in Step, NEW state \in States
          PROVE  Store(t, state) \in [Step -> States]
        BY <1>0, <1>c DEF Store
    <1>d. /\ children \subseteq Step /\ returned \subseteq Step
          /\ reported \subseteq {"SUCCESS", "FAILURE"}
          /\ dropped \in BOOLEAN /\ overtaken \in BOOLEAN
          /\ notified \in BOOLEAN /\ replaced \in 0..MaxReplaced
          /\ crashes \in 0..MaxCrashes /\ faults \in 0..MaxFaults
        BY DEF Inv, TypeOK
    <1>e. Fault => faults' \in 0..MaxFaults
        BY <1>d, BoundFacts DEF Fault
    <1>. HIDE DEF s
    <1>1. CASE Receive(i)
        <2>1. TypeOK'
            BY <1>1, <1>0, <1>a, <1>d DEF Receive, TypeOK, countVars, storeVars, Labels
        <2>. QED
            BY <1>1, <2>1, MoveInv DEF Receive, storeVars, Labels, After, Failing, Inv
    <1>2. CASE Start(i)
        <2>1. TypeOK'
            BY <1>2, <1>0, <1>a, <1>c, <1>d, <1>e
            DEF Start, TypeOK, countVars, storeVars, Labels, States, s
        <2>2. runs[i].at = s
            BY <1>2 DEF Start, Inv, Failing, s
        <2>3. \E label \in {"body", "done", "redispatch"} : runs' = Goto(i, label)
                /\ (label = "redispatch" => result[s] = "SUCCESS" /\ s < Steps)
            BY <1>2 DEF Start, s
        <2>4. \A t \in Step : result'[t] = "SUCCESS" <=> result[t] = "SUCCESS"
            BY <1>2, <1>0 DEF Start, Store, States
        <2>. QED
            BY <1>2, <2>1, <2>2, <2>3, <2>4, MoveInv DEF Start, Labels, After, Failing, s
    <1>3. CASE Redispatch(i)
        <2>1. s < Steps /\ s + 1 \in Step /\ s \in returned /\ runs[i].at = s
            BY <1>3, <1>0, BoundFacts DEF Redispatch, Inv, SuccessIsPassedOn, Step, Failing, s
        <2>2. CASE runs' = Append(Goto(i, "done"), Message(s + 1, 0)) /\ UNCHANGED faults
            <3>2. s + 1 > 1 /\ (s + 1) - 1 \in returned /\ 0 \in 0..MaxRetries
                BY <1>0, <2>1, BoundFacts DEF Step
            <3>1. TypeOK'
                BY <1>3, <1>0, <1>b, <1>d, <2>1, <2>2, <3>2
                DEF Redispatch, TypeOK, countVars, storeVars, Labels
            <3>. QED
                BY <1>3, <2>1, <2>2, <3>1, <3>2, PublishInv DEF Redispatch, storeVars, Labels
        <2>3. CASE Fault /\ runs' = Goto(i, "queued")
            <3>1. TypeOK'
                BY <1>3, <1>0, <1>a, <1>d, <1>e, <2>3
                DEF Redispatch, TypeOK, countVars, storeVars, Labels
            <3>. QED
                BY <1>3, <2>1, <2>3, <3>1, MoveInv
                DEF Redispatch, storeVars, Labels, After, Failing, s
        <2>. QED
            BY <1>3, <2>2, <2>3 DEF Redispatch, s
    <1>4. CASE Body(i)
        <2>1. TypeOK'
            BY <1>4, <1>0, <1>a, <1>d, <1>e DEF Body, TypeOK, countVars, storeVars, Labels, s
        <2>2. runs[i].at = s
            BY <1>4 DEF Body, Inv, Failing, s
        <2>3. \E label \in {"dispatch", "fail", "retry", "done", "queued"} :
                 /\ runs' = Goto(i, label)
                 /\ label = "dispatch" => s \in returned'
                 /\ label = "retry" => runs[i].retries < MaxRetries
            BY <1>4 DEF Body, s
        <2>4. returned \subseteq returned' /\ UNCHANGED result
            BY <1>4 DEF Body, storeVars
        <2>. QED
            BY <1>0, <2>1, <2>2, <2>3, <2>4, MoveInv DEF Labels, After, Failing, s
    <1>5. CASE Retry(i)
        <2>1. runs[i].at = s /\ runs[i].retries < MaxRetries
            BY <1>5 DEF Retry, Inv, Failing, s
        <2>2. \A t \in Step : result'[t] = "SUCCESS" <=> result[t] = "SUCCESS"
            BY <1>5 DEF Retry, storeVars
        <2>3. CASE /\ runs' = Append(Goto(i, "markretry"), Message(s, runs[i].retries + 1))
                   /\ UNCHANGED <<dropped, faults>>
            <3>1. runs[i].retries + 1 \in 0..MaxRetries
                BY <1>0, <2>1, BoundFacts
            <3>2. TypeOK'
                BY <1>5, <1>0, <1>b, <1>d, <2>3, <3>1
                DEF Retry, TypeOK, countVars, storeVars, Labels
            <3>3. s > 1 => s - 1 \in returned
                BY DEF Inv, StepAfterReturn, s
            <3>. QED
                BY <1>5, <1>0, <2>2, <2>3, <3>1, <3>2, <3>3, PublishInv DEF Retry, Labels
        <2>4. CASE Fault /\ runs' = Goto(i, "done") /\ dropped' = TRUE
            <3>1. TypeOK'
                BY <1>5, <1>0, <1>a, <1>d, <1>e, <2>4
                DEF Retry, TypeOK, countVars, storeVars, Labels
            <3>. QED
                BY <1>5, <2>2, <2>4, <3>1, MoveInv DEF Retry, Labels, After, Failing
        <2>. QED
            BY <1>5, <2>3, <2>4 DEF Retry, s
    <1>6. CASE Dispatch(i)
        <2>1. runs[i].at = s /\ s \in returned
            BY <1>6 DEF Dispatch, Inv, After, Failing, s
        <2>2. PICK label \in {"store", "fail"} :
                 \/ runs' = Goto(i, label) /\ (label = "store" => s >= Steps)
                 \/ runs' = Append(Goto(i, label), Message(s + 1, 0)) /\ s < Steps
            BY <1>6, <1>0, BoundFacts DEF Dispatch, Step, s
        <2>3. UNCHANGED <<storeVars, returned, reported, dropped, overtaken, countVars>>
              /\ faults' \in 0..MaxFaults
            BY <1>6, <1>d, <1>e DEF Dispatch
        <2>4. CASE runs' = Goto(i, label) /\ (label = "store" => s >= Steps)
            <3>1. TypeOK'
                BY <1>0, <1>a, <1>d, <2>2, <2>3, <2>4 DEF TypeOK, countVars, storeVars, Labels
            <3>. QED
                BY <1>0, <2>1, <2>2, <2>3, <2>4, <3>1, MoveInv, BoundFacts
                DEF storeVars, Labels, After, Failing, Step, s
        <2>5. CASE runs' = Append(Goto(i, label), Message(s + 1, 0)) /\ s < Steps
            <3>0. s \in 1..Steps /\ s + 1 \in 1..Steps /\ (s + 1) - 1 = s /\ 0 \in 0..MaxRetries
                BY <1>0, <2>5, BoundFacts DEF Step
            <3>1. s + 1 \in Step /\ (s + 1) - 1 \in returned /\ 0 \in 0..MaxRetries
                BY <2>1, <3>0, Zenon DEF Step
            <3>2. TypeOK'
                BY <1>0, <1>b, <1>d, <2>2, <2>3, <2>5, <3>1 DEF TypeOK, countVars, storeVars,
                                                                Labels
            <3>. QED
                BY <1>0, <2>1, <2>2, <2>3, <2>5, <3>1, <3>2, PublishInv
                DEF storeVars, Labels, s
        <2>. QED
            BY <2>2, <2>4, <2>5
    <1>7. CASE StoreDone(i)
        <2>1. runs[i].at = s /\ s \in returned /\ (s < Steps => Published(s))
            BY <1>7 DEF StoreDone, Inv, After, Failing, s
        <2>2. result' \in [Step -> States] /\ children' \subseteq Step
            BY <1>7, <1>0, <1>c, <1>d DEF StoreDone, storeVars, States, s
        <2>3. TypeOK'
            BY <1>7, <1>a, <1>d, <1>e, <2>2 DEF StoreDone, TypeOK, countVars, Labels
        <2>4. \A t \in Step : /\ result'[t] = "SUCCESS" => result[t] = "SUCCESS" \/ t = s
                              /\ result[t] = "SUCCESS" => result'[t] = "SUCCESS"
            BY <1>7, <1>0 DEF StoreDone, Store, storeVars, s
        <2>5. \E label \in {"chord", "fail"} : runs' = Goto(i, label)
            BY <1>7 DEF StoreDone
        <2>6. UNCHANGED returned
            BY <1>7 DEF StoreDone
        <2>. QED
            BY <1>0, <2>1, <2>3, <2>4, <2>5, <2>6, MoveInv DEF Labels, After, Failing, s
    <1>8. CASE ChordDone(i)
        <2>1. TypeOK'
            BY <1>8, <1>0, <1>a, <1>d DEF ChordDone, TypeOK, countVars, storeVars, Labels
        <2>. QED
            BY <1>8, <1>0, <2>1, MoveInv DEF ChordDone, storeVars, Labels, After, Failing, Inv
    <1>9. CASE Post(i)
        <2>1. TypeOK'
            BY <1>9, <1>0, <1>a, <1>d, <1>e DEF Post, TypeOK, countVars, storeVars, Labels
        <2>2. runs[i].at = s
            BY <1>9 DEF Post, Inv, Failing, s
        <2>. QED
            BY <1>9, <1>0, <2>1, <2>2, MoveInv DEF Post, storeVars, Labels, After, Failing, s
    <1>10. CASE Fail(i)
        <2>. DEFINE k == runs[i].at
                    m == [runs[i] EXCEPT !.at = k + 1,
                                         !.pc = IF k = Steps THEN "failchord" ELSE @]
        <2>1. k \in Step
            BY <1>10 DEF Fail, Inv
        <2>2. /\ m \in Run /\ m.step = s /\ m.at = k + 1
              /\ m.pc = IF k = Steps THEN "failchord" ELSE "fail"
            <3>. DEFINE a == [runs[i] EXCEPT !.at = k + 1]
                        label == IF k = Steps THEN "failchord" ELSE "fail"
            <3>1. k + 1 \in 1..Steps + 1
                BY <2>1, BoundFacts DEF Step
            <3>2. a \in Run /\ a.step = s /\ a.at = k + 1
                BY <1>0, <3>1 DEF Run, s
            <3>3. m = [a EXCEPT !.pc = label]
                BY <1>10 DEF Fail
            <3>4. label \in Labels
                BY DEF Labels
            <3>. HIDE DEF a, m, label
            <3>5. m \in Run /\ m.step = s /\ m.at = k + 1 /\ m.pc = label
                BY <3>2, <3>3, <3>4 DEF Run
            <3>. QED
                BY <3>5 DEF label
        <2>3. runs' = [runs EXCEPT ![i] = m]
            BY <1>10 DEF Fail
        <2>. HIDE DEF m
        <2>4. runs' \in Seq(Run)
            BY <1>0, <2>2, <2>3
        <2>5. result' \in [Step -> States]
            BY <1>10, <1>c, <2>1 DEF Fail, States
        <2>6. TypeOK'
            BY <1>10, <1>d, <2>4, <2>5 DEF Fail, TypeOK, countVars
        <2>7. \A t \in Step : result'[t] = "SUCCESS" <=> result[t] = "SUCCESS"
            BY <1>10, <1>0, <2>1 DEF Fail, Store
        <2>8. k + 1 \in Step \/ k = Steps
            BY <2>1, BoundFacts DEF Step
        <2>. QED
            <3>1. m.pc \in {"fail", "failchord"} /\ (m.pc = "fail" => m.at \in Step)
                BY <2>2, <2>8
            <3>2. UNCHANGED returned /\ m.step = runs[i].step
                BY <1>10, <2>2 DEF Fail, s
            <3>. QED
                BY <2>2, <2>3, <2>6, <2>7, <3>1, <3>2, EntryInv DEF After, Failing
    <1>11. CASE FailChord(i)
        <2>1. TypeOK'
            BY <1>11, <1>0, <1>a, <1>d DEF FailChord, TypeOK, countVars, storeVars, Labels
        <2>. QED
            BY <1>11, <2>1, MoveInv DEF FailChord, storeVars, Labels, After, Failing
    <1>12. CASE Ack(i)
        <2>1. TypeOK'
            BY <1>12, <1>0, <1>a, <1>d DEF Ack, TypeOK, countVars, storeVars, Labels
        <2>. QED
            BY <1>12, <2>1, MoveInv DEF Ack, storeVars, Labels, After, Failing
    <1>13. CASE Replace(i)
        <2>1. runs[i].at = s /\ 0 \in 0..MaxRetries
            BY <1>13, BoundFacts DEF Replace, Inv, Failing, s
        <2>2. PICK label \in {"done", "fail"} :
                 \/ runs' = Append(Goto(i, label), Message(s, 0))
                 \/ runs' = Goto(i, label)
            BY <1>13 DEF Replace, s
        <2>3. /\ UNCHANGED <<storeVars, returned, reported, dropped, overtaken, notified, crashes>>
              /\ replaced' \in 0..MaxReplaced /\ faults' \in 0..MaxFaults
            BY <1>13, <1>d, <1>e, BoundFacts DEF Replace
        <2>4. CASE runs' = Append(Goto(i, label), Message(s, 0))
            <3>1. TypeOK'
                BY <1>0, <1>b, <1>d, <2>1, <2>2, <2>3, <2>4 DEF TypeOK, storeVars, Labels
            <3>2. s > 1 => s - 1 \in returned
                BY DEF Inv, StepAfterReturn, s
            <3>. QED
                BY <1>0, <2>1, <2>2, <2>3, <2>4, <3>1, <3>2, PublishInv DEF storeVars, Labels
        <2>5. CASE runs' = Goto(i, label)
            <3>1. TypeOK'
                BY <1>0, <1>a, <1>d, <2>2, <2>3, <2>5 DEF TypeOK, storeVars, Labels
            <3>. QED
                BY <1>0, <2>1, <2>2, <2>3, <2>5, <3>1, MoveInv
                DEF storeVars, Labels, After, Failing
        <2>. QED
            BY <2>2, <2>4, <2>5
    <1>14. CASE Errbacks(i)
        <2>1. TypeOK'
            BY <1>14, <1>0, <1>a, <1>d, <1>e DEF Errbacks, TypeOK, storeVars, Labels
        <2>. QED
            BY <1>14, <2>1, MoveInv DEF Errbacks, storeVars, Labels, After, Failing
    <1>15. CASE MarkRetry(i)
        <2>1. /\ runs' = Goto(i, "done") /\ result' = Store(s, "RETRY")
              /\ overtaken' = (overtaken \/ result[s] = "FAILURE")
              /\ UNCHANGED <<children, returned, reported, dropped, countVars, faults>>
            BY <1>15 DEF MarkRetry, s
        <2>2. overtaken' \in BOOLEAN
            BY <2>1
        <2>3. TypeOK'
            BY <1>0, <1>a, <1>c, <1>d, <2>1, <2>2 DEF TypeOK, countVars, Labels, States
        <2>4. \A t \in Step : result'[t] = "SUCCESS" <=> result[t] = "SUCCESS"
            BY <1>0, <2>1 DEF Store, States
        <2>. QED
            BY <2>1, <2>3, <2>4, MoveInv DEF Labels, After, Failing
    <1>. QED
        BY <1>1, <1>2, <1>3, <1>4, <1>5, <1>6, <1>7, <1>8, <1>9, <1>10, <1>11, <1>12,
           <1>13, <1>14, <1>15
        DEF Trace

(* So does the loss of a process: the message starts again.                *)
LEMMA CrashInv ==
    ASSUME Inv, NEW i \in DOMAIN runs, Crash(i)
    PROVE  Inv'
    <1>. DEFINE m == [runs[i] EXCEPT !.pc = "queued", !.at = runs[i].step,
                                     !.redelivered = TRUE]
    <1>1. runs \in Seq(Run) /\ runs[i] \in Run
        BY DEF Inv, TypeOK
    <1>2. m \in Run /\ m.step = runs[i].step /\ m.pc = "queued" /\ m.at = m.step
        <2>. DEFINE a == [runs[i] EXCEPT !.pc = "queued"]
                    b == [a EXCEPT !.at = runs[i].step]
        <2>1. a \in Run /\ a.step = runs[i].step /\ a.pc = "queued"
            BY <1>1 DEF Run, Labels
        <2>. HIDE DEF a
        <2>2. runs[i].step \in 1..Steps + 1
            BY <1>1, BoundFacts DEF Run, Step
        <2>3. b \in Run /\ b.step = runs[i].step /\ b.pc = "queued" /\ b.at = runs[i].step
            BY <2>1, <2>2 DEF Run
        <2>4. m = [b EXCEPT !.redelivered = TRUE]
            BY DEF a
        <2>. HIDE DEF b, m
        <2>. QED
            BY <2>3, <2>4 DEF Run
    <1>3. runs' = [runs EXCEPT ![i] = m]
        BY DEF Crash
    <1>. HIDE DEF m
    <1>4. runs' \in Seq(Run)
        BY <1>1, <1>2, <1>3
    <1>5. crashes' \in 0..MaxCrashes
        BY BoundFacts DEF Crash, Inv, TypeOK
    <1>6. TypeOK'
        BY <1>4, <1>5 DEF Crash, Inv, TypeOK, countVars, storeVars
    <1>. QED
        BY <1>2, <1>3, <1>6, EntryInv DEF Crash, storeVars, After, Failing

(* A step of the chain is published only after the task before it has      *)
(* returned, and the result of a task is SUCCESS only if it has returned   *)
(* and been followed (trace_task(), for every chain and every bound).      *)
THEOREM ChainSafety == Spec => [](TypeOK /\ StepAfterReturn /\ SuccessIsPassedOn)
    <1>1. Inv /\ [Next]_vars => Inv'
        <2>1. CASE UNCHANGED vars
            BY <2>1 DEF vars, storeVars, countVars, Inv, TypeOK, StepAfterReturn,
                        SuccessIsPassedOn,
                        Published
        <2>. QED
            BY <2>1, TraceInv, CrashInv DEF Next
    <1>2. Inv => TypeOK /\ StepAfterReturn /\ SuccessIsPassedOn
        BY DEF Inv
    <1>. QED
        BY <1>1, <1>2, InitInv, PTL DEF Spec

-----------------------------------------------------------------------------
(* Connections.  Whoever makes or prepares the session of Cassandra holds  *)
(* the lock, and but for the clusters that errors left, the session's is   *)
(* the only one open.  A thread of the database that is past get_engine    *)
(* has the engine of the manager, until threads collide.                   *)
Making == {"cluster", "connect", "prepare", "table"}
CassandraLabels == {"idle", "wait", "cluster", "connect", "prepare", "table", "use", "done"}
DatabaseLabels == {"idle", "engine", "maker", "read", "models", "use", "dispose", "done"}

ConnectionTypes ==
    /\ made \in Nat /\ session \in 0..made /\ cached \in 0..made
    /\ open \subseteq 1..made /\ left \subseteq 1..made
    /\ user \in [Threads -> [at : CassandraLabels \cup DatabaseLabels, engine : 0..made]]

CassandraInv ==
    /\ driver = "cassandra"
    /\ \A t \in Threads : user[t].at \in CassandraLabels
    /\ \A t \in Threads : user[t].at \in Making => mutex = {t}
    /\ \A t \in Threads : user[t].at \in {"cluster", "connect"} => session = 0
    /\ open \ left \subseteq {cached}
    /\ session # 0 => session = cached /\ session \in open \ left
    /\ session = 0 /\ (\A t \in Threads : user[t].at # "connect") => open \subseteq left
    /\ \A t \in Threads : user[t].at = "connect" => cached \in open \ left

DatabaseInv ==
    /\ driver = "database"
    /\ \A t \in Threads : user[t].at \in DatabaseLabels
    /\ \A t \in Threads : user[t].at \notin {"idle", "done"} => user[t].engine \in 1..made
    /\ ~ collided =>
          /\ session \in {0, cached}
          /\ \A t \in Threads : user[t].at \in {"maker", "read", "models", "use"} =>
                user[t].engine = cached /\ cached # 0
          /\ \A t \in Threads : user[t].at = "read" => session # 0
          /\ \A e \in open : e = cached
                \/ \E t \in Threads : user[t].at = "engine" /\ user[t].engine = e
          /\ "key_error" \notin used

ConnectingInv == ConnectionTypes /\ mutex \subseteq Threads /\ (CassandraInv \/ DatabaseInv)

(* The record of a thread after a step.                                    *)
LEMMA UserGoes ==
    ASSUME ConnectionTypes, NEW t \in Threads, made' \in Nat, made' >= made,
           NEW l \in CassandraLabels \cup DatabaseLabels, Connecting!Goto(t, l)
    PROVE  /\ user' \in [Threads -> [at : CassandraLabels \cup DatabaseLabels, engine : 0..made']]
           /\ user'[t].at = l /\ user'[t].engine = user[t].engine
           /\ \A u \in Threads \ {t} : user'[u] = user[u]
    <1>. DEFINE r == [user[t] EXCEPT !.at = l]
    <1>1. r \in [at : CassandraLabels \cup DatabaseLabels, engine : 0..made] /\ r.at = l
          /\ r.engine = user[t].engine
        BY DEF ConnectionTypes
    <1>2. user' = [user EXCEPT ![t] = r]
        BY DEF Connecting!Goto
    <1>3. 0..made \subseteq 0..made'
        BY DEF ConnectionTypes
    <1>. HIDE DEF r
    <1>. QED
        BY <1>1, <1>2, <1>3 DEF ConnectionTypes

(* The same, for a step that also chooses the engine.                      *)
LEMMA UserBecomes ==
    ASSUME ConnectionTypes, NEW t \in Threads, made' \in Nat, made' >= made,
           NEW l \in CassandraLabels \cup DatabaseLabels, NEW e \in 0..made',
           user' = [user EXCEPT ![t] = [at |-> l, engine |-> e]]
    PROVE  /\ user' \in [Threads -> [at : CassandraLabels \cup DatabaseLabels, engine : 0..made']]
           /\ user'[t].at = l /\ user'[t].engine = e
           /\ \A u \in Threads \ {t} : user'[u] = user[u]
    <1>1. 0..made \subseteq 0..made'
        BY DEF ConnectionTypes
    <1>. QED
        BY <1>1 DEF ConnectionTypes

(* Making a connection to Cassandra: only the holder of the lock makes a   *)
(* cluster, and when it times out it shuts that one down.                  *)
LEMMA CassandraStep ==
    ASSUME ConnectingInv, NEW t \in Threads,
           \/ Connecting!Check(t) \/ Connecting!Lock(t) \/ Connecting!MakeCluster(t)
           \/ Connecting!Connect(t) \/ Connecting!Prepare(t) \/ Connecting!CreateTable(t)
           \/ Connecting!TimedOut(t) \/ Connecting!OtherError(t)
    PROVE  ConnectingInv'
    <1>. USE DEF Connecting!None, Connecting!At
    <1>0. /\ made \in Nat /\ made >= made /\ made + 1 \in Nat /\ made + 1 >= made
          /\ ConnectionTypes /\ mutex \subseteq Threads
        BY DEF ConnectingInv, ConnectionTypes
    <1>1. CassandraInv
        BY DEF ConnectingInv, DatabaseInv, DatabaseLabels, Connecting!Check, Connecting!Lock,
               Connecting!MakeCluster, Connecting!Connect, Connecting!Prepare,
               Connecting!CreateTable, Connecting!TimedOut, Connecting!OtherError,
               Connecting!MayFail
    <1>. USE DEF CassandraLabels, DatabaseLabels, Making
    <1>2. CASE Connecting!Check(t)
        <2>. DEFINE l == IF session # 0 THEN "use" ELSE "wait"
        <2>1. Connecting!Goto(t, l) /\ UNCHANGED <<driver, mutex, session, cached, open, left, made>>
              /\ user[t].at = "idle"
            BY <1>2 DEF Connecting!Check
        <2>2. l \in {"use", "wait"}
            OBVIOUS
        <2>. HIDE DEF l
        <2>3. ConnectionTypes' /\ user'[t].at = l /\ \A u \in Threads \ {t} : user'[u] = user[u]
            BY <1>0, <2>1, <2>2, UserGoes DEF ConnectionTypes
        <2>4. CassandraInv'
            BY <1>1, <2>1, <2>2, <2>3 DEF CassandraInv
        <2>. QED
            BY <1>0, <2>1, <2>3, <2>4 DEF ConnectingInv
    <1>3. CASE Connecting!Lock(t)
        <2>1. PICK l \in {"use", "cluster"} :
                 /\ Connecting!Goto(t, l) /\ UNCHANGED <<driver, session, cached, open, left, made>>
                 /\ l = "use" => mutex' = mutex
                 /\ l = "cluster" => mutex = {} /\ mutex' = {t} /\ session = 0
            BY <1>3 DEF Connecting!Lock
        <2>2. user[t].at = "wait"
            BY <1>3 DEF Connecting!Lock
        <2>3. ConnectionTypes' /\ user'[t].at = l /\ \A u \in Threads \ {t} : user'[u] = user[u]
            BY <1>0, <2>1, UserGoes DEF ConnectionTypes
        <2>4. CassandraInv'
            BY <1>1, <2>1, <2>2, <2>3 DEF CassandraInv
        <2>. QED
            BY <1>0, <2>1, <2>3, <2>4 DEF ConnectingInv
    <1>4. CASE Connecting!MakeCluster(t)
        <2>1. /\ Connecting!Goto(t, "connect") /\ UNCHANGED <<driver, mutex, session, left>>
              /\ made' = made + 1 /\ open' = open \cup {made + 1} /\ cached' = made + 1
              /\ user[t].at = "cluster"
            BY <1>4 DEF Connecting!MakeCluster
        <2>2. /\ user' \in [Threads -> [at : CassandraLabels \cup DatabaseLabels, engine : 0..made']]
              /\ user'[t].at = "connect" /\ \A u \in Threads \ {t} : user'[u] = user[u]
            BY <1>0, <2>1, UserGoes
        <2>3. ConnectionTypes'
            BY <1>0, <2>1, <2>2 DEF ConnectionTypes
        <2>4. session = 0 /\ mutex = {t} /\ \A u \in Threads : user[u].at \in Making => u = t
            BY <1>1, <2>1 DEF CassandraInv
        <2>5. open \subseteq left /\ made + 1 \notin left
            BY <1>0, <1>1, <2>1, <2>4 DEF CassandraInv, ConnectionTypes
        <2>6. CassandraInv'
            BY <1>1, <2>1, <2>2, <2>4, <2>5 DEF CassandraInv
        <2>. QED
            BY <1>0, <2>1, <2>3, <2>6 DEF ConnectingInv
    <1>5. CASE Connecting!Connect(t)
        <2>1. /\ Connecting!Goto(t, "prepare") /\ UNCHANGED <<driver, mutex, cached, open, left, made>>
              /\ session' = cached /\ user[t].at = "connect"
            BY <1>5 DEF Connecting!Connect
        <2>2. ConnectionTypes' /\ user'[t].at = "prepare" /\ \A u \in Threads \ {t} : user'[u] = user[u]
            BY <1>0, <2>1, UserGoes DEF ConnectionTypes
        <2>3. /\ cached \in open \ left /\ cached # 0 /\ mutex = {t}
              /\ \A u \in Threads : user[u].at \in Making => u = t
            BY <1>0, <1>1, <2>1 DEF CassandraInv, ConnectionTypes
        <2>4. CassandraInv'
            BY <1>1, <2>1, <2>2, <2>3 DEF CassandraInv
        <2>. QED
            BY <1>0, <2>1, <2>2, <2>4 DEF ConnectingInv
    <1>6. CASE Connecting!Prepare(t)
        <2>1. /\ Connecting!Goto(t, "table")
              /\ UNCHANGED <<driver, mutex, session, cached, open, left, made>>
              /\ user[t].at = "prepare"
            BY <1>6 DEF Connecting!Prepare
        <2>2. ConnectionTypes' /\ user'[t].at = "table" /\ \A u \in Threads \ {t} : user'[u] = user[u]
            BY <1>0, <2>1, UserGoes DEF ConnectionTypes
        <2>3. CassandraInv'
            BY <1>1, <2>1, <2>2 DEF CassandraInv
        <2>. QED
            BY <1>0, <2>1, <2>2, <2>3 DEF ConnectingInv
    <1>7. CASE Connecting!CreateTable(t)
        <2>1. /\ Connecting!Goto(t, "use") /\ UNCHANGED <<driver, session, cached, open, left, made>>
              /\ mutex' = {} /\ user[t].at = "table"
            BY <1>7 DEF Connecting!CreateTable
        <2>2. ConnectionTypes' /\ user'[t].at = "use" /\ \A u \in Threads \ {t} : user'[u] = user[u]
            BY <1>0, <2>1, UserGoes DEF ConnectionTypes
        <2>3. CassandraInv'
            BY <1>1, <2>1, <2>2 DEF CassandraInv
        <2>. QED
            BY <1>0, <2>1, <2>2, <2>3 DEF ConnectingInv
    <1>8. CASE Connecting!TimedOut(t)
        <2>1. /\ Connecting!Goto(t, "idle") /\ UNCHANGED <<driver, left, made>>
              /\ open' = open \ {cached} /\ session' = 0 /\ cached' = 0
              /\ mutex' = {} /\ user[t].at \in {"cluster", "connect", "table"}
            BY <1>8 DEF Connecting!TimedOut, Connecting!MayFail
        <2>2. ConnectionTypes' /\ user'[t].at = "idle" /\ \A u \in Threads \ {t} : user'[u] = user[u]
            BY <1>0, <2>1, UserGoes DEF ConnectionTypes
        <2>3. open' \subseteq left /\ \A u \in Threads : user[u].at \in Making => u = t
            BY <1>1, <2>1 DEF CassandraInv
        <2>4. CassandraInv'
            BY <1>1, <2>1, <2>2, <2>3 DEF CassandraInv
        <2>. QED
            BY <1>0, <2>1, <2>2, <2>4 DEF ConnectingInv
    <1>9. CASE Connecting!OtherError(t)
        <2>1. /\ Connecting!Goto(t, "idle") /\ UNCHANGED <<driver, session, cached, open, made>>
              /\ left' = IF user[t].at = "connect" THEN left \cup {cached} ELSE left
              /\ mutex' = {} /\ user[t].at \in {"cluster", "connect", "table"}
            BY <1>9 DEF Connecting!OtherError, Connecting!MayFail
        <2>2. /\ user' \in [Threads -> [at : CassandraLabels \cup DatabaseLabels, engine : 0..made']]
              /\ user'[t].at = "idle" /\ \A u \in Threads \ {t} : user'[u] = user[u]
            BY <1>0, <2>1, UserGoes
        <2>3. \A u \in Threads : user[u].at \in Making => u = t
            BY <1>1, <2>1 DEF CassandraInv
        <2>4. CASE user[t].at = "connect"
            <3>1. session = 0 /\ cached \in open /\ open \subseteq left' /\ left' \subseteq left \cup open
                BY <1>1, <2>1, <2>4 DEF CassandraInv
            <3>2. ConnectionTypes'
                BY <1>0, <2>1, <2>2, <3>1 DEF ConnectionTypes
            <3>3. CassandraInv'
                BY <1>1, <2>1, <2>2, <2>3, <3>1 DEF CassandraInv
            <3>. QED
                BY <1>0, <2>1, <3>2, <3>3 DEF ConnectingInv
        <2>5. CASE user[t].at # "connect"
            <3>1. ConnectionTypes'
                BY <1>0, <2>1, <2>2, <2>5 DEF ConnectionTypes
            <3>2. CassandraInv'
                BY <1>1, <2>1, <2>2, <2>3, <2>5 DEF CassandraInv
            <3>. QED
                BY <1>0, <2>1, <3>1, <3>2 DEF ConnectingInv
        <2>. QED
            BY <2>4, <2>5
    <1>. QED
        BY <1>2, <1>3, <1>4, <1>5, <1>6, <1>7, <1>8, <1>9

(* The session manager of the database, whose steps may collide.           *)
LEMMA DatabaseStep ==
    ASSUME ConnectingInv, NEW t \in Threads,
           \/ Connecting!GetEngine(t) \/ Connecting!SetEngine(t) \/ Connecting!MakeSession(t)
           \/ Connecting!ReadSession(t) \/ Connecting!PrepareModels(t)
           \/ Connecting!Invalidate(t) \/ Connecting!Dispose(t)
    PROVE  ConnectingInv'
    <1>. USE DEF Connecting!None, Connecting!At
    <1>0. /\ made \in Nat /\ made >= made /\ made + 1 \in Nat /\ made + 1 >= made
          /\ ConnectionTypes /\ mutex \subseteq Threads
        BY DEF ConnectingInv, ConnectionTypes
    <1>1. DatabaseInv
        BY DEF ConnectingInv, CassandraInv, CassandraLabels, Connecting!GetEngine,
               Connecting!SetEngine, Connecting!MakeSession, Connecting!ReadSession,
               Connecting!PrepareModels, Connecting!Invalidate, Connecting!Dispose
    <1>. USE DEF CassandraLabels, DatabaseLabels
    <1>2. CASE Connecting!GetEngine(t) /\ cached # 0
        <2>1. /\ UNCHANGED <<driver, mutex, session, cached, open, left, collided, made, used>>
              /\ user' = [user EXCEPT ![t] = [at |-> "maker", engine |-> cached]]
              /\ user[t].at = "idle"
            BY <1>2 DEF Connecting!GetEngine
        <2>2. ConnectionTypes' /\ user'[t].at = "maker" /\ user'[t].engine = cached
              /\ \A u \in Threads \ {t} : user'[u] = user[u]
            BY <1>0, <2>1, UserBecomes DEF ConnectionTypes
        <2>3. cached \in 1..made
            BY <1>0, <1>2 DEF ConnectionTypes
        <2>4. DatabaseInv'
            BY <1>1, <1>2, <2>1, <2>2, <2>3 DEF DatabaseInv
        <2>. QED
            BY <1>0, <2>1, <2>2, <2>4 DEF ConnectingInv
    <1>3. CASE Connecting!GetEngine(t) /\ cached = 0
        <2>1. /\ UNCHANGED <<driver, mutex, session, cached, left, collided, used>>
              /\ user' = [user EXCEPT ![t] = [at |-> "engine", engine |-> made + 1]]
              /\ made' = made + 1 /\ open' = open \cup {made + 1} /\ user[t].at = "idle"
            BY <1>3 DEF Connecting!GetEngine
        <2>2. /\ user' \in [Threads -> [at : CassandraLabels \cup DatabaseLabels, engine : 0..made']]
              /\ user'[t].at = "engine" /\ user'[t].engine = made + 1
              /\ \A u \in Threads \ {t} : user'[u] = user[u]
            <3>1. made' \in Nat /\ made' >= made /\ made + 1 \in 0..made'
                BY <1>0, <2>1
            <3>2. "engine" \in CassandraLabels \cup DatabaseLabels
                OBVIOUS
            <3>. QED
                BY <1>0, <2>1, <3>1, <3>2, UserBecomes
        <2>3. ConnectionTypes' /\ 1..made \subseteq 1..made' /\ made + 1 \in 1..made'
            BY <1>0, <2>1, <2>2 DEF ConnectionTypes
        <2>4. DatabaseInv'
            BY <1>1, <2>1, <2>2, <2>3 DEF DatabaseInv
        <2>. QED
            BY <1>0, <2>1, <2>3, <2>4 DEF ConnectingInv
    <1>4. CASE Connecting!SetEngine(t)
        <2>1. /\ UNCHANGED <<driver, mutex, session, open, left, made, used>>
              /\ cached' = user[t].engine /\ (collided' <=> collided \/ cached # 0)
              /\ Connecting!Goto(t, "maker") /\ user[t].at = "engine"
            BY <1>4 DEF Connecting!SetEngine
        <2>2. /\ user' \in [Threads -> [at : CassandraLabels \cup DatabaseLabels, engine : 0..made']]
              /\ user'[t].at = "maker" /\ user'[t].engine = user[t].engine
              /\ \A u \in Threads \ {t} : user'[u] = user[u]
            BY <1>0, <2>1, UserGoes
        <2>3. user[t].engine \in 1..made
            BY <1>1, <2>1 DEF DatabaseInv
        <2>4. ConnectionTypes'
            BY <1>0, <2>1, <2>2, <2>3 DEF ConnectionTypes
        <2>5. ~ collided' => session = 0 /\ ~ collided /\ cached = 0
            BY <1>1, <2>1 DEF DatabaseInv
        <2>6. DatabaseInv'
            BY <1>0, <1>1, <2>1, <2>2, <2>3, <2>5 DEF DatabaseInv, ConnectionTypes
        <2>. QED
            BY <1>0, <2>1, <2>4, <2>6 DEF ConnectingInv
    <1>5. CASE Connecting!MakeSession(t)
        <2>1. /\ UNCHANGED <<driver, mutex, cached, open, left, collided, made, used>>
              /\ session' = IF session = 0 THEN user[t].engine ELSE session
              /\ Connecting!Goto(t, "read") /\ user[t].at = "maker"
            BY <1>5 DEF Connecting!MakeSession
        <2>2. ConnectionTypes' /\ user'[t].at = "read" /\ user'[t].engine = user[t].engine
              /\ \A u \in Threads \ {t} : user'[u] = user[u]
            BY <1>0, <2>1, UserGoes DEF ConnectionTypes
        <2>3. user[t].engine \in 1..made /\ session' # 0
            BY <1>0, <1>1, <2>1 DEF DatabaseInv, ConnectionTypes
        <2>4. DatabaseInv'
            BY <1>1, <2>1, <2>2, <2>3 DEF DatabaseInv
        <2>. QED
            BY <1>0, <2>1, <2>2, <2>4 DEF ConnectingInv
    <1>6. CASE Connecting!ReadSession(t) /\ session # 0
        <2>1. /\ UNCHANGED <<driver, mutex, session, cached, open, left, collided, made, used>>
              /\ user' = [user EXCEPT ![t] = [at |-> "models", engine |-> session]]
              /\ user[t].at = "read"
            BY <1>6 DEF Connecting!ReadSession
        <2>2. ConnectionTypes' /\ user'[t].at = "models" /\ user'[t].engine = session
              /\ \A u \in Threads \ {t} : user'[u] = user[u]
            BY <1>0, <2>1, UserBecomes DEF ConnectionTypes
        <2>3. session \in 1..made
            BY <1>0, <1>6 DEF ConnectionTypes
        <2>4. DatabaseInv'
            BY <1>1, <1>6, <2>1, <2>2, <2>3 DEF DatabaseInv
        <2>. QED
            BY <1>0, <2>1, <2>2, <2>4 DEF ConnectingInv
    <1>7. CASE Connecting!ReadSession(t) /\ session = 0
        <2>1. /\ UNCHANGED <<driver, mutex, session, cached, open, left, collided, made>>
              /\ user' = [user EXCEPT ![t] = [at |-> "done", engine |-> 0]]
              /\ user[t].at = "read"
            <3>1. [[at |-> "idle", engine |-> 0] EXCEPT !.at = "done"] = [at |-> "done", engine |-> 0]
                OBVIOUS
            <3>. QED
                BY <1>7, <3>1 DEF Connecting!ReadSession, Connecting!Done, Connecting!Idle
        <2>2. ConnectionTypes' /\ user'[t].at = "done" /\ \A u \in Threads \ {t} : user'[u] = user[u]
            BY <1>0, <2>1, UserBecomes DEF ConnectionTypes
        <2>3. collided /\ collided'
            BY <1>1, <1>7, <2>1 DEF DatabaseInv
        <2>4. DatabaseInv'
            BY <1>1, <2>1, <2>2, <2>3 DEF DatabaseInv
        <2>. QED
            BY <1>0, <2>1, <2>2, <2>4 DEF ConnectingInv
    <1>8. CASE Connecting!PrepareModels(t)
        <2>1. /\ UNCHANGED <<driver, mutex, session, cached, open, left, collided, made, used>>
              /\ Connecting!Goto(t, "use") /\ user[t].at = "models"
            BY <1>8 DEF Connecting!PrepareModels
        <2>2. ConnectionTypes' /\ user'[t].at = "use" /\ user'[t].engine = user[t].engine
              /\ \A u \in Threads \ {t} : user'[u] = user[u]
            BY <1>0, <2>1, UserGoes DEF ConnectionTypes
        <2>3. DatabaseInv'
            BY <1>1, <2>1, <2>2 DEF DatabaseInv
        <2>. QED
            BY <1>0, <2>1, <2>2, <2>3 DEF ConnectingInv
    <1>9. CASE Connecting!Invalidate(t)
        <2>1. /\ UNCHANGED <<driver, mutex, cached, open, left, made, used>> /\ session' = 0
              /\ (collided' <=> collided \/ Connecting!OthersBusy(t))
              /\ Connecting!Goto(t, "dispose") /\ user[t].at = "use"
            BY <1>9 DEF Connecting!Invalidate
        <2>2. ConnectionTypes' /\ user'[t].at = "dispose" /\ user'[t].engine = user[t].engine
              /\ \A u \in Threads \ {t} : user'[u] = user[u]
            BY <1>0, <2>1, UserGoes DEF ConnectionTypes
        <2>3. ~ collided' => ~ collided /\ \A u \in Threads \ {t} : user[u].at \in {"idle", "done"}
            BY <2>1 DEF Connecting!OthersBusy
        <2>4. DatabaseInv'
            BY <1>1, <2>1, <2>2, <2>3 DEF DatabaseInv
        <2>. QED
            BY <1>0, <2>1, <2>2, <2>4 DEF ConnectingInv
    <1>10. CASE Connecting!Dispose(t)
        <2>1. /\ UNCHANGED <<driver, mutex, session, left, made, used>> /\ cached' = 0
              /\ open' = open \ {cached}
              /\ (collided' <=> collided \/ session # 0 \/ Connecting!OthersBusy(t))
              /\ user' = [user EXCEPT ![t] = [at |-> "idle", engine |-> 0]] /\ user[t].at = "dispose"
            BY <1>10 DEF Connecting!Dispose, Connecting!Idle
        <2>2. ConnectionTypes' /\ user'[t].at = "idle" /\ \A u \in Threads \ {t} : user'[u] = user[u]
            BY <1>0, <2>1, UserBecomes DEF ConnectionTypes
        <2>3. ~ collided' => /\ ~ collided /\ session = 0
                             /\ \A u \in Threads \ {t} : user[u].at \in {"idle", "done"}
            BY <2>1 DEF Connecting!OthersBusy
        <2>4. ~ collided' => open' = {}
            BY <1>1, <2>1, <2>3 DEF DatabaseInv
        <2>5. DatabaseInv'
            BY <1>1, <2>1, <2>2, <2>3, <2>4 DEF DatabaseInv
        <2>. QED
            BY <1>0, <2>1, <2>2, <2>5 DEF ConnectingInv
    <1>. QED
        BY <1>2, <1>3, <1>4, <1>5, <1>6, <1>7, <1>8, <1>9, <1>10

(* Each step of a thread preserves the invariant.                          *)
LEMMA ConnectingStep ==
    ASSUME ConnectingInv, [Connecting!Next]_connectionVars
    PROVE  ConnectingInv'
    <1>1. ASSUME NEW t \in Threads, Connecting!Use(t) PROVE ConnectingInv'
        <2>0. /\ made \in Nat /\ made >= made /\ ConnectionTypes /\ mutex \subseteq Threads
            BY DEF ConnectingInv, ConnectionTypes
        <2>1. /\ user' = [user EXCEPT ![t] = [at |-> "done", engine |-> 0]]
              /\ UNCHANGED <<driver, mutex, session, cached, left, collided, made>>
              /\ open' = IF driver = "database" THEN open \cup {user[t].engine} ELSE open
              /\ user[t].at = "use"
            <3>1. [[at |-> "idle", engine |-> 0] EXCEPT !.at = "done"] = [at |-> "done", engine |-> 0]
                OBVIOUS
            <3>. QED
                BY <1>1, <3>1 DEF Connecting!Use, Connecting!Idle, Connecting!Done, Connecting!None,
                                  Connecting!At
        <2>2. /\ user' \in [Threads -> [at : CassandraLabels \cup DatabaseLabels, engine : 0..made']]
              /\ user'[t].at = "done" /\ \A u \in Threads \ {t} : user'[u] = user[u]
            <3>1. made' \in Nat /\ made' >= made /\ 0 \in 0..made'
                BY <2>0, <2>1
            <3>2. "done" \in CassandraLabels \cup DatabaseLabels
                BY DEF CassandraLabels
            <3>. QED
                BY <2>0, <2>1, <3>1, <3>2, UserBecomes
        <2>3. CASE CassandraInv
            <3>1. driver = "cassandra" /\ open' = open
                BY <2>1, <2>3 DEF CassandraInv
            <3>2. ConnectionTypes'
                BY <2>0, <2>1, <2>2, <3>1 DEF ConnectionTypes
            <3>3. CassandraInv'
                BY <2>1, <2>2, <2>3, <3>1 DEF CassandraInv, CassandraLabels, Making
            <3>. QED
                BY <2>0, <2>1, <3>2, <3>3 DEF ConnectingInv
        <2>4. CASE DatabaseInv
            <3>1. open' = open \cup {user[t].engine} /\ user[t].engine \in 1..made
                BY <2>1, <2>4 DEF DatabaseInv
            <3>2. ConnectionTypes'
                BY <2>0, <2>1, <2>2, <3>1 DEF ConnectionTypes
            <3>3. "key_error" \notin used => "key_error" \notin used'
                BY <1>1 DEF Connecting!Use
            <3>4. DatabaseInv'
                BY <2>1, <2>2, <2>4, <3>1, <3>3 DEF DatabaseInv, DatabaseLabels
            <3>. QED
                BY <2>0, <2>1, <3>2, <3>4 DEF ConnectingInv
        <2>. QED
            BY <2>3, <2>4 DEF ConnectingInv
    <1>2. CASE UNCHANGED connectionVars
        BY <1>2 DEF connectionVars, ConnectingInv, ConnectionTypes, CassandraInv, DatabaseInv
    <1>. QED
        BY <1>1, <1>2, CassandraStep, DatabaseStep DEF Connecting!Next

(* The invariant holds before the first thread asks.                       *)
LEMMA ConnectingInit == ASSUME Connecting!Init PROVE ConnectingInv
    BY DEF Connecting!Init, Connecting!Idle, Connecting!None, ConnectingInv, ConnectionTypes,
           CassandraInv, DatabaseInv, Making, CassandraLabels, DatabaseLabels

(* The invariant says that no cluster or engine is open besides the one    *)
(* the backend uses, the disclosed cases apart.                            *)
LEMMA ConnectingRight == ASSUME ConnectingInv PROVE Connecting!ConnectedOnce
    <1>1. Connecting!TypeOK
        BY DEF ConnectingInv, ConnectionTypes, Connecting!TypeOK
    <1>2. CASE CassandraInv
        <2>1. mutex = {} => \A t \in Threads : user[t].at # "connect"
            BY <1>2 DEF CassandraInv, Making
        <2>2. Connecting!OneCluster
            BY <1>2, <2>1 DEF CassandraInv, Connecting!OneCluster, Connecting!None
        <2>3. Connecting!OneEngine
            BY <1>2 DEF CassandraInv, Connecting!OneEngine
        <2>. QED
            BY <1>1, <2>2, <2>3 DEF Connecting!ConnectedOnce
    <1>3. CASE DatabaseInv
        <2>1. Connecting!OneCluster
            BY <1>3 DEF DatabaseInv, Connecting!OneCluster
        <2>2. Connecting!OneEngine
            BY <1>3 DEF DatabaseInv, Connecting!OneEngine, Connecting!None, Connecting!At
        <2>. QED
            BY <1>1, <2>1, <2>2 DEF Connecting!ConnectedOnce
    <1>. QED
        BY <1>2, <1>3 DEF ConnectingInv

-----------------------------------------------------------------------------
(* DynamoTable.  A table that is not active yet has Time to Live switched  *)
(* off, and has been asked for by a process that waits for it.             *)
TtlStates == {"ENABLING", "ENABLED", "DISABLING", "DISABLED"}

TableTypes ==
    /\ want \in [Threads -> {"on", "off", "ignore"}]
    /\ given \in [Threads -> BOOLEAN] /\ methods \in BOOLEAN
    /\ Setup!TypeOK

NewTable ==
    /\ table # "ACTIVE" => ttl = "DISABLED"
    /\ \A p \in Threads : setup[p] \in {"wait", "look", "update"} => table # "none"
    /\ \A p \in Threads : setup[p] = "raised" => ~ clean[p]
    /\ \A p \in Threads : setup[p] \in {"look", "update"} => want[p] # "ignore"
    /\ \A p \in Threads : setup[p] = "update" => ~ Setup!AsWanted(p, seen[p])

(* What every process wants.                                               *)
All(w) == \A p \in Threads : want[p] = w

(* All want Time to Live on: nobody switches it off.                       *)
NoneDisables ==
    All("on") => \A p \in Threads :
        /\ setup[p] = "update" /\ seen[p].status = "ENABLED" => ttl = "ENABLED"
        /\ setup[p] = "update" /\ ttl = "DISABLING" => seen[p].status = "DISABLING"

NoneEnables ==
    All("off") => \A p \in Threads :
        setup[p] = "update" /\ seen[p].status = "ENABLED" =>
           ttl \in Setup!Off \/ (ttl = "ENABLED" /\ attr = seen[p].attr)

CleanInv ==
    \A w \in {"on", "off"} : All(w) =>
        \A p \in Threads : setup[p] = "ready" /\ clean[p] => Setup!Has(p)

(* A process that is still to switch it on will be let to.                 *)
WillEnable(c) ==
    /\ ttl = "DISABLED"
    /\ setup[c] = "wait" \/ (table = "ACTIVE" /\ setup[c] \in {"look", "update"})

WillBeOn == ttl \in Setup!On \/ \E c \in Threads : WillEnable(c)

(* The process found Time to Live in between, and not as it wants it.      *)
Unsettled(p) ==
    seen[p].status \in {"ENABLING", "DISABLING"} /\ ~ Setup!AsWanted(p, seen[p])

Quiet == methods /\ died = 0 /\ errors = 0

ProgressOn ==
    Quiet /\ All("on") =>
       /\ table = "CREATING" => \E c \in Threads : setup[c] = "wait"
       /\ \A p \in Threads : setup[p] = "create" => table = "none" \/ WillBeOn
       /\ \A p \in Threads : setup[p] \in {"raised", "ready"} => WillBeOn \/ Unsettled(p)

ProgressOff ==
    Quiet /\ All("off") =>
       /\ \A p \in Threads : setup[p] = "create" => ttl \in Setup!Off
       /\ \A p \in Threads : setup[p] \in {"raised", "ready"} => ttl \in Setup!Off \/ Unsettled(p)

SetupInv ==
    TableTypes /\ NewTable /\ NoneDisables /\ NoneEnables /\ CleanInv /\ ProgressOn /\ ProgressOff

(* The variables of a setup keep their types.                              *)
LEMMA TableTypesStep ==
    ASSUME Setup!DynamoConstants, TableTypes, [Setup!Next]_tableVars
    PROVE  TableTypes'
    <1>. USE DEF TableTypes, Setup!TypeOK, Setup!On, Setup!Off, Setup!Description, Setup!config,
                 Setup!serverVars, Setup!DynamoConstants
    <1>1. ASSUME NEW p \in Threads, Setup!DescribeTable(p) PROVE TableTypes'
        BY <1>1 DEF Setup!DescribeTable, Setup!AfterTable, Setup!Goto, Setup!Raise
    <1>2. ASSUME NEW p \in Threads, Setup!CreateTable(p) PROVE TableTypes'
        BY <1>2 DEF Setup!CreateTable, Setup!Goto, Setup!Raise
    <1>3. ASSUME NEW p \in Threads, Setup!WaitForTableStatus(p) PROVE TableTypes'
        BY <1>3 DEF Setup!WaitForTableStatus, Setup!AfterTable, Setup!Goto, Setup!Raise
    <1>4. ASSUME NEW p \in Threads, Setup!DescribeTimeToLive(p) PROVE TableTypes'
        BY <1>4 DEF Setup!DescribeTimeToLive, Setup!Goto
    <1>5. ASSUME NEW p \in Threads, Setup!UpdateTimeToLive(p) PROVE TableTypes'
        BY <1>5 DEF Setup!UpdateTimeToLive, Setup!Goto, Setup!Raise, Setup!Accepts,
                    Setup!AttributeName
    <1>6. ASSUME NEW p \in Threads, Setup!UseAnyway(p) PROVE TableTypes'
        BY <1>6 DEF Setup!UseAnyway, Setup!Goto
    <1>7. ASSUME NEW p \in Threads, Setup!CallFails(p) PROVE TableTypes'
        BY <1>7 DEF Setup!CallFails, Setup!Raise
    <1>8. ASSUME NEW p \in Threads, Setup!Crash(p) PROVE TableTypes'
        BY <1>8 DEF Setup!Crash
    <1>9. ASSUME Setup!Server PROVE TableTypes'
        BY <1>9 DEF Setup!Server
    <1>10. CASE UNCHANGED tableVars
        BY <1>10 DEF tableVars
    <1>. HIDE DEF TableTypes, Setup!TypeOK, Setup!On, Setup!Off, Setup!Description,
                  Setup!config, Setup!serverVars, Setup!DynamoConstants
    <1>. QED
        BY <1>1, <1>2, <1>3, <1>4, <1>5, <1>6, <1>7, <1>8, <1>9, <1>10
        DEF Setup!Next, Setup!Step

(* A table gets its Time to Live only when it is active, and a process     *)
(* updates it only when it saw it otherwise.                               *)
LEMMA NewTableStep ==
    ASSUME Setup!DynamoConstants, TableTypes, NewTable, [Setup!Next]_tableVars
    PROVE  NewTable'
    <1>. USE DEF TableTypes, Setup!TypeOK, Setup!On, Setup!Off, Setup!Description, Setup!config,
                 Setup!serverVars, NewTable, Setup!AsWanted
    <1>1. ASSUME NEW p \in Threads, Setup!DescribeTable(p) PROVE NewTable'
        BY <1>1 DEF Setup!DescribeTable, Setup!AfterTable, Setup!Goto, Setup!Raise
    <1>2. ASSUME NEW p \in Threads, Setup!CreateTable(p) PROVE NewTable'
        BY <1>2 DEF Setup!CreateTable, Setup!Goto, Setup!Raise
    <1>3. ASSUME NEW p \in Threads, Setup!WaitForTableStatus(p) PROVE NewTable'
        BY <1>3 DEF Setup!WaitForTableStatus, Setup!AfterTable, Setup!Goto, Setup!Raise
    <1>4. ASSUME NEW p \in Threads, Setup!DescribeTimeToLive(p) PROVE NewTable'
        BY <1>4 DEF Setup!DescribeTimeToLive, Setup!Goto
    <1>5. ASSUME NEW p \in Threads, Setup!UpdateTimeToLive(p) PROVE NewTable'
        BY <1>5 DEF Setup!UpdateTimeToLive, Setup!Goto, Setup!Raise, Setup!Accepts,
                    Setup!AttributeName
    <1>6. ASSUME NEW p \in Threads, Setup!UseAnyway(p) PROVE NewTable'
        BY <1>6 DEF Setup!UseAnyway, Setup!Goto
    <1>7. ASSUME NEW p \in Threads, Setup!CallFails(p) PROVE NewTable'
        BY <1>7 DEF Setup!CallFails, Setup!Raise
    <1>8. ASSUME NEW p \in Threads, Setup!Crash(p) PROVE NewTable'
        BY <1>8 DEF Setup!Crash
    <1>9. ASSUME Setup!Server PROVE NewTable'
        BY <1>9 DEF Setup!Server
    <1>10. CASE UNCHANGED tableVars
        BY <1>10 DEF tableVars
    <1>. HIDE DEF TableTypes, Setup!TypeOK, Setup!On, Setup!Off, Setup!Description,
                  Setup!config, Setup!serverVars, NewTable, Setup!AsWanted
    <1>. QED
        BY <1>1, <1>2, <1>3, <1>4, <1>5, <1>6, <1>7, <1>8, <1>9, <1>10
        DEF Setup!Next, Setup!Step

(* Among processes that want it on, an update switches nothing off.        *)
LEMMA NoneDisablesStep ==
    ASSUME Setup!DynamoConstants, TableTypes, NewTable, NoneDisables, [Setup!Next]_tableVars
    PROVE  NoneDisables'
    <1>. USE DEF TableTypes, Setup!TypeOK, Setup!On, Setup!Off, Setup!Description, Setup!config,
                 Setup!serverVars, NewTable, NoneDisables, All, Setup!AsWanted
    <1>1. ASSUME NEW p \in Threads, Setup!DescribeTable(p) PROVE NoneDisables'
        BY <1>1 DEF Setup!DescribeTable, Setup!AfterTable, Setup!Goto, Setup!Raise
    <1>2. ASSUME NEW p \in Threads, Setup!CreateTable(p) PROVE NoneDisables'
        BY <1>2 DEF Setup!CreateTable, Setup!Goto, Setup!Raise
    <1>3. ASSUME NEW p \in Threads, Setup!WaitForTableStatus(p) PROVE NoneDisables'
        BY <1>3 DEF Setup!WaitForTableStatus, Setup!AfterTable, Setup!Goto, Setup!Raise
    <1>4. ASSUME NEW p \in Threads, Setup!DescribeTimeToLive(p) PROVE NoneDisables'
        BY <1>4 DEF Setup!DescribeTimeToLive, Setup!Goto
    <1>5. ASSUME NEW p \in Threads, Setup!UpdateTimeToLive(p) PROVE NoneDisables'
        BY <1>5 DEF Setup!UpdateTimeToLive, Setup!Goto, Setup!Raise, Setup!Accepts,
                    Setup!AttributeName
    <1>6. ASSUME NEW p \in Threads, Setup!UseAnyway(p) PROVE NoneDisables'
        BY <1>6 DEF Setup!UseAnyway, Setup!Goto
    <1>7. ASSUME NEW p \in Threads, Setup!CallFails(p) PROVE NoneDisables'
        BY <1>7 DEF Setup!CallFails, Setup!Raise
    <1>8. ASSUME NEW p \in Threads, Setup!Crash(p) PROVE NoneDisables'
        BY <1>8 DEF Setup!Crash
    <1>9. ASSUME Setup!Server PROVE NoneDisables'
        BY <1>9 DEF Setup!Server
    <1>10. CASE UNCHANGED tableVars
        BY <1>10 DEF tableVars
    <1>. HIDE DEF TableTypes, Setup!TypeOK, Setup!On, Setup!Off, Setup!Description,
                  Setup!config, Setup!serverVars, NewTable, NoneDisables, All, Setup!AsWanted
    <1>. QED
        BY <1>1, <1>2, <1>3, <1>4, <1>5, <1>6, <1>7, <1>8, <1>9, <1>10
        DEF Setup!Next, Setup!Step

(* Among processes that want it off, an update switches nothing on.        *)
LEMMA NoneEnablesStep ==
    ASSUME Setup!DynamoConstants, TableTypes, NewTable, NoneEnables, [Setup!Next]_tableVars
    PROVE  NoneEnables'
    <1>. USE DEF TableTypes, Setup!TypeOK, Setup!On, Setup!Off, Setup!Description, Setup!config,
                 Setup!serverVars, NewTable, NoneEnables, All, Setup!AsWanted
    <1>1. ASSUME NEW p \in Threads, Setup!DescribeTable(p) PROVE NoneEnables'
        BY <1>1 DEF Setup!DescribeTable, Setup!AfterTable, Setup!Goto, Setup!Raise
    <1>2. ASSUME NEW p \in Threads, Setup!CreateTable(p) PROVE NoneEnables'
        BY <1>2 DEF Setup!CreateTable, Setup!Goto, Setup!Raise
    <1>3. ASSUME NEW p \in Threads, Setup!WaitForTableStatus(p) PROVE NoneEnables'
        BY <1>3 DEF Setup!WaitForTableStatus, Setup!AfterTable, Setup!Goto, Setup!Raise
    <1>4. ASSUME NEW p \in Threads, Setup!DescribeTimeToLive(p) PROVE NoneEnables'
        BY <1>4 DEF Setup!DescribeTimeToLive, Setup!Goto
    <1>5. ASSUME NEW p \in Threads, Setup!UpdateTimeToLive(p) PROVE NoneEnables'
        BY <1>5 DEF Setup!UpdateTimeToLive, Setup!Goto, Setup!Raise, Setup!Accepts,
                    Setup!AttributeName
    <1>6. ASSUME NEW p \in Threads, Setup!UseAnyway(p) PROVE NoneEnables'
        BY <1>6 DEF Setup!UseAnyway, Setup!Goto
    <1>7. ASSUME NEW p \in Threads, Setup!CallFails(p) PROVE NoneEnables'
        BY <1>7 DEF Setup!CallFails, Setup!Raise
    <1>8. ASSUME NEW p \in Threads, Setup!Crash(p) PROVE NoneEnables'
        BY <1>8 DEF Setup!Crash
    <1>9. ASSUME Setup!Server PROVE NoneEnables'
        BY <1>9 DEF Setup!Server
    <1>10. CASE UNCHANGED tableVars
        BY <1>10 DEF tableVars
    <1>. HIDE DEF TableTypes, Setup!TypeOK, Setup!On, Setup!Off, Setup!Description,
                  Setup!config, Setup!serverVars, NewTable, NoneEnables, All, Setup!AsWanted
    <1>. QED
        BY <1>1, <1>2, <1>3, <1>4, <1>5, <1>6, <1>7, <1>8, <1>9, <1>10
        DEF Setup!Next, Setup!Step

(* A process that went through without a warning leaves the table as it    *)
(* wants it, and nobody of its mind takes that back.                       *)
LEMMA CleanStep ==
    ASSUME Setup!DynamoConstants, TableTypes, NewTable, NoneDisables, NoneEnables, CleanInv,
           [Setup!Next]_tableVars
    PROVE  CleanInv'
    <1>. USE DEF TableTypes, Setup!TypeOK, Setup!On, Setup!Off, Setup!Description, Setup!config,
                 Setup!serverVars, NewTable, NoneDisables, CleanInv, All, Setup!AsWanted,
                 Setup!Has
    <1>1. ASSUME NEW p \in Threads, Setup!DescribeTable(p) PROVE CleanInv'
        BY <1>1 DEF Setup!DescribeTable, Setup!AfterTable, Setup!Goto, Setup!Raise
    <1>2. ASSUME NEW p \in Threads, Setup!CreateTable(p) PROVE CleanInv'
        BY <1>2 DEF Setup!CreateTable, Setup!Goto, Setup!Raise
    <1>3. ASSUME NEW p \in Threads, Setup!WaitForTableStatus(p) PROVE CleanInv'
        BY <1>3 DEF Setup!WaitForTableStatus, Setup!AfterTable, Setup!Goto, Setup!Raise
    <1>4. ASSUME NEW p \in Threads, Setup!DescribeTimeToLive(p) PROVE CleanInv'
        BY <1>4 DEF Setup!DescribeTimeToLive, Setup!Goto
    <1>5. ASSUME NEW p \in Threads, Setup!UpdateTimeToLive(p) PROVE CleanInv'
        BY <1>5 DEF Setup!UpdateTimeToLive, Setup!Goto, Setup!Raise, Setup!Accepts,
                    Setup!AttributeName
    <1>6. ASSUME NEW p \in Threads, Setup!UseAnyway(p) PROVE CleanInv'
        BY <1>6 DEF Setup!UseAnyway, Setup!Goto
    <1>7. ASSUME NEW p \in Threads, Setup!CallFails(p) PROVE CleanInv'
        BY <1>7 DEF Setup!CallFails, Setup!Raise
    <1>8. ASSUME NEW p \in Threads, Setup!Crash(p) PROVE CleanInv'
        BY <1>8 DEF Setup!Crash
    <1>9. ASSUME Setup!Server PROVE CleanInv'
        BY <1>9 DEF Setup!Server
    <1>10. CASE UNCHANGED tableVars
        BY <1>10 DEF tableVars
    <1>. HIDE DEF TableTypes, Setup!TypeOK, Setup!On, Setup!Off, Setup!Description,
                  Setup!config, Setup!serverVars, NewTable, NoneDisables, CleanInv, All,
                  Setup!AsWanted, Setup!Has
    <1>. QED
        BY <1>1, <1>2, <1>3, <1>4, <1>5, <1>6, <1>7, <1>8, <1>9, <1>10
        DEF Setup!Next, Setup!Step

(* Without a fault, a process that is through leaves it off, or has found  *)
(* it in between.                                                          *)
LEMMA ProgressOffStep ==
    ASSUME Setup!DynamoConstants, TableTypes, NewTable, NoneEnables, ProgressOff,
           [Setup!Next]_tableVars
    PROVE  ProgressOff'
    <1>. USE DEF TableTypes, Setup!TypeOK, Setup!On, Setup!Off, Setup!Description, Setup!config,
                 Setup!serverVars, NewTable, NoneEnables, ProgressOff, All, Setup!AsWanted,
                 Quiet, Unsettled
    <1>1. ASSUME NEW p \in Threads, Setup!DescribeTable(p) PROVE ProgressOff'
        BY <1>1 DEF Setup!DescribeTable, Setup!AfterTable, Setup!Goto, Setup!Raise
    <1>2. ASSUME NEW p \in Threads, Setup!CreateTable(p) PROVE ProgressOff'
        BY <1>2 DEF Setup!CreateTable, Setup!Goto, Setup!Raise
    <1>3. ASSUME NEW p \in Threads, Setup!WaitForTableStatus(p) PROVE ProgressOff'
        BY <1>3 DEF Setup!WaitForTableStatus, Setup!AfterTable, Setup!Goto, Setup!Raise
    <1>4. ASSUME NEW p \in Threads, Setup!DescribeTimeToLive(p) PROVE ProgressOff'
        BY <1>4 DEF Setup!DescribeTimeToLive, Setup!Goto
    <1>5. ASSUME NEW p \in Threads, Setup!UpdateTimeToLive(p) PROVE ProgressOff'
        BY <1>5 DEF Setup!UpdateTimeToLive, Setup!Goto, Setup!Raise, Setup!Accepts,
                    Setup!AttributeName
    <1>6. ASSUME NEW p \in Threads, Setup!UseAnyway(p) PROVE ProgressOff'
        BY <1>6 DEF Setup!UseAnyway, Setup!Goto
    <1>7. ASSUME NEW p \in Threads, Setup!CallFails(p) PROVE ProgressOff'
        BY <1>7 DEF Setup!CallFails, Setup!Raise
    <1>8. ASSUME NEW p \in Threads, Setup!Crash(p) PROVE ProgressOff'
        BY <1>8 DEF Setup!Crash
    <1>9. ASSUME Setup!Server PROVE ProgressOff'
        BY <1>9 DEF Setup!Server
    <1>10. CASE UNCHANGED tableVars
        BY <1>10 DEF tableVars
    <1>. HIDE DEF TableTypes, Setup!TypeOK, Setup!On, Setup!Off, Setup!Description,
                  Setup!config, Setup!serverVars, NewTable, NoneEnables, ProgressOff, All,
                  Setup!AsWanted, Quiet, Unsettled
    <1>. QED
        BY <1>1, <1>2, <1>3, <1>4, <1>5, <1>6, <1>7, <1>8, <1>9, <1>10
        DEF Setup!Next, Setup!Step

(* Without a fault, a process that is through leaves it on or leaves it to *)
(* one that is still to switch it on, or has found it in between.          *)
LEMMA ProgressOnStep ==
    ASSUME Setup!DynamoConstants, TableTypes, NewTable, NoneDisables, ProgressOn,
           [Setup!Next]_tableVars
    PROVE  ProgressOn'
    <1>. USE DEF TableTypes, Setup!TypeOK, Setup!On, Setup!Off, Setup!Description, Setup!config,
                 Setup!serverVars, NewTable, NoneDisables, ProgressOn, All, Setup!AsWanted,
                 Quiet, Unsettled, WillBeOn, WillEnable
    <1>1. ASSUME NEW p \in Threads, Setup!DescribeTable(p) PROVE ProgressOn'
        BY <1>1 DEF Setup!DescribeTable, Setup!AfterTable, Setup!Goto, Setup!Raise
    <1>2. ASSUME NEW p \in Threads, Setup!CreateTable(p) PROVE ProgressOn'
        BY <1>2 DEF Setup!CreateTable, Setup!Goto, Setup!Raise
    <1>3. ASSUME NEW p \in Threads, Setup!WaitForTableStatus(p) PROVE ProgressOn'
        BY <1>3 DEF Setup!WaitForTableStatus, Setup!AfterTable, Setup!Goto, Setup!Raise
    <1>4. ASSUME NEW p \in Threads, Setup!DescribeTimeToLive(p) PROVE ProgressOn'
        BY <1>4 DEF Setup!DescribeTimeToLive, Setup!Goto
    <1>5. ASSUME NEW p \in Threads, Setup!UpdateTimeToLive(p) PROVE ProgressOn'
        BY <1>5 DEF Setup!UpdateTimeToLive, Setup!Goto, Setup!Raise, Setup!Accepts,
                    Setup!AttributeName
    <1>6. ASSUME NEW p \in Threads, Setup!UseAnyway(p) PROVE ProgressOn'
        BY <1>6 DEF Setup!UseAnyway, Setup!Goto
    <1>7. ASSUME NEW p \in Threads, Setup!CallFails(p) PROVE ProgressOn'
        BY <1>7 DEF Setup!CallFails, Setup!Raise
    <1>8. ASSUME NEW p \in Threads, Setup!Crash(p) PROVE ProgressOn'
        BY <1>8 DEF Setup!Crash
    <1>9. ASSUME Setup!Server PROVE ProgressOn'
        BY <1>9 DEF Setup!Server
    <1>10. CASE UNCHANGED tableVars
        BY <1>10 DEF tableVars
    <1>. HIDE DEF TableTypes, Setup!TypeOK, Setup!On, Setup!Off, Setup!Description,
                  Setup!config, Setup!serverVars, NewTable, NoneDisables, ProgressOn, All,
                  Setup!AsWanted, Quiet, Unsettled, WillBeOn, WillEnable
    <1>. QED
        BY <1>1, <1>2, <1>3, <1>4, <1>5, <1>6, <1>7, <1>8, <1>9, <1>10
        DEF Setup!Next, Setup!Step

(* The invariant holds before the first process looks.                     *)
LEMMA SetupInit == ASSUME Setup!DynamoConstants, Setup!Init PROVE SetupInv
    <1>1. TableTypes
        BY DEF Setup!Init, Setup!DynamoConstants, TableTypes, Setup!TypeOK, Setup!On, Setup!Off,
               Setup!Description
    <1>2. \A p \in Threads : setup[p] = "start"
        BY DEF Setup!Init
    <1>3. NewTable
        BY <1>2 DEF Setup!Init, NewTable
    <1>4. NoneDisables /\ NoneEnables /\ CleanInv
        BY <1>2 DEF NoneDisables, NoneEnables, CleanInv
    <1>5. ProgressOn /\ ProgressOff
        BY <1>2 DEF Setup!Init, ProgressOn, ProgressOff
    <1>. QED
        BY <1>1, <1>3, <1>4, <1>5 DEF SetupInv

(* Every step of a setup preserves the invariant, conjunct by conjunct.    *)
LEMMA SetupStep ==
    ASSUME Setup!DynamoConstants, SetupInv, [Setup!Next]_tableVars
    PROVE  SetupInv'
    BY TableTypesStep, NewTableStep, NoneDisablesStep, NoneEnablesStep, CleanStep,
       ProgressOffStep,
       ProgressOnStep DEF SetupInv

(* Processes that agree want it on, want it off, or do not mind.           *)
LEMMA SetupRight ==
    ASSUME SetupInv PROVE Setup!TypeOK /\ Setup!CleanMeansSet /\ Setup!NewTableIsSet
    <1>1. Setup!TypeOK
        BY DEF SetupInv, TableTypes
    <1>2. ASSUME Setup!Agreed, NEW p \in Threads, want[p] # "ignore"
          PROVE  want[p] \in {"on", "off"} /\ All(want[p])
        BY <1>2 DEF SetupInv, TableTypes, Setup!Agreed, All
    <1>3. ASSUME NEW p \in Threads, want[p] = "ignore" PROVE Setup!Has(p)
        BY <1>3 DEF Setup!Has
    <1>4. Setup!CleanMeansSet
        BY <1>2, <1>3 DEF SetupInv, CleanInv, Setup!CleanMeansSet
    <1>5. Setup!NewTableIsSet
        <2>. SUFFICES ASSUME Setup!Agreed, methods, died = 0, errors = 0,
                             ttl \in Setup!On => attr = "ttl",
                             \A q \in Threads : setup[q] = "ready" /\ ~ Unsettled(q),
                             NEW p \in Threads, want[p] # "ignore"
                      PROVE  Setup!Has(p)
            BY <1>3 DEF Setup!NewTableIsSet, Unsettled
        <2>1. Quiet
            BY DEF Quiet
        <2>2. CASE want[p] = "on"
            <3>1. WillBeOn /\ ~ \E c \in Threads : WillEnable(c)
                BY <1>2, <2>1, <2>2 DEF SetupInv, ProgressOn, WillEnable
            <3>. QED
                BY <2>2, <3>1 DEF WillBeOn, Setup!Has
        <2>3. CASE want[p] = "off"
            <3>1. ttl \in Setup!Off
                BY <1>2, <2>1, <2>3 DEF SetupInv, ProgressOff
            <3>. QED
                BY <2>3, <3>1 DEF Setup!Has
        <2>. QED
            BY <1>2, <2>2, <2>3
    <1>. QED
        BY <1>1, <1>4, <1>5

-----------------------------------------------------------------------------
(* Migrate.  Sequences of messages, as sets.                               *)
LEMMA RepublishedFacts ==
    ASSUME NEW s \in Seq(Messages), NEW m \in Messages
    PROVE  /\ Append(s, m) \in Seq(Messages)
           /\ Moving!Range(Append(s, m)) = Moving!Range(s) \cup {m}
           /\ Moving!IsInjective(s) /\ m \notin Moving!Range(s) =>
                 Moving!IsInjective(Append(s, m))
    <1>1. Append(s, m) \in Seq(Messages) /\ Len(Append(s, m)) = Len(s) + 1 /\ Len(s) \in Nat
          /\ DOMAIN s = 1..Len(s) /\ DOMAIN Append(s, m) = 1..Len(s) + 1
        OBVIOUS
    <1>2. /\ \A i \in 1..Len(s) : Append(s, m)[i] = s[i] /\ i \in 1..Len(s) + 1
          /\ Append(s, m)[Len(s) + 1] = m /\ Len(s) + 1 \in 1..Len(s) + 1
          /\ \A i \in 1..Len(s) + 1 : i \in 1..Len(s) \/ i = Len(s) + 1
        OBVIOUS
    <1>3. Moving!Range(Append(s, m)) = Moving!Range(s) \cup {m}
        BY <1>1, <1>2, Zenon DEF Moving!Range
    <1>. QED
        BY <1>1, <1>2, <1>3 DEF Moving!Range, Moving!IsInjective

(* The first message is taken off the source.                              *)
LEMMA TailFacts ==
    ASSUME NEW s \in Seq(Messages), s # <<>>
    PROVE  /\ Head(s) \in Messages /\ Tail(s) \in Seq(Messages)
           /\ Moving!Range(s) = Moving!Range(Tail(s)) \cup {Head(s)}
           /\ Moving!IsInjective(s) =>
                 Moving!IsInjective(Tail(s)) /\ Head(s) \notin Moving!Range(Tail(s))
    <1>1. /\ Head(s) \in Messages /\ Tail(s) \in Seq(Messages) /\ Head(s) = s[1]
          /\ Len(s) \in Nat /\ Len(s) > 0 /\ DOMAIN s = 1..Len(s) /\ DOMAIN Tail(s) = 1..Len(s) - 1
          /\ 1 \in 1..Len(s)
        OBVIOUS
    <1>2. /\ \A i \in 1..Len(s) - 1 : Tail(s)[i] = s[i + 1] /\ i + 1 \in 1..Len(s) /\ i + 1 # 1
          /\ \A i \in 1..Len(s) : i = 1 \/ (i - 1 \in 1..Len(s) - 1 /\ (i - 1) + 1 = i)
          /\ \A i, j \in 1..Len(s) - 1 : i + 1 = j + 1 => i = j
        BY <1>1
    <1>3. Moving!Range(s) = Moving!Range(Tail(s)) \cup {Head(s)}
        <2>1. ASSUME NEW i \in 1..Len(s) PROVE s[i] = Head(s) \/ s[i] \in Moving!Range(Tail(s))
            <3>1. CASE i - 1 \in 1..Len(s) - 1 /\ (i - 1) + 1 = i
                <4>1. Tail(s)[i - 1] = s[i]
                    BY <1>2, <3>1
                <4>. QED
                    BY <1>1, <3>1, <4>1 DEF Moving!Range
            <3>. QED
                BY <1>1, <1>2, <3>1
        <2>. QED
            BY <1>1, <1>2, <2>1 DEF Moving!Range
    <1>4. ASSUME Moving!IsInjective(s) PROVE Moving!IsInjective(Tail(s))
        <2>1. \A i, j \in 1..Len(s) - 1 : s[i + 1] = s[j + 1] => i + 1 = j + 1
            BY <1>1, <1>2, <1>4 DEF Moving!IsInjective
        <2>. QED
            BY <1>1, <1>2, <2>1 DEF Moving!IsInjective
    <1>5. ASSUME Moving!IsInjective(s) PROVE Head(s) \notin Moving!Range(Tail(s))
        <2>1. \A i \in 1..Len(s) - 1 : s[i + 1] # s[1]
            BY <1>1, <1>2, <1>5 DEF Moving!IsInjective
        <2>. QED
            BY <1>1, <1>2, <2>1 DEF Moving!Range
    <1>. QED
        BY <1>1, <1>3, <1>4, <1>5

(* The messages given back come first, in some order.                      *)
LEMMA SetToSeqFacts ==
    ASSUME NEW S, IsFiniteSet(S)
    PROVE  /\ Moving!SetToSeq(S) \in Seq(S)
           /\ Moving!Range(Moving!SetToSeq(S)) = S
           /\ Moving!IsInjective(Moving!SetToSeq(S))
    <1>. DEFINE n == Cardinality(S)
                f == Moving!SetToSeq(S)
    <1>1. n \in Nat /\ ExistsBijection(1..n, S)
        BY FS_CardinalityType
    <1>2. f = CHOOSE g \in [1..n -> S] : Moving!IsInjective(g)
        <2>1. Moving!Cardinality(S) = Cardinality(S)
            BY DEF Moving!Cardinality, Cardinality, Moving!IsFiniteSet, IsFiniteSet
        <2>. QED
            BY <2>1 DEF Moving!SetToSeq
    <1>3. \E g \in [1..n -> S] : Moving!IsInjective(g)
        BY <1>1, Zenon DEF ExistsBijection, Bijection, Injection, IsInjective, Surjection,
                           Moving!IsInjective
    <1>4. f \in [1..n -> S] /\ Moving!IsInjective(f)
        BY <1>2, <1>3
    <1>. HIDE DEF f, n
    <1>5. Moving!Range(f) = S
        <2>. DEFINE T == Moving!Range(f)
        <2>1. T \in SUBSET S
            BY <1>4 DEF Moving!Range
        <2>2. f \in Bijection(1..n, T)
            BY <1>4, Zenon DEF Bijection, Injection, Surjection, IsInjective,
                               Moving!IsInjective, Moving!Range
        <2>3. Cardinality(T) = n
            BY <1>1, <2>2, FS_CountingElements DEF ExistsBijection
        <2>. QED
            BY <2>1, <2>3, FS_Subset DEF n
    <1>6. f \in Seq(S)
        BY <1>1, <1>4
    <1>. QED
        BY <1>4, <1>5, <1>6 DEF f

(* Unacknowledged messages are put back before the others.                 *)
LEMMA BackFacts ==
    ASSUME Moving!MigrateConstants, NEW s \in Seq(Messages), NEW S \in SUBSET Messages
    PROVE  /\ Moving!SetToSeq(S) \o s \in Seq(Messages)
           /\ Moving!Range(Moving!SetToSeq(S) \o s) = S \cup Moving!Range(s)
           /\ Moving!IsInjective(s) /\ S \cap Moving!Range(s) = {} =>
                 Moving!IsInjective(Moving!SetToSeq(S) \o s)
    <1>. DEFINE f == Moving!SetToSeq(S)
                c == f \o s
    <1>1. f \in Seq(S) /\ Moving!Range(f) = S /\ Moving!IsInjective(f)
        <2>1. IsFiniteSet(S)
            <3>1. IsFiniteSet(Messages)
                BY DEF Moving!MigrateConstants, Moving!IsFiniteSet, IsFiniteSet
            <3>. QED
                BY <3>1, FS_Subset
        <2>. QED
            BY <2>1, SetToSeqFacts
    <1>. HIDE DEF f
    <1>2. f \in Seq(Messages)
        BY <1>1
    <1>3. /\ c \in Seq(Messages) /\ Len(f) \in Nat /\ Len(s) \in Nat
          /\ DOMAIN f = 1..Len(f) /\ DOMAIN s = 1..Len(s) /\ DOMAIN c = 1..Len(f) + Len(s)
          /\ \A i \in 1..Len(f) : c[i] = f[i] /\ i \in 1..Len(f) + Len(s)
          /\ \A i \in 1..Len(s) : c[Len(f) + i] = s[i] /\ Len(f) + i \in 1..Len(f) + Len(s)
        BY <1>2
    <1>4. \A i \in 1..Len(f) + Len(s) : i \in 1..Len(f) \/ \E j \in 1..Len(s) : i = Len(f) + j
        <2>. SUFFICES ASSUME NEW i \in 1..Len(f) + Len(s), i \notin 1..Len(f)
                      PROVE  i - Len(f) \in 1..Len(s) /\ i = Len(f) + (i - Len(f))
            OBVIOUS
        <2>. QED
            BY <1>3
    <1>. HIDE DEF c
    <1>5. Moving!Range(c) = S \cup Moving!Range(s)
        <2>1. \A x : x \in Moving!Range(c) <=> \E i \in 1..Len(f) + Len(s) : x = c[i]
            BY <1>3, Zenon DEF Moving!Range
        <2>2. \A x : x \in S <=> \E i \in 1..Len(f) : x = f[i]
            BY <1>1, <1>3, Zenon DEF Moving!Range
        <2>3. \A x : x \in Moving!Range(s) <=> \E i \in 1..Len(s) : x = s[i]
            BY <1>3, Zenon DEF Moving!Range
        <2>4. ASSUME NEW x \in Moving!Range(c) PROVE x \in S \cup Moving!Range(s)
            <3>1. PICK i \in 1..Len(f) + Len(s) : x = c[i]
                BY <2>1
            <3>. QED
                BY <1>3, <1>4, <2>2, <2>3, <3>1
        <2>5. ASSUME NEW x \in S PROVE x \in Moving!Range(c)
            BY <1>3, <2>1, <2>2
        <2>6. ASSUME NEW x \in Moving!Range(s) PROVE x \in Moving!Range(c)
            BY <1>3, <2>1, <2>3
        <2>. QED
            BY <2>4, <2>5, <2>6
    <1>6. ASSUME Moving!IsInjective(s), S \cap Moving!Range(s) = {}
          PROVE  Moving!IsInjective(c)
        <2>. SUFFICES ASSUME NEW i \in 1..Len(f) + Len(s), NEW j \in 1..Len(f) + Len(s), c[i] = c[j]
                      PROVE  i = j
            BY <1>3 DEF Moving!IsInjective
        <2>1. CASE i \in 1..Len(f) /\ j \in 1..Len(f)
            BY <1>1, <1>3, <2>1 DEF Moving!IsInjective
        <2>2. CASE \E k \in 1..Len(s) : i = Len(f) + k
            <3>1. PICK k \in 1..Len(s) : i = Len(f) + k
                BY <2>2
            <3>2. c[i] = s[k] /\ c[i] \notin S
                BY <1>3, <1>6, <3>1 DEF Moving!Range
            <3>3. j \notin 1..Len(f)
                BY <1>1, <1>3, <3>2 DEF Moving!Range
            <3>4. PICK l \in 1..Len(s) : j = Len(f) + l
                BY <1>4, <3>3
            <3>5. s[k] = s[l]
                BY <1>3, <3>2, <3>4
            <3>. QED
                BY <1>3, <1>6, <3>1, <3>4, <3>5 DEF Moving!IsInjective
        <2>3. CASE i \in 1..Len(f) /\ \E k \in 1..Len(s) : j = Len(f) + k
            <3>1. PICK k \in 1..Len(s) : j = Len(f) + k
                BY <2>3
            <3>2. c[j] = s[k] /\ c[i] = f[i] /\ c[i] \in S
                BY <1>1, <1>3, <2>3, <3>1 DEF Moving!Range
            <3>. QED
                BY <1>3, <1>6, <3>2 DEF Moving!Range
        <2>. QED
            BY <1>4, <2>1, <2>2, <2>3
    <1>. QED
        BY <1>3, <1>5, <1>6 DEF c, f

(* The half of the filter that follows the publication.                    *)
Second == IF op.kind = "move" THEN "moved" ELSE "update_state"

(* The callbacks a message may have before it.                             *)
Places ==
    IF op.ack THEN {<<>>, <<"filter", Second, "ack">>, <<Second, "ack">>, <<"ack">>}
    ELSE {<<>>, <<"filter", Second>>, <<Second>>}

Facing(callback) == at # <<>> /\ Head(at) = callback

(* The current message is republished and not counted yet.                 *)
Republished == Facing(Second)

MovingTypes ==
    /\ op \in Moving!Ops /\ message \in Messages
    /\ source \in Seq(Messages) /\ dest \in Seq(Messages)
    /\ unacked \subseteq Messages /\ moved \subseteq Messages
    /\ count \in Nat /\ running \in BOOLEAN
    /\ started \in 0..MaxRuns /\ lost \in 0..MaxInterrupted

(* A message is delivered once in a run; only a move acknowledges it       *)
(* before the last callback.                                               *)
DeliveredOnce ==
    /\ at \in Places
    /\ at # <<>> => running
    /\ at # <<>> => message \in unacked \/ (op.kind = "move" /\ Facing("ack"))
    /\ ~ running => unacked = {}
    /\ Facing("filter") => message \notin moved /\ Moving!Sees(message)
    /\ Moving!IsInjective(source) /\ Moving!Range(source) \cap unacked = {}
    /\ running => moved \cap Moving!Range(source) = {}

(* The count is the number of messages republished, but for the current.   *)
Counted ==
    /\ running => Cardinality(moved) = IF Republished THEN count + 1 ELSE count
    /\ count =< Cardinality(moved)
    /\ op.limit > 0 => Cardinality(moved) =< op.limit /\ (running => count < op.limit)

RepublishedFirst ==
    /\ Moving!MovedOrKept /\ Moving!OnlyWanted
    /\ Republished => message \in Moving!Range(dest)
    /\ Facing("ack") => message \in Moving!Range(dest) \/ ~ Moving!Moves(message)

(* A run that acknowledges leaves at the source nothing it republished.    *)
Acknowledges == op.kind = "move" \/ (op.ack /\ op.limit = 0)

LeftBehind ==
    lost = 0 /\ Acknowledges =>
       /\ Moving!Range(source) \cap Moving!Range(dest) = {} /\ Moving!IsInjective(dest)
       /\ \A m \in unacked \cap Moving!Range(dest) :
             m = message /\ (Republished \/ Facing("ack"))

MovingInv == MovingTypes /\ DeliveredOnce /\ Counted /\ RepublishedFirst /\ LeftBehind

(* The callbacks still to run on a message, and what the first leaves.     *)
LEMMA PlaceFacts ==
    /\ \A x : <<x>> # <<>> /\ Head(<<x>>) = x /\ Tail(<<x>>) = <<>>
    /\ \A x, y : <<x, y>> # <<>> /\ Head(<<x, y>>) = x /\ Tail(<<x, y>>) = <<y>>
    /\ \A x, y, z : <<x, y, z>> # <<>> /\ Head(<<x, y, z>>) = x /\ Tail(<<x, y, z>>) = <<y, z>>
    OBVIOUS

LEMMA SecondFacts ==
    /\ Second \in {"moved", "update_state"} /\ Second # "filter" /\ Second # "ack"
    /\ Second = "moved" <=> op.kind = "move"
    BY DEF Second

(* The callback that follows, and the ones a message begins with.          *)
LEMMA NextPlace ==
    ASSUME at \in Places, op \in Moving!Ops
    PROVE  /\ Facing("filter") =>
                 /\ Tail(at) \in Places /\ Tail(at) # <<>> /\ Head(Tail(at)) = Second
                 /\ Tail(Tail(at)) = IF op.ack THEN <<"ack">> ELSE <<>>
           /\ Facing(Second) => Tail(at) = IF op.ack THEN <<"ack">> ELSE <<>>
           /\ Facing("ack") => op.ack /\ Tail(at) = <<>>
           /\ (IF op.ack THEN <<"ack">> ELSE <<>>) \in Places /\ <<>> \in Places
    <1>1. op.ack \in BOOLEAN
        BY DEF Moving!Ops
    <1>2. /\ Head(<<"filter", Second, "ack">>) = "filter"
          /\ Tail(<<"filter", Second, "ack">>) = <<Second, "ack">>
          /\ Head(<<"filter", Second>>) = "filter" /\ Tail(<<"filter", Second>>) = <<Second>>
          /\ Head(<<Second, "ack">>) = Second /\ Tail(<<Second, "ack">>) = <<"ack">>
          /\ Head(<<Second>>) = Second /\ Tail(<<Second>>) = <<>>
          /\ Head(<<"ack">>) = "ack" /\ Tail(<<"ack">>) = <<>>
          /\ <<Second, "ack">> # <<>> /\ <<Second>> # <<>>
        <2>. HIDE DEF Second
        <2>. QED
            OBVIOUS
    <1>3. Second # "filter" /\ Second # "ack" /\ "filter" # "ack"
        BY SecondFacts
    <1>4. CASE op.ack
        BY <1>1, <1>2, <1>3, <1>4, Zenon DEF Places, Facing
    <1>5. CASE ~ op.ack
        BY <1>1, <1>2, <1>3, <1>5, Zenon DEF Places, Facing
    <1>. QED
        BY <1>1, <1>4, <1>5

(* Two callbacks, and one more.                                            *)
LEMMA ThreeCallbacks ==
    ASSUME NEW x, NEW y, NEW z
    PROVE  <<x, y>> \o <<z>> = <<x, y, z>>
    <1>. DEFINE S == {x, y, z}
                s == <<x, y>>
                u == <<x, y, z>>
                c == Append(s, z)
    <1>1. s \in Seq(S) /\ Len(s) = 2 /\ s[1] = x /\ s[2] = y /\ z \in S
        OBVIOUS
    <1>2. u \in Seq(S) /\ Len(u) = 3 /\ u[1] = x /\ u[2] = y /\ u[3] = z
        OBVIOUS
    <1>. HIDE DEF S, s, u
    <1>3. c \in Seq(S) /\ Len(c) = 3 /\ c[1] = x /\ c[2] = y /\ c[3] = z
        <2>1. ASSUME NEW t \in Seq(S), NEW w \in S
              PROVE  /\ Append(t, w) \in Seq(S) /\ Len(Append(t, w)) = Len(t) + 1
                     /\ \A i \in 1..Len(t) : Append(t, w)[i] = t[i]
                     /\ Append(t, w)[Len(t) + 1] = w
            OBVIOUS
        <2>2. /\ c \in Seq(S) /\ Len(c) = Len(s) + 1 /\ c[Len(s) + 1] = z
              /\ \A i \in 1..Len(s) : c[i] = s[i]
            BY <1>1, <2>1
        <2>. HIDE DEF c
        <2>. QED
            BY <1>1, <2>2
    <1>4. s \o <<z>> = c
        BY <1>1, AppendIsConcat
    <1>. HIDE DEF c
    <1>5. \A i \in 1..3 : c[i] = u[i]
        BY <1>2, <1>3
    <1>6. c = u
        BY <1>2, <1>3, <1>5, SeqEqual
    <1>. QED
        BY <1>4, <1>6 DEF s, u

(* The callbacks of a message that is delivered.                           *)
LEMMA FirstPlace ==
    ASSUME op \in Moving!Ops, NEW m
    PROVE  /\ Moving!Callbacks(m) \in Places
           /\ Moving!Sees(m) =>
                 Moving!Callbacks(m) # <<>> /\ Head(Moving!Callbacks(m)) = "filter"
           /\ ~ Moving!Sees(m) => Moving!Callbacks(m) = IF op.ack THEN <<"ack">> ELSE <<>>
    <1>1. op.kind \in {"migrate", "move"} /\ op.ack \in BOOLEAN /\ op.tasks \in BOOLEAN
        BY DEF Moving!Ops
    <1>2. ASSUME NEW x \in {"moved", "update_state"}
          PROVE  /\ <<>> \o <<>> = <<>> /\ <<>> \o <<"ack">> = <<"ack">>
                 /\ <<"filter", x>> \o <<>> = <<"filter", x>>
                 /\ <<"filter", x>> \o <<"ack">> = <<"filter", x, "ack">>
        <2>1. <<>> \o <<>> = <<>>
            OBVIOUS
        <2>2. <<>> \o <<"ack">> = <<"ack">>
            OBVIOUS
        <2>3. <<"filter", x>> \o <<>> = <<"filter", x>>
            OBVIOUS
        <2>4. <<"filter", x>> \o <<"ack">> = <<"filter", x, "ack">>
            BY ThreeCallbacks, Zenon
        <2>. QED
            BY <2>1, <2>2, <2>3, <2>4
    <1>3. Moving!Filter = <<"filter", Second>>
        BY DEF Moving!Filter, Second
    <1>4. Moving!Callbacks(m) =
             IF Moving!Sees(m)
             THEN IF op.ack THEN <<"filter", Second, "ack">> ELSE <<"filter", Second>>
             ELSE IF op.ack THEN <<"ack">> ELSE <<>>
        BY <1>1, <1>2, <1>3, SecondFacts DEF Moving!Callbacks
    <1>. QED
        BY <1>1, <1>4, PlaceFacts DEF Places

(* There are finitely many messages.                                       *)
LEMMA MessagesFinite ==
    ASSUME Moving!MigrateConstants, NEW S \in SUBSET Messages
    PROVE  /\ IsFiniteSet(S) /\ Cardinality(S) \in Nat /\ Cardinality(S) =< Cardinality(Messages)
           /\ Cardinality(Messages) \in Nat
           /\ \A m : m \notin S => Cardinality(S \cup {m}) = Cardinality(S) + 1
           /\ Moving!Cardinality(S) = Cardinality(S)
           /\ Moving!Cardinality(Messages) = Cardinality(Messages)
    <1>1. \A T : Moving!Cardinality(T) = Cardinality(T)
        BY DEF Moving!Cardinality, Cardinality, Moving!IsFiniteSet, IsFiniteSet
    <1>2. IsFiniteSet(Messages)
        BY DEF Moving!MigrateConstants, Moving!IsFiniteSet, IsFiniteSet
    <1>3. IsFiniteSet(S) /\ Cardinality(S) =< Cardinality(Messages)
        BY <1>2, FS_Subset
    <1>4. Cardinality(S) \in Nat /\ Cardinality(Messages) \in Nat
        BY <1>2, <1>3, FS_CardinalityType
    <1>5. \A m : m \notin S => Cardinality(S \cup {m}) = Cardinality(S) + 1
        BY <1>3, FS_AddElement
    <1>. QED
        BY <1>1, <1>3, <1>4, <1>5

(* What a run of migrate or move was asked for.                            *)
LEMMA OpFacts ==
    ASSUME Moving!MigrateConstants, op \in Moving!Ops
    PROVE  op.kind \in {"migrate", "move"} /\ op.ack \in BOOLEAN /\ op.tasks \in BOOLEAN
           /\ op.limit \in Nat
    BY DEF Moving!Ops, Moving!MigrateConstants

(* A run ends: what is left of the unacknowledged messages goes back.      *)
LEMMA CloseStep ==
    ASSUME Moving!MigrateConstants, MovingInv, NEW L \in SUBSET unacked,
           Moving!Closed, Moving!GiveBack(L), UNCHANGED <<op, dest, message, moved, started>>,
           count' \in Nat, count' =< Cardinality(moved), lost' \in 0..MaxInterrupted,
           unacked \ L \subseteq Moving!Range(dest),
           lost' = 0 /\ Acknowledges => lost = 0 /\ L \cap Moving!Range(dest) = {}
    PROVE  MovingInv'
    <1>1. L \in SUBSET Messages /\ source \in Seq(Messages)
        BY DEF MovingInv, MovingTypes
    <1>2. /\ source' \in Seq(Messages) /\ Moving!Range(source') = L \cup Moving!Range(source)
          /\ Moving!IsInjective(source')
        BY <1>1, BackFacts DEF Moving!GiveBack, MovingInv, DeliveredOnce
    <1>3. running' = FALSE /\ at' = <<>> /\ unacked' = {}
        BY DEF Moving!Closed, Moving!GiveBack
    <1>4. MovingTypes'
        BY <1>2, <1>3 DEF MovingInv, MovingTypes
    <1>5. DeliveredOnce'
        BY <1>2, <1>3 DEF DeliveredOnce, Places, Facing
    <1>6. Counted'
        BY <1>3 DEF MovingInv, Counted
    <1>7. RepublishedFirst'
        BY <1>2, <1>3 DEF MovingInv, RepublishedFirst, Republished, Facing,
                          Moving!MovedOrKept, Moving!OnlyWanted, Moving!Moves, Moving!Sees
    <1>8. LeftBehind'
        BY <1>2, <1>3 DEF MovingInv, LeftBehind, Acknowledges
    <1>. QED
        BY <1>4, <1>5, <1>6, <1>7, <1>8 DEF MovingInv

(* The next message is delivered, and its callbacks are due.               *)
LEMMA DeliverStep ==
    ASSUME Moving!MigrateConstants, MovingInv, Moving!Deliver
    PROVE  MovingInv'
    <1>. DEFINE m == Head(source)
    <1>1. /\ running /\ at = <<>> /\ source # <<>> /\ source' = Tail(source) /\ message' = m
          /\ unacked' = unacked \cup {m} /\ at' = Moving!Callbacks(m)
          /\ UNCHANGED <<op, dest, count, running, started, lost, moved>>
        BY DEF Moving!Deliver
    <1>2. /\ m \in Messages /\ source' \in Seq(Messages)
          /\ Moving!Range(source) = Moving!Range(source') \cup {m}
          /\ Moving!IsInjective(source') /\ m \notin Moving!Range(source')
        BY <1>1, TailFacts DEF MovingInv, MovingTypes, DeliveredOnce
    <1>3. /\ at' \in Places
          /\ Moving!Sees(m) => at' # <<>> /\ Head(at') = "filter"
          /\ ~ Moving!Sees(m) => at' = IF op.ack THEN <<"ack">> ELSE <<>>
        BY <1>1, FirstPlace DEF MovingInv, MovingTypes
    <1>. HIDE DEF m
    <1>4. Second' = Second /\ ~ Republished' /\ ~ Republished
        BY <1>1, <1>3, PlaceFacts, SecondFacts DEF Facing, Republished, Second
    <1>5. /\ Facing("filter")' => Moving!Sees(m)
          /\ Facing("ack")' => ~ Moving!Sees(m)
        BY <1>1, <1>3, PlaceFacts DEF Facing
    <1>6. MovingTypes'
        BY <1>1, <1>2 DEF MovingInv, MovingTypes
    <1>7. DeliveredOnce'
        BY <1>1, <1>2, <1>3, <1>4, <1>5 DEF MovingInv, DeliveredOnce, Places, Moving!Sees
    <1>8. Counted'
        BY <1>1, <1>4 DEF MovingInv, Counted
    <1>9. RepublishedFirst'
        BY <1>1, <1>2, <1>4, <1>5 DEF MovingInv, RepublishedFirst, Moving!MovedOrKept,
                                      Moving!OnlyWanted, Moving!Moves, Moving!Sees
    <1>10. LeftBehind'
        BY <1>1, <1>2, <1>4 DEF MovingInv, LeftBehind, Acknowledges, Facing
    <1>. QED
        BY <1>6, <1>7, <1>8, <1>9, <1>10 DEF MovingInv

(* The current message is republished, and acknowledged later.             *)
LEMMA RepublishStep ==
    ASSUME Moving!MigrateConstants, MovingInv, running, Facing("filter"),
           dest' = Append(dest, message), moved' = moved \cup {message}, at' = Tail(at),
           op.kind = "move" => message \in Wanted,
           UNCHANGED <<op, source, unacked, message, count, running, started, lost>>
    PROVE  MovingInv'
    <1>1. /\ dest' \in Seq(Messages) /\ Moving!Range(dest') = Moving!Range(dest) \cup {message}
          /\ Moving!IsInjective(dest) /\ message \notin Moving!Range(dest) =>
                Moving!IsInjective(dest')
        BY RepublishedFacts DEF MovingInv, MovingTypes
    <1>2. at' \in Places /\ at' # <<>> /\ Head(at') = Second
        BY NextPlace DEF MovingInv, MovingTypes, DeliveredOnce
    <1>3. /\ Second' = Second /\ Republished' /\ ~ Republished
          /\ ~ Facing("filter")' /\ ~ Facing("ack")' /\ ~ Facing("ack")
        BY <1>2, SecondFacts DEF Facing, Republished, Second
    <1>4. Cardinality(moved') = Cardinality(moved) + 1
        BY MessagesFinite DEF MovingInv, MovingTypes, DeliveredOnce
    <1>5. message \in unacked /\ Moving!Sees(message)
        BY <1>3 DEF MovingInv, DeliveredOnce, Facing
    <1>6. MovingTypes'
        BY <1>1 DEF MovingInv, MovingTypes
    <1>7. DeliveredOnce'
        BY <1>2, <1>3, <1>5 DEF MovingInv, DeliveredOnce, Places
    <1>8. Counted'
        <2>1. Cardinality(moved) = count /\ count \in Nat /\ op.limit \in Nat
            BY <1>3, OpFacts DEF MovingInv, MovingTypes, Counted
        <2>. QED
            BY <1>3, <1>4, <2>1 DEF MovingInv, Counted
    <1>9. RepublishedFirst'
        BY <1>1, <1>3, <1>5 DEF MovingInv, RepublishedFirst, Moving!MovedOrKept,
                                Moving!OnlyWanted, Moving!Moves, Moving!Sees
    <1>10. LeftBehind'
        BY <1>1, <1>3, <1>5 DEF MovingInv, LeftBehind, DeliveredOnce, Acknowledges
    <1>. QED
        BY <1>6, <1>7, <1>8, <1>9, <1>10 DEF MovingInv

(* The current message has gone through one more callback: the last of     *)
(* them, or the last but the acknowledgement.                              *)
LEMMA CallbackStep ==
    ASSUME Moving!MigrateConstants, MovingInv, running, at # <<>>,
           at' \in {<<>>, <<"ack">>}, at' # <<>> => ~ Facing("ack") /\ op.ack,
           count' = IF Republished THEN count + 1 ELSE count,
           op.limit > 0 => count' < op.limit,
           NEW L \in SUBSET {message}, unacked' = unacked \ L,
           message \in Moving!Range(dest) \/ ~ Moving!Moves(message),
           L # {} => message \in Moving!Range(dest) \/ op.ack,
           at' # <<>> => L = {} \/ op.kind = "move",
           Acknowledges /\ at' = <<>> => message \in L \/ Facing("filter"),
           UNCHANGED <<op, source, dest, moved, message, running, started, lost>>
    PROVE  MovingInv'
    <1>1. /\ Second' = Second /\ ~ Facing("filter")' /\ ~ Republished'
          /\ Facing("ack")' <=> at' # <<>>
        BY PlaceFacts, SecondFacts DEF Facing, Republished, Second
    <1>2. at' \in Places
        BY NextPlace DEF MovingInv, MovingTypes, DeliveredOnce
    <1>3. message \in unacked \/ (op.kind = "move" /\ Facing("ack"))
        BY DEF MovingInv, DeliveredOnce
    <1>4. MovingTypes'
        BY DEF MovingInv, MovingTypes
    <1>5. DeliveredOnce'
        BY <1>1, <1>2, <1>3 DEF MovingInv, DeliveredOnce, Places
    <1>6. Counted'
        BY <1>1, <1>4 DEF MovingInv, MovingTypes, Counted
    <1>7. RepublishedFirst'
        BY <1>1 DEF MovingInv, RepublishedFirst, Moving!MovedOrKept, Moving!OnlyWanted,
                    Moving!Moves, Moving!Sees
    <1>8. LeftBehind'
        <2>1. Facing("filter") => ~ Republished /\ ~ Facing("ack")
            BY SecondFacts DEF Facing, Republished
        <2>. QED
            BY <1>1, <2>1 DEF MovingInv, LeftBehind, Acknowledges
    <1>. QED
        BY <1>4, <1>5, <1>6, <1>7, <1>8 DEF MovingInv

(* Every step of a run, and its interruption, preserves the invariant.     *)
LEMMA MovingStep ==
    ASSUME Moving!MigrateConstants, MovingInv, [Moving!Next]_migrateVars
    PROVE  MovingInv'
    <1>0. /\ op.kind \in {"migrate", "move"} /\ op.ack \in BOOLEAN /\ op.limit \in Nat
          /\ count \in Nat /\ at \in Places /\ op \in Moving!Ops /\ unacked \subseteq Messages
        BY OpFacts DEF MovingInv, MovingTypes, DeliveredOnce
    <1>1. ASSUME Moving!Start PROVE MovingInv'
        <2>1. /\ ~ running /\ running' = TRUE /\ count' = 0 /\ moved' = {}
              /\ started' \in 0..MaxRuns
              /\ UNCHANGED <<op, source, unacked, dest, at, message, lost>>
            BY <1>1 DEF Moving!Start, MovingInv, MovingTypes, Moving!MigrateConstants
        <2>2. at = <<>>
            BY <2>1 DEF MovingInv, DeliveredOnce
        <2>3. Cardinality({}) = 0
            BY FS_EmptySet
        <2>4. MovingTypes' /\ DeliveredOnce'
            BY <2>1, <2>2 DEF MovingInv, MovingTypes, DeliveredOnce, Places, Second, Facing
        <2>5. Counted'
            BY <1>0, <2>1, <2>2, <2>3 DEF Counted, Republished, Facing
        <2>6. RepublishedFirst' /\ LeftBehind'
            BY <2>1, <2>2 DEF MovingInv, RepublishedFirst, LeftBehind, Republished, Facing,
                              Acknowledges, Moving!MovedOrKept, Moving!OnlyWanted,
                              Moving!Moves, Moving!Sees
        <2>. QED
            BY <2>4, <2>5, <2>6 DEF MovingInv
    <1>2. ASSUME Moving!MigrateTask PROVE MovingInv'
        <2>1. /\ running /\ op.kind = "migrate" /\ Facing("filter") /\ at' = Tail(at)
              /\ dest' = Append(dest, message) /\ moved' = moved \cup {message}
              /\ UNCHANGED <<op, source, unacked, message, count, running, started, lost>>
            BY <1>2 DEF Moving!MigrateTask, Facing
        <2>. QED
            BY <2>1, RepublishStep
    <1>3. ASSUME Moving!OnTask PROVE MovingInv'
        <2>1. /\ running /\ op.kind = "move" /\ Facing("filter") /\ at # <<>>
              /\ UNCHANGED <<op, source, unacked, message, count, running, started, lost>>
            BY <1>3 DEF Moving!OnTask, Facing
        <2>2. CASE message \in Wanted
            <3>1. /\ at' = Tail(at) /\ dest' = Append(dest, message)
                  /\ moved' = moved \cup {message}
                BY <1>3, <2>2 DEF Moving!OnTask
            <3>. QED
                BY <2>1, <2>2, <3>1, RepublishStep
        <2>3. CASE message \notin Wanted
            <3>1. at' = Tail(Tail(at)) /\ UNCHANGED <<dest, moved>>
                BY <1>3, <2>3 DEF Moving!OnTask
            <3>2. at' = IF op.ack THEN <<"ack">> ELSE <<>>
                BY <1>0, <2>1, <3>1, NextPlace
            <3>3. ~ Republished /\ ~ Facing("ack")
                BY <2>1, SecondFacts DEF Republished, Facing
            <3>4. op.limit > 0 => count' < op.limit
                BY <2>1 DEF MovingInv, Counted
            <3>5. unacked' = unacked \ {} /\ ~ Moving!Moves(message)
                BY <2>1, <2>3 DEF Moving!Moves
            <3>6. at' \in {<<>>, <<"ack">>} /\ (at' # <<>> => op.ack)
                BY <3>2
            <3>. QED
                BY <2>1, <3>1, <3>3, <3>4, <3>5, <3>6, CallbackStep
        <2>. QED
            BY <2>2, <2>3
    <1>4. ASSUME Moving!OnTaskMoved PROVE MovingInv'
        <2>1. /\ running /\ at # <<>> /\ Facing("moved") /\ count' = count + 1
              /\ UNCHANGED <<op, dest, message, started, lost, moved>>
            BY <1>4 DEF Moving!OnTaskMoved, Facing
        <2>2. Second = "moved" /\ op.kind = "move"
            BY <1>0, <2>1, PlaceFacts, SecondFacts DEF Places, Facing
        <2>3. Republished /\ ~ Facing("ack")
            BY <2>1, <2>2 DEF Republished, Facing
        <2>4. message \in Moving!Range(dest) /\ message \in unacked
            BY <2>1, <2>3 DEF MovingInv, RepublishedFirst, DeliveredOnce
        <2>5. CASE op.limit > 0 /\ count + 1 >= op.limit
            <3>1. Moving!Closed /\ Moving!GiveBack(unacked \ {message})
                BY <1>4, <2>5 DEF Moving!OnTaskMoved
            <3>2. count' \in Nat /\ count' =< Cardinality(moved)
                BY <1>0, <2>1, <2>3, MessagesFinite DEF MovingInv, MovingTypes, Counted
            <3>3. lost' = 0 /\ Acknowledges =>
                     lost = 0 /\ (unacked \ {message}) \cap Moving!Range(dest) = {}
                BY <2>1 DEF MovingInv, LeftBehind
            <3>4. lost' \in 0..MaxInterrupted /\ unacked \ (unacked \ {message}) \subseteq Moving!Range(dest)
                  /\ unacked \ {message} \in SUBSET unacked
                BY <2>1, <2>4 DEF MovingInv, MovingTypes
            <3>. QED
                BY <2>1, <3>1, <3>2, <3>3, <3>4, CloseStep
        <2>6. CASE ~ (op.limit > 0 /\ count + 1 >= op.limit)
            <3>1. at' = Tail(at) /\ unacked' = unacked \ {message} /\ UNCHANGED <<source, running>>
                BY <1>4, <2>6 DEF Moving!OnTaskMoved
            <3>2. at' = IF op.ack THEN <<"ack">> ELSE <<>>
                BY <1>0, <2>1, <2>2, <3>1, NextPlace
            <3>3. at' \in {<<>>, <<"ack">>} /\ (at' # <<>> => op.ack)
                BY <3>2
            <3>4. op.limit > 0 => count' < op.limit
                BY <1>0, <2>1, <2>6
            <3>. QED
                BY <2>1, <2>2, <2>3, <2>4, <3>1, <3>3, <3>4, CallbackStep
        <2>. QED
            BY <2>5, <2>6
    <1>5. ASSUME Moving!UpdateState PROVE MovingInv'
        <2>1. /\ running /\ at # <<>> /\ Facing("update_state") /\ count' = count + 1
              /\ UNCHANGED <<op, dest, message, started, lost, moved>>
            BY <1>5 DEF Moving!UpdateState, Facing
        <2>2. Second = "update_state" /\ op.kind = "migrate"
            BY <1>0, <2>1, PlaceFacts, SecondFacts DEF Places, Facing
        <2>3. Republished /\ ~ Facing("ack")
            BY <2>1, <2>2 DEF Republished, Facing
        <2>4. message \in Moving!Range(dest) /\ message \in unacked
            BY <2>1, <2>3 DEF MovingInv, RepublishedFirst, DeliveredOnce
        <2>5. CASE op.limit > 0 /\ count + 1 >= op.limit
            <3>1. Moving!Closed /\ Moving!GiveBack(unacked)
                BY <1>5, <2>5 DEF Moving!UpdateState
            <3>2. count' \in Nat /\ count' =< Cardinality(moved)
                BY <1>0, <2>1, <2>3, MessagesFinite DEF MovingInv, MovingTypes, Counted
            <3>3. ~ Acknowledges
                BY <1>0, <2>2, <2>5 DEF Acknowledges
            <3>4. lost' \in 0..MaxInterrupted
                BY <2>1 DEF MovingInv, MovingTypes
            <3>. QED
                BY <2>1, <3>1, <3>2, <3>3, <3>4, CloseStep
        <2>6. CASE ~ (op.limit > 0 /\ count + 1 >= op.limit)
            <3>1. at' = Tail(at) /\ UNCHANGED <<source, unacked, running>>
                BY <1>5, <2>6 DEF Moving!UpdateState
            <3>2. at' = IF op.ack THEN <<"ack">> ELSE <<>>
                BY <1>0, <2>1, <2>2, <3>1, NextPlace
            <3>3. op.limit > 0 => count' < op.limit
                BY <1>0, <2>1, <2>6
            <3>4. Acknowledges => op.ack
                BY <2>2 DEF Acknowledges
            <3>5. unacked' = unacked \ {} /\ <<"ack">> # <<>>
                BY <3>1, PlaceFacts
            <3>6. /\ at' \in {<<>>, <<"ack">>} /\ (at' # <<>> => op.ack)
                  /\ Acknowledges => at' # <<>>
                BY <3>2, <3>4, <3>5
            <3>. QED
                BY <2>1, <2>3, <2>4, <3>1, <3>3, <3>5, <3>6, CallbackStep
        <2>. QED
            BY <2>5, <2>6
    <1>6. ASSUME Moving!AckMessage PROVE MovingInv'
        <2>1. /\ running /\ at # <<>> /\ Facing("ack")
              /\ UNCHANGED <<op, dest, message, count, started, lost, moved>>
            BY <1>6 DEF Moving!AckMessage, Facing
        <2>2. CASE message \in unacked
            <3>1. at' = Tail(at) /\ unacked' = unacked \ {message} /\ UNCHANGED <<source, running>>
                BY <1>6, <2>2 DEF Moving!AckMessage
            <3>2. op.ack /\ at' = <<>>
                BY <1>0, <2>1, <3>1, NextPlace
            <3>3. ~ Republished
                BY <2>1, SecondFacts DEF Republished, Facing
            <3>4. message \in Moving!Range(dest) \/ ~ Moving!Moves(message)
                BY <2>1 DEF MovingInv, RepublishedFirst
            <3>5. op.limit > 0 => count' < op.limit
                BY <2>1 DEF MovingInv, Counted
            <3>. QED
                BY <2>1, <3>1, <3>2, <3>3, <3>4, <3>5, CallbackStep
        <2>3. CASE message \notin unacked
            <3>1. Moving!Closed /\ Moving!GiveBack(unacked)
                BY <1>6, <2>3 DEF Moving!AckMessage
            <3>2. count' \in Nat /\ count' =< Cardinality(moved) /\ lost' \in 0..MaxInterrupted
                BY <2>1 DEF MovingInv, MovingTypes, Counted
            <3>3. lost' = 0 /\ Acknowledges => lost = 0 /\ unacked \cap Moving!Range(dest) = {}
                BY <2>1, <2>3 DEF MovingInv, LeftBehind
            <3>. QED
                BY <2>1, <3>1, <3>2, <3>3, CloseStep
        <2>. QED
            BY <2>2, <2>3
    <1>7. ASSUME Moving!Timeout PROVE MovingInv'
        <2>1. /\ running /\ at = <<>> /\ Moving!Closed /\ Moving!GiveBack(unacked)
              /\ UNCHANGED <<op, dest, message, count, started, lost, moved>>
            BY <1>7 DEF Moving!Timeout
        <2>2. count' \in Nat /\ count' =< Cardinality(moved) /\ lost' \in 0..MaxInterrupted
            BY <2>1 DEF MovingInv, MovingTypes, Counted
        <2>3. lost' = 0 /\ Acknowledges => lost = 0 /\ unacked \cap Moving!Range(dest) = {}
            BY <2>1 DEF MovingInv, LeftBehind, Republished, Facing
        <2>. QED
            BY <2>1, <2>2, <2>3, CloseStep
    <1>8. ASSUME Moving!Crash PROVE MovingInv'
        <2>1. /\ running /\ Moving!Closed /\ Moving!GiveBack(unacked)
              /\ lost < MaxInterrupted /\ lost' = lost + 1
              /\ UNCHANGED <<op, dest, message, count, started, moved>>
            BY <1>8 DEF Moving!Crash
        <2>2. count' \in Nat /\ count' =< Cardinality(moved)
            BY <2>1 DEF MovingInv, MovingTypes, Counted
        <2>3. lost' \in 0..MaxInterrupted /\ lost' # 0
            BY <2>1 DEF MovingInv, MovingTypes, Moving!MigrateConstants
        <2>. QED
            BY <2>1, <2>2, <2>3, CloseStep
    <1>9. CASE UNCHANGED migrateVars
        BY <1>9 DEF migrateVars, MovingInv, MovingTypes, DeliveredOnce, Counted, RepublishedFirst,
                    LeftBehind, Places, Second, Facing, Republished, Acknowledges,
                    Moving!MovedOrKept, Moving!OnlyWanted, Moving!Moves, Moving!Sees
    <1>. QED
        BY <1>1, <1>2, <1>3, <1>4, <1>5, <1>6, <1>7, <1>8, <1>9, DeliverStep
        DEF Moving!Next, Moving!Work

(* The invariant holds before the first run.                               *)
LEMMA MovingInit == ASSUME Moving!MigrateConstants, Moving!Init PROVE MovingInv
    <1>1. /\ source \in Seq(Messages) /\ Moving!Range(source) = Messages
          /\ Moving!IsInjective(source)
        <2>1. IsFiniteSet(Messages)
            BY DEF Moving!MigrateConstants, Moving!IsFiniteSet, IsFiniteSet
        <2>2. source = Moving!SetToSeq(Messages)
            BY DEF Moving!Init
        <2>. QED
            BY <2>1, <2>2, SetToSeqFacts
    <1>2. source # <<>>
        BY <1>1 DEF Moving!Range, Moving!MigrateConstants
    <1>3. message \in Messages
        BY <1>1, <1>2, TailFacts DEF Moving!Init
    <1>4. /\ op \in Moving!Ops /\ unacked = {} /\ dest = <<>> /\ at = <<>> /\ count = 0
          /\ running = FALSE /\ started = 0 /\ lost = 0 /\ moved = {}
        BY DEF Moving!Init
    <1>5. Cardinality({}) = 0
        BY FS_EmptySet
    <1>6. MovingTypes
        <2>1. dest \in Seq(Messages) /\ {} \subseteq Messages /\ 0 \in Nat
            BY <1>4
        <2>2. 0 \in 0..MaxRuns /\ 0 \in 0..MaxInterrupted
            BY DEF Moving!MigrateConstants
        <2>. QED
            BY <1>1, <1>3, <1>4, <2>1, <2>2 DEF MovingTypes
    <1>7. DeliveredOnce /\ Counted
        BY <1>1, <1>4, <1>5, OpFacts DEF DeliveredOnce, Counted, Places, Facing
    <1>8. Moving!Range(dest) = {} /\ Moving!IsInjective(dest)
        BY <1>4 DEF Moving!Range, Moving!IsInjective
    <1>9. RepublishedFirst /\ LeftBehind
        BY <1>1, <1>4, <1>8 DEF RepublishedFirst, LeftBehind, Republished, Facing,
                                Moving!MovedOrKept, Moving!OnlyWanted
    <1>. QED
        BY <1>6, <1>7, <1>9 DEF MovingInv

(* The invariant implies what a migration promises.                        *)
LEMMA MovingRight == ASSUME Moving!MigrateConstants, MovingInv PROVE Moving!MigrateRight
    <1>1. /\ Moving!Cardinality(Messages) = Cardinality(Messages) /\ Cardinality(Messages) \in Nat
          /\ Moving!Cardinality(moved) = Cardinality(moved)
          /\ Cardinality(moved) \in Nat /\ Cardinality(moved) =< Cardinality(Messages)
        BY MessagesFinite DEF MovingInv, MovingTypes
    <1>2. Moving!TypeOK
        <2>1. Moving!Range(source) \cup Moving!Range(dest) \subseteq Messages
            BY DEF MovingInv, MovingTypes, Moving!Range
        <2>2. Moving!Range(at) \subseteq {"filter", "update_state", "moved", "ack"}
            <3>1. at \in {<<>>, <<"filter", Second, "ack">>, <<Second, "ack">>, <<"ack">>,
                          <<"filter", Second>>, <<Second>>}
                BY DEF MovingInv, DeliveredOnce, Places
            <3>. DEFINE S == {"filter", "update_state", "moved", "ack"}
            <3>2. ASSUME NEW x \in S
                  PROVE  /\ <<>> \in Seq(S) /\ <<"ack">> \in Seq(S)
                         /\ <<"filter", x, "ack">> \in Seq(S) /\ <<x, "ack">> \in Seq(S)
                         /\ <<"filter", x>> \in Seq(S) /\ <<x>> \in Seq(S)
                OBVIOUS
            <3>3. Second \in S
                BY SecondFacts
            <3>. HIDE DEF S
            <3>4. at \in Seq(S)
                BY <3>1, <3>2, <3>3
            <3>5. Moving!Range(at) \subseteq S
                BY <3>4 DEF Moving!Range
            <3>. QED
                BY <3>5 DEF S
        <2>3. count \in 0..Cardinality(Messages)
            BY <1>1 DEF MovingInv, MovingTypes, Counted
        <2>. QED
            BY <1>1, <2>1, <2>2, <2>3 DEF MovingInv, MovingTypes, Moving!TypeOK
    <1>3. Moving!LimitKept
        BY <1>1 DEF MovingInv, Counted, Moving!LimitKept
    <1>4. Moving!MovedAway
        BY DEF MovingInv, LeftBehind, Acknowledges, Moving!MovedAway
    <1>. QED
        BY <1>2, <1>3, <1>4 DEF MovingInv, RepublishedFirst, Moving!MigrateRight

-----------------------------------------------------------------------------
(* The parts together: the one that runs keeps its invariant, and the      *)
(* others stand still.                                                     *)
WaitingInv ==
    /\ scenario = "busy" => Busy!Inv
    /\ scenario = "patient" => Patient!Inv
    /\ scenario = "same" => Same!Inv

AppInv ==
    /\ scenario = "app" => OneApp!IInv
    /\ scenario = "apps" => TwoApps!IInv

BackendInv ==
    /\ scenario = "connections" => ConnectingInv
    /\ scenario = "dynamo" => SetupInv

(* A step of the composition is a step of the part that runs.              *)
LEMMA PartSteps ==
    ASSUME [ScenarioNext]_allVars
    PROVE  /\ scenario' = scenario
           /\ scenario = "busy" => [Busy!Next]_(Busy!vars)
           /\ scenario = "patient" => [Patient!Next]_(Patient!vars)
           /\ scenario = "same" => [Same!Next]_(Same!vars)
           /\ scenario = "connections" => [Connecting!Next]_connectionVars
           /\ scenario = "dynamo" => [Setup!Next]_tableVars
           /\ scenario = "app" => [OneApp!Next]_(OneApp!vars)
           /\ scenario = "apps" => [TwoApps!Next]_(TwoApps!vars)
           /\ scenario = "migrate" => [Moving!Next]_migrateVars
    <1>1. ASSUME UNCHANGED allVars
          PROVE  /\ UNCHANGED <<scenario, connectionVars, tableVars, migrateVars>>
                 /\ UNCHANGED <<Busy!vars, Patient!vars, Same!vars, OneApp!vars, TwoApps!vars>>
        BY <1>1 DEF allVars, consumerVars, appVars,
                    Busy!vars, Busy!serverVars, Busy!keyVars, Busy!resultVars, Busy!threadVars,
                    Patient!vars, Patient!serverVars, Patient!keyVars, Patient!resultVars,
                    Patient!threadVars,
                    Same!vars, Same!serverVars, Same!keyVars, Same!resultVars, Same!threadVars,
                    OneApp!vars, TwoApps!vars
    <1>2. CASE UNCHANGED allVars
        BY <1>1, <1>2
    <1>3. CASE ScenarioNext
        BY <1>3 DEF ScenarioNext, InChain, InConsumer, InRpc, InConnections, InTable, InApp,
                    InMigrate
    <1>. QED
        BY <1>2, <1>3

(* Whoever waits for a result on the Redis backend is covered by the       *)
(* subscription, in every scenario of ResultConsumer: get() calls that     *)
(* time out and are made again, that wait for ever, or that share a task   *)
(* while the connection is lost.                                           *)
THEOREM ResultsCovered == ScenarioSpec => []Covered
    <1>1. ScenarioInit => WaitingInv
        BY ConsumerConstants, Busy!InitInv, Patient!InitInv, Same!InitInv
        DEF ScenarioInit, WaitingInv
    <1>2. WaitingInv /\ [ScenarioNext]_allVars => WaitingInv'
        BY PartSteps, ConsumerConstants, Busy!NextInv, Patient!NextInv,
           Same!NextInv DEF WaitingInv
    <1>3. WaitingInv => Covered
        BY Busy!InvImplies, Patient!InvImplies, Same!InvImplies DEF WaitingInv, Covered
    <1>. QED
        BY <1>1, <1>2, <1>3, PTL DEF ScenarioSpec

(* No declaration of a task is lost (Celery.task, shared_task, finalize),  *)
(* with one application or with several.                                   *)
THEOREM DeclarationsKept == ScenarioSpec => []Registration
    <1>1. ScenarioInit => AppInv
        BY ApplicationConstants, OneApp!InitInv, TwoApps!InitInv DEF ScenarioInit, AppInv
    <1>2. AppInv /\ [ScenarioNext]_allVars => AppInv'
        BY PartSteps, ApplicationConstants, OneApp!NextInv, TwoApps!NextInv DEF AppInv
    <1>3. AppInv => Registration
        BY ApplicationConstants, OneApp!InvImplies, TwoApps!InvImplies DEF AppInv, Registration
    <1>. QED
        BY <1>1, <1>2, <1>3, PTL DEF ScenarioSpec

(* Any number of threads that need the connection of a backend open one    *)
(* cluster at a time and leave none behind but where connect() raised      *)
(* something that is not a time-out; those of a session manager that do    *)
(* not collide share one engine, which is disposed when it is given up;    *)
(* any number of processes that set up one DynamoDB table and agree have   *)
(* Time to Live as they want it: each one whose setup raised nothing, and  *)
(* all of them when the table was new and nothing else failed.             *)
THEOREM BackendsConnected == ScenarioSpec => []ConnectionsRight
    <1>1. ScenarioInit => BackendInv
        BY BackendConstants, ConnectingInit, SetupInit DEF ScenarioInit, BackendInv
    <1>2. BackendInv /\ [ScenarioNext]_allVars => BackendInv'
        BY PartSteps, BackendConstants, ConnectingStep, SetupStep DEF BackendInv
    <1>3. BackendInv => ConnectionsRight
        BY ConnectingRight, SetupRight DEF BackendInv, ConnectionsRight
    <1>. QED
        BY <1>1, <1>2, <1>3, PTL DEF ScenarioSpec

(* Moving messages between brokers or queues (migrate_tasks, move, each    *)
(* with or without task names and ack_messages): none that is to be moved  *)
(* is lost, and none at all without ack_messages, only what was asked for  *)
(* is moved, no run exceeds its limit, and nothing that was moved is left  *)
(* behind, for any messages, limits, runs and interruptions.               *)
THEOREM MessagesMoved == ScenarioSpec => []MigrateRight
    <1>. DEFINE I == scenario = "migrate" => MovingInv
    <1>1. ScenarioInit => I
        BY ApplicationConstants, MovingInit DEF ScenarioInit
    <1>2. I /\ [ScenarioNext]_allVars => I'
        BY PartSteps, ApplicationConstants, MovingStep
    <1>3. I => MigrateRight
        BY ApplicationConstants, MovingRight DEF MigrateRight
    <1>. QED
        BY <1>1, <1>2, <1>3, PTL DEF ScenarioSpec
=============================================================================
