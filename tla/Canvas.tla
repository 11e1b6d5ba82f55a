------------------------------- MODULE Canvas -------------------------------
(* celery/canvas.py: how signatures are composed with |, frozen, applied,  *)
(* and how the workers carry a composed work-flow on.                      *)
(*                                                                         *)
(* A signature is a value here.  The options that matter for the flow are  *)
(* fields of it: the ids that freezing gives it, the chord it reports to   *)
(* and what follows it.  A work-flow is applied in one step, and one step  *)
(* executes one task and applies what follows from it (the chord of redis  *)
(* is used; the steps inside it are those of ChordRedis).  A task returns  *)
(* the term of its name and arguments, so that a value tells where it      *)
(* comes from.                                                             *)
EXTENDS Integers, Sequences, FiniteSets, SequencesExt, TLC

CONSTANTS Expressions,   \* the work-flows that are written
          Slow           \* whether joining a header may time out

VARIABLES expr,      \* the work-flow as it was written
          result,    \* the result handle its caller holds
          pending,   \* task messages
          stored,    \* results of tasks: id -> value
          size,      \* group id -> size of the chord (the .s keys)
          parts,     \* group id -> results reported to the chord (the .j keys)
          saved,     \* group id -> structure of the header (saved GroupResult)
          joining,   \* chords whose header is being joined: <<gid, body>>
          failed,    \* chords given up
          ran        \* how often each task was executed

vars == <<expr, result, pending, stored, size, parts, saved, joining, failed, ran>>

-----------------------------------------------------------------------------
(* Signatures, results and values.  An empty sequence stands for an option *)
(* that is not there.                                                      *)
None == <<>>

Blank == [type |-> "task", name |-> 0, immutable |-> FALSE, args |-> <<>>, tasks |-> <<>>,
          body |-> None, id |-> None, gid |-> None, chord |-> None, index |-> 0, chain |-> <<>>]

Task(n, imm) == [Blank EXCEPT !.name = n, !.immutable = imm]
ChainOf(ts) == [Blank EXCEPT !.type = "chain", !.tasks = ts]
GroupOf(ts) == [Blank EXCEPT !.type = "group", !.tasks = ts]

\* _maybe_group: the header of a chord is a list of tasks
ChordOf(header, body) ==
    [Blank EXCEPT !.type = "chord", !.body = <<body>>,
                  !.tasks = IF header.type \in {"group", "chain"} THEN header.tasks ELSE <<header>>]

Is(t, s) == s.type = t
IsEmptyGroup(s) == Is("group", s) /\ s.tasks = <<>>
MaybeUnroll(s) == IF Is("group", s) /\ Len(s.tasks) = 1 THEN s.tasks[1] ELSE s

AsyncResult(i) == [id |-> i, group |-> FALSE, of |-> <<>>]
GroupResult(i, rs) == [id |-> i, group |-> TRUE, of |-> rs]

Value(n, in) == [of |-> n, in |-> in]
ListOf(vs) == Value(0, vs)

RECURSIVE Names(_)
Names(s) == (IF Is("task", s) THEN <<s.name>> ELSE <<>>)
            \o FlattenSeq([i \in DOMAIN s.tasks |-> Names(s.tasks[i])])
            \o FlattenSeq([i \in DOMAIN s.body |-> Names(s.body[i])])

\* a new id, told apart by what it names and by the step that makes it
Uuid(s, g) == <<s.type, Names(s), g>>

-----------------------------------------------------------------------------
(* a | b                                                                   *)
RECURSIVE Or(_, _), ChainOr(_, _)

\* Signature.__or__
TaskOr(a, b) ==
    IF Is("chain", b) THEN ChainOf(<<a>> \o b.tasks) ELSE ChainOf(<<a, MaybeUnroll(b)>>)

\* _chain.__or__
ChainOr(a, b) ==
    LET n == Len(a.tasks)
        tail == a.tasks[n]
        WithTail(t) == [a EXCEPT !.tasks[n] = t]
        IntoBody(t) == [t EXCEPT !.body = <<Or(t.body[1], b)>>]
    IN  CASE IsEmptyGroup(b) -> a
          [] Is("group", b) /\ Len(b.tasks) = 1 -> Or(a, b.tasks[1])
          [] Is("group", b) /\ Len(b.tasks) > 1 ->
               IF n = 0 THEN b
               ELSE IF Is("chord", tail) THEN WithTail(IntoBody(tail))
               ELSE ChainOf(Append(a.tasks, b))
          [] Is("chain", b) -> FoldLeft(Or, a, b.tasks)
          [] OTHER ->
               IF n > 0 /\ Is("group", tail)
               THEN LET c == ChordOf(tail, b)
                    IN  IF n > 1 /\ Is("chord", a.tasks[n - 1])
                        THEN [a EXCEPT !.tasks = [SubSeq(@, 1, n - 1) EXCEPT
                                    ![n - 1].body = <<Or(@[1], c)>>]]
                        ELSE WithTail(c)
               ELSE IF n > 0 /\ Is("chord", tail) /\ ~ Is("chord", b)
               THEN WithTail(IntoBody(tail))
               ELSE ChainOf(Append(a.tasks, b))

\* group.__or__
GroupOr(a, b) == IF IsEmptyGroup(b) THEN a ELSE ChordOf(a, b)

\* _chord.__or__
ChordOr(a, b) ==
    IF ~ Is("chain", b) /\ (Is("group", b) => Len(b.tasks) = 1)
    THEN [a EXCEPT !.body = <<Or(@[1], MaybeUnroll(b))>>]
    ELSE TaskOr(a, b)

Or(a, b) == CASE Is("task", a) -> TaskOr(a, b) [] Is("chain", a) -> ChainOr(a, b)
              [] Is("group", a) -> GroupOr(a, b) [] Is("chord", a) -> ChordOr(a, b)

\* chain(X, Y, Z), _chain.__new__
Chain(ts) == FoldLeft(Or, ChainOf(<<>>), ts)

\* the signature a written work-flow builds; group.__init__ takes the tasks
\* of a group that is its only member
RECURSIVE Build(_)
Build(e) ==
    LET built == [i \in DOMAIN e.tasks |-> Build(e.tasks[i])]
    IN  CASE Is("task", e) -> e
          [] Is("chain", e) -> Chain(built)
          [] Is("group", e) -> IF Len(built) = 1 /\ Is("group", built[1]) THEN built[1] ELSE GroupOf(built)
          [] Is("chord", e) -> ChordOf(GroupOf(built), Build(e.body[1]))

\* Signature._merge: arguments are prepended, group_id is never replaced
Merge(s, args, o) ==
    [s EXCEPT !.args = IF s.immutable THEN @ ELSE args \o @,
              !.gid = IF @ = None THEN o.gid ELSE @,
              !.chord = IF o.chord = None THEN @ ELSE o.chord,
              !.chain = IF o.chain = <<>> THEN @ ELSE o.chain]

(* A signature travels as a dictionary, and signature() makes one of it    *)
(* again: from_dict() of each class calls the constructor, with the        *)
(* options, but for a chain and a group without the arguments.             *)
RECURSIVE FromDict(_)
Rebuilt(ds) == [i \in DOMAIN ds |-> FromDict(ds[i])]
ChainFromDict(d) == [d EXCEPT !.args = <<>>, !.immutable = FALSE, !.tasks = Rebuilt(@)]
GroupFromDict(d) == [d EXCEPT !.args = <<>>, !.immutable = FALSE, !.tasks = Rebuilt(@)]
ChordFromDict(d) == [d EXCEPT !.tasks = Rebuilt(@), !.body = Rebuilt(@)]
FromDict(d) == CASE Is("task", d) -> d [] Is("chain", d) -> ChainFromDict(d)
                 [] Is("group", d) -> GroupFromDict(d) [] Is("chord", d) -> ChordFromDict(d)

Clone(s, args) == FromDict(Merge(s, args, Blank))

-----------------------------------------------------------------------------
(* Freezing: a signature gets its ids, a result handle stands for it.      *)
(* Frozen is the pair of both.  The parameter o holds the options the      *)
(* caller hands down (id, gid, chord and index), g makes new ids new.      *)
RECURSIVE Freeze(_, _, _), FreezeUnroll(_, _, _, _), Walk(_, _, _, _, _, _)

Frozen(s, r) == [sig |-> s, res |-> r]

\* Signature.freeze
FreezeTask(s, o, g) ==
    LET id == CASE s.id # None -> s.id [] o.id # None -> o.id [] OTHER -> Uuid(s, g)
    IN  Frozen([Merge(s, <<>>, o) EXCEPT !.id = id,
                    !.index = IF o.index = 0 THEN @ ELSE o.index],
               AsyncResult(id))

\* group._freeze_unroll: the tasks of nested groups are put before the
\* others, the last one first
FreezeUnroll(stack, done, o, g) ==
    IF stack = <<>> THEN done
    ELSE LET t == Head(stack)
             rest == Tail(stack)
         IN  CASE Is("group", t) -> FreezeUnroll(Reverse(t.tasks) \o rest, done, o, g)
               [] Is("chain", t) /\ t.tasks = <<>> -> FreezeUnroll(rest, done, o, g)
               [] OTHER ->
                    FreezeUnroll(rest,
                        Append(done, Freeze(t, [o EXCEPT !.id = None, !.index = Len(done) + 1], g)),
                        o, g)

Sigs(frozen) == [i \in DOMAIN frozen |-> frozen[i].sig]
Results(frozen) == [i \in DOMAIN frozen |-> frozen[i].res]

\* group._freeze_group_tasks
FrozenGroup(s, id, frozen, o) ==
    Frozen([s EXCEPT !.id = id, !.tasks = Sigs(frozen),
                !.gid = IF o.gid = None THEN @ ELSE o.gid,
                !.chord = IF o.chord = None THEN @ ELSE o.chord,
                !.index = IF o.index = 0 THEN @ ELSE o.index],
           GroupResult(id, Results(frozen)))
FreezeGroup(s, o, g) ==
    LET id == CASE s.id # None -> s.id [] o.gid # None -> o.gid [] OTHER -> Uuid(s, g)
    IN  FrozenGroup(s, id, FreezeUnroll(s.tasks, <<>>, o, g), o)

\* _chord.freeze: the header with its body as the chord, then the body
FrozenChord(s, header, body) ==
    Frozen([s EXCEPT !.tasks = header.sig.tasks, !.id = header.sig.id, !.body = <<body.sig>>],
           body.res)
FreezeChord(s, o, g) ==
    FrozenChord(s, FreezeGroup(GroupOf(s.tasks), [Blank EXCEPT !.chord = s.body], g),
                Freeze(s.body[1], o, g))

\* the head of a chain: nested chains are spliced, empty groups dropped
RECURSIVE HeadOf(_)
HeadOf(steps) ==
    IF steps = <<>> THEN steps
    ELSE LET h == MaybeUnroll(steps[1])
             rest == Tail(steps)
         IN  CASE Is("chain", steps[1]) -> HeadOf(steps[1].tasks \o rest)
               [] IsEmptyGroup(h) /\ rest # <<>> -> HeadOf(rest)
               [] OTHER -> <<h>> \o rest

\* _chain.prepare_steps, from the last step to the first.  done is the list
\* of what is prepared, first step first (the code keeps it reversed), and
\* kept what the chain itself holds afterwards.
WalkOver(t, rest, done, kept, args, o, g) ==
    LET With(f) == Walk(rest, <<f>> \o done, <<f.sig>> \o kept, args, o, g)
    IN  CASE IsEmptyGroup(t) /\ (rest # <<>> \/ done # <<>>) -> Walk(rest, done, kept, args, o, g)
          [] Is("chain", t) -> Walk(rest \o t.tasks, done, kept, args, o, g)
          [] Is("group", t) /\ done # <<>> ->
               \* group(...) | s becomes chord(group, s)
               Walk(rest, <<Freeze(ChordOf(t, done[1].sig), Blank, g)>> \o Tail(done),
                    <<t>> \o kept, args, o, g)
          [] OTHER -> With(Freeze(t, IF done = <<>> THEN o ELSE Blank, g))
Walk(steps, done, kept, args, o, g) ==
    IF steps = <<>> THEN [done |-> done, kept |-> kept]
    ELSE LET rest == Front(steps)
             t == MaybeUnroll(Last(steps))
         IN  WalkOver(IF rest = <<>> THEN Clone(t, args) ELSE t, rest, done, kept, args, o, g)

PrepareSteps(s, args, o, g) == Walk(HeadOf(s.tasks), <<>>, <<>>, args, o, g)

\* _chain.freeze
FrozenChain(s, steps) ==
    LET res == Last(steps.done).res IN Frozen([s EXCEPT !.tasks = steps.kept, !.id = res.id], res)
FreezeChain(s, o, g) == FrozenChain(s, PrepareSteps(s, s.args, o, g))

Freeze(s, o, g) == CASE Is("task", s) -> FreezeTask(s, o, g) [] Is("chain", s) -> FreezeChain(s, o, g)
                     [] Is("group", s) -> FreezeGroup(s, o, g) [] Is("chord", s) -> FreezeChord(s, o, g)

-----------------------------------------------------------------------------
(* Applying: what is published and stored on the way.                      *)
RECURSIVE Apply(_, _, _, _), Descend(_), Prepared(_, _, _)

Given(new, old) == IF new = None THEN old ELSE new

Effect(out, sz, sv, r) == [out |-> out, size |-> sz, saved |-> sv, res |-> r]
Together(es, r) ==
    Effect(UNION {es[i].out : i \in DOMAIN es}, FoldLeft(LAMBDA f, e : e.size @@ f, <<>>, es),
           FoldLeft(LAMBDA f, e : e.saved @@ f, <<>>, es), r)

\* Mutant of Descend: a chain counts for all of its steps.
DescendOfAll(s) ==
    CASE Is("task", s) -> 1
      [] Is("chord", s) -> Descend(s.body[1])
      [] OTHER -> FoldLeft(+, 0, [i \in DOMAIN s.tasks |-> Descend(s.tasks[i])])

\* _chord._descend: how many results a part of a header brings
Descend(s) ==
    LET sizes == [i \in DOMAIN s.tasks |-> Descend(s.tasks[i])]
    IN  CASE Is("task", s) -> 1
          [] Is("group", s) -> FoldLeft(+, 0, sizes)
          [] Is("chord", s) -> Descend(s.body[1])
          [] Is("chain", s) -> FoldLeft(LAMBDA n, k : IF k > 0 THEN k ELSE n, 0, sizes)

\* Signature.apply_async of a single task
ApplyTask(s, args, o, g) ==
    LET m == Merge(s, args, o)
        id == Given(m.id, Uuid(s, g))
    IN  Effect({[m EXCEPT !.id = id]}, <<>>, <<>>, AsyncResult(id))

\* _chain.run: the first step is applied, the others travel with it
ApplySteps(done, follows, g) ==
    LET first == Apply(done[1].sig, <<>>, [Blank EXCEPT !.chain = Sigs(Tail(done)) \o follows], g)
    IN  [first EXCEPT !.res = IF Len(done) = 1 THEN @ ELSE Last(done).res]
ApplyChain(s, args, o, g) ==
    LET in == IF s.immutable THEN s.args ELSE args \o s.args
        last == [Blank EXCEPT !.id = s.id, !.gid = Given(o.gid, s.gid), !.chord = Given(o.chord, s.chord)]
    IN  ApplySteps(PrepareSteps(s, in, last, g).done, Given(o.chain, s.chain), g + 1)

\* group._prepared: nested groups are unrolled
Prepared(tasks, gid, g) ==
    FlattenSeq([i \in DOMAIN tasks |->
        CASE Is("group", tasks[i]) -> Prepared(tasks[i].tasks, gid, g)
          [] Is("chain", tasks[i]) /\ tasks[i].tasks = <<>> -> <<>>
          [] OTHER -> <<Freeze(tasks[i], [Blank EXCEPT !.gid = gid, !.index = i], g)>>])

\* group._apply_tasks
ApplyTasks(frozen, gid, chord, follows, args, g) ==
    LET ChordFor(t) == Given(chord, t.chord)
        Sent(t) == Apply(t, args, [Blank EXCEPT !.gid = gid, !.chord = ChordFor(t),
                                                !.chain = follows], g)
        total == FoldLeft(LAMBDA n, f : n + Descend(f.sig), 0, frozen)
        all == Together([i \in DOMAIN frozen |-> Sent(frozen[i].sig)],
                        IF Len(frozen) = 1 /\ frozen[1].res.group THEN frozen[1].res
                        ELSE GroupResult(gid, Results(frozen)))
    IN  IF frozen = <<>> THEN Effect({}, <<>>, <<>>, GroupResult(gid, <<>>))
        ELSE [all EXCEPT !.size = IF ChordFor(Last(frozen).sig) = None THEN @ ELSE (gid :> total) @@ @]

\* group.apply_async and _freeze_gid
ApplyGroup(s, args, o, g) ==
    LET gid == Given(o.id, Given(s.id, Uuid(s, g)))
    IN  ApplyTasks(Prepared(s.tasks, gid, g), gid, Given(o.chord, s.chord), Given(o.chain, s.chain),
                   args, g + 1)

\* _chord.run: the body goes along with every part of the header
ApplyHeader(header, body, gid, args, g) ==
    LET complex == \E i \in DOMAIN header.res.of : header.res.of[i].group
        sent == IF header.sig.tasks = <<>> THEN Apply(body.sig, <<ListOf(<<>>)>>, Blank, g)
                ELSE ApplyGroup(header.sig, args, [Blank EXCEPT !.id = gid], g)
    IN  [sent EXCEPT !.res = body.res,
                     !.saved = IF complex THEN (gid :> header.res) @@ @ ELSE @]

\* _chord.apply_async: the body takes over what follows the chord
ApplyChord(s, args, o, g) ==
    LET in == IF s.immutable THEN s.args ELSE args \o s.args
        gid == Given(s.id, Uuid(s, g))
        With(body) ==
            ApplyHeader(FreezeGroup([GroupOf(s.tasks) EXCEPT !.id = gid],
                                    [Blank EXCEPT !.gid = gid, !.chord = <<body.sig>>], g),
                        body, gid, in, g + 1)
    IN  With(Freeze([s.body[1] EXCEPT !.gid = Given(Given(o.gid, s.gid), @),
                                      !.chord = Given(Given(o.chord, s.chord), @),
                                      !.chain = Given(Given(o.chain, s.chain), @)],
                    [Blank EXCEPT !.id = s.id, !.gid = gid], g))

Apply(s, args, o, g) ==
    CASE Is("task", s) -> ApplyTask(s, args, o, g) [] Is("chain", s) -> ApplyChain(s, args, o, g)
      [] Is("group", s) -> ApplyGroup(s, args, o, g) [] Is("chord", s) -> ApplyChord(s, args, o, g)

-----------------------------------------------------------------------------
(* Eager execution: Signature.apply, _chain.apply, group.apply and         *)
(* _chord.apply, the value they return.                                    *)
RECURSIVE Eager(_, _), EagerSteps(_, _, _)

EagerSteps(ts, in, any) ==
    IF ts = <<>> THEN in[1]
    ELSE IF IsEmptyGroup(ts[1]) /\ (Len(ts) > 1 \/ any) THEN EagerSteps(Tail(ts), in, any)
    ELSE EagerSteps(Tail(ts), <<Eager(ts[1], in)>>, TRUE)

Eager(s, args) ==
    CASE Is("task", s) -> Value(s.name, IF s.immutable THEN s.args ELSE args \o s.args)
      [] Is("chain", s) -> EagerSteps(s.tasks, args, FALSE)
      [] Is("group", s) -> LET frozen == Prepared(s.tasks, None, 0)
                           IN  ListOf([i \in DOMAIN frozen |-> Eager(frozen[i].sig, args)])
      [] Is("chord", s) -> Eager(s.body[1], <<Eager(GroupOf(s.tasks), args)>>)

-----------------------------------------------------------------------------
(* Execution by the workers.                                               *)
RECURSIVE Ready(_), Get(_)

\* AsyncResult.ready and get, GroupResult.ready and join
Ready(r) == IF r.group THEN \A i \in DOMAIN r.of : Ready(r.of[i]) ELSE r.id \in DOMAIN stored
Get(r) == IF r.group THEN ListOf([i \in DOMAIN r.of |-> Get(r.of[i])]) ELSE stored[r.id]

Applied(e) == result = e.res /\ pending = e.out /\ size = e.size /\ saved = e.saved

Init ==
    /\ expr \in Expressions
    /\ Applied(Apply(Build(expr), <<>>, Blank, 0))
    /\ stored = <<>> /\ parts = <<>> /\ joining = {} /\ failed = {} /\ ran = <<>>

Without(f, k) == [x \in DOMAIN f \ {k} |-> f[x]]
Times(f, k) == IF k \in DOMAIN f THEN f[k] ELSE 0

\* the reports of a chord in the order of their group_index, those with the
\* same one in any order
Ordered(ps) ==
    {[i \in DOMAIN q |-> q[i].value] : q \in
        {q \in SetToSeqs(ps) : \A i, j \in DOMAIN q : i < j => q[i].index <= q[j].index}}

\* on_chord_part_return: the last part applies the body, or joins the header if
\* it has structure; next is what the task itself has applied
OnChordPartReturn(m, value, next, g) ==
    LET sizes == next.size @@ size
        structures == next.saved @@ saved
        part == [index |-> m.index, id |-> m.id, value |-> value]
        heard == {part} \union (IF m.gid \in DOMAIN parts THEN parts[m.gid] ELSE {})
        complete == m.gid \in DOMAIN sizes /\ Cardinality(heard) = sizes[m.gid]
        left == (pending \ {m}) \union next.out
        ApplyBody(body) ==
            /\ pending' = left \union body.out
            /\ size' = body.size @@ Without(sizes, m.gid)
            /\ saved' = body.saved @@ structures
            /\ parts' = Without(parts, m.gid)
            /\ UNCHANGED joining
    IN  \/ /\ m.chord = None
           /\ pending' = left /\ size' = sizes /\ saved' = structures
           /\ UNCHANGED <<parts, joining>>
        \/ /\ m.chord # None /\ (complete => m.gid \in DOMAIN structures)
           /\ pending' = left /\ size' = sizes /\ saved' = structures
           /\ parts' = (m.gid :> heard) @@ parts
           /\ joining' = IF complete THEN joining \union {<<m.gid, m.chord[1]>>} ELSE joining
        \/ /\ m.chord # None /\ complete /\ m.gid \notin DOMAIN structures
           /\ \E list \in Ordered(heard) :
                 ApplyBody(Apply(FromDict(m.chord[1]), <<ListOf(list)>>, Blank, g + 5))

\* trace_task: the task is executed, the next step of its chain is applied, its
\* result is stored and its chord hears of it
Execute(m) ==
    LET v == Value(m.name, m.args)
        g == 10 * (1 + Cardinality(DOMAIN stored))
    IN  /\ m \in pending
        /\ ran' = (m.name :> Times(ran, m.name) + 1) @@ ran
        /\ stored' = (m.id :> v) @@ stored
        /\ OnChordPartReturn(m, v,
               IF m.chain = <<>> THEN Effect({}, <<>>, <<>>, <<>>)
               ELSE Apply(FromDict(Head(m.chain)), <<v>>, [Blank EXCEPT !.chain = Tail(m.chain)], g),
               g)
        /\ UNCHANGED <<expr, result, failed>>

\* header_result.join() of on_chord_part_return, then the body
Join(j) ==
    LET g == 10 * (1 + Cardinality(DOMAIN stored)) + 5
        ApplyBody(body) ==
            /\ pending' = pending \union body.out
            /\ size' = body.size @@ Without(size, j[1])
            /\ saved' = body.saved @@ saved
    IN  /\ j \in joining /\ Ready(saved[j[1]])
        /\ joining' = joining \ {j}
        /\ ApplyBody(Apply(FromDict(j[2]), <<ListOf(Get(saved[j[1]]).in)>>, Blank, g))
        /\ parts' = Without(parts, j[1])
        /\ UNCHANGED <<expr, result, stored, failed, ran>>

\* result_chord_join_timeout: the chord fails with a join error
JoinTimeout(j) ==
    /\ Slow /\ j \in joining /\ ~ Ready(saved[j[1]])
    /\ joining' = joining \ {j} /\ failed' = failed \union {j[1]}
    /\ size' = Without(size, j[1]) /\ parts' = Without(parts, j[1])
    /\ UNCHANGED <<expr, result, pending, stored, saved, ran>>

Next == \/ \E m \in pending : Execute(m)
        \/ \E j \in joining : Join(j)
        \/ \E j \in joining : JoinTimeout(j)

Spec == Init /\ [][Next]_vars /\ WF_vars(Next)

-----------------------------------------------------------------------------
(* What a work-flow means: the steps of a chain get the value of the step  *)
(* before, the members of a group and of the groups in it get the same     *)
(* value, a body gets the list of the results of its header.               *)
RECURSIVE Meaning(_, _), Members(_)
Members(e) == FlattenSeq([i \in DOMAIN e.tasks |->
                  IF Is("group", e.tasks[i]) THEN Members(e.tasks[i]) ELSE <<e.tasks[i]>>])
Meaning(e, args) ==
    LET list == ListOf([i \in DOMAIN Members(e) |-> Meaning(Members(e)[i], args)])
        Step(in, t) == IF IsEmptyGroup(t) THEN in ELSE <<Meaning(t, in)>>
    IN  CASE Is("task", e) -> Value(e.name, IF e.immutable THEN <<>> ELSE args)
          [] Is("group", e) -> list
          [] Is("chain", e) -> FoldLeft(Step, args, e.tasks)[1]
          [] Is("chord", e) -> Meaning(e.body[1], <<list>>)

Quiet == pending = {} /\ joining = {}

(* What the code does not carry out as written:                            *)
(*   - _freeze_unroll reverses the tasks of a group in a header or a group; *)
(*   - a part of a header that ends in a group sets the size of the whole  *)
(*     chord anew, so that the header may be joined too early;             *)
(*   - a chord whose body ends in a group, followed by a chord in          *)
(*     chain(), hands the rest of the chain to every member of that group. *)
RECURSIVE Exception(_)
Exception(s) ==
    LET n == Len(s.tasks)
        Ends(i) == Descend(s.tasks[i]) > 1
    IN  \/ s.type \in {"group", "chord"} /\ \E i \in 1..n : Is("group", s.tasks[i])
        \/ Is("chord", s) /\ n > 1 /\ \E i \in 1..n : Ends(i)
        \/ Is("chain", s) /\ \E i \in 1..(n - 1) : Is("chord", s.tasks[i]) /\ Ends(i)
        \/ \E i \in 1..n : Exception(s.tasks[i])
        \/ \E i \in DOMAIN s.body : Exception(s.body[i])

(* The work-flow is done: every task was executed once, no chord was given *)
(* up, and the handle the caller got from apply_async gives the value the  *)
(* work-flow means.                                                        *)
DoneAsWritten ==
    /\ failed = {} /\ DOMAIN ran = ToSet(Names(expr)) /\ \A n \in DOMAIN ran : ran[n] = 1
    /\ Ready(result) /\ Get(result) = Meaning(expr, <<>>)

(* Whatever the order in which the tasks run, nothing is left undone when  *)
(* there is nothing left to do, and the eager mode returns the same value. *)
RunsAsWritten ==
    ~ Exception(Build(expr)) =>
        /\ Quiet => DoneAsWritten
        /\ Eager(Build(expr), <<>>) = Meaning(expr, <<>>)

(* A chord is only given up when one of its parts has failed; none does    *)
(* here.                                                                   *)
NoChordGivenUp == failed = {}
=============================================================================
