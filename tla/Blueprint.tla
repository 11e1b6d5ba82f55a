------------------------------ MODULE Blueprint ------------------------------
(***************************************************************************)
(* How a Blueprint (bootsteps.py) puts its steps in order: the steps it    *)
(* was given and all they require, the graph of utils/graph.py with the    *)
(* edges of the `last' step, Tarjan's components, Khan's sort of them, and *)
(* the steps that are then made and included.                              *)
(*                                                                         *)
(* The algorithms are taken step by step, from every acyclic requirement   *)
(* relation on Steps.  (A cycle in `requires' makes _firstpass go round    *)
(* for ever; the code does not claim to detect it.)                        *)
(***************************************************************************)
EXTENDS Integers, Sequences, SequencesExt, FiniteSets, FiniteSetsExt

CONSTANTS N  \* bound: step classes

BlueprintConstants == N \in Nat \ {0}

Steps == 1..N

VARIABLES requires,  \* step -> the steps it requires
          claimed,   \* types: the steps the blueprint was given
          last,      \* {} or the step that is marked last
          phase,
          known,     \* steps
          stream,    \* _firstpass: requirements still to be looked at
          adjacent,  \* the graph: step -> successors, with repetitions
          low, stack, frames, components,  \* _tarjan72
          arcs, count, ready, sorted,      \* topsort and _khan62
          order,     \* the steps made
          included   \* parent.steps

vars == <<requires, claimed, last, phase, known, stream, adjacent, low, stack, frames,
          components, arcs, count, ready, sorted, order, included>>
given == <<requires, claimed, last>>
tarjan == <<low, stack, frames, components>>
khan == <<arcs, count, ready, sorted>>

Ascending(S) == SetToSortSeq(S, <)
Number(s, x) == Cardinality({i \in DOMAIN s : s[i] = x})

\* What a step needs, directly or not.
Closure(S, rel) ==
    LET reach[k \in 0..N] == IF k = 0 THEN S ELSE reach[k - 1] \cup UNION {rel[s] : s \in reach[k - 1]}
    IN  reach[N]
Acyclic(rel) == \A s \in Steps : s \notin Closure(rel[s], rel)

TypeOK ==
    /\ phase \in {"firstpass", "tarjan", "components", "khan", "make", "done"}
    /\ known \subseteq Steps /\ DOMAIN low \subseteq known
    /\ Range(order) \subseteq known /\ Range(included) \subseteq known

(***************************************************************************)
(* Blueprint: claim_steps, _find_last, _firstpass, _finalize_steps         *)
(***************************************************************************)
FindLast == last \cap claimed

\* One round of _firstpass: a requirement is put into the stream again even if it
\* was known.
Firstpass ==
    /\ phase = "firstpass" /\ stream # <<>>
    /\ LET nodes == Ascending(Head(stream))
       IN  /\ known' = known \cup Range(nodes)
           /\ stream' = Tail(stream) \o [i \in DOMAIN nodes |-> requires[nodes[i]]]
    /\ UNCHANGED <<given, phase, adjacent, tarjan, khan, order, included>>

\* Mutant of FinalizeSteps: the last step has no more edges than the others.
FinalizeStepsWithoutLast ==
    /\ phase = "firstpass" /\ stream = <<>>
    /\ adjacent' = [s \in known |-> Ascending(requires[s])]
    /\ phase' = "tarjan"
    /\ UNCHANGED <<given, known, stream, tarjan, khan, order, included>>

\* DependencyGraph.update; the last step depends on every other.
FinalizeSteps ==
    /\ phase = "firstpass" /\ stream = <<>>
    /\ adjacent' = [s \in known |->
            Ascending(requires[s]) \o (IF s \in FindLast THEN Ascending(known \ {s}) ELSE <<>>)]
    /\ phase' = "tarjan"
    /\ UNCHANGED <<given, known, stream, tarjan, khan, order, included>>

(***************************************************************************)
(* DependencyGraph._tarjan72: visit(), with a frame for each call.         *)
(***************************************************************************)
Visit(node) ==
    /\ low' = [s \in DOMAIN low \cup {node} |-> IF s = node THEN Cardinality(DOMAIN low) ELSE low[s]]
    /\ frames' = Append(frames, [node |-> node, num |-> Cardinality(DOMAIN low), pos |-> Len(stack), i |-> 1])
    /\ stack' = Append(stack, node)
    /\ UNCHANGED components

VisitNext ==
    /\ phase = "tarjan" /\ frames = <<>> /\ DOMAIN low # known
    /\ Visit(Min(known \ DOMAIN low))
    /\ UNCHANGED <<given, phase, known, stream, adjacent, khan, order, included>>

\* The loop over the successors: visited first, then taken into account.
VisitSuccessor ==
    LET f == Last(frames)
        s == adjacent[f.node][f.i]
    IN  /\ phase = "tarjan" /\ frames # <<>>
        /\ f.i =< Len(adjacent[f.node])
        /\ IF s \notin DOMAIN low
             THEN Visit(s)
             ELSE /\ low' = [low EXCEPT ![f.node] = Min({@, low[s]})]
                  /\ frames' = [frames EXCEPT ![Len(frames)].i = @ + 1]
                  /\ UNCHANGED <<stack, components>>
        /\ UNCHANGED <<given, phase, known, stream, adjacent, khan, order, included>>

\* The end of a visit: the root of a component takes it from the stack.
VisitDone ==
    LET f == Last(frames)
        component == SubSeq(stack, f.pos + 1, Len(stack))
    IN  /\ phase = "tarjan" /\ frames # <<>>
        /\ f.i > Len(adjacent[f.node])
        /\ frames' = Front(frames)
        /\ IF f.num = low[f.node]
             THEN /\ components' = Append(components, component)
                  /\ stack' = SubSeq(stack, 1, f.pos)
                  /\ low' = [s \in DOMAIN low |-> IF s \in Range(component) THEN Cardinality(known) ELSE low[s]]
             ELSE UNCHANGED <<components, stack, low>>
        /\ UNCHANGED <<given, phase, known, stream, adjacent, khan, order, included>>

(***************************************************************************)
(* DependencyGraph.topsort: the graph of the components, and _khan62.      *)
(***************************************************************************)
ComponentOf(s) == CHOOSE c \in DOMAIN components : s \in Range(components[c])

\* The edges between components, as many times as there are edges between members.
Condense ==
    /\ phase = "tarjan" /\ frames = <<>> /\ DOMAIN low = known
    /\ arcs' = [c \in DOMAIN components |->
            FlattenSeq([i \in DOMAIN Ascending(Range(components[c])) |->
                LET s == Ascending(Range(components[c]))[i]
                IN  SelectSeq([j \in DOMAIN adjacent[s] |-> ComponentOf(adjacent[s][j])], LAMBDA d : d # c)])]
    /\ count' = [c \in DOMAIN components |->
            FoldSet(LAMBDA d, n : n + Number(arcs'[d], c), 0, DOMAIN components)]
    /\ ready' = SelectSeq([c \in DOMAIN components |-> c], LAMBDA c : count'[c] = 0)
    /\ phase' = "khan"
    /\ UNCHANGED <<given, known, stream, adjacent, tarjan, sorted, order, included>>

\* One round: the last one ready, and those that only waited for it.
Khan ==
    LET c == Last(ready)
        left == [d \in DOMAIN count |-> count[d] - Number(arcs[c], d)]
        at == SelectSeq([i \in DOMAIN arcs[c] |-> i],
                LAMBDA i : left[arcs[c][i]] = 0 /\ \A j \in i + 1 .. Len(arcs[c]) : arcs[c][j] # arcs[c][i])
    IN  /\ phase = "khan" /\ ready # <<>>
        /\ sorted' = Append(sorted, c)
        /\ count' = left
        /\ ready' = Front(ready) \o [k \in DOMAIN at |-> arcs[c][at[k]]]
        /\ UNCHANGED <<given, phase, known, stream, adjacent, tarjan, arcs, order, included>>

\* The result is turned round, and the first step of each component is kept.
Sorted ==
    /\ phase = "khan" /\ ready = <<>>
    /\ order' = [i \in DOMAIN sorted |-> components[Reverse(sorted)[i]][1]]
    /\ phase' = "make"
    /\ UNCHANGED <<given, known, stream, adjacent, tarjan, khan, included>>

\* Blueprint.apply: each step is asked in order whether it is to be included.
Include(wanted) ==
    /\ phase = "make"
    /\ included' = SelectSeq(order, LAMBDA s : s \in wanted)
    /\ phase' = "done"
    /\ UNCHANGED <<given, known, stream, adjacent, tarjan, khan, order>>

Init ==
    /\ requires \in {rel \in [Steps -> SUBSET Steps] : Acyclic(rel)}
    /\ claimed \in SUBSET Steps \ {{}}
    /\ last \in {{}} \cup {{s} : s \in Steps}
    /\ phase = "firstpass" /\ known = claimed
    /\ stream = [i \in 1..Cardinality(claimed) |-> requires[Ascending(claimed)[i]]]
    /\ adjacent = <<>> /\ low = [s \in {} |-> 0] /\ stack = <<>> /\ frames = <<>> /\ components = <<>>
    /\ arcs = <<>> /\ count = <<>> /\ ready = <<>> /\ sorted = <<>>
    /\ order = <<>> /\ included = <<>>

Next ==
    \/ Firstpass \/ FinalizeSteps
    \/ VisitNext \/ VisitSuccessor \/ VisitDone
    \/ Condense \/ Khan \/ Sorted
    \/ \E wanted \in SUBSET known : Include(wanted)

Spec == Init /\ [][Next]_vars /\ WF_vars(Next)

(***************************************************************************)
(* Properties                                                              *)
(***************************************************************************)
\* Steps that need the last one, which depends on them in turn.
NeedLast == {s \in known : FindLast \cap Closure(requires[s], requires) # {}}

\* The components are the classes of steps that reach each other, each once.
ComponentsExact ==
    phase \notin {"firstpass", "tarjan"} =>
        LET rel == [s \in Steps |-> IF s \in known THEN Range(adjacent[s]) ELSE {}]
            Reach(s) == Closure(rel[s], rel)
        IN  {Range(components[c]) : c \in DOMAIN components}
              = {{s} \cup {t \in known : t \in Reach(s) /\ s \in Reach(t)} : s \in known}

\* bootsteps.py ("List of other steps that must be started before this step"): every
\* step that is needed is there once, after all that it requires, and the last
\* step last; unless a step needs the last one.
OrderRight ==
    phase \in {"make", "done"} =>
        /\ known = Closure(claimed, requires)
        /\ NeedLast = {} =>
            /\ IsInjective(order) /\ Range(order) = known
            /\ \A i, j \in DOMAIN order : order[j] \in requires[order[i]] => j < i
            /\ FindLast # {} => Last(order) \in FindLast

\* The same without the exception: the others of a component are left out.
NoStepDropped == phase \in {"make", "done"} => Range(order) = known

\* What is started is in that order too.
StartsInOrder ==
    phase = "done" /\ NeedLast = {} =>
        \A i, j \in DOMAIN included : included[j] \in Closure(requires[included[i]], requires) => j < i

BlueprintRight == TypeOK /\ ComponentsExact /\ OrderRight /\ StartsInOrder
=============================================================================
