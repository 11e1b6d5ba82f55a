------------------------------- MODULE Stamps --------------------------------
(***************************************************************************)
(* Stamps: how Signature.stamp and the StampingVisitor of canvas.py put    *)
(* headers on the tasks of a canvas, how they travel with the message and  *)
(* its retries, and how revoke_by_stamped_headers (worker/control.py) and  *)
(* Request.revoked (worker/request.py) find the tasks again.               *)
(*                                                                         *)
(* A canvas is a tree of nodes 1, 2, ... with the parent before the child; *)
(* a node hangs at its parent as a member, a chord's body, or, at a task,  *)
(* as a callback or an errback; nodes are numbered in the order stamp()    *)
(* comes to them.  A stamp is one value or a list of values.  Every key a  *)
(* visitor returns is a stamp (it does not give stamped_headers), and what *)
(* it returns is made anew at each call.                                   *)
(*                                                                         *)
(* The dictionaries are copied on the way down, the lists in them are not, *)
(* and _merge_dictionaries extends them in place: what one member adds to  *)
(* a list of its canvas the others have too.  So stamping is modelled with *)
(* a store of lists.  It lasts for one call of stamp(): a list that is in  *)
(* the options of a signature when a call begins is only read.             *)
(***************************************************************************)
EXTENDS Naturals, Sequences, FiniteSets, Functions, TLC

CONSTANTS Canvases,    \* trees: sequences of [kind, up, role]
          Headers, Values,
          Visitors,    \* [on: hook -> what the visitor returns there, a dictionary of
                       \* stamps, skips: the nodes for which on_signature returns {}]
          Plain,       \* the dictionaries given to stamp() as keywords
          MaxStamps,   \* bound: calls of stamp()
          MaxCommands, \* bound: revoke_by_stamped_headers commands
          MaxRetries   \* bound: retries of a task

VARIABLES canvas,
          options,   \* node -> the stamps in its options, and stamped_headers
          meant,     \* history: node -> header -> the values it was to be stamped with
          appended,  \* history: every call so far was made with append_stamps
          stamped,   \* calls of stamp()
          status,    \* node -> where its task is
          stamps,    \* node -> the stamps of its message
          revoked,   \* worker_state.revoked_stamps
          doomed,    \* history: tasks a handled command was to stop
          retries, commands

vars == <<canvas, options, meant, appended, stamped, status, stamps, revoked, doomed, retries,
          commands>>

Nodes == DOMAIN canvas
Tasks == {n \in Nodes : canvas[n].kind = "task"}
Empty == [h \in {} |-> {}]
Dicts == UNION {[D -> [list : BOOLEAN, vals : SUBSET Values]] : D \in SUBSET Headers}
Hooks == {"signature", "group", "chain", "body", "link", "errback"}
SH == "stamped_headers"
List(x) == [list |-> TRUE, vals |-> x]

\* the stamped_headers of a signature, and its stamps
Listed(d) == IF SH \in DOMAIN d THEN d[SH].vals ELSE {}
Carried(d) == Restrict(d, DOMAIN d \ {SH})

TypeOK ==
    /\ canvas \in Canvases
    /\ \A n \in Nodes : Carried(options[n]) \in Dicts /\ Listed(options[n]) \subseteq Headers
    /\ stamps \in [Nodes -> Dicts]
    /\ meant \in [Nodes -> [Headers -> SUBSET Values]]
    /\ status \in [Nodes -> {"canvas", "unsent", "queued", "given", "active", "done", "revoked",
                              "killed"}]
    /\ revoked \in [Headers -> SUBSET Values] /\ doomed \subseteq Nodes

\* Mutant of MergeValue: the later value replaces the earlier one.
MergeValueLast(a, b) == b

(***************************************************************************)
(* Stamping                                                                *)
(***************************************************************************)
\* What a list has after it was extended with b, or b was appended to it.
MergeValue(a, b) == a \cup b

\* A dictionary d1 whose lists are in the store: s.dict[h] is an immutable value
\* or says at which place, <<id, h>>, the list is.
Vals(s, h) == IF h \notin DOMAIN s.dict THEN {}
              ELSE IF s.dict[h].list THEN s.store[s.dict[h].at] ELSE s.dict[h].vals
Value(s) == [h \in DOMAIN s.dict |-> [list |-> s.dict[h].list, vals |-> Vals(s, h)]]

\* _merge_dictionaries: a list is extended by a list in place; other values of
\* one key are aggregated in a new list, or the first stays.
Merge(s, id, d2, aggregate) ==
    LET d1 == s.dict
        both == DOMAIN d1 \cap DOMAIN d2
        inPlace == {h \in both : d1[h].list /\ d2[h].list}
        new == {h \in DOMAIN d2 \ inPlace : IF h \in both THEN aggregate ELSE d2[h].list}
        places == {d1[h].at : h \in inPlace} \cup {<<id, h>> : h \in new}
    IN  [dict  |-> [h \in new |-> [list |-> TRUE, at |-> <<id, h>>]] @@ d1 @@ d2,
         store |-> [c \in places |-> MergeValue(Vals(s, c[2]), d2[c[2]].vals)] @@ s.store]

\* deepcopy, and the dictionary a caller makes
Copy(s, id, d) == Merge([s EXCEPT !.dict = Empty], id, d, FALSE)

\* stamped_headers becomes a new list.
SetListed(s, id, names) ==
    [dict  |-> (SH :> [list |-> TRUE, at |-> <<id, SH>>]) @@ s.dict,
     store |-> (<<id, SH>> :> names) @@ s.store]

\* The hooks of a StampingVisitor: what it is asked for a node; a chord's header is
\* taken for a group.
Hook(v, n, kind) ==
    IF kind = "signature" /\ n \in v.skips THEN Empty
    ELSE v.on[IF kind = "chord" THEN "group" ELSE kind]

\* Signature._stamp_headers: the given headers, then the visitor's, then, unless
\* it is for a link, those the signature has.
Relist(s, id) == SetListed(s, id, Vals(s, SH))
WithVisitor(call, s, id, v) ==
    Relist(Merge(s, Append(id, 2), (SH :> List(DOMAIN v)) @@ v, call.append), Append(id, 3))
WithOwn(call, s, id, d) ==
    LET names == Vals(s, SH) \cup Listed(d)
    IN  SetListed(Merge(s, Append(id, 4), Restrict(d, DOMAIN d \cap names), call.append),
                  Append(id, 5), names)
StampHeaders(call, s, n, what, visitor, own) ==
    LET id == <<n, what>>
        given == IF SH \in DOMAIN s.dict THEN s ELSE SetListed(s, Append(id, 1), DOMAIN s.dict)
        visited == IF visitor = {} THEN given
                   ELSE WithVisitor(call, given, id, CHOOSE v \in visitor : TRUE)
    IN  IF own = {} THEN visited ELSE WithOwn(call, visited, id, CHOOSE d \in own : TRUE)

\* stamp_links: the headers with which the next link of a task is stamped; the
\* one after it starts from these.
StampLinks(call, s, n, visitor) == StampHeaders(call, s, n, "link", visitor, {})

\* stamp() of a chain and of a group: what goes to the members (their own
\* options hold no stamps); chord.stamp: what goes to the body.
Inside(call, s, n, visitor) == StampHeaders(call, s, n, "inside", visitor, {Empty})
StampBody(call, s, n, visitor) == StampHeaders(call, s, n, "body", visitor, {Empty})

\* Signature.stamp of a task: the links are stamped with copies of the headers.
StampTask(call, w, n, s, visitor) ==
    LET callbacks == Copy(s, <<n, "callbacks", 0>>, Value(s))
        errbacks == Copy(callbacks, <<n, "errbacks", 0>>, Value(s))
        own == StampHeaders(call, [errbacks EXCEPT !.dict = s.dict], n, "own", visitor, {options[n]})
    IN  [store |-> own.store, set |-> (n :> own.dict) @@ w.set,
         frame |-> (<<n, "link">> :> callbacks.dict) @@ (<<n, "errback">> :> errbacks.dict) @@ w.frame]

StampCanvas(w, n, inside) ==
    [store |-> inside.store, set |-> w.set, frame |-> (<<n, "member">> :> inside.dict) @@ w.frame]

\* w.frame has the dictionary a node gives to what hangs at it; above is where n
\* hangs, and s what it is stamped with.
StampFrom(call, w, n, above, s) ==
    LET links == canvas[n].role \in {"link", "errback"}
        within == IF links THEN [w EXCEPT !.frame = (above :> s.dict) @@ @] ELSE w
        hooks == {Hook(v, n, IF n \in Tasks THEN "signature" ELSE canvas[n].kind) : v \in call.visitor}
    IN  IF n \in Tasks THEN StampTask(call, within, n, s, hooks)
        ELSE StampCanvas(within, n, Inside(call, s, n, hooks))

StampNode(call, w, n) ==
    LET role == canvas[n].role
        above == IF canvas[n].up = 0 THEN <<0, "member">>
                 ELSE <<canvas[n].up, IF role = "body" THEN "member" ELSE role>>
        headers == [dict |-> w.frame[above], store |-> w.store]
        hooks == {Hook(v, n, role) : v \in call.visitor}
    IN  StampFrom(call, w, n, above,
                  CASE role = "member" -> headers
                    [] role = "body"   -> StampBody(call, headers, n, hooks)
                    [] OTHER           -> StampLinks(call, headers, n, hooks))

\* chord.stamp leaves the body alone if there is no visitor.
Reached(call) ==
    LET reach[n \in Nodes] ==
            canvas[n].up = 0 \/ (reach[canvas[n].up] /\ (canvas[n].role = "body" => call.visitor # {}))
    IN  {n \in Nodes : reach[n]}

\* stamp() of the root comes to one node after the other; the options each task
\* has in the end.
Stamped(call) ==
    LET none == [dict |-> Empty, store |-> Empty]
        given == Copy(none, <<0, "given", 0>>, call.headers)
        walk[n \in 0..Len(canvas)] ==
            IF n = 0 THEN [store |-> given.store, set |-> Empty,
                           frame |-> (<<0, "member">> :> given.dict)]
            ELSE IF n \in Reached(call) THEN StampNode(call, walk[n - 1], n)
            ELSE walk[n - 1]
        final(last) == [n \in DOMAIN last.set |->
                            Value([dict |-> last.set[n], store |-> last.store])]
    IN  final(walk[Len(canvas)])

\* The values a task is meant to get from one call: the given ones, and what the
\* visitor has for each canvas around it, for each place it hangs at, and for it.
Path(n) ==
    LET path[m \in Nodes] == {m} \cup (IF canvas[m].up = 0 THEN {} ELSE path[canvas[m].up])
    IN  path[n]
Meant(call, n, h) ==
    LET hooks == {canvas[m].kind : m \in Path(n) \ Tasks} \cup {"signature"}
                    \cup ({canvas[m].role : m \in Path(n)} \ {"member"})
        dicts == {call.headers} \cup {Hook(v, n, k) : v \in call.visitor, k \in hooks}
    IN  UNION {d[h].vals : d \in {e \in dicts : h \in DOMAIN e}}

\* Signature.stamp on the root.
Stamp(call) ==
    /\ stamped < MaxStamps /\ stamped' = stamped + 1
    /\ \A n \in Nodes : status[n] = "canvas"
    /\ options' = Stamped(call) @@ options
    /\ meant' = [n \in Nodes |->
            IF n \in Reached(call) \cap Tasks THEN [h \in Headers |-> meant[n][h] \cup Meant(call, n, h)]
            ELSE meant[n]]
    /\ appended' = (appended /\ call.append)
    /\ UNCHANGED <<canvas, status, stamps, revoked, doomed, retries, commands>>

(***************************************************************************)
(* Running                                                                 *)
(***************************************************************************)
\* Carries a value that the worker was told to revoke.
Matches(n, table) == \E h \in DOMAIN stamps[n] : stamps[n][h].vals \cap table[h] # {}

\* as_task_v2 looks up every stamped header in the options: a KeyError if one of
\* them has no value there.
Sendable(n) == Listed(options[n]) \subseteq DOMAIN options[n]

\* apply_async, as_task_v2: the message takes the stamps of the options.  Where a
\* task cannot be sent the error may keep others from being sent.
Apply ==
    /\ \A n \in Nodes : status[n] = "canvas"
    /\ \E sent \in SUBSET {n \in Tasks : Sendable(n)} :
          /\ (\A n \in Tasks : Sendable(n)) => sent = Tasks
          /\ status' = [n \in Nodes |-> IF n \in sent THEN "queued"
                                        ELSE IF n \in Tasks THEN "unsent" ELSE "done"]
          /\ stamps' = [n \in Nodes |-> IF n \in sent THEN Restrict(options[n], Listed(options[n]))
                                        ELSE Empty]
          /\ doomed' = {n \in sent : \E h \in Listed(options[n]) :
                                        options[n][h].vals \cap revoked[h] # {}}
    /\ UNCHANGED <<canvas, options, meant, appended, stamped, revoked, retries, commands>>

\* Request.revoked, by stamps: the first stamped header that any command named
\* decides, and stamped_headers are in no particular order.
RevokedBy(n, h) == stamps[n][h].vals \cap revoked[h] # {}
Named(n) == {h \in DOMAIN stamps[n] : revoked[h] # {}}

\* execute_using_pool.
Execute(n) ==
    /\ status[n] = "queued"
    /\ \/ /\ Named(n) = {}
          /\ status' = [status EXCEPT ![n] = "given"]
       \/ \E h \in Named(n) :
            status' = [status EXCEPT ![n] = IF RevokedBy(n, h) THEN "revoked" ELSE "given"]
    /\ UNCHANGED <<canvas, options, meant, appended, stamped, stamps, revoked, doomed, retries, commands>>

\* The pool accepts it: active_requests.
Accept(n) ==
    /\ status[n] = "given"
    /\ status' = [status EXCEPT ![n] = "active"]
    /\ UNCHANGED <<canvas, options, meant, appended, stamped, stamps, revoked, doomed, retries, commands>>

Finish(n) ==
    /\ status[n] = "active"
    /\ status' = [status EXCEPT ![n] = "done"]
    /\ UNCHANGED <<canvas, options, meant, appended, stamped, stamps, revoked, doomed, retries, commands>>

\* A retry sends the task again with the options of its request
\* (Context.as_execution_options), stamps included.
Retry(n) ==
    /\ status[n] = "active" /\ retries < MaxRetries /\ retries' = retries + 1
    /\ status' = [status EXCEPT ![n] = "queued"]
    /\ doomed' = IF Matches(n, revoked) THEN doomed \cup {n} ELSE doomed
    /\ UNCHANGED <<canvas, options, meant, appended, stamped, stamps, revoked, commands>>

\* The revoke_by_stamped_headers command: the value is added to what is known of
\* the header; with terminate, active requests that match are killed.
RevokeByStampedHeaders(h, v, terminate) ==
    LET hit == {n \in Tasks : h \in DOMAIN stamps[n] /\ v \in stamps[n][h].vals}
        killed == IF terminate THEN {n \in hit : status[n] = "active"} ELSE {}
    IN  /\ commands < MaxCommands /\ commands' = commands + 1
        /\ revoked' = [revoked EXCEPT ![h] = @ \cup {v}]
        /\ status' = [n \in Nodes |-> IF n \in killed THEN "killed" ELSE status[n]]
        /\ doomed' = doomed \cup {n \in hit : status[n] = "queued" \/ (terminate /\ status[n] = "active")}
        /\ UNCHANGED <<canvas, options, meant, appended, stamped, stamps, retries>>

Calls == {[visitor |-> v, append |-> a, headers |-> p] :
            v \in {{}} \cup {{w} : w \in Visitors}, a \in BOOLEAN, p \in Plain}

Init ==
    /\ canvas \in Canvases
    /\ options = [n \in Nodes |-> Empty] /\ stamps = options
    /\ meant = [n \in Nodes |-> [h \in Headers |-> {}]]
    /\ appended = TRUE /\ stamped = 0
    /\ status = [n \in Nodes |-> "canvas"]
    /\ revoked = [h \in Headers |-> {}] /\ doomed = {} /\ retries = 0 /\ commands = 0

Next ==
    \/ \E call \in Calls : Stamp(call)
    \/ Apply
    \/ \E n \in Nodes : Execute(n) \/ Accept(n) \/ Finish(n) \/ Retry(n)
    \/ \E h \in Headers, v \in Values, terminate \in BOOLEAN : RevokeByStampedHeaders(h, v, terminate)

Spec == Init /\ [][Next]_vars

(***************************************************************************)
(* Properties                                                              *)
(***************************************************************************)
\* The values a task has for a header.
Has(n, h) == IF h \in DOMAIN options[n] THEN options[n][h].vals ELSE {}

\* The tasks that were stamped from a dictionary that n was stamped from: those
\* beside it, or beside a canvas or a task around it, in the same canvas or on the
\* same list of links.
Beside(n) ==
    {m \in Tasks \ {n} : \E x \in Path(n), y \in Path(m) :
        /\ x # y /\ canvas[x].up = canvas[y].up /\ canvas[x].up # 0
        /\ canvas[x].role = canvas[y].role \/ canvas[canvas[x].up].kind # "task"}

\* canvas.rst ("mark its components with stamp"): a task carries every header it
\* was to be stamped with, and lists it; if every call was made with append_stamps,
\* with all the values it was given for it.  What else it carries or lists was
\* meant for a task beside it, so that one with nothing beside it carries its own
\* stamps exactly, and can be sent.
CarriesItsStamps ==
    \A n \in Tasks :
        /\ DOMAIN Carried(options[n]) \subseteq Listed(options[n])
        /\ LET near == Beside(n) IN
           \A h \in Headers :
              LET others == UNION {meant[m][h] : m \in near}
              IN  /\ Has(n, h) \subseteq meant[n][h] \cup others
                  /\ meant[n][h] # {} => Has(n, h) # {}
                  /\ appended => meant[n][h] \subseteq Has(n, h)
                  /\ h \in Listed(options[n]) => meant[n][h] \cup others # {}

\* canvas.py:582 ("return an idempotent dictionary of stamps"): a task carries
\* only what it was to be stamped with.
CarriesNothingElse ==
    \A n \in Tasks, h \in Headers : Has(n, h) \subseteq meant[n][h]

\* Every task of a stamped canvas can be sent.
AllSendable == \A n \in Tasks : Sendable(n)

\* workers.rst ("each task that has a stamped header matching the key-value pair(s)
\* will be revoked"): what a command was to stop is not run afterwards.
RevokedNotRun == \A n \in doomed : status[n] \notin {"given", "active", "done"}

\* It is so for a task that carries one header that commands have named.
RevokedByOneNotRun ==
    \A n \in doomed : Cardinality(Named(n)) = 1 => status[n] \notin {"given", "active", "done"}

\* And nothing else is stopped.
OnlyMatchingStopped ==
    \A n \in Tasks : status[n] \in {"revoked", "killed"} => Matches(n, revoked)

\* Stamped tasks are found again.
StampsRight == TypeOK /\ CarriesItsStamps /\ RevokedByOneNotRun /\ OnlyMatchingStopped
=============================================================================
