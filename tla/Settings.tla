------------------------------ MODULE Settings ------------------------------
(* The configuration of an application: what is set before the first read  *)
(* is kept aside, the first read loads it (app/base.py, app/utils.py,      *)
(* utils/collections.py).  Two copies of one application are driven by the *)
(* same calls: `lazy' is never read, `eager' is read after every call.     *)
EXTENDS Naturals, Sequences, FiniteSets, SequencesExt, Functions

CONSTANTS Keys, Values,
    Styles,       \* the styles of names a program may use, see Name
    Sources,      \* the objects that may be given to config_from_object
    MaxCalls      \* bound on the calls made

VARIABLES lazy, eager, style, calls, reset

vars == <<lazy, eager, style, calls, reset>>

(* A setting has its new name, the name it had in old versions, and the    *)
(* new name with the prefix of the namespace.                              *)
Name(s, k) == <<s, k>>
NamesOf(s) == {Name(s, k) : k \in Keys}
Nothing == [n \in {} |-> 0]
Builtin == "builtin"   \* the value of a setting nobody has set

Defaults(s) == [n \in NamesOf(s) |-> Builtin]
Put(map, n, v) == [x \in DOMAIN map \cup {n} |-> IF x = n THEN v ELSE map[x]]

-----------------------------------------------------------------------------
\* ConfigurationView._to_keys
ToKeys(app, n) ==
    (IF app.prefix THEN <<Name("prefixed", n[2])>> ELSE <<>>)
      \o <<n, Name("new", n[2]), Name("old", n[2])>>

\* ConfigurationView.__getitem__: the first mapping that has one of the names
Get(app, n) ==
    LET has(m) == \E i \in DOMAIN ToKeys(app, n) : ToKeys(app, n)[i] \in DOMAIN m
        map == SelectSeq(app.maps, has)[1]
        known(k) == k \in DOMAIN map
    IN map[SelectSeq(ToKeys(app, n), known)[1]]

(* detect_settings: the style most names are in, and the names that are    *)
(* left over and have no double in that style.                             *)
Converted(to, n) == Name(to, n[2])

Detect(app) ==
    LET from == IF app.source = <<>> THEN app.preconf ELSE app.source[1]
        have == DOMAIN from \ app.auto
        new == have \cap NamesOf("new")
        old == have \cap NamesOf("old")
        to == IF app.prefix THEN "new"
              ELSE IF Cardinality(old) > Cardinality(new) THEN "old" ELSE "new"
        left == IF app.prefix THEN {} ELSE IF to = "new" THEN old ELSE new
    IN [to |-> to, left |-> {n \in left : Converted(to, n) \notin have}]

\* preconf = {info.convert.get(k, k): v for k, v in preconf.items()}: of two names of
\* a setting the later wins, which is the one that loading had not put there
ConvertAll(to, map) ==
    LET names(n) == {x \in DOMAIN map : Converted(to, x) = n} IN
    [n \in {Converted(to, x) : x \in DOMAIN map} |->
        map[CHOOSE x \in names(n) : x = n => names(n) = {n}]]

\* Mutant of Load: the defaults that were waiting are dropped.
LoadWithoutWaiting(app) ==
    LET detected == Detect(app) IN
    IF detected.left # {}
    THEN [app EXCEPT !.configured = TRUE, !.failed = TRUE]
    ELSE [app EXCEPT
            !.configured = TRUE,
            !.maps = <<ConvertAll(detected.to, app.preconf),
                       IF app.source = <<>> THEN Nothing ELSE app.source[1],
                       Defaults(detected.to)>>,
            !.waiting = <<>>,
            !.beat = app.periodic,
            !.periodic = {}]

(* _load_config: the mappings of the loaded configuration; the defaults    *)
(* that were waiting are inserted one by one in second place, then the     *)
(* periodic tasks that were waiting are added.                             *)
Load(app) ==
    LET detected == Detect(app) IN
    IF detected.left # {}
    THEN [app EXCEPT !.configured = TRUE, !.failed = TRUE]    \* ImproperlyConfigured
    ELSE [app EXCEPT
            !.configured = TRUE,
            !.maps = <<ConvertAll(detected.to, app.preconf)>> \o Reverse(app.waiting)
                       \o <<IF app.source = <<>> THEN Nothing ELSE app.source[1],
                            Defaults(detected.to)>>,
            !.waiting = <<>>,
            !.beat = app.periodic,
            !.periodic = {}]

\* reading anything of app.conf loads it: PendingConfiguration.data, app.conf
Read(app) == IF app.configured THEN app ELSE Load(app)

\* Celery.__init__ with the settings given as arguments
New(given, prefix) ==
    [configured |-> FALSE, failed |-> FALSE, prefix |-> prefix,
     preconf |-> given, auto |-> DOMAIN given, source |-> <<>>, maps |-> <<>>,
     waiting |-> <<>>, beat |-> {}, periodic |-> {}]

\* app.conf[name] = value, app.conf.update(...), config_from_cmdline
SetItem(app, n, v) ==
    IF app.configured THEN [app EXCEPT !.maps[1] = Put(@, n, v)]
                      ELSE [app EXCEPT !.preconf = Put(@, n, v)]

\* app.add_defaults
AddDefaults(app, d) ==
    IF app.configured THEN [app EXCEPT !.maps = <<@[1], d>> \o Tail(@)]
                      ELSE [app EXCEPT !.waiting = Append(@, d)]

\* app.add_periodic_task
AddPeriodicTask(app, p) ==
    IF app.configured THEN [app EXCEPT !.beat = @ \cup {p}]
                      ELSE [app EXCEPT !.periodic = @ \cup {p}]

\* app.config_from_object: loads again what is already loaded
ConfigFromObject(app, source) ==
    LET told == [app EXCEPT !.source = <<source>>] IN
    IF app.configured THEN Load([told EXCEPT !.configured = FALSE]) ELSE told

(* __reduce_keys__ and _unpickle_app_v2: the application as another        *)
(* process makes it again.                                                 *)
Pickled(app) ==
    [New(IF app.configured THEN app.maps[1] ELSE app.preconf, app.prefix) EXCEPT
        !.auto = {}, !.source = app.source]

-----------------------------------------------------------------------------
Givens == {Nothing} \cup {Put(Nothing, Name("new", k), v) : k \in Keys, v \in Values}

Init ==
    /\ \E given \in Givens, prefix \in BOOLEAN :
          lazy = New(given, prefix) /\ eager = New(given, prefix)
    /\ style \in Styles /\ (style = "old" => ~ lazy.prefix)
    /\ calls = 0
    /\ reset = "never"   \* has config_from_object been called after other calls?

Later == reset' = IF reset = "now" THEN "before" ELSE reset

\* eager reads its configuration after the call
Both(Call(_)) ==
    /\ calls < MaxCalls /\ ~ eager.failed
    /\ calls' = calls + 1
    /\ lazy' = Call(lazy)
    /\ eager' = Read(Call(eager))
    /\ UNCHANGED style

(* A program that assigns by old names uses them for all settings; names   *)
(* of both styles together are for detect_settings to sort out.            *)
Assign ==
    \E k \in Keys, v \in Values :
       /\ style = "new" \/ Name("new", k) \notin lazy.auto
       /\ LET Call(app) == SetItem(app, Name(style, k), v) IN Both(Call) /\ Later

Default ==
    \E k \in Keys, v \in Values :
       LET Call(app) == AddDefaults(app, Put(Nothing, Name(style, k), v))
       IN Both(Call) /\ Later

Periodic ==
    LET Call(app) == AddPeriodicTask(app, calls) IN Both(Call) /\ Later

FromObject ==
    \E source \in Sources :
       LET Call(app) == ConfigFromObject(app, source) IN
       /\ style = "old" => DOMAIN source \subseteq NamesOf("old")
       /\ Both(Call)
       /\ reset' = IF calls = 0 THEN "never" ELSE "now"

Next == Assign \/ Default \/ Periodic \/ FromObject

Spec == Init /\ [][Next]_vars

-----------------------------------------------------------------------------
Seen(app) == [k \in Keys |-> Get(app, Name("new", k))]
Same(a, b) ==
    /\ a.failed = b.failed
    /\ ~ a.failed => /\ Seen(a) = Seen(b)
                     /\ a.beat = b.beat

(* When the configuration is first read makes no difference: settings,     *)
(* defaults and periodic tasks that wait for the configuration (base.py:   *)
(* 1369-1377) come out as those given after it was loaded, whichever style *)
(* of names is used.                                                       *)
FirstReadDoesNotMatter == reset = "never" => Same(Read(lazy), Read(eager))

\* the names that detect_settings looks at are all of one style, and no setting was
\* assigned by one name and again by the other
OneStyle(app) ==
    LET from == IF app.source = <<>> THEN app.preconf ELSE app.source[1] IN
    /\ \E s \in {"new", "old", "prefixed"} : DOMAIN from \subseteq NamesOf(s)
    /\ \A n, m \in DOMAIN app.preconf : n[2] = m[2] => n = m

(* An application that another process makes again from its pickle has the *)
(* settings of this one (base.py:1505); defaults and periodic tasks are    *)
(* not carried over, and neither is which settings were arguments of       *)
(* Celery(), which matters if names of both styles are in use.             *)
PickledIsSame ==
    \A app \in {lazy, eager} :
       LET again == Read(Pickled(app)) now == Read(app) IN
       /\ ~ now.failed /\ Len(now.maps) = 3
       /\ OneStyle(Pickled(app))
       => ~ again.failed /\ Seen(again) = Seen(now)

ConfigurationStable == FirstReadDoesNotMatter /\ PickledIsSame

(* docs/userguide/application.rst:166: "any configuration that was         *)
(* previously set will be reset when config_from_object is called".        *)
SourceResets ==
    reset = "now" =>
        \A app \in {lazy, eager}, k \in Keys :
           LET now == Read(app)
               names == {n \in DOMAIN app.source[1] : n[2] = k}
           IN ~ now.failed /\ Name("new", k) \notin app.auto
              => IF names = {} THEN Get(now, Name("new", k)) = Builtin
                               ELSE \E n \in names : Get(now, Name("new", k)) = app.source[1][n]
=============================================================================
