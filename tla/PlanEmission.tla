----------------------------- MODULE PlanEmission -----------------------------
(***************************************************************************)
(* From a tree of steps to a JMX plan, what the engine does to a stored    *)
(* plan before it runs it, and what JMeter sends when it runs it.          *)
(*                                                                         *)
(* A plan is [name, body]; its body and the kids of an element are         *)
(* sequences of elements, in the order of the file.                        *)
(***************************************************************************)
EXTENDS PlanTree

\* An element is an EXCEPT of this one.
Element == [el     |-> "Sampler",
            name   |-> "",
            on     |-> TRUE,
            path   |-> <<>>,    \* node path of a module reference
            inputs |-> <<>>,    \* values of a User Parameters element
            uses   |-> {},      \* variables of a sampler
            cols   |-> {},      \* columns of a CSV data set
            file   |-> "",      \* file of a CSV data set
            size   |-> 0,       \* threads of a group or of a barrier
            pause  |-> 0,       \* delay of a timer
            timed  |-> FALSE,   \* a barrier that gives up
            scoped |-> FALSE,   \* the controller that holds inputs of one reference
            kids   |-> <<>>]

NoPlan == [name |-> "", body |-> <<>>]

-----------------------------------------------------------------------------
(* Steps.                                                                  *)

SyncTimer(s) == [Element EXCEPT !.el = "SyncTimer", !.name = s.name, !.size = s.size,
                                !.timed = "timeout" \in s.props]

UserParameters(inputs) ==
    IF inputs = <<>> THEN <<>>
    ELSE <<[Element EXCEPT !.el = "Inputs", !.inputs = inputs]>>

ModuleController(s, planName) ==
    [Element EXCEPT !.el = "Module", !.name = IF s.name # "" THEN s.name ELSE RefOf(s),
                    !.path = <<planName, planName, RefOf(s)>>]

\* Faulty variant: inputs are written beside the reference they are for.
ParamsBeside(s, body) == UserParameters(s.inputs) \o body

\* Inputs that hold for one reference are wrapped together with it.
ParamScope(s, body) ==
    IF s.inputs = <<>> THEN body
    ELSE <<[Element EXCEPT !.el = "Simple", !.name = RefOf(s), !.scoped = TRUE,
                           !.kids = UserParameters(s.inputs) \o body]>>

Controllers == [group |-> "Transaction", logic |-> "Logic"]

\* What is no known type is written as a request.
Sampler(s, kids) ==
    [Element EXCEPT
        !.el = "Sampler", !.name = s.name, !.on = s.on, !.uses = s.uses,
        !.kids = (IF "headers" \in s.props
                  THEN <<[Element EXCEPT !.el = "Headers"]>> ELSE <<>>)
                 \o kids
                 \o (IF s.pause > 0
                     THEN <<[Element EXCEPT !.el = "Timer", !.on = s.on, !.pause = s.pause]>>
                     ELSE <<>>)]

\* A reference: nothing, a pointer, or a copy of the steps it stands for.
Reference(s, planName, ctx, copy) ==
    CASE Decide(s, ctx) = "unresolved" -> <<>>
      [] Decide(s, ctx) = "module"     -> ParamScope(s, <<ModuleController(s, planName)>>)
      [] Decide(s, ctx) = "inline"     -> ParamScope(s, copy)

RECURSIVE Emit(_, _, _)
Emit(list, planName, ctx) ==
    Each(list, LAMBDA s :
        CASE s.type = "fragment" -> <<>>
          [] s.type = "burst"    -> <<SyncTimer(s)>>
          [] s.type = "inputs"   -> UserParameters(s.inputs)
          [] s.type = "check" ->
                <<[Element EXCEPT !.el = "Check", !.name = s.name, !.on = s.on]>>
          [] s.type \in {"group", "logic"} ->
                <<[Element EXCEPT !.el = Controllers[s.type], !.name = s.name, !.on = s.on,
                                  !.kids = Emit(s.kids, planName, ctx)]>>
          [] s.type = "include" ->
                Reference(s, planName, ctx,
                          Emit(IF s.kids # <<>> THEN s.kids ELSE ctx.frags[RefOf(s)].kids,
                               planName, ctx))
          [] s.type \in {"http", "think", "headers"} ->
                <<Sampler(s, Emit(s.kids, planName, ctx))>>)

\* Every fragment once, disabled, at plan level.  References inside it are
\* emitted without knowing any fragment.
TestFragments(list, planName) ==
    LET defs == FragmentDefs(list)
    IN [i \in DOMAIN defs |->
            [Element EXCEPT
                !.el = "Fragment", !.on = FALSE,
                !.name = IF defs[i].name # "" THEN defs[i].name
                                              ELSE "fragment-" \o ToString(i),
                !.kids = Emit(defs[i].kids, planName, NoContext)]]

-----------------------------------------------------------------------------
(* Plans.                                                                  *)

\* The data of a scenario: columns, rows pasted into it ("absent", "none" below
\* the column names, "some"), and the name of a file where the engine runs.
NoData == [cols |-> {}, inline |-> "absent", file |-> ""]

\* Pasted rows are written to this file beside the plan.
DataFile == "data.csv"

Emits(data) == data.inline = "some" \/ (data.inline = "absent" /\ data.file # "")

CSVDataSet(data) ==
    IF Emits(data)
    THEN <<[Element EXCEPT !.el = "CSV", !.cols = data.cols,
                           !.file = IF data.inline = "some" THEN DataFile ELSE data.file]>>
    ELSE <<>>

CorrelationHeaders == [Element EXCEPT !.el = "Headers", !.name = "correlation"]

\* One thread group.  It gets the barrier itself when no request can have it;
\* of several groups the first alone gets the correlation headers.
ThreadGroup(threads, first, tree, planName, burst) ==
    [Element EXCEPT
        !.el = "ThreadGroup", !.size = threads,
        !.kids = (IF first THEN <<CorrelationHeaders>> ELSE <<>>)
                 \o (IF Placement(tree, burst).mode = "thread_group"
                     THEN <<SyncTimer(burst)>> ELSE <<>>)
                 \o LET gated == Gated(tree, burst)
                    IN Emit(gated, planName, Context(gated))]

\* A scenario without steps is one request for its target.
TreeOf(steps) == IF steps = <<>> THEN <<[Step EXCEPT !.name = "target"]>> ELSE steps

\* "groups" are the threads of each group: one, or one per arrivals segment.
Generate(planName, steps, data, groups, burst) ==
    LET tree == TreeOf(steps)
    IN [name |-> planName,
        body |-> CSVDataSet(data) \o TestFragments(Gated(tree, burst), planName)
                 \o [i \in DOMAIN groups |->
                        ThreadGroup(groups[i], i = 1, tree, planName, burst)]]

\* Every data set goes, wherever it stands.
RECURSIVE StripCSV(_)
StripCSV(kids) ==
    Each(kids, LAMBDA e : IF e.el = "CSV" THEN <<>>
                          ELSE <<[e EXCEPT !.kids = StripCSV(e.kids)]>>)

RECURSIVE HasEl(_, _)
HasEl(kids, el) == \E e \in ToSet(kids) : e.el = el \/ HasEl(e.kids, el)

\* The data set of the scenario goes before the first thread group, if any.
Inject(body, data) ==
    LET i == SelectInSeq(body, LAMBDA e : e.el = "ThreadGroup")
    IN SubSeq(body, 1, i - 1) \o CSVDataSet(data) \o SubSeq(body, i, Len(body))

\* Faulty variant: a data set that is there stays.
SyncIfMissing(plan, data) ==
    IF Emits(data) /\ ~HasEl(plan.body, "CSV")
    THEN [plan EXCEPT !.body = Inject(plan.body, data)] ELSE plan

\* A stored plan is made to agree with the data set of its scenario.
SyncCSV(plan, data) ==
    IF Emits(data) /\ HasEl(plan.body, "ThreadGroup")
    THEN [plan EXCEPT !.body = Inject(StripCSV(plan.body), data)]
    ELSE plan

RewriteThreads(plan, threads) ==
    [plan EXCEPT !.body = [i \in DOMAIN plan.body |->
        IF plan.body[i].el = "ThreadGroup" /\ threads > 0
        THEN [plan.body[i] EXCEPT !.size = threads] ELSE plan.body[i]]]

-----------------------------------------------------------------------------
(* JMeter: what one thread sends in one pass, with every controller taken  *)
(* once.  Timers, inputs and headers hold for all samplers below their     *)
(* parent; a module reference stands for the kids of the first node on its *)
(* path.                                                                   *)

Container(plan, path) ==
    LET i == SelectInSeq(plan.body,
                LAMBDA e : e.el = "Fragment" /\ path = <<plan.name, plan.name, e.name>>)
    IN IF i = 0 THEN <<>> ELSE plan.body[i].kids

Enabled(kids, el) == SelectSeq(kids, LAMBDA e : e.el = el /\ e.on)

\* What holds below a parent: inputs (the inner ones win), barriers, timers
\* (their delays add up), and whether the headers with the run's id are added.
NoScope == [binds |-> <<>>, gates |-> {}, pause |-> 0, tagged |-> FALSE]

Scope(outer, kids) ==
    [binds  |-> FoldLeft(LAMBDA acc, e : e.inputs @@ acc, outer.binds, Enabled(kids, "Inputs")),
     gates  |-> outer.gates \cup {[size |-> e.size, timed |-> e.timed] :
                                     e \in ToSet(Enabled(kids, "SyncTimer"))},
     pause  |-> FoldLeft(LAMBDA acc, e : acc + e.pause, outer.pause, Enabled(kids, "Timer")),
     tagged |-> outer.tagged \/ \E e \in ToSet(Enabled(kids, "Headers")) : e.name = "correlation"]

RECURSIVE Pass(_, _, _)
Pass(kids, outer, plan) ==
    LET scope == Scope(outer, kids)
    IN Each(kids, LAMBDA e :
        CASE ~e.on -> <<>>
          [] e.on /\ e.el = "Sampler" ->
                <<[name |-> e.name, uses |-> e.uses, scope |-> Scope(scope, e.kids)]>>
          [] e.on /\ e.el \in {"Transaction", "Logic", "Simple"} -> Pass(e.kids, scope, plan)
          [] e.on /\ e.el = "Module" -> Pass(Container(plan, e.path), scope, plan)
          [] OTHER -> <<>>)

Groups(plan) == Enabled(plan.body, "ThreadGroup")

\* A column has a value when the file of its set is there: pasted rows are
\* written for the run, any other file is the runner's own.
RunRow(plan, group, data) ==
    LET sets == Enabled(plan.body \o group.kids, "CSV")
        read == SelectSeq(sets, LAMBDA e : e.file # DataFile \/ data.inline = "some")
    IN [c \in UNION {e.cols : e \in ToSet(read)} |-> "row"]

\* Variables stay bound after the scope that bound them.
Requests(plan, group, data) ==
    LET Do(acc, r) == LET vars == r.scope.binds @@ acc.vars
                      IN [vars |-> vars, sent |-> Append(acc.sent, Sent(r, vars))]
    IN FoldLeft(Do, [vars |-> RunRow(plan, group, data), sent |-> <<>>],
                Pass(group.kids, NoScope, plan)).sent
=============================================================================
