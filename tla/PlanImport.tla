------------------------------ MODULE PlanImport ------------------------------
(***************************************************************************)
(* From a JMX plan back to the steps and the data of a scenario.           *)
(***************************************************************************)
EXTENDS PlanEmission

Controller(type, e, kids) ==
    [Step EXCEPT !.type = type, !.name = e.name, !.on = e.on, !.kids = kids]

\* The controller that holds the inputs of one reference becomes that
\* reference again; with any other content it is a group.
FoldScope(e, kids) ==
    LET params == SelectSeq(kids, LAMBDA s : s.type = "inputs")
        body   == SelectSeq(kids, LAMBDA s : s.type # "inputs")
    IN IF e.scoped /\ params # <<>> /\ Len(body) = 1 /\ body[1].type = "include"
       THEN [body[1] EXCEPT !.inputs = Last(params).inputs, !.on = e.on /\ body[1].on]
       ELSE Controller("group", e, kids)

\* Think times and headers below a sampler are its own.
FoldSampler(e, kids) ==
    LET Of(type) == SelectSeq(kids, LAMBDA s : s.type = type)
        own      == {"think", "headers"}
    IN [Controller("http", e, SelectSeq(kids, LAMBDA s : s.type \notin own)) EXCEPT
            !.uses  = e.uses,
            !.props = {s.type : s \in ToSet(Of("headers"))},
            !.pause = IF Of("think") = <<>> THEN 0 ELSE Last(Of("think")).pause]

\* The correlation headers of a group are nobody's step.
Leaf(e) ==
    CASE e.el = "Check"   -> <<Controller("check", e, <<>>)>>
      [] e.el = "Timer"   -> IF e.pause = 0 THEN <<>>
                             ELSE <<[Controller("think", e, <<>>) EXCEPT !.pause = e.pause]>>
      [] e.el = "Headers" -> IF e.name = "correlation" THEN <<>>
                             ELSE <<Controller("headers", e, <<>>)>>
      [] OTHER            -> <<>>

\* Elements as steps; data sets and thread groups are none.
RECURSIVE FromList(_)
FromList(elems) ==
    Each(elems, LAMBDA e :
        CASE e.el = "Sampler"     -> <<FoldSampler(e, FromList(e.kids))>>
          [] e.el = "Fragment"    -> <<Controller("fragment", e, FromList(e.kids))>>
          [] e.el = "Transaction" -> <<Controller("group", e, FromList(e.kids))>>
          [] e.el = "Logic"       -> <<Controller("logic", e, FromList(e.kids))>>
          [] e.el = "Simple"      -> <<FoldScope(e, FromList(e.kids))>>
          [] e.el = "Module"      -> <<[Controller("include", e, <<>>) EXCEPT !.ref = Last(e.path)]>>
          [] e.el = "SyncTimer"   -> <<[Controller("burst", e, <<>>) EXCEPT !.size = e.size,
                                          !.props = IF e.timed THEN {"timeout"} ELSE {}]>>
          [] e.el = "Inputs"      -> <<[Controller("inputs", e, <<>>) EXCEPT !.inputs = e.inputs]>>
          [] OTHER                -> Leaf(e))

\* Faulty variant: what is disabled is not read.
EnabledFragments(plan) == SelectSeq(FromList(plan.body), LAMBDA s : s.type = "fragment" /\ s.on)

\* Fragments are read from the plan's own level only.
PlanFragments(plan) == SelectSeq(FromList(plan.body), LAMBDA s : s.type = "fragment")

\* Of several thread groups the first is read.  Headers of the group are dropped.
GroupSteps(plan) ==
    LET i == SelectInSeq(plan.body, LAMBDA e : e.el = "ThreadGroup")
    IN IF i = 0 THEN <<>>
       ELSE SelectSeq(FromList(plan.body[i].kids), LAMBDA s : s.type # "headers")

\* All elements of one kind, those of a level before those below it.
RECURSIVE ByLevel(_, _)
ByLevel(elems, el) ==
    SelectSeq(elems, LAMBDA e : e.el = el) \o Each(elems, LAMBDA e : ByLevel(e.kids, el))

\* The requests of a plan whose group yields no step, without their place.
FlatSteps(plan) ==
    LET timers   == ByLevel(plan.body, "Timer")
        samplers == ByLevel(plan.body, "Sampler")
        Flat(e)  == [Step EXCEPT !.name = e.name, !.uses = e.uses,
                                 !.pause = IF timers = <<>> THEN 0 ELSE timers[1].pause]
    IN IF samplers = <<>> THEN <<[Step EXCEPT !.name = "health"]>>
       ELSE [i \in DOMAIN samplers |-> Flat(samplers[i])]
            \o [i \in DOMAIN ByLevel(plan.body, "Check") |-> [Step EXCEPT !.type = "check"]]

ImportSteps(plan) ==
    IF GroupSteps(plan) # <<>> THEN PlanFragments(plan) \o GroupSteps(plan)
                               ELSE FlatSteps(plan)

\* The last data set wins.  Its rows do not come with it.
ImportData(plan) ==
    LET sets == ByLevel(plan.body, "CSV")
    IN IF sets = <<>> THEN NoData
       ELSE [cols |-> Last(sets).cols, inline |-> "absent", file |-> Last(sets).file]
=============================================================================
