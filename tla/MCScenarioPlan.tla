---------------------------- MODULE MCScenarioPlan ----------------------------
(* Values for the constants of ScenarioPlan. *)
EXTENDS ScenarioPlan

\* Requests.  c and d are columns, p and q inputs.
A == [Step EXCEPT !.name = "A", !.uses = {"c"}]
B == [Step EXCEPT !.name = "B", !.uses = {"p"}]
C == [Step EXCEPT !.name = "C"]
D == [Step EXCEPT !.name = "D", !.uses = {"p"}]

Off(s)          == [s EXCEPT !.on = FALSE]
With(s, kids)   == [s EXCEPT !.kids = kids]
Group(kids)     == [Step EXCEPT !.type = "group", !.name = "group", !.kids = kids]
Loop(kids)      == [Step EXCEPT !.type = "logic", !.name = "loop", !.kids = kids]
Frag(name, kids) == [Step EXCEPT !.type = "fragment", !.name = name, !.kids = kids]
Ref(name)       == [Step EXCEPT !.type = "include", !.ref = name]
In(s, var, val) == [s EXCEPT !.inputs = (var :> val) @@ s.inputs]
Burst(size)     == [Step EXCEPT !.type = "burst", !.name = "burst", !.size = size]
Check           == [Step EXCEPT !.type = "check", !.name = "check"]

F  == Frag("F", <<B>>)
FG == Frag("G", <<C, With(Group(<<>>), <<B>>)>>)

MCTrees == {
    <<>>,
    <<A>>,
    <<F, A, In(Ref("F"), "p", "1"), C, In(Ref("F"), "p", "2")>>,
    <<Group(<<F, A>>), Loop(<<In(Ref("F"), "p", "1")>>)>>,
    <<F, FG, In(Ref("G"), "p", "1"), In(Ref("F"), "p", "2")>>,
    <<F, In(Ref("F"), "p", "1")>>,
    <<F, Frag("F", <<C>>), Ref("F"), A>>,
    <<F, Frag("F", <<B>>), In(Ref("F"), "p", "1"), C>>,
    <<F, Ref("H"), A>>,
    <<F, A>>,
    <<F>>,
    <<In(With(Ref("X"), <<B, C>>), "p", "1"), A>>,
    <<F, In(With(Ref("X"), <<In(Ref("F"), "p", "2")>>), "p", "1"), A>>,
    <<F, In(With(Ref("X"), <<In(Ref("F"), "p", "2"), D>>), "p", "1"), A>>,
    <<F, A, Off(In(Ref("F"), "p", "1"))>>,
    <<F, Frag("G", <<C, In(Ref("F"), "p", "1")>>), A, Ref("G")>>,
    <<Off(A), C>>,
    <<Off(Group(<<A>>)), C, With([C EXCEPT !.name = "E"], <<Check>>)>>,
    <<With(A, <<Burst(2)>>), C>>,
    <<With(A, <<Burst(3)>>), C>>,
    <<Group(<<Burst(2), A>>), C>>,
    <<Frag("F", <<Burst(3), C>>), A, Ref("F")>>,
    <<Frag("", <<C>>), Ref("fragment-1"), A>>,
    <<[A EXCEPT !.props = {"headers"}, !.pause = 3], [C EXCEPT !.pause = 1]>>,
    <<A, [Step EXCEPT !.type = "inputs", !.inputs = ("p" :> "1")], B>>
  }

MCRewrites == {<<F, A, In(Ref("F"), "p", "2")>>}

Rows(cols) == [cols |-> cols, inline |-> "some", file |-> ""]
File(cols) == [cols |-> cols, inline |-> "absent", file |-> "users.csv"]
MCDataSets == {NoData, Rows({"c", "d"}), File({"c"})}

PlanBurst == [Step EXCEPT !.type = "burst", !.name = "Rendezvous", !.size = 4]
PlainThreads == [mode |-> "vus", burst |-> NoBurst]
Arrivals     == [mode |-> "arrivals", burst |-> PlanBurst]
MCSchedules  == {PlainThreads, Arrivals}

\* Every tree with threads, some with arrivals; one tree with every data set.
MCScenarios ==
    {[steps |-> t, data |-> Rows({"c"}), schedule |-> PlainThreads, stored |-> TRUE] : t \in MCTrees}
        \cup [steps : {t \in MCTrees : Len(t) > 2}, data : {NoData},
              schedule : {Arrivals}, stored : {TRUE}]
        \cup [steps : {<<A>>}, stored : BOOLEAN,
              data : MCDataSets \cup {[cols |-> {"c"}, inline |-> "none", file |-> ""]},
              schedule : {[mode |-> "vus", burst |-> PlanBurst], Arrivals}]

MCSegments == <<[delay |-> 0, ramp |-> 10, arrivals |-> 2],
                [delay |-> 10, ramp |-> 10, arrivals |-> 3]>>

\* Two data sets, a controller without inputs and a disabled request; a pause of
\* its own; nothing but an unknown element.
El(el) == [Element EXCEPT !.el = el]
Request(name) == [Element EXCEPT !.name = name]
Alone(kids) == [name |-> "other",
                body |-> <<[El("ThreadGroup") EXCEPT !.size = 3, !.kids = kids]>>]
MCForeign == {
    [name |-> "other",
     body |-> <<[El("CSV") EXCEPT !.cols = {"c"}, !.file = "users.csv"],
                [El("ThreadGroup") EXCEPT !.size = 3,
                    !.kids = <<[El("CSV") EXCEPT !.cols = {"d"}, !.file = "more.csv"],
                               [El("Simple") EXCEPT !.kids = <<Request("A")>>],
                               [Request("C") EXCEPT !.on = FALSE]>>]>>],
    Alone(<<[El("Transaction") EXCEPT
                !.kids = <<[El("Timer") EXCEPT !.pause = 2], Request("A")>>]>>),
    Alone(<<[El("Headers") EXCEPT !.name = "all"]>>)}

\* Requests a capture drops, one too many, times out of order and not known.
At(name, t) == [Entry EXCEPT !.name = name, !.at = t]
MCCaptures == {
    <<At("A", 1), At("script", 3), At("preflight", 4), At("C", 6), At("metadata", 7), At("B", 7)>>,
    <<At("A", 2), At("", 3), At("C", 0), At("host", 5), At("E", 9), At("D", 12), At("B", 13)>>,
    <<At("A", 5), At("C", 1), At("B", 19)>>}
MCCollections == {
    <<Group(<<A, [A EXCEPT !.name = "metadata"], Group(<<[C EXCEPT !.props = {"headers"}]>>)>>),
      [A EXCEPT !.name = "host"], Burst(1)>>}
=============================================================================
