------------------------------- MODULE PlanTree -------------------------------
(***************************************************************************)
(* The steps of a scenario: a tree of requests, checks, controllers,       *)
(* fragments (reusable journeys, definitions only) and references to them. *)
(* This module reads the tree as the dry run of validate and the reports   *)
(* of upsert and validate do; PlanEmission writes the plan from it.        *)
(*                                                                         *)
(* The aliases of a type are one type here.  References must not lead from *)
(* a fragment back to itself: the code walks such a tree without end.      *)
(***************************************************************************)
EXTENDS Integers, Sequences, SequencesExt, FiniteSets, TLC

\* A step is an EXCEPT of this one.  "" stands for an absent name.
Step == [type   |-> "http",
         name   |-> "",
         ref    |-> "",      \* the fragment a reference names
         on     |-> TRUE,    \* enabled
         inputs |-> <<>>,    \* params: values of variables
         uses   |-> {},      \* variables a request refers to
         pause  |-> 0,       \* time to think before a request
         props  |-> {},      \* "headers"; "timeout" of a burst
         size   |-> 0,       \* threads a burst waits for, 0 for all
         kids   |-> <<>>]

Types == {"http", "check", "group", "logic", "fragment", "include",
          "burst", "inputs", "think", "headers"}

\* f[1] \o f[2] \o ... for a sequence of sequences.
Each(list, Of(_)) == FlattenSeq([i \in DOMAIN list |-> Of(list[i])])

-----------------------------------------------------------------------------
(* Fragments and references.                                               *)

\* Fragment definitions, wherever they stand, in the order of the tree.
RECURSIVE FragmentDefs(_)
FragmentDefs(list) ==
    Each(list, LAMBDA s : (IF s.type = "fragment" THEN <<s>> ELSE <<>>)
                              \o FragmentDefs(s.kids))

FragmentNames(list) == {f.name : f \in ToSet(FragmentDefs(list))} \ {""}

\* The last definition of a name wins.
IndexFragments(list) ==
    LET defs == FragmentDefs(list)
    IN [n \in FragmentNames(list) |-> defs[SelectLastInSeq(defs, LAMBDA f : f.name = n)]]

NameCount(list, name) ==
    Len(SelectSeq(FragmentDefs(list), LAMBDA f : f.name = name))

RefOf(s) == IF s.ref # "" THEN s.ref ELSE s.name

\* What a plan emitter knows of fragments.
Context(list) == [frags  |-> IndexFragments(list),
                  counts |-> [n \in FragmentNames(list) |-> NameCount(list, n)]]
NoContext     == [frags |-> <<>>, counts |-> <<>>]

\* Faulty variant: a name that several fragments share is pointed at, too.
DecideAmbiguous(s, ctx) ==
    IF RefOf(s) = "" THEN "unresolved"
    ELSE IF s.kids # <<>> THEN "inline"
    ELSE IF RefOf(s) \notin DOMAIN ctx.frags THEN "unresolved" ELSE "module"

\* How one reference is emitted.
Decide(s, ctx) ==
    IF RefOf(s) = "" THEN "unresolved"
    ELSE IF s.kids # <<>> THEN "inline"
    ELSE IF RefOf(s) \notin DOMAIN ctx.frags THEN "unresolved"
    ELSE IF ctx.counts[RefOf(s)] > 1 THEN "inline" ELSE "module"

\* References outside fragments and outside other references.
RECURSIVE CallSites(_)
CallSites(list) ==
    Each(list, LAMBDA s : CASE s.type = "include"  -> <<s>>
                            [] s.type = "fragment" -> <<>>
                            [] OTHER               -> CallSites(s.kids))

\* fragment_references of upsert and validate.
FragmentRefs(list) ==
    LET sites == CallSites(list)
        ctx   == Context(list)
    IN [i \in DOMAIN sites |-> [ref |-> RefOf(sites[i]), mode |-> Decide(sites[i], ctx)]]

-----------------------------------------------------------------------------
(* The dry run.                                                            *)

Missing(s) == [s EXCEPT !.type = "missing", !.ref = RefOf(s)]

\* Steps in the order a dry run takes them.  Controllers stay as markers, a
\* reference is replaced by the journey it names, disabled steps are left out.
RECURSIVE Flatten(_, _)
Flatten(list, frags) ==
    Each(list, LAMBDA s :
        CASE ~s.on \/ s.type = "fragment" -> <<>>
          [] s.on /\ s.type = "include" ->
                (IF s.inputs = <<>> THEN <<>> ELSE <<[s EXCEPT !.type = "inputs"]>>)
                \o (IF s.kids # <<>> THEN Flatten(s.kids, frags)
                    ELSE IF RefOf(s) \in DOMAIN frags
                         THEN Flatten(frags[RefOf(s)].kids, frags)
                         ELSE <<Missing(s)>>)
          [] s.on /\ s.type \in {"http", "group", "logic"} ->
                <<s>> \o Flatten(s.kids, frags)
          [] s.on /\ s.type \in {"check", "burst", "inputs", "think", "headers"} -> <<s>>)

\* A request as it is sent: which one, and the variables bound when it is.
Sent(s, vars) == [name |-> s.name, uses |-> s.uses, vars |-> vars]

\* The dry run sends what it does not know as a request.  Inputs stay bound
\* from their step on; "row" is the first row of the data.
DryRun(list, row) ==
    LET Do(acc, s) ==
            CASE s.type = "inputs" -> [acc EXCEPT !.vars = s.inputs @@ acc.vars]
              [] s.type \in {"http", "think", "headers"} ->
                    [acc EXCEPT !.sent = Append(acc.sent, Sent(s, acc.vars))]
              [] s.type = "missing" -> [acc EXCEPT !.ok = FALSE]
              [] OTHER -> acc
    IN FoldLeft(Do, [vars |-> row, sent |-> <<>>, ok |-> TRUE],
                Flatten(list, IndexFragments(list)))

-----------------------------------------------------------------------------
(* Variables and bursts.                                                   *)

\* All steps of a tree, those inside fragments and disabled ones too.
RECURSIVE StepsOf(_)
StepsOf(list) == Each(list, LAMBDA s : <<s>> \o StepsOf(s.kids))

VarTokens(list) == UNION {s.uses : s \in ToSet(StepsOf(list))}
InputNames(list) == UNION {DOMAIN s.inputs : s \in ToSet(StepsOf(list))}

Bursts(list) == SelectSeq(StepsOf(list), LAMBDA s : s.type = "burst")

\* Faulty variant: a burst may wait for one thread more than there are.
BurstTriageOffByOne(list, vus) ==
    SelectSeq(Bursts(list), LAMBDA s : vus > 0 /\ s.size # 0 /\ s.size > vus + 1)

\* Bursts reported as never released.
BurstTriage(list, vus) ==
    SelectSeq(Bursts(list), LAMBDA s : vus > 0 /\ s.size # 0 /\ s.size > vus)

\* The requests of the journey itself, and the path to the first of them.
RECURSIVE HasOwn(_)
HasOwn(s) == s.type # "fragment"
                /\ (s.type = "http" \/ \E k \in ToSet(s.kids) : HasOwn(k))

\* Faulty variant: the burst is put beside the request, where it gates its
\* siblings as well.
RECURSIVE GateSiblings(_, _)
GateSiblings(list, burst) ==
    LET i == SelectInSeq(list, HasOwn)
    IN IF i = 0 THEN list
       ELSE IF list[i].type = "http" THEN <<burst>> \o list
       ELSE ReplaceAt(list, i, [list[i] EXCEPT !.kids = GateSiblings(list[i].kids, burst)])

\* The burst of the plan goes into the first request of the journey's own.
RECURSIVE GateFirst(_, _)
GateFirst(list, burst) ==
    LET i == SelectInSeq(list, HasOwn)
    IN IF i = 0 THEN list
       ELSE LET s    == list[i]
                kids == IF s.type = "http" THEN <<burst>> \o s.kids
                                           ELSE GateFirst(s.kids, burst)
            IN ReplaceAt(list, i, [s EXCEPT !.kids = kids])

RECURSIVE FirstOwn(_)
FirstOwn(list) ==
    LET s == list[SelectInSeq(list, HasOwn)]
    IN IF s.type = "http" THEN s ELSE FirstOwn(s.kids)

\* References that come before the first own request, and whether it was met.
RECURSIVE BeforeFirstOwn(_)
BeforeFirstOwn(list) ==
    LET Do(acc, s) ==
            IF acc.met \/ s.type = "fragment" THEN acc
            ELSE IF s.type = "http" THEN [acc EXCEPT !.met = TRUE]
            ELSE IF s.type = "include"
                 THEN [acc EXCEPT !.refs = Append(acc.refs, RefOf(s))]
            ELSE LET sub == BeforeFirstOwn(s.kids)
                 IN [met |-> sub.met, refs |-> acc.refs \o sub.refs]
    IN FoldLeft(Do, [met |-> FALSE, refs |-> <<>>], list)

NoBurst == [Step EXCEPT !.type = "none"]

\* Where the burst of the plan is said to have gone.
Placement(list, burst) ==
    IF burst = NoBurst THEN [mode |-> "none", at |-> "", after |-> <<>>]
    ELSE IF \E s \in ToSet(list) : HasOwn(s)
         THEN [mode |-> "sampler", at |-> FirstOwn(list).name,
               after |-> BeforeFirstOwn(list).refs]
         ELSE [mode |-> "thread_group", at |-> "", after |-> <<>>]

Gated(list, burst) == IF burst = NoBurst THEN list ELSE GateFirst(list, burst)
=============================================================================
