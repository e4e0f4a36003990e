----------------------------- MODULE ScenarioPlan -----------------------------
(***************************************************************************)
(* One scenario and the JMX plan stored with it: upsert generates the plan *)
(* or takes the one that is posted back, export and import carry it to     *)
(* another scenario, validate reads the steps, and a run takes the plan.   *)
(* The two are meant to say the same.                                      *)
(*                                                                         *)
(* Validate and dispatch change no scenario: they are functions of the     *)
(* row.  The targets answer every request, so the dry run fails for no     *)
(* other reason than the plan.                                             *)
(***************************************************************************)
EXTENDS PlanImport, PlanCapture

CONSTANTS
    Scenarios,   \* first ones: [steps, data, schedule, stored]
    Rewrites,    \* steps a later save may bring
    DataSets,    \* data it may bring
    Schedules,   \* [mode, burst] it may bring: threads or arrivals, burst of the plan
    Threads,     \* their threads
    Segments,    \* arrival segments of an arrivals schedule
    Foreign,     \* plans written elsewhere
    Captures,    \* HAR captures taken elsewhere: sequences of entries
    Collections, \* Postman collections
    CapturedThreads, \* threads of a scenario made of a capture: 10
    MaxChanges   \* bound on saves and imports

ASSUME ScenarioPlanAssumption ==
    /\ Threads \in Nat \ {0} /\ CapturedThreads \in Nat \ {0} /\ MaxChanges \in Nat
    /\ \A s \in Scenarios : {t.type : t \in ToSet(StepsOf(s.steps))} \subseteq Types

VARIABLES
    row,      \* the scenario
    file,     \* an export at hand, and (ghost) the row it was made of
    changes   \* saves and imports so far

vars == <<row, file, changes>>

Load == INSTANCE LoadShape WITH MaxVUs <- 100, MaxArrivals <- 100, MaxRate <- 100,
                                MaxDuration <- 100, MaxWorkers <- 100

NoFile == [kind |-> "none"]

-----------------------------------------------------------------------------
(* Generating a plan.                                                      *)

GroupSizes(mode, threads) ==
    IF mode = "arrivals" THEN [i \in DOMAIN Segments |-> Segments[i].arrivals]
                         ELSE <<threads>>

Generated(r) == Generate(r.name, r.steps, r.data, GroupSizes(r.mode, r.threads), r.burst)

\* The plan that is stored with a row.
PlanFor(r, posted) ==
    IF posted = NoPlan \/ r.mode = "arrivals" THEN Generated(r) ELSE SyncCSV(posted, r.data)

Upsert(steps, data, schedule, posted) ==
    LET r == [name |-> "scenario", steps |-> steps, data |-> data, threads |-> Threads,
              mode |-> schedule.mode, burst |-> schedule.burst]
    IN [jmx |-> PlanFor(r, posted)] @@ r

-----------------------------------------------------------------------------
(* Validate and run.                                                       *)

FirstRow(data) == [c \in (IF data.inline = "some" THEN data.cols ELSE {}) |-> "row"]

\* The columns of a file whose names are not given are known to the runner only.
ColumnsUnknown(data) == data.inline = "absent" /\ data.file # "" /\ data.cols = {}

\* Every column, input and plan column counts, wherever it stands.
KnownVars(r) ==
    r.data.cols \cup InputNames(TreeOf(r.steps))
        \cup UNION {e.cols : e \in ToSet(ByLevel(r.jmx.body, "CSV"))}

Validate(r) ==
    LET tree == TreeOf(r.steps)
        dry  == DryRun(tree, FirstRow(r.data))
    IN [sent |-> dry.sent,
        pass |-> /\ dry.ok
                 /\ ColumnsUnknown(r.data) \/ VarTokens(tree) \subseteq KnownVars(r)
                 /\ \A ref \in ToSet(FragmentRefs(tree)) : ref.mode # "unresolved"
                 /\ BurstTriage(tree, r.threads) = <<>>]

\* The plan each of n workers runs.
Dispatched(r, n) ==
    LET arrivals == r.mode = "arrivals"
        plan     == SyncCSV(IF arrivals \/ r.jmx = NoPlan THEN Generated(r) ELSE r.jmx, r.data)
        total    == IF arrivals THEN Load!ArrivalsOf(Segments) ELSE r.threads
        share    == Load!SplitAcross(total, n)
        Part(w)  == LET segs == Load!ScaledTo(Segments, share[w], total)
                    IN Generate(r.name, r.steps, r.data,
                                [i \in DOMAIN segs |-> segs[i].arrivals], r.burst)
    IN [w \in 1..n |-> IF ~arrivals THEN RewriteThreads(plan, share[w])
                       ELSE IF n > 1 THEN Part(w) ELSE plan]

-----------------------------------------------------------------------------
(* The handlers.                                                           *)

\* A first save; before plans were stored, a row had none.
Init ==
    /\ \E s \in Scenarios :
          LET r == Upsert(s.steps, s.data, s.schedule, NoPlan)
          IN row = IF s.stored THEN r ELSE [r EXCEPT !.jmx = NoPlan]
    /\ file = NoFile
    /\ changes = 0

\* The caller posts the stored plan back or leaves it to the server.  One
\* save changes the steps, the data or the schedule.
Save ==
    /\ changes < MaxChanges /\ file = NoFile
    /\ \E steps \in {row.steps} \cup Rewrites, data \in {row.data} \cup DataSets,
          schedule \in {[mode |-> row.mode, burst |-> row.burst]} \cup Schedules,
          posted \in {row.jmx, NoPlan} :
          LET next == Upsert(steps, data, schedule, posted)
          IN /\ Cardinality({f \in {"steps", "data", "mode"} : next[f] # row[f]}
                            \cup (IF next.burst # row.burst THEN {"mode"} ELSE {})) <= 1
             /\ row' = next
    /\ changes' = changes + 1
    /\ UNCHANGED file

\* An export changes nothing, and its import depends on nothing else: the one
\* is taken to follow the other.  Without a stored plan one is generated, and
\* never from the schedule.
Export ==
    /\ changes < MaxChanges /\ file = NoFile
    /\ LET plan == IF row.jmx # NoPlan THEN row.jmx
                   ELSE Generated([row EXCEPT !.mode = "vus", !.burst = NoBurst])
       IN file' = [kind |-> "jmx", plan |-> SyncCSV(plan, row.data), of |-> row]
    /\ UNCHANGED <<row, changes>>

ExportCapture ==
    /\ changes < MaxChanges /\ file = NoFile
    /\ \/ file' = [kind |-> "har", entries |-> ToHAR(row.steps), of |-> row]
       \/ file' = [kind |-> "xhr", entries |-> ToXHR(row.steps), of |-> row]
    /\ UNCHANGED <<row, changes>>

\* The plan becomes that of a new scenario as it is.
Imported(plan) ==
    [name |-> "imported", steps |-> ImportSteps(plan), data |-> ImportData(plan),
     threads |-> ByLevel(plan.body, "ThreadGroup")[1].size,
     mode |-> "vus", burst |-> NoBurst, jmx |-> plan]

Import ==
    /\ changes < MaxChanges
    /\ \E plan \in (CASE file.kind = "none" -> Foreign
                       [] file.kind = "jmx"  -> {file.plan}
                       [] OTHER              -> {}) :
          row' = Imported(plan)
    /\ file' = NoFile
    /\ changes' = changes + 1

\* The requests of a capture become the steps, and a plan is generated.
Captured(steps) ==
    LET r == [name |-> "captured", steps |-> steps, data |-> NoData,
              threads |-> CapturedThreads, mode |-> "vus", burst |-> NoBurst]
    IN [jmx |-> Generated(r)] @@ r

\* A capture taken elsewhere is a HAR.
CapturedSteps(includeStatic) ==
    CASE file.kind = "none" -> {FromHAR(c, includeStatic) : c \in Captures}
      [] file.kind = "har"  -> {FromHAR(file.entries, includeStatic)}
      [] file.kind = "xhr"  -> {FromXHR(file.entries, includeStatic)}
      [] OTHER              -> {}

ImportCapture ==
    /\ changes < MaxChanges
    /\ \E steps \in UNION {CapturedSteps(includeStatic) : includeStatic \in BOOLEAN} :
          steps # <<>> /\ row' = Captured(steps)
    /\ file' = NoFile
    /\ changes' = changes + 1

ImportPostman ==
    /\ changes < MaxChanges /\ file = NoFile
    /\ \E collection \in Collections :
          LET steps == FromPostman(collection)
          IN steps # <<>> /\ row' = Captured(steps)
    /\ changes' = changes + 1
    /\ UNCHANGED file

Next == Save \/ Export \/ ExportCapture \/ Import \/ ImportCapture \/ ImportPostman

Spec == Init /\ [][Next]_vars
-----------------------------------------------------------------------------
(* Properties.                                                             *)

Fleets == 1..2

\* What a run has of a request that the steps determine: its inputs, not the
\* columns of the data.
Bound(r, sent) ==
    [i \in DOMAIN sent |->
        [name |-> sent[i].name,
         vars |-> [v \in DOMAIN sent[i].vars \cap InputNames(r.steps) |-> sent[i].vars[v]]]]

\* The stored plan is the one its steps and its schedule make.
Current(r) == r.jmx = NoPlan \/ StripCSV(r.jmx.body) = StripCSV(Generated(r).body)

\* Inputs around inputs: the reference that is read back keeps the outer ones.
DoubleScopes(plan) ==
    {e \in ToSet(ByLevel(plan.body, "Simple")) :
        e.scoped /\ \E k \in ToSet(e.kids) : k.el = "Simple" /\ k.scoped}

\* Or the steps are the ones read from its thread group.
Agree(r) ==
    \/ Current(r)
    \/ /\ GroupSteps(r.jmx) # <<>> /\ DoubleScopes(r.jmx) = {}
       /\ r.steps = ImportSteps(r.jmx)

References(list) == SelectSeq(StepsOf(list), LAMBDA s : s.type = "include")

\* Disabled steps of these types are left out by the dry run and written to
\* the plan as if they were enabled.
RevivedSteps(list) ==
    {s \in ToSet(StepsOf(list)) : ~s.on /\ s.type \in {"include", "burst", "inputs"}}

\* Every step, and the journey as the group it is.
Holders(list) == ToSet(StepsOf(<<[Step EXCEPT !.type = "group", !.kids = list]>>))

\* Inputs hold for all requests beside them; the dry run binds them in passing.
LateInputs(list) ==
    {s \in Holders(list) :
        \E i \in DOMAIN s.kids : s.kids[i].type = "inputs" /\ (i > 1 \/ s.type = "http")}

\* A pause or headers that are not below a request are read from a plan as
\* steps, which the dry run and a generated plan take for requests.
StrayRequests(list) == {s \in ToSet(StepsOf(list)) : s.type \in {"think", "headers"}}

\* References in a fragment are followed by the dry run; the plan has none.
LostReferences(list) ==
    {s \in UNION {ToSet(References(f.kids)) : f \in ToSet(FragmentDefs(list))} : s.kids = <<>>}

\* References below a reference.
InnerReferences(list) == UNION {ToSet(References(s.kids)) : s \in ToSet(References(list))}

\* A reference binds an input of what is around it anew: for what comes after
\* it the dry run keeps the inner value, a plan has the outer one.
Rebound(list) ==
    {s \in Holders(list) :
        LET beside == {k \in ToSet(s.kids) : k.type = "inputs"}
            names  == UNION {DOMAIN k.inputs : k \in beside \cup {s}}
        IN \E inner \in ToSet(References(s.kids)) : names \cap DOMAIN inner.inputs # {}}

\* Without any of them the dry run and the plan agree.
Faithful(list) == RevivedSteps(list) \cup LostReferences(list) \cup LateInputs(list) \cup Rebound(list) = {}

\* When validate passes, the run sends the requests the dry run sent, in its
\* order and with its inputs: in every thread group of every worker, from a
\* plan generated now or stored earlier, and after an import.
RunsWhatValidateRan ==
    LET v == Validate(row)
    IN (/\ v.pass /\ Agree(row) /\ Faithful(row.steps)
        /\ Current(row) \/ StrayRequests(row.steps) = {})
       => \A n \in Fleets : \A plan \in ToSet(Dispatched(row, n)) :
            \A group \in ToSet(Groups(plan)) :
                Bound(row, Requests(plan, group, row.data)) = Bound(row, v.sent)

\* A run reads the data of its scenario: the columns it binds are those of the
\* scenario, whatever data sets the plan was written with.
DataReachesRun ==
    (Emits(row.data) /\ row.data.file # DataFile)
    => \A n \in Fleets : \A plan \in ToSet(Dispatched(row, n)) :
         \A group \in ToSet(Groups(plan)) :
            DOMAIN RunRow(plan, group, row.data) = row.data.cols

\* One thread's requests and the time it waits before each.
Pace(plan, group) ==
    LET pass == Pass(group.kids, NoScope, plan)
    IN [i \in DOMAIN pass |-> [name |-> pass[i].name, pause |-> pass[i].scope.pause]]

PaceOf(r) == LET plan == Generated([r EXCEPT !.mode = "vus"])
             IN Pace(plan, Groups(plan)[1])

\* Nothing but requests on one level, which a capture keeps.
Plain(steps) ==
    /\ Len(steps) <= MaxKept
    /\ \A s \in ToSet(steps) :
          /\ s.type = "http" /\ s.on
          /\ \A k \in ToSet(s.kids) : k.type \in {"check", "burst"}
          /\ Keeps(s, FALSE)

\* Import of an export is the same journey: with its inputs and its pauses from
\* a JMX plan, with its pauses from an XHR list, its requests from a HAR.
ReimportKeepsJourney ==
    [][(file.kind # "none" /\ changes' > changes)
       => LET before  == Validate(file.of).sent
              after   == Validate(row').sent
              Names(sent) == [i \in DOMAIN sent |-> sent[i].name]
          IN /\ (/\ file.kind = "jmx" /\ row' = Imported(file.plan)
                 /\ Current(file.of) /\ Faithful(file.of.steps)
                 /\ GroupSteps(file.plan) # <<>>)
                => /\ Bound(file.of, after) = Bound(file.of, before)
                   /\ file.of.steps # <<>> => PaceOf(row') = PaceOf(file.of)
             /\ (/\ file.kind \in {"har", "xhr"} /\ Plain(file.of.steps)
                 /\ file.of.steps # <<>>
                 /\ row' \in {Captured(s) : s \in CapturedSteps(FALSE)})
                => /\ Names(after) = Names(before)
                   /\ file.kind = "xhr" => PaceOf(row') = PaceOf(file.of)]_vars

\* The times of a capture's entries, where they are known, and whether they are
\* in order and without a gap that is no pause.
Times(entries) == SelectSeq([i \in DOMAIN entries |-> entries[i].at], LAMBDA t : t # 0)
Steady(times) ==
    \A i \in 2..Len(times) :
        times[i] >= times[i - 1] /\ times[i] - times[i - 1] < MaxPause

\* A run of a capture sends the requests that were kept, in their order, and a
\* thread takes the time the user took from the first to the last of them.
CaptureKeepsPace ==
    [][\A entries \in Captures, includeStatic \in BOOLEAN :
        LET kept  == FirstKept(Kept(entries, includeStatic))
            times == Times(kept)
        IN (/\ changes' > changes /\ Steady(times) /\ times # <<>>
            /\ row' = Captured(FromHAR(entries, includeStatic)))
           => \A n \in Fleets : \A plan \in ToSet(Dispatched(row', n)) :
                \A group \in ToSet(Groups(plan)) :
                    LET pace == Pace(plan, group)
                    IN /\ [i \in DOMAIN pace |-> pace[i].name]
                             = [i \in DOMAIN kept |-> kept[i].name]
                       /\ FoldLeft(LAMBDA acc, p : acc + p.pause, 0, pace)
                             = Last(times) - Head(times)]_vars

\* The first request may be disabled, and the burst with it.
BurstOff(r) ==
    /\ Placement(r.steps, r.burst).mode = "sampler"
    /\ \A s \in ToSet(Validate(r).sent) : s.name # FirstOwn(r.steps).name

\* The burst of the plan gates the requests upsert says it gates.
BurstIsReported ==
    (/\ row.burst # NoBurst /\ row.steps # <<>> /\ Current(row) /\ ~BurstOff(row)
     /\ \A s \in ToSet(Bursts(row.steps)) : s.size # row.burst.size)
    => LET said == Placement(row.steps, row.burst)
           gate == [size |-> row.burst.size, timed |-> "timeout" \in row.burst.props]
       IN \A n \in Fleets : \A plan \in ToSet(Dispatched(row, n)) :
            \A group \in ToSet(Groups(plan)) :
                LET pass     == Pass(group.kids, NoScope, plan)
                    Gates(i) == gate \in pass[i].scope.gates
                IN /\ \A i \in DOMAIN pass :
                        Gates(i) <=> (said.mode = "thread_group" \/ pass[i].name = said.at)
                   /\ (said.after = <<>> /\ StrayRequests(row.steps) = {} /\ pass # <<>>)
                      => Gates(1)

ModulesIn(plan) == ByLevel(plan.body, "Module")

\* What validate and upsert report of references is what the plan has, and
\* every module reference points at one fragment.
ReportIsEmission ==
    \A n \in Fleets : \A plan \in ToSet(Dispatched(row, n)) :
        /\ \A m \in ToSet(ModulesIn(plan)) :
              Cardinality({i \in DOMAIN plan.body :
                  plan.body[i].el = "Fragment"
                  /\ m.path = <<plan.name, plan.name, plan.body[i].name>>}) = 1
        /\ (Current(row) /\ InnerReferences(row.steps) = {}) => \A group \in ToSet(Groups(plan)) :
              LET refs == FragmentRefs(TreeOf(row.steps))
              IN [i \in DOMAIN ByLevel(group.kids, "Module") |->
                        Last(ByLevel(group.kids, "Module")[i].path)]
                 = LET m == SelectSeq(refs, LAMBDA r : r.mode = "module")
                   IN [i \in DOMAIN m |-> m[i].ref]

\* After a pass no thread of one worker waits for more threads than there are.
BurstsFill ==
    (Validate(row).pass /\ row.mode = "vus" /\ row.burst = NoBurst /\ Agree(row))
    => LET plan == Dispatched(row, 1)[1]
       IN \A group \in ToSet(Groups(plan)) :
            \A r \in ToSet(Pass(group.kids, NoScope, plan)) :
                \A gate \in r.scope.gates : gate.size <= group.size
=============================================================================
