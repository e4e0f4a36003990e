--------------------------- MODULE ScenarioStore ---------------------------
(***************************************************************************)
(* A scenario row and the handlers that rewrite it.  load_scenarios is a   *)
(* ReplacingMergeTree on updated_at: every handler inserts a whole new     *)
(* version through the asynchronous writer, most of them from a version    *)
(* they read first.  Reads that exclude archived rows fall back, when they *)
(* find nothing or fail, to a query without that filter and without the    *)
(* columns of later migrations: steps, datasets, SLA, schedule and JMX.    *)
(*                                                                         *)
(* plan stands for steps_json, datasets_json, sla_json and jmx_xml, sched  *)
(* for schedule_json: the edits whose keys it holds.  0 and {} are the     *)
(* empty defaults a rewrite puts in for a column it did not read.  The     *)
(* columns of the old query are left out.                                  *)
(***************************************************************************)
EXTENDS Integers

CONSTANTS
    Editor,      \* requests that may be open at once
    OnArchived,  \* requests operators make on an archived scenario
    MaxSent,     \* bound: versions sent
    Fails,       \* bound: reads whose first query fails
    MaxTime      \* bound: the clock stops here

Request == {"upsert", "archive", "unarchive", "schedule", "duplicate", "run"}

ASSUME StoreAssumption ==
    /\ OnArchived \subseteq Request
    /\ MaxSent \in Nat \ {0} /\ Fails \in Nat /\ MaxTime \in Nat \ {0}

VARIABLES
    clock,
    row,      \* what a FINAL read of each id returns
    wire,     \* versions sent and not landed
    sent,     \* how many versions were sent
    req,      \* the rewrite each editor has in progress
    run,      \* whether a run of the scenario is being dispatched
    bare,     \* whether a run was dispatched without a saved plan
    want,     \* what the requests so far asked for, in their order, and
              \* whether that ever was to archive the scenario
    overlap,  \* a request started before an earlier one had landed
    budget    \* failed reads still allowed

vars == <<clock, row, wire, sent, req, run, bare, want, overlap, budget>>

Id == {"scn", "copy"}

\* The no-th version sent.
Version == [id : Id, plan : Nat, sched : SUBSET Nat, arch : BOOLEAN, upd : Nat,
            no : Nat]
NoRow == [plan |-> 0]
Idle  == [op |-> "none"]

TypeOK ==
    /\ clock \in 1..MaxTime
    /\ row \in [Id -> {NoRow} \cup Version]
    /\ row["scn"] # NoRow
    /\ wire \subseteq Version
    /\ sent \in 0..MaxSent
    /\ req \in [Editor -> {Idle} \cup [op : Request, plan : Nat, sched : SUBSET Nat]]
    /\ run \in BOOLEAN
    /\ bare \in BOOLEAN
    /\ want \in [plan : Nat, sched : SUBSET Nat, arch : BOOLEAN, ever : BOOLEAN]
    /\ overlap \in BOOLEAN
    /\ budget \in 0..Fails

Quiet == wire = {} /\ \A e \in Editor : req[e] = Idle

Scenario == row["scn"]
Archived == Scenario.arch

-----------------------------------------------------------------------------
(* Reads. *)

Full(i) == [plan |-> row[i].plan, sched |-> row[i].sched]

\* loadScenarioMapReq and loadScenarioMapForTenant, whose first query may fail.
LiveRead(i, failed) ==
    IF row[i].arch \/ failed THEN [plan |-> 0, sched |-> {}] ELSE Full(i)

\* loadScenarioMapReqAny falls back to loadScenarioMapReq.
AnyRead(i, failed) == IF failed THEN LiveRead(i, FALSE) ELSE Full(i)

MayFail(failed) ==
    IF failed THEN budget > 0 /\ budget' = budget - 1 ELSE UNCHANGED budget

-----------------------------------------------------------------------------
Init ==
    /\ clock = 1
    /\ row = [i \in Id |->
         IF i = "copy" THEN NoRow
         ELSE [id |-> i, plan |-> 1, sched |-> {1}, arch |-> FALSE, upd |-> 0,
                 no |-> 1]]
    /\ wire = {}
    /\ sent = 1
    /\ req = [e \in Editor |-> Idle]
    /\ run = FALSE
    /\ bare = FALSE
    /\ want = [plan |-> 1, sched |-> {1}, arch |-> FALSE, ever |-> FALSE]
    /\ overlap = FALSE
    /\ budget = Fails

\* An operator makes a request of the scenario.
May(op) ==
    /\ sent < MaxSent
    /\ Archived => op \in OnArchived
    /\ overlap' = (overlap \/ ~Quiet)

\* writer.insertAsync("load_scenarios", ...)
Send(i, plan, sched, arch) ==
    /\ wire' = wire \cup {[id |-> i, plan |-> plan, sched |-> sched, arch |-> arch,
                           upd |-> clock, no |-> sent + 1]}
    /\ sent' = sent + 1

\* The row is replaced unread.
Replace(sched) ==
    /\ May("upsert")
    /\ Send("scn", sent + 1, sched, FALSE)
    /\ want' = [want EXCEPT !.plan = sent + 1, !.sched = sched, !.arch = FALSE]
    /\ UNCHANGED <<clock, row, req, run, bare, budget>>

\* A body without a schedule clears it.
Upsert == \E sched \in {{}, {sent + 1}} : Replace(sched)

\* Imports under the id of a scenario bring no schedule.
ImportCapture == Replace({})
ImportPostman == Replace({})

\* Faulty variant: unarchive reads like every other handler.
ReadLiveAlways(e, op) ==
    /\ req[e] = Idle
    /\ May(op)
    /\ op = "duplicate" => row["copy"] = NoRow
    /\ \E failed \in BOOLEAN :
        LET got == LiveRead("scn", failed) IN
        /\ MayFail(failed)
        /\ req' = [req EXCEPT ![e] =
                     [op |-> op, plan |-> got.plan, sched |-> got.sched]]
    /\ UNCHANGED <<clock, row, wire, sent, run, bare, want>>

\* Archive, unarchive, duplicate and the schedule edit read the row.
Read(e, op) ==
    /\ req[e] = Idle
    /\ May(op)
    /\ op = "duplicate" => row["copy"] = NoRow
    /\ \E failed \in BOOLEAN :
        LET got == IF op = "unarchive" THEN AnyRead("scn", failed)
                                       ELSE LiveRead("scn", failed) IN
        /\ MayFail(failed)
        /\ req' = [req EXCEPT ![e] =
                     [op |-> op, plan |-> got.plan, sched |-> got.sched]]
    /\ UNCHANGED <<clock, row, wire, sent, run, bare, want>>

\* ... archive and unarchive write it back with the flag set or cleared ...
WriteFlag(e) ==
    /\ req[e].op \in {"archive", "unarchive"}
    /\ sent < MaxSent
    /\ Send("scn", req[e].plan, req[e].sched, req[e].op = "archive")
    /\ want' = [want EXCEPT !.arch = (req[e].op = "archive"),
                            !.ever = @ \/ req[e].op = "archive"]
    /\ req' = [req EXCEPT ![e] = Idle]
    /\ UNCHANGED <<clock, row, run, bare, overlap, budget>>

\* Faulty variant: the copy takes the columns of the old query only.
WriteCopyBlank(e) ==
    /\ req[e].op = "duplicate"
    /\ sent < MaxSent
    /\ Send("copy", 0, {}, FALSE)
    /\ req' = [req EXCEPT ![e] = Idle]
    /\ UNCHANGED <<clock, row, run, bare, want, overlap, budget>>

\* ... duplicate writes it under a new id ...
WriteCopy(e) ==
    /\ req[e].op = "duplicate"
    /\ sent < MaxSent
    /\ Send("copy", req[e].plan, req[e].sched, FALSE)
    /\ req' = [req EXCEPT ![e] = Idle]
    /\ UNCHANGED <<clock, row, run, bare, want, overlap, budget>>

\* ... and bumpScenarioSchedule reads the row again for everything but the
\* schedule, takes what the handler read when both queries fail, and writes it
\* with the patched schedule and archived = 0.
WriteSchedule(e) ==
    /\ req[e].op = "schedule"
    /\ sent < MaxSent
    /\ LET patched == req[e].sched \cup {sent + 1} IN
       \/ \E failed \in BOOLEAN :
            /\ MayFail(failed)
            /\ Send("scn", LiveRead("scn", failed).plan, patched, FALSE)
       \/ MayFail(TRUE) /\ Send("scn", req[e].plan, patched, FALSE)
    /\ want' = [want EXCEPT !.sched = @ \cup {sent + 1}]
    /\ req' = [req EXCEPT ![e] = Idle]
    /\ UNCHANGED <<clock, row, run, bare, overlap>>

\* A scheduler tick finds the scenario among those not archived, or POST
\* /api/perf/runs finds it at all ...
AskRun ==
    /\ ~run
    /\ Archived => "run" \in OnArchived
    /\ run' = TRUE
    /\ UNCHANGED <<clock, row, wire, sent, req, bare, want, overlap, budget>>

\* ... and dispatchJMeterRunScaled reads it again; without steps and JMX it
\* generates a plan for the target URL alone.
Dispatch ==
    /\ run
    /\ run' = FALSE
    /\ \E failed \in BOOLEAN :
        /\ MayFail(failed)
        /\ bare' = (bare \/ LiveRead("scn", failed).plan = 0)
    /\ UNCHANGED <<clock, row, wire, sent, req, want, overlap>>

\* A version lands; the newest updated_at wins, of equals the last inserted.
Land(v) ==
    /\ v \in wire
    /\ wire' = wire \ {v}
    /\ row' = IF row[v.id] = NoRow \/ v.upd >= row[v.id].upd
              THEN [row EXCEPT ![v.id] = v]
              ELSE row
    /\ UNCHANGED <<clock, sent, req, run, bare, want, overlap, budget>>

Advance ==
    /\ clock < MaxTime
    /\ clock' = clock + 1
    /\ UNCHANGED <<row, wire, sent, req, run, bare, want, overlap, budget>>

Next ==
    \/ Upsert \/ ImportCapture \/ ImportPostman \/ AskRun \/ Dispatch \/ Advance
    \/ \E e \in Editor :
        \/ \E op \in {"archive", "unarchive", "schedule", "duplicate"} : Read(e, op)
        \/ WriteFlag(e) \/ WriteCopy(e) \/ WriteSchedule(e)
    \/ \E v \in wire : Land(v)

Spec == Init /\ [][Next]_vars

-----------------------------------------------------------------------------
(* Properties. *)

\* Requests made one after the other add up: the plan is the last one saved,
\* the schedule the last one set, and the scenario is archived if that was
\* asked for last.
EditsAddUp ==
    Quiet /\ ~overlap /\ budget = Fails
        => /\ Scenario.plan = want.plan
           /\ Scenario.sched = want.sched
           /\ Scenario.arch = want.arch

\* docs/perf-lab.md: unarchive restores the scenario.  Whatever is done with an
\* archived scenario, its plan is the one last saved.
PlanSurvives ==
    Quiet /\ ~overlap /\ budget = Fails => Scenario.plan = want.plan

\* load.go: jmx_xml is the source of truth for JMeter runs, and a duplicate
\* copies it.  While nobody archives the scenario and no read fails, no race of
\* rewrites, dispatch and copy leaves the plan of any of them blank.
NothingBlank ==
    ~want.ever /\ budget = Fails
        => /\ Scenario.plan > 0
           /\ ~bare
           /\ row["copy"] # NoRow => row["copy"].plan > 0
=============================================================================
