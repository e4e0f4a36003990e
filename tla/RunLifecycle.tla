---------------------------- MODULE RunLifecycle ----------------------------
(***************************************************************************)
(* One load run and everyone who writes its row: the handler or scheduler  *)
(* tick that creates and dispatches it, the engine goroutine that waits    *)
(* for its worker containers, the cancel and metrics handlers of opl-api   *)
(* and the reaper of opl-orchestrator.  Each writer inserts a whole new    *)
(* version of the row through the asynchronous writer; a FINAL read        *)
(* returns the landed version with the highest finished_at, and of equal   *)
(* ones the last to land.  Nothing orders the inserts.                     *)
(*                                                                         *)
(* Container names are kept in the memory of the process that dispatched   *)
(* the run (its home), so cancel and reaper see them only there.  An insert *)
(* is a goroutine of the process that asked for it and dies with it.  A    *)
(* Node runner has no container: it is a process that posts its metrics    *)
(* when it is done.  Advance is held back at the deadlines of rows, ticks  *)
(* and dispatch.                                                           *)
(***************************************************************************)
EXTENDS Integers, FiniteSets

CONSTANTS
    Workers,     \* JMeter containers of the run
    Verdicts,    \* what parsing the JTL and the SLA may yield
    Reports,     \* terminal statuses a metrics POST or a JTL import may leave
    Fallback,    \* OPA_PERF_ALLOW_NODE_FALLBACK, with a runner to spawn
    Grace,       \* OPL_RUN_REAP_GRACE_SEC
    MaxRun,      \* OPL_RUN_MAX_SEC
    ReapPeriod,  \* OPL_ORCHESTRATOR_REAP_TICK_SEC
    InspectLag,  \* longest time the reaper spends inspecting containers
    StartLag,    \* longest time from the first row to the end of dispatch
    WaitLimit,   \* waitWithTimeout gives a container up after this long
    WriteLag,    \* longest time an asynchronous row takes to land
    Upsets,      \* what may come in between, each at most once
    MaxUpsets,   \* bound: how many of them
    MaxTime      \* bound: the clock stops here

ASSUME LifecycleAssumption ==
    /\ Workers # {} /\ IsFiniteSet(Workers)
    /\ Verdicts \subseteq {"completed", "passed", "failed"}
    /\ Reports \subseteq {"completed", "passed", "failed"}
    /\ Fallback \in BOOLEAN
    /\ Upsets \subseteq {"api", "orch", "drop", "noquery", "cancel", "report", "heartbeat",
                   "blind"}
    /\ {ReapPeriod, MaxRun, MaxTime} \subseteq Nat \ {0}
    /\ {Grace, InspectLag, StartLag, WaitLimit, WriteLag, MaxUpsets} \subseteq Nat

VARIABLES
    clock,
    run,      \* how the run was asked for, and its home process
    row,      \* what a FINAL read of load_runs returns
    wire,     \* row versions handed to insertAsync and not landed
    maker,    \* the creating handler or tick, and the stamps of its first
              \* and its last row
    box,      \* the worker containers
    engine,   \* the engine goroutine or the Node runner, and its verdict
    reg,      \* runRunners of the home process holds the run
    cancel,   \* the cancel request in progress
    reap,     \* the reaper's pass over this run
    said,     \* statuses handed to notifyRunTerminal
    upset     \* which of Upsets have happened

vars == <<clock, run, row, wire, maker, box, engine, reg, cancel, reap, said,
          upset>>

Terminal == {"completed", "passed", "failed", "error", "cancelled"}
Status   == Terminal \cup {"created", "running"}
NoRow    == [status |-> "none", fin |-> 0, started |-> 0]

Running == {w \in Workers : box[w] = "running"}

TypeOK ==
    /\ clock \in 1..MaxTime
    /\ run \in [path : {"create", "schedule"}, home : {"api", "orch"},
                dispatch : BOOLEAN, engine : {"jmeter", "node"}]
    /\ row \in {NoRow} \cup [status : Status, fin : Nat, started : Nat]
    /\ wire \subseteq [status : Status, fin : Nat, started : Nat, sent : Nat,
                       from : {"api", "orch"}]
    /\ maker \in [pc : {"new", "start", "refused", "started", "fix", "done",
                        "dead"}, born : Nat, last : Nat]
    /\ box \in [Workers -> {"none", "running", "ok", "bad", "gone"}]
    /\ engine \in [pc : {"none", "wait", "node", "wrote", "said", "done", "dead"},
                   status : {"none"} \cup Verdicts, fin : Nat]
    /\ reg \in BOOLEAN
    /\ cancel \in [pc : {"idle", "read", "marked"}, started : Nat]
    /\ reap \in [pc : {"idle", "seen"}, at : Nat, started : Nat, due : Nat,
                 by : {"none", "exit", "deadline"}]
    /\ said \subseteq Terminal
    /\ upset \subseteq Upsets /\ Cardinality(upset) <= MaxUpsets

\* writer.insertAsync("load_runs", ...) of one of the two processes
Version(status, fin, started, from) ==
    [status |-> status, fin |-> fin, started |-> started, sent |-> clock,
     from |-> from]

Insert(v) == wire' = wire \cup {v}

\* opl-api or opl-orchestrator dies ("api", "orch"), the writer gives a version
\* up ("drop"), the reaper's query fails ("noquery"), the run is cancelled
\* ("cancel"), somebody posts its metrics with a terminal status or imports a JTL
\* for it ("report"), or posts "running" ("heartbeat"), inspecting a container
\* fails ("blind").
Upset(what) ==
    /\ what \in Upsets \ upset
    /\ Cardinality(upset) < MaxUpsets
    /\ upset' = upset \cup {what}

-----------------------------------------------------------------------------
Init ==
    /\ clock = 1
    /\ run \in [path : {"create"}, home : {"api"}, dispatch : BOOLEAN,
                engine : {"jmeter", "node"}]
         \cup [path : {"schedule"}, home : {"api", "orch"}, dispatch : {TRUE},
                engine : {"jmeter"}]
    /\ run.engine = "node" => run.dispatch
    /\ row = NoRow
    /\ wire = {}
    /\ maker = [pc |-> "new", born |-> 0, last |-> 0]
    /\ box = [w \in Workers |-> "none"]
    /\ engine = [pc |-> "none", status |-> "none", fin |-> 0]
    /\ reg = FALSE
    /\ cancel = [pc |-> "idle", started |-> 0]
    /\ reap \in [pc : {"idle"}, at : {0}, started : {0},
                 due : clock..clock + ReapPeriod - 1, by : {"none"}]
    /\ said = {}
    /\ upset = {}

\* The provisional row, before anything is dispatched.
Create ==
    /\ maker.pc = "new"
    /\ Insert(Version(IF run.dispatch THEN "running" ELSE "created", clock, clock,
                      run.home))
    /\ maker' = [pc |-> IF run.dispatch THEN "start" ELSE "done", born |-> clock,
                 last |-> clock]
    /\ UNCHANGED <<clock, run, row, box, engine, reg, cancel, reap, said, upset>>

\* dispatchJMeterRunScaled starts the next worker ...
StartWorker(w) ==
    /\ maker.pc = "start" /\ run.engine = "jmeter"
    /\ box[w] = "none"
    /\ box' = [box EXCEPT ![w] = "running"]
    /\ UNCHANGED <<clock, run, row, wire, maker, engine, reg, cancel, reap, said,
                   upset>>

\* ... refuses, before the first worker or between two of them ...
Refuse ==
    /\ maker.pc = "start"
    /\ \E w \in Workers : box[w] = "none"
    /\ maker' = [maker EXCEPT !.pc = "refused"]
    /\ UNCHANGED <<clock, run, row, wire, box, engine, reg, cancel, reap, said,
                   upset>>

\* ... or has started them all, and hands them to the engine goroutine.
Started ==
    /\ maker.pc = "start"
    /\ \A w \in Workers : box[w] # "none"
    /\ maker' = [maker EXCEPT !.pc = "started"]
    /\ engine' = [engine EXCEPT !.pc = "wait"]
    /\ UNCHANGED <<clock, run, row, wire, box, reg, cancel, reap, said, upset>>

\* maybeDispatchLoadRunner: the create handler spawns a Node runner when asked
\* to, or when JMeter was refused.  "running" is not written again.
StartNode ==
    /\ Fallback
    /\ run.path = "create"
    /\ maker.pc = (IF run.engine = "node" THEN "start" ELSE "refused")
    /\ maker' = [maker EXCEPT !.pc = "done"]
    /\ engine' = [engine EXCEPT !.pc = "node"]
    /\ UNCHANGED <<clock, run, row, wire, box, reg, cancel, reap, said, upset>>

\* registerRunContainers, once dispatch has returned.
Register ==
    /\ maker.pc = "started"
    /\ reg' = TRUE
    /\ maker' = [maker EXCEPT !.pc = "fix"]
    /\ UNCHANGED <<clock, run, row, wire, box, engine, cancel, reap, said, upset>>

\* The second row: the create handler stamps it afresh, the scheduler reuses
\* the tick's time.  Only the create handler repeats "running".
FixRow ==
    LET fin == IF run.path = "create" THEN clock ELSE maker.born IN
    /\ \/ /\ maker.pc = "refused"
          /\ Insert(Version("failed", fin, maker.born, run.home))
          /\ said' = said \cup {"failed"}
       \/ /\ maker.pc = "fix"
          /\ IF run.path = "create"
             THEN Insert(Version("running", fin, maker.born, run.home))
             ELSE UNCHANGED wire
          /\ UNCHANGED said
    /\ maker' = [maker EXCEPT !.pc = "done", !.last = fin]
    /\ UNCHANGED <<clock, run, row, box, engine, reg, cancel, reap, upset>>

-----------------------------------------------------------------------------
(* Containers and the engine goroutine. *)

\* JMeter exits; docker run --rm removes the container a little later.
BoxExit(w) ==
    /\ box[w] = "running"
    /\ box' \in {[box EXCEPT ![w] = "ok"], [box EXCEPT ![w] = "bad"]}
    /\ UNCHANGED <<clock, run, row, wire, maker, engine, reg, cancel, reap, said,
                   upset>>

BoxRemove(w) ==
    /\ box[w] \in {"ok", "bad"}
    /\ box' = [box EXCEPT ![w] = "gone"]
    /\ UNCHANGED <<clock, run, row, wire, maker, engine, reg, cancel, reap, said,
                   upset>>

\* Every handle has returned or timed out: the results become the row.
EngineWrite ==
    /\ engine.pc = "wait"
    /\ Running = {} \/ clock >= maker.born + WaitLimit
    /\ \E v \in Verdicts :
        /\ engine' = [pc |-> "wrote", status |-> v, fin |-> clock]
        /\ Insert(Version(v, clock, clock, run.home))
    /\ UNCHANGED <<clock, run, row, maker, box, reg, cancel, reap, said, upset>>

\* Faulty variant: one notification per run, whatever its status.
EngineNotifyOnce ==
    /\ engine.pc = "wrote"
    /\ engine' = [engine EXCEPT !.pc = "said"]
    /\ said' = IF said = {} THEN {engine.status} ELSE said
    /\ UNCHANGED <<clock, run, row, wire, maker, box, reg, cancel, reap, upset>>

\* ... the samples follow, then the notification ...
EngineNotify ==
    /\ engine.pc = "wrote"
    /\ engine' = [engine EXCEPT !.pc = "said"]
    /\ said' = said \cup {engine.status}
    /\ UNCHANGED <<clock, run, row, wire, maker, box, reg, cancel, reap, upset>>

\* ... and clearRunContainers.
EngineClear ==
    /\ engine.pc = "said"
    /\ engine' = [engine EXCEPT !.pc = "done"]
    /\ reg' = FALSE
    /\ UNCHANGED <<clock, run, row, wire, maker, box, cancel, reap, said, upset>>

\* The Node runner posts its metrics, which the handler judges; the row must
\* exist and the API be up.
NodeReport ==
    /\ engine.pc = "node"
    /\ \/ /\ row = NoRow \/ "api" \in upset
          /\ engine' = [engine EXCEPT !.pc = "dead"]
          /\ UNCHANGED <<wire, said>>
       \/ /\ row # NoRow
          /\ \E v \in Verdicts :
                /\ engine' = [pc |-> "done", status |-> v, fin |-> clock]
                /\ Insert(Version(v, clock, clock, "api"))
                /\ said' = said \cup {v}
    /\ UNCHANGED <<clock, run, row, maker, box, reg, cancel, reap, upset>>

-----------------------------------------------------------------------------
(* Handlers of opl-api. *)

\* POST .../cancel reads the row and goes on unless it is terminal or created.
CancelRead ==
    /\ cancel.pc = "idle"
    /\ row.status \notin Terminal \cup {"none", "created"}
    /\ Upset("cancel")
    /\ cancel' = [pc |-> "read", started |-> row.started]
    /\ UNCHANGED <<clock, run, row, wire, maker, box, engine, reg, reap, said>>

CancelMark ==
    /\ cancel.pc = "read"
    /\ Insert(Version("cancelled", clock, cancel.started, "api"))
    /\ said' = said \cup {"cancelled"}
    /\ cancel' = [cancel EXCEPT !.pc = "marked"]
    /\ UNCHANGED <<clock, run, row, maker, box, engine, reg, reap, upset>>

\* stopRunContainers: docker stop may fail for any of them, the entry goes.
CancelStop ==
    /\ cancel.pc = "marked"
    /\ cancel' = [cancel EXCEPT !.pc = "idle"]
    /\ IF run.home = "api" /\ reg
       THEN /\ reg' = FALSE
            /\ \E S \in SUBSET Running :
                box' = [w \in Workers |-> IF w \in S THEN "bad" ELSE box[w]]
       ELSE UNCHANGED <<reg, box>>
    /\ UNCHANGED <<clock, run, row, wire, maker, engine, reap, said, upset>>

\* POST .../metrics: the run need only exist; any status may be replaced.
PostMetrics(s) ==
    /\ row # NoRow
    /\ Upset(IF s = "running" THEN "heartbeat" ELSE "report")
    /\ Insert(Version(s, clock, clock, "api"))
    /\ said' = IF s \in Terminal THEN said \cup {s} ELSE said
    /\ UNCHANGED <<clock, run, row, maker, box, engine, reg, cancel, reap>>

\* POST /api/perf/runs/import-jtl?run_id=: a row under any id, read or not.
ImportJTL(s) ==
    /\ maker.pc # "new"
    /\ Upset("report")
    /\ Insert(Version(s, clock, clock, "api"))
    /\ said' = said \cup {s}
    /\ UNCHANGED <<clock, run, row, maker, box, engine, reg, cancel, reap>>

-----------------------------------------------------------------------------
(* The reaper. *)

\* A pass reads the running rows and then the clock, once for the whole pass;
\* a query that fails is the end of it.
ReapRead ==
    LET next == reap.due + ReapPeriod * ((clock - reap.due) \div ReapPeriod + 1) IN
    /\ reap.pc = "idle"
    /\ reap.due <= clock
    /\ \/ /\ reap' = IF row.status = "running"
                     THEN [reap EXCEPT !.due = next, !.pc = "seen", !.at = clock,
                                       !.started = row.started]
                     ELSE [reap EXCEPT !.due = next]
          /\ UNCHANGED upset
       \/ /\ reap' = [reap EXCEPT !.due = next]
          /\ Upset("noquery")
    /\ UNCHANGED <<clock, run, row, wire, maker, box, engine, reg, cancel, said>>

\* Faulty variants: the exit codes count while workers run; no deadline.
ReapDecisionAnyExit(age, registered, found) ==
    CASE age < Grace -> <<"none", "none">>
      [] age >= Grace /\ registered /\ found \ Running # {} ->
            <<IF \E w \in found : box[w] = "bad" THEN "failed" ELSE "completed",
              "exit">>
      [] OTHER -> IF age >= MaxRun THEN <<"error", "deadline">>
                                   ELSE <<"none", "none">>

ReapDecisionNoDeadline(age, registered, found) ==
    IF age >= Grace /\ registered /\ found # {} /\ found \cap Running = {}
    THEN <<IF \E w \in found : box[w] = "bad" THEN "failed" ELSE "completed",
           "exit">>
    ELSE <<"none", "none">>

\* reapDecision on what could be inspected; "none" leaves the run alone.
ReapDecision(age, registered, found) ==
    CASE age < Grace -> <<"none", "none">>
      [] age >= Grace /\ registered /\ found # {} /\ found \cap Running = {} ->
            <<IF \E w \in found : box[w] = "bad" THEN "failed" ELSE "completed",
              "exit">>
      [] OTHER -> IF age >= MaxRun THEN <<"error", "deadline">>
                                   ELSE <<"none", "none">>

Seen == {w \in Workers : box[w] \in {"running", "ok", "bad"}}

\* What docker inspect finds: every container that exists, unless it errs.
Inspected(found) ==
    \/ found = Seen /\ UNCHANGED upset
    \/ found # Seen /\ found \subseteq Seen /\ Upset("blind")

\* Faulty variant: the closing row is stamped when it is written.
ReapRunLateStamp ==
    /\ reap.pc = "seen"
    /\ \E found \in SUBSET Workers :
        LET registered == run.home = "orch" /\ reg
            verdict == ReapDecision(reap.at - reap.started, registered, found)
        IN
        /\ Inspected(found)
        /\ reap' = [reap EXCEPT !.pc = "idle", !.by = verdict[2]]
        /\ IF verdict[1] = "none"
           THEN UNCHANGED <<wire, said>>
           ELSE /\ Insert(Version(verdict[1], clock, reap.started, "orch"))
                /\ said' = said \cup {verdict[1]}
    /\ UNCHANGED <<clock, run, row, maker, box, engine, cancel, reg>>

\* The pass reaches this run: inspect, decide, close it and forget it.
ReapRun ==
    /\ reap.pc = "seen"
    /\ \E found \in SUBSET Workers :
        LET registered == run.home = "orch" /\ reg
            verdict == ReapDecision(reap.at - reap.started, registered, found)
        IN
        /\ Inspected(found)
        /\ IF verdict[1] = "none"
           THEN /\ reap' = [reap EXCEPT !.pc = "idle", !.at = 0, !.started = 0]
                /\ UNCHANGED <<wire, said, reg>>
           ELSE /\ reap' = [reap EXCEPT !.pc = "idle", !.at = 0, !.started = 0,
                                        !.by = verdict[2]]
                /\ Insert(Version(verdict[1], reap.at, reap.started, "orch"))
                /\ said' = said \cup {verdict[1]}
                /\ reg' = (reg /\ run.home # "orch")
    /\ UNCHANGED <<clock, run, row, maker, box, engine, cancel>>

-----------------------------------------------------------------------------
(* The writer, crashes and time. *)

\* A version lands; an attempt the client gave up on is sent again.
Land(v) ==
    /\ v \in wire
    /\ row' = IF v.fin >= row.fin
              THEN [status |-> v.status, fin |-> v.fin, started |-> v.started]
              ELSE row
    /\ wire' \in {wire, wire \ {v}}
    /\ UNCHANGED <<clock, run, maker, box, engine, reg, cancel, reap, said, upset>>

\* The writer gives a version up after three attempts.
Drop(v) ==
    /\ v \in wire
    /\ Upset("drop")
    /\ wire' = wire \ {v}
    /\ UNCHANGED <<clock, run, row, maker, box, engine, reg, cancel, reap, said>>

\* A process dies and restarts: its goroutines and registry are gone, and with
\* them the inserts that ClickHouse does not have yet.  The containers live on, a
\* Node runner may.
Crash(p) ==
    /\ maker.pc # "new"
    /\ Upset(p)
    /\ \E lost \in SUBSET {v \in wire : v.from = p} : wire' = wire \ lost
    /\ IF run.home = p
       THEN /\ maker' = [maker EXCEPT !.pc = IF @ = "done" THEN @ ELSE "dead"]
            /\ \/ engine.pc \in {"none", "done", "node"} /\ UNCHANGED engine
               \/ /\ engine.pc \notin {"none", "done"}
                  /\ engine' = [engine EXCEPT !.pc = "dead"]
            /\ reg' = FALSE
       ELSE UNCHANGED <<maker, engine, reg>>
    /\ IF p = "api"
       THEN /\ cancel' = [cancel EXCEPT !.pc = "idle"]
            /\ UNCHANGED reap
       ELSE /\ reap' = [reap EXCEPT !.pc = "idle", !.at = 0, !.started = 0,
                                    !.due = clock + ReapPeriod]
            /\ UNCHANGED cancel
    /\ UNCHANGED <<clock, run, row, box, said>>

Advance ==
    /\ clock < MaxTime
    /\ \A v \in wire : clock < v.sent + WriteLag
    /\ maker.pc \in {"start", "refused", "started", "fix"} =>
            clock < maker.born + StartLag
    /\ maker.pc # "new"
    /\ reap.pc = "idle" => clock < reap.due
    /\ reap.pc = "seen" => clock < reap.at + InspectLag
    /\ clock' = clock + 1
    /\ UNCHANGED <<run, row, wire, maker, box, engine, reg, cancel, reap, said,
                   upset>>

Next ==
    \/ Create \/ Refuse \/ Started \/ StartNode \/ Register \/ FixRow
    \/ \E w \in Workers : StartWorker(w) \/ BoxExit(w) \/ BoxRemove(w)
    \/ EngineWrite \/ EngineNotify \/ EngineClear \/ NodeReport
    \/ CancelRead \/ CancelMark \/ CancelStop
    \/ \E s \in Reports \cup {"running"} : PostMetrics(s)
    \/ \E s \in Reports : ImportJTL(s)
    \/ ReapRead \/ ReapRun
    \/ \E v \in wire : Land(v) \/ Drop(v)
    \/ \E p \in {"api", "orch"} : Crash(p)
    \/ Advance

Spec == Init /\ [][Next]_vars

-----------------------------------------------------------------------------
(* Properties. *)

\* Everybody who was going to write the row has, and everything has landed.
AtRest ==
    /\ wire = {}
    /\ maker.pc \in {"done", "dead"}
    /\ engine.pc \in {"none", "done", "dead"}
    /\ reap.pc = "idle"
    /\ cancel.pc = "idle"

\* docs/configuration.md on OPL_RUN_MAX_SEC: a running run is closed at the
\* deadline.  A pass, its inspections and the landing of its row, and as much
\* again for each crash of the orchestrator, each lost row and each failed query.
\* A "running" metrics POST restarts the run's clock.
Deadline ==
    MaxRun - 1 + (1 + Cardinality(upset \cap {"orch", "drop", "noquery"}))
                    * (ReapPeriod + InspectLag + WriteLag)

RunClosesInTime ==
    row.status = "running" /\ "heartbeat" \notin upset
        => clock <= maker.born + Deadline

\* reapDecision: a run is closed on its exit codes only when every engine
\* container has exited, as long as they can be inspected.
ExitCloseMeansExited ==
    [][/\ reap.pc = "seen" /\ reap'.pc = "idle" /\ reap'.by = "exit"
       /\ ~(wire' \subseteq wire) /\ "blind" \notin upset'
       => Running = {}]_vars

\* reapFinishedRuns closes runs stuck in running: the verdict of an engine that
\* ended after the dispatch had written its last row is the last word, and no pass
\* of the reaper that overlaps it replaces it, whatever becomes of the other
\* process.  A version that does was stamped at the verdict's own instant, or
\* before its row could land.  (The verdict of an engine that ended earlier is
\* replaced by the second "running" row: such a run is left to the deadline.)
EngineVerdictStands ==
    AtRest /\ engine.pc = "done" /\ engine.fin > maker.last
    /\ upset \cap {"drop", "cancel", "report", "heartbeat", run.home} = {}
        => row.fin \in engine.fin..engine.fin + WriteLag

\* docs/perf-lab.md: every terminal run is notified, if no process dies.
TerminalIsAnnounced ==
    AtRest /\ row.status \in Terminal /\ upset \cap {"api", "orch"} = {}
        => row.status \in said

\* docs/perf-lab.md: cancel marks the run cancelled.  The engine of a dispatched
\* run ends when its containers are stopped, and leaves it so.
CancelSticks ==
    AtRest /\ "cancelled" \in said /\ engine.pc = "done" => row.status = "cancelled"
=============================================================================
