----------------------------- MODULE MeasuredRun -----------------------------
(***************************************************************************)
(* One run of the JMeter engine from the saved scenario to its verdict:    *)
(* the scenario is saved, dispatch turns it into one plan per worker and   *)
(* starts the workers one after the other, each writes its JTL file while  *)
(* it runs, and the engine goroutine waits for the workers in turn, reads  *)
(* their files in turn, judges what it read and keeps some of the rows as  *)
(* samples for the report.  A wait that times out leaves the worker        *)
(* running, and its file growing.                                          *)
(*                                                                         *)
(* No clock: a wait may time out whenever its worker still runs.  When it  *)
(* may is a property of the durations (WaitOutlastsPlan).                  *)
(***************************************************************************)
EXTENDS LoadShape, RunVerdict, RunReport

CONSTANTS
    Jobs,       \* what users save and ask for
    Responses   \* rows the requests of a plan may leave: label, ms, ok, code

ASSUME MeasuredRunAssumption ==
    /\ MaxSamples <= MaxLatencies /\ MaxLatencies <= MaxRows
    /\ \A r \in Responses : r.ms \in Nat /\ r.ok \in BOOLEAN /\ r.code \in Nat
    /\ \A j \in Jobs :
          /\ j.mode \in {"vus", "arrivals"} /\ j.raw \in BOOLEAN
          /\ j.curve \in Seq([t : Int, vus : Int, rate : Int])
          /\ {j.ask, j.duration, j.want} \subseteq Int /\ {j.rows, j.samples} \subseteq Nat
          /\ j.sla \in [p95 : SUBSET Int, errors : SUBSET [num : Int, den : Nat \ {0}],
                        rps : BOOLEAN, other : BOOLEAN]

VARIABLES
    job,      \* the request
    pc,       \* how far the run has come
    saved,    \* curve and duration as stored
    fleet,    \* one record per worker: its thread groups and data rows
    wait,     \* longest wait for one worker
    box,      \* state of each worker
    jtl,      \* the JTL file of each worker
    late,     \* ghost: workers whose wait timed out
    next,     \* the worker to start, wait for or read next
    read,     \* ghost: rows each file had when it was read
    summary,  \* merge of the files read so far
    samples,  \* rows kept of them for the report
    status    \* the verdict

vars == <<job, pc, saved, fleet, wait, box, jtl, late, next, read, summary, samples, status>>

Fleet == 1..Len(fleet)

NoSummary == [requests |-> 0, errors |-> [num |-> 0, den |-> 1], p95 |-> 0]

\* The variables have the values they are meant for.
TypeOK ==
    /\ job.mode \in {"vus", "arrivals"}
    /\ pc \in {"new", "saved", "start", "wait", "read", "judged", "refused"}
    /\ saved.duration \in 0..MaxDuration
    /\ \A w \in Fleet :
          /\ fleet[w].rows \subseteq 1..job.rows
          /\ \A g \in ToSet(fleet[w].groups) : g.arrivals > 0 /\ g.end \in Nat
    /\ wait = 0 \/ wait >= 180
    /\ box \in [Fleet -> {"none", "running", "exited"}]
    /\ \A w \in Fleet : jtl[w] \in Seq(Responses)
    /\ samples \in Seq(Responses)
    /\ late \subseteq Fleet /\ next \in 1..(Len(fleet) + 1)
    /\ \A w \in Fleet : read[w] <= Len(jtl[w])
    /\ summary.requests \in Nat /\ summary.errors.den > 0
    /\ status \in {"none", "completed", "passed", "failed"}

Init ==
    /\ job \in Jobs
    /\ pc = "new"
    /\ saved = [curve |-> <<>>, duration |-> 0]
    /\ fleet = <<>> /\ box = <<>> /\ jtl = <<>> /\ read = <<>>
    /\ wait = 0 /\ late = {} /\ next = 1
    /\ summary = NoSummary /\ samples = <<>> /\ status = "none"

-----------------------------------------------------------------------------
(* Saving and dispatching.                                                 *)

\* The curve is cleaned when it is parsed and again when it is applied.  Its
\* duration comes too late to replace that of the scenario.
Save ==
    /\ pc = "new" /\ pc' = "saved"
    /\ saved' = [curve    |-> NormalizedCurve(NormalizedCurve(job.curve)),
                 duration |-> ClampDuration(IF job.duration <= 0 THEN 60
                                                                 ELSE job.duration)]
    /\ UNCHANGED <<job, fleet, wait, box, jtl, late, next, read, summary, samples, status>>

\* A group of threads that loop until the end of the plan.
Looping(threads, end) ==
    <<[arrivals |-> threads, start |-> 0, end |-> end]>>

\* One group per segment; its journeys start by "start" and may take until "end".
OpenModel(segs, duration) ==
    [i \in DOMAIN segs |->
        [arrivals |-> segs[i].arrivals,
         start    |-> segs[i].delay + segs[i].ramp,
         end      |-> segs[i].delay + segs[i].ramp + ClampDuration(duration + 60)]]

\* In arrivals mode a share is cut from the segments, and a single worker has
\* all of them, or loops when there are none.
GroupsOf(share, total, alone, arrivals, segs, duration) ==
    IF ~arrivals THEN Looping(share, saved.duration)
    ELSE IF ~alone THEN OpenModel(ScaledTo(segs, share, total), duration)
    ELSE IF segs # <<>> THEN OpenModel(segs, duration)
    ELSE Looping(total, duration)

\* Faulty variant: the least wait is the wait.
WaitForShort(duration) == 180

\* The longest wait for one worker.
WaitFor(duration) == AtLeast(duration + 120, 180)

\* Everything dispatch computes before it starts a container: threads or
\* journeys in all, workers, their plans and data files.
Dispatch ==
    LET arrivals == job.mode = "arrivals"
        curve    == NormalizedCurve(saved.curve)
        applied  == AppliedCurve(curve, job.mode)
        asked    == IF arrivals THEN AtLeast(ClampArrivals(job.ask), 1)
                                ELSE ClampVUs(job.ask)
        scale    == IF arrivals /\ curve # <<>> THEN applied.scale ELSE asked
        segs     == IF curve # <<>> THEN applied.segs ELSE <<>>
        duration == ClampDuration(IF curve # <<>> THEN applied.duration
                                                  ELSE saved.duration)
        workers  == AtMost(AtMost(WorkerCount(job.want), asked), scale)
        share    == SplitAcross(scale, workers)
    IN /\ pc = "saved" /\ pc' = "start"
       /\ fleet' = [w \in 1..workers |->
                      [groups |-> GroupsOf(share[w], scale, workers = 1, arrivals,
                                           segs, duration),
                       rows   |-> RowsOf(w, workers, job.rows, job.raw)]]
       /\ wait' = WaitFor(duration)
       /\ box' = [w \in 1..workers |-> "none"]
       /\ jtl' = [w \in 1..workers |-> <<>>]
       /\ read' = [w \in 1..workers |-> 0]
       /\ UNCHANGED <<job, saved, late, next, summary, samples, status>>

\* The containers are started in turn, and the goroutine after the last one.
StartWorker ==
    /\ pc = "start" /\ box[next] = "none"
    /\ box' = [box EXCEPT ![next] = "running"]
    /\ IF next = Len(fleet) THEN pc' = "wait" /\ next' = 1
                            ELSE pc' = pc /\ next' = next + 1
    /\ UNCHANGED <<job, saved, fleet, wait, jtl, late, read, summary, samples, status>>

\* Dispatch gives up when a worker does not start.  The workers before it
\* keep running and nobody waits for them.
StartFails ==
    /\ pc = "start" /\ pc' = "refused"
    /\ UNCHANGED <<job, saved, fleet, wait, box, jtl, late, next, read, summary, samples, status>>

-----------------------------------------------------------------------------
(* The workers.                                                            *)

\* JMeter appends one row; a plan without thread groups has none to append.
\* Bound: job.samples rows in all files.
Sample(w) ==
    /\ box[w] = "running" /\ fleet[w].groups # <<>>
    /\ FoldFunction(LAMBDA rows, n : n + Len(rows), 0, jtl) < job.samples
    /\ \E row \in Responses : jtl' = [jtl EXCEPT ![w] = Append(@, row)]
    /\ UNCHANGED <<job, pc, saved, fleet, wait, box, late, next, read, summary, samples, status>>

\* The plan is done, or the container was stopped or died.
Exit(w) ==
    /\ box[w] = "running"
    /\ box' = [box EXCEPT ![w] = "exited"]
    /\ UNCHANGED <<job, pc, saved, fleet, wait, jtl, late, next, read, summary, samples, status>>

-----------------------------------------------------------------------------
(* The engine goroutine.                                                   *)

\* waitWithTimeout returns for the next worker; its error is dropped.
WaitEnds ==
    /\ pc = "wait"
    /\ late' = IF box[next] = "exited" THEN late ELSE late \cup {next}
    /\ IF next = Len(fleet) THEN pc' = "read" /\ next' = 1
                            ELSE pc' = pc /\ next' = next + 1
    /\ UNCHANGED <<job, saved, fleet, wait, box, jtl, read, summary, samples, status>>

\* Faulty variant: the samples of a file replace those of the files before it.
ReadJTLLastSamples ==
    /\ pc = "read" /\ next <= Len(fleet)
    /\ LET one == ParsedJTL(jtl[next])
       IN summary' = IF next = 1 THEN one ELSE Merged(summary, one)
    /\ samples' = FirstSamples(jtl[next])
    /\ read' = [read EXCEPT ![next] = Len(jtl[next])]
    /\ next' = next + 1
    /\ UNCHANGED <<job, pc, saved, fleet, wait, box, jtl, late, status>>

ReadJTL ==
    /\ pc = "read" /\ next <= Len(fleet)
    /\ LET one == ParsedJTL(jtl[next])
       IN summary' = IF next = 1 THEN one ELSE Merged(summary, one)
    /\ samples' = samples \o FirstSamples(jtl[next])
    /\ read' = [read EXCEPT ![next] = Len(jtl[next])]
    /\ next' = next + 1
    /\ UNCHANGED <<job, pc, saved, fleet, wait, box, jtl, late, status>>

Judge ==
    /\ pc = "read" /\ next > Len(fleet)
    /\ pc' = "judged"
    /\ status' = StatusOf(summary, job.sla)
    /\ samples' = FirstSamples(samples)
    /\ UNCHANGED <<job, saved, fleet, wait, box, jtl, late, next, read, summary>>

Next ==
    \/ Save \/ Dispatch \/ StartWorker \/ StartFails
    \/ \E w \in Fleet : Sample(w) \/ Exit(w)
    \/ WaitEnds \/ ReadJTL \/ Judge

Spec == Init /\ [][Next]_vars

-----------------------------------------------------------------------------
(* Properties.  The plans are judged where the first worker is started:     *)
(* nothing changes them afterwards.                                        *)

Planned(w) == ArrivalsOf(fleet[w].groups)
InAll      == Sum([w \in Fleet |-> Planned(w)])

\* Twice the area under the curve as it was asked for.
DoubleArea(points) ==
    LET c == NormalizedCurve(points)
    IN Sum([i \in 1..(Len(c) - 1) |->
                            (c[i].rate + c[i + 1].rate) * (c[i + 1].t - c[i].t)])

\* The plans of all workers together start what was asked for: as many threads
\* as the clamped request, or no fewer journeys than there are under the curve,
\* up to the limit.  The rounding may add half a journey per segment, and for
\* each of several workers as much again, except in the last segment: neither
\* the curve nor the limit is the limit of what starts.
FleetLoadAddsUp ==
    pc = "start" =>
        IF job.mode = "vus" THEN InAll = ClampVUs(job.ask)
        ELSE job.curve # <<>> =>
               LET asked    == AtLeast(AtMost(DoubleArea(job.curve), 2 * MaxArrivals), 2)
                   segments == Len(NormalizedCurve(job.curve)) - 1
                   again    == IF Len(fleet) = 1 THEN 0 ELSE Len(fleet) * (segments - 1)
               IN 2 * InAll \in asked..(asked + segments + again)

\* Rows meant to be unique stay so across the workers: each is given to one of
\* them, and they share evenly; if that cannot be, everyone gets everything.
RowsUsedOnce ==
    pc = "start" =>
        LET Users(r) == {w \in Fleet : r \in fleet[w].rows}
        IN IF job.raw \/ job.rows < Len(fleet)
           THEN \A r \in 1..job.rows : Users(r) = Fleet
           ELSE /\ \A r \in 1..job.rows : Cardinality(Users(r)) = 1
                /\ \A v, w \in Fleet :
                      Cardinality(fleet[v].rows) - Cardinality(fleet[w].rows) <= 1

\* The engine does not give up a worker that does what its plan says: the wait
\* outlasts every looping plan and the start of every journey.  Not covered are
\* a curve that is shorter than the duration its scenario was saved with, and
\* an arrivals curve that runs past the longest duration.
WaitOutlastsPlan ==
    LET end     == Max({0} \cup {p.t : p \in ToSet(job.curve)})
        covered == \/ job.curve = <<>>
                   \/ job.mode = "vus" /\ end >= saved.duration
                   \/ job.mode = "arrivals" /\ end <= MaxDuration
    IN (pc = "start" /\ covered) =>
          \A w \in Fleet : \A g \in ToSet(fleet[w].groups) :
             wait >= IF job.mode = "vus" THEN g.end ELSE g.start

\* The rows of a worker the verdict speaks of: all of them, unless its wait
\* timed out.
Judged(w) == IF w \in late THEN SubSeq(jtl[w], 1, read[w]) ELSE jtl[w]

\* The verdict is the one that the rows of all files call for, whatever the
\* order and the merging.  A run passes only if something was measured, an SLA
\* was set, no worker showed more slow rows among the first MaxLatencies than
\* the percentile leaves out, and the share of errors is within the limit.
VerdictIsReference ==
    pc = "judged" =>
        LET Slow(w, limit) == {i \in 1..Min({Len(Judged(w)), MaxRows, MaxLatencies}) :
                                  Judged(w)[i].ms > limit}
            Kept(w)        == Min({Len(Judged(w)), MaxRows, MaxLatencies})
            Allowed(w)     == Kept(w) - Max({1, (95 * Kept(w)) \div 100})
            Failures(w)    == {i \in 1..Min({Len(Judged(w)), MaxRows}) : ~Judged(w)[i].ok}
            total          == Sum([w \in Fleet |->
                                  Min({Len(Judged(w)), MaxRows + 1})])
            failed         == Sum([w \in Fleet |->
                                  Cardinality(Failures(w))])
            good           == /\ total > 0
                              /\ \A w \in Fleet, limit \in job.sla.p95 :
                                    Kept(w) > 0 => Cardinality(Slow(w, limit)) <= Allowed(w)
                              /\ \A limit \in job.sla.errors :
                                    failed * limit.den <= limit.num * total
                              /\ ~job.sla.rps
        IN status = IF EmptySLA(job.sla)
                    THEN IF total > 0 /\ AllowEmptySLA THEN "completed" ELSE "failed"
                    ELSE IF good THEN "passed" ELSE "failed"

\* The report and the summary are computed from different things, samples and
\* files, and count errors and rank latencies in different ways.  When all rows
\* became samples, the table of steps has every request once, the errors of its
\* failing steps are the failed requests with an error code, the worst step comes
\* first, and for a single worker some step is as slow as the run.
ReportAgrees ==
    pc = "judged" =>
        LET table    == StepTable(samples)
            failing  == FailingSteps(table)
            Wrong(w) == {i \in 1..read[w] : ~jtl[w][i].ok /\ jtl[w][i].code \notin 200..399}
        IN Sum(read) <= MaxSamples =>
              /\ Sum([i \in DOMAIN table |-> table[i].samples]) = summary.requests
              /\ Sum([i \in DOMAIN failing |-> failing[i].errors])
                    = Sum([w \in Fleet |-> Cardinality(Wrong(w))])
              /\ \A i \in DOMAIN failing : failing[i].errors <= failing[1].errors
              /\ Len(fleet) = 1 /\ read[1] > 0
                    => \E i \in DOMAIN table : table[i].p95 >= summary.p95
=============================================================================
