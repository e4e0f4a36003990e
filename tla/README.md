# TLA+ models of OPL-API

OPL-API is the control plane of Open Perf Lab: it keeps load scenarios, starts
JMeter containers for them, closes their runs and reports on them. One Go binary
runs as `opl-api` (HTTP handlers, a schedule tick) and as `opl-orchestrator` (the
same schedule tick, and the reaper of finished runs). All state that outlives a
process is in ClickHouse, which has no compare-and-set and no transactions: every
write appends a whole new row version, a `FINAL` read picks one of the versions
that have landed, and most writes go through an asynchronous writer that may
deliver late, twice, out of order, or never.

That is what these models are about. They ask what the program still promises
when several processes append to the same tables, when rows land in an order
nobody chose, and when a process dies between two steps.

## 1. Inventory

| Component | State | Operations | Talks to |
|---|---|---|---|
| Schedule lease (`lab_schedule.go`) | claim rows of `load_schedule_leases` | claim (list, insert, settle, list, arbitrate), re-enter, release | ClickHouse, directly and synchronously |
| Scheduler (`lab_schedule.go`) | `load_schedule_state` row, `schedule_json` of the scenario, fire keys | tick, due decision, fire, state write, `POST .../schedule` | lease, run lifecycle, writer |
| Run lifecycle (`load.go`, `jmeter_engine.go`, `perf_container.go`, `opl_orchestrator.go`, `harden.go`) | `load_runs` row, containers, in-memory registry `runRunners` | create, dispatch, engine goroutine, cancel, metrics, reap | Docker, writer, notifications |
| ClickHouse writer (`clickhouse.go`) | batch buffer, semaphore `sem`, retries | `insert`, `insertAsync`, `Add`, `AddFull`, `Flush` | ClickHouse over HTTP |
| Run notifications (`run_notify.go`, `run_notify_history.go`, `security_cache.go`) | dedup keys in Redis and in memory, `run_notifications` | notify, deliver to three channels, record history, test endpoint | Redis, webhook, chat, SMTP, writer |
| Scenario store (`load.go`, `lab_extras.go`, `lab_schedule.go`, `jmeter.go`) | `load_scenarios` row | upsert, archive, unarchive, duplicate, schedule edit, read with fallback query | writer, scheduler, dispatch |
| Load shapes (`lab_extras.go`, `jmeter_engine.go`, `harden.go`) | none | clamp, normalise a curve, compile arrivals, split over workers | dispatch |
| SLA and result merge (`jmeter_engine.go`, `harden.go`, `jmeter.go`) | none | merge worker summaries, fail-closed SLA gate | engine goroutine, gates |
| Datasets (`jmeter_datasets.go`) | none | parse CSV, deal rows to workers, data set element of a plan | plans, dispatch |
| JMX plans (`jmeter.go`, `jmeter_tree.go`, `jmeter_engine.go`) | `steps_json` and `jmx_xml` of a scenario | validate, generate, adapt to a worker, export, import | scenario store, dispatch |
| Fragments and bursts (`jmeter_fragments.go`) | none | resolve references, place a burst, report both | plans, validate, upsert |
| HAR and Postman import (`har.go`, `postman.go`) | none | captures and collections to steps, steps to captures | scenario store |
| Reports (`lab_extras.go`, `report_export.go`, `report_templates.go`) | `load_run_samples`, template rows | table of steps, failing steps, render, rewrite templates | engine goroutine, ClickHouse |
| Federation (`load.go`, `peer_auth.go`, `peer_scm_events.go`) | none | one best-effort request per peer | other instances |
| Tenancy and auth (`tenant.go`, `auth_wire.go`, `harden.go`) | none | filters on requests | external library |

What is hard in it, and where:

* **Mutual exclusion without a primitive.** The lease is insert, settle, arbitrate
  over an append-only table. It rests on clocks and on how long an insert takes.
* **One row, many writers.** Five code paths replace the whole `load_runs` row;
  `FINAL` keeps the highest `finished_at`, which each writer takes from its own
  clock at its own moment. Scenario rows have the same shape with `updated_at`.
* **Read, then act much later.** A tick reads all state rows once and fires one
  scenario after the other; the reaper reads running rows and then inspects
  containers; handlers read a scenario and rewrite all of it.
* **Crash between two effects.** Dispatch before the state row, verdict before the
  notification, dedup key before the delivery.
* **Loss.** The writer gives a batch up after three attempts, or sends one twice
  because the client gave up on a post that had landed.
* **Dividing.** A load is rounded per segment of its curve and again per worker, rows are
  dealt to workers, and results are cut off, sampled and merged again.
* **One journey, many readers.** Validate walks the steps, upsert generates a plan from
  them and stores it, a run takes the stored plan and adapts it, an import reads the steps
  back from it: four traversals of one tree with rules of their own for references,
  inputs, disabled steps and bursts.
* **Waiting.** Callers of the writer block on a semaphore; a relay without a
  deadline holds the history of the other channels back.

What makes each component correct: the lease has one holder at a time; an occurrence
is dispatched, once, and in time; a running run is closed in time, with the verdict
of its engine, and is announced; no row vanishes without a log line and no caller
blocks for good; a status reaches a destination once and the history tells the truth;
edits add up and no read of a scenario turns into the loss of its plan; the plans of the
workers add up to the load that was asked for, the verdict is the one their rows
call for, and the report agrees with it; a run sends what validate sent, with the data
and the burst of the scenario; an import of an export is the same journey.

## 2. Modules

| Module | Models | Relation |
|---|---|---|
| `FireLease` | what a lease promises its callers: grants of two owners never overlap | abstract specification |
| `ScheduleLease` | the claim table, settle window, arbitration, re-entry, release | implements `FireLease` |
| `ScheduleLeaseProofs` | theorems about it | extends `ScheduleLease` |
| `ScheduleFiring`, `MCScheduleFiring` | ticks of several processes over one interval or daily schedule; schedules and tickers for TLC | has the claim table of `ScheduleLease`, with a settle window that outlasts an insert |
| `ScheduleFiringProofs` | a theorem about it, for any timing | extends `ScheduleFiring` |
| `ScheduleTimingProofs` | theorems about it that rest on timing | extends `ScheduleFiringProofs` |
| `RunLifecycle`, `MCRunLifecycle` | one run and everyone who writes its row; the symmetry of its workers for TLC | |
| `RunLifecycleProofs` | theorems about it | extends `RunLifecycle` |
| `ClickHouseWriter` | the writer all the others hand their rows to | |
| `ClickHouseWriterProofs` | theorems about it | extends `ClickHouseWriter` |
| `RunNotify`, `MCRunNotify` | notifications of one run; channel set-ups for TLC | |
| `RunNotifyProofs` | theorems about it | extends `RunNotify` |
| `ScenarioStore` | one scenario row, its copy, and the handlers that rewrite them | |
| `ScenarioStoreProofs` | theorems about it | extends `ScenarioStore` |
| `LoadShape`, `RunVerdict`, `RunReport` | clamps, curves, segments, shares; summaries, merge, SLA gate; kept samples, table of steps, failing steps | pure operators |
| `MeasuredRun`, `MCMeasuredRun` | one run of the engine from saved scenario to verdict; the jobs for TLC | extends `LoadShape`, `RunVerdict` and `RunReport` |
| `MeasuredRunProofs` | theorems about loads, rows, waits, verdicts and reports | extends `MeasuredRun` |
| `PlanTree` | a tree of steps as the dry run of validate and the reports read it | pure operators |
| `PlanEmission` | steps to a plan, what the engine does to a stored plan, what JMeter sends when it runs one | extends `PlanTree` |
| `PlanImport`, `PlanCapture` | plans back to steps and data; captures and collections to steps, steps to captures | pure operators |
| `ScenarioPlan`, `MCScenarioPlan` | one scenario saved, exported and imported any number of times, with validate and dispatch as functions of its row; trees, data, captures and foreign plans for TLC | extends `PlanImport` and `PlanCapture` |

`MeasuredRun` and `RunLifecycle` are two views of one engine goroutine. The first has
what it computes, and nobody else; the second has everyone who writes the run's row, and
a verdict chosen freely. `ScenarioStore` and `ScenarioPlan` are two views of one
scenario row in the same way: the first has who writes it and when a version lands, with
a plan as a number; the second has what is in the plan, with one writer at a time.

Definitions keep the names of the code where there is one (`arbitrateScheduleLease` is
`Elected` and `Arbitrate`, `reapDecision` is `ReapDecision`, `insertAsync` is `Write`
and `Acquire`). Operators called *faulty variant* are deliberate mistakes: each property
has one that breaks it, so that a property that could not fail would be noticed. They
are not part of any specification.

How state corresponds:

* **Landing.** Where rows matter, a module has `wire` (rows handed to ClickHouse and not
  visible yet) and `row`/`rows`/`state` (what a read returns). `Land` and `Drop` move
  rows in any order. The `ReplacingMergeTree` tables keep the version with the highest
  version column, and of equals the last inserted.
* **Time.** Each module has its own clock. `Advance` is held back while something is at
  its deadline (a row has to land within `WriteLag`, a tick has to happen, a dispatch has
  to end), so "in time" is an invariant and not a liveness property, and the constants
  say which timing the code is assumed to have.
* **Reading.** A handler that reads, computes and writes is two or more actions, split at
  each query: what it read is kept in a variable (`seen`, `req`, `reap`, `cancel`).
* **Data.** A plan is a number, a verdict one of a few statuses, a payload its row. In
  the plan modules a step is a record with its children, and a plan a tree of elements:
  what JMeter does with it is `Pass`, one thread's way through a thread group. A request
  is its name, which stands for method and URL; its text is the set of variables it
  refers to; a check is a regex extractor, and what is checked is not modelled. In
  `MeasuredRun` a plan is its thread groups: how many start, by when, and when the last
  is stopped. Rates of curves are whole numbers, rates of errors are fractions.

## 3. Runs

The runs that pass check the properties below; the runs that show a violation each check
one sentence of the repository against what its code does. Type invariants are theorems
where a module has proofs; only `writer` also checks one.

| Run | Shows | Bounds |
|---|---|---|
| `lease_bounded` | `LeaseExclusive`, its inductive form `LeaseInv`, `GenerationMeansExpiry`, and that the claim table implements `FireLease` (`ImplementsLease`) | 2 processes, `TTL` 4, settle 2, skew 1, landing lag 1, clock to 7: a claim can expire and be taken over |
| `lease_slow_insert` | violated: "both could fire" only with equal stamps | landing lag 3 > settle 1 |
| `firing` | `RefireOnlyAfterCrash`, `OthersWaitOutLease`, `OccurrenceFiresInTime`, `CountKeepsUp`, `FallbackOnlyWithoutState`, `NeverMovesBack` | 2 processes whose tickers start together and whose queries may take longer for one than for the other; an interval of 5, a daily time in days of 2 minutes of 5, and both with times in `schedule_json`; `TTL` and `Period` 4, all lags 1; a crash and one other upset; three dispatches, clock to 21: the deadlines of the first occurrence with a query that fails, of one an edit enables and of the second after a dispatch at once, 20 at most, pass before the end, and a loser does re-enter what is left of its claim |
| `firing_key` | violated: every process derives the same key | 2 processes whose tickers need not start together, nothing goes wrong, clock to 8 |
| `lifecycle` | `RunClosesInTime`, `EngineVerdictStands`, `TerminalIsAnnounced`, `ExitCloseMeansExited` | 2 interchangeable workers or a Node runner, every way a run is made, one of eight upsets, clock to 12: the deadline of a run that met one is 10 |
| `lifecycle_cancel` | violated: a cancelled run is marked cancelled | one cancel, no Node fallback: the engine was dispatched, and its own row replaces the cancelled one |
| `writer` | `NothingVanishes`, `InFlightBounded`, their inductive form `WriterInv`; under fairness `CallersReturn`, `RowsSettle` | 2 callers, 4 rows, batches of 2, one token, 2 attempts: full and partial batches, a blocked caller, a retry, a loss |
| `notify` | `DeliveredOnce`, `HonestHistory`; under fairness `HistoryComplete` | 2 processes, 3 channels in 4 set-ups, a filtered status, 3 calls, a crash, a failed insert |
| `scenario` | `EditsAddUp`, `NothingBlank` | 2 open requests, 3 versions after the first, one failing read, 2 instants: a read and a write can be overtaken, and versions can share an instant |
| `scenario_rearchive` | violated: unarchive restores the scenario | one request at a time |
| `measured` | `FleetLoadAddsUp`, `RowsUsedOnce`, `WaitOutlastsPlan`, `VerdictIsReference`, `ReportAgrees` | 1591 jobs: every curve of one or two points over 4 times and 3 rates, all of five points with rates 0 to 2, one of seven with every other rate zero, up to 3 workers and 6 journeys; results of up to 5 rows with files of which 4 are read and 3 kept, so that both limits are passed |
| `plan` | `RunsWhatValidateRan`, `DataReachesRun`, `BurstIsReported`, `ReportIsEmission`, `BurstsFill`, `ReimportKeepsJourney`, `CaptureKeepsPace` | 25 trees, each aimed at one rule (nesting, missing, repeated and disabled references, inner references, bursts on requests, groups and fragments, pauses); 4 kinds of data, 3 schedules, 2 workers; captures with static, blocked, unordered and late entries, at most 4 kept, gaps up to 10; 3 saves, exports or imports in any order, so that an import of an import is read back too |

One bound is common: `MaxUpsets`, `Crashes`, `Fails` limit how often something goes
wrong (in `firing` a crash is not counted). `MaxFires` stops the clock of `firing` with
the third dispatch: what one dispatch does to the next is seen by then. Properties that
only hold while a certain thing does not go wrong say so in their statement
(`"drop" \notin upset => ...`), so that one state space has both the behaviours with it
and those without it. `CHECK_DEADLOCK` is off in every run because every model stops at
its bound, and the program may stop too: nothing has to be scheduled and nobody has to
call a handler.

### Conditions that are findings in themselves

The conditions in the properties were found by checking them without. Each names a
behaviour of the code that a reader of the documents would not expect:

* *Lease.* `BoundedSkew` is needed in full. A claim carries the time its tick **started**
  (`claimScheduleFire` uses `req.Now`), so the scenarios fired earlier in the tick count
  towards the time the claim takes to land. With a longer landing two owners overlap
  although their stamps differ, which `docs/architecture.md` and the comment at
  `lab_schedule.go:237` rule out (run `lease_slow_insert`).
* *Release.* A released row takes all claims of its owner out, later ones too. The owner
  that declined an occurrence can never claim it again, and reads the empty election as
  a lost insert.
* *Losers.* A process that loses an arbitration leaves its claim in the table, unreleased.
  The claim outlives the winner's by as much as it is younger. If the occurrence is
  still due then (the winner died, its row was lost, or a tick read an old one), the loser
  finds it its own and dispatches on what is left of it, and the next process may
  dispatch right after that. So "a lease length apart" is not what the code promises;
  `OthersWaitOutLease` speaks of the claims that a process had when it dispatched.
* *Firing.* A tick, its row and its reads must take less than `TTL` and, the reads counted
  twice, less than `Period`; a dispatch less than `Every` (`Brisk`). If the next tick
  of the same process starts before the state row has landed, it re-enters its own claim
  and dispatches the occurrence a second time.
  `RefireOnlyAfterCrash` excludes a lease error, after which an owner re-enters late in a
  claim that is not renewed and another process follows right after. A failed read of the
  state rows leaves a tick with the definition. If that names no time, an interval schedule
  is due under a wall-clock key (`FallbackOnlyWithoutState` excludes it) and a daily one
  that its process has just dispatched comes back. If it names one, the tick goes by
  that: one that lies ahead makes it pass over an occurrence that is due, which may be the
  tick that had to replace a process that died, and costs a period (`Lost`), as does a
  failed query of the scenarios, which ends the tick. A state row
  is stamped when its dispatch ends and counts the interval from when its tick began: a
  later row may name an earlier next occurrence, by as much as a dispatch takes
  (`NeverMovesBack`).
* *First occurrence.* Without a state row the key is `now / interval`; two processes on
  two sides of a boundary both fire (run `firing_key`).
* *Daily.* Without a state row a daily schedule is due during one minute. The ticker's
  default period is that minute, and the tick reads its clock only after two queries: if
  they take a little longer at one tick than at the one before, no reading falls into the
  minute (`DailyMinuteFires` asks for `Period + ReadLag <= Minute`). A crash, a failed query
  or a lease error in that minute loses the day. A failed read of the state rows costs a
  tick, and brings the occurrence back that `schedule_json` names. A dispatch that comes a day late, after an error of the lease, an edit or a lost
  row, is not told apart from the one after it: its row can be replaced by one that names
  the same day again or has the same count (`NeverMovesBack` and `CountKeepsUp` exclude
  what makes it late). A tick looks at the 200 scenarios edited last and at any 1000 state
  rows; beyond that a schedule does not fire, or falls back. There is one scenario in the
  model.
* *Runs.* A metrics post with status running restarts `started_at` and with it the
  reaper's deadline (`RunClosesInTime` excludes it). A container whose inspect fails is
  left out of the decision, so a run may be closed on the exit codes of the others
  (`ExitCloseMeansExited`). The verdict is written before the notification, and nobody
  repeats a notification after a crash (`TerminalIsAnnounced`). A pass of the reaper that
  read the row before the verdict landed replaces it if its clock was read later
  (`EngineVerdictStands` allows for `WriteLag`). A verdict whose insert is still in its
  goroutine dies with the process, and the reaper of the other one closes the run at its
  deadline (`run.home`). A query of the reaper that fails costs it a pass. A refused
  scheduled run writes its running and its failed row with one `finished_at`; the first
  may land last. An engine that ends before `registerRunContainers` runs leaves its
  entry in the registry for good, and the second running row is stamped later than its
  verdict: the run then waits for its deadline (`EngineVerdictStands` asks for
  `engine.fin > maker.last`). A cancelled run whose engine was dispatched gets the
  engine's verdict, for `docker stop` ends the wait (run `lifecycle_cancel`).
  A Node runner that takes over after JMeter was refused between two workers does not stop
  the ones that run. Its posts of status running are not awaited and may land after its
  last one, so that a finished run is closed as an error at its deadline; and cancel has
  nothing to stop it by. If a worker fails to start without that way out, the workers
  before it run on and no registry names them. The provisional row is stamped before
  peers are asked, which takes time the model does not give it.
* *Notifications.* The dedup key is taken before anything is delivered; a crash after it
  leaves a status without history. `smtp.SendMail` has no deadline and the history of all
  channels is written after the last (`Silent`). `initSecurityCache` is only called in
  `opl-api`: `opl-orchestrator` keeps its keys in memory, and a status that both announce
  is delivered twice. `Shared` is the set of processes with the common cache; the run and
  the theorem about `DeliveredOnce` take it to be all of them.
* *Scenarios.* Reads that exclude archived rows fall back to a query without steps,
  datasets, SLA, schedule and JMX. Everything that rewrites, copies or runs an archived
  scenario, or one whose first read failed, goes on with those columns empty; a schedule
  edit also writes `archived = 0`.
* *Load.* `FleetLoadAddsUp` gives an interval for arrivals, not a number. The drift of the
  rounding is taken from the last segment only, which cannot fall below zero, and
  `scaleArrivalSegments` (`jmeter_engine.go:1014`) rounds each worker's share again: four
  equal segments under a limit of two start three journeys, and several workers may start
  half a journey more than the limit for each segment, and for each of them and each
  segment but the last. `docs/perf-lab.md` calls `OPA_PERF_MAX_ARRIVALS` a cap, which it
  is of the curve and not of what starts. A curve whose every other point is zero shows it
  with two workers. In arrivals mode without a curve, several workers get plans without a
  thread group, while a single one loops (`job.curve # <<>>`). A curve whose rate is zero
  throughout also becomes a looping plan.
* *Waiting for workers.* In the upsert the duration is defaulted before the curve could
  set it, so the plan keeps the scenario's duration; dispatch computes its wait from the
  curve. A short curve on a long scenario is judged on the first part of its file.
  Journeys of an arrivals curve that runs past `OPA_PERF_MAX_DURATION` may start after the
  wait is over (`covered` in `WaitOutlastsPlan`).
* *Verdict.* A worker that leaves no file is merged as one without rows. Percentiles are
  those of the first 50000 rows of a file, the row past the last counts as one that was
  fine, an SLA of unknown keys asks nothing, and one with `rps_min` is never met because
  no summary of the engine has `rps`. `VerdictIsReference` says all this in one place.
* *Report.* `countsAsOk` forgives what JMeter reports as failed when its code is 2xx or
  3xx: a failed assertion is an error of the run and of no step, and the report then says
  that no step recorded an error. Samples are the first 500 of the workers in order, and
  `load_run_samples` has no version column: an insert that is sent again doubles them
  (`ReportAgrees` asks that all rows became samples).
* *Steps and plan.* The dry run leaves a disabled reference, burst or set of inputs out;
  the plan has it enabled (`RevivedSteps`). It follows references inside a fragment, of
  which the plan has none (`LostReferences`) and validate reports none
  (`InnerReferences`). Inputs hold for all that stands beside them in a plan and only for
  what comes after them in the dry run (`LateInputs`, `Rebound`). Two fragments without a
  name may share one. Fragments that refer to each other make both walks endless.
* *Stored plan.* A plan that is posted back keeps the steps and the burst it was made of,
  whatever steps come with it (`Current`). Data without rows, and a data set left in the
  plan from earlier, count as bound although nothing is read from them
  in a run (`docs/perf-lab.md:204` promises a failed validate for tokens that reach it as
  text).
* *Bursts.* Validate compares a burst of the steps with the threads of the whole run, not
  with those of one worker, and does not look at the burst of a schedule
  (`docs/perf-lab.md:193`); `BurstsFill` therefore speaks of one worker. The burst of a
  schedule goes with the first request, even a disabled one (`BurstOff`). Without steps
  upsert reports the thread group and the plan gates the default request. In an arrivals
  plan only the first group has the correlation headers.
* *Export and import.* A plan with nothing but fragments, or written elsewhere without a
  thread group that yields steps, is read flat: its structure and the place of its
  assertions are gone. A pause or headers that belong to no request come back as steps,
  which a run takes for requests (`StrayRequests`). Inputs within inputs come back
  as groups (`DoubleScopes`). Of several data sets the last remains, without rows.
* *Captures.* An export takes the first-level requests only, disabled ones too, and a HAR
  has neither their headers nor their pauses. Entries that are out of order add up to more
  time than the capture took, a gap of a minute or more to none (`Steady`), and the
  entries after the two hundredth are dropped. A URL whose host is a variable is taken
  from a collection and refused from a capture. An import under the id of an existing
  scenario replaces it unread: it loses its data, its schedule, its SLA and its archived
  mark.

## 4. Fairness

Only two runs use it. In `writer`, every post ends (the HTTP client has a timeout):
weak fairness of an attempt; and a Go channel serves blocked senders in turn: strong
fairness of `Acquire` for each caller. In `notify`, a channel that is answered within
the client's timeout is eventually done, and so is the insert of the history; there is
none for a channel in `Silent`. Nothing is assumed of callers, of crashes, or of
ClickHouse.

## 5. Proofs

TLAPS checks the following for every value of the constants that satisfies the named
assumptions. TLC checked each property first; of the inductive invariants, `LeaseInv` and
`WriterInv` are also invariants of runs. Where nothing else is said, a theorem rests on
the `ASSUME` of its module alone, which gives the constants their types.

Three modules of theorems assume something of timing, which each names in a definition:

| Assumption | Says | In the code |
|---|---|---|
| `BoundedSkew` (lease) | stamps, the landing of a claim and the window fit together | `OPL_SCHEDULER_LEASE_SETTLE_MS`, 2 s; nothing enforces it (run `lease_slow_insert`) |
| `Brisk` (timing) | a tick, its row and another's reads take less than the lease and, the reads counted twice, than the ticker's period; a dispatch less than the interval | ticks of 30 and 60 s, a lease of 300 s, intervals of whole minutes; a tick is long only if it fires many scenarios |
| `Roomy` (timing) | two dispatches, a read and a row's way to the table take less than the interval | the same |
| `ShortStart` (lifecycle) | a dispatch and its rows end before the deadline, the grace is no longer than the deadline, a pass of the reaper no longer than its period | 7200 s, 120 s and 60 s by default |

`Intervals` is no assumption about timing: it restricts a theorem to interval schedules.
Daily schedules have these properties in the run `firing`, under the conditions they name.

`ScheduleLeaseProofs`

* `TypeCorrect`: `Spec => []TypeOK`.
* `ElectionUnique`: whatever is in the table, an arbitration elects one claim, because
  `ClaimLess` is total on claims of different owners or stamps (`ClaimOrderTotal`).
* `SingleOwner`: `Spec => []LeaseExclusive`, from `BoundedSkew`.
* `Implements`: `Spec => ImplementsLease`, the claim protocol implements `FireLease`.
* `LeaseInvariant`: `Spec => []LeaseInv`, under `BoundedSkew` too.
* `GenerationsCountExpiries`: `Spec => []GenerationMeansExpiry`, for any timing: a
  generation is computed from a table in which the claim before it had run out.

Exclusion is not inductive: that two grants do not overlap says nothing about the next
one. `LeaseInv` adds why: a grant was given at a time by which every earlier claim was in
the table and had run out (`GrantIsOldest`), because stamps are never ahead of the clock,
claims land within `Lag` (`StampsBehind`), and a process that settles does not read
before `Settle` has passed since its stamp, nor lists while an own claim is
younger than `Gap` (`ClaimersInTime`). `NewGrant` then shows that a new grant is the
oldest and clashes with none.

`ClickHouseWriterProofs`

* `TypeCorrect`, `WriterCorrect` (`[]WriterInv`), `NothingLostSilently`
  (`[]NothingVanishes`), `Backpressure` (`[]InFlightBounded`).

`WriterInv` says that a row has one holder (`OneHolder`), that tokens count insert
goroutines and `count` counts the buffer. The first is what keeps a batch from being
posted by two goroutines, without which returning a token would not match ending one.

`ScheduleFiringProofs`

* `LeaseIsWaitedOut`: `Spec => []OthersWaitOutLease`, for any schedule and any timing.

The invariant (`FiringInv`) says that the verdict behind every dispatch stands: the claim
that was elected then is elected still when the arbitration is repeated for that moment,
whatever has landed since (`Standing`). For a claim is stamped with the clock reading of its
tick, a process does not arbitrate while one that goes before its own is on its way, and so
none that lands later goes before one that was judged (`Settling`, `Won`); the claims of one
process to an occurrence are a lease length apart (`Spaced`). A second process that
dispatches has won over the claims of the first in the same way: those that go before its
own have run out.

`ScheduleTimingProofs`

* `TypeCorrect`: `Spec => []TypeOK`.
* `FallbackIsBounded`: `Spec => []FallbackOnlyWithoutState`, for daily schedules too.
* `IntervalMovesOn`: `Spec => NeverMovesBack`, assuming `Intervals`.
* `IntervalsFireOnce`: `Spec => []RefireOnlyAfterCrash`, assuming `Intervals` and `Brisk`.
* `IntervalCountKeepsUp`: `Spec => []CountKeepsUp`, assuming `Intervals` and `Roomy`.

All rest on what is late when: a tick reads its clock within `ReadLag` and ends within
`FireLag` of that, a row lands within `WriteLag` of its dispatch (`Timed`), and once the row
of a dispatch has landed the table has it or a newer one (`Landing`). A row names an
occurrence an interval after a clock reading at most `FireLag` old (`RowsAhead`), which
alone bounds how far a row can move the schedule back. No occurrence is dispatched ahead of
its time (`KeysDue`), the ticks of one process are a period apart (`OwnGap`), and a tick that
began after the row of a dispatch had landed read a row that names a later occurrence
(`NoSecond`).

Who comes to the same occurrence again had to wait for a claim to run out, its own or
another's. The claim need not be that of a dispatch: it may be a loser's, so that "the owner
died" has to be traced through the table. Behind every claim stands one that goes before it
and whose process answers for the occurrence: it is dead, or still at it, or dispatched
under that claim (`Roots`). If that claim has run out by the time of a tick, the second and
third are impossible (`Spent`), and what is left is a process that died (`Again`).

The count needs an order: of two rows anyone holds, the one with the higher count is from a
later dispatch (`Counts`).

`RunLifecycleProofs`

* `TypeCorrect`: `Spec => []TypeOK`.
* `TerminalAnnounced`: `Spec => []TerminalIsAnnounced`. An engine starts with the dispatch
  (`EngineAfterDispatch`), and whoever inserts a terminal row still has it to announce.
* `ExitCloseJustified`: `Spec => ExitCloseMeansExited`.
* `VerdictStands`: `Spec => []EngineVerdictStands`.
* `ClosedInTime`: `Spec => []RunClosesInTime`, assuming `ShortStart`.

The verdict of an engine that ended after its dispatch had written its last row is stamped
later than every version that says running, and the reaper's are within `WriteLag` of it,
since the reaper afterwards finds the run closed (`Punctual`, `EndedLate`, `LastWord`); of the
versions the highest stamp stays. A process that dies takes rows with it, but not those of
the other (`from`): the premise excludes the death of the engine's own process alone.

That a run is closed in time is shown from what is still to come: a pass of the reaper comes
early enough to find the run past its deadline, or a closing version of one is on the wire
(`Closing`). A crash of the orchestrator, a lost row and a failed query each end such a hope
and move the last pass that counts (`LastPass`) by a `Round`: the ticker's period, a pass and
the landing of its row.

`RunNotifyProofs`

* `TypeCorrect`: `Spec => []TypeOK`.
* `SharedCacheDeliversOnce`: `Spec => []DeliveredOnce`, assuming `OneCache`: all processes
  have the common cache and no channel is listed twice. `OnceInv`: only the process that
  took the key of a status has a delivery of it, and is past each channel once. Without
  that assumption the property is false.
* `HistoryIsHonest`: `Spec => []HonestHistory`. Results are true before they are recorded
  (`Pending`), counts only grow and only for channels that are set up (`Quiet`), so what
  was recorded stays true (`Kept`).

`ScenarioStoreProofs`

* `TypeCorrect`: `Spec => []TypeOK`.
* `NoPlanBlank`: `Spec => []NothingBlank`: while nothing was archived and no read failed,
  every plan in the table, on its way and in a request is a whole one (`BlankInv`).
* `RequestsInTurn`: `Spec => []EditsAddUp`, assuming `Careful`: an archived scenario is
  neither archived again nor gets a new schedule. `TurnInv`: one request is open or one
  version on its way, and it carries what is wanted.

`MeasuredRunProofs`

* `SharesAreEven`, `SharesAddUp`: for every load and no more workers than threads, nobody is
  idle, shares differ by at most one and add up to the load.
* `RowsAreDealt`: for every number of rows and workers, each row reaches exactly one
  worker and every worker has a row.
* `UniqueRows`: `Spec => []RowsUsedOnce`.
* `LoadAddsUp`: `Spec => []FleetLoadAddsUp`. Each segment is rounded by at most half a
  journey and the last one evens out what the others lost, unless it would fall below zero
  (`CompiledSum`); the limit shrinks them all and rounds once more (`ShrunkSum`), without
  exceeding what a segment had; a worker's share is rounded per segment (`ShareSum`).
* `WaitIsLongEnough`: `Spec => []WaitOutlastsPlan`. Segments end within the curve
  (`Segments`), and normalising a curve again, as save and dispatch do, changes nothing
  (`CleanStays`, `StoredIs`).
* `VerdictIs`: `Spec => []VerdictIsReference`. The summary of the files read so far is what
  all their rows together call for (`Tallied`): rates merge to the failures over the
  requests (`MergedIs`), and the worst percentile is within a limit if and only if every
  file's share of slow rows is (`PercentileIs`, `AllWithin`).
* `ReportIs`: `Spec => []ReportAgrees`. The rows of each step are a part of the samples and
  every row is of one step, so sums over the table are sums over the samples (`PartsAddUp`,
  `StepsAddUp`). The failing steps are all those with errors, in order, because the place of
  a step is the number of steps before it and no two share one (`Positions`, `InOrderIs`).
  The percentile of a run is within the greatest of its steps: if that were lower, at
  most one row in twenty of each step would be above it, hence of the run as well
  (`PercentileUpIs`, `SomeStepIsSlow`), and `SlowerRows` says that there are more.
* `MeasuredTypes`: `Spec => []TypeOK`.

Their invariants are `PlanInv` (what is stored is what was asked for, cleaned, and the
fleet is what dispatch decides from it), `VerdictInv` (a worker whose wait did not
time out has stopped writing, so what was read of its file is all of it), `RangeInv`, and
`SamplesInv` (until the files hold more rows than are sampled, the samples are the rows
read so far, file after file: `Gathered`).

The sums, maxima and curves in them are folds, and the library's induction rules cannot be
used: they take an operator as a parameter. The proofs take a minimal counterexample
instead: the strict subsets of a finite set are well founded, so a set of counterexamples
that is not empty has a least member, and the fold of that one is one step from a fold
that is none (`MinimalSubset` and what follows from it). That works for
operators whose definition is a recursive function the prover can unfold, as the folds of
the community modules are.

Only model-checked:

* What the properties of `ScheduleFiring` say of daily schedules, `OthersWaitOutLease` and
  `FallbackOnlyWithoutState` excepted, which are proved for them too.
* `OccurrenceFiresInTime`, for intervals as well: the proof would have to follow, for each
  process, what is left of which claim at which of its next ticks.
* All of `ScenarioPlan`, whose trees need recursive operators, which this prover does not
  take.
* Every liveness property: fairness and `ENABLED` are beyond it.

## 6. Not modelled

Four components: federation (one best-effort request per peer, whose result is only
reported), tenancy and auth (filters on requests, the rules in an external library),
start-up and schema (environment, tables, helpers), and the developer scripts, of whose
posts `RunLifecycle` has those of `load-runner.mjs`.

Five are modelled in part, `PROJECT.json` says which. The gate handlers, which judge a
stored summary again, and the metrics report are left out; so are report templates,
trends and renderings, the parsing of CSV text, which headers and which hosts an import
accepts (`Static`, `Blocked`, `Variable` are sets of requests), and in plans the metadata
of selectors, ranges of think times, clamps and the wording of elements.

Inside the modelled components: what an engine measures is a verdict chosen freely in
`RunLifecycle`; imported plans keep their own durations, which `MeasuredRun` leaves out,
as it does bursts; references in the trees of `MCScenarioPlan` have no cycles, a request is
never nested in another, and requests have names of their own; the dry run of validate
meets targets that answer; the 24-hour life of a dedup key is taken as longer than the
run; the update of a scenario row by `POST .../schedule` lands at once in
`ScheduleFiring` and not in `ScenarioStore`, which has the race it belongs to; an edit in
`ScheduleFiring` switches the schedule on or off and leaves its interval and daily time.
There a claim whose insert failed for the client is in the table at once or never;
one that lands later, behind its owner's back, is in `ScheduleLease`.

Error paths that are left out, because a later line of the same handler would treat them as
a case that is modelled or because nothing produces them: rows that `Add` and `AddFull`
cannot encode as JSON and drop (the rows of this program are maps of strings and numbers); a
notification payload that cannot be encoded (`run_notify.go:373`); `arrival_segments` posted
by hand within a schedule that has no curve, which dispatch would take as they are
(`jmeter_engine.go:837`); and of a results file a CSV error, which ends its reading, the
guess whether its first row is a header, and a torn last row (`jmeter_engine.go:1124`):
`ParsedJTL` has the rows that were read.

## 7. Plan

Done, in this order: lease and its proofs, firing, run lifecycle, writer and its proofs,
notifications, scenario store, load shapes with their first proofs and verdicts; then the
daily schedules, the Node runner and JTL import, scenario imports, plans, fragments and
bursts, captures and collections, the tables of the report; then proofs about firing,
lifecycle, notifications and the store; then the timing of firing and of the reaper, and
the loads, rows, waits and verdicts of a measured run; then that reports agree with
verdicts; then the claims of losers, and rows that die with a process.

Next, extending the model:

1. The gate handlers and the metrics report, which judge the summary in `load_runs`
   again: the same row gets the same verdict.
2. Report templates, whose rows are rewritten like scenario rows.
3. Composition of `ScheduleFiring` with `RunLifecycle`: an occurrence dispatched is a run
   that is closed.
4. References in a cycle: a walk with a bound, and what of it must hold.

Next, proofs: that intervals fire in time, the daily part of the properties of
`ScheduleFiring`, and of `ScenarioPlan` what does not depend on the depth of a tree.
