------------------------- MODULE ScenarioStoreProofs -------------------------
(***************************************************************************)
(* For any number of editors, versions, failing reads and clock ticks: the *)
(* model of the scenario store is type correct, no plan is left blank      *)
(* without an archive or a failed read, and requests made one after the    *)
(* other add up.                                                           *)
(***************************************************************************)
EXTENDS ScenarioStore, TLAPS

USE StoreAssumption

\* What the three requests that do not read have in common.
Rewrites == \E sched \in SUBSET Nat : Replace(sched)

Reads  == \E e \in Editor, op \in {"archive", "unarchive", "schedule", "duplicate"} :
              Read(e, op)

LEMMA ReplaceCases ==
    TypeOK /\ (Upsert \/ ImportCapture \/ ImportPostman) => Rewrites
<1>1. TypeOK => {} \in SUBSET Nat /\ {sent + 1} \in SUBSET Nat
  BY DEF TypeOK
<1> QED BY <1>1 DEF Upsert, ImportCapture, ImportPostman, Rewrites

-----------------------------------------------------------------------------
(* Types. *)

Open == [op : Request, plan : Nat, sched : SUBSET Nat]

LEMMA ScenarioType ==
    ASSUME TypeOK
    PROVE  /\ Scenario \in Version /\ Scenario = row["scn"]
           /\ sent \in Nat /\ clock \in Nat
<1>1. row["scn"] \in Version
  BY DEF TypeOK, Id
<1>2. sent \in Nat /\ clock \in Nat
  BY DEF TypeOK
<1> QED BY <1>1, <1>2 DEF Scenario

LEMMA ReadFacts ==
    ASSUME TypeOK, NEW failed \in BOOLEAN
    PROVE  /\ LiveRead("scn", failed) \in [plan : Nat, sched : SUBSET Nat]
           /\ LiveRead("scn", failed).plan \in {0, Scenario.plan}
           /\ ~failed /\ ~Scenario.arch =>
                LiveRead("scn", failed) = [plan |-> Scenario.plan, sched |-> Scenario.sched]
           /\ AnyRead("scn", failed) \in [plan : Nat, sched : SUBSET Nat]
           /\ AnyRead("scn", failed).plan \in {0, Scenario.plan}
           /\ ~failed =>
                AnyRead("scn", failed) = [plan |-> Scenario.plan, sched |-> Scenario.sched]
BY ScenarioType DEF LiveRead, AnyRead, Full, Version

\* A request that reads remembers what a read gave, and when.
LEMMA ReadStep ==
    ASSUME TypeOK, NEW e \in Editor,
           NEW op \in {"archive", "unarchive", "schedule", "duplicate"}, Read(e, op)
    PROVE  \E got \in [plan : Nat, sched : SUBSET Nat] :
             /\ req' = [req EXCEPT ![e] = [op |-> op, plan |-> got.plan,
                                           sched |-> got.sched]]
             /\ got.plan \in {0, Scenario.plan}
             /\ budget' = Fails /\ (Scenario.arch => op = "unarchive") =>
                  got = [plan |-> Scenario.plan, sched |-> Scenario.sched]
             /\ budget' \in 0..Fails /\ (budget' = Fails => budget = Fails)
<1>1. PICK failed \in BOOLEAN :
          /\ MayFail(failed)
          /\ req' = LET got == IF op = "unarchive" THEN AnyRead("scn", failed)
                                                   ELSE LiveRead("scn", failed)
                    IN [req EXCEPT ![e] = [op |-> op, plan |-> got.plan,
                                           sched |-> got.sched]]
  BY DEF Read
<1>2. /\ budget' \in 0..Fails /\ (budget' = Fails => budget = Fails)
      /\ budget' = Fails => ~failed
  BY <1>1 DEF MayFail, TypeOK
<1>3. CASE op = "unarchive"
  BY <1>1, <1>2, <1>3, ReadFacts
<1>4. CASE op # "unarchive"
  BY <1>1, <1>2, <1>4, ReadFacts
<1> QED BY <1>3, <1>4

LEMMA MayFailType ==
    ASSUME TypeOK, NEW failed \in BOOLEAN, MayFail(failed)
    PROVE  /\ budget' \in 0..Fails /\ (budget' = Fails => budget = Fails)
           /\ budget' = Fails => ~failed
BY DEF MayFail, TypeOK

Wants == [plan : Nat, sched : SUBSET Nat, arch : BOOLEAN, ever : BOOLEAN]

LEMMA OpenIn ==
    ASSUME TypeOK, NEW e \in Editor, req[e].op # "none"
    PROVE  req[e] \in Open
BY DEF TypeOK, Idle, Open

LEMMA WriterOpen ==
    ASSUME TypeOK, NEW e \in Editor, WriteFlag(e) \/ WriteCopy(e) \/ WriteSchedule(e)
    PROVE  req[e] \in Open /\ req[e] # Idle
<1>1. req[e].op \in {"archive", "unarchive", "duplicate", "schedule"}
  BY DEF WriteFlag, WriteCopy, WriteSchedule
<1>2. req[e].op # "none"
  BY <1>1
<1> QED BY <1>2, OpenIn DEF Idle

\* The schedule edit writes the plan it read, or what the handler had read.
LEMMA ScheduleStep ==
    ASSUME TypeOK, NEW e \in Editor, WriteSchedule(e)
    PROVE  /\ \E plan \in Nat :
                /\ Send("scn", plan, req[e].sched \cup {sent + 1}, FALSE)
                /\ budget' = Fails => plan = LiveRead("scn", FALSE).plan
           /\ budget' \in 0..Fails /\ (budget' = Fails => budget = Fails)
<1>1. CASE \E failed \in BOOLEAN :
            /\ MayFail(failed)
            /\ Send("scn", LiveRead("scn", failed).plan, req[e].sched \cup {sent + 1}, FALSE)
  <2>1. PICK failed \in BOOLEAN :
            /\ MayFail(failed)
            /\ Send("scn", LiveRead("scn", failed).plan, req[e].sched \cup {sent + 1}, FALSE)
    BY <1>1
  <2>2. /\ budget' \in 0..Fails /\ (budget' = Fails => budget = Fails)
        /\ budget' = Fails => failed = FALSE
    BY <2>1, MayFailType
  <2>3. LiveRead("scn", failed).plan \in Nat
    BY ReadFacts
  <2> QED BY <2>1, <2>2, <2>3
<1>2. CASE MayFail(TRUE) /\ Send("scn", req[e].plan, req[e].sched \cup {sent + 1}, FALSE)
  <2>1. budget' \in 0..Fails /\ budget' # Fails
    BY <1>2, MayFailType
  <2>2. req[e].plan \in Nat
    BY WriterOpen DEF Open
  <2> QED BY <1>2, <2>1, <2>2
<1> QED BY <1>1, <1>2 DEF WriteSchedule

LEMMA TypeInit == Init => TypeOK
<1> SUFFICES ASSUME Init PROVE TypeOK
  OBVIOUS
<1>1. row \in [Id -> {NoRow} \cup Version]
  BY DEF Init, Version, Id
<1>2. row["scn"] # NoRow
  <2>1. DOMAIN row["scn"] = {"id", "plan", "sched", "arch", "upd", "no"}
    BY DEF Init, Id
  <2>2. DOMAIN NoRow = {"plan"}
    BY DEF NoRow
  <2> QED BY <2>1, <2>2
<1>3. req \in [Editor -> {Idle} \cup
                [op : Request, plan : Nat, sched : SUBSET Nat]]
  BY DEF Init
<1>4. /\ clock \in 1..MaxTime /\ wire \subseteq Version /\ sent \in 0..MaxSent /\ run \in BOOLEAN /\ bare \in BOOLEAN
      /\ overlap \in BOOLEAN /\ budget \in 0..Fails
  <2>1. /\ clock = 1 /\ wire = {} /\ sent = 1 /\ run = FALSE
        /\ bare = FALSE /\ overlap = FALSE /\ budget = Fails
    BY DEF Init
  <2>2. run \in BOOLEAN /\ bare \in BOOLEAN /\ overlap \in BOOLEAN
    BY <2>1
  <2>3. clock \in 1..MaxTime /\ sent \in 0..MaxSent /\ budget \in 0..Fails
    <3>1. clock = 1 /\ sent = 1 /\ budget = Fails
      BY <2>1
    <3> QED BY <3>1
  <2> QED BY <2>1, <2>2, <2>3
<1>5. want \in [plan : Nat, sched : SUBSET Nat, arch : BOOLEAN, ever : BOOLEAN]
  BY DEF Init
<1> QED BY <1>1, <1>2, <1>3, <1>4, <1>5 DEF TypeOK

LEMMA SendType ==
    ASSUME TypeOK, NEW i \in Id, NEW plan \in Nat,
           NEW sched \in SUBSET Nat, NEW arch \in BOOLEAN,
           sent < MaxSent, Send(i, plan, sched, arch)
    PROVE  /\ wire' \subseteq Version
           /\ sent' \in 0..MaxSent
<1>1. [id |-> i, plan |-> plan, sched |-> sched, arch |-> arch, upd |-> clock,
       no |-> sent + 1] \in Version
  BY DEF TypeOK, Version
<1> QED BY <1>1 DEF Send, TypeOK

LEMMA TypeStep == TypeOK /\ [Next]_vars => TypeOK'
<1> SUFFICES ASSUME TypeOK, [Next]_vars PROVE TypeOK'
  OBVIOUS
<1>a. sent \in Nat
  BY DEF TypeOK
<1>1. ASSUME NEW sched \in SUBSET Nat, Replace(sched) PROVE TypeOK'
  <2>1. wire' \subseteq Version /\ sent' \in 0..MaxSent
    <3>1. Send("scn", sent + 1, sched, FALSE) /\ sent < MaxSent
      BY <1>1 DEF Replace, May
    <3>2. "scn" \in Id /\ sent + 1 \in Nat
      BY <1>a DEF Id, Request
    <3> QED BY <3>1, <3>2, SendType
  <2>2. want' \in Wants
    <3>1. want \in Wants /\ sent + 1 \in Nat
      BY <1>a DEF TypeOK, Wants
    <3>2. want' = [want EXCEPT !.plan = sent + 1, !.sched = sched, !.arch = FALSE]
      BY <1>1 DEF Replace
    <3> QED BY <3>1, <3>2 DEF Wants
  <2>3. overlap' \in BOOLEAN
    BY <1>1 DEF Replace, May, TypeOK
  <2> QED BY <1>1, <2>1, <2>2, <2>3 DEF Replace, TypeOK, Wants
<1>2. ASSUME NEW e \in Editor,
             NEW op \in {"archive", "unarchive", "schedule", "duplicate"}, Read(e, op)
      PROVE  TypeOK'
  <2>1. PICK got \in [plan : Nat, sched : SUBSET Nat] :
            req' = [req EXCEPT ![e] = [op |-> op, plan |-> got.plan,
                                       sched |-> got.sched]]
    BY <1>2, ReadStep
  <2>2. budget' \in 0..Fails
    BY <1>2, ReadStep
  <2>3. [op |-> op, plan |-> got.plan, sched |-> got.sched]
            \in [op : Request, plan : Nat, sched : SUBSET Nat]
    BY <1>a DEF Request
  <2>4. overlap' \in BOOLEAN
    BY <1>2 DEF Read, May, TypeOK
  <2> QED BY <1>2, <2>1, <2>2, <2>3, <2>4 DEF Read, TypeOK
<1>3. ASSUME NEW e \in Editor, WriteFlag(e) \/ WriteCopy(e) \/ WriteSchedule(e)
      PROVE  TypeOK'
  <2>1. req[e] \in Open /\ req[e].op \in Request
    BY <1>3, OpenIn DEF WriteFlag, WriteCopy, WriteSchedule, Open
  <2>2. wire' \subseteq Version /\ sent' \in 0..MaxSent
    <3>1. CASE WriteFlag(e)
      BY <2>1, <3>1, SendType DEF WriteFlag, Open, Id
    <3>2. CASE WriteCopy(e)
      BY <2>1, <3>2, SendType DEF WriteCopy, Open, Id, Request
    <3>3. CASE WriteSchedule(e)
      <4>1. PICK plan \in Nat : Send("scn", plan, req[e].sched \cup {sent + 1}, FALSE)
        BY <3>3, ScheduleStep
      <4>2. /\ "scn" \in Id /\ req[e].sched \cup {sent + 1} \in SUBSET Nat
            /\ sent < MaxSent
        BY <1>a, <2>1, <3>3 DEF WriteSchedule, Id, Open
      <4> QED BY <4>1, <4>2, SendType
    <3> QED BY <1>3, <3>1, <3>2, <3>3
  <2>3. req' = [req EXCEPT ![e] = Idle]
    BY <1>3 DEF WriteFlag, WriteCopy, WriteSchedule
  <2>4. want' \in Wants
    <3>1. want \in Wants /\ sent + 1 \in Nat
      BY <1>a DEF TypeOK, Wants
    <3>2. CASE WriteFlag(e)
      BY <3>1, <3>2 DEF WriteFlag, Wants
    <3>3. CASE WriteCopy(e)
      BY <3>1, <3>3 DEF WriteCopy
    <3>4. CASE WriteSchedule(e)
      BY <3>1, <3>4 DEF WriteSchedule, Wants
    <3> QED BY <1>3, <3>2, <3>3, <3>4
  <2>5. budget' \in 0..Fails
    <3>1. budget' = budget \/ WriteSchedule(e)
      BY <1>3 DEF WriteFlag, WriteCopy
    <3> QED BY <3>1, ScheduleStep DEF TypeOK
  <2>6. UNCHANGED <<clock, row, run, bare, overlap>>
    BY <1>3 DEF WriteFlag, WriteCopy, WriteSchedule
  <2> QED BY <2>2, <2>3, <2>4, <2>5, <2>6 DEF TypeOK, Wants
<1>4. CASE AskRun
  BY <1>4 DEF AskRun, TypeOK
<1>5. CASE Dispatch
  <2>1. PICK failed \in BOOLEAN :
            MayFail(failed) /\ bare' = (bare \/ LiveRead("scn", failed).plan = 0)
    BY <1>5 DEF Dispatch
  <2>2. bare' \in BOOLEAN
    BY <2>1
  <2> QED BY <1>5, <2>1, <2>2, MayFailType DEF Dispatch, TypeOK
<1>6. ASSUME NEW v \in wire, Land(v) PROVE TypeOK'
  <2>1. v \in Version /\ v.id \in Id
    BY <1>6 DEF Land, TypeOK, Version
  <2>2. row' \in [Id -> {NoRow} \cup Version]
    BY <1>6, <2>1 DEF Land, TypeOK
  <2>3. row'["scn"] # NoRow
    <3>1. DOMAIN v # DOMAIN NoRow
      BY <2>1 DEF NoRow, Version
    <3>2. row'["scn"] = row["scn"] \/ row'["scn"] = v
      BY <1>6 DEF Land, TypeOK, Id
    <3> QED BY <3>1, <3>2 DEF TypeOK
  <2> QED BY <1>6, <2>1, <2>2, <2>3 DEF Land, TypeOK
<1>7. CASE Advance
  BY <1>7 DEF Advance, TypeOK
<1>8. CASE UNCHANGED vars
  BY <1>8 DEF vars, TypeOK
<1> QED BY <1>1, <1>2, <1>3, <1>4, <1>5, <1>6, <1>7, <1>8, ReplaceCases DEF Next, Rewrites

\* Type correctness: versions are whole, and a request that is open holds a plan
\* and a schedule.
THEOREM TypeCorrect == Spec => []TypeOK
BY TypeInit, TypeStep, PTL DEF Spec

\* The steps that hand no version over and read nothing.
Others == AskRun \/ Dispatch \/ Advance \/ UNCHANGED vars

LEMMA OthersKeep ==
    ASSUME TypeOK, Others
    PROVE  /\ UNCHANGED <<row, wire, sent, req, want, overlap>>
           /\ budget' = Fails => budget = Fails
<1>1. CASE Dispatch
  <2>1. PICK failed \in BOOLEAN : MayFail(failed)
    BY <1>1 DEF Dispatch
  <2> QED BY <1>1, <2>1, MayFailType DEF Dispatch
<1>2. CASE AskRun \/ Advance \/ UNCHANGED vars
  BY <1>2 DEF AskRun, Advance, vars
<1> QED BY <1>1, <1>2 DEF Others

\* What a step is, for all invariants below.
LEMMA StepCases ==
    ASSUME TypeOK, [Next]_vars
    PROVE  \/ Rewrites
           \/ Reads
           \/ \E e \in Editor : WriteFlag(e) \/ WriteCopy(e) \/ WriteSchedule(e)
           \/ \E v \in wire : Land(v)
           \/ Others
BY ReplaceCases DEF Next, Reads, Others

\* A version that lands takes its row's place or is forgotten.
LEMMA LandStep ==
    ASSUME TypeOK, NEW v \in wire, Land(v)
    PROVE  /\ v \in Version /\ wire' = wire \ {v}
           /\ UNCHANGED <<clock, sent, req, run, bare, want, overlap, budget>>
           /\ \/ row'["scn"] = row["scn"]
              \/ v.id = "scn" /\ row'["scn"] = v
           /\ \/ row'["copy"] = row["copy"]
              \/ v.id = "copy" /\ row'["copy"] = v
           /\ v.id = "scn" /\ v.upd >= Scenario.upd
                => row'["scn"] = v
           /\ v.id = "copy" => row'["scn"] = row["scn"]
<1>1. v \in Version /\ v.id \in Id /\ DOMAIN row = Id
  BY DEF TypeOK, Version
<1>2. row' = row \/ row' = [row EXCEPT ![v.id] = v]
  BY DEF Land
<1>3. v.id = "scn" /\ v.upd >= Scenario.upd
        => row' = [row EXCEPT ![v.id] = v]
  BY DEF Land, Scenario
<1> QED BY <1>1, <1>2, <1>3 DEF Land, Id

-----------------------------------------------------------------------------
(* Blank plans. *)

\* While nothing was archived and no read failed, every read is a full one.
BlankInv ==
    ~want.ever /\ budget = Fails =>
        /\ Scenario.plan > 0 /\ ~Scenario.arch /\ ~bare
        /\ \A v \in wire : v.plan > 0 /\ ~v.arch
        /\ \A e \in Editor : req[e] # Idle => req[e].plan > 0
        /\ row["copy"] # NoRow => row["copy"].plan > 0

LEMMA BlankStep == TypeOK /\ BlankInv /\ [Next]_vars => BlankInv'
<1> SUFFICES ASSUME TypeOK, BlankInv, [Next]_vars, ~want'.ever, budget' = Fails
             PROVE  /\ Scenario'.plan > 0 /\ ~Scenario'.arch /\ ~bare'
                    /\ \A v \in wire' : v.plan > 0 /\ ~v.arch
                    /\ \A e \in Editor : req'[e] # Idle => req'[e].plan > 0
                    /\ row'["copy"] # NoRow => row'["copy"].plan > 0
  BY DEF BlankInv
<1>a. /\ Scenario.plan \in Nat /\ Scenario = row["scn"]
      /\ sent \in Nat /\ want \in Wants
  BY ScenarioType DEF Version, TypeOK, Wants
<1>1. ASSUME NEW sched \in SUBSET Nat, Replace(sched) PROVE BlankInv'
  <2>1. Send("scn", sent + 1, sched, FALSE)
        /\ UNCHANGED <<row, req, bare, budget>>
    BY <1>1 DEF Replace
  <2>2. ~want.ever
    BY <1>1, <1>a DEF Replace, Wants
  <2>3. \A v \in wire' : v.plan > 0 /\ ~v.arch
    BY <1>a, <2>1, <2>2 DEF BlankInv, Send
  <2> QED BY <2>1, <2>2, <2>3 DEF BlankInv, Scenario
<1>2. ASSUME NEW e \in Editor,
             NEW op \in {"archive", "unarchive", "schedule", "duplicate"}, Read(e, op)
      PROVE  BlankInv'
  <2>1. PICK got \in [plan : Nat, sched : SUBSET Nat] :
            /\ req' = [req EXCEPT ![e] = [op |-> op, plan |-> got.plan,
                                          sched |-> got.sched]]
            /\ budget' = Fails /\ (Scenario.arch => op = "unarchive") =>
                 got = [plan |-> Scenario.plan, sched |-> Scenario.sched]
            /\ budget' = Fails => budget = Fails
    BY <1>2, ReadStep
  <2>2. UNCHANGED <<row, wire, bare, want>>
    BY <1>2 DEF Read
  <2>3. got.plan > 0
    BY <2>1, <2>2 DEF BlankInv
  <2>4. \A f \in Editor : req'[f] = req[f] \/ req'[f].plan = got.plan
    BY <2>1 DEF TypeOK
  <2> QED BY <2>1, <2>2, <2>3, <2>4 DEF BlankInv, Scenario
<1>3. ASSUME NEW e \in Editor, WriteFlag(e) PROVE BlankInv'
  <2>1. req[e].op \in {"archive", "unarchive"} /\ req[e] # Idle
    BY <1>3, WriterOpen DEF WriteFlag
  <2>2. want'.ever = (want.ever \/ req[e].op = "archive")
    BY <1>3, <1>a DEF WriteFlag, Wants
  <2>3. ~want.ever /\ req[e].op = "unarchive"
    BY <2>1, <2>2
  <2>4. Send("scn", req[e].plan, req[e].sched, FALSE)
    <3>1. (req[e].op = "archive") = FALSE
      BY <2>3
    <3> QED BY <1>3, <2>3, <3>1 DEF WriteFlag
  <2>5. \A v \in wire' : v.plan > 0 /\ ~v.arch
    <3>1. req[e].plan > 0 /\ \A v \in wire : v.plan > 0 /\ ~v.arch
      BY <1>3, <2>1, <2>3 DEF BlankInv, WriteFlag
    <3> QED BY <2>4, <3>1 DEF Send
  <2>6. req' = [req EXCEPT ![e] = Idle] /\ UNCHANGED <<row, bare, budget>>
    BY <1>3 DEF WriteFlag
  <2> QED BY <2>3, <2>5, <2>6 DEF BlankInv, Scenario, TypeOK
<1>4. ASSUME NEW e \in Editor, WriteCopy(e) PROVE BlankInv'
  <2>1. req[e] # Idle /\ Send("copy", req[e].plan, req[e].sched, FALSE)
    BY <1>4, WriterOpen DEF WriteCopy
  <2>2. req' = [req EXCEPT ![e] = Idle] /\ UNCHANGED <<row, bare, want, budget>>
    BY <1>4 DEF WriteCopy
  <2>3. \A v \in wire' : v.plan > 0 /\ ~v.arch
    BY <2>1, <2>2 DEF BlankInv, Send
  <2> QED BY <2>2, <2>3 DEF BlankInv, Scenario, TypeOK
<1>5. ASSUME NEW e \in Editor, WriteSchedule(e) PROVE BlankInv'
  <2>1. PICK plan \in Nat :
            /\ Send("scn", plan, req[e].sched \cup {sent + 1}, FALSE)
            /\ budget' = Fails => plan = LiveRead("scn", FALSE).plan
    BY <1>5, ScheduleStep
  <2>2. budget = Fails
    BY <1>5, ScheduleStep
  <2>3. ~want.ever
    BY <1>5, <1>a DEF WriteSchedule, Wants
  <2>4. plan > 0
    BY <2>1, <2>2, <2>3 DEF BlankInv, LiveRead, Full, Scenario
  <2>5. \A v \in wire' : v.plan > 0 /\ ~v.arch
    BY <2>1, <2>2, <2>3, <2>4 DEF BlankInv, Send
  <2>6. req' = [req EXCEPT ![e] = Idle] /\ UNCHANGED <<row, bare>>
    BY <1>5 DEF WriteSchedule
  <2> QED BY <2>2, <2>3, <2>5, <2>6 DEF BlankInv, Scenario, TypeOK
<1>6. ASSUME NEW v \in wire, Land(v) PROVE BlankInv'
  <2>1. /\ wire' = wire \ {v} /\ UNCHANGED <<req, bare, want, budget>>
        /\ \/ row'["scn"] = row["scn"]
           \/ row'["scn"] = v
        /\ \/ row'["copy"] = row["copy"]
           \/ row'["copy"] = v
    BY <1>6, LandStep
  <2>2. v.plan > 0 /\ ~v.arch
    BY <2>1 DEF BlankInv
  <2>3. Scenario' = Scenario \/ Scenario' = v
    BY <2>1 DEF Scenario
  <2>4. row'["copy"] = row["copy"] \/ row'["copy"] = v
    BY <2>1
  <2> QED BY <2>1, <2>2, <2>3, <2>4 DEF BlankInv
<1>7. ASSUME Others PROVE BlankInv'
  <2>1. UNCHANGED <<row, wire, req, want>> /\ budget = Fails
    BY <1>7, OthersKeep
  <2>2. ~bare'
    <3>1. CASE Dispatch
      <4>1. PICK failed \in BOOLEAN :
                MayFail(failed) /\ bare' = (bare \/ LiveRead("scn", failed).plan = 0)
        BY <3>1 DEF Dispatch
      <4>2. ~failed
        BY <4>1, MayFailType
      <4>3. LiveRead("scn", failed).plan > 0 /\ ~bare
        BY <2>1, <4>2, ReadFacts DEF BlankInv
      <4>4. LiveRead("scn", failed).plan # 0
        BY <4>3
      <4> QED BY <4>1, <4>3, <4>4
    <3>2. CASE AskRun \/ Advance \/ UNCHANGED vars
      BY <2>1, <3>2 DEF AskRun, Advance, vars, BlankInv
    <3> QED BY <1>7, <3>1, <3>2 DEF Others
  <2> QED BY <2>1, <2>2 DEF BlankInv, Scenario
<1>8. BlankInv'
  <2>1. CASE Rewrites
    BY <1>1, <2>1 DEF Rewrites
  <2>2. CASE Reads
    BY <1>2, <2>2 DEF Reads
  <2>3. CASE \E e \in Editor : WriteFlag(e) \/ WriteCopy(e) \/ WriteSchedule(e)
    BY <1>3, <1>4, <1>5, <2>3
  <2>4. CASE \E v \in wire : Land(v)
    BY <1>6, <2>4
  <2>5. \/ Rewrites \/ Reads
        \/ \E e \in Editor : WriteFlag(e) \/ WriteCopy(e) \/ WriteSchedule(e)
        \/ \E v \in wire : Land(v)
        \/ Others
    BY StepCases
  <2> QED BY <1>7, <2>1, <2>2, <2>3, <2>4, <2>5
<1> QED BY <1>8 DEF BlankInv

\* load.go, jmx_xml is the source of truth for JMeter runs: while nobody archives
\* the scenario and no read fails, no race of rewrites, dispatch and copy leaves
\* the plan of any of them blank.
THEOREM NoPlanBlank == Spec => []NothingBlank
<1>1. Init => BlankInv
  <2> SUFFICES ASSUME Init PROVE BlankInv
    OBVIOUS
  <2>1. /\ Scenario.plan = 1 /\ Scenario.arch = FALSE /\ row["copy"] = NoRow
        /\ wire = {} /\ bare = FALSE /\ \A e \in Editor : req[e] = Idle
    BY DEF Init, Scenario, Id
  <2> QED BY <2>1 DEF BlankInv
<1>2. TypeOK /\ BlankInv /\ [Next]_vars => BlankInv'
  BY BlankStep
<1>3. BlankInv => NothingBlank
  BY DEF BlankInv, NothingBlank
<1> QED BY <1>1, <1>2, <1>3, TypeCorrect, PTL DEF Spec

-----------------------------------------------------------------------------
(* Requests in turn. *)

\* Operators neither archive what is archived nor edit its schedule.
Careful == OnArchived \cap {"archive", "schedule"} = {}

Wanted(v) == v.plan = want.plan /\ v.sched = want.sched /\ v.arch = want.arch

\* While every request starts when those before it have landed and no read fails,
\* one request is open or one version is on its way, which has what is wanted.
OneAtATime ==
    /\ \A e, f \in Editor : req[e] # Idle /\ req[f] # Idle => e = f
    /\ \A v, w \in wire : v = w
    /\ (\E e \in Editor : req[e] # Idle) => wire = {}

Carries ==
    /\ (\A v \in wire : v.id = "copy") => Wanted(Scenario)
    /\ \A v \in wire : v.id = "scn" => Wanted(v) /\ v.upd >= Scenario.upd
    /\ \A e \in Editor :
        /\ req[e] # Idle /\ req[e].op \in {"archive", "unarchive"}
             => req[e].plan = want.plan /\ req[e].sched = want.sched
        /\ req[e] # Idle /\ req[e].op = "schedule"
             => ~Scenario.arch /\ req[e].sched = want.sched

TurnInv ==
    /\ Scenario.upd <= clock /\ \A v \in wire : v.upd <= clock
    /\ ~overlap /\ budget = Fails => OneAtATime /\ Carries

\* A version handed over when nothing else is on its way.
LEMMA SendInTurn ==
    ASSUME TypeOK, TurnInv, UNCHANGED <<row, clock>>,
           NEW i \in Id, NEW plan \in Nat, NEW sched \in SUBSET Nat,
           NEW arch \in BOOLEAN,
           Send(i, plan, sched, arch),
           ~overlap' /\ budget' = Fails =>
               /\ wire = {} /\ \A e \in Editor : req'[e] = Idle
               /\ i = "copy" => Wanted(Scenario) /\ UNCHANGED want
               /\ i = "scn" => plan = want'.plan /\ sched = want'.sched /\ arch = want'.arch
    PROVE  TurnInv'
<1> DEFINE new == [id |-> i, plan |-> plan, sched |-> sched, arch |-> arch,
                   upd |-> clock, no |-> sent + 1]
<1>1. /\ Scenario' = Scenario /\ wire' = wire \cup {new} /\ clock' = clock
      /\ clock \in Nat /\ Scenario.upd <= clock
  BY ScenarioType DEF Send, Scenario, TurnInv
<1>2. Scenario'.upd <= clock' /\ \A v \in wire' : v.upd <= clock'
  BY <1>1 DEF TurnInv
<1>3. ASSUME ~overlap', budget' = Fails PROVE OneAtATime' /\ Carries'
  <2>1. wire' = {new} /\ \A e \in Editor : req'[e] = Idle
    BY <1>1, <1>3
  <2>2. CASE i = "copy"
    <3>1. Wanted(Scenario)'
      BY <1>1, <1>3, <2>2 DEF Wanted
    <3> QED BY <2>1, <2>2, <3>1 DEF OneAtATime, Carries
  <2>3. CASE i = "scn"
    <3>1. new.plan = want'.plan /\ new.sched = want'.sched /\ new.arch = want'.arch
      BY <1>3, <2>3
    <3> HIDE DEF new
    <3>2. new.id = "scn" /\ new.upd >= Scenario'.upd
      BY <1>1, <2>3 DEF new
    <3> QED BY <2>1, <3>1, <3>2 DEF OneAtATime, Carries, Wanted
  <2> QED BY <2>2, <2>3 DEF Id
<1> QED BY <1>2, <1>3 DEF TurnInv

LEMMA TurnStep ==
    ASSUME Careful, TypeOK, TurnInv, [Next]_vars
    PROVE  TurnInv'
<1>a. /\ sent \in Nat /\ clock \in Nat /\ want \in Wants
      /\ Scenario = row["scn"] /\ Scenario \in Version
  BY ScenarioType DEF TypeOK, Wants
<1>1. ASSUME NEW sched \in SUBSET Nat, Replace(sched) PROVE TurnInv'
  <2>1. /\ Send("scn", sent + 1, sched, FALSE)
        /\ UNCHANGED <<row, clock, req, budget>>
        /\ want' = [want EXCEPT !.plan = sent + 1, !.sched = sched, !.arch = FALSE]
        /\ overlap' = (overlap \/ ~Quiet)
    BY <1>1 DEF Replace, May
  <2>2. want'.plan = sent + 1 /\ want'.sched = sched /\ want'.arch = FALSE
    BY <1>a, <2>1 DEF Wants
  <2>3. ~overlap' => wire = {} /\ \A e \in Editor : req'[e] = Idle
    BY <2>1 DEF Quiet
  <2>4. /\ "scn" \in Id /\ "upsert" \in Request /\ sent + 1 \in Nat /\ FALSE \in BOOLEAN
        /\ "scn" # "copy"
    BY <1>a DEF Id, Request
  <2> QED BY <1>a, <2>1, <2>2, <2>3, <2>4, SendInTurn
<1>2. ASSUME NEW e \in Editor,
             NEW op \in {"archive", "unarchive", "schedule", "duplicate"}, Read(e, op)
      PROVE  TurnInv'
  <2>1. PICK got \in [plan : Nat, sched : SUBSET Nat] :
            /\ req' = [req EXCEPT ![e] = [op |-> op, plan |-> got.plan,
                                          sched |-> got.sched]]
            /\ budget' = Fails /\ (Scenario.arch => op = "unarchive") =>
                 got = [plan |-> Scenario.plan, sched |-> Scenario.sched]
            /\ budget' = Fails => budget = Fails
    BY <1>2, ReadStep
  <2>2. UNCHANGED <<row, wire, clock, want>> /\ overlap' = (overlap \/ ~Quiet)
        /\ (Scenario.arch => op \in OnArchived)
    BY <1>2 DEF Read, May, Archived
  <2>3. ASSUME ~overlap', budget' = Fails PROVE OneAtATime' /\ Carries'
    <3>1. ~overlap /\ wire = {} /\ \A f \in Editor : req[f] = Idle
      BY <2>2, <2>3 DEF Quiet
    <3>2. Wanted(Scenario) /\ budget = Fails
      BY <2>1, <2>3, <3>1 DEF TurnInv, Carries
    <3>3. \A f \in Editor : f # e => req'[f] = Idle
      BY <2>1, <3>1 DEF TypeOK
    <3>4. req'[e].op = op /\ req'[e].plan = got.plan /\ req'[e].sched = got.sched
      BY <2>1 DEF TypeOK
    <3>5. op \in {"archive", "schedule"} => ~Scenario.arch
      BY <2>2 DEF Careful
    <3>6. op \in {"archive", "unarchive", "schedule"} => got.plan = want.plan /\ got.sched = want.sched
      BY <2>1, <2>3, <3>2, <3>5 DEF Wanted
    <3>7. OneAtATime'
      BY <2>2, <3>1, <3>3 DEF OneAtATime
    <3>8. Scenario' = Scenario /\ want' = want /\ wire' = {}
      BY <2>2, <3>1 DEF Scenario
    <3>9. Carries'
      BY <3>2, <3>3, <3>4, <3>5, <3>6, <3>8 DEF Carries, Wanted
    <3> QED BY <3>7, <3>9
  <2> QED BY <2>2, <2>3 DEF TurnInv, Scenario
<1>3. ASSUME NEW e \in Editor, WriteFlag(e) \/ WriteCopy(e) \/ WriteSchedule(e)
      PROVE  TurnInv'
  <2>1. req[e] \in Open /\ req[e] # Idle
    BY <1>3, WriterOpen
  <2>2. UNCHANGED <<row, clock, overlap>> /\ req' = [req EXCEPT ![e] = Idle]
    BY <1>3 DEF WriteFlag, WriteCopy, WriteSchedule
  <2>3. budget' = Fails => budget = Fails
    <3>1. budget' = budget \/ WriteSchedule(e)
      BY <1>3 DEF WriteFlag, WriteCopy
    <3> QED BY <3>1, ScheduleStep
  <2>4. ~overlap' /\ budget' = Fails =>
            OneAtATime /\ Carries /\ wire = {} /\ \A f \in Editor : req'[f] = Idle
    BY <2>1, <2>2, <2>3 DEF TurnInv, OneAtATime, TypeOK
  <2>5. ~overlap' /\ budget' = Fails => Wanted(Scenario)
    BY <2>4 DEF Carries
  <2>6. /\ req[e].plan \in Nat /\ req[e].sched \in SUBSET Nat
        /\ req[e].op \in Request
    BY <1>a, <2>1 DEF Open
  <2>7. CASE WriteFlag(e)
    <3>1. /\ Send("scn", req[e].plan, req[e].sched, req[e].op = "archive")
          /\ want' = [want EXCEPT !.arch = (req[e].op = "archive"),
                                  !.ever = @ \/ req[e].op = "archive"]
          /\ req[e].op \in {"archive", "unarchive"}
      BY <2>7 DEF WriteFlag
    <3>2. /\ want'.plan = want.plan /\ want'.sched = want.sched
          /\ want'.arch = (req[e].op = "archive")
      BY <1>a, <3>1 DEF Wants
    <3>3. ~overlap' /\ budget' = Fails =>
              req[e].plan = want'.plan /\ req[e].sched = want'.sched
      BY <2>1, <2>4, <3>1, <3>2 DEF Carries
    <3>4. "scn" \in Id /\ (req[e].op = "archive") \in BOOLEAN /\ "scn" # "copy"
      BY DEF Id
    <3> QED BY <2>2, <2>4, <2>6, <3>1, <3>2, <3>3, <3>4, SendInTurn
  <2>8. CASE WriteCopy(e)
    <3>1. /\ Send("copy", req[e].plan, req[e].sched, FALSE)
          /\ UNCHANGED want
      BY <2>8 DEF WriteCopy
    <3>2. "copy" \in Id /\ "duplicate" \in Request /\ FALSE \in BOOLEAN /\ "copy" # "scn"
      BY DEF Id, Request
    <3> QED BY <2>2, <2>4, <2>5, <2>6, <3>1, <3>2, SendInTurn
  <2>9. CASE WriteSchedule(e)
    <3>1. PICK plan \in Nat :
              /\ Send("scn", plan, req[e].sched \cup {sent + 1}, FALSE)
              /\ budget' = Fails => plan = LiveRead("scn", FALSE).plan
      BY <2>9, ScheduleStep
    <3>2. /\ want' = [want EXCEPT !.sched = @ \cup {sent + 1}]
          /\ req[e].op = "schedule"
      BY <2>9 DEF WriteSchedule
    <3>3. /\ want'.plan = want.plan /\ want'.arch = want.arch
          /\ want'.sched = want.sched \cup {sent + 1}
      BY <1>a, <3>2 DEF Wants
    <3>4. ASSUME ~overlap', budget' = Fails
          PROVE  /\ plan = want'.plan /\ want'.arch = FALSE
                 /\ req[e].sched \cup {sent + 1} = want'.sched
      <4>1. /\ ~Scenario.arch /\ Wanted(Scenario)
            /\ req[e].sched = want.sched
        BY <2>1, <2>4, <2>5, <3>2, <3>4 DEF Carries
      <4>2. LiveRead("scn", FALSE).plan = Scenario.plan
        BY <4>1 DEF LiveRead, Full, Scenario
      <4>3. want.arch = FALSE
        BY <1>a, <4>1 DEF Wanted, Version, Wants
      <4> QED BY <3>1, <3>3, <3>4, <4>1, <4>2, <4>3 DEF Wanted
    <3>5. /\ "scn" \in Id /\ FALSE \in BOOLEAN /\ "scn" # "copy"
          /\ req[e].sched \cup {sent + 1} \in SUBSET Nat
      BY <1>a, <2>6 DEF Id
    <3> QED BY <1>a, <2>2, <2>4, <3>1, <3>3, <3>4, <3>5, SendInTurn
  <2> QED BY <1>3, <2>7, <2>8, <2>9
<1>4. ASSUME NEW v \in wire, Land(v) PROVE TurnInv'
  <2>1. /\ wire' = wire \ {v} /\ UNCHANGED <<req, clock, want, overlap, budget>>
        /\ v \in Version
        /\ \/ row'["scn"] = row["scn"]
           \/ v.id = "scn" /\ row'["scn"] = v
        /\ v.id = "scn" /\ v.upd >= Scenario.upd
             => row'["scn"] = v
        /\ v.id = "copy" => row'["scn"] = row["scn"]
    BY <1>4, LandStep
  <2>2. Scenario' = Scenario \/ Scenario' = v
    BY <2>1 DEF Scenario
  <2>3. Scenario'.upd <= clock' /\ \A w \in wire' : w.upd <= clock'
    BY <2>1, <2>2 DEF TurnInv
  <2>4. ASSUME ~overlap', budget' = Fails PROVE OneAtATime' /\ Carries'
    <3>1. OneAtATime /\ Carries
      BY <2>1, <2>4 DEF TurnInv
    <3>2. wire' = {} /\ wire = {v} /\ \A e \in Editor : req'[e] = Idle
      BY <2>1, <3>1 DEF OneAtATime
    <3>3. Wanted(Scenario)'
      <4>1. CASE v.id = "scn"
        <5>1. Wanted(v) /\ Scenario' = v /\ want' = want
          BY <2>1, <3>1, <4>1 DEF Carries, Scenario
        <5> QED BY <5>1 DEF Wanted
      <4>2. CASE v.id = "copy"
        <5>1. Wanted(Scenario) /\ Scenario' = Scenario /\ want' = want
          BY <2>1, <3>1, <3>2, <4>2 DEF Carries, Scenario
        <5> QED BY <5>1 DEF Wanted
      <4> QED BY <2>1, <4>1, <4>2 DEF Version, Id
    <3> QED BY <3>2, <3>3 DEF OneAtATime, Carries
  <2> QED BY <2>3, <2>4 DEF TurnInv
<1>5. CASE Others
  <2>1. UNCHANGED <<row, wire, req, want, overlap>> /\ (budget' = Fails => budget = Fails)
    BY <1>5, OthersKeep
  <2>2. clock' \in Nat /\ clock <= clock'
    BY <1>5, <1>a DEF Others, AskRun, Dispatch, Advance, vars
  <2>3. Scenario' = Scenario /\ Scenario.upd \in Nat /\ \A v \in wire : v.upd \in Nat
    BY <1>a, <2>1 DEF Scenario, Version, TypeOK
  <2>4. Scenario'.upd <= clock' /\ \A v \in wire' : v.upd <= clock'
    BY <1>a, <2>1, <2>2, <2>3 DEF TurnInv
  <2>5. ~overlap' /\ budget' = Fails => OneAtATime' /\ Carries'
    BY <2>1, <2>3 DEF TurnInv, OneAtATime, Carries, Wanted
  <2> QED BY <2>4, <2>5 DEF TurnInv
<1>6. CASE Rewrites
  BY <1>1, <1>6 DEF Rewrites
<1>7. CASE Reads
  BY <1>2, <1>7 DEF Reads
<1>8. CASE \E e \in Editor : WriteFlag(e) \/ WriteCopy(e) \/ WriteSchedule(e)
  BY <1>3, <1>8
<1> QED BY <1>4, <1>5, <1>6, <1>7, <1>8, StepCases

\* load.go and lab_extras.go, each handler keeps the columns it is not about:
\* requests made one after the other add up, if none but upsert, unarchive,
\* duplicate and a run is made of an archived scenario.
THEOREM RequestsInTurn == ASSUME Careful PROVE Spec => []EditsAddUp
<1>1. Init => TurnInv
  <2> SUFFICES ASSUME Init PROVE TurnInv
    OBVIOUS
  <2>1. /\ Scenario.plan = 1 /\ Scenario.sched = {1} /\ Scenario.arch = FALSE
        /\ Scenario.upd = 0 /\ clock = 1
        /\ want.plan = 1 /\ want.sched = {1} /\ want.arch = FALSE
        /\ wire = {} /\ \A e \in Editor : req[e] = Idle
    BY DEF Init, Scenario, Id
  <2>2. OneAtATime
    BY <2>1 DEF OneAtATime
  <2>3. Carries
    BY <2>1 DEF Carries, Wanted
  <2> QED BY <2>1, <2>2, <2>3 DEF TurnInv
<1>2. TypeOK /\ TurnInv /\ [Next]_vars => TurnInv'
  BY TurnStep
<1>3. TurnInv => EditsAddUp
  BY DEF TurnInv, Carries, Wanted, Quiet, EditsAddUp
<1> QED BY <1>1, <1>2, <1>3, TypeCorrect, PTL DEF Spec
=============================================================================
