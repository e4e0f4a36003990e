-------------------------- MODULE RunLifecycleProofs --------------------------
(***************************************************************************)
(* For any set of containers, any timing and any number of upsets: the     *)
(* model of a run is type correct, a row closed on exit codes is one whose *)
(* containers had exited, while no process dies every terminal row is      *)
(* announced, and the verdict of an engine that outlived its dispatch is   *)
(* the last word on its run.  If a dispatch ends before the deadline, the  *)
(* run is closed in time, whatever crashes and whichever rows are lost.    *)
(***************************************************************************)
EXTENDS RunLifecycle, FiniteSetTheorems, TLAPS

USE LifecycleAssumption

-----------------------------------------------------------------------------
(* Types. *)

LEMMA TypeInit == Init => TypeOK
<1> SUFFICES ASSUME Init PROVE TypeOK
  OBVIOUS
<1>1. Cardinality({}) = 0
  BY FS_EmptySet
<1>2. run \in [path : {"create", "schedule"}, home : {"api", "orch"},
              dispatch : BOOLEAN, engine : {"jmeter", "node"}]
  BY DEF Init
<1>3. reap \in [pc : {"idle", "seen"}, at : Nat, started : Nat, due : Nat,
                by : {"none", "exit", "deadline"}]
  BY DEF Init
<1>4. upset \subseteq Upsets /\ Cardinality(upset) <= MaxUpsets
  BY <1>1 DEF Init
<1>5. clock \in 1..MaxTime /\ wire \subseteq {} /\ row \in {NoRow} /\ said \subseteq {}
  BY DEF Init
<1>6. box \in [Workers -> {"none", "running", "ok", "bad", "gone"}]
  BY DEF Init
<1> QED BY <1>2, <1>3, <1>4, <1>5, <1>6 DEF Init, TypeOK

LEMMA UpsetType ==
    ASSUME TypeOK, NEW what, Upset(what)
    PROVE  upset' \subseteq Upsets /\ Cardinality(upset') <= MaxUpsets
<1>1. IsFiniteSet({"api", "orch", "drop", "noquery", "cancel", "report", "heartbeat",
                   "blind"})
  <2>1. /\ IsFiniteSet({})
        /\ \A S : IsFiniteSet(S) => \A e : IsFiniteSet(S \cup {e})
    BY FS_EmptySet, FS_AddElement
  <2>2. IsFiniteSet((({} \cup {"api"}) \cup {"orch"}) \cup {"drop"})
    BY <2>1
  <2>3. IsFiniteSet((((({} \cup {"api"}) \cup {"orch"}) \cup {"drop"}) \cup {"noquery"})
                      \cup {"cancel"})
    BY <2>1, <2>2
  <2>4. IsFiniteSet(((((((({} \cup {"api"}) \cup {"orch"}) \cup {"drop"}) \cup {"noquery"})
                        \cup {"cancel"}) \cup {"report"}) \cup {"heartbeat"})
                      \cup {"blind"})
    BY <2>1, <2>3
  <2>5. {"api", "orch", "drop", "noquery", "cancel", "report", "heartbeat", "blind"}
          = (((((((({} \cup {"api"}) \cup {"orch"}) \cup {"drop"}) \cup {"noquery"})
                \cup {"cancel"}) \cup {"report"}) \cup {"heartbeat"}) \cup {"blind"})
    OBVIOUS
  <2> QED BY <2>4, <2>5
<1>2. IsFiniteSet(upset)
  BY <1>1, FS_Subset DEF TypeOK
<1>3. Cardinality(upset') = Cardinality(upset) + 1 /\ Cardinality(upset) \in Nat
  BY <1>2, FS_AddElement, FS_CardinalityType DEF Upset
<1> QED BY <1>3 DEF Upset, TypeOK

LEMMA InsertType ==
    ASSUME TypeOK, NEW s \in Status, NEW f \in Nat, NEW t \in Nat,
           NEW p \in {"api", "orch"}, Insert(Version(s, f, t, p))
    PROVE  wire' \subseteq [status : Status, fin : Nat, started : Nat, sent : Nat,
                            from : {"api", "orch"}]
BY DEF TypeOK, Insert, Version

\* What the reaper may decide.
LEMMA DecisionType ==
    ASSUME NEW age, NEW registered, NEW found
    PROVE  ReapDecision(age, registered, found) \in
             {<<"none", "none">>, <<"error", "deadline">>,
              <<"failed", "exit">>, <<"completed", "exit">>}
BY DEF ReapDecision

Passes == [pc : {"idle", "seen"}, at : Nat, started : Nat, due : Nat,
           by : {"none", "exit", "deadline"}]

\* What a pass of the reaper keeps, whatever it changes.
LEMMA ReapType ==
    ASSUME NEW r, r \in Passes, NEW pc \in {"idle", "seen"}, NEW at \in Nat,
           NEW started \in Nat, NEW due \in Nat, NEW by \in {"none", "exit", "deadline"}
    PROVE  /\ [r EXCEPT !.due = due, !.pc = pc, !.at = at, !.started = started]
                 \in Passes
           /\ [r EXCEPT !.pc = pc, !.at = at, !.started = started] \in Passes
           /\ [r EXCEPT !.pc = pc, !.at = at, !.started = started, !.by = by]
                 \in Passes
           /\ [r EXCEPT !.pc = pc, !.at = at, !.started = started, !.due = due]
                 \in Passes
BY DEF Passes

LEMMA DueType ==
    ASSUME NEW r, r \in Passes, NEW due \in Nat PROVE [r EXCEPT !.due = due] \in Passes
BY DEF Passes

\* What is announced is what was written.
TypeInv == TypeOK /\ (engine.pc = "wrote" => engine.status \in Verdicts)

LEMMA TypeStep == TypeInv /\ [Next]_vars => TypeOK'
<1> SUFFICES ASSUME TypeInv, [Next]_vars PROVE TypeOK'
  OBVIOUS
<1>c. clock \in Nat /\ TypeOK
  <2>1. clock \in 1..MaxTime /\ MaxTime \in Nat
    BY DEF TypeInv, TypeOK
  <2> QED BY <2>1 DEF TypeInv
<1> USE <1>c
<1> USE DEF TypeOK
<1> DEFINE Wire   == [status : Status, fin : Nat, started : Nat, sent : Nat,
                      from : {"api", "orch"}]
           Maker  == [pc : {"new", "start", "refused", "started", "fix", "done",
                            "dead"}, born : Nat, last : Nat]
           Engine == [pc : {"none", "wait", "node", "wrote", "said", "done", "dead"},
                      status : {"none"} \cup Verdicts, fin : Nat]
<1>s. "running" \in Status /\ "created" \in Status /\ Terminal \subseteq Status
      /\ Verdicts \subseteq Terminal /\ Reports \subseteq Terminal
      /\ "failed" \in Terminal /\ "cancelled" \in Terminal
  BY DEF Status, Terminal
<1>r. row.status \in Status \cup {"none"} /\ row.fin \in Nat /\ row.started \in Nat
  BY DEF NoRow
<1>1. CASE Create
  <2>1. wire' \subseteq Wire
    BY <1>1, <1>s, InsertType DEF Create
  <2> QED BY <1>1, <2>1 DEF Create
<1>2. CASE Refuse \/ Started \/ StartNode \/ Register
  <2>1. maker' \in Maker
    BY <1>2 DEF Refuse, Started, StartNode, Register
  <2>2. engine' \in Engine /\ reg' \in BOOLEAN
    <3>1. engine \in Engine /\ reg \in BOOLEAN
      OBVIOUS
    <3> HIDE DEF TypeOK
    <3>2. CASE Refuse \/ Register
      BY <3>1, <3>2 DEF Refuse, Register
    <3>3. CASE Started \/ StartNode
      BY <3>1, <3>3 DEF Started, StartNode
    <3> QED BY <1>2, <3>2, <3>3
  <2>3. UNCHANGED <<clock, run, row, wire, box, cancel, reap, said, upset>>
    BY <1>2 DEF Refuse, Started, StartNode, Register
  <2> QED BY <2>1, <2>2, <2>3
<1>3. CASE FixRow
  <2>1. wire' \subseteq Wire
    BY <1>3, <1>s, InsertType DEF FixRow
  <2>2. maker' \in Maker
    BY <1>3 DEF FixRow
  <2>3. said' \subseteq Terminal
    BY <1>3, <1>s DEF FixRow
  <2>4. UNCHANGED <<clock, run, row, box, engine, reg, cancel, reap, upset>>
    BY <1>3 DEF FixRow
  <2> QED BY <2>1, <2>2, <2>3, <2>4
<1>4. ASSUME NEW w \in Workers, StartWorker(w) \/ BoxExit(w) \/ BoxRemove(w)
      PROVE  TypeOK'
  <2>1. box' \in [Workers -> {"none", "running", "ok", "bad", "gone"}]
    BY <1>4 DEF StartWorker, BoxExit, BoxRemove
  <2>2. UNCHANGED <<clock, run, row, wire, maker, engine, reg, cancel, reap, said,
                    upset>>
    BY <1>4 DEF StartWorker, BoxExit, BoxRemove
  <2> QED BY <2>1, <2>2
<1>5. CASE EngineWrite
  <2>1. wire' \subseteq Wire
    BY <1>5, <1>s, InsertType DEF EngineWrite
  <2> QED BY <1>5, <2>1 DEF EngineWrite
<1>6. CASE EngineNotify
  <2>1. engine' \in Engine
    BY <1>6 DEF EngineNotify
  <2>2. said' \subseteq Terminal
    BY <1>6, <1>s DEF EngineNotify, TypeInv
  <2> QED BY <1>6, <2>1, <2>2 DEF EngineNotify
<1>7. CASE EngineClear
  <2>1. engine' \in Engine
    BY <1>7 DEF EngineClear
  <2>2. reg' \in BOOLEAN
    BY <1>7 DEF EngineClear
  <2> QED BY <1>7, <2>1, <2>2 DEF EngineClear
<1>8. CASE NodeReport
  <2>1. wire' \subseteq Wire
    BY <1>8, <1>s, InsertType DEF NodeReport
  <2> QED BY <1>8, <2>1, <1>s DEF NodeReport
<1>9. CASE CancelRead
  BY <1>9, <1>r, UpsetType DEF CancelRead
<1>10. CASE CancelMark
  <2>1. wire' \subseteq Wire
    BY <1>10, <1>s, InsertType DEF CancelMark
  <2> QED BY <1>10, <2>1, <1>s DEF CancelMark
<1>11. CASE CancelStop
  <2>1. box' \in [Workers -> {"none", "running", "ok", "bad", "gone"}]
    BY <1>11 DEF CancelStop
  <2>2. cancel' \in [pc : {"idle", "read", "marked"}, started : Nat]
    BY <1>11 DEF CancelStop
  <2>3. reg' \in BOOLEAN
    BY <1>11 DEF CancelStop
  <2> QED BY <1>11, <2>1, <2>2, <2>3 DEF CancelStop
<1>12. ASSUME NEW s \in Reports \cup {"running"}, PostMetrics(s)
       PROVE  TypeOK'
  <2>1. wire' \subseteq Wire
    <3>1. s \in Status /\ clock \in Nat
      BY <1>12, <1>s
    <3>2. Insert(Version(s, clock, clock, "api"))
      BY <1>12 DEF PostMetrics
    <3> QED BY <3>1, <3>2, InsertType
  <2>2. upset' \subseteq Upsets /\ Cardinality(upset') <= MaxUpsets
    BY <1>12, UpsetType DEF PostMetrics
  <2>3. said' \subseteq Terminal
    <3>1. said \subseteq Terminal
      OBVIOUS
    <3> HIDE DEF TypeOK
    <3> QED BY <1>12, <1>s, <3>1 DEF PostMetrics
  <2>4. UNCHANGED <<clock, run, row, maker, box, engine, reg, cancel, reap>>
    BY <1>12 DEF PostMetrics
  <2> QED BY <2>1, <2>2, <2>3, <2>4
<1>13. ASSUME NEW s \in Reports, ImportJTL(s) PROVE TypeOK'
  <2>1. wire' \subseteq Wire
    <3>1. s \in Status /\ clock \in Nat
      BY <1>13, <1>s
    <3>2. Insert(Version(s, clock, clock, "api"))
      BY <1>13 DEF ImportJTL
    <3> QED BY <3>1, <3>2, InsertType
  <2>2. upset' \subseteq Upsets /\ Cardinality(upset') <= MaxUpsets
    BY <1>13, UpsetType DEF ImportJTL
  <2>3. said' \subseteq Terminal
    <3>1. said \subseteq Terminal
      OBVIOUS
    <3> HIDE DEF TypeOK
    <3> QED BY <1>13, <1>s, <3>1 DEF ImportJTL
  <2>4. UNCHANGED <<clock, run, row, maker, box, engine, reg, cancel, reap>>
    BY <1>13 DEF ImportJTL
  <2> QED BY <2>1, <2>2, <2>3, <2>4
<1>14. CASE ReapRead
  <2>1. reap.due + ReapPeriod * ((clock - reap.due) \div ReapPeriod + 1) \in Nat
    <3>1. reap.due \in Nat /\ clock - reap.due \in Nat
      BY <1>14 DEF ReapRead
    <3>2. (clock - reap.due) \div ReapPeriod \in Nat
      BY <3>1
    <3> QED BY <3>1, <3>2
  <2>2. reap' \in Passes
    <3> DEFINE due == reap.due + ReapPeriod * ((clock - reap.due) \div ReapPeriod + 1)
    <3>1. \/ reap' = [reap EXCEPT !.due = due, !.pc = "seen", !.at = clock,
                                  !.started = row.started]
          \/ reap' = [reap EXCEPT !.due = due]
      BY <1>14 DEF ReapRead
    <3>2. reap \in Passes /\ clock \in Nat /\ row.started \in Nat
          /\ "seen" \in {"idle", "seen"}
      BY <1>r DEF Passes
    <3>3. due \in Nat
      BY <2>1
    <3> HIDE DEF due
    <3>4. [reap EXCEPT !.due = due] \in Passes
      BY <3>2, <3>3, DueType
    <3>5. [reap EXCEPT !.due = due, !.pc = "seen", !.at = clock, !.started = row.started]
             \in Passes
      BY <3>2, <3>3, ReapType
    <3> QED BY <3>1, <3>4, <3>5
  <2>3. upset' \subseteq Upsets /\ Cardinality(upset') <= MaxUpsets
    BY <1>14, UpsetType DEF ReapRead
  <2> QED BY <1>14, <2>2, <2>3 DEF ReapRead, Passes
<1>15. CASE ReapRun
  <2>1. PICK found \in SUBSET Workers :
            /\ Inspected(found)
            /\ LET verdict == ReapDecision(reap.at - reap.started,
                                           run.home = "orch" /\ reg, found)
               IN IF verdict[1] = "none"
                  THEN /\ reap' = [reap EXCEPT !.pc = "idle", !.at = 0, !.started = 0]
                       /\ UNCHANGED <<wire, said, reg>>
                  ELSE /\ reap' = [reap EXCEPT !.pc = "idle", !.at = 0, !.started = 0,
                                               !.by = verdict[2]]
                       /\ Insert(Version(verdict[1], reap.at, reap.started, "orch"))
                       /\ said' = said \cup {verdict[1]}
                       /\ reg' = (reg /\ run.home # "orch")
    BY <1>15 DEF ReapRun
  <2> DEFINE verdict == ReapDecision(reap.at - reap.started,
                                     run.home = "orch" /\ reg, found)
  <2>2. verdict \in {<<"none", "none">>, <<"error", "deadline">>,
                     <<"failed", "exit">>, <<"completed", "exit">>}
    BY DecisionType
  <2>3. upset' \subseteq Upsets /\ Cardinality(upset') <= MaxUpsets
    BY <2>1, UpsetType DEF Inspected
  <2>4. wire' \subseteq Wire
    <3>1. CASE verdict[1] = "none"
      BY <2>1, <3>1
    <3>2. CASE verdict[1] # "none"
      <4>1. verdict[1] \in Status
        BY <2>2, <3>2 DEF Status, Terminal
      <4> QED BY <2>1, <3>2, <4>1, InsertType
    <3> QED BY <3>1, <3>2
  <2>5. said' \subseteq Terminal
    BY <2>1, <2>2 DEF Terminal
  <2>6. reg' \in BOOLEAN
    BY <2>1
  <2>7. reap' \in Passes
    <3>1. verdict[2] \in {"none", "exit", "deadline"}
      BY <2>2
    <3>2. \/ reap' = [reap EXCEPT !.pc = "idle", !.at = 0, !.started = 0]
          \/ reap' = [reap EXCEPT !.pc = "idle", !.at = 0, !.started = 0,
                                  !.by = verdict[2]]
      BY <2>1
    <3>3. reap \in Passes /\ "idle" \in {"idle", "seen"} /\ 0 \in Nat
      BY DEF Passes
    <3> HIDE DEF verdict
    <3>4. [reap EXCEPT !.pc = "idle", !.at = 0, !.started = 0] \in Passes
      BY <3>3, ReapType
    <3>5. [reap EXCEPT !.pc = "idle", !.at = 0, !.started = 0, !.by = verdict[2]]
             \in Passes
      BY <3>1, <3>3, ReapType
    <3> QED BY <3>2, <3>4, <3>5
  <2> QED BY <1>15, <2>3, <2>4, <2>5, <2>6, <2>7 DEF ReapRun, Passes
<1>16. ASSUME NEW v \in wire, Land(v) \/ Drop(v) PROVE TypeOK'
  <2>1. CASE Land(v)
    <3>1. row' \in {NoRow} \cup [status : Status, fin : Nat, started : Nat]
      BY <2>1 DEF Land
    <3> QED BY <2>1, <3>1 DEF Land
  <2>2. CASE Drop(v)
    BY <2>2, UpsetType DEF Drop
  <2> QED BY <1>16, <2>1, <2>2
<1>17. ASSUME NEW p \in {"api", "orch"}, Crash(p) PROVE TypeOK'
  <2>1. upset' \subseteq Upsets /\ Cardinality(upset') <= MaxUpsets
    BY <1>17, UpsetType DEF Crash
  <2>2. maker' \in Maker
    BY <1>17 DEF Crash
  <2>3. engine' \in Engine
    BY <1>17 DEF Crash
  <2>4. reap' \in Passes
    <3>1. reap \in Passes /\ clock + ReapPeriod \in Nat
      BY DEF Passes
    <3>2. [reap EXCEPT !.pc = "idle", !.at = 0, !.started = 0,
                       !.due = clock + ReapPeriod] \in Passes
      BY <3>1, ReapType
    <3> QED BY <1>17, <3>1, <3>2 DEF Crash
  <2>5. cancel' \in [pc : {"idle", "read", "marked"}, started : Nat]
    BY <1>17 DEF Crash
  <2>6. wire' \subseteq Wire /\ reg' \in BOOLEAN
    BY <1>17 DEF Crash
  <2>7. UNCHANGED <<clock, run, row, box, said>>
    BY <1>17 DEF Crash
  <2> QED BY <2>1, <2>2, <2>3, <2>4, <2>5, <2>6, <2>7 DEF Passes
<1>18. CASE Advance
  BY <1>18 DEF Advance
<1>19. CASE UNCHANGED vars
  BY <1>19 DEF vars
<1> QED
  BY <1>1, <1>2, <1>3, <1>4, <1>5, <1>6, <1>7, <1>8, <1>9, <1>10, <1>11, <1>12,
     <1>13, <1>14, <1>15, <1>16, <1>17, <1>18, <1>19 DEF Next

\* Type correctness: every writer of the row leaves it, the registry and its own
\* progress in one of the states the others expect.
THEOREM TypeCorrect == Spec => []TypeOK
<1>1. Init => TypeInv
  <2>1. Init => engine.pc # "wrote"
    BY DEF Init
  <2> QED BY <2>1, TypeInit DEF TypeInv
<1>2. TypeInv /\ [Next]_vars => TypeInv'
  <2> SUFFICES ASSUME TypeInv, [Next]_vars, engine'.pc = "wrote"
               PROVE  engine'.status \in Verdicts
    BY TypeStep DEF TypeInv
  <2>1. CASE engine' = engine
    BY <2>1 DEF TypeInv
  <2>2. CASE engine' # engine
    <3> USE <2>2 DEF TypeInv, TypeOK
    <3>1. CASE Started \/ StartNode \/ EngineNotify \/ EngineClear
      BY <3>1 DEF Started, StartNode, EngineNotify, EngineClear
    <3>2. CASE EngineWrite
      BY <3>2 DEF EngineWrite
    <3>3. CASE NodeReport
      BY <3>3 DEF NodeReport
    <3>4. ASSUME NEW p \in {"api", "orch"}, Crash(p) PROVE engine'.status \in Verdicts
      BY <3>4 DEF Crash
    <3> QED
      BY <3>1, <3>2, <3>3, <3>4
      DEF Next, vars, Create, Refuse, Register, FixRow, StartWorker, BoxExit, BoxRemove,
          CancelRead, CancelMark, CancelStop, PostMetrics, ImportJTL, ReapRead, ReapRun,
          Land, Drop, Advance
  <2> QED BY <2>1, <2>2
<1>3. TypeInv => TypeOK
  BY DEF TypeInv
<1> QED BY <1>1, <1>2, <1>3, PTL DEF Spec

-----------------------------------------------------------------------------
(* Announcing. *)

\* An engine starts with the dispatch.
EngineAfterDispatch ==
    maker.pc \in {"new", "start", "refused"} => engine.pc = "none"

LEMMA DispatchFirst == Spec => []EngineAfterDispatch
<1>1. Init => EngineAfterDispatch
  BY DEF Init, EngineAfterDispatch
<1>2. EngineAfterDispatch /\ TypeOK /\ [Next]_vars => EngineAfterDispatch'
  <2> SUFFICES ASSUME EngineAfterDispatch, TypeOK, [Next]_vars
               PROVE  EngineAfterDispatch'
    OBVIOUS
  <2> USE DEF EngineAfterDispatch, TypeOK
  <2>1. CASE Create \/ Refuse \/ Started \/ StartNode \/ Register \/ FixRow
    BY <2>1 DEF Create, Refuse, Started, StartNode, Register, FixRow
  <2>2. CASE EngineWrite \/ EngineNotify \/ EngineClear \/ NodeReport
    BY <2>2 DEF EngineWrite, EngineNotify, EngineClear, NodeReport
  <2>3. ASSUME NEW p \in {"api", "orch"}, Crash(p) PROVE EngineAfterDispatch'
    BY <2>3 DEF Crash
  <2>4. CASE UNCHANGED <<maker, engine>>
    BY <2>4
  <2> QED
    BY <2>1, <2>2, <2>3, <2>4
    DEF Next, vars, StartWorker, BoxExit, BoxRemove, CancelRead, CancelMark, CancelStop,
        PostMetrics, ImportJTL, ReapRead, ReapRun, Land, Drop, Advance
<1> QED BY <1>1, <1>2, TypeCorrect, PTL DEF Spec

\* A terminal version is announced by the step that writes it, but for that of
\* the engine goroutine, which announces it next.
Announced(status) ==
    \/ status \in said
    \/ engine.pc = "wrote" /\ engine.status = status

AnnouncedInv ==
    upset \cap {"api", "orch"} = {} =>
        \A v \in wire \cup {row} : v.status \in Terminal => Announced(v.status)

LEMMA InsertAnnounced ==
    ASSUME AnnouncedInv, NEW s, NEW f, NEW t, NEW p,
           wire' = wire \/ Insert(Version(s, f, t, p)),
           row' = row, upset \subseteq upset', said \subseteq said',
           engine' = engine \/ engine.pc # "wrote",
           s \in Terminal => Announced(s)'
    PROVE  AnnouncedInv'
BY DEF AnnouncedInv, Announced, Insert, Version

\* docs/perf-lab.md, every terminal run is notified: when all who write the row
\* have finished and no process died, a terminal row has been handed to
\* notifyRunTerminal.
THEOREM TerminalAnnounced == Spec => []TerminalIsAnnounced
<1>1. Init => AnnouncedInv
  BY DEF Init, AnnouncedInv, NoRow, Terminal
<1>2. AnnouncedInv /\ EngineAfterDispatch /\ [Next]_vars => AnnouncedInv'
  <2> SUFFICES ASSUME AnnouncedInv, EngineAfterDispatch, [Next]_vars
               PROVE  AnnouncedInv'
    OBVIOUS
  <2>1. CASE Create
    BY <2>1, InsertAnnounced DEF Create, Terminal
  <2>2. CASE FixRow
    BY <2>2, InsertAnnounced DEF FixRow, Terminal, Announced
  <2>3. CASE EngineWrite
    BY <2>3, InsertAnnounced DEF EngineWrite, Announced
  <2>4. CASE EngineNotify
    BY <2>4 DEF EngineNotify, AnnouncedInv, Announced
  <2>5. CASE NodeReport
    <3>1. CASE UNCHANGED <<wire, said>>
      BY <2>5, <3>1 DEF NodeReport, AnnouncedInv, Announced
    <3>2. ASSUME NEW v \in Verdicts, Insert(Version(v, clock, clock, "api")),
                 said' = said \cup {v}
          PROVE  AnnouncedInv'
      <4>1. Announced(v)'
        BY <3>2 DEF Announced
      <4> QED BY <2>5, <3>2, <4>1, InsertAnnounced DEF NodeReport
    <3> QED BY <2>5, <3>1, <3>2 DEF NodeReport
  <2>6. CASE CancelMark
    BY <2>6, InsertAnnounced DEF CancelMark, Announced
  <2>7. ASSUME NEW s \in Reports \cup {"running"}, PostMetrics(s) PROVE AnnouncedInv'
    BY <2>7, InsertAnnounced DEF PostMetrics, Announced, Upset
  <2>8. ASSUME NEW s \in Reports, ImportJTL(s) PROVE AnnouncedInv'
    BY <2>8, InsertAnnounced DEF ImportJTL, Announced, Upset
  <2>9. CASE ReapRun
    <3>1. UNCHANGED <<row, engine>> /\ upset \subseteq upset'
      BY <2>9 DEF ReapRun, Inspected, Upset
    <3>2. CASE UNCHANGED <<wire, said>>
      BY <3>1, <3>2 DEF AnnouncedInv, Announced
    <3>3. ASSUME NEW s, Insert(Version(s, reap.at, reap.started, "orch")), said' = said \cup {s}
          PROVE  AnnouncedInv'
      <4>1. Announced(s)'
        BY <3>3 DEF Announced
      <4> QED BY <3>1, <3>3, <4>1, InsertAnnounced
    <3> QED BY <2>9, <3>2, <3>3 DEF ReapRun
  <2>10. ASSUME NEW v \in wire, Land(v) PROVE AnnouncedInv'
    BY <2>10 DEF Land, AnnouncedInv, Announced
  <2>11. ASSUME NEW v \in wire, Drop(v) PROVE AnnouncedInv'
    BY <2>11 DEF Drop, Upset, AnnouncedInv, Announced
  <2>12. ASSUME NEW p \in {"api", "orch"}, Crash(p) PROVE AnnouncedInv'
    BY <2>12 DEF Crash, Upset, AnnouncedInv
  <2>13. CASE Started \/ StartNode \/ EngineClear
    BY <2>13
    DEF Started, StartNode, EngineClear, AnnouncedInv, Announced, EngineAfterDispatch
  <2>14. CASE \/ Refuse \/ Register \/ CancelRead \/ CancelStop \/ ReapRead \/ Advance
              \/ \E w \in Workers : StartWorker(w) \/ BoxExit(w) \/ BoxRemove(w)
              \/ UNCHANGED vars
    BY <2>14 DEF Refuse, Register, CancelRead, CancelStop, ReapRead, Advance, StartWorker,
                 BoxExit, BoxRemove, vars, Upset, AnnouncedInv, Announced
  <2> QED
    BY <2>1, <2>2, <2>3, <2>4, <2>5, <2>6, <2>7, <2>8, <2>9, <2>10, <2>11, <2>12,
       <2>13, <2>14 DEF Next
<1>3. AnnouncedInv => TerminalIsAnnounced
  BY DEF AnnouncedInv, TerminalIsAnnounced, AtRest, Announced
<1> QED BY <1>1, <1>2, <1>3, DispatchFirst, PTL DEF Spec

-----------------------------------------------------------------------------
(* Closing on exit codes. *)

\* reapDecision, "all engine containers exited": the reaper closes a run on exit
\* codes only when no container of it runs, as long as each can be inspected.
THEOREM ExitCloseJustified == Spec => ExitCloseMeansExited
<1> DEFINE Justified == /\ reap.pc = "seen" /\ reap'.pc = "idle" /\ reap'.by = "exit"
                        /\ ~(wire' \subseteq wire) /\ "blind" \notin upset'
                        => Running = {}
<1>1. ASSUME TypeOK, [Next]_vars PROVE Justified \/ UNCHANGED vars
  <2>1. CASE ReapRun
    <3> SUFFICES ASSUME ~(wire' \subseteq wire), reap'.by = "exit", "blind" \notin upset'
                 PROVE  Running = {}
      OBVIOUS
    <3>1. PICK found \in SUBSET Workers :
              LET verdict == ReapDecision(reap.at - reap.started,
                                          run.home = "orch" /\ reg, found)
              IN /\ Inspected(found)
                 /\ verdict[1] # "none"
                 /\ reap' = [reap EXCEPT !.pc = "idle", !.at = 0, !.started = 0,
                                         !.by = verdict[2]]
      BY <2>1 DEF ReapRun
    <3>2. found = Seen
      BY <3>1 DEF Inspected, Upset
    <3> DEFINE verdict == ReapDecision(reap.at - reap.started,
                                       run.home = "orch" /\ reg, found)
    <3>3. verdict[2] = "exit"
      BY <3>1 DEF TypeOK
    <3>4. found \cap Running = {}
      BY <3>3 DEF ReapDecision
    <3> QED BY <3>2, <3>4 DEF Seen, Running
  <2>2. ASSUME NEW p \in {"api", "orch"}, Crash(p) PROVE Justified
    BY <2>2 DEF Crash
  <2>3. CASE ~ReapRun /\ ~(\E p \in {"api", "orch"} : Crash(p))
    <3>1. reap' = reap \/ ReapRead
      BY <1>1, <2>3
      DEF Next, vars, Create, Refuse, Started, StartNode, Register, FixRow, StartWorker,
          BoxExit, BoxRemove, EngineWrite, EngineNotify, EngineClear, NodeReport,
          CancelRead, CancelMark, CancelStop, PostMetrics, ImportJTL, Land, Drop, Advance
    <3> QED BY <3>1 DEF ReapRead
  <2> QED BY <2>1, <2>2, <2>3
<1>2. TypeOK /\ [Next]_vars => [Justified]_vars
  BY <1>1
<1> QED BY <1>2, TypeCorrect, PTL DEF Spec, ExitCloseMeansExited

-----------------------------------------------------------------------------
(* The last word on a run. *)

\* The verdict of an engine or Node runner has been handed over, and stamped
\* later than whatever its maker wrote.
Ended == engine.pc \in {"wrote", "said", "done"}

EndedLate == Ended /\ maker.last < engine.fin

Undisturbed == upset \cap {"drop", "cancel", "report", "heartbeat", run.home} = {}

Punctual ==
    /\ maker.born <= clock /\ maker.last <= clock
    /\ maker.pc \in {"start", "refused", "started", "fix"} => maker.last = maker.born
    /\ \A v \in wire : v.sent <= clock /\ clock <= v.sent + WriteLag
    /\ \A v \in wire \cup {row} : v.fin <= clock
    /\ reap.pc = "seen" => reap.at <= clock

\* While nobody else closes the run: "running" is written by the maker alone,
\* the version of the engine lands, and no version is stamped later than that,
\* for the reaper then finds the run closed.
LastWord ==
    /\ cancel.pc = "idle"
    /\ run.path = "create" \/ engine.pc = "node" => run.home = "api"
    /\ \A v \in wire \cup {row} : v.status = "running" => v.fin <= maker.last
    /\ Ended =>
        /\ engine.fin <= clock
        /\ \/ \E v \in wire : /\ v.fin = engine.fin /\ v.sent = engine.fin
                              /\ v.from = run.home
           \/ engine.fin <= row.fin
    /\ EndedLate =>
        /\ \A v \in wire \cup {row} : v.fin <= engine.fin + WriteLag
        /\ reap.pc = "seen" => reap.at <= engine.fin + WriteLag

\* The reaper writes with the time of its pass, or leaves the run alone.
LEMMA ReapRunShape ==
    ASSUME TypeOK, ReapRun
    PROVE  /\ reap.pc = "seen" /\ reap'.pc = "idle"
           /\ \/ UNCHANGED wire
              \/ \E s \in Terminal : Insert(Version(s, reap.at, reap.started, "orch"))
<1>1. PICK found \in SUBSET Workers :
          LET verdict == ReapDecision(reap.at - reap.started,
                                      run.home = "orch" /\ reg, found)
          IN /\ IF verdict[1] = "none"
                THEN UNCHANGED wire
                ELSE Insert(Version(verdict[1], reap.at, reap.started, "orch"))
             /\ \/ reap' = [reap EXCEPT !.pc = "idle", !.at = 0, !.started = 0]
                \/ reap' = [reap EXCEPT !.pc = "idle", !.at = 0, !.started = 0,
                                        !.by = verdict[2]]
  BY DEF ReapRun
<1> DEFINE verdict == ReapDecision(reap.at - reap.started,
                                   run.home = "orch" /\ reg, found)
<1>2. verdict[1] = "none" \/ verdict[1] \in Terminal
  BY DecisionType DEF Terminal
<1>3. reap'.pc = "idle"
  <2> HIDE DEF verdict
  <2> QED BY <1>1 DEF TypeOK, verdict
<1> QED BY <1>1, <1>2, <1>3 DEF ReapRun

\* A pass that begins takes the time, and a crash ends it.
LEMMA ReapPasses ==
    ASSUME TypeOK, ReapRead \/ (\E p \in {"api", "orch"} : Crash(p)), reap'.pc = "seen"
    PROVE  \/ reap' = reap
           \/ ReapRead /\ reap'.at = clock /\ row.status = "running"
<1>1. reap \in Passes /\ reap.pc \in {"idle", "seen"}
  BY DEF TypeOK, Passes
<1>2. CASE ReapRead
  <2> DEFINE due == reap.due + ReapPeriod * ((clock - reap.due) \div ReapPeriod + 1)
  <2>1. /\ reap.pc = "idle"
        /\ \/ /\ row.status = "running"
              /\ reap' = [reap EXCEPT !.due = due, !.pc = "seen", !.at = clock,
                                      !.started = row.started]
           \/ reap' = [reap EXCEPT !.due = due]
    BY <1>2 DEF ReapRead
  <2> HIDE DEF due
  <2> QED BY <1>1, <1>2, <2>1 DEF Passes
<1>3. ASSUME NEW p \in {"api", "orch"}, Crash(p) PROVE reap' = reap
  <2> DEFINE due == clock + ReapPeriod
  <2>1. \/ reap' = reap
        \/ reap' = [reap EXCEPT !.pc = "idle", !.at = 0, !.started = 0, !.due = due]
    BY <1>3 DEF Crash
  <2> HIDE DEF due
  <2> QED BY <1>1, <2>1 DEF Passes
<1> QED BY <1>2, <1>3

LEMMA PunctualStep ==
    ASSUME TypeOK, Punctual, [Next]_vars
    PROVE  Punctual'
<1> USE DEF TypeOK, Punctual
<1>c. clock \in Nat /\ WriteLag \in Nat
  OBVIOUS
<1>1. CASE Create
  <2>1. maker' = [pc |-> maker'.pc, born |-> clock, last |-> clock]
    BY <1>1 DEF Create
  <2> QED BY <1>1, <1>c, <2>1 DEF Create, Insert, Version
<1>2. CASE \/ EngineWrite \/ NodeReport \/ CancelMark
           \/ \E s \in Reports \cup {"running"} : PostMetrics(s)
           \/ \E s \in Reports : ImportJTL(s)
  <2>1. \/ UNCHANGED wire
        \/ \E status, started, from : wire' = wire \cup {Version(status, clock, started, from)}
    <3> HIDE DEF TypeOK, Punctual
    <3>1. CASE EngineWrite
      BY <3>1 DEF EngineWrite, Insert
    <3>2. CASE NodeReport
      BY <3>2 DEF NodeReport, Insert
    <3>3. CASE CancelMark
      BY <3>3 DEF CancelMark, Insert
    <3>4. CASE \/ \E s \in Reports \cup {"running"} : PostMetrics(s)
               \/ \E s \in Reports : ImportJTL(s)
      BY <3>4 DEF PostMetrics, ImportJTL, Insert
    <3> QED BY <1>2, <3>1, <3>2, <3>3, <3>4
  <2>2. UNCHANGED <<clock, row, maker, reap>>
    BY <1>2 DEF EngineWrite, NodeReport, CancelMark, PostMetrics, ImportJTL
  <2> QED BY <1>c, <2>1, <2>2 DEF Version
<1>3. CASE FixRow
  <2> DEFINE fin == IF run.path = "create" THEN clock ELSE maker.born
  <2>1. /\ maker' = [maker EXCEPT !.pc = "done", !.last = fin]
        /\ UNCHANGED <<clock, row, reap>>
        /\ UNCHANGED wire \/ \E s : wire' = wire \cup {Version(s, fin, maker.born, run.home)}
    BY <1>3 DEF FixRow, Insert
  <2>2. fin \in Nat /\ fin <= clock
    BY <1>c
  <2> HIDE DEF fin
  <2> QED BY <1>c, <2>1, <2>2 DEF Version
<1>4. CASE Refuse \/ Started \/ StartNode \/ Register
  <2>1. /\ \E pc : maker' = [maker EXCEPT !.pc = pc]
        /\ maker.pc \in {"start", "refused", "started"}
        /\ UNCHANGED <<clock, row, wire, reap>>
    BY <1>4 DEF Refuse, Started, StartNode, Register
  <2> QED BY <1>c, <2>1
<1>5. CASE ReapRun
  <2>1. reap.at <= clock /\ UNCHANGED <<clock, row, maker>>
    BY <1>5 DEF ReapRun
  <2> QED BY <1>5, <1>c, <2>1, ReapRunShape DEF Insert, Version
<1>6. CASE ReapRead
  <2>1. UNCHANGED <<clock, wire, row, maker>>
    BY <1>6 DEF ReapRead
  <2>2. reap'.pc = "seen" => reap' = reap \/ reap'.at = clock
    <3> HIDE DEF TypeOK, Punctual
    <3> QED BY <1>6, ReapPasses
  <2> QED BY <1>c, <2>1, <2>2
<1>7. ASSUME NEW p \in {"api", "orch"}, Crash(p) PROVE Punctual'
  <2>1. UNCHANGED <<clock, row>> /\ wire' \subseteq wire
    BY <1>7 DEF Crash
  <2>2. \/ maker' = maker
        \/ maker' = [maker EXCEPT !.pc = maker'.pc] /\ maker'.pc \in {"done", "dead"}
    BY <1>7 DEF Crash
  <2>3. reap'.pc = "seen" => reap' = reap
    <3> HIDE DEF TypeOK, Punctual
    <3>1. ~ReapRead
      BY <1>7 DEF Crash, ReapRead, TypeOK, Upset
    <3> QED BY <1>7, <3>1, ReapPasses
  <2> QED BY <1>c, <2>1, <2>2, <2>3
<1>8. ASSUME NEW v \in wire, Land(v) \/ Drop(v) PROVE Punctual'
  BY <1>8, <1>c DEF Land, Drop
<1>9. CASE Advance
  BY <1>9, <1>c DEF Advance, NoRow
<1>10. CASE UNCHANGED <<clock, wire, row, maker, reap>>
  BY <1>10
<1> QED
  BY <1>1, <1>2, <1>3, <1>4, <1>5, <1>6, <1>7, <1>8, <1>9, <1>10
  DEF Next, vars, StartWorker, BoxExit, BoxRemove, EngineNotify, EngineClear, CancelRead,
      CancelStop

\* An engine hands over its verdict.
LEMMA EndStep ==
    ASSUME TypeOK, Punctual, LastWord, NEW v, v # "running",
           Insert(Version(v, clock, clock, run.home)),
           engine'.pc \notin {"wait", "node"}, engine'.fin = clock,
           UNCHANGED <<clock, run, row, maker, cancel, reap>>
    PROVE  LastWord'
<1>1. clock \in Nat /\ WriteLag \in Nat /\ row.fin \in Nat /\ reap.at \in Nat
      /\ \A w \in wire : w.fin \in Nat
  BY DEF TypeOK, NoRow
<1> DEFINE u == Version(v, clock, clock, run.home)
<1>2. /\ wire' = wire \cup {u} /\ u.status = v /\ u.fin = clock /\ u.sent = clock
      /\ u.from = run.home
  BY DEF Insert, Version
<1> HIDE DEF u
<1>3. \A w \in wire' \cup {row'} : w.fin <= clock /\ w.fin \in Nat
  BY <1>1, <1>2 DEF Punctual
<1>4. \A w \in wire' \cup {row'} : w.status = "running" => w.fin <= maker'.last
  BY <1>2 DEF LastWord
<1>5. \A w \in wire' \cup {row'} : w.fin <= clock + WriteLag
  BY <1>1, <1>3
<1>6. reap'.pc = "seen" => reap'.at <= clock + WriteLag
  BY <1>1 DEF Punctual
<1>7. \E w \in wire' : w.fin = engine'.fin /\ w.sent = engine'.fin /\ w.from = run'.home
  BY <1>2
<1>8. cancel'.pc = "idle" /\ (run'.path = "create" \/ engine'.pc = "node" => run'.home = "api")
  BY DEF LastWord
<1> QED BY <1>1, <1>4, <1>5, <1>6, <1>7, <1>8 DEF LastWord, EndedLate

LEMMA LastWordStep ==
    ASSUME TypeOK, EngineAfterDispatch, Punctual, Undisturbed => LastWord, [Next]_vars,
           Undisturbed'
    PROVE  LastWord'
<1>c. clock \in Nat /\ {maker.born, maker.last, engine.fin, row.fin, reap.at} \subseteq Nat
      /\ WriteLag \in Nat /\ \A v \in wire : v.fin \in Nat /\ v.sent \in Nat
  BY DEF TypeOK, NoRow
<1>r. UNCHANGED run /\ upset \subseteq upset'
  BY DEF Next, vars, Create, Refuse, Started, StartNode, Register, FixRow,
         StartWorker, BoxExit, BoxRemove, EngineWrite, EngineNotify, EngineClear,
         NodeReport, CancelRead, CancelMark, CancelStop, PostMetrics, ImportJTL, ReapRead,
         ReapRun, Inspected, Land, Drop, Crash, Advance, Upset
<1>l. LastWord
  BY <1>r DEF Undisturbed
<1>1. CASE Create
  <2>1. /\ maker' = [pc |-> maker'.pc, born |-> clock, last |-> clock]
        /\ engine.pc = "none" /\ UNCHANGED <<clock, row, engine, cancel, reap>>
        /\ \E s : Insert(Version(s, clock, clock, run.home))
    BY <1>1 DEF Create, EngineAfterDispatch
  <2>2. ~Ended' /\ engine'.pc # "node"
    BY <2>1 DEF Ended
  <2>3. \A v \in wire' \cup {row'} : v.fin <= maker'.last
    BY <1>c, <2>1 DEF Insert, Version, Punctual
  <2>4. cancel'.pc = "idle" /\ (run'.path = "create" => run'.home = "api")
    BY <1>l, <1>r, <2>1 DEF LastWord
  <2> QED BY <2>2, <2>3, <2>4 DEF LastWord, EndedLate
<1>2. CASE Refuse \/ Register \/ EngineNotify \/ EngineClear
  <2>1. /\ maker'.last = maker.last /\ engine'.fin = engine.fin /\ (Ended <=> Ended')
        /\ UNCHANGED <<clock, row, wire, cancel, reap>>
        /\ engine'.pc = "node" <=> engine.pc = "node"
    BY <1>2 DEF Refuse, Register, EngineNotify, EngineClear, Ended, TypeOK
  <2> QED BY <1>l, <1>r, <2>1 DEF LastWord, EndedLate
<1>3. CASE Started \/ StartNode
  <2>1. /\ maker'.last = maker.last /\ ~Ended'
        /\ UNCHANGED <<clock, row, wire, cancel, reap>>
        /\ engine'.pc = "node" => run.path = "create"
    BY <1>3 DEF Started, StartNode, Ended, TypeOK
  <2> QED BY <1>l, <1>r, <2>1 DEF LastWord, EndedLate
<1>4. CASE FixRow
  <2> DEFINE fin == IF run.path = "create" THEN clock ELSE maker.born
  <2>1. /\ maker'.last = fin /\ UNCHANGED <<clock, row, engine, cancel, reap>>
        /\ UNCHANGED wire \/ \E s : wire' = wire \cup {Version(s, fin, maker.born, run.home)}
        /\ UNCHANGED wire \/ run.path = "create" \/ engine.pc = "none"
        /\ maker.pc \in {"refused", "fix"}
    BY <1>4 DEF FixRow, Insert, EngineAfterDispatch, TypeOK
  <2>2. fin \in Nat /\ maker.last <= fin /\ (run.path # "create" => fin = maker.last)
        /\ (run.path = "create" => fin = clock)
    BY <1>c, <2>1 DEF Punctual
  <2> HIDE DEF fin
  <2>3. wire \subseteq wire' /\ \A v \in wire' : v \in wire \/ v.fin = fin
    BY <2>1 DEF Version
  <2>4. \A v \in wire' \cup {row'} : v.status = "running" => v.fin <= maker'.last
    BY <1>c, <1>l, <2>1, <2>2, <2>3 DEF LastWord
  <2>5. EndedLate' => EndedLate /\ UNCHANGED wire
    <3> SUFFICES ASSUME EndedLate' PROVE EndedLate /\ UNCHANGED wire
      OBVIOUS
    <3>1. Ended /\ fin < engine.fin /\ engine.fin <= clock
      BY <1>l, <2>1 DEF EndedLate, Ended, LastWord
    <3>2. run.path # "create"
      BY <1>c, <2>2, <3>1
    <3> QED BY <1>c, <2>1, <2>2, <3>1, <3>2 DEF EndedLate, Ended
  <2> QED BY <1>l, <1>r, <2>1, <2>3, <2>4, <2>5 DEF LastWord, Ended
<1>5. CASE EngineWrite
  <2>1. PICK v \in Verdicts : /\ engine' = [pc |-> "wrote", status |-> v, fin |-> clock]
                             /\ Insert(Version(v, clock, clock, run.home))
    BY <1>5 DEF EngineWrite
  <2>2. UNCHANGED <<clock, run, row, maker, cancel, reap>> /\ v # "running"
    BY <1>5 DEF EngineWrite
  <2> QED BY <1>l, <2>1, <2>2, EndStep
<1>6. CASE NodeReport
  <2>1. UNCHANGED <<clock, run, row, maker, cancel, reap>> /\ run.home = "api"
    BY <1>6, <1>l DEF NodeReport, LastWord
  <2>2. CASE engine' = [engine EXCEPT !.pc = "dead"] /\ UNCHANGED wire
    <3>1. engine'.pc = "dead"
      BY <2>2 DEF TypeOK
    <3> QED BY <1>l, <2>1, <2>2, <3>1 DEF LastWord, Ended, EndedLate
  <2>3. ASSUME NEW v \in Verdicts, Insert(Version(v, clock, clock, "api")),
               engine' = [pc |-> "done", status |-> v, fin |-> clock]
        PROVE  LastWord'
    <3>1. v # "running"
      BY <2>3
    <3> QED BY <1>l, <2>1, <2>3, <3>1, EndStep
  <2> QED BY <1>6, <2>2, <2>3 DEF NodeReport
<1>7. CASE CancelRead \/ CancelMark \/ CancelStop
  BY <1>7, <1>l DEF CancelRead, CancelMark, CancelStop, LastWord, Upset, Undisturbed
<1>8. ASSUME NEW s, PostMetrics(s) \/ ImportJTL(s) PROVE LastWord'
  BY <1>8 DEF PostMetrics, ImportJTL, Upset, Undisturbed
<1>9. CASE ReapRead
  <2>1. UNCHANGED <<clock, row, wire, maker, engine, cancel>>
    BY <1>9 DEF ReapRead
  <2>2. EndedLate /\ reap'.pc = "seen" => reap'.at <= engine.fin + WriteLag
    <3> SUFFICES ASSUME EndedLate, reap'.pc = "seen"
                 PROVE  reap'.at <= engine.fin + WriteLag
      OBVIOUS
    <3>1. reap' = reap \/ (reap'.at = clock /\ row.status = "running")
      BY <1>9, ReapPasses
    <3>2. row.status = "running" => clock <= engine.fin + WriteLag
      BY <1>c, <1>l DEF EndedLate, LastWord, Punctual
    <3> QED BY <1>l, <3>1, <3>2 DEF LastWord
  <2> QED BY <1>l, <1>r, <2>1, <2>2 DEF LastWord, Ended, EndedLate
<1>10. CASE ReapRun
  <2>1. UNCHANGED <<clock, row, maker, engine, cancel>>
    BY <1>10 DEF ReapRun
  <2>2. CASE UNCHANGED wire
    BY <1>10, <1>l, <1>r, <2>1, <2>2, ReapRunShape DEF LastWord, Ended, EndedLate
  <2>3. ASSUME NEW s \in Terminal, Insert(Version(s, reap.at, reap.started, "orch"))
        PROVE  LastWord'
    <3>1. s # "running"
      BY <2>3 DEF Terminal
    <3>2. EndedLate => reap.at <= engine.fin + WriteLag
      BY <1>10, <1>l DEF ReapRun, LastWord
    <3> QED BY <1>10, <1>l, <1>r, <2>1, <2>3, <3>1, <3>2, ReapRunShape
            DEF Insert, Version, LastWord, Ended, EndedLate
  <2> QED BY <1>10, <2>2, <2>3, ReapRunShape
<1>11. ASSUME NEW v \in wire, Land(v) PROVE LastWord'
  <2>1. UNCHANGED <<clock, maker, engine, cancel, reap>>
    BY <1>11 DEF Land
  <2>2. wire' \in {wire, wire \ {v}}
        /\ \/ row' = row /\ v.fin < row.fin
           \/ row' = [status |-> v.status, fin |-> v.fin, started |-> v.started]
              /\ row.fin <= v.fin
    BY <1>11, <1>c DEF Land
  <2> QED BY <1>c, <1>l, <1>r, <2>1, <2>2 DEF LastWord, Ended, EndedLate
<1>12. ASSUME NEW v \in wire, Drop(v) PROVE LastWord'
  BY <1>12 DEF Drop, Upset, Undisturbed
<1>13. ASSUME NEW p \in {"api", "orch"}, Crash(p) PROVE LastWord'
  <2>1. p # run.home
    BY <1>13, <1>r DEF Crash, Upset, Undisturbed
  <2>2. /\ UNCHANGED <<clock, row, maker, engine>> /\ cancel'.pc = "idle"
        /\ wire' \subseteq wire /\ \A v \in wire : v.from # p => v \in wire'
    <3>1. cancel'.pc = "idle"
      BY <1>13, <1>l DEF Crash, LastWord, TypeOK
    <3>2. UNCHANGED <<clock, row, maker, engine>>
      BY <1>13, <2>1 DEF Crash
    <3>3. wire' \subseteq wire /\ \A v \in wire : v.from # p => v \in wire'
      BY <1>13 DEF Crash
    <3> QED BY <3>1, <3>2, <3>3
  <2>3. reap'.pc = "seen" => reap' = reap
    <3>1. ~ReapRead
      BY <1>13 DEF Crash, ReapRead, TypeOK, Upset
    <3> QED BY <1>13, <3>1, ReapPasses
  <2> QED BY <1>l, <1>r, <2>1, <2>2, <2>3 DEF LastWord, Ended, EndedLate
<1>14. CASE Advance
  BY <1>14, <1>c, <1>l DEF Advance, LastWord, Ended, EndedLate
<1>15. CASE UNCHANGED <<clock, run, row, wire, maker, engine, cancel, reap>>
  BY <1>15, <1>l DEF LastWord, Ended, EndedLate
<1> QED
  BY <1>1, <1>2, <1>3, <1>4, <1>5, <1>6, <1>7, <1>8, <1>9, <1>10, <1>11, <1>12,
     <1>13, <1>14, <1>15 DEF Next, vars, StartWorker, BoxExit, BoxRemove

\* reapFinishedRuns closes runs stuck in running: of a run that nobody cancels or
\* reports on, whose rows are not given up and whose process lives, the last version
\* is that of the engine that outlived its dispatch, or one that was stamped before
\* the engine's could land.
THEOREM VerdictStands == Spec => []EngineVerdictStands
<1> DEFINE Inv == Punctual /\ (Undisturbed => LastWord)
<1>1. Init => Inv
  <2> SUFFICES ASSUME Init PROVE Inv
    OBVIOUS
  <2>1. run.path = "create" => run.home = "api"
    BY DEF Init
  <2> QED BY <2>1 DEF Init, Punctual, LastWord, Ended, EndedLate, NoRow
<1>2. TypeOK /\ EngineAfterDispatch /\ Inv /\ [Next]_vars => Inv'
  BY PunctualStep, LastWordStep
<1>3. TypeOK /\ Inv => EngineVerdictStands
  <2> SUFFICES ASSUME TypeOK, Inv, AtRest, engine.pc = "done", engine.fin > maker.last,
                      Undisturbed
               PROVE  row.fin \in engine.fin..engine.fin + WriteLag
    BY DEF EngineVerdictStands, Undisturbed
  <2>1. row.fin \in Nat /\ engine.fin \in Nat /\ maker.last \in Nat /\ WriteLag \in Nat
    BY DEF TypeOK, NoRow
  <2>2. Ended /\ EndedLate
    BY <2>1 DEF Ended, EndedLate
  <2>3. wire = {} /\ engine.fin <= row.fin /\ row.fin <= engine.fin + WriteLag
    BY <2>2 DEF AtRest, LastWord
  <2> QED BY <2>1, <2>3
<1> QED BY <1>1, <1>2, <1>3, TypeCorrect, DispatchFirst, PTL DEF Spec

-----------------------------------------------------------------------------
(* Closing in time. *)

\* A dispatch and its rows are over before the deadline, which is no earlier than
\* the grace; and a pass of the reaper ends before the next one.
ShortStart == StartLag + WriteLag < MaxRun /\ Grace <= MaxRun /\ InspectLag <= ReapPeriod

\* Everything happens when it is to.
OnTime ==
    /\ maker.pc = "new" => row = NoRow /\ wire = {} /\ reap.pc = "idle" /\ cancel.pc = "idle"
    /\ maker.pc # "new" => maker.born <= clock
    /\ maker.pc \in {"start", "refused", "started", "fix"} => clock <= maker.born + StartLag
    /\ reap.pc = "idle" => clock <= reap.due /\ reap.due <= clock + ReapPeriod
    /\ reap.pc = "seen" => /\ reap.due = reap.at + ReapPeriod
                           /\ reap.at <= clock /\ clock <= reap.at + InspectLag
    /\ \A v \in wire : v.fin <= v.sent /\ v.sent <= clock /\ clock <= v.sent + WriteLag

\* "running" is written by the maker alone.
ByMaker ==
    "heartbeat" \notin upset =>
        /\ \A v \in wire \cup {row} : v.status = "running" =>
              v.started = maker.born /\ v.fin <= maker.born + StartLag
        /\ \A v \in wire : v.status = "running" => v.sent <= maker.born + StartLag
        /\ reap.pc = "seen" => reap.started = maker.born

\* A round of the reaper: the ticker, a pass, the landing of its row.  A crash of
\* its process, a failed query and a lost row cost one each.
Round == ReapPeriod + InspectLag + WriteLag

Lost(u) == IF u \in upset THEN Round ELSE 0

\* The last pass that may find the run running.
LastPass == maker.born + MaxRun - 1 + ReapPeriod
              + (Lost("orch") + (Lost("drop") + Lost("noquery")))

\* The pass in progress, or else the next one.
NextPass == IF reap.pc = "idle" THEN reap.due ELSE reap.at

Closer(v) == /\ v.status \in Terminal /\ v.from = "orch"
             /\ maker.born + MaxRun <= v.fin
             /\ v.sent <= LastPass + InspectLag

Closing == NextPass <= LastPass \/ \E v \in wire : Closer(v)

InTime == "heartbeat" \notin upset /\ row.status = "running" => Closing

\* A pass starts when the ticker fires.
LEMMA ReapReadShape ==
    ASSUME TypeOK, ReapRead, clock <= reap.due
    PROVE  /\ reap.pc = "idle" /\ reap.due = clock /\ reap'.due = clock + ReapPeriod
           /\ reap'.pc = "seen" => /\ row.status = "running" /\ UNCHANGED upset
                                   /\ reap'.at = clock /\ reap'.started = row.started
           /\ reap'.pc = "idle" =>
                \/ row.status # "running" /\ UNCHANGED upset
                \/ "noquery" \notin upset /\ upset' = upset \cup {"noquery"}
           /\ reap'.pc \in {"idle", "seen"}
<1>1. clock \in Nat /\ reap.due \in Nat /\ ReapPeriod \in Nat \ {0} /\ reap \in Passes
  BY DEF TypeOK, Passes
<1>2. reap.due = clock
  <2>1. reap.due <= clock
    BY DEF ReapRead
  <2> QED BY <1>1, <2>1
<1> DEFINE due == reap.due + ReapPeriod * ((clock - reap.due) \div ReapPeriod + 1)
<1>3. due = clock + ReapPeriod
  <2>1. (clock - reap.due) \div ReapPeriod = 0
    BY <1>1, <1>2
  <2> QED BY <1>1, <1>2, <2>1
<1> HIDE DEF due
<1>4. /\ reap.pc = "idle"
      /\ \/ /\ reap' = IF row.status = "running"
                       THEN [reap EXCEPT !.due = due, !.pc = "seen", !.at = clock,
                                         !.started = row.started]
                       ELSE [reap EXCEPT !.due = due]
            /\ UNCHANGED upset
         \/ /\ reap' = [reap EXCEPT !.due = due]
            /\ "noquery" \notin upset /\ upset' = upset \cup {"noquery"}
  BY DEF ReapRead, Upset, due
<1> QED BY <1>1, <1>2, <1>3, <1>4 DEF Passes

\* A pass that leaves the run alone found it younger than the deadline.
LEMMA ReapRunVerdict ==
    ASSUME TypeOK, ReapRun, Grace <= MaxRun
    PROVE  /\ reap.pc = "seen" /\ reap'.pc = "idle" /\ reap'.due = reap.due
           /\ \/ UNCHANGED wire /\ reap.at < reap.started + MaxRun
              \/ \E s \in Terminal : Insert(Version(s, reap.at, reap.started, "orch"))
           /\ UNCHANGED <<clock, row, maker, cancel>>
           /\ upset' \in {upset, upset \cup {"blind"}}
<1>1. PICK found \in SUBSET Workers :
          LET verdict == ReapDecision(reap.at - reap.started,
                                      run.home = "orch" /\ reg, found)
          IN /\ Inspected(found)
             /\ IF verdict[1] = "none"
                THEN UNCHANGED wire
                ELSE Insert(Version(verdict[1], reap.at, reap.started, "orch"))
             /\ \/ reap' = [reap EXCEPT !.pc = "idle", !.at = 0, !.started = 0]
                \/ reap' = [reap EXCEPT !.pc = "idle", !.at = 0, !.started = 0,
                                        !.by = verdict[2]]
  BY DEF ReapRun
<1> DEFINE verdict == ReapDecision(reap.at - reap.started,
                                   run.home = "orch" /\ reg, found)
<1>2. verdict[1] = "none" \/ verdict[1] \in Terminal
  BY DecisionType DEF Terminal
<1>3. verdict[1] = "none" => reap.at < reap.started + MaxRun
  <2>1. reap.at \in Nat /\ reap.started \in Nat /\ Grace \in Nat /\ MaxRun \in Nat
    BY DEF TypeOK
  <2>2. verdict[1] = "none" => reap.at - reap.started < MaxRun
    BY <2>1 DEF ReapDecision
  <2> HIDE DEF verdict
  <2> QED BY <2>1, <2>2
<1>4. reap'.pc = "idle" /\ reap'.due = reap.due
  <2> HIDE DEF verdict
  <2>1. reap \in [pc : {"idle", "seen"}, at : Nat, started : Nat, due : Nat,
                  by : {"none", "exit", "deadline"}]
    BY DEF TypeOK
  <2> QED BY <1>1, <2>1 DEF verdict
<1>5. upset' \in {upset, upset \cup {"blind"}}
  BY <1>1 DEF Inspected, Upset
<1> QED BY <1>1, <1>2, <1>3, <1>4, <1>5 DEF ReapRun

\* A crash takes the rows of its process from the wire.  The ticker of a
\* restarted orchestrator starts afresh.
LEMMA CrashShape ==
    ASSUME TypeOK, NEW p \in {"api", "orch"}, Crash(p)
    PROVE  /\ UNCHANGED <<clock, row>> /\ maker'.born = maker.born
           /\ wire' \subseteq wire /\ \A v \in wire : v.from # p => v \in wire'
           /\ maker.pc # "new" /\ maker'.pc \in {"done", "dead", maker.pc}
           /\ cancel'.pc \in {"idle", cancel.pc}
           /\ p \notin upset /\ upset' = upset \cup {p}
           /\ \/ reap' = reap /\ p = "api"
              \/ reap'.pc = "idle" /\ reap'.due = clock + ReapPeriod /\ p = "orch"
<1>1. reap \in Passes
  BY DEF TypeOK, Passes
<1>2. maker'.born = maker.born /\ maker'.pc \in {"done", "dead", maker.pc}
  BY DEF Crash, TypeOK
<1>3. cancel'.pc \in {"idle", cancel.pc}
  BY DEF Crash, TypeOK
<1> DEFINE due == clock + ReapPeriod
<1>4. \/ reap' = reap /\ p = "api"
      \/ /\ reap' = [reap EXCEPT !.pc = "idle", !.at = 0, !.started = 0, !.due = due]
         /\ p = "orch"
  BY DEF Crash
<1>5. \/ reap' = reap /\ p = "api"
      \/ reap'.pc = "idle" /\ reap'.due = clock + ReapPeriod /\ p = "orch"
  <2> HIDE DEF due
  <2>1. \/ reap' = reap /\ p = "api"
        \/ reap'.pc = "idle" /\ reap'.due = due /\ p = "orch"
    BY <1>1, <1>4 DEF Passes
  <2> QED BY <2>1 DEF due
<1>6. /\ UNCHANGED <<clock, row>> /\ maker.pc # "new"
      /\ wire' \subseteq wire /\ \A v \in wire : v.from # p => v \in wire'
      /\ p \notin upset /\ upset' = upset \cup {p}
  BY DEF Crash, Upset
<1> QED BY <1>2, <1>3, <1>5, <1>6

\* A version handed to the writer, or none.
Writes(v) == Insert(v) \/ UNCHANGED wire

LEMMA OnTimeStep ==
    ASSUME TypeOK, EngineAfterDispatch, OnTime, ShortStart, [Next]_vars
    PROVE  OnTime'
<1>c. /\ clock \in Nat /\ maker.born \in Nat /\ {StartLag, InspectLag, WriteLag} \subseteq Nat
      /\ ReapPeriod \in Nat \ {0} /\ reap.due \in Nat /\ reap.at \in Nat
      /\ reap.pc \in {"idle", "seen"}
      /\ \A v \in wire : v.fin \in Nat /\ v.sent \in Nat
  BY DEF TypeOK
<1>w. ASSUME NEW s, NEW t, NEW p, NEW fin \in Nat, fin <= clock,
             Writes(Version(s, fin, t, p)), UNCHANGED <<clock, reap>>,
             maker'.pc # "new", maker'.born <= clock,
             maker'.pc \in {"start", "refused", "started", "fix"}
                => clock <= maker'.born + StartLag
      PROVE  OnTime'
  BY <1>c, <1>w DEF OnTime, Writes, Insert, Version
<1>1. CASE Create
  <2>1. maker'.pc # "new" /\ maker'.born = clock /\ UNCHANGED <<clock, reap>>
    BY <1>1 DEF Create
  <2> QED BY <1>1, <1>c, <1>w, <2>1 DEF Create, Writes
<1>2. CASE Refuse \/ Started \/ StartNode \/ Register \/ FixRow
  <2>1. /\ maker'.born = maker.born /\ maker'.pc # "new" /\ maker.pc # "new"
        /\ UNCHANGED <<clock, reap>>
        /\ maker'.pc = "done" \/ maker.pc \in {"start", "refused", "started", "fix"}
    BY <1>2 DEF Refuse, Started, StartNode, Register, FixRow, TypeOK
  <2>2. \/ UNCHANGED wire
        \/ \E s : Insert(Version(s, clock, maker.born, run.home))
        \/ \E s : Insert(Version(s, maker.born, maker.born, run.home))
    BY <1>2 DEF Refuse, Started, StartNode, Register, FixRow
  <2> QED BY <1>c, <1>w, <2>1, <2>2 DEF OnTime, Writes
<1>3. CASE \/ EngineWrite \/ NodeReport \/ CancelMark
           \/ \E s \in Reports \cup {"running"} : PostMetrics(s)
           \/ \E s \in Reports : ImportJTL(s)
  <2>1. UNCHANGED <<clock, reap, maker>>
    BY <1>3 DEF EngineWrite, NodeReport, CancelMark, PostMetrics, ImportJTL
  <2>2. CASE maker.pc # "new"
    <3>1. UNCHANGED wire \/ \E s, t, p : Insert(Version(s, clock, t, p))
      BY <1>3 DEF EngineWrite, NodeReport, CancelMark, PostMetrics, ImportJTL
    <3> QED BY <1>c, <1>w, <2>1, <2>2, <3>1 DEF OnTime, Writes
  <2>3. maker.pc # "new"
    BY <1>3
    DEF EngineWrite, NodeReport, CancelMark, PostMetrics, ImportJTL, OnTime,
        EngineAfterDispatch
  <2> QED BY <2>2, <2>3
<1>4. CASE CancelRead \/ CancelStop
  <2>1. UNCHANGED <<clock, row, wire, reap, maker>>
    BY <1>4 DEF CancelRead, CancelStop
  <2>2. maker.pc # "new"
    BY <1>4 DEF CancelRead, CancelStop, OnTime, NoRow
  <2> QED BY <1>c, <2>1, <2>2 DEF OnTime
<1>5. CASE ReapRead
  <2>1. UNCHANGED <<clock, row, wire, maker, cancel>> /\ clock <= reap.due
    BY <1>5 DEF ReapRead, OnTime
  <2>2. /\ reap'.due = clock + ReapPeriod /\ reap'.pc \in {"idle", "seen"}
        /\ reap'.pc = "seen" => row.status = "running" /\ reap'.at = clock
    BY <1>5, <2>1, ReapReadShape
  <2>3. maker.pc = "new" => reap'.pc = "idle"
    BY <2>2 DEF OnTime, NoRow
  <2>4. reap'.pc = "idle" => clock <= reap'.due /\ reap'.due <= clock + ReapPeriod
    BY <1>c, <2>2
  <2>5. reap'.pc = "seen" => /\ reap'.due = reap'.at + ReapPeriod
                             /\ reap'.at <= clock /\ clock <= reap'.at + InspectLag
    BY <1>c, <2>2
  <2> QED BY <2>1, <2>3, <2>4, <2>5 DEF OnTime
<1>6. CASE ReapRun
  <2>1. /\ reap.pc = "seen" /\ reap'.pc = "idle" /\ reap'.due = reap.due
        /\ \/ UNCHANGED wire
           \/ \E s \in Terminal : Insert(Version(s, reap.at, reap.started, "orch"))
        /\ UNCHANGED <<clock, row, maker, cancel>>
    BY <1>6, ReapRunVerdict DEF ShortStart
  <2>2. reap.at <= clock /\ reap'.due = reap.at + ReapPeriod /\ maker.pc # "new"
    BY <2>1 DEF OnTime
  <2>3. clock <= reap'.due /\ reap'.due <= clock + ReapPeriod
    BY <1>c, <2>1, <2>2 DEF OnTime, ShortStart
  <2> QED BY <1>c, <2>1, <2>2, <2>3 DEF OnTime, Insert, Version
<1>7. ASSUME NEW v \in wire, Land(v) \/ Drop(v) PROVE OnTime'
  <2>1. UNCHANGED <<clock, reap, maker>> /\ wire' \subseteq wire /\ maker.pc # "new"
    BY <1>7 DEF Land, Drop, OnTime
  <2> QED BY <1>c, <2>1 DEF OnTime
<1>8. ASSUME NEW p \in {"api", "orch"}, Crash(p) PROVE OnTime'
  BY <1>8, <1>c, CrashShape DEF OnTime
<1>9. CASE Advance
  BY <1>9, <1>c DEF Advance, OnTime
<1>10. CASE UNCHANGED <<clock, row, wire, maker, cancel, reap>>
  BY <1>10 DEF OnTime
<1> QED
  BY <1>1, <1>2, <1>3, <1>4, <1>5, <1>6, <1>7, <1>8, <1>9, <1>10
  DEF Next, vars, StartWorker, BoxExit, BoxRemove, EngineNotify, EngineClear

LEMMA UpsetGrows == [Next]_vars => upset \subseteq upset'
BY DEF Next, vars, Create, Refuse, Started, StartNode, Register, FixRow, StartWorker,
       BoxExit, BoxRemove, EngineWrite, EngineNotify, EngineClear, NodeReport, CancelRead,
       CancelMark, CancelStop, PostMetrics, ImportJTL, ReapRead, ReapRun, Inspected, Land,
       Drop, Crash, Advance, Upset

LEMMA ByMakerStep ==
    ASSUME TypeOK, EngineAfterDispatch, OnTime, ByMaker, ShortStart, [Next]_vars
    PROVE  ByMaker'
<1> SUFFICES ASSUME "heartbeat" \notin upset'
             PROVE  /\ \A v \in wire' \cup {row'} : v.status = "running" =>
                          v.started = maker'.born /\ v.fin <= maker'.born + StartLag
                    /\ \A v \in wire' : v.status = "running" =>
                          v.sent <= maker'.born + StartLag
                    /\ reap'.pc = "seen" => reap'.started = maker'.born
  BY DEF ByMaker
<1>h. /\ \A v \in wire \cup {row} : v.status = "running" =>
            v.started = maker.born /\ v.fin <= maker.born + StartLag
      /\ \A v \in wire : v.status = "running" => v.sent <= maker.born + StartLag
      /\ reap.pc = "seen" => reap.started = maker.born
  BY UpsetGrows DEF ByMaker
<1>c. clock \in Nat /\ maker.born \in Nat /\ StartLag \in Nat /\ "running" \notin Terminal
  BY DEF TypeOK, Terminal
<1>1. CASE Create
  <2>1. /\ wire = {} /\ row = NoRow /\ reap.pc = "idle" /\ maker'.born = clock
        /\ UNCHANGED <<row, reap>> /\ \E s : Insert(Version(s, clock, clock, run.home))
    BY <1>1 DEF Create, OnTime
  <2> QED BY <1>c, <2>1 DEF Insert, Version, NoRow
<1>2. CASE FixRow
  <2>1. /\ clock <= maker.born + StartLag /\ maker'.born = maker.born
        /\ UNCHANGED <<row, reap>>
    BY <1>2 DEF FixRow, OnTime, TypeOK
  <2>2. \/ UNCHANGED wire
        \/ \E s : Insert(Version(s, clock, maker.born, run.home))
        \/ \E s : Insert(Version(s, maker.born, maker.born, run.home))
    BY <1>2 DEF FixRow
  <2> QED BY <1>c, <1>h, <2>1, <2>2 DEF Insert, Version
<1>3. CASE \/ EngineWrite \/ NodeReport \/ CancelMark
           \/ \E s \in Reports \cup {"running"} : PostMetrics(s)
           \/ \E s \in Reports : ImportJTL(s)
  <2>1. UNCHANGED <<row, reap, maker>>
    BY <1>3 DEF EngineWrite, NodeReport, CancelMark, PostMetrics, ImportJTL
  <2>2. UNCHANGED wire \/ \E s \in Terminal : \E fin, t, p : Insert(Version(s, fin, t, p))
    <3>1. Verdicts \subseteq Terminal /\ Reports \subseteq Terminal
          /\ "cancelled" \in Terminal
      BY DEF Terminal
    <3> QED BY <1>3, <3>1
            DEF EngineWrite, NodeReport, CancelMark, PostMetrics, ImportJTL, Upset
  <2> QED BY <1>c, <1>h, <2>1, <2>2 DEF Insert, Version
<1>4. CASE ReapRead
  <2>1. UNCHANGED <<row, wire, maker>> /\ clock <= reap.due
    BY <1>4 DEF ReapRead, OnTime
  <2> QED BY <1>4, <1>h, <2>1, ReapReadShape
<1>5. CASE ReapRun
  <2>1. /\ reap'.pc = "idle" /\ UNCHANGED <<row, maker>>
        /\ UNCHANGED wire \/ \E s \in Terminal : Insert(Version(s, reap.at, reap.started, "orch"))
    BY <1>5, ReapRunVerdict DEF ShortStart
  <2> QED BY <1>c, <1>h, <2>1 DEF Insert, Version
<1>6. ASSUME NEW v \in wire, Land(v)
      PROVE  /\ \A u \in wire' \cup {row'} : u.status = "running" =>
                   u.started = maker'.born /\ u.fin <= maker'.born + StartLag
             /\ \A u \in wire' : u.status = "running" => u.sent <= maker'.born + StartLag
             /\ reap'.pc = "seen" => reap'.started = maker'.born
  BY <1>6, <1>h DEF Land
<1>7. ASSUME NEW p \in {"api", "orch"}, Crash(p)
      PROVE  /\ \A u \in wire' \cup {row'} : u.status = "running" =>
                   u.started = maker'.born /\ u.fin <= maker'.born + StartLag
             /\ \A u \in wire' : u.status = "running" => u.sent <= maker'.born + StartLag
             /\ reap'.pc = "seen" => reap'.started = maker'.born
  BY <1>7, <1>h, CrashShape
<1>8. CASE /\ wire' \subseteq wire /\ UNCHANGED <<row, reap>> /\ maker'.born = maker.born
  BY <1>8, <1>h
<1> QED
  BY <1>1, <1>2, <1>3, <1>4, <1>5, <1>6, <1>7, <1>8
  DEF Next, vars, TypeOK, Refuse, Started, StartNode, Register, StartWorker, BoxExit,
      BoxRemove, EngineNotify, EngineClear, CancelRead, CancelStop, Drop, Advance

\* Each loss moves the last pass out by a round.
LEMMA LastPassGrows ==
    ASSUME TypeOK, maker'.born = maker.born, upset \subseteq upset'
    PROVE  /\ {LastPass, LastPass'} \subseteq Int /\ LastPass <= LastPass'
           /\ maker.born + MaxRun - 1 + ReapPeriod <= LastPass
           /\ \A u \in {"orch", "drop", "noquery"} :
                 u \notin upset /\ u \in upset' => LastPass + Round <= LastPass'
<1>1. Round \in Nat /\ {maker.born, MaxRun, ReapPeriod} \subseteq Nat
  BY DEF Round, TypeOK
<1>2. \A u : /\ Lost(u) \in Nat /\ Lost(u)' \in Nat /\ Lost(u) <= Lost(u)'
             /\ u \notin upset /\ u \in upset' => Lost(u) + Round <= Lost(u)'
  BY <1>1 DEF Lost, Round
<1> QED BY <1>1, <1>2 DEF LastPass

\* What is not lost stays, and what comes on top does no harm.
LEMMA ClosingKept ==
    ASSUME TypeOK, Closing, UNCHANGED reap, maker'.born = maker.born,
           upset \subseteq upset', \A v \in wire : Closer(v) => v \in wire'
    PROVE  Closing'
<1>1. {InspectLag, MaxRun, maker.born} \subseteq Nat /\ NextPass \in Nat
      /\ NextPass' = NextPass /\ \A v \in wire : v.fin \in Nat /\ v.sent \in Nat
  BY DEF TypeOK, NextPass
<1>2. LastPass \in Int /\ LastPass' \in Int /\ LastPass <= LastPass'
  BY LastPassGrows
<1>3. ASSUME NEW v \in wire, Closer(v) PROVE v \in wire' /\ Closer(v)'
  BY <1>1, <1>2, <1>3 DEF Closer
<1> QED BY <1>1, <1>2, <1>3 DEF Closing

\* Whatever is lost, the next pass is near.
LEMMA ClosingAgain ==
    ASSUME TypeOK, OnTime, Closing, maker'.born = maker.born, upset \subseteq upset',
           NEW u \in {"orch", "drop", "noquery"}, u \notin upset, u \in upset',
           NextPass' \in Nat, NextPass' <= clock + ReapPeriod
    PROVE  Closing'
<1>1. {clock, InspectLag, WriteLag, ReapPeriod, reap.at, reap.due} \subseteq Nat
      /\ reap.pc \in {"idle", "seen"} /\ \A v \in wire : v.sent \in Nat
  BY DEF TypeOK
<1>2. /\ {LastPass, LastPass'} \subseteq Int
      /\ LastPass + (ReapPeriod + InspectLag + WriteLag) <= LastPass'
  BY LastPassGrows DEF Round
<1>3. clock <= LastPass + InspectLag + WriteLag
  <2>1. CASE NextPass <= LastPass
    BY <1>1, <1>2, <2>1 DEF NextPass, OnTime
  <2>2. ASSUME NEW v \in wire, Closer(v) PROVE clock <= LastPass + InspectLag + WriteLag
    BY <1>1, <1>2, <2>2 DEF Closer, OnTime
  <2> QED BY <2>1, <2>2 DEF Closing
<1> QED BY <1>1, <1>2, <1>3 DEF Closing

\* A pass closes a run that is due, or the run is young enough for the next one.
LEMMA ClosingPass ==
    ASSUME TypeOK, OnTime, ByMaker, ShortStart, Closing, "heartbeat" \notin upset, ReapRun
    PROVE  Closing'
<1>1. /\ reap.pc = "seen" /\ reap'.pc = "idle" /\ reap'.due = reap.due
      /\ \/ UNCHANGED wire /\ reap.at < reap.started + MaxRun
         \/ \E s \in Terminal : Insert(Version(s, reap.at, reap.started, "orch"))
      /\ UNCHANGED <<clock, row, maker, cancel>>
      /\ upset' \in {upset, upset \cup {"blind"}}
  BY ReapRunVerdict DEF ShortStart
<1>2. {InspectLag, MaxRun, ReapPeriod, maker.born, reap.at, reap.due, clock} \subseteq Nat
      /\ \A v \in wire : v.fin \in Nat /\ v.sent \in Nat
  BY DEF TypeOK
<1>3. NextPass = reap.at /\ NextPass' = reap.at + ReapPeriod
  BY <1>1 DEF NextPass, OnTime
<1>4. /\ {LastPass, LastPass'} \subseteq Int /\ LastPass <= LastPass'
      /\ maker.born + MaxRun - 1 + ReapPeriod <= LastPass
  BY <1>1, LastPassGrows
<1>5. reap.started = maker.born /\ clock <= reap.at + InspectLag
  BY <1>1 DEF ByMaker, OnTime
<1>6. wire \subseteq wire'
  BY <1>1 DEF Insert
<1>7. ASSUME NEW v \in wire, Closer(v) PROVE Closing'
  BY <1>1, <1>2, <1>4, <1>6, <1>7 DEF Closer, Closing
<1>8. CASE reap.at < maker.born + MaxRun
  BY <1>2, <1>3, <1>4, <1>8 DEF Closing
<1>9. CASE maker.born + MaxRun <= reap.at /\ reap.at <= LastPass
  <2>1. PICK s \in Terminal : Insert(Version(s, reap.at, reap.started, "orch"))
    BY <1>1, <1>2, <1>5, <1>9
  <2>2. PICK w : /\ w.status \in Terminal /\ w.from = "orch" /\ w.fin = reap.at
                 /\ w.sent = clock /\ w \in wire'
    <3> DEFINE u == Version(s, reap.at, reap.started, "orch")
    <3>1. /\ u.status \in Terminal /\ u.from = "orch" /\ u.fin = reap.at
          /\ u.sent = clock /\ u \in wire'
      BY <2>1 DEF Version, Insert
    <3> QED BY <3>1
  <2>3. Closer(w)'
    BY <1>1, <1>2, <1>4, <1>5, <1>9, <2>2 DEF Closer
  <2> QED BY <2>2, <2>3 DEF Closing
<1> QED BY <1>2, <1>3, <1>4, <1>7, <1>8, <1>9 DEF Closing

\* A run found running by a pass has a closing version on the wire, or is young.
LEMMA InTimeStep ==
    ASSUME TypeOK, EngineAfterDispatch, OnTime, ByMaker, InTime, ShortStart, [Next]_vars
    PROVE  InTime'
<1> SUFFICES ASSUME "heartbeat" \notin upset', row'.status = "running"
             PROVE  Closing'
  BY DEF InTime
<1>u. upset \subseteq upset' /\ "heartbeat" \notin upset
  BY UpsetGrows
<1>c. /\ {clock, maker.born, reap.at, reap.due, row.fin} \subseteq Nat
      /\ {MaxRun, ReapPeriod, InspectLag, StartLag, WriteLag} \subseteq Nat
      /\ reap.pc \in {"idle", "seen"}
      /\ \A v \in wire : v.fin \in Nat /\ v.sent \in Nat
  BY DEF TypeOK, NoRow
<1>n. NextPass \in Nat /\ NextPass <= clock + ReapPeriod
  BY <1>c DEF NextPass, OnTime
<1>1. CASE Create
  BY <1>1 DEF Create, OnTime, NoRow
<1>2. CASE /\ wire \subseteq wire' /\ UNCHANGED <<row, reap>> /\ maker'.born = maker.born
  BY <1>2, <1>u, ClosingKept DEF InTime
<1>3. CASE ReapRead
  <2>1. UNCHANGED <<clock, row, wire, maker>> /\ clock <= reap.due
    BY <1>3 DEF ReapRead, OnTime
  <2>2. /\ reap.pc = "idle" /\ reap.due = clock /\ reap'.due = clock + ReapPeriod
        /\ \/ reap'.pc = "seen" /\ reap'.at = clock /\ UNCHANGED upset
           \/ /\ reap'.pc = "idle" /\ "noquery" \notin upset
              /\ upset' = upset \cup {"noquery"}
    BY <1>3, <2>1, ReapReadShape
  <2>3. Closing
    BY <1>u, <2>1 DEF InTime
  <2>4. CASE reap'.pc = "seen"
    <3>1. NextPass' = NextPass /\ UNCHANGED <<upset, wire, maker>>
      BY <2>1, <2>2, <2>4 DEF NextPass
    <3> QED BY <2>3, <3>1 DEF Closing, Closer, LastPass, Lost
  <2>5. CASE reap'.pc = "idle"
    <3>1. NextPass' = clock + ReapPeriod
      BY <2>2, <2>5 DEF NextPass
    <3> QED BY <1>c, <1>u, <2>1, <2>2, <2>3, <2>5, <3>1, ClosingAgain
  <2> QED BY <2>2, <2>4, <2>5
<1>4. CASE ReapRun
  <2>1. UNCHANGED row
    BY <1>4 DEF ReapRun
  <2> QED BY <1>4, <1>u, <2>1, ClosingPass DEF InTime
<1>5. ASSUME NEW v \in wire, Land(v) PROVE Closing'
  <2>1. /\ UNCHANGED <<clock, maker, reap, upset>> /\ wire' \in {wire, wire \ {v}}
        /\ row' = IF v.fin >= row.fin
                  THEN [status |-> v.status, fin |-> v.fin, started |-> v.started]
                  ELSE row
    BY <1>5 DEF Land
  <2>2. CASE v.status = "running"
    <3>1. clock < maker.born + MaxRun
      BY <1>c, <1>u, <2>2 DEF OnTime, ByMaker, ShortStart
    <3>2. LastPass' \in Int /\ maker.born + MaxRun - 1 + ReapPeriod <= LastPass'
      <4>1. LastPass' = LastPass
        BY <2>1 DEF LastPass, Lost
      <4> QED BY <2>1, <4>1, LastPassGrows
    <3>3. NextPass' = NextPass
      BY <2>1 DEF NextPass
    <3> QED BY <1>c, <1>n, <3>1, <3>2, <3>3 DEF Closing
  <2>3. CASE v.status # "running"
    <3>1. row' = row /\ v.fin < row.fin /\ row.status = "running"
      BY <1>c, <2>1, <2>3
    <3>2. ~Closer(v)
      BY <1>c, <1>u, <3>1 DEF ByMaker, ShortStart, Closer
    <3>3. \A u \in wire : u # v => u \in wire'
      BY <2>1
    <3> QED BY <1>u, <2>1, <3>1, <3>2, <3>3, ClosingKept DEF InTime
  <2> QED BY <2>2, <2>3
<1>6. ASSUME NEW v \in wire, Drop(v) PROVE Closing'
  <2>1. /\ UNCHANGED <<clock, row, maker, reap>>
        /\ "drop" \notin upset /\ upset' = upset \cup {"drop"}
    BY <1>6 DEF Drop, Upset
  <2>2. NextPass' = NextPass
    BY <2>1 DEF NextPass
  <2> QED BY <1>n, <1>u, <2>1, <2>2, ClosingAgain DEF InTime
<1>7. ASSUME NEW p \in {"api", "orch"}, Crash(p) PROVE Closing'
  <2>1. /\ UNCHANGED <<clock, row>> /\ maker'.born = maker.born
        /\ \A v \in wire : v.from # p => v \in wire'
        /\ p \notin upset /\ upset' = upset \cup {p}
        /\ \/ reap' = reap /\ p = "api"
           \/ reap'.pc = "idle" /\ reap'.due = clock + ReapPeriod /\ p = "orch"
    BY <1>7, CrashShape
  <2>2. Closing
    BY <1>u, <2>1 DEF InTime
  <2>3. CASE p = "api"
    <3>1. UNCHANGED reap /\ \A v \in wire : Closer(v) => v \in wire'
      BY <2>1, <2>3 DEF Closer
    <3> QED BY <1>u, <2>1, <2>2, <3>1, ClosingKept
  <2>4. CASE p = "orch"
    <3>1. NextPass' = clock + ReapPeriod
      BY <2>1, <2>4 DEF NextPass
    <3> QED BY <1>c, <1>u, <2>1, <2>2, <2>4, <3>1, ClosingAgain
  <2> QED BY <2>3, <2>4
<1> QED
  BY <1>1, <1>2, <1>3, <1>4, <1>5, <1>6, <1>7
  DEF Next, vars, Refuse, Started, StartNode, Register, FixRow, StartWorker, BoxExit,
      BoxRemove, EngineWrite, EngineNotify, EngineClear, NodeReport, CancelRead,
      CancelMark, CancelStop, PostMetrics, ImportJTL, Advance, Insert, TypeOK

\* How many of three losses there were.
One(S, u) == IF u \in S THEN 1 ELSE 0

LEMMA Count ==
    ASSUME NEW S, NEW u, NEW v, NEW w, u # v, u # w, v # w
    PROVE  Cardinality(S \cap {u, v, w}) = One(S, u) + (One(S, v) + One(S, w))
<1>1. \A T, e : IsFiniteSet(T) /\ e \notin T =>
          IsFiniteSet(T \cup {e}) /\ Cardinality(T \cup {e}) = Cardinality(T) + 1
  BY FS_AddElement
<1> DEFINE W == IF w \in S THEN {w} ELSE {}
           V == IF v \in S THEN W \cup {v} ELSE W
           U == IF u \in S THEN V \cup {u} ELSE V
<1>2. IsFiniteSet(W) /\ Cardinality(W) = (IF w \in S THEN 1 ELSE 0)
  BY FS_EmptySet, FS_Singleton
<1>3. v \notin W /\ u \notin V
  OBVIOUS
<1>4. S \cap {u, v, w} = U
  OBVIOUS
<1> HIDE DEF W
<1>5. IsFiniteSet(V)
      /\ Cardinality(V) = (IF v \in S THEN 1 ELSE 0) + (IF w \in S THEN 1 ELSE 0)
  BY <1>1, <1>2, <1>3
<1> HIDE DEF V
<1>6. Cardinality(U) = (IF u \in S THEN 1 ELSE 0)
          + ((IF v \in S THEN 1 ELSE 0) + (IF w \in S THEN 1 ELSE 0))
  <2>1. CASE u \in S
    <3>1. Cardinality(V \cup {u}) = Cardinality(V) + 1
      BY <1>1, <1>3, <1>5
    <3> QED BY <1>5, <2>1, <3>1
  <2>2. CASE u \notin S
    BY <1>5, <2>2
  <2> QED BY <2>1, <2>2
<1> HIDE DEF U
<1> QED BY <1>4, <1>6 DEF One

\* Deadline, spelled out.
LEMMA DeadlineIs ==
    Deadline = MaxRun - 1 + Round + (Lost("orch") + (Lost("drop") + Lost("noquery")))
<1> DEFINE n == Cardinality(upset \cap {"orch", "drop", "noquery"})
<1>1. n = One(upset, "orch") + (One(upset, "drop") + One(upset, "noquery"))
  BY Count
<1>2. MaxRun \in Nat /\ Round \in Nat
  BY DEF Round
<1>3. Deadline = MaxRun - 1 + (1 + n) * Round
  BY DEF Deadline, Round
<1> HIDE DEF n
<1>4. CASE "orch" \in upset
  BY <1>1, <1>2, <1>3, <1>4 DEF Lost, One
<1>5. CASE "orch" \notin upset
  BY <1>1, <1>2, <1>3, <1>5 DEF Lost, One
<1> QED BY <1>4, <1>5

\* docs/configuration.md on OPL_RUN_MAX_SEC: whichever process crashes, whichever
\* rows are lost and whichever query fails, a run that nobody reports as still
\* running is closed by its deadline, if dispatch is shorter than the deadline and a
\* pass shorter than the period.
THEOREM ClosedInTime == ASSUME ShortStart PROVE Spec => []RunClosesInTime
<1> DEFINE Inv == OnTime /\ ByMaker /\ InTime
<1>1. Init => Inv
  <2> SUFFICES ASSUME Init PROVE Inv
    OBVIOUS
  <2>1. reap.pc = "idle" /\ clock <= reap.due /\ reap.due <= clock + ReapPeriod
    BY DEF Init
  <2> QED BY <2>1 DEF Init, OnTime, ByMaker, InTime, NoRow
<1>2. TypeOK /\ EngineAfterDispatch /\ Inv /\ [Next]_vars => Inv'
  BY OnTimeStep, ByMakerStep, InTimeStep
<1>3. TypeOK /\ Inv => RunClosesInTime
  <2> SUFFICES ASSUME TypeOK, Inv, row.status = "running", "heartbeat" \notin upset
               PROVE  clock <= maker.born + Deadline
    BY DEF RunClosesInTime
  <2>1. /\ {clock, maker.born, reap.at, reap.due} \subseteq Nat
        /\ {MaxRun, ReapPeriod, InspectLag, WriteLag} \subseteq Nat
        /\ reap.pc \in {"idle", "seen"}
        /\ \A v \in wire : v.fin \in Nat /\ v.sent \in Nat
        /\ \A u : Lost(u) \in Nat
    BY DEF TypeOK, Lost, Round
  <2>2. LastPass \in Int /\ maker.born + Deadline = LastPass + InspectLag + WriteLag
    BY <2>1, DeadlineIs DEF LastPass, Round
  <2>3. CASE NextPass <= LastPass
    <3>1. clock <= NextPass + InspectLag /\ NextPass \in Nat
      BY <2>1 DEF NextPass, OnTime
    <3> QED BY <2>1, <2>2, <2>3, <3>1
  <2>4. ASSUME NEW v \in wire, Closer(v)
        PROVE  clock <= maker.born + Deadline
    BY <2>1, <2>2, <2>4 DEF Closer, OnTime
  <2> QED BY <2>3, <2>4 DEF InTime, Closing
<1> QED BY <1>1, <1>2, <1>3, TypeCorrect, DispatchFirst, PTL DEF Spec
=============================================================================
