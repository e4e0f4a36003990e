------------------------ MODULE ScheduleTimingProofs ------------------------
(***************************************************************************)
(* What the ticks owe to timing.  A state row lands before anyone can be   *)
(* due by it, so every later tick reads it or a newer one: the rows move   *)
(* the schedule on and count its dispatches, and a claim that has run out  *)
(* by then is that of a dead process.                                      *)
(***************************************************************************)
EXTENDS ScheduleFiringProofs, FiniteSetTheorems

USE FiringAssumption

-----------------------------------------------------------------------------
(* Types. *)

\* A division rounds down, whatever the divisor.
LEMMA Quotient ==
    ASSUME NEW t \in Nat, NEW d \in Nat \ {0}
    PROVE  t \div d \in Nat /\ d * (t \div d) <= t /\ t < d * (t \div d) + d
OBVIOUS

\* What is due after t lies after t.
LEMMA NextIsAhead ==
    ASSUME NEW t \in Nat
    PROVE  /\ NextFire(t) \in Nat /\ t < NextFire(t)
           /\ ~def.daily => NextFire(t) = t + Every
<1> DEFINE D == Day * Minute
           d == t \div D
<1>1. D \in Nat \ {0}
  OBVIOUS
<1> HIDE DEF D
<1>2. d \in Nat /\ t < D * d + D
  BY <1>1, Quotient
<1> HIDE DEF d
<1>3. \A n \in Nat : DailyTime(n) \in Nat /\ D * n <= DailyTime(n)
  <2> TAKE n \in Nat
  <2>1. DailyTime(n) = (Day * Minute) * n + DailyAt * Minute
    BY DEF DailyTime
  <2>2. DailyAt * Minute \in Nat /\ D * n \in Nat
    BY <1>1
  <2> QED BY <2>1, <2>2 DEF D
<1>4. D * (d + 1) = D * d + D
  BY <1>1, <1>2
<1>5. DailyTime(d + 1) \in Nat /\ DailyTime(d) \in Nat /\ t < DailyTime(d + 1)
  BY <1>1, <1>2, <1>3, <1>4
<1> QED BY <1>5 DEF NextFire, DayOf, D, d

LEMMA UpsetType ==
    ASSUME TypeOK, NEW what, Upset(what)
    PROVE  upset' \subseteq Upsets /\ Cardinality(upset' \ {"crash"}) <= MaxUpsets
BY DEF TypeOK, Upset

\* A key is one of Key.
LEMMA KeyType ==
    ASSUME TypeOK, NEW st \in Row, NEW t \in Nat
    PROVE  FireKey(st, t) \in Key
<1>1. def.next \in Nat /\ def.daily \in BOOLEAN
  BY DEF TypeOK
<1>2. DayOf(t) \in Nat /\ t \div Every \in Nat
  <2>1. Day * Minute \in Nat \ {0}
    OBVIOUS
  <2> QED BY <2>1, Quotient DEF DayOf
<1>3. st.next \in Nat
  BY DEF Row
<1> DEFINE next == IF st.next # 0 THEN st.next ELSE def.next
<1>4. next \in Nat
  BY <1>1, <1>3
<1>5. CASE next # 0
  <2>1. FireKey(st, t) = [kind |-> "at", n |-> next]
    BY <1>1, <1>5 DEF FireKey
  <2> QED BY <1>4, <2>1 DEF Key
<1>6. CASE next = 0 /\ def.daily
  <2>1. FireKey(st, t) = [kind |-> "day", n |-> DayOf(t)]
    BY <1>6 DEF FireKey
  <2> QED BY <1>2, <2>1 DEF Key
<1>7. CASE next = 0 /\ ~def.daily
  <2>1. FireKey(st, t) = [kind |-> "iv", n |-> t \div Every]
    BY <1>7 DEF FireKey
  <2> QED BY <1>2, <2>1 DEF Key
<1> QED BY <1>1, <1>5, <1>6, <1>7

\* What a tick forgets, and what it holds in between, are values of their types.
LEMMA TickType ==
    ASSUME TypeOK, NEW o \in Owner, NEW p \in PC
    PROVE  /\ [pc EXCEPT ![o] = p] \in [Owner -> PC]
           /\ [seen EXCEPT ![o] = NoState] \in [Owner -> Row]
           /\ [seen EXCEPT ![o] = state] \in [Owner -> Row]
           /\ [now EXCEPT ![o] = 0] \in [Owner -> 0..MaxTime]
           /\ [now EXCEPT ![o] = clock] \in [Owner -> 0..MaxTime]
BY DEF TypeOK, NoState, Row

LEMMA TypeStep == TypeOK /\ [Next]_vars => TypeOK'
<1> SUFFICES ASSUME TypeOK, [Next]_vars PROVE TypeOK'
  OBVIOUS
<1>r. \A o \in Owner : seen[o] \in Row /\ now[o] \in Nat /\ due[o] \in Nat
  BY DEF TypeOK
<1>p. {"idle", "loading", "loaded", "claim", "insert", "settle", "fired", "down"} = PC
  BY DEF PC
<1>k. \A o \in Owner : Current(o) \in Key
  BY <1>r, KeyType DEF Current
<1>1. ASSUME NEW o \in Owner, Load(o) PROVE TypeOK'
  <2>1. due' \in [Owner -> Nat]
    <3>1. clock - due[o] \in Nat
      BY <1>1, <1>r DEF Load, TypeOK
    <3>2. (clock - due[o]) \div Period + 1 \in Nat
      BY <3>1, Quotient
    <3>3. Period * ((clock - due[o]) \div Period + 1) \in Nat
      BY <3>2
    <3> QED BY <1>1, <1>r, <3>3 DEF Load, TypeOK
  <2>2. pc' \in [Owner -> PC] /\ now' \in [Owner -> 0..MaxTime]
    BY <1>1, <1>p, TickType DEF Load, TypeOK
  <2>3. upset' \subseteq Upsets /\ Cardinality(upset' \ {"crash"}) <= MaxUpsets
    BY <1>1, UpsetType DEF Load, TypeOK
  <2> QED BY <1>1, <2>1, <2>2, <2>3 DEF Load, TypeOK
<1>2. ASSUME NEW o \in Owner, LoadState(o) PROVE TypeOK'
  <2>1. /\ pc' = [pc EXCEPT ![o] = "loaded"]
        /\ seen' \in {[seen EXCEPT ![o] = state], [seen EXCEPT ![o] = NoState]}
    BY <1>2 DEF LoadState
  <2>3. pc' \in [Owner -> PC]
    BY <1>p, <2>1, TickType
  <2>4. seen' \in [Owner -> Row]
    BY <1>p, <2>1, TickType
  <2>2. upset' \subseteq Upsets /\ Cardinality(upset' \ {"crash"}) <= MaxUpsets
    BY <1>2, UpsetType DEF LoadState, TypeOK
  <2> QED BY <1>2, <2>2, <2>3, <2>4 DEF LoadState, TypeOK
<1>3. ASSUME NEW o \in Owner, Begin(o) PROVE TypeOK'
  <2>1. pc' \in [Owner -> PC] /\ seen' \in [Owner -> Row] /\ now' \in [Owner -> 0..MaxTime]
    BY <1>3, <1>p, TickType DEF Begin, Forget, TypeOK
  <2> QED BY <1>3, <2>1 DEF Begin, TypeOK
<1>v. ASSUME NEW o \in Owner, NEW c \in claims, Verdict(o, c)
      PROVE  /\ pc' \in [Owner -> PC] /\ seen' \in [Owner -> Row]
             /\ now' \in [Owner -> 0..MaxTime]
             /\ fires' \subseteq [key : Key, owner : Owner, at : Nat, nth : Nat]
  <2>1. CASE c.owner = o
    <3>1. Dispatch(o)
      BY <1>v, <2>1 DEF Verdict
    <3>2. [key |-> Current(o), owner |-> o, at |-> now[o], nth |-> seen[o].count + 1]
            \in [key : Key, owner : Owner, at : Nat, nth : Nat]
      BY <1>r, <1>k DEF Row
    <3> QED BY <1>p, <3>1, <3>2, TickType DEF Dispatch, TypeOK
  <2>2. CASE c.owner # o
    BY <1>v, <1>p, <2>2, TickType DEF Verdict, Forget, TypeOK
  <2> QED BY <2>1, <2>2
<1>4. ASSUME NEW o \in Owner, List(o) PROVE TypeOK'
  <2>1. CASE pc' = [pc EXCEPT ![o] = "insert"] /\ UNCHANGED <<seen, now, fires>>
    BY <1>4, <1>p, <2>1, TickType DEF List, TypeOK
  <2>2. CASE \E c \in claims : Verdict(o, c)
    BY <1>4, <1>v, <2>2 DEF List, TypeOK
  <2> QED BY <1>4, <2>1, <2>2 DEF List
<1>5. ASSUME NEW o \in Owner, Arbitrate(o) PROVE TypeOK'
  BY <1>5, <1>v DEF Arbitrate, TypeOK
<1>c. \A o \in Owner : ClaimOf(o) \in [key : Key, owner : Owner, stamp : Nat]
  BY <1>r, <1>k DEF ClaimOf
<1>6. ASSUME NEW o \in Owner, InsertClaim(o) PROVE TypeOK'
  <2>1. pc' \in [Owner -> PC]
    BY <1>6, <1>p, TickType DEF InsertClaim
  <2> QED BY <1>6, <1>c, <2>1 DEF InsertClaim, TypeOK
<1>7. ASSUME NEW o \in Owner, ClaimError(o) PROVE TypeOK'
  <2>1. pc' \in [Owner -> PC] /\ seen' \in [Owner -> Row] /\ now' \in [Owner -> 0..MaxTime]
    BY <1>7, <1>p, TickType DEF ClaimError, Forget
  <2>2. upset' \subseteq Upsets /\ Cardinality(upset' \ {"crash"}) <= MaxUpsets
    BY <1>7, UpsetType DEF ClaimError
  <2>3. claims' \subseteq [key : Key, owner : Owner, stamp : Nat]
    BY <1>7, <1>c DEF ClaimError, TypeOK
  <2> QED BY <1>7, <2>1, <2>2, <2>3 DEF ClaimError, TypeOK
<1>8. ASSUME NEW o \in Owner, WriteState(o) PROVE TypeOK'
  <2>1. pc' \in [Owner -> PC] /\ seen' \in [Owner -> Row] /\ now' \in [Owner -> 0..MaxTime]
    BY <1>8, <1>p, TickType DEF WriteState, Forget
  <2>2. [next |-> NextFire(now[o]), last |-> now[o], count |-> seen[o].count + 1,
         owner |-> o, upd |-> clock] \in Row
    BY <1>r, NextIsAhead DEF Row, TypeOK
  <2> QED BY <1>8, <2>1, <2>2 DEF WriteState, TypeOK
<1>9. ASSUME NEW o \in Owner, Crash(o) PROVE TypeOK'
  <2>1. pc' \in [Owner -> PC] /\ seen' \in [Owner -> Row] /\ now' \in [Owner -> 0..MaxTime]
    BY <1>9, <1>p, TickType DEF Crash, Forget
  <2>2. upset' \subseteq Upsets /\ Cardinality(upset' \ {"crash"}) <= MaxUpsets
    BY <1>9, UpsetType DEF Crash
  <2>3. due' \in [Owner -> Nat] /\ wire' \subseteq wire
    BY <1>9 DEF Crash, TypeOK
  <2> QED BY <1>9, <2>1, <2>2, <2>3 DEF Crash, TypeOK
<1>10. ASSUME NEW r \in wire, Land(r) PROVE TypeOK'
  BY <1>10 DEF Land, TypeOK
<1>11. ASSUME NEW r \in wire, Drop(r) PROVE TypeOK'
  <2>1. upset' \subseteq Upsets /\ Cardinality(upset' \ {"crash"}) <= MaxUpsets
    BY <1>11, UpsetType DEF Drop
  <2> QED BY <1>11, <2>1 DEF Drop, TypeOK
<1>12. ASSUME NEW v \in BOOLEAN, ReadEdit(v) PROVE TypeOK'
  <2>1. upset' \subseteq Upsets /\ Cardinality(upset' \ {"crash"}) <= MaxUpsets
    BY <1>12, UpsetType DEF ReadEdit
  <2>2. post' \in Edit
    BY <1>12 DEF ReadEdit, Edit, TypeOK
  <2> QED BY <1>12, <2>1, <2>2 DEF ReadEdit, TypeOK
<1>13. ASSUME WriteEdit PROVE TypeOK'
  <2>1. post \in Edit
    BY <1>13 DEF WriteEdit, TypeOK
  <2>2. [next |-> NextFire(clock), last |-> post.seen.last, count |-> post.seen.count,
         owner |-> post.seen.owner, upd |-> clock] \in Row
    BY <2>1, NextIsAhead DEF Edit, Row, TypeOK
  <2> QED BY <1>13, <2>1, <2>2 DEF WriteEdit, Edit, TypeOK
<1>14. ASSUME Advance PROVE TypeOK'
  BY <1>14 DEF Advance, TypeOK
<1>15. CASE UNCHANGED vars
  BY <1>15 DEF vars, TypeOK
<1> QED
  BY <1>1, <1>2, <1>3, <1>4, <1>5, <1>6, <1>7, <1>8, <1>9, <1>10, <1>11, <1>12, <1>13,
     <1>14, <1>15
  DEF Next

LEMMA TypeInit == Init => TypeOK
<1>1. Cardinality({} \ {"crash"}) = 0
  <2>1. {} \ {"crash"} = {}
    OBVIOUS
  <2> QED BY <2>1, FS_EmptySet
<1> QED BY <1>1 DEF Init, TypeOK, NoState, Row, PC

\* The variables of the firing model have their types: the clock stays within
\* its bound, keys and rows are what the code makes of them, and no more goes
\* wrong than is allowed to.
THEOREM TypeCorrect == Spec => []TypeOK
BY TypeInit, TypeStep, PTL DEF Spec
-----------------------------------------------------------------------------
(* Ticks, and the rows they read and write. *)

Busy(o)    == pc[o] \in {"claim", "insert", "settle", "fired"}
Reading(o) == pc[o] = "loaded" \/ Busy(o)

\* A tick comes to its end in time.
InTick == \A o \in Owner :
    /\ 1 <= now[o] \/ ~Reading(o)
    /\ pc[o] \in {"loading", "loaded"}
          => 1 <= now[o] /\ now[o] <= clock /\ clock <= now[o] + ReadLag
    /\ Busy(o) => now[o] <= clock /\ clock <= now[o] + FireLag

Written(r) == 1 <= r.upd /\ r.upd <= clock /\ r.next # 0

\* What is a state row was written, and lands in time.
RowsWritten ==
    /\ \A r \in wire : Written(r) /\ clock <= r.upd + WriteLag
    /\ state = NoState \/ Written(state)
    /\ \A o \in Owner : seen[o] = NoState \/ Written(seen[o])

Timed == TypeOK /\ InTick /\ RowsWritten

\* A step of a tick.
Tick(o) == \/ Load(o) \/ LoadState(o) \/ Begin(o)
           \/ List(o) \/ InsertClaim(o) \/ Arbitrate(o) \/ ClaimError(o)
           \/ WriteState(o) \/ Crash(o)

\* A step in which the tick of o dispatches.
Fires(o) == pc[o] \in {"claim", "settle"} /\ pc'[o] = "fired"

LEMMA VerdictShape ==
    ASSUME TypeOK, NEW o \in Owner, NEW c \in claims, Verdict(o, c)
    PROVE  /\ \A p \in Owner : p # o => /\ pc'[p] = pc[p] /\ seen'[p] = seen[p]
                                        /\ now'[p] = now[p]
           /\ \/ /\ c.owner = o /\ pc'[o] = "fired" /\ seen' = seen /\ now' = now
                 /\ \A f \in fires' :
                      \/ f \in fires
                      \/ /\ f.key = Current(o) /\ f.owner = o /\ f.at = now[o]
                         /\ f.nth = seen[o].count + 1
                 /\ \E f \in fires' : f.key = Current(o) /\ f.owner = o /\ f.at = now[o]
                                      /\ f.nth = seen[o].count + 1
                 /\ fires \subseteq fires'
              \/ /\ c.owner # o /\ pc'[o] = "idle" /\ seen'[o] = NoState /\ now'[o] = 0
                 /\ fires' = fires
<1>1. CASE c.owner = o
  <2>1. Dispatch(o)
    BY <1>1 DEF Verdict
  <2> DEFINE f == [key |-> Current(o), owner |-> o, at |-> now[o], nth |-> seen[o].count + 1]
  <2>2. /\ f.key = Current(o) /\ f.owner = o /\ f.at = now[o] /\ f.nth = seen[o].count + 1
        /\ fires' = fires \cup {f}
    BY <2>1 DEF Dispatch
  <2> HIDE DEF f
  <2> QED BY <1>1, <2>1, <2>2 DEF Dispatch, TypeOK
<1>2. CASE c.owner # o
  BY <1>2 DEF Verdict, Forget, TypeOK
<1> QED BY <1>1, <1>2

\* What a step of a tick leaves alone.
LEMMA TickShape ==
    ASSUME TypeOK, NEW o \in Owner, Tick(o)
    PROVE  /\ clock' = clock /\ def' = def /\ enabled' = enabled /\ since' = since
           /\ state' = state /\ post' = post
           /\ upset \subseteq upset'
           /\ \A p \in Owner : p # o => /\ pc'[p] = pc[p] /\ seen'[p] = seen[p]
                                        /\ now'[p] = now[p] /\ due'[p] = due[p]
           /\ pc'[o] # "loaded" => seen'[o] = seen[o] \/ seen'[o] = NoState
           /\ ~WriteState(o) =>
                \/ wire' = wire
                \/ /\ Crash(o) /\ pc'[o] = "down" /\ wire' \subseteq wire
                   /\ \A r \in wire : r.owner \notin {o, 0} => r \in wire'
           /\ ~Fires(o) => fires' = fires
           /\ fires \subseteq fires' /\ claims \subseteq claims'
<1>1. CASE Load(o)
  BY <1>1 DEF Load, Upset, TypeOK
<1>2. CASE LoadState(o)
  BY <1>2 DEF LoadState, Upset, TypeOK
<1>3. CASE Begin(o)
  BY <1>3 DEF Begin, Forget, TypeOK
<1>4. CASE List(o)
  <2>1. CASE pc' = [pc EXCEPT ![o] = "insert"] /\ UNCHANGED <<seen, now, fires>>
    BY <1>4, <2>1 DEF List, TypeOK
  <2>2. CASE \E c \in claims : Verdict(o, c)
    BY <1>4, <2>2, VerdictShape DEF List, Fires
  <2> QED BY <1>4, <2>1, <2>2 DEF List
<1>5. CASE InsertClaim(o)
  BY <1>5 DEF InsertClaim, TypeOK
<1>6. CASE Arbitrate(o)
  <2>1. /\ pc[o] = "settle"
        /\ UNCHANGED <<clock, def, enabled, since, state, wire, due, claims, post, upset>>
    BY <1>6 DEF Arbitrate
  <2>2. PICK c \in claims : Verdict(o, c)
    BY <1>6 DEF Arbitrate
  <2> QED BY <2>1, <2>2, VerdictShape DEF Fires
<1>7. CASE ClaimError(o)
  BY <1>7 DEF ClaimError, Forget, Upset, TypeOK
<1>8. CASE WriteState(o)
  BY <1>8 DEF WriteState, Forget, TypeOK
<1>9. CASE Crash(o)
  BY <1>9 DEF Crash, Forget, Upset, TypeOK
<1> QED BY <1>1, <1>2, <1>3, <1>4, <1>5, <1>6, <1>7, <1>8, <1>9 DEF Tick

\* Where a step takes the tick of o, by where it ends.
LEMMA TickPath ==
    ASSUME TypeOK, NEW o \in Owner, Tick(o)
    PROVE  /\ pc'[o] = "loading" =>
                /\ pc[o] = "idle" /\ due[o] <= clock /\ now'[o] = clock
                /\ due'[o] = due[o] + Period * ((clock - due[o]) \div Period + 1)
           /\ pc'[o] = "loaded" =>
                /\ pc[o] = "loading" /\ now'[o] = now[o] /\ due'[o] = due[o]
                /\ seen'[o] = state \/ (seen'[o] = NoState /\ "blind" \in upset')
           /\ pc'[o] = "claim" =>
                /\ pc[o] = "loaded" /\ IsDue(seen[o], clock)
                /\ now'[o] = clock /\ seen'[o] = seen[o] /\ due'[o] = due[o]
           /\ pc'[o] = "insert" =>
                /\ pc[o] = "claim" /\ now'[o] = now[o] /\ seen'[o] = seen[o]
                /\ due'[o] = due[o] /\ LiveClaims(Current(o), now[o]) = {}
           /\ pc'[o] = "settle" =>
                /\ pc[o] = "insert" /\ now'[o] = now[o] /\ seen'[o] = seen[o]
                /\ due'[o] = due[o] /\ claims' = claims \cup {ClaimOf(o)}
           /\ pc'[o] = "fired" =>
                /\ Fires(o) /\ now'[o] = now[o] /\ seen'[o] = seen[o]
                /\ due'[o] = due[o] /\ claims' = claims
           /\ WriteState(o) => pc[o] = "fired" /\ pc'[o] = "idle"
           /\ pc'[o] = "idle" =>
                \/ Reading(o) /\ due'[o] = due[o]
                \/ /\ pc[o] = "idle" /\ due[o] <= clock
                   /\ due'[o] = due[o] + Period * ((clock - due[o]) \div Period + 1)
           /\ pc[o] = "down" => pc'[o] = "down"
           /\ claims' = claims \/ (pc[o] = "insert" /\ claims' = claims \cup {ClaimOf(o)})
<1>1. CASE Load(o)
  BY <1>1 DEF Load, Upset, TypeOK, WriteState
<1>2. CASE LoadState(o)
  BY <1>2 DEF LoadState, Upset, TypeOK, WriteState
<1>3. CASE Begin(o)
  BY <1>3 DEF Begin, Forget, TypeOK, WriteState, Reading
<1>4. CASE List(o)
  <2>1. CASE /\ LiveClaims(Current(o), now[o]) = {}
             /\ pc' = [pc EXCEPT ![o] = "insert"] /\ UNCHANGED <<seen, now, fires>>
    BY <1>4, <2>1 DEF List, TypeOK, WriteState
  <2>2. CASE \E c \in claims : Verdict(o, c)
    <3>1. \/ pc'[o] = "fired" /\ seen' = seen /\ now' = now
          \/ pc'[o] = "idle"
      BY <2>2, VerdictShape
    <3> QED BY <1>4, <3>1 DEF List, Fires, WriteState, Reading, Busy
  <2> QED BY <1>4, <2>1, <2>2 DEF List
<1>5. CASE InsertClaim(o)
  BY <1>5 DEF InsertClaim, TypeOK, WriteState
<1>6. CASE Arbitrate(o)
  <2>1. \/ pc'[o] = "fired" /\ seen' = seen /\ now' = now
        \/ pc'[o] = "idle"
    BY <1>6, VerdictShape DEF Arbitrate
  <2> QED BY <1>6, <2>1 DEF Arbitrate, Fires, WriteState, Reading, Busy
<1>7. CASE ClaimError(o)
  BY <1>7 DEF ClaimError, Forget, TypeOK, WriteState, Reading, Busy
<1>8. CASE WriteState(o)
  BY <1>8 DEF WriteState, Forget, TypeOK, Reading, Busy
<1>9. CASE Crash(o)
  BY <1>9 DEF Crash, Forget, TypeOK, WriteState
<1> QED BY <1>1, <1>2, <1>3, <1>4, <1>5, <1>6, <1>7, <1>8, <1>9 DEF Tick

\* The dispatch of a step.
LEMMA NewFire ==
    ASSUME TypeOK, NEW o \in Owner, Tick(o)
    PROVE  \A f \in fires' :
             \/ f \in fires
             \/ /\ Fires(o) /\ now'[o] = now[o] /\ seen'[o] = seen[o]
                /\ f.key = Current(o) /\ f.owner = o /\ f.at = now[o]
                /\ f.nth = seen[o].count + 1
<1>1. CASE Fires(o)
  <2>1. List(o) \/ Arbitrate(o)
    BY <1>1 DEF Fires, Tick, Load, LoadState, Begin, InsertClaim, ClaimError, WriteState,
                Crash, TypeOK
  <2>2. CASE \E c \in claims : Verdict(o, c)
    BY <1>1, <2>2, VerdictShape
  <2>3. ~UNCHANGED fires => \E c \in claims : Verdict(o, c)
    BY <2>1 DEF List, Arbitrate
  <2> QED BY <2>2, <2>3
<1>2. CASE ~Fires(o)
  BY <1>2, TickShape
<1> QED BY <1>1, <1>2

\* The steps that are not of a tick.
Env == \/ \E r \in wire : Land(r) \/ Drop(r)
       \/ \E v \in BOOLEAN : ReadEdit(v)
       \/ WriteEdit
       \/ Advance
       \/ UNCHANGED vars

LEMMA NextCases == [Next]_vars => (\E o \in Owner : Tick(o)) \/ Env
BY DEF Next, Tick, Env

\* What is written when a tick or an edit ends.
TickRow(o, r) == /\ r.next = NextFire(now[o]) /\ r.last = now[o]
                 /\ r.count = seen[o].count + 1 /\ r.owner = o /\ r.upd = clock

EditRow(r) == /\ r.next = NextFire(clock) /\ r.last = post.seen.last
              /\ r.count = post.seen.count /\ r.owner = post.seen.owner /\ r.upd = clock
              /\ post.seen.next = 0

LEMMA EnvShape ==
    ASSUME TypeOK, Env
    PROVE  /\ def' = def /\ pc' = pc /\ due' = due /\ seen' = seen /\ now' = now
           /\ claims' = claims /\ fires' = fires
           /\ upset \subseteq upset'
           /\ \/ clock' = clock
              \/ /\ clock' = clock + 1 /\ wire' = wire /\ state' = state
                 /\ \A o \in Owner : InTime(o)
                 /\ \A r \in wire : clock < r.upd + WriteLag
           /\ state.upd <= state'.upd
           /\ state' = state \/ state' \in wire
           /\ \A r \in wire' : r \in wire \/ (EditRow(r) /\ post \in Edit)
           /\ "drop" \notin upset' => \A r \in wire : r \in wire' \/ r.upd <= state'.upd
<1>r. state.upd \in Nat /\ \A r \in wire : r.upd \in Nat
  BY DEF TypeOK, Row
<1>1. ASSUME NEW r \in wire, Land(r) PROVE
           /\ def' = def /\ pc' = pc /\ due' = due /\ seen' = seen /\ now' = now
           /\ claims' = claims /\ fires' = fires /\ upset' = upset /\ clock' = clock
           /\ state.upd <= state'.upd /\ r.upd <= state'.upd
           /\ state' = state \/ state' \in wire
           /\ wire' = wire \ {r}
  BY <1>1, <1>r DEF Land
<1>2. ASSUME NEW r \in wire, Drop(r) PROVE
           /\ def' = def /\ pc' = pc /\ due' = due /\ seen' = seen /\ now' = now
           /\ claims' = claims /\ fires' = fires /\ clock' = clock /\ state' = state
           /\ upset \subseteq upset' /\ "drop" \in upset'
           /\ wire' = wire \ {r}
  BY <1>2 DEF Drop, Upset
<1>3. ASSUME NEW v \in BOOLEAN, ReadEdit(v) PROVE
           /\ def' = def /\ pc' = pc /\ due' = due /\ seen' = seen /\ now' = now
           /\ claims' = claims /\ fires' = fires /\ clock' = clock /\ state' = state
           /\ upset \subseteq upset' /\ wire' = wire
  BY <1>3 DEF ReadEdit, Upset
<1>4. ASSUME WriteEdit PROVE
           /\ def' = def /\ pc' = pc /\ due' = due /\ seen' = seen /\ now' = now
           /\ claims' = claims /\ fires' = fires /\ clock' = clock /\ state' = state
           /\ upset' = upset /\ wire \subseteq wire' /\ post \in Edit
           /\ \A r \in wire' : r \in wire \/ EditRow(r)
  BY <1>4 DEF WriteEdit, EditRow, TypeOK
<1>5. ASSUME Advance PROVE
           /\ def' = def /\ pc' = pc /\ due' = due /\ seen' = seen /\ now' = now
           /\ claims' = claims /\ fires' = fires /\ state' = state
           /\ upset' = upset /\ wire' = wire /\ clock' = clock + 1
           /\ \A o \in Owner : InTime(o)
           /\ \A r \in wire : clock < r.upd + WriteLag
  BY <1>5 DEF Advance
<1>6. ASSUME UNCHANGED vars PROVE
           /\ def' = def /\ pc' = pc /\ due' = due /\ seen' = seen /\ now' = now
           /\ claims' = claims /\ fires' = fires /\ clock' = clock /\ state' = state
           /\ upset' = upset /\ wire' = wire
  BY <1>6 DEF vars
<1>7. CASE \E r \in wire : Land(r)
  BY <1>1, <1>7
<1>8. CASE \E r \in wire : Drop(r)
  BY <1>2, <1>8, <1>r
<1>9. CASE \E v \in BOOLEAN : ReadEdit(v)
  BY <1>3, <1>9, <1>r
<1>10. CASE WriteEdit
  BY <1>4, <1>10, <1>r
<1>11. CASE Advance
  BY <1>5, <1>11, <1>r
<1>12. CASE UNCHANGED vars
  BY <1>6, <1>12, <1>r
<1> QED BY <1>7, <1>8, <1>9, <1>10, <1>11, <1>12 DEF Env

LEMMA NewRow ==
    ASSUME TypeOK, NEW o \in Owner, Tick(o)
    PROVE  \A r \in wire' : r \in wire \/ (WriteState(o) /\ TickRow(o, r))
<1>1. CASE WriteState(o)
  BY <1>1 DEF WriteState, TickRow
<1>2. CASE ~WriteState(o)
  BY <1>2, TickShape
<1> QED BY <1>1, <1>2

LEMMA NatClock == TypeOK => /\ clock \in Nat /\ 1 <= clock
                            /\ now \in [Owner -> Nat] /\ seen \in [Owner -> Row]
                            /\ due \in [Owner -> Nat]
                            /\ state \in Row /\ wire \subseteq Row
BY DEF TypeOK

LEMMA TimedStep == Timed /\ [Next]_vars => Timed'
<1> SUFFICES ASSUME Timed, [Next]_vars PROVE Timed'
  OBVIOUS
<1> USE DEF Timed
<1>t. TypeOK'
  BY TypeStep
<1>n. /\ clock \in Nat /\ 1 <= clock
      /\ now \in [Owner -> Nat] /\ seen \in [Owner -> Row]
      /\ state \in Row /\ wire \subseteq Row
  BY NatClock
<1>1. ASSUME NEW o \in Owner, Tick(o) PROVE InTick' /\ RowsWritten'
  <2>1. clock' = clock /\ state' = state
        /\ \A p \in Owner : p # o => pc'[p] = pc[p] /\ seen'[p] = seen[p] /\ now'[p] = now[p]
    BY <1>1, TickShape
  <2>2. InTick'
    <3>1. pc'[o] \in {"loading", "claim"} => now'[o] = clock
      BY <1>1, TickPath
    <3>2. pc'[o] = "loaded" => pc[o] = "loading" /\ now'[o] = now[o]
      BY <1>1, TickPath
    <3>3. pc'[o] \in {"insert", "settle", "fired"} => Busy(o) /\ now'[o] = now[o]
      BY <1>1, TickPath DEF Busy, Fires
    <3>4. ASSUME NEW p \in Owner
          PROVE  /\ 1 <= now'[p] \/ ~Reading(p)'
                 /\ pc'[p] \in {"loading", "loaded"}
                      => 1 <= now'[p] /\ now'[p] <= clock /\ clock <= now'[p] + ReadLag
                 /\ Busy(p)' => now'[p] <= clock /\ clock <= now'[p] + FireLag
      <4>1. CASE p = o
        BY <1>n, <3>1, <3>2, <3>3, <4>1 DEF InTick, Reading, Busy
      <4>2. CASE p # o
        BY <1>n, <2>1, <4>2 DEF InTick, Reading, Busy
      <4> QED BY <4>1, <4>2
    <3> QED BY <2>1, <3>4 DEF InTick
  <2>3. \A r \in wire' : Written(r)' /\ clock' <= r.upd + WriteLag
    <3>1. ASSUME NEW r, TickRow(o, r) PROVE Written(r)' /\ clock' <= r.upd + WriteLag
      <4>1. NextFire(now[o]) # 0
        BY <1>n, NextIsAhead
      <4> QED BY <1>n, <2>1, <3>1, <4>1 DEF TickRow, Written
    <3> QED BY <1>1, <2>1, <3>1, NewRow DEF RowsWritten, Written
  <2>4. seen'[o] = seen[o] \/ seen'[o] = NoState \/ seen'[o] = state
    BY <1>1, TickShape, TickPath
  <2> QED BY <2>1, <2>2, <2>3, <2>4 DEF RowsWritten, Written
<1>2. ASSUME Env PROVE InTick' /\ RowsWritten'
  <2>1. /\ pc' = pc /\ seen' = seen /\ now' = now
        /\ \/ clock' = clock
           \/ /\ clock' = clock + 1 /\ wire' = wire
              /\ \A o \in Owner : InTime(o)
              /\ \A r \in wire : clock < r.upd + WriteLag
        /\ state' = state \/ state' \in wire
        /\ \A r \in wire' : r \in wire \/ EditRow(r)
    BY <1>2, EnvShape
  <2>2. InTick'
    BY <1>n, <2>1 DEF InTick, Busy, InTime, Reading
  <2>3. \A r \in wire' : Written(r)' /\ clock' <= r.upd + WriteLag
    <3>1. ASSUME NEW r, EditRow(r) PROVE Written(r) /\ clock <= r.upd + WriteLag
      <4>1. NextFire(clock) # 0
        BY <1>n, NextIsAhead
      <4> QED BY <1>n, <3>1, <4>1 DEF EditRow, Written
    <3>2. \A r \in wire : Written(r) /\ clock <= r.upd + WriteLag /\ r.upd \in Nat
      BY <1>n DEF RowsWritten, Row
    <3>3. CASE clock' = clock
      BY <2>1, <3>1, <3>2, <3>3 DEF Written
    <3>4. CASE clock' = clock + 1 /\ wire' = wire /\ \A r \in wire : clock < r.upd + WriteLag
      BY <1>n, <3>2, <3>4 DEF Written
    <3> QED BY <2>1, <3>3, <3>4
  <2>4. \A r \in Row : Written(r) => Written(r)'
    BY <1>n, <2>1 DEF Written, Row
  <2> QED BY <1>n, <2>1, <2>2, <2>3, <2>4 DEF RowsWritten
<1> QED BY <1>1, <1>2, <1>t, NextCases

-----------------------------------------------------------------------------
(* Dispatches, and the rows they leave. *)

\* The state row of a dispatch, or a newer one, is where it is to be by now.
Landed(f) ==
    \/ pc[f.owner] = "fired" /\ now[f.owner] = f.at
    \/ pc[f.owner] = "down"
    \/ \E r \in wire : r.owner = f.owner /\ f.at <= r.upd /\ r.upd <= f.at + FireLag
    \/ f.at <= state.upd

\* The tick of o read that row or a newer one.
Knows(o, f) == f.at <= seen[o].upd \/ ("blind" \in upset /\ seen[o] = NoState)

Late(o, f) ==
    /\ pc[f.owner] # "down"
    /\ \/ pc[o] = "loaded" /\ f.at + FireLag + WriteLag < now[o]
       \/ Busy(o) /\ f.at + FireLag + WriteLag + ReadLag < now[o]

Landing ==
    /\ \A f \in fires : 1 <= f.at /\ f.at <= clock
    /\ "drop" \notin upset => \A f \in fires :
          Landed(f) /\ \A o \in Owner : Late(o, f) => Knows(o, f)

\* What a row lands with is there when its dispatch is long past.
LEMMA LandedThen ==
    ASSUME Timed, NEW f \in fires, Landed(f), pc[f.owner] # "down",
           f.at + FireLag + WriteLag < clock
    PROVE  f.at <= state.upd
<1>1. f.owner \in Owner /\ f.at \in Nat /\ clock \in Nat
  BY DEF Timed, TypeOK
<1>2. ~(pc[f.owner] = "fired" /\ now[f.owner] = f.at)
  BY <1>1 DEF Timed, InTick, Busy
<1>3. ASSUME NEW r \in wire, r.upd <= f.at + FireLag PROVE FALSE
  <2>1. r.upd \in Nat /\ clock <= r.upd + WriteLag
    BY DEF Timed, TypeOK, Row, RowsWritten
  <2> QED BY <1>1, <1>3, <2>1
<1> QED BY <1>2, <1>3 DEF Landed

LEMMA LandingStep == Timed /\ Landing /\ [Next]_vars => Landing'
<1> SUFFICES ASSUME Timed, Landing, [Next]_vars PROVE Landing'
  OBVIOUS
<1>t. TypeOK
  BY DEF Timed
<1>n. /\ clock \in Nat /\ 1 <= clock
      /\ now \in [Owner -> Nat] /\ seen \in [Owner -> Row]
      /\ state \in Row /\ wire \subseteq Row
      /\ \A f \in fires : f.owner \in Owner /\ f.at \in Nat
  BY <1>t, NatClock DEF TypeOK
<1>i. InTick
  BY DEF Timed
<1>1. ASSUME NEW o \in Owner, Tick(o) PROVE Landing'
  <2>1. /\ clock' = clock /\ state' = state /\ upset \subseteq upset'
        /\ \A p \in Owner : p # o => pc'[p] = pc[p] /\ seen'[p] = seen[p] /\ now'[p] = now[p]
        /\ pc[o] = "down" => pc'[o] = "down"
    BY <1>1, <1>t, TickShape, TickPath
  <2>2. \A f \in fires' : 1 <= f.at /\ f.at <= clock
    <3>1. Fires(o) => 1 <= now[o] /\ now[o] <= clock
      BY <1>i DEF InTick, Reading, Busy, Fires
    <3> QED BY <1>1, <1>t, <3>1, NewFire DEF Landing
  <2>3. \A r \in wire : r \in wire' \/ (pc'[o] = "down" /\ r.owner \in {o, 0})
    <3>1. CASE WriteState(o)
      BY <3>1 DEF WriteState
    <3> QED BY <1>1, <1>t, <3>1, TickShape
  <2>4. ASSUME NEW f \in fires, Landed(f) PROVE Landed(f)'
    <3>1. CASE f.owner = o /\ pc[o] = "fired" /\ now[o] = f.at
      <4>1. CASE pc'[o] = "down"
        BY <3>1, <4>1 DEF Landed
      <4>2. CASE WriteState(o)
        <5>1. \E r \in wire' : r.owner = o /\ r.upd = clock
          <6> DEFINE r == [next |-> NextFire(now[o]), last |-> now[o],
                           count |-> seen[o].count + 1, owner |-> o, upd |-> clock]
          <6>1. r \in wire' /\ r.owner = o /\ r.upd = clock
            BY <4>2 DEF WriteState
          <6> QED BY <6>1
        <5>2. now[o] <= clock /\ clock <= now[o] + FireLag
          BY <1>i, <3>1 DEF InTick, Busy
        <5> QED BY <3>1, <5>1, <5>2 DEF Landed
      <4>3. CASE Crash(o)
        BY <1>t, <4>3, <4>1 DEF Crash, TypeOK
      <4> QED BY <1>1, <3>1, <4>2, <4>3
            DEF Tick, Load, LoadState, Begin, List, InsertClaim, Arbitrate, ClaimError
    <3>2. CASE \E r \in wire : r.owner = f.owner /\ f.at <= r.upd /\ r.upd <= f.at + FireLag
      <4>1. PICK r \in wire : r.owner = f.owner /\ f.at <= r.upd /\ r.upd <= f.at + FireLag
        BY <3>2
      <4>2. f.owner # 0
        BY <1>n
      <4>3. r \in wire' \/ (pc'[o] = "down" /\ f.owner = o)
        BY <2>3, <4>1, <4>2
      <4> QED BY <4>1, <4>3 DEF Landed
    <3>3. CASE /\ ~(f.owner = o /\ pc[o] = "fired" /\ now[o] = f.at)
               /\ ~ \E r \in wire : r.owner = f.owner /\ f.at <= r.upd /\ r.upd <= f.at + FireLag
      BY <1>n, <2>1, <2>4, <3>3 DEF Landed
    <3> QED BY <3>1, <3>2, <3>3
  <2>5. ASSUME "drop" \notin upset', NEW f \in fires' PROVE Landed(f)'
    <3>1. CASE f \in fires
      BY <2>1, <2>4, <2>5, <3>1 DEF Landing
    <3>2. CASE f \notin fires
      BY <1>1, <1>t, <3>2, NewFire DEF Landed, Fires
    <3> QED BY <3>1, <3>2
  <2>6. ASSUME "drop" \notin upset', NEW f \in fires', NEW p \in Owner, Late(p, f)'
        PROVE  Knows(p, f)'
    <3>0. /\ pc'[f.owner] # "down"
          /\ \/ pc'[p] = "loaded" /\ f.at + FireLag + WriteLag < now'[p]
             \/ Busy(p)' /\ f.at + FireLag + WriteLag + ReadLag < now'[p]
      BY <2>6 DEF Late
    <3>1. now'[p] <= clock /\ now'[p] \in Nat
      <4>1. Timed'
        BY TimedStep
      <4> QED BY <2>1, <3>0, <4>1 DEF Timed, InTick, TypeOK
    <3>2. f \in fires
      <4> SUFFICES ASSUME f \notin fires PROVE FALSE
        OBVIOUS
      <4>1. Fires(o) /\ f.at = now[o]
        BY <1>1, <1>t, NewFire
      <4>2. now[o] \in Nat /\ clock <= now[o] + FireLag
        BY <1>n, <1>i, <4>1 DEF InTick, Busy, Fires
      <4> QED BY <1>n, <3>0, <3>1, <4>1, <4>2
    <3>3. f.owner \in Owner /\ f.at \in Nat /\ pc[f.owner] # "down"
      BY <1>n, <2>1, <3>0, <3>2
    <3>4. CASE pc'[p] = "loaded" /\ p = o
      <4>1. f.at <= state.upd
        <5>1. f.at + FireLag + WriteLag < clock
          BY <1>n, <3>0, <3>1, <3>3, <3>4 DEF Busy
        <5>2. Landed(f)
          BY <2>1, <2>6, <3>2 DEF Landing
        <5> QED BY <3>2, <3>3, <5>1, <5>2, LandedThen
      <4>2. seen'[o] = state \/ (seen'[o] = NoState /\ "blind" \in upset')
        BY <1>1, <1>t, <3>4, TickPath
      <4> QED BY <3>4, <4>1, <4>2 DEF Knows
    <3>5. CASE ~(pc'[p] = "loaded" /\ p = o)
      <4>1. seen'[p] = seen[p] /\ Late(p, f)
        <5>1. CASE p # o
          BY <2>1, <3>0, <3>3, <5>1 DEF Busy, Late
        <5>2. CASE p = o /\ pc'[o] = "claim"
          <6>1. pc[o] = "loaded" /\ now'[o] = clock /\ seen'[o] = seen[o]
            BY <1>1, <1>t, <5>2, TickPath
          <6>2. clock <= now[o] + ReadLag /\ now[o] \in Nat
            BY <1>n, <1>i, <6>1 DEF InTick
          <6>3. f.at + FireLag + WriteLag < now[o]
            BY <1>n, <3>0, <3>3, <5>2, <6>1, <6>2
          <6> QED BY <3>3, <5>2, <6>1, <6>3 DEF Late
        <5>3. CASE p = o /\ pc'[o] \in {"insert", "settle", "fired"}
          <6>1. Busy(o) /\ now'[o] = now[o] /\ seen'[o] = seen[o]
            BY <1>1, <1>t, <5>3, TickPath DEF Busy, Fires
          <6> QED BY <3>0, <3>3, <5>3, <6>1 DEF Late
        <5> QED BY <3>0, <3>5, <5>1, <5>2, <5>3 DEF Busy
      <4>2. Knows(p, f)
        BY <2>1, <2>6, <3>2, <4>1 DEF Landing
      <4> QED BY <2>1, <4>1, <4>2 DEF Knows
    <3> QED BY <3>4, <3>5
  <2> QED BY <2>1, <2>2, <2>5, <2>6 DEF Landing
<1>2. ASSUME Env PROVE Landing'
  <2>1. /\ pc' = pc /\ seen' = seen /\ now' = now /\ fires' = fires /\ upset \subseteq upset'
        /\ clock' = clock \/ clock' = clock + 1
        /\ state.upd <= state'.upd /\ state' \in Row
        /\ "drop" \notin upset' => \A r \in wire : r \in wire' \/ r.upd <= state'.upd
    BY <1>2, <1>t, <1>n, EnvShape
  <2>2. \A f \in fires' : 1 <= f.at /\ f.at <= clock'
    BY <1>n, <2>1 DEF Landing
  <2>3. ASSUME "drop" \notin upset', NEW f \in fires', Landed(f) PROVE Landed(f)'
    <3>1. f.at \in Nat /\ state.upd \in Nat /\ state'.upd \in Nat
          /\ \A r \in wire : r.upd \in Nat
      BY <1>n, <2>1 DEF Row
    <3> QED BY <2>1, <2>3, <3>1 DEF Landed
  <2>4. \A f \in fires, p \in Owner : (Late(p, f)' => Late(p, f)) /\ (Knows(p, f) => Knows(p, f)')
    BY <2>1 DEF Late, Busy, Knows
  <2> QED BY <2>1, <2>2, <2>3, <2>4 DEF Landing
<1> QED BY <1>1, <1>2, NextCases

\* Where the key of an occurrence comes from.
LEMMA KeySource ==
    ASSUME TypeOK, NEW st \in Row, NEW t \in Nat
    PROVE  /\ st.next # 0 => FireKey(st, t) = [kind |-> "at", n |-> st.next]
           /\ st.next = 0 /\ def.next # 0 => FireKey(st, t) = [kind |-> "at", n |-> def.next]
           /\ st.next = 0 /\ def.next = 0 /\ def.daily
                => FireKey(st, t) = [kind |-> "day", n |-> DayOf(t)]
           /\ st.next = 0 /\ def.next = 0 /\ ~def.daily
                => FireKey(st, t) = [kind |-> "iv", n |-> t \div Every]
<1>1. def.next \in Nat /\ def.daily \in BOOLEAN /\ st.next \in Nat
  BY DEF TypeOK, Row
<1>2. ASSUME st.next # 0 PROVE FireKey(st, t) = [kind |-> "at", n |-> st.next]
  BY <1>1, <1>2 DEF FireKey
<1>3. ASSUME st.next = 0, def.next # 0
      PROVE  FireKey(st, t) = [kind |-> "at", n |-> def.next]
  BY <1>1, <1>3 DEF FireKey
<1>4. ASSUME st.next = 0, def.next = 0, def.daily
      PROVE  FireKey(st, t) = [kind |-> "day", n |-> DayOf(t)]
  BY <1>1, <1>4 DEF FireKey
<1>5. ASSUME st.next = 0, def.next = 0, ~def.daily
      PROVE  FireKey(st, t) = [kind |-> "iv", n |-> t \div Every]
  BY <1>1, <1>5 DEF FireKey
<1> QED BY <1>2, <1>3, <1>4, <1>5


LEMMA FallbackStep ==
    Timed /\ Landing /\ FallbackOnlyWithoutState /\ [Next]_vars => FallbackOnlyWithoutState'
<1> SUFFICES ASSUME Timed, Landing, FallbackOnlyWithoutState, [Next]_vars,
                    ("blind" \notin upset /\ "drop" \notin upset)',
                    NEW f \in fires', NEW g \in fires',
                    g.key.kind # "at", pc'[f.owner] # "down"
             PROVE  g.at <= f.at + FireLag + WriteLag + ReadLag
  BY DEF FallbackOnlyWithoutState
<1>t. TypeOK
  BY DEF Timed
<1>n. /\ clock \in Nat /\ now \in [Owner -> Nat] /\ seen \in [Owner -> Row]
      /\ \A e \in fires : e.at \in Nat /\ e.owner \in Owner
  BY <1>t, NatClock DEF TypeOK
<1>1. ASSUME NEW o \in Owner, Tick(o) PROVE g.at <= f.at + FireLag + WriteLag + ReadLag
  <2>1. /\ upset \subseteq upset'
        /\ pc[o] = "down" => pc'[o] = "down"
        /\ \A p \in Owner : p # o => pc'[p] = pc[p]
    BY <1>1, <1>t, TickShape, TickPath
  <2>2. "blind" \notin upset /\ "drop" \notin upset
    BY <2>1
  <2>3. CASE f \in fires /\ g \in fires
    <3>1. pc[f.owner] # "down"
      BY <1>n, <2>1, <2>3
    <3> QED BY <2>2, <2>3, <3>1 DEF FallbackOnlyWithoutState
  <2>4. ASSUME Fires(o) PROVE clock <= now[o] + FireLag /\ now[o] \in Nat /\ now[o] <= clock
    BY <1>n, <2>4 DEF Timed, InTick, Busy, Fires
  <2>5. CASE f \notin fires
    <3>1. f.at = now[o] /\ Fires(o)
      BY <1>1, <1>t, <2>5, NewFire
    <3>2. g.at \in Nat /\ g.at <= clock
      BY <1>n, <1>1, <1>t, <2>4, <3>1, NewFire DEF Landing
    <3> QED BY <1>n, <2>4, <3>1, <3>2
  <2>6. CASE f \in fires /\ g \notin fires
    <3>1. g.at = now[o] /\ Fires(o) /\ g.key = FireKey(seen[o], now[o])
      BY <1>1, <1>t, <2>6, NewFire DEF Current
    <3>2. seen[o] = NoState
      <4>1. seen[o] = NoState \/ seen[o].next # 0
        BY DEF Timed, RowsWritten, Written
      <4>2. seen[o].next # 0 => g.key = [kind |-> "at", n |-> seen[o].next]
        BY <1>n, <1>t, <3>1, KeySource
      <4> QED BY <4>1, <4>2
    <3>3. ~(f.at <= seen[o].upd) /\ f.at \in Nat
      BY <1>n, <2>6, <3>2 DEF Landing, NoState
    <3>4. ~Late(o, f)
      BY <2>2, <2>6, <3>3 DEF Landing, Knows
    <3>5. pc[f.owner] # "down"
      BY <1>n, <2>1, <2>6
    <3>6. ~(f.at + FireLag + WriteLag + ReadLag < now[o])
      BY <3>1, <3>4, <3>5 DEF Late, Busy, Fires
    <3> QED BY <1>n, <2>4, <3>1, <3>3, <3>6
  <2> QED BY <2>3, <2>5, <2>6
<1>2. ASSUME Env PROVE g.at <= f.at + FireLag + WriteLag + ReadLag
  <2>1. fires' = fires /\ pc' = pc /\ upset \subseteq upset'
    BY <1>2, <1>t, EnvShape
  <2> QED BY <2>1 DEF FallbackOnlyWithoutState
<1> QED BY <1>1, <1>2, NextCases

LEMMA TimedInit == Init => Timed /\ Landing
BY TypeInit DEF Init, Timed, InTick, RowsWritten, Landing, Reading, Busy

\* scheduleDueWithState, the state row is authoritative when present: while no
\* read fails and no row is lost, no tick falls back to a wall-clock key later
\* than the longest time a dispatch and its row can take, whatever the schedule,
\* the lease and the number of processes.
THEOREM FallbackIsBounded == Spec => []FallbackOnlyWithoutState
<1> DEFINE Inv == Timed /\ Landing /\ FallbackOnlyWithoutState
<1>1. Init => Inv
  BY TimedInit DEF Init, FallbackOnlyWithoutState
<1>2. Inv /\ [Next]_vars => Inv'
  BY TimedStep, LandingStep, FallbackStep
<1> QED BY <1>1, <1>2, PTL DEF Spec

-----------------------------------------------------------------------------
(* Interval schedules: what a row names lies an interval after its dispatch. *)

Intervals == \A d \in Defs : ~d.daily

Ahead(r) == r.upd + Every <= r.next + FireLag /\ r.next <= r.upd + Every

RowsAhead ==
    /\ \A r \in wire : Ahead(r)
    /\ state = NoState \/ Ahead(state)
    /\ \A o \in Owner : seen[o] = NoState \/ Ahead(seen[o])

LEMMA AheadStep == Intervals /\ Timed /\ RowsAhead /\ [Next]_vars => RowsAhead'
<1> SUFFICES ASSUME Intervals, Timed, RowsAhead, [Next]_vars PROVE RowsAhead'
  OBVIOUS
<1>t. TypeOK
  BY DEF Timed
<1>n. clock \in Nat /\ now \in [Owner -> Nat] /\ seen \in [Owner -> Row] /\ ~def.daily
  BY <1>t, NatClock DEF Intervals, TypeOK
<1>1. ASSUME NEW o \in Owner, Tick(o) PROVE RowsAhead'
  <2>1. /\ state' = state
        /\ \A p \in Owner : p # o => seen'[p] = seen[p]
        /\ seen'[o] = seen[o] \/ seen'[o] = NoState \/ seen'[o] = state
    BY <1>1, <1>t, TickShape, TickPath
  <2>2. ASSUME NEW r, WriteState(o), TickRow(o, r) PROVE Ahead(r)
    <3>1. now[o] <= clock /\ clock <= now[o] + FireLag
      BY <1>1, <1>t, <2>2, TickPath DEF Timed, InTick, Busy
    <3>2. NextFire(now[o]) = now[o] + Every
      BY <1>n, NextIsAhead
    <3>3. now[o] \in Nat
      BY <1>n
    <3>4. r.upd = clock /\ r.next = now[o] + Every
      BY <2>2, <3>2 DEF TickRow
    <3> QED BY <1>n, <3>1, <3>3, <3>4 DEF Ahead
  <2>3. \A r \in wire' : Ahead(r)
    BY <1>1, <1>t, <2>2, NewRow DEF RowsAhead
  <2> QED BY <2>1, <2>3 DEF RowsAhead, Ahead
<1>2. ASSUME Env PROVE RowsAhead'
  <2>1. seen' = seen /\ (state' = state \/ state' \in wire)
        /\ \A r \in wire' : r \in wire \/ EditRow(r)
    BY <1>2, <1>t, EnvShape
  <2>2. ASSUME NEW r, EditRow(r) PROVE Ahead(r)
    BY <1>n, <2>2, NextIsAhead DEF EditRow, Ahead
  <2> QED BY <2>1, <2>2 DEF RowsAhead, Ahead
<1> QED BY <1>1, <1>2, NextCases

\* Whatever order the rows land in, whatever is lost and whoever dies, a state
\* row that lands moves an interval schedule back by no more than the time a
\* tick takes from its clock reading to its row.
THEOREM IntervalMovesOn ==
    ASSUME Intervals
    PROVE  Spec => NeverMovesBack
<1> DEFINE Inv == Timed /\ RowsAhead
<1>1. Init => Inv
  BY TimedInit DEF Init, RowsAhead
<1>2. Inv /\ [Next]_vars => Inv'
  BY TimedStep, AheadStep
<1>3. Inv /\ [Next]_vars =>
        [IF def.daily THEN upset \subseteq {"crash"} => state'.next >= state.next
                      ELSE state'.next >= state.next - FireLag]_vars
  <2> SUFFICES ASSUME Timed, RowsAhead, [Next]_vars
               PROVE  ~def.daily /\ state'.next >= state.next - FireLag
    OBVIOUS
  <2>1. TypeOK
    BY DEF Timed
  <2>2. ~def.daily /\ state \in Row /\ wire \subseteq Row
    BY <2>1 DEF Intervals, TypeOK
  <2>3. \/ state' = state
        \/ state' \in wire /\ state.upd <= state'.upd
    <3>1. CASE Env
      BY <2>1, <3>1, EnvShape
    <3>2. CASE \E o \in Owner : Tick(o)
      BY <2>1, <3>2, TickShape
    <3> QED BY <3>1, <3>2, NextCases
  <2>4. CASE state' = state
    BY <2>2, <2>4 DEF Row
  <2>5. CASE state' \in wire /\ state.upd <= state'.upd
    <3>1. Ahead(state')
      BY <2>5 DEF RowsAhead
    <3>2. CASE state = NoState
      BY <2>2, <2>5, <3>2 DEF NoState, Row
    <3>3. CASE Ahead(state)
      BY <2>2, <2>5, <3>1, <3>3 DEF Ahead, Row
    <3> QED BY <3>2, <3>3 DEF RowsAhead
  <2> QED BY <2>2, <2>3, <2>4, <2>5
<1> QED BY <1>1, <1>2, <1>3, PTL DEF Spec, NeverMovesBack
-----------------------------------------------------------------------------
(* No second dispatch while the first one's process is alive. *)

\* A row lands before the next tick of its process reads the rows and before its
\* lease ends, and a dispatch is shorter than an interval.
Brisk == /\ FireLag + WriteLag + 2 * ReadLag < Period
         /\ FireLag + WriteLag + ReadLag < TTL
         /\ FireLag < Every

\* A ticker keeps its grid: the next tick begins a period after the one in progress.
OnGrid ==
    \A o \in Owner :
        /\ pc[o] = "idle" => clock <= due[o]
        /\ pc[o] \in {"loading", "loaded"} => due[o] = now[o] + Period
        /\ Busy(o) => /\ due[o] <= now[o] + Period /\ now[o] + Period <= due[o] + ReadLag
                      /\ IsDue(seen[o], now[o])

\* The ticks in which a process dispatched lie a period apart, or nearly so.
OwnGap ==
    \A f \in fires : LET o == f.owner IN
        /\ pc[o] # "down" => f.at + Period <= due[o] + ReadLag
        /\ pc[o] \notin {"idle", "down"} =>
              f.at + Period <= now[o] + ReadLag \/ (pc[o] = "fired" /\ f.at = now[o])

\* An occurrence is not dispatched ahead of its time.
KeysDue == \A f \in fires : f.key.kind = "at" => f.key.n <= f.at

Ticks == OnGrid /\ OwnGap /\ KeysDue

LEMMA OnePeriod == ASSUME NEW d \in Nat PROVE d + Period * ((d - d) \div Period + 1) = d + Period
<1>1. (d - d) \div Period = 0
  OBVIOUS
<1> QED BY <1>1

LEMMA TicksStep == Brisk /\ Timed /\ Ticks /\ [Next]_vars => Ticks'
<1> SUFFICES ASSUME Brisk, Timed, Ticks, [Next]_vars PROVE Ticks'
  OBVIOUS
<1>t. TypeOK
  BY DEF Timed
<1>n. /\ clock \in Nat /\ now \in [Owner -> Nat] /\ due \in [Owner -> Nat] /\ seen \in [Owner -> Row]
      /\ def.next \in Nat /\ def.daily \in BOOLEAN
      /\ \A f \in fires : f.owner \in Owner /\ f.at \in Nat
  BY <1>t, NatClock DEF TypeOK
<1>i. InTick
  BY DEF Timed
<1>1. ASSUME NEW o \in Owner, Tick(o) PROVE Ticks'
  <2>1. /\ clock' = clock /\ def' = def
        /\ \A p \in Owner : p # o => /\ pc'[p] = pc[p] /\ seen'[p] = seen[p]
                                     /\ now'[p] = now[p] /\ due'[p] = due[p]
    BY <1>1, <1>t, TickShape
  <2>2. \A p \in Owner : p # o => /\ Busy(p)' = Busy(p)
                                  /\ IsDue(seen[p], now[p])' = IsDue(seen[p], now[p])
    BY <2>1 DEF Busy, IsDue, NextKnown, DueByDefinition
  <2>3. pc[o] = "idle" /\ due[o] <= clock =>
            due[o] = clock /\ due[o] + Period * ((clock - due[o]) \div Period + 1) = clock + Period
    <3> SUFFICES ASSUME pc[o] = "idle", due[o] <= clock
                 PROVE  /\ due[o] = clock
                        /\ due[o] + Period * ((clock - due[o]) \div Period + 1) = clock + Period
      OBVIOUS
    <3>1. due[o] = clock
      BY <1>n DEF Ticks, OnGrid
    <3> QED BY <1>n, <3>1, OnePeriod
  <2>4. Busy(o) =>
            /\ due[o] <= now[o] + Period /\ now[o] + Period <= due[o] + ReadLag
            /\ clock <= now[o] + FireLag /\ now[o] <= clock /\ IsDue(seen[o], now[o])
    BY <1>i DEF Ticks, OnGrid, InTick
  <2>5. pc[o] = "loaded" =>
            due[o] = now[o] + Period /\ now[o] <= clock /\ clock <= now[o] + ReadLag
    BY <1>i DEF Ticks, OnGrid, InTick
  <2>p. pc'[o] \in PC
    <3>1. TypeOK'
      BY <1>t, TypeStep
    <3> QED BY <3>1 DEF TypeOK
  <2>6. OnGrid'
    <3>1. CASE pc'[o] = "idle"
      <4>1. \/ Reading(o) /\ due'[o] = due[o]
            \/ due'[o] = clock + Period
        BY <1>1, <1>t, <2>3, <3>1, TickPath
      <4>2. Reading(o) => clock <= due[o]
        <5>1. due[o] \in Nat /\ now[o] \in Nat
          BY <1>n
        <5> QED BY <1>n, <2>4, <2>5, <5>1 DEF Reading, Brisk
      <4>3. clock' <= due'[o]
        BY <1>n, <2>1, <4>1, <4>2
      <4> QED BY <2>1, <2>2, <3>1, <4>3 DEF Ticks, OnGrid, Busy
    <3>2. CASE pc'[o] = "loading"
      <4>1. due'[o] = clock + Period /\ now'[o] = clock
        BY <1>1, <1>t, <2>3, <3>2, TickPath
      <4> QED BY <2>1, <2>2, <3>2, <4>1 DEF Ticks, OnGrid, Busy
    <3>3. CASE pc'[o] = "loaded"
      <4>1. due'[o] = due[o] /\ now'[o] = now[o] /\ pc[o] = "loading"
        BY <1>1, <1>t, <3>3, TickPath
      <4> QED BY <2>1, <2>2, <3>3, <4>1 DEF Ticks, OnGrid, Busy
    <3>4. CASE pc'[o] = "claim"
      <4>1. pc[o] = "loaded" /\ IsDue(seen[o], clock)
            /\ now'[o] = clock /\ seen'[o] = seen[o] /\ due'[o] = due[o]
        BY <1>1, <1>t, <3>4, TickPath
      <4>2. IsDue(seen[o], now[o])'
        BY <2>1, <4>1 DEF IsDue, NextKnown, DueByDefinition
      <4>3. now[o] \in Nat
        BY <1>n
      <4>4. due'[o] <= now'[o] + Period /\ now'[o] + Period <= due'[o] + ReadLag
        BY <1>n, <2>5, <4>1, <4>3
      <4> QED BY <2>1, <2>2, <3>4, <4>2, <4>4 DEF Ticks, OnGrid, Busy
    <3>5. CASE pc'[o] \in {"insert", "settle", "fired"}
      <4>1. Busy(o) /\ now'[o] = now[o] /\ seen'[o] = seen[o] /\ due'[o] = due[o]
        BY <1>1, <1>t, <3>5, TickPath DEF Busy, Fires
      <4>2. IsDue(seen[o], now[o])'
        BY <2>1, <2>4, <4>1 DEF IsDue, NextKnown, DueByDefinition
      <4> QED BY <2>1, <2>2, <2>4, <3>5, <4>1, <4>2 DEF Ticks, OnGrid, Busy
    <3>6. CASE pc'[o] = "down"
      BY <2>1, <2>2, <3>6 DEF Ticks, OnGrid, Busy
    <3> QED BY <2>p, <3>1, <3>2, <3>3, <3>4, <3>5, <3>6 DEF PC
  <2>7. ASSUME NEW f \in fires, f.owner = o
        PROVE  /\ pc'[o] # "down" => f.at + Period <= due'[o] + ReadLag
               /\ pc'[o] \notin {"idle", "down"} =>
                     \/ f.at + Period <= now'[o] + ReadLag
                     \/ pc'[o] = "fired" /\ f.at = now'[o]
    <3>1. /\ f.at \in Nat /\ due[o] \in Nat /\ now[o] \in Nat
          /\ pc[o] # "down" => f.at + Period <= due[o] + ReadLag
          /\ pc[o] \notin {"idle", "down"} =>
                f.at + Period <= now[o] + ReadLag \/ (pc[o] = "fired" /\ f.at = now[o])
      BY <1>n, <2>7 DEF Ticks, OwnGap
    <3>2. pc'[o] # "down" => pc[o] # "down"
      BY <1>1, <1>t, TickPath
    <3>3. pc'[o] # "down" => due'[o] = due[o] \/ (due'[o] = clock + Period /\ due[o] = clock)
      BY <1>1, <1>t, <2>3, <2>p, TickPath DEF PC
    <3>4. pc'[o] # "down" => f.at + Period <= due'[o] + ReadLag
      BY <1>n, <3>1, <3>2, <3>3
    <3>5. CASE pc'[o] = "loading"
      <4>1. pc[o] = "idle" /\ due[o] = clock /\ now'[o] = clock
        BY <1>1, <1>t, <2>3, <3>5, TickPath
      <4> QED BY <3>1, <3>4, <3>5, <4>1
    <3>6. CASE pc'[o] = "loaded"
      <4>1. pc[o] = "loading" /\ now'[o] = now[o]
        BY <1>1, <1>t, <3>6, TickPath
      <4> QED BY <3>1, <3>4, <3>6, <4>1
    <3>7. CASE pc'[o] = "claim"
      <4>1. pc[o] = "loaded" /\ now'[o] = clock /\ f.at + Period <= now[o] + ReadLag
        BY <1>1, <1>t, <3>1, <3>7, TickPath
      <4>2. f.at + Period <= now'[o] + ReadLag
        BY <1>n, <2>5, <3>1, <4>1
      <4> QED BY <3>4, <3>7, <4>2
    <3>8. CASE pc'[o] \in {"insert", "settle", "fired"}
      <4>1. pc[o] \in {"claim", "insert", "settle"} /\ now'[o] = now[o]
        BY <1>1, <1>t, <3>8, TickPath DEF Fires
      <4> QED BY <3>1, <3>4, <3>8, <4>1
    <3> QED BY <2>p, <3>4, <3>5, <3>6, <3>7, <3>8 DEF PC
  <2>8. OwnGap'
    <3> SUFFICES ASSUME NEW f \in fires'
                 PROVE  /\ pc'[f.owner] # "down" => f.at + Period <= due'[f.owner] + ReadLag
                        /\ pc'[f.owner] \notin {"idle", "down"} =>
                              \/ f.at + Period <= now'[f.owner] + ReadLag
                              \/ pc'[f.owner] = "fired" /\ f.at = now'[f.owner]
      BY DEF OwnGap
    <3>1. CASE f \in fires /\ f.owner = o
      BY <2>7, <3>1
    <3>2. CASE f \in fires /\ f.owner # o
      BY <1>n, <2>1, <3>2 DEF Ticks, OwnGap
    <3>3. CASE f \notin fires
      <4>1. f.owner = o /\ f.at = now[o] /\ Fires(o) /\ now'[o] = now[o]
        BY <1>1, <1>t, <3>3, NewFire
      <4>2. pc'[o] = "fired" /\ Busy(o)
        BY <4>1 DEF Fires, Busy
      <4>3. due'[o] = due[o]
        BY <1>1, <1>t, <4>2, TickPath
      <4> QED BY <2>4, <4>1, <4>2, <4>3
    <3> QED BY <3>1, <3>2, <3>3
  <2>9. KeysDue'
    <3> SUFFICES ASSUME NEW f \in fires', f \notin fires, f.key.kind = "at"
                 PROVE  f.key.n <= f.at
      BY DEF Ticks, KeysDue
    <3>1. f.key = FireKey(seen[o], now[o]) /\ f.at = now[o] /\ Busy(o)
      BY <1>1, <1>t, NewFire DEF Current, Fires, Busy
    <3>2. IsDue(seen[o], now[o]) /\ seen[o] \in Row /\ now[o] \in Nat
      BY <1>n, <2>4, <3>1
    <3>3. CASE seen[o].next # 0
      BY <1>t, <3>1, <3>2, <3>3, KeySource DEF IsDue, NextKnown
    <3>4. CASE seen[o].next = 0
      <4>1. f.key = [kind |-> "at", n |-> def.next] /\ def.next # 0
        BY <1>n, <1>t, <3>1, <3>2, <3>4, KeySource
      <4>2. seen[o] = NoState
        BY <3>4 DEF Timed, RowsWritten, Written
      <4>3. NextKnown(seen[o]) = def.next
        BY <3>4, <4>2 DEF NextKnown, NoState
      <4> QED BY <3>1, <3>2, <4>1, <4>3 DEF IsDue
    <3> QED BY <3>3, <3>4
  <2> QED BY <2>6, <2>8, <2>9 DEF Ticks
<1>2. ASSUME Env PROVE Ticks'
  <2>1. /\ def' = def /\ pc' = pc /\ seen' = seen /\ now' = now /\ due' = due /\ fires' = fires
        /\ clock' = clock \/ (clock' = clock + 1 /\ \A o \in Owner : InTime(o))
    BY <1>2, <1>t, EnvShape
  <2>2. \A o \in Owner : /\ Busy(o)' = Busy(o)
                         /\ IsDue(seen[o], now[o])' = IsDue(seen[o], now[o])
    BY <1>n, <2>1 DEF Busy, IsDue, NextKnown, DueByDefinition
  <2>3. OnGrid'
    BY <1>n, <2>1, <2>2 DEF Ticks, OnGrid, InTime
  <2>4. OwnGap' /\ KeysDue'
    BY <1>n, <2>1 DEF Ticks, OwnGap, KeysDue
  <2> QED BY <2>3, <2>4 DEF Ticks
<1> QED BY <1>1, <1>2, NextCases

\* A failed read brings back what the definition names.
Named(k) == k.kind = "at" /\ ("blind" \in upset => k.n # def.next)

\* Who is at an occurrence did not read, in time, the row of an earlier dispatch.
LEMMA NoSecond ==
    ASSUME Intervals, Brisk, Timed, Landing, RowsAhead, Ticks, "drop" \notin upset,
           NEW o \in Owner, Busy(o), Named(Current(o)),
           NEW f \in fires, f.key = Current(o)
    PROVE  ~Late(o, f)
<1> SUFFICES ASSUME Late(o, f) PROVE FALSE
  OBVIOUS
<1>t. TypeOK
  BY DEF Timed
<1>1. /\ seen[o] \in Row /\ now[o] \in Nat /\ f.at \in Nat /\ 1 <= f.at /\ def.next \in Nat
      /\ def.daily \in BOOLEAN
  BY <1>t DEF TypeOK, Landing
<1>2. Knows(o, f)
  BY DEF Landing
<1>3. CASE f.at <= seen[o].upd
  <2>1. seen[o] # NoState
    BY <1>1, <1>3 DEF NoState
  <2>2. Ahead(seen[o]) /\ seen[o].next # 0
    BY <2>1 DEF RowsAhead, Timed, RowsWritten, Written
  <2>3. f.key = [kind |-> "at", n |-> seen[o].next]
    BY <1>t, <1>1, <2>2, KeySource DEF Current
  <2>4. seen[o].next <= f.at
    BY <2>3 DEF Ticks, KeysDue
  <2>5. seen[o].next \in Nat /\ seen[o].upd \in Nat
    BY <1>1 DEF Row
  <2> QED BY <1>1, <1>3, <2>2, <2>4, <2>5 DEF Ahead, Brisk
<1>4. CASE "blind" \in upset /\ seen[o] = NoState
  <2>1. seen[o].next = 0
    BY <1>4 DEF NoState
  <2>2. def.next = 0 => Current(o).kind # "at"
    BY <1>t, <1>1, <2>1, KeySource DEF Current
  <2>3. def.next # 0 => Current(o) = [kind |-> "at", n |-> def.next]
    BY <1>t, <1>1, <2>1, KeySource DEF Current
  <2> QED BY <1>4, <2>2, <2>3 DEF Named
<1> QED BY <1>2, <1>3, <1>4 DEF Knows

\* ... nor dispatched it himself.
LEMMA OwnNone ==
    ASSUME Intervals, Brisk, Timed, Landing, RowsAhead, Ticks, "drop" \notin upset,
           NEW o \in Owner, pc[o] \in {"claim", "insert", "settle"}, Named(Current(o)),
           NEW f \in fires, f.key = Current(o)
    PROVE  f.owner # o
<1> SUFFICES ASSUME f.owner = o PROVE FALSE
  OBVIOUS
<1>1. f.at \in Nat /\ now[o] \in Nat
  <2>1. TypeOK
    BY DEF Timed
  <2> QED BY <2>1, NatClock DEF TypeOK
<1>2. f.at + Period <= now[o] + ReadLag
  BY DEF Ticks, OwnGap
<1>3. Busy(o)
  BY DEF Busy
<1>4. Late(o, f)
  BY <1>1, <1>2, <1>3 DEF Late, Brisk
<1> QED BY <1>3, <1>4, NoSecond

LEMMA ClaimOrder ==
    ASSUME TypeOK, NEW c \in claims, NEW d \in claims
    PROVE  /\ ~ClaimLess(c, c)
           /\ ~(ClaimLess(c, d) /\ ClaimLess(d, c))
           /\ \A e \in claims : ClaimLess(c, d) /\ ClaimLess(d, e) => ClaimLess(c, e)
           /\ ClaimLess(c, d) => c.stamp <= d.stamp
<1>1. \A e \in claims : e.stamp \in Nat /\ e.owner \in Nat
  BY DEF TypeOK
<1> QED BY <1>1 DEF ClaimLess

\* The process of a claim died, waits for the verdict, or dispatched with it.
Answerable(c) ==
    \/ pc[c.owner] = "down"
    \/ Unjudged(c)
    \/ \E f \in fires : f.key = c.key /\ f.owner = c.owner /\ f.at = c.stamp

\* Behind every claim is one that went before it, or itself, and whose process
\* answers for the occurrence.
Rooted(c) == \E d \in claims : /\ d.key = c.key /\ (d = c \/ ClaimLess(d, c))
                              /\ Answerable(d)

Roots == "error" \notin upset => \A c \in claims : Rooted(c)

LEMMA RootsStep == TypeOK /\ FiringInv /\ Roots /\ [Next]_vars => Roots'
<1> SUFFICES ASSUME TypeOK, FiringInv, Roots, [Next]_vars, "error" \notin upset',
                    NEW c \in claims'
             PROVE  Rooted(c)'
  BY DEF Roots
<1>n. /\ \A d \in claims : d.owner \in Owner /\ d.stamp \in Nat
      /\ now \in [Owner -> Nat] /\ Owner \subseteq Nat
      /\ claims \subseteq [key : Key, owner : Owner, stamp : Nat]
  BY NatClock DEF TypeOK
<1>1. ASSUME NEW o \in Owner, Tick(o) PROVE Rooted(c)'
  <2>1. /\ def' = def /\ upset \subseteq upset' /\ fires \subseteq fires' /\ claims \subseteq claims'
        /\ \A p \in Owner : p # o => pc'[p] = pc[p] /\ seen'[p] = seen[p] /\ now'[p] = now[p]
        /\ pc[o] = "down" => pc'[o] = "down"
    BY <1>1, TickShape, TickPath
  <2>2. \A d \in claims : Rooted(d)
    BY <2>1 DEF Roots
  \* a claim stays answerable, save that of a process that loses the arbitration
  <2>3. ASSUME NEW d \in claims, Answerable(d), ~(d.owner = o /\ Unjudged(d))
        PROVE  Answerable(d)'
    <3>1. CASE Unjudged(d)
      BY <1>n, <2>1, <2>3, <3>1 DEF Answerable, Unjudged, Current, FireKey
    <3>2. CASE ~Unjudged(d)
      BY <1>n, <2>1, <2>3, <3>2 DEF Answerable
    <3> QED BY <3>1, <3>2
  <2>4. CASE \E d \in claims : d.owner = o /\ Unjudged(d) /\ ~Answerable(d)'
    <3>1. PICK d \in claims : d.owner = o /\ Unjudged(d) /\ ~Answerable(d)'
      BY <2>4
    <3>2. pc[o] = "settle" /\ Current(o) = d.key /\ now[o] = d.stamp
      BY <3>1 DEF Unjudged
    <3>3. Arbitrate(o)
      <4>1. pc'[o] # "down"
        BY <3>1 DEF Answerable
      <4> QED BY <1>1, <3>2, <4>1 DEF Tick, Load, LoadState, Begin, List, InsertClaim,
                                      ClaimError, Upset, WriteState, Crash, TypeOK
    <3>4. PICK w \in claims : Elected(w, Current(o), now[o]) /\ Verdict(o, w)
      BY <3>3 DEF Arbitrate
    <3>5. w.owner # o
      <4> SUFFICES ASSUME w.owner = o PROVE FALSE
        OBVIOUS
      <4>1. \E f \in fires' : f.key = Current(o) /\ f.owner = o /\ f.at = now[o]
        BY <3>4, VerdictShape
      <4> QED BY <3>1, <3>2, <4>1 DEF Answerable
    <3>6. ClaimLess(w, d) /\ w.key = d.key
      <4>1. d \in LiveClaims(Current(o), now[o])
        BY <1>n, <3>2 DEF LiveClaims
      <4> QED BY <3>1, <3>2, <3>4, <3>5, <4>1 DEF Elected, LiveClaims
    <3>7. PICK r \in claims : /\ r.key = w.key /\ (r = w \/ ClaimLess(r, w))
                             /\ Answerable(r)
      BY <2>2 DEF Rooted
    <3>8. ClaimLess(r, d)
      BY <3>6, <3>7, ClaimOrder
    <3>9. ASSUME NEW q \in claims, q.owner = o, Unjudged(q) PROVE q = d
      BY <1>n, <3>1, <3>9 DEF Unjudged
    <3>10. Answerable(r)'
      <4>1. r # d
        BY <3>8, ClaimOrder
      <4> QED BY <2>3, <3>7, <3>9, <4>1
    <3>11. claims' = claims
      BY <3>3 DEF Arbitrate
    <3>12. PICK s \in claims : /\ s.key = c.key /\ (s = c \/ ClaimLess(s, c))
                              /\ Answerable(s)
      BY <2>2, <3>11 DEF Rooted
    <3>13. CASE s = d
      <4>1. r.key = c.key /\ ClaimLess(r, c)
        BY <3>6, <3>7, <3>8, <3>11, <3>12, <3>13, ClaimOrder
      <4>2. ClaimLess(r, c)'
        BY <4>1 DEF ClaimLess
      <4> QED BY <3>10, <3>11, <4>1, <4>2 DEF Rooted
    <3>14. CASE s # d
      <4>1. Answerable(s)'
        BY <2>3, <3>9, <3>12, <3>14
      <4> QED BY <3>11, <3>12, <4>1 DEF Rooted, ClaimLess
    <3> QED BY <3>13, <3>14
  <2>5. CASE /\ c \in claims
             /\ ~ \E d \in claims : d.owner = o /\ Unjudged(d) /\ ~Answerable(d)'
    <3>1. PICK s \in claims : /\ s.key = c.key /\ (s = c \/ ClaimLess(s, c))
                             /\ Answerable(s)
      BY <2>2, <2>5 DEF Rooted
    <3>2. Answerable(s)'
      BY <2>3, <2>5, <3>1
    <3> QED BY <2>1, <3>1, <3>2 DEF Rooted, ClaimLess
  <2>6. CASE c \notin claims
    <3>1. pc[o] = "insert" /\ claims' = claims \cup {ClaimOf(o)}
      BY <1>1, <2>6, TickPath
    <3>2. c = ClaimOf(o)
      BY <2>6, <3>1
    <3>3. InsertClaim(o)
      BY <1>1, <2>6, <3>1 DEF Tick, Load, LoadState, Begin, List, Arbitrate, ClaimError,
                              Upset, WriteState, Crash
    <3>4. pc'[o] = "settle" /\ Current(o)' = Current(o) /\ now' = now
      BY <2>1, <3>3 DEF InsertClaim, TypeOK, Current, FireKey
    <3>5. c.key = Current(o) /\ c.owner = o /\ c.stamp = now[o]
      BY <3>2 DEF ClaimOf
    <3>6. Answerable(c)'
      BY <3>4, <3>5 DEF Answerable, Unjudged
    <3> QED BY <3>6 DEF Rooted
  <2> QED BY <2>4, <2>5, <2>6
<1>2. CASE Env
  <2>1. /\ pc' = pc /\ seen' = seen /\ now' = now /\ claims' = claims /\ fires' = fires
        /\ def' = def /\ upset \subseteq upset'
    BY <1>2, EnvShape
  <2>2. \A d \in claims : Answerable(d) => Answerable(d)'
    BY <2>1 DEF Answerable, Unjudged, Current, FireKey
  <2>3. Rooted(c)
    BY <2>1 DEF Roots
  <2> QED BY <2>1, <2>2, <2>3 DEF Rooted, ClaimLess
<1> QED BY <1>1, <1>2, NextCases

\* A claim that has run out by the time a process reads is answered for only by a
\* death: the row of the dispatch would have been read.
LEMMA Spent ==
    ASSUME Intervals, Brisk, Timed, Landing, RowsAhead, Ticks, "drop" \notin upset,
           NEW o \in Owner, pc[o] \in {"claim", "insert", "settle"}, Named(Current(o)),
           NEW c \in claims, c.key = Current(o), Answerable(c), c.stamp + TTL <= now[o]
    PROVE  pc[c.owner] = "down"
<1>n. /\ now \in [Owner -> Nat] /\ clock \in Nat /\ now[o] \in Nat
      /\ c.owner \in Owner /\ c.stamp \in Nat
  <2>1. TypeOK
    BY DEF Timed
  <2> QED BY <2>1, NatClock DEF TypeOK
<1>1. Busy(o) /\ now[o] <= clock
  BY DEF Busy, Timed, InTick
<1>2. CASE Unjudged(c)
  <2>1. now[c.owner] = c.stamp /\ clock <= now[c.owner] + FireLag
    BY <1>n, <1>2 DEF Unjudged, Timed, InTick, Busy
  <2> QED BY <1>n, <1>1, <2>1 DEF Brisk
<1>3. CASE \E f \in fires : f.key = c.key /\ f.owner = c.owner /\ f.at = c.stamp
  <2>1. PICK f \in fires : f.key = c.key /\ f.owner = c.owner /\ f.at = c.stamp
    BY <1>3
  <2>2. ~Late(o, f)
    BY <1>1, <2>1, NoSecond
  <2>3. f.at + FireLag + WriteLag + ReadLag < now[o]
    BY <1>n, <2>1 DEF Brisk
  <2> QED BY <1>1, <2>1, <2>2, <2>3 DEF Late
<1> QED BY <1>2, <1>3 DEF Answerable

\* A process that is about to dispatch an occurrence again: somebody who had
\* claimed it has died, and that claim has run out.
LEMMA Again ==
    ASSUME Intervals, Brisk, Timed, Landing, RowsAhead, Ticks, FiringInv, Roots,
           "drop" \notin upset, "error" \notin upset,
           NEW o \in Owner, pc[o] \in {"claim", "settle"}, Named(Current(o)),
           NEW b \in claims, b.owner = o, Elected(b, Current(o), now[o]),
           NEW e \in fires, e.key = Current(o)
    PROVE  \E c \in claims : /\ c.key = Current(o) /\ pc[c.owner] = "down"
                           /\ c.stamp + TTL <= now[o]
<1>t. TypeOK
  BY DEF Timed
<1>n. /\ now \in [Owner -> Nat] /\ clock \in Nat /\ now[o] \in Nat
      /\ \A c \in claims : c.owner \in Owner /\ c.stamp \in Nat
      /\ e.at \in Nat /\ e.owner \in Owner
  BY <1>t, NatClock DEF TypeOK
<1>1. Busy(o) /\ now[o] <= clock /\ clock <= now[o] + FireLag /\ e.at <= clock
  BY DEF Busy, Timed, InTick, Landing
<1>2. b.key = Current(o) /\ now[o] < b.stamp + TTL /\ b.stamp <= now[o]
  BY DEF Elected, LiveClaims, FiringInv, Clocked
<1>3. PICK r \in claims : r.key = b.key /\ (r = b \/ ClaimLess(r, b)) /\ Answerable(r)
  BY DEF Roots, Rooted
<1>4. CASE r # b
  <2>1. ClaimLess(r, b)
    BY <1>3, <1>4
  <2>2. ~(now[o] < r.stamp + TTL)
    <3>1. ~ClaimLess(b, r)
      BY <1>t, <2>1, ClaimOrder
    <3> QED BY <1>2, <1>3, <1>4, <3>1 DEF Elected, LiveClaims
  <2>3. r.stamp + TTL <= now[o]
    BY <1>n, <2>2
  <2>4. r.key = Current(o)
    BY <1>2, <1>3
  <2>5. pc[r.owner] = "down"
    BY <1>3, <2>3, <2>4, Spent
  <2> QED BY <2>3, <2>4, <2>5
<1>5. CASE r = b
  \* the claim is that of the tick
  <2>1. b.stamp = now[o]
    <3>1. pc[b.owner] # "down"
      OBVIOUS
    <3>2. ~ \E f \in fires : f.key = b.key /\ f.owner = b.owner /\ f.at = b.stamp
      BY <1>2, OwnNone
    <3> QED BY <1>3, <1>5, <3>1, <3>2 DEF Answerable, Unjudged
  <2>2. PICK a \in claims : a.owner = e.owner /\ a.stamp <= e.at /\ Elected(a, e.key, e.at)
    BY DEF FiringInv, Standing, Won
  <2>3. a.key = Current(o) /\ e.at < a.stamp + TTL
    BY <2>2 DEF Elected, LiveClaims
  <2>4. a # b
    BY <2>2, OwnNone
  <2>5. ClaimLess(a, b)
    <3>1. e.at < b.stamp + TTL
      BY <1>n, <1>1, <2>1 DEF Brisk
    <3> QED BY <1>2, <2>2, <2>4, <3>1 DEF Elected, LiveClaims
  <2>6. a.stamp + TTL <= now[o]
    <3>1. ~ClaimLess(b, a)
      BY <1>t, <2>5, ClaimOrder
    <3>2. ~(now[o] < a.stamp + TTL)
      BY <2>3, <2>4, <3>1 DEF Elected, LiveClaims
    <3> QED BY <1>n, <3>2
  <2>7. PICK s \in claims : s.key = a.key /\ (s = a \/ ClaimLess(s, a)) /\ Answerable(s)
    BY DEF Roots, Rooted
  <2>8. s.key = Current(o) /\ s.stamp <= a.stamp
    BY <1>n, <1>t, <2>3, <2>7, ClaimOrder
  <2>9. s.stamp + TTL <= now[o]
    BY <1>n, <2>6, <2>8
  <2>10. pc[s.owner] = "down"
    BY <2>7, <2>8, <2>9, Spent
  <2> QED BY <2>8, <2>9, <2>10
<1> QED BY <1>4, <1>5

LEMMA RefireStep ==
    Intervals /\ Brisk /\ Timed /\ Landing /\ RowsAhead /\ Ticks /\ FiringInv /\ Roots
        /\ RefireOnlyAfterCrash /\ [Next]_vars => RefireOnlyAfterCrash'
<1> SUFFICES ASSUME Intervals, Brisk, Timed, Landing, RowsAhead, Ticks, FiringInv, Roots,
                    RefireOnlyAfterCrash, [Next]_vars, upset' \cap {"drop", "error"} = {},
                    NEW f \in fires', NEW g \in fires',
                    f # g, f.key = g.key, f.key.kind # "iv", f.at <= g.at,
                    "blind" \in upset' => f.key.kind = "at" /\ f.key.n # def'.next
             PROVE  \E c \in claims' : /\ c.key = f.key /\ pc'[c.owner] = "down"
                                     /\ c.stamp + TTL <= g.at
  BY DEF RefireOnlyAfterCrash
<1>t. TypeOK
  BY DEF Timed
<1>n. /\ def.daily \in BOOLEAN /\ ~def.daily /\ now \in [Owner -> Nat] /\ clock \in Nat
      /\ seen \in [Owner -> Row]
      /\ \A e \in fires : e.owner \in Owner /\ e.at \in Nat
      /\ \A c \in claims : c.owner \in Owner /\ c.stamp \in Nat
  BY <1>t, NatClock DEF TypeOK, Intervals
<1>1. def' = def /\ upset \subseteq upset'
  BY <1>t, NextCases, TickShape, EnvShape
<1>2. "drop" \notin upset /\ "error" \notin upset /\ upset \cap {"drop", "error"} = {}
  BY <1>1
<1>3. "blind" \in upset => f.key.kind = "at" /\ f.key.n # def.next
  BY <1>1
<1>4. f \in fires /\ g \in fires =>
          \E c \in claims : c.key = f.key /\ pc[c.owner] = "down" /\ c.stamp + TTL <= g.at
  BY <1>2, <1>3 DEF RefireOnlyAfterCrash
<1>5. ASSUME NEW o \in Owner, Tick(o)
      PROVE  \E c \in claims' : /\ c.key = f.key /\ pc'[c.owner] = "down"
                              /\ c.stamp + TTL <= g.at
  <2>1. /\ pc[o] = "down" => pc'[o] = "down"
        /\ \A p \in Owner : p # o => pc'[p] = pc[p]
        /\ claims \subseteq claims'
    BY <1>5, <1>t, TickShape, TickPath
  <2>2. \A c \in claims : pc[c.owner] = "down" => c \in claims' /\ pc'[c.owner] = "down"
    BY <1>n, <2>1
  <2>3. CASE f \in fires /\ g \in fires
    BY <1>4, <2>2, <2>3
  \* a second dispatch of the occurrence
  <2>4. ASSUME NEW e \in fires, Fires(o), e.key = Current(o), e.key = f.key
        PROVE  \E c \in claims : /\ c.key = f.key /\ pc[c.owner] = "down"
                               /\ c.stamp + TTL <= now[o]
    <3>1. Named(Current(o))
      <4>1. Current(o).kind \in {"at", "iv"}
        BY <1>n, <1>t, KeySource DEF Current
      <4> QED BY <1>3, <2>4, <4>1 DEF Named
    <3>2. PICK b \in claims : Elected(b, Current(o), now[o]) /\ Verdict(o, b)
      <4>1. pc[o] \in {"claim", "settle"} /\ pc'[o] = "fired"
        BY <2>4 DEF Fires
      <4>2. List(o) \/ Arbitrate(o)
        BY <1>5, <1>t, <4>1
        DEF Tick, Load, LoadState, Begin, InsertClaim, ClaimError, WriteState, Crash, TypeOK
      <4>3. pc' # [pc EXCEPT ![o] = "insert"]
        BY <1>t, <4>1 DEF TypeOK
      <4> QED BY <4>2, <4>3 DEF List, Arbitrate
    <3>3. b.owner = o
      <4>1. b.owner = o \/ pc'[o] = "idle"
        BY <1>t, <3>2, VerdictShape
      <4> QED BY <2>4, <4>1 DEF Fires
    <3> QED BY <1>2, <2>4, <3>1, <3>2, <3>3, Again DEF Fires
  <2>5. ASSUME f \notin fires \/ g \notin fires
        PROVE  /\ Fires(o) /\ f.key = Current(o) /\ g.key = Current(o)
               /\ f \notin fires => f.at = now[o] /\ f.owner = o /\ f.nth = seen[o].count + 1
               /\ g \notin fires => g.at = now[o] /\ g.owner = o /\ g.nth = seen[o].count + 1
    <3>1. \A h \in fires' : \/ h \in fires
                            \/ /\ Fires(o) /\ h.key = Current(o) /\ h.owner = o
                               /\ h.at = now[o] /\ h.nth = seen[o].count + 1
      BY <1>5, <1>t, NewFire
    <3> QED BY <2>5, <3>1
  <2>6. CASE f \in fires /\ g \notin fires
    BY <2>2, <2>4, <2>5, <2>6
  <2>7. CASE f \notin fires /\ g \in fires
    <3>1. PICK c \in claims : c.key = f.key /\ pc[c.owner] = "down" /\ c.stamp + TTL <= f.at
      BY <2>4, <2>5, <2>7
    <3>2. c.stamp \in Nat /\ g.at \in Nat /\ f.at \in Nat
      BY <1>n, <2>5, <2>7
    <3> QED BY <2>2, <3>1, <3>2
  <2>8. CASE f \notin fires /\ g \notin fires
    <3>1. fires' \subseteq [key : Key, owner : Owner, at : Nat, nth : Nat]
      <4>1. TypeOK'
        BY <1>t, TypeStep
      <4> QED BY <4>1 DEF TypeOK
    <3>2. f.key = g.key /\ f.owner = g.owner /\ f.at = g.at /\ f.nth = g.nth
      BY <2>5, <2>8
    <3>3. f = g
      BY <3>1, <3>2
    <3> QED BY <3>3
  <2> QED BY <2>3, <2>6, <2>7, <2>8
<1>6. CASE Env
  <2>1. pc' = pc /\ claims' = claims /\ fires' = fires
    BY <1>t, <1>6, EnvShape
  <2> QED BY <1>4, <2>1
<1> QED BY <1>5, <1>6, NextCases

\* docs/perf-lab.md, the processes share the leases and do not double-fire, for
\* an interval schedule: if a tick, its reads and its row take less than the
\* lease and, the reads counted twice, less than the ticker's period, and a
\* dispatch less than the interval, then while no row is dropped and the lease
\* returns no error an occurrence is dispatched again only if a process that had
\* claimed it died, and only after that claim has run out.
THEOREM IntervalsFireOnce ==
    ASSUME Intervals, Brisk
    PROVE  Spec => []RefireOnlyAfterCrash
<1> DEFINE Inv == /\ Timed /\ Landing /\ RowsAhead /\ Ticks /\ FiringInv /\ Roots
                  /\ RefireOnlyAfterCrash
<1>1. Init => Inv
  <2> SUFFICES ASSUME Init PROVE Inv
    OBVIOUS
  <2>1. Timed /\ Landing
    BY TimedInit
  <2>2. RowsAhead
    BY DEF Init, RowsAhead
  <2>3. Ticks
    <3>1. \A o \in Owner : clock <= due[o] /\ pc[o] = "idle"
      BY DEF Init
    <3> QED BY <3>1 DEF Init, Ticks, OnGrid, OwnGap, KeysDue, Busy
  <2>4. FiringInv
    BY DEF Init, FiringInv, Clocked, Spaced, Settling, Standing, PC
  <2>5. Roots /\ RefireOnlyAfterCrash
    BY DEF Init, Roots, RefireOnlyAfterCrash
  <2> QED BY <2>1, <2>2, <2>3, <2>4, <2>5
<1>2. Inv /\ [Next]_vars => Inv'
  BY TimedStep, LandingStep, AheadStep, TicksStep, FiringStep, RootsStep, RefireStep
  DEF Timed
<1>3. Inv => RefireOnlyAfterCrash
  OBVIOUS
<1> QED BY <1>1, <1>2, <1>3, PTL DEF Spec

-----------------------------------------------------------------------------
(* Interval schedules: the fire count. *)

Lag == FireLag + WriteLag + ReadLag

\* The clock reading of a tick that has read the rows, at the latest.
ReadAt(o) == IF pc[o] = "loaded" THEN now[o] + ReadLag ELSE now[o]

\* An interval outlasts the dispatch of one process, its row, and another's tick.
Roomy == FireLag + Lag < Every

\* The rows a read may return, now or later, and those some tick holds.
Known == wire \cup {state}
Held  == Known \cup {seen[o] : o \in Owner}

Calm == upset \cap {"edit", "blind", "drop"} = {}

\* While nobody edits, every row is that of a dispatch.
OfDispatch(r) == /\ 1 <= r.last /\ r.last <= r.upd /\ r.upd <= r.last + FireLag
                 /\ 1 <= r.count /\ r.next = r.last + Every

FromDispatch == \A r \in Held : r = NoState \/ OfDispatch(r)

DueSeen == \A o \in Owner : Busy(o) /\ seen[o] # NoState => seen[o].last + Every <= now[o]

\* Rows are at most one dispatch ahead of what has landed ...
NextCount == /\ \A o \in Owner : seen[o].count <= state.count
             /\ \A r \in wire : r.count <= state.count + 1

\* ... and of what a tick read; a tick that came late read them.
NearCount == \A r \in Known, o \in Owner : Reading(o) => r.count <= seen[o].count + 1
ReadCount == \A r \in Held, o \in Owner :
                Reading(o) /\ r.last + Lag < ReadAt(o) => r.count <= seen[o].count

\* Rows count up with the time of their dispatch, if that is apart, and always
\* with that of their writing.
LaterCount == \A r \in Held, s \in Known : r.last + Lag < s.last => r.count + 1 <= s.count
CountOrder == \A r, s \in Known : s.upd <= r.upd => s.count <= r.count

Counted == \A f \in fires :
    \/ f.nth <= state.count
    \/ pc[f.owner] = "fired" /\ f.nth = seen[f.owner].count + 1
    \/ pc[f.owner] = "down"
    \/ \E r \in wire : r.owner = f.owner /\ f.nth <= r.count

Counts == /\ post = NoEdit /\ FromDispatch /\ DueSeen /\ NextCount /\ NearCount
          /\ ReadCount /\ LaterCount /\ CountOrder

Counting == Calm => Counts /\ Counted

RowTypes == /\ \A r \in Held : r \in Row /\ r.next \in Nat /\ r.last \in Nat
                               /\ r.count \in Nat /\ r.upd \in Nat
            /\ clock \in Nat /\ now \in [Owner -> Nat] /\ seen \in [Owner -> Row]
            /\ state \in Held /\ wire \subseteq Held /\ \A o \in Owner : seen[o] \in Held
            /\ Lag \in Nat

LEMMA RowsTyped == TypeOK => RowTypes
<1> SUFFICES ASSUME TypeOK PROVE RowTypes
  OBVIOUS
<1>1. \A r \in Held : r \in Row
  BY DEF Held, Known, TypeOK
<1> QED BY <1>1, NatClock DEF RowTypes, Held, Known, Row, Lag

\* A step that writes no row and reads none leaves the counts as they are.
LEMMA CountsKept ==
    ASSUME RowTypes, RowTypes', Counts, post' = NoEdit, Known' \subseteq Known,
           \A r \in Held' : r \in Held \/ r = NoState,
           wire' \subseteq wire,
           state.count <= state'.count,
           \A o \in Owner : /\ Reading(o)' => /\ Reading(o) /\ seen'[o] = seen[o]
                                              /\ ReadAt(o)' <= ReadAt(o)
                                              /\ {ReadAt(o), ReadAt(o)'} \subseteq Nat
                            /\ Busy(o)' /\ seen[o] # NoState => seen[o].last + Every <= now'[o]
                            /\ seen'[o] = seen[o] \/ seen'[o] = NoState
    PROVE  Counts'
<1> USE DEF Counts
<1>0. NoState.count = 0 /\ NoState.last = 0 /\ NoState.upd = 0
  BY DEF NoState
<1>1. FromDispatch'
  BY DEF FromDispatch, OfDispatch
<1>2. DueSeen'
  BY DEF DueSeen, Busy, Reading
<1>3. NextCount'
  <2>1. \A o \in Owner : seen'[o].count <= state'.count
    <3> TAKE o \in Owner
    <3>1. seen[o].count <= state.count /\ seen[o].count \in Nat /\ state.count \in Nat
          /\ state'.count \in Nat
      BY DEF NextCount, RowTypes
    <3> QED BY <1>0, <3>1
  <2>2. \A r \in wire' : r.count <= state'.count + 1
    <3> TAKE r \in wire'
    <3>1. r.count <= state.count + 1 /\ r.count \in Nat /\ state.count \in Nat
          /\ state'.count \in Nat
      BY DEF NextCount, RowTypes
    <3> QED BY <3>1
  <2> QED BY <2>1, <2>2 DEF NextCount
<1>4. NearCount'
  BY DEF NearCount
<1>5. ReadCount'
  <2> SUFFICES ASSUME NEW r \in Held', NEW o \in Owner, Reading(o)', r.last + Lag < ReadAt(o)'
               PROVE  r.count <= seen'[o].count
    BY DEF ReadCount
  <2>1. /\ seen'[o] = seen[o] /\ seen[o].count \in Nat /\ Reading(o)
        /\ r.last \in Nat /\ Lag \in Nat
        /\ ReadAt(o)' <= ReadAt(o) /\ {ReadAt(o), ReadAt(o)'} \subseteq Nat
    BY DEF RowTypes
  <2>2. r.last + Lag < ReadAt(o)
    BY <2>1
  <2> QED BY <1>0, <2>1, <2>2 DEF ReadCount
<1>6. LaterCount'
  <2> SUFFICES ASSUME NEW r \in Held', NEW s \in Known', r.last + Lag < s.last
               PROVE  r.count + 1 <= s.count
    BY DEF LaterCount
  <2>1. CASE r = NoState
    <3>1. s # NoState
      BY <1>0, <2>1 DEF RowTypes
    <3>2. s \in Held
      BY DEF Held
    <3>3. 1 <= s.count
      BY <3>1, <3>2 DEF FromDispatch, OfDispatch
    <3> QED BY <1>0, <2>1, <3>3
  <2> QED BY <2>1 DEF LaterCount
<1>7. CountOrder'
  BY DEF CountOrder
<1> QED BY <1>1, <1>2, <1>3, <1>4, <1>5, <1>6, <1>7

\* A tick that reads the state row reads a count that is up to date.
LEMMA CountsLoad ==
    ASSUME Timed, Counts, RowTypes, RowTypes', NEW o \in Owner,
           clock' = clock, wire' = wire, state' = state, post' = NoEdit,
           \A p \in Owner : p # o => pc'[p] = pc[p] /\ seen'[p] = seen[p] /\ now'[p] = now[p],
           pc[o] = "loading", pc'[o] = "loaded", seen'[o] = state, now'[o] = now[o]
    PROVE  Counts'
<1> USE DEF Counts
<1>1. \A p \in Owner : p # o => /\ Busy(p)' = Busy(p) /\ Reading(p)' = Reading(p)
                                /\ ReadAt(p)' = ReadAt(p) /\ seen'[p] = seen[p]
                                /\ now'[p] = now[p]
  BY DEF Busy, Reading, ReadAt
<1>2. /\ ~Busy(o)' /\ ReadAt(o)' = now[o] + ReadLag
      /\ now[o] \in Nat /\ clock \in Nat /\ now[o] <= clock
  BY DEF Busy, ReadAt, RowTypes, Timed, InTick
<1>3. Known' = Known /\ Held' \subseteq Held
  BY DEF Known, Held
<1>4. FromDispatch'
  BY <1>3 DEF FromDispatch, OfDispatch
<1>5. DueSeen'
  BY <1>1, <1>2 DEF DueSeen
<1>6. NextCount'
  BY <1>1 DEF NextCount, RowTypes
<1>7. NearCount'
  <2> SUFFICES ASSUME NEW r \in Known, NEW p \in Owner, Reading(p)'
               PROVE  r.count <= seen'[p].count + 1
    BY <1>3 DEF NearCount
  <2>1. CASE p = o
    <3>1. r.count <= state.count + 1
      BY DEF Known, NextCount, RowTypes
    <3> QED BY <2>1, <3>1
  <2>2. CASE p # o
    BY <1>1, <2>2 DEF NearCount
  <2> QED BY <2>1, <2>2
<1>8. ReadCount'
  <2> SUFFICES ASSUME NEW r \in Held, NEW p \in Owner, Reading(p)', r.last + Lag < ReadAt(p)'
               PROVE  r.count <= seen'[p].count
    BY <1>3 DEF ReadCount
  <2>1. CASE p = o
    <3>1. r \notin wire
      <4> SUFFICES ASSUME r \in wire PROVE FALSE
        OBVIOUS
      <4>1. clock <= r.upd + WriteLag /\ 1 <= r.upd
        BY DEF Timed, RowsWritten, Written
      <4>2. r # NoState
        BY <4>1 DEF NoState
      <4>3. r.upd <= r.last + FireLag
        BY <4>2 DEF FromDispatch, OfDispatch
      <4>4. r.upd \in Nat /\ r.last \in Nat /\ clock \in Nat
        BY DEF RowTypes
      <4> QED BY <1>2, <2>1, <4>1, <4>3, <4>4 DEF Lag
    <3>2. r = state \/ \E q \in Owner : r = seen[q]
      BY <3>1 DEF Held, Known
    <3> QED BY <2>1, <3>2 DEF NextCount, RowTypes
  <2>2. CASE p # o
    BY <1>1, <2>2 DEF ReadCount
  <2> QED BY <2>1, <2>2
<1>9. LaterCount' /\ CountOrder'
  BY <1>3 DEF LaterCount, CountOrder
<1> QED BY <1>4, <1>5, <1>6, <1>7, <1>8, <1>9

\* A tick that writes its row counts one on from what everybody has read.
LEMMA CountsWrite ==
    ASSUME Intervals, Roomy, Timed, Counts, RowTypes, RowTypes', NEW o \in Owner, NEW m,
           clock' = clock, wire' = wire \cup {m}, state' = state, post' = NoEdit,
           \A p \in Owner : p # o => pc'[p] = pc[p] /\ seen'[p] = seen[p] /\ now'[p] = now[p],
           pc[o] = "fired", pc'[o] = "idle", seen'[o] = NoState, TickRow(o, m)
    PROVE  Counts'
<1> USE DEF Counts
<1>0. NoState.count = 0 /\ NoState.last = 0 /\ NoState.upd = 0
  BY DEF NoState
<1>1. \A p \in Owner : p # o => /\ Busy(p)' = Busy(p) /\ Reading(p)' = Reading(p)
                                /\ ReadAt(p)' = ReadAt(p) /\ seen'[p] = seen[p]
                                /\ now'[p] = now[p]
  BY DEF Busy, Reading, ReadAt
<1>2. ~Busy(o)' /\ ~Reading(o)'
  BY DEF Busy, Reading
<1>3. Known' = Known \cup {m} /\ \A r \in Held' : r \in Held \/ r = NoState \/ r = m
  BY DEF Known, Held
<1>4. /\ m.last = now[o] /\ m.count = seen[o].count + 1 /\ m.upd = clock
      /\ m.next = now[o] + Every
  <2>1. NextFire(now[o]) = now[o] + Every
    BY NextIsAhead DEF Intervals, Timed, TypeOK, RowTypes
  <2> QED BY <2>1 DEF TickRow
<1>5. /\ now[o] \in Nat /\ clock \in Nat /\ 1 <= now[o] /\ now[o] <= clock
      /\ clock <= now[o] + FireLag
      /\ seen[o].count \in Nat /\ seen[o].last \in Nat /\ seen[o] \in Held
  <2>1. Busy(o) /\ Reading(o)
    BY DEF Busy, Reading
  <2>2. 1 <= now[o] /\ now[o] <= clock /\ clock <= now[o] + FireLag
    BY <2>1 DEF Timed, InTick
  <2>3. now[o] \in Nat /\ clock \in Nat /\ seen[o] \in Held
    BY DEF RowTypes
  <2>4. seen[o].count \in Nat /\ seen[o].last \in Nat
    BY <2>3 DEF RowTypes
  <2> QED BY <2>2, <2>3, <2>4
<1>6. seen[o] = NoState \/ seen[o].last + Every <= now[o]
  BY DEF DueSeen, Busy
<1>7. \A r \in Known : r.last \in Nat /\ r.count \in Nat /\ r.upd \in Nat /\ r \in Held
  BY DEF RowTypes, Held
<1>t. Reading(o) /\ ReadAt(o) = now[o]
  BY DEF Reading, Busy, ReadAt
<1>8. FromDispatch'
  <2>1. OfDispatch(m)
    BY <1>4, <1>5 DEF OfDispatch
  <2> QED BY <1>3, <2>1 DEF FromDispatch, OfDispatch
<1>9. DueSeen'
  BY <1>1, <1>2 DEF DueSeen
<1>10. NextCount'
  <2>1. \A p \in Owner : seen'[p].count <= state.count
    <3> TAKE p \in Owner
    <3>1. state.count \in Nat
      BY DEF RowTypes
    <3> QED BY <1>0, <1>1, <3>1 DEF NextCount
  <2>2. m.count <= state.count + 1
    BY <1>4, <1>5 DEF NextCount, RowTypes
  <2> QED BY <2>1, <2>2 DEF NextCount
<1>11. NearCount'
  <2> SUFFICES ASSUME NEW r \in Known', NEW p \in Owner, Reading(p)', p # o
               PROVE  r.count <= seen'[p].count + 1
    BY <1>2 DEF NearCount
  <2>1. CASE r \in Known
    BY <1>1, <2>1 DEF NearCount
  <2>2. CASE r = m
    <3>1. seen[p].count \in Nat /\ now[p] \in Nat
      BY DEF RowTypes
    <3>2. CASE seen[o] = NoState
      BY <1>0, <1>1, <1>4, <2>2, <3>1, <3>2
    <3>3. CASE seen[o].last + Every <= now[o]
      <4>1. ReadAt(p) \in Nat /\ clock <= ReadAt(p) + FireLag
        BY <1>1, <1>5, <3>1 DEF ReadAt, Reading, Busy, Timed, InTick
      <4>2. seen[o].last + Lag < ReadAt(p)
        BY <1>5, <3>3, <4>1 DEF Roomy, Lag
      <4>3. seen[o].count <= seen[p].count
        BY <1>1, <1>5, <4>2 DEF ReadCount
      <4> QED BY <1>1, <1>4, <1>5, <2>2, <3>1, <4>3
    <3> QED BY <1>6, <3>2, <3>3
  <2> QED BY <1>3, <2>1, <2>2
<1>12. ReadCount'
  <2> SUFFICES ASSUME NEW r \in Held', NEW p \in Owner, Reading(p)', p # o,
                      r.last + Lag < ReadAt(p)'
               PROVE  r.count <= seen'[p].count
    BY <1>2 DEF ReadCount
  <2>1. seen[p].count \in Nat /\ now[p] \in Nat
    BY DEF RowTypes
  <2>2. CASE r \in Held
    BY <1>1, <2>2 DEF ReadCount
  <2>3. CASE r = NoState
    BY <1>0, <1>1, <2>1, <2>3
  <2>4. r # m
    <3>1. ReadAt(p) <= clock + ReadLag
      BY <1>1, <1>5, <2>1 DEF ReadAt, Reading, Busy, Timed, InTick
    <3>2. ReadAt(p) \in Nat
      BY <1>5, <2>1 DEF ReadAt
    <3> QED BY <1>1, <1>4, <1>5, <3>1, <3>2 DEF Lag
  <2> QED BY <1>3, <2>2, <2>3, <2>4
<1>13. LaterCount'
  <2> SUFFICES ASSUME NEW r \in Held', NEW s \in Known', r.last + Lag < s.last
               PROVE  r.count + 1 <= s.count
    BY DEF LaterCount
  <2>1. CASE s = m
    <3>1. CASE r \in Held
      <4>1. r.count <= seen[o].count /\ r.count \in Nat
        <5>1. r.last + Lag < ReadAt(o)
          BY <1>4, <1>t, <2>1
        <5>2. r.count <= seen[o].count
          BY <1>t, <3>1, <5>1 DEF ReadCount
        <5> QED BY <3>1, <5>2 DEF RowTypes
      <4> QED BY <1>4, <1>5, <2>1, <4>1
    <3>2. CASE r = NoState
      BY <1>0, <1>4, <1>5, <2>1, <3>2
    <3>3. r # m
      BY <1>4, <1>5, <2>1 DEF Lag
    <3> QED BY <1>3, <3>1, <3>2, <3>3
  <2>2. CASE s \in Known
    <3>1. CASE r \in Held
      BY <2>2, <3>1 DEF LaterCount
    <3>2. CASE r = NoState
      <4>1. s # NoState
        BY <1>0, <1>7, <2>2, <3>2 DEF Lag
      <4>2. 1 <= s.count
        BY <1>7, <2>2, <4>1 DEF FromDispatch, OfDispatch
      <4> QED BY <1>0, <3>2, <4>2
    <3>3. r # m
      <4>1. s = NoState \/ s.last <= clock
        <5>1. s = NoState \/ (s.last <= s.upd /\ s.upd <= clock)
          BY <1>7, <2>2 DEF FromDispatch, OfDispatch, Known, Timed, RowsWritten, Written
        <5> QED BY <1>5, <1>7, <2>2, <5>1
      <4> QED BY <1>0, <1>4, <1>5, <1>7, <2>2, <4>1 DEF Lag
    <3> QED BY <1>3, <3>1, <3>2, <3>3
  <2> QED BY <1>3, <2>1, <2>2
<1>14. CountOrder'
  <2>1. \A r \in Known : r.count <= m.count
    BY <1>4, <1>t DEF NearCount
  <2>2. ASSUME NEW s \in Known, m.upd <= s.upd PROVE m.count <= s.count
    <3>1. 1 <= s.upd
      BY <1>4, <1>5, <1>7, <2>2
    <3>2. s # NoState
      BY <1>0, <3>1
    <3>3. OfDispatch(s)
      BY <1>7, <3>2 DEF FromDispatch
    <3>4. CASE seen[o] = NoState
      BY <1>0, <1>4, <1>7, <3>3, <3>4 DEF OfDispatch
    <3>5. CASE seen[o].last + Every <= now[o]
      <4>1. seen[o].last + Lag < s.last
        BY <1>4, <1>5, <1>7, <2>2, <3>3, <3>5 DEF OfDispatch, Roomy, Lag
      <4> QED BY <1>4, <1>5, <4>1 DEF LaterCount
    <3> QED BY <1>6, <3>4, <3>5
  <2>3. \A s \in Known : s.upd <= m.upd => s.count <= m.count
    BY <2>1
  <2>4. m.count <= m.count
    BY <1>4, <1>5
  <2> QED BY <1>3, <2>2, <2>3, <2>4 DEF CountOrder
<1> QED BY <1>8, <1>9, <1>10, <1>11, <1>12, <1>13, <1>14

LEMMA PostShape ==
    ASSUME TypeOK, [Next]_vars
    PROVE  "edit" \in upset' \/ post' = post \/ post' = NoEdit
<1>1. ASSUME Env PROVE "edit" \in upset' \/ post' = post \/ post' = NoEdit
  BY <1>1 DEF Env, Land, Drop, ReadEdit, WriteEdit, Advance, Upset, vars
<1> QED BY <1>1, NextCases, TickShape

LEMMA CountsStep ==
    ASSUME Intervals, Roomy, Timed, Counts, [Next]_vars,
           upset' \cap {"edit", "blind", "drop"} = {}
    PROVE  Counts'
<1>t. TypeOK /\ TypeOK'
  BY TypeStep DEF Timed
<1>r. RowTypes /\ RowTypes'
  <2>1. RowTypes
    BY <1>t, RowsTyped
  <2>2. \A r \in Held' : r \in Row
    BY <1>t DEF Held, Known, TypeOK
  <2>3. RowTypes'
    BY <1>t, <2>2 DEF RowTypes, Held, Known, Row, Lag, TypeOK
  <2> QED BY <2>1, <2>3
<1>p. post' = NoEdit
  BY <1>t, PostShape DEF Counts
<1>n. NoState.count = 0 /\ NoState.last = 0 /\ NoState.next = 0
  BY DEF NoState
<1>1. ASSUME NEW o \in Owner, Tick(o) PROVE Counts'
  <2>1. /\ clock' = clock /\ state' = state
        /\ \A p \in Owner : p # o => pc'[p] = pc[p] /\ seen'[p] = seen[p] /\ now'[p] = now[p]
    BY <1>1, <1>t, TickShape
  <2>2. CASE pc'[o] = "loaded"
    <3>1. /\ pc[o] = "loading" /\ now'[o] = now[o]
          /\ seen'[o] = state \/ (seen'[o] = NoState /\ "blind" \in upset')
      BY <1>1, <1>t, <2>2, TickPath
    <3>2. seen'[o] = state
      BY <3>1
    <3>3. wire' = wire
      BY <1>1, <1>t, <2>2, TickShape DEF WriteState, TypeOK
    <3> QED BY <1>r, <1>p, <2>1, <2>2, <3>1, <3>2, <3>3, CountsLoad
  <2>3. CASE WriteState(o)
    <3> DEFINE m == [next |-> NextFire(now[o]), last |-> now[o],
                     count |-> seen[o].count + 1, owner |-> o, upd |-> clock]
    <3>1. wire' = wire \cup {m} /\ pc[o] = "fired" /\ pc'[o] = "idle" /\ seen'[o] = NoState
      BY <1>t, <2>3 DEF WriteState, Forget, TypeOK
    <3>2. TickRow(o, m)
      BY DEF TickRow
    <3> QED BY <1>r, <1>p, <2>1, <3>1, <3>2, CountsWrite
  <2>4. CASE pc'[o] # "loaded" /\ ~WriteState(o)
    <3>1. wire' \subseteq wire /\ (seen'[o] = seen[o] \/ seen'[o] = NoState)
      BY <1>1, <1>t, <2>4, TickShape
    <3>2. Known' \subseteq Known /\ \A r \in Held' : r \in Held \/ r = NoState
      BY <2>1, <3>1 DEF Known, Held
    <3>3. /\ Reading(o)' => Busy(o)'
          /\ Busy(o)' => /\ Reading(o) /\ seen'[o] = seen[o]
                         /\ ReadAt(o)' <= ReadAt(o) /\ {ReadAt(o), ReadAt(o)'} \subseteq Nat
      <4>0. now[o] \in Nat /\ now'[o] \in Nat /\ clock \in Nat
        BY <1>r DEF RowTypes
      <4>1. pc'[o] = "claim" => /\ pc[o] = "loaded" /\ now'[o] = clock /\ seen'[o] = seen[o]
                               /\ clock <= now[o] + ReadLag
        BY <1>1, <1>t, TickPath DEF Timed, InTick
      <4>2. pc'[o] \in {"insert", "settle", "fired"} =>
                Busy(o) /\ now'[o] = now[o] /\ seen'[o] = seen[o]
        BY <1>1, <1>t, TickPath DEF Busy, Fires
      <4>3. CASE pc'[o] = "claim"
        BY <2>4, <4>0, <4>1, <4>3 DEF Reading, Busy, ReadAt
      <4>4. CASE pc'[o] \in {"insert", "settle", "fired"}
        BY <2>4, <4>0, <4>2, <4>4 DEF Reading, Busy, ReadAt
      <4> QED BY <2>4, <4>3, <4>4 DEF Reading, Busy
    <3>4. Busy(o)' /\ seen[o] # NoState => seen[o].last + Every <= now'[o]
      <4>1. CASE pc'[o] = "claim"
        <5> SUFFICES ASSUME seen[o] # NoState PROVE seen[o].last + Every <= now'[o]
          OBVIOUS
        <5>1. IsDue(seen[o], clock) /\ now'[o] = clock
          BY <1>1, <1>t, <4>1, TickPath
        <5>2. seen[o].next = seen[o].last + Every /\ seen[o] \in Held
          BY <1>r DEF Counts, FromDispatch, OfDispatch, RowTypes
        <5>3. seen[o].next # 0
          BY <1>r, <5>2 DEF RowTypes
        <5> QED BY <5>1, <5>2, <5>3 DEF IsDue, NextKnown
      <4>2. CASE pc'[o] \in {"insert", "settle", "fired"}
        <5>1. Busy(o) /\ now'[o] = now[o]
          BY <1>1, <1>t, <4>2, TickPath DEF Busy, Fires
        <5> QED BY <5>1 DEF Counts, DueSeen
      <4> QED BY <4>1, <4>2 DEF Busy
    <3>5. \A p \in Owner : /\ Reading(p)' => /\ Reading(p) /\ seen'[p] = seen[p]
                                             /\ ReadAt(p)' <= ReadAt(p)
                                             /\ {ReadAt(p), ReadAt(p)'} \subseteq Nat
                           /\ Busy(p)' /\ seen[p] # NoState => seen[p].last + Every <= now'[p]
                           /\ seen'[p] = seen[p] \/ seen'[p] = NoState
      <4> TAKE p \in Owner
      <4>1. CASE p = o
        BY <3>1, <3>3, <3>4, <4>1
      <4>2. CASE p # o
        <5>1. ReadAt(p)' = ReadAt(p)
          BY <2>1, <4>2 DEF ReadAt
        <5>2. ReadAt(p) \in Nat
          <6>1. now[p] \in Nat
            BY <1>r DEF RowTypes
          <6> QED BY <6>1 DEF ReadAt
        <5>3. pc'[p] = pc[p] /\ seen'[p] = seen[p] /\ now'[p] = now[p]
          BY <2>1, <4>2
        <5>4. Busy(p)' = Busy(p) /\ Reading(p)' = Reading(p)
          BY <5>3 DEF Reading, Busy
        <5>5. Busy(p) /\ seen[p] # NoState => seen[p].last + Every <= now[p]
          BY DEF Counts, DueSeen
        <5>6. ReadAt(p)' <= ReadAt(p) /\ {ReadAt(p), ReadAt(p)'} \subseteq Nat
          BY <5>1, <5>2
        <5> QED BY <5>3, <5>4, <5>5, <5>6
      <4> QED BY <4>1, <4>2
    <3>6. state.count <= state'.count
      BY <1>r, <2>1 DEF RowTypes
    <3> QED BY <1>r, <1>p, <3>1, <3>2, <3>5, <3>6, CountsKept
  <2> QED BY <2>2, <2>3, <2>4
<1>2. ASSUME Env PROVE Counts'
  <2>1. /\ pc' = pc /\ seen' = seen /\ now' = now
        /\ clock' = clock \/ (clock' = clock + 1 /\ \A o \in Owner : InTime(o))
        /\ state.upd <= state'.upd
        /\ state' = state \/ state' \in wire
        /\ \A r \in wire' : r \in wire \/ post \in Edit
    BY <1>2, <1>t, EnvShape
  <2>2. post \notin Edit
    BY DEF Counts, NoEdit, Edit
  <2>3. wire' \subseteq wire /\ Known' \subseteq Known /\ Held' \subseteq Held
    BY <2>1, <2>2 DEF Known, Held
  <2>4. state.count <= state'.count
    BY <2>1 DEF Counts, CountOrder, Known
  <2>5. \A p \in Owner : /\ Reading(p)' => /\ Reading(p) /\ seen'[p] = seen[p]
                                           /\ ReadAt(p)' <= ReadAt(p)
                                           /\ {ReadAt(p), ReadAt(p)'} \subseteq Nat
                         /\ Busy(p)' /\ seen[p] # NoState => seen[p].last + Every <= now'[p]
                         /\ seen'[p] = seen[p] \/ seen'[p] = NoState
    <3> TAKE p \in Owner
    <3>1. ReadAt(p)' = ReadAt(p) /\ ReadAt(p) \in Nat
      BY <1>r, <2>1 DEF ReadAt, RowTypes
    <3> QED BY <2>1, <3>1 DEF Reading, Busy, Counts, DueSeen
  <2> QED BY <1>r, <1>p, <2>3, <2>4, <2>5, CountsKept
<1> QED BY <1>1, <1>2, NextCases

LEMMA CountedStep ==
    ASSUME Timed, Counts, Counted, [Next]_vars,
           upset' \cap {"edit", "blind", "drop"} = {}
    PROVE  Counted'
<1>t. TypeOK /\ TypeOK'
  BY TypeStep DEF Timed
<1>n. /\ \A f \in fires : f.owner \in Owner /\ f.nth \in Nat
      /\ state.count \in Nat /\ state'.count \in Nat /\ \A r \in wire : r.count \in Nat
  BY <1>t DEF TypeOK, Row
<1>1. ASSUME NEW o \in Owner, Tick(o) PROVE Counted'
  <2>1. /\ state' = state
        /\ \A p \in Owner : p # o => pc'[p] = pc[p] /\ seen'[p] = seen[p]
        /\ pc[o] = "down" => pc'[o] = "down"
    <3>1. /\ state' = state
          /\ \A p \in Owner : p # o => pc'[p] = pc[p] /\ seen'[p] = seen[p]
      BY <1>1, <1>t, TickShape
    <3>2. pc[o] = "down" => pc'[o] = "down"
      BY <1>1, <1>t, TickPath
    <3> QED BY <3>1, <3>2
  <2>2. \A r \in wire : r \in wire' \/ (pc'[o] = "down" /\ r.owner \in {o, 0})
    <3>1. CASE WriteState(o)
      BY <3>1 DEF WriteState
    <3> QED BY <1>1, <1>t, <3>1, TickShape
  <2> SUFFICES ASSUME NEW f \in fires'
               PROVE  \/ f.nth <= state'.count
                      \/ pc'[f.owner] = "fired" /\ f.nth = seen'[f.owner].count + 1
                      \/ pc'[f.owner] = "down"
                      \/ \E r \in wire' : r.owner = f.owner /\ f.nth <= r.count
    BY DEF Counted
  <2>3. CASE f \notin fires
    BY <1>1, <1>t, <2>3, NewFire DEF Fires
  <2>4. CASE f \in fires /\ ~(f.owner = o /\ pc[o] = "fired" /\ f.nth = seen[o].count + 1)
    <3>1. CASE \E r \in wire : r.owner = f.owner /\ f.nth <= r.count
      <4>1. PICK r \in wire : r.owner = f.owner /\ f.nth <= r.count
        BY <3>1
      <4>2. f.owner # 0
        BY <1>n, <2>4
      <4> QED BY <2>2, <4>1, <4>2
    <3>2. CASE ~ \E r \in wire : r.owner = f.owner /\ f.nth <= r.count
      BY <1>n, <2>1, <2>4, <3>2 DEF Counted
    <3> QED BY <3>1, <3>2
  <2>5. CASE f \in fires /\ f.owner = o /\ pc[o] = "fired" /\ f.nth = seen[o].count + 1
    <3>1. CASE WriteState(o)
      <4> DEFINE r == [next |-> NextFire(now[o]), last |-> now[o],
                       count |-> seen[o].count + 1, owner |-> o, upd |-> clock]
      <4>1. r \in wire' /\ r.count = f.nth /\ r.owner = f.owner
        BY <2>5, <3>1 DEF WriteState
      <4> QED BY <1>n, <2>5, <4>1
    <3>2. CASE Crash(o)
      BY <1>t, <2>5, <3>2 DEF Crash, TypeOK
    <3> QED BY <1>1, <2>5, <3>1, <3>2
          DEF Tick, Load, LoadState, Begin, List, InsertClaim, Arbitrate, ClaimError
  <2> QED BY <2>3, <2>4, <2>5
<1>2. ASSUME Env PROVE Counted'
  <2>1. /\ pc' = pc /\ seen' = seen /\ fires' = fires
        /\ state.upd <= state'.upd
        /\ state' = state \/ state' \in wire
        /\ "drop" \notin upset' => \A r \in wire : r \in wire' \/ r.upd <= state'.upd
    BY <1>2, <1>t, EnvShape
  <2>2. state.count <= state'.count
    BY <2>1 DEF Counts, CountOrder, Known
  <2>3. \A r \in wire : r \in wire' \/ r.count <= state'.count
    BY <2>1 DEF Counts, CountOrder, Known
  <2> SUFFICES ASSUME NEW f \in fires
               PROVE  \/ f.nth <= state'.count
                      \/ pc[f.owner] = "fired" /\ f.nth = seen[f.owner].count + 1
                      \/ pc[f.owner] = "down"
                      \/ \E r \in wire' : r.owner = f.owner /\ f.nth <= r.count
    BY <2>1 DEF Counted
  <2>4. CASE f.nth <= state.count
    BY <1>n, <2>2, <2>4
  <2>5. CASE \E r \in wire : r.owner = f.owner /\ f.nth <= r.count
    BY <1>n, <2>3, <2>5
  <2> QED BY <2>4, <2>5 DEF Counted
<1> QED BY <1>1, <1>2, NextCases

\* If an interval outlasts two dispatches, a read and a row's way to the table, no
\* state row that lands forgets a dispatch of an interval schedule, whoever dies
\* and whatever the lease returns, unless an operator edits the schedule, a read
\* fails or a row is lost.
THEOREM IntervalCountKeepsUp ==
    ASSUME Intervals, Roomy
    PROVE  Spec => []CountKeepsUp
<1> DEFINE Inv == Timed /\ Counting
<1>1. Init => Inv
  <2> SUFFICES ASSUME Init PROVE Inv
    OBVIOUS
  <2>1. Timed
    BY TimedInit
  <2>2. Held = {NoState} /\ Known = {NoState}
    BY DEF Init, Held, Known
  <2>3. NoState.count = 0 /\ NoState.last = 0 /\ NoState.upd = 0
    BY DEF NoState
  <2>4. FromDispatch /\ LaterCount /\ CountOrder
    BY <2>2, <2>3 DEF FromDispatch, LaterCount, CountOrder, Lag
  <2>5. DueSeen /\ NearCount /\ ReadCount
    BY <2>2, <2>3 DEF Init, DueSeen, NearCount, ReadCount, Busy, Reading
  <2>6. NextCount /\ Counted /\ post = NoEdit
    BY <2>3 DEF Init, NextCount, Counted
  <2> QED BY <2>1, <2>4, <2>5, <2>6 DEF Counting, Counts
<1>2. Inv /\ [Next]_vars => Inv'
  <2> SUFFICES ASSUME Timed, Counting, [Next]_vars PROVE Timed' /\ Counting'
    OBVIOUS
  <2>1. upset \subseteq upset'
    <3>1. TypeOK
      BY DEF Timed
    <3> QED BY <3>1, NextCases, TickShape, EnvShape
  <2>2. ASSUME Calm' PROVE Counts' /\ Counted'
    <3>1. upset' \cap {"edit", "blind", "drop"} = {}
      BY <2>2 DEF Calm
    <3>2. Counts /\ Counted
      BY <2>1, <3>1 DEF Calm, Counting
    <3> QED BY <3>1, <3>2, CountsStep, CountedStep
  <2> QED BY <2>2, TimedStep DEF Counting
<1>3. Inv => CountKeepsUp
  <2> SUFFICES ASSUME Timed, Counting PROVE CountKeepsUp
    OBVIOUS
  <2>1. ~def.daily
    BY DEF Timed, TypeOK, Intervals
  <2>2. Calm => Counted
    BY DEF Counting
  <2> QED BY <2>1, <2>2 DEF CountKeepsUp, Calm, Counted
<1> QED BY <1>1, <1>2, <1>3, PTL DEF Spec
=============================================================================
