----------------------- MODULE ClickHouseWriterProofs -----------------------
(***************************************************************************)
(* For any number of callers and rows and any sizes: the writer is type    *)
(* correct, holds one token per insert goroutine and never more than       *)
(* maxInFlightInserts, keeps every row in one place and loses none         *)
(* silently.                                                               *)
(***************************************************************************)
EXTENDS ClickHouseWriter, FiniteSetTheorems, TLAPS

USE CallerAssumption, WriterAssumption

-----------------------------------------------------------------------------
(* Types. *)

LEMMA TypeInit == Init => TypeOK
BY DEF Init, TypeOK, Batch

\* What one POST of a batch does to the counters and to the table.
LEMMA PostType ==
    ASSUME TypeOK, NEW b \in Batch, Accepted(b) \/ Retried(b) \/ GivenUp(b)
    PROVE  /\ tries' \in [Row -> 0..Attempts]
           /\ landed' \subseteq Row
           /\ lost' \subseteq Row
<1> USE DEF TypeOK, Batch
<1>1. CASE Accepted(b)
  BY <1>1 DEF Accepted
<1>2. CASE /\ tries' = [r \in Row |-> IF r \in b THEN tries[r] + 1 ELSE tries[r]]
           /\ \A r \in b : tries'[r] <= Attempts
           /\ landed' \in {landed, landed \cup b}
           /\ lost' \in {lost, lost \cup b}
  <2>1. \A r \in Row : tries'[r] \in 0..Attempts
    <3> SUFFICES ASSUME NEW r \in Row PROVE tries'[r] \in 0..Attempts
      OBVIOUS
    <3>1. tries[r] \in 0..Attempts /\ Attempts \in Nat
      BY WriterAssumption
    <3>2. tries'[r] = IF r \in b THEN tries[r] + 1 ELSE tries[r]
      BY <1>2
    <3>3. r \in b => tries'[r] <= Attempts
      BY <1>2
    <3> QED BY <3>1, <3>2, <3>3
  <2> QED BY <1>2, <2>1
<1>3. CASE UNCHANGED <<tries, landed>> /\ lost' = lost \cup b
  BY <1>3
<1>4. Retried(b) => \A r \in b : tries'[r] <= Attempts
  BY WriterAssumption DEF Retried
<1> QED BY <1>1, <1>2, <1>3, <1>4, WriterAssumption DEF Retried, GivenUp

LEMMA TypeStep ==
    ASSUME TypeOK, WriterInv, [Next]_vars
    PROVE  TypeOK'
<1> USE DEF TypeOK, Batch
<1>1. ASSUME NEW p \in Caller, NEW r \in fresh, Add(p, r) PROVE TypeOK'
  BY <1>1 DEF Add
<1>2. ASSUME NEW p \in Caller, NEW r \in fresh, NEW m \in {"async", "sync"},
             Write(p, r, m)
      PROVE  TypeOK'
  BY <1>2 DEF Write
<1>3. ASSUME NEW p \in Caller, Flush(p) PROVE TypeOK'
  BY <1>3 DEF Flush
<1>4. ASSUME NEW p \in Caller, Acquire(p) PROVE TypeOK'
  BY <1>4 DEF Acquire
<1>5. ASSUME NEW p \in Caller, RetrySync(p) PROVE TypeOK'
  BY <1>5, PostType DEF RetrySync
<1>6. ASSUME NEW p \in Caller, FinishSync(p) PROVE TypeOK'
  BY <1>6, PostType DEF FinishSync
<1>7. ASSUME NEW b \in flight, RetryAsync(b) PROVE TypeOK'
  BY <1>7, PostType DEF RetryAsync
<1>8. ASSUME NEW b \in flight, FinishAsync(b) PROVE TypeOK'
  <2>1. tokens \in 1..MaxInFlight
    <3>1. IsFiniteSet(SUBSET Row)
      BY FS_SUBSET
    <3>2. IsFiniteSet(flight)
      BY <3>1, FS_Subset
    <3>3. Cardinality(flight) \in Nat /\ Cardinality(flight) # 0
      BY <3>2, FS_EmptySet, FS_CardinalityType
    <3> QED BY <3>3 DEF WriterInv, InFlightBounded
  <2> QED BY <1>8, <2>1, PostType DEF FinishAsync
<1>9. CASE UNCHANGED vars
  BY <1>9 DEF vars
<1> QED
  BY <1>1, <1>2, <1>3, <1>4, <1>5, <1>6, <1>7, <1>8, <1>9 DEF Next

-----------------------------------------------------------------------------
(* The invariant, one conjunct at a time. *)

LEMMA InvInit == Init => WriterInv
<1> SUFFICES ASSUME Init PROVE WriterInv
  OBVIOUS
<1>1. Cardinality({}) = 0
  BY FS_EmptySet
<1> QED
  BY <1>1 DEF Init, WriterInv, OneHolder, NothingVanishes, Accounted,
              InFlightBounded, CountMatches

\* Where a row may be after a step that sends it on.
LEMMA HolderStep ==
    ASSUME TypeOK, WriterInv, [Next]_vars
    PROVE  /\ OneHolder'
           /\ \A p \in Caller : (job[p] = {} <=> mode[p] = "idle")'
           /\ ({} \notin flight)'
<1> USE DEF TypeOK, Batch, WriterInv, OneHolder
<1>1. ASSUME NEW p \in Caller, NEW r \in fresh, Add(p, r)
      PROVE  /\ OneHolder'
             /\ \A q \in Caller : (job[q] = {} <=> mode[q] = "idle")'
             /\ ({} \notin flight)'
  <2>1. CASE count + 1 >= BatchSize
    BY <1>1, <2>1 DEF Add
  <2>2. CASE ~(count + 1 >= BatchSize)
    BY <1>1, <2>2 DEF Add
  <2> QED BY <2>1, <2>2
<1>2. ASSUME NEW p \in Caller, NEW r \in fresh, NEW m \in {"async", "sync"},
             Write(p, r, m)
      PROVE  /\ OneHolder'
             /\ \A q \in Caller : (job[q] = {} <=> mode[q] = "idle")'
             /\ ({} \notin flight)'
  BY <1>2 DEF Write
<1>3. ASSUME NEW p \in Caller, Flush(p)
      PROVE  /\ OneHolder'
             /\ \A q \in Caller : (job[q] = {} <=> mode[q] = "idle")'
             /\ ({} \notin flight)'
  BY <1>3 DEF Flush
<1>4. ASSUME NEW p \in Caller, Acquire(p)
      PROVE  /\ OneHolder'
             /\ \A q \in Caller : (job[q] = {} <=> mode[q] = "idle")'
             /\ ({} \notin flight)'
  BY <1>4 DEF Acquire
<1>5. ASSUME NEW p \in Caller, RetrySync(p)
      PROVE  UNCHANGED <<fresh, buf, job, mode, flight>>
  BY <1>5 DEF RetrySync
<1>6. ASSUME NEW p \in Caller, FinishSync(p)
      PROVE  /\ OneHolder'
             /\ \A q \in Caller : (job[q] = {} <=> mode[q] = "idle")'
             /\ ({} \notin flight)'
  BY <1>6 DEF FinishSync
<1>7. ASSUME NEW b \in flight, RetryAsync(b)
      PROVE  UNCHANGED <<fresh, buf, job, mode, flight>>
  BY <1>7 DEF RetryAsync
<1>8. ASSUME NEW b \in flight, FinishAsync(b)
      PROVE  /\ OneHolder'
             /\ \A q \in Caller : (job[q] = {} <=> mode[q] = "idle")'
             /\ ({} \notin flight)'
  BY <1>8 DEF FinishAsync
<1>9. CASE UNCHANGED vars
  BY <1>9 DEF vars
<1> QED
  BY <1>1, <1>2, <1>3, <1>4, <1>5, <1>6, <1>7, <1>8, <1>9 DEF Next

LEMMA AccountStep ==
    ASSUME TypeOK, WriterInv, [Next]_vars, NEW r \in Row
    PROVE  Accounted(r)'
<1> USE DEF TypeOK, Batch, Accounted
<1>0. Accounted(r)
  BY DEF WriterInv, NothingVanishes
<1>1. ASSUME NEW p \in Caller, NEW s \in fresh, Add(p, s) PROVE Accounted(r)'
  <2>1. CASE count + 1 >= BatchSize
    <3>1. job'[p] = buf \cup {s}
      BY <1>1, <2>1 DEF Add
    <3>2. \A q \in Caller : q # p => job'[q] = job[q]
      BY <1>1, <2>1 DEF Add
    <3>3. job[p] = {}
      BY <1>1 DEF Add, WriterInv
    <3> QED BY <1>0, <1>1, <2>1, <3>1, <3>2, <3>3 DEF Add
  <2>2. CASE ~(count + 1 >= BatchSize)
    BY <1>0, <1>1, <2>2 DEF Add
  <2> QED BY <2>1, <2>2
<1>2. ASSUME NEW p \in Caller, NEW s \in fresh, NEW m \in {"async", "sync"},
             Write(p, s, m)
      PROVE  Accounted(r)'
  <2>1. job'[p] = {s} /\ job[p] = {}
    BY <1>2 DEF Write, WriterInv
  <2>2. \A q \in Caller : q # p => job'[q] = job[q]
    BY <1>2 DEF Write
  <2> QED BY <1>0, <1>2, <2>1, <2>2 DEF Write
<1>3. ASSUME NEW p \in Caller, Flush(p) PROVE Accounted(r)'
  <2>1. job'[p] = buf /\ job[p] = {}
    BY <1>3 DEF Flush, WriterInv
  <2>2. \A q \in Caller : q # p => job'[q] = job[q]
    BY <1>3 DEF Flush
  <2> QED BY <1>0, <1>3, <2>1, <2>2 DEF Flush
<1>4. ASSUME NEW p \in Caller, Acquire(p) PROVE Accounted(r)'
  <2>1. job[p] \in flight'
    BY <1>4 DEF Acquire
  <2>2. \A q \in Caller : q # p => job'[q] = job[q]
    BY <1>4 DEF Acquire
  <2> QED BY <1>0, <1>4, <2>1, <2>2 DEF Acquire
<1>5. ASSUME NEW p \in Caller, RetrySync(p) PROVE Accounted(r)'
  BY <1>0, <1>5 DEF RetrySync, Retried
<1>6. ASSUME NEW p \in Caller, FinishSync(p) PROVE Accounted(r)'
  <2>1. job[p] \subseteq landed' \cup lost'
    BY <1>6 DEF FinishSync, Accepted, GivenUp
  <2>2. landed \subseteq landed' /\ lost \subseteq lost'
    BY <1>6 DEF FinishSync, Accepted, GivenUp
  <2>3. \A q \in Caller : q # p => job'[q] = job[q]
    BY <1>6 DEF FinishSync
  <2> QED BY <1>0, <1>6, <2>1, <2>2, <2>3 DEF FinishSync
<1>7. ASSUME NEW b \in flight, RetryAsync(b) PROVE Accounted(r)'
  BY <1>0, <1>7 DEF RetryAsync, Retried
<1>8. ASSUME NEW b \in flight, FinishAsync(b) PROVE Accounted(r)'
  <2>1. b \subseteq landed' \cup lost'
    BY <1>8 DEF FinishAsync, Accepted, GivenUp
  <2>2. landed \subseteq landed' /\ lost \subseteq lost'
    BY <1>8 DEF FinishAsync, Accepted, GivenUp
  <2> QED BY <1>0, <1>8, <2>1, <2>2 DEF FinishAsync
<1>9. CASE UNCHANGED vars
  BY <1>0, <1>9 DEF vars
<1> QED
  BY <1>1, <1>2, <1>3, <1>4, <1>5, <1>6, <1>7, <1>8, <1>9 DEF Next

LEMMA TokenStep ==
    ASSUME TypeOK, WriterInv, [Next]_vars
    PROVE  InFlightBounded'
<1> USE DEF TypeOK, Batch
<1>1. IsFiniteSet(flight)
  <2>1. IsFiniteSet(SUBSET Row)
    BY FS_SUBSET
  <2> QED BY <2>1, FS_Subset
<1>2. InFlightBounded
  BY DEF WriterInv
<1>3. ASSUME NEW p \in Caller, Acquire(p) PROVE InFlightBounded'
  <2>1. job[p] \notin flight
    BY <1>3 DEF Acquire, WriterInv, OneHolder
  <2>2. Cardinality(flight \cup {job[p]}) = Cardinality(flight) + 1
    BY <1>1, <2>1, FS_AddElement
  <2> QED BY <1>2, <1>3, <2>2 DEF Acquire, InFlightBounded
<1>4. ASSUME NEW b \in flight, FinishAsync(b) PROVE InFlightBounded'
  <2>1. Cardinality(flight \ {b}) = Cardinality(flight) - 1
    BY <1>1, FS_RemoveElement
  <2> QED BY <1>2, <1>4, <2>1 DEF FinishAsync, InFlightBounded
<1>5. CASE UNCHANGED <<tokens, flight>>
  BY <1>2, <1>5 DEF InFlightBounded
<1> QED
  BY <1>3, <1>4, <1>5
     DEF Next, Add, Write, Flush, RetrySync, FinishSync, RetryAsync, vars

LEMMA CountStep ==
    ASSUME TypeOK, WriterInv, [Next]_vars
    PROVE  CountMatches'
<1> USE DEF TypeOK, Batch
<1>1. CountMatches /\ IsFiniteSet(buf)
  BY FS_Subset DEF WriterInv
<1>2. Cardinality({}) = 0
  BY FS_EmptySet
<1>3. ASSUME NEW p \in Caller, NEW r \in fresh, Add(p, r) PROVE CountMatches'
  <2>1. CASE count + 1 >= BatchSize
    <3>1. buf' = {} /\ count' = 0
      BY <1>3, <2>1 DEF Add
    <3> QED BY <1>2, <3>1 DEF CountMatches
  <2>2. CASE ~(count + 1 >= BatchSize)
    <3>1. r \notin buf
      BY DEF WriterInv, OneHolder
    <3>2. Cardinality(buf \cup {r}) = Cardinality(buf) + 1
      BY <1>1, <3>1, FS_AddElement
    <3>3. buf' = buf \cup {r} /\ count' = count + 1 /\ count + 1 < BatchSize
      BY <1>3, <2>2 DEF Add
    <3> QED BY <1>1, <3>2, <3>3 DEF CountMatches
  <2> QED BY <2>1, <2>2
<1>4. ASSUME NEW p \in Caller, Flush(p) PROVE CountMatches'
  <2>1. buf' = {} /\ count' = 0
    BY <1>4 DEF Flush
  <2> QED BY <1>2, <2>1 DEF CountMatches
<1>5. CASE UNCHANGED <<buf, count>>
  BY <1>1, <1>5 DEF CountMatches
<1> QED
  BY <1>3, <1>4, <1>5
     DEF Next, Write, Acquire, RetrySync, FinishSync, RetryAsync, FinishAsync,
         vars

LEMMA InvStep ==
    ASSUME TypeOK, WriterInv, [Next]_vars
    PROVE  WriterInv'
BY HolderStep, AccountStep, TokenStep, CountStep DEF WriterInv, NothingVanishes

-----------------------------------------------------------------------------
(* The theorems. *)

\* The writer is type correct: in particular no batch is tried more than
\* Attempts times and no more than MaxInFlight tokens are out.
THEOREM TypeCorrect == Spec => []TypeOK
<1>1. TypeOK /\ WriterInv /\ [Next]_vars => (TypeOK /\ WriterInv)'
  BY TypeStep, InvStep
<1> QED BY <1>1, TypeInit, InvInit, PTL DEF Spec

\* One holder per row, one token per goroutine, counted batches, nothing lost
\* silently.
THEOREM WriterCorrect == Spec => []WriterInv
<1>1. TypeOK /\ WriterInv /\ [Next]_vars => (TypeOK /\ WriterInv)'
  BY TypeStep, InvStep
<1> QED BY <1>1, TypeInit, InvInit, PTL DEF Spec

\* insert: a batch is dropped loudly or not at all.
THEOREM NothingLostSilently == Spec => []NothingVanishes
<1>1. WriterInv => NothingVanishes
  BY DEF WriterInv
<1> QED BY <1>1, WriterCorrect, PTL

\* A stalled ClickHouse holds at most maxInFlightInserts goroutines.
THEOREM Backpressure == Spec => []InFlightBounded
<1>1. WriterInv => InFlightBounded
  BY DEF WriterInv
<1> QED BY <1>1, WriterCorrect, PTL
=============================================================================
