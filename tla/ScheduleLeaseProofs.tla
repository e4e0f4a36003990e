------------------------ MODULE ScheduleLeaseProofs -------------------------
(***************************************************************************)
(* Proofs about ScheduleLease: types, exclusion under bounded insert skew, *)
(* and the implementation of FireLease.                                    *)
(***************************************************************************)
EXTENDS ScheduleLease, TLAPS

-----------------------------------------------------------------------------
(* Arbitration. *)

\* The claim order is total on claims of different owner or stamp: readers of
\* one claim set cannot elect different owners.
LEMMA ClaimOrderTotal ==
    ASSUME NEW a \in Claim, NEW b \in Claim,
           a.owner # b.owner \/ a.stamp # b.stamp
    PROVE  /\ ClaimLess(a, b) \/ ClaimLess(b, a)
           /\ ~(ClaimLess(a, b) /\ ClaimLess(b, a))
<1>1. a.owner \in Nat /\ b.owner \in Nat /\ a.stamp \in Int /\ b.stamp \in Int
  BY OwnerAssumption DEF Claim
<1> QED BY <1>1 DEF ClaimLess

\* arbitrateScheduleLease: two claims elected from one table at one time are
\* of the same owner, whatever order the rows are read in.
THEOREM ElectionUnique ==
    ASSUME TypeOK, NEW t \in Int, NEW c, NEW d, Elected(c, t), Elected(d, t)
    PROVE  c.owner = d.owner /\ c.stamp = d.stamp
<1>1. c \in Claim /\ d \in Claim
  BY DEF Elected, LiveRows, TypeOK
<1>2. ~ClaimLess(c, d) /\ ~ClaimLess(d, c)
  <2>1. c = d \/ (~ClaimLess(c, d) /\ ~ClaimLess(d, c))
    BY DEF Elected, LiveRows
  <2>2. CASE c = d
    <3>1. c.owner \in Nat /\ c.stamp \in Int
      BY <1>1, OwnerAssumption DEF Claim
    <3> QED BY <2>2, <3>1 DEF ClaimLess
  <2> QED BY <2>1, <2>2
<1> QED BY <1>1, <1>2, ClaimOrderTotal

-----------------------------------------------------------------------------
(* Types. *)

LEMMA TypeInit == Init => TypeOK
BY TimeAssumption, OwnerAssumption DEF Init, TypeOK, PC

LEMMA VerdictType ==
    ASSUME TypeOK, NEW o \in Owner, NEW c \in rows, Verdict(o, c)
    PROVE  pc' \in [Owner -> PC] /\ grants' \subseteq Lease!Grant
<1>1. c \in Claim /\ now[o] \in Int /\ "won" \in PC /\ "idle" \in PC
  BY DEF TypeOK, PC
<1>2. CASE c.owner = o
  <2>1. [owner |-> o, stamp |-> c.stamp, at |-> now[o]] \in Lease!Grant
    BY <1>1 DEF Claim, Lease!Grant
  <2> QED BY <1>1, <1>2, <2>1 DEF TypeOK, Verdict
<1>3. CASE c.owner # o
  BY <1>1, <1>3 DEF TypeOK, Verdict
<1> QED BY <1>2, <1>3

LEMMA TypeStep == TypeOK /\ [Next]_vars => TypeOK'
<1> SUFFICES ASSUME TypeOK, [Next]_vars PROVE TypeOK'
  OBVIOUS
<1> USE TimeAssumption
<1>1. ASSUME NEW o \in Owner, Tick(o) PROVE TypeOK'
  BY <1>1 DEF TypeOK, Tick, PC
<1>2. ASSUME NEW o \in Owner, EarlyOut(o) PROVE TypeOK'
  BY <1>2, VerdictType DEF TypeOK, EarlyOut
<1>3. ASSUME NEW o \in Owner, InsertClaim(o) PROVE TypeOK'
  <2>1. PICK n \in 0..MaxTime + 1 :
            wire' = wire \cup {[owner |-> o, stamp |-> now[o], gen |-> n]}
    BY <1>3 DEF InsertClaim
  <2>2. [owner |-> o, stamp |-> now[o], gen |-> n] \in Claim
    BY DEF TypeOK, Claim
  <2> QED BY <1>3, <2>1, <2>2 DEF TypeOK, InsertClaim, PC
<1>4. ASSUME NEW o \in Owner, StartSettle(o) PROVE TypeOK'
  BY <1>4 DEF TypeOK, StartSettle, PC
<1>5. ASSUME NEW o \in Owner, Arbitrate(o) PROVE TypeOK'
  <2>1. CASE \E c \in rows : Elected(c, now[o]) /\ Verdict(o, c)
    BY <1>5, <2>1, VerdictType DEF TypeOK, Arbitrate
  <2>2. CASE pc' = [pc EXCEPT ![o] = "idle"] /\ UNCHANGED grants
    BY <1>5, <2>2 DEF TypeOK, Arbitrate, PC
  <2> QED BY <1>5, <2>1, <2>2 DEF Arbitrate
<1>6. ASSUME NEW o \in Owner, Fail(o) PROVE TypeOK'
  BY <1>6 DEF TypeOK, Fail, PC
<1>7. ASSUME NEW o \in Owner, Fire(o) PROVE TypeOK'
  BY <1>7 DEF TypeOK, Fire, PC
<1>8. ASSUME NEW o \in Owner, Release(o) PROVE TypeOK'
  BY <1>8 DEF TypeOK, Release, PC
<1>9. ASSUME NEW c \in wire, Land(c) \/ Lose(c) PROVE TypeOK'
  BY <1>9 DEF TypeOK, Land, Lose
<1>10. CASE Advance
  BY <1>10 DEF TypeOK, Advance
<1>11. CASE UNCHANGED vars
  BY <1>11 DEF TypeOK, vars
<1> QED
  BY <1>1, <1>2, <1>3, <1>4, <1>5, <1>6, <1>7, <1>8, <1>9, <1>10, <1>11
  DEF Next

\* Every variable of the lease protocol keeps its type.
THEOREM TypeCorrect == Spec => []TypeOK
<1>1. Init => TypeOK
  BY TypeInit
<1>2. TypeOK /\ [Next]_vars => TypeOK'
  BY TypeStep
<1> QED BY <1>1, <1>2, PTL DEF Spec

-----------------------------------------------------------------------------
(* Exclusion. *)

LEMMA InvInit == TimeAssumption /\ Init => LeaseInv
BY DEF Init, LeaseInv, StampsBehind, ClaimersInTime, LeaseExclusive, TimeAssumption

\* A grant given to o over its claim c is the oldest and clashes with none:
\* the claims before c that are in the table have run out, and the grants
\* whose claim is after c were given when c had run out.
LEMMA NewGrant ==
    ASSUME TypeOK, LeaseInv, NEW o \in Owner, NEW c \in rows,
           Elected(c, now[o]), c.owner = o, c.stamp + Settle <= clock,
           NEW g, g = [owner |-> o, stamp |-> c.stamp, at |-> now[o]]
    PROVE  /\ GrantIsOldest(g)
           /\ \A h \in grants : h.owner # o => ~Lease!Overlap(g, h)
<1> USE TimeAssumption
<1>1. /\ o \in Nat /\ c.stamp \in Int /\ now[o] \in Int /\ c \in Claim
      /\ g.owner = o /\ g.stamp = c.stamp /\ g.at = now[o]
  BY OwnerAssumption DEF TypeOK, Claim
<1>2. o \notin released /\ now[o] < c.stamp + TTL
  BY DEF Elected, LiveRows, Live
<1>3. ASSUME NEW d \in rows, d.owner # o, d.owner \notin released,
             ClaimLess(d, g)
      PROVE  d.stamp + TTL <= now[o]
  <2>1. ClaimLess(d, c)
    BY <1>1, <1>3 DEF ClaimLess
  <2>2. d \notin LiveRows(now[o])
    BY <1>3, <2>1 DEF Elected
  <2>3. d.stamp \in Int
    BY DEF TypeOK, Claim
  <2> QED BY <1>1, <1>3, <2>2, <2>3 DEF LiveRows, Live
<1>4. GrantIsOldest(g)
  BY <1>1, <1>2, <1>3 DEF GrantIsOldest, Lease!Until
<1>5. ASSUME NEW h \in grants, h.owner # o
      PROVE  ~Lease!Overlap(g, h)
  <2>1. GrantIsOldest(h)
    BY DEF LeaseInv
  <2>2. h.owner \in Nat /\ h.stamp \in Int /\ h.at \in Int
    BY OwnerAssumption DEF TypeOK, Lease!Grant
  <2>3. PICK d \in rows : d.owner = h.owner /\ d.stamp = h.stamp
    BY <2>1 DEF GrantIsOldest
  <2>4. CASE ClaimLess(h, g)
    <3>1. ClaimLess(d, g)
      BY <2>3, <2>4 DEF ClaimLess
    <3>2. h.stamp + TTL <= now[o]
      BY <1>3, <1>5, <2>1, <2>3, <3>1 DEF GrantIsOldest
    <3> QED BY <1>1, <2>2, <3>2 DEF Lease!Overlap, Lease!Until
  <2>5. CASE ~ClaimLess(h, g)
    <3>1. ClaimLess(c, h)
      BY <1>1, <1>5, <2>2, <2>5 DEF ClaimLess
    <3>2. c.stamp + TTL <= h.at
      BY <1>2, <1>5, <2>1, <3>1 DEF GrantIsOldest
    <3> QED BY <1>1, <2>2, <3>2 DEF Lease!Overlap, Lease!Until
  <2> QED BY <2>4, <2>5
<1> QED BY <1>4, <1>5

\* Giving a verdict keeps the invariant once the elected claim, if it is the
\* process's own, has settled.
LEMMA VerdictStep ==
    ASSUME TypeOK, LeaseInv, NEW o \in Owner, NEW c \in rows,
           pc[o] \in {"list", "settle"}, Elected(c, now[o]), Verdict(o, c),
           c.owner = o => c.stamp + Settle <= clock,
           UNCHANGED <<clock, now, rows, wire, released>>,
           \A p \in Owner : p # o => wake'[p] = wake[p]
    PROVE  LeaseInv'
<1>1. StampsBehind'
  BY DEF LeaseInv, StampsBehind
<1>2. ClaimersInTime'
  BY DEF LeaseInv, ClaimersInTime, Verdict, TypeOK
<1>3. CASE c.owner # o
  BY <1>1, <1>2, <1>3
  DEF LeaseInv, LeaseExclusive, GrantIsOldest, Verdict, Lease!Overlap, Lease!Until
<1>4. CASE c.owner = o
  <2> DEFINE g == [owner |-> o, stamp |-> c.stamp, at |-> now[o]]
  <2>1. /\ GrantIsOldest(g)
        /\ \A h \in grants : h.owner # o => ~Lease!Overlap(g, h)
    BY <1>4, NewGrant
  <2>2. grants' = grants \cup {g} /\ g.owner = o
    BY <1>4 DEF Verdict
  <2> HIDE DEF g
  <2>3. \A h \in grants' : GrantIsOldest(h)'
    BY <2>1, <2>2 DEF LeaseInv, GrantIsOldest, Lease!Until
  <2>4. LeaseExclusive'
    BY <2>1, <2>2 DEF LeaseInv, LeaseExclusive, Lease!Overlap, Lease!Until
  <2> QED BY <1>1, <1>2, <2>3, <2>4 DEF LeaseInv
<1> QED BY <1>3, <1>4

LEMMA InvStep ==
    ASSUME BoundedSkew
    PROVE  TypeOK /\ LeaseInv /\ [Next]_vars => LeaseInv'
<1> SUFFICES ASSUME TypeOK, LeaseInv, [Next]_vars PROVE LeaseInv'
  OBVIOUS
<1> USE TimeAssumption
<1> DEFINE Grants == \A g \in grants : GrantIsOldest(g)
<1>0. /\ \A c \in rows \cup wire : c.owner \in Owner /\ c.stamp \in Int
      /\ \A o \in Owner : now[o] \in Int /\ wake[o] \in Int
      /\ \A g \in grants : g.owner \in Owner /\ g.stamp \in Int /\ g.at \in Int
      /\ clock \in Int
  BY DEF TypeOK, Claim, Lease!Grant
<1>1. ASSUME NEW o \in Owner, Tick(o) PROVE LeaseInv'
  <2>1. PICK t \in (clock - Skew)..clock :
            /\ now[o] + Gap <= t
            /\ clock <= t + Lag
            /\ now' = [now EXCEPT ![o] = t]
    BY <1>1 DEF Tick
  <2>2. StampsBehind'
    BY <1>0, <1>1, <2>1 DEF LeaseInv, StampsBehind, Tick, TypeOK
  <2>3. ClaimersInTime'
    BY <1>0, <1>1, <2>1 DEF LeaseInv, StampsBehind, ClaimersInTime, Tick, TypeOK
  <2>4. Grants'
    BY <1>1 DEF LeaseInv, GrantIsOldest, Tick, Lease!Until
  <2> QED BY <1>1, <2>2, <2>3, <2>4 DEF LeaseInv, LeaseExclusive, Tick
<1>2. ASSUME NEW o \in Owner, EarlyOut(o) PROVE LeaseInv'
  <2>1. PICK c \in rows : Elected(c, now[o]) /\ Verdict(o, c)
    BY <1>2 DEF EarlyOut
  <2>2. c.owner = o => c.stamp + Settle <= clock
    BY <1>0, <1>2
    DEF EarlyOut, LeaseInv, ClaimersInTime, StampsBehind, BoundedSkew
  <2> QED BY <1>2, <2>1, <2>2, VerdictStep DEF EarlyOut
<1>3. ASSUME NEW o \in Owner, InsertClaim(o) PROVE LeaseInv'
  <2>1. PICK n \in 0..MaxTime + 1 :
            wire' = wire \cup {[owner |-> o, stamp |-> now[o], gen |-> n]}
    BY <1>3 DEF InsertClaim
  <2>2. pc[o] = "list" /\ pc' = [pc EXCEPT ![o] = "insert"]
        /\ UNCHANGED <<clock, now, wake, rows, released, grants>>
    BY <1>3 DEF InsertClaim
  <2>3. StampsBehind'
    BY <1>0, <2>1, <2>2 DEF LeaseInv, StampsBehind, ClaimersInTime
  <2>4. ClaimersInTime'
    BY <1>0, <2>1, <2>2 DEF LeaseInv, ClaimersInTime, TypeOK
  <2>5. Grants'
    BY <2>2 DEF LeaseInv, GrantIsOldest, Lease!Until
  <2> QED BY <2>2, <2>3, <2>4, <2>5 DEF LeaseInv, LeaseExclusive
<1>4. ASSUME NEW o \in Owner, StartSettle(o) PROVE LeaseInv'
  <2>1. StampsBehind' /\ ClaimersInTime'
    BY <1>0, <1>4
    DEF LeaseInv, StampsBehind, ClaimersInTime, StartSettle, TypeOK
  <2>2. Grants'
    BY <1>4 DEF LeaseInv, GrantIsOldest, StartSettle, Lease!Until
  <2> QED BY <1>4, <2>1, <2>2 DEF LeaseInv, LeaseExclusive, StartSettle
<1>5. ASSUME NEW o \in Owner, Arbitrate(o) PROVE LeaseInv'
  <2>1. ASSUME NEW c \in rows, Elected(c, now[o]), Verdict(o, c)
        PROVE  LeaseInv'
    <3>1. c.owner = o => c.stamp + Settle <= clock
      <4>1. now[o] + Settle <= clock
        BY <1>0, <1>5 DEF LeaseInv, ClaimersInTime, Arbitrate
      <4>2. c.owner = o => c.stamp <= now[o]
        BY DEF LeaseInv, StampsBehind
      <4> QED BY <1>0, <4>1, <4>2
    <3>2. \A p \in Owner : p # o => wake'[p] = wake[p]
      BY <1>5 DEF Arbitrate, TypeOK
    <3> QED BY <1>5, <2>1, <3>1, <3>2, VerdictStep DEF Arbitrate
  <2>2. CASE pc' = [pc EXCEPT ![o] = "idle"] /\ UNCHANGED grants
    <3>1. StampsBehind' /\ ClaimersInTime'
      BY <1>5, <2>2 DEF LeaseInv, StampsBehind, ClaimersInTime, Arbitrate, TypeOK
    <3> QED BY <1>5, <2>2, <3>1
        DEF LeaseInv, LeaseExclusive, GrantIsOldest, Arbitrate, Lease!Until
  <2> QED BY <1>5, <2>1, <2>2 DEF Arbitrate
<1>6. ASSUME NEW o \in Owner, Fail(o) PROVE LeaseInv'
  <2>1. StampsBehind' /\ ClaimersInTime'
    BY <1>6 DEF LeaseInv, StampsBehind, ClaimersInTime, Fail, TypeOK
  <2> QED BY <1>6, <2>1
      DEF LeaseInv, LeaseExclusive, GrantIsOldest, Fail, Lease!Until
<1>7. ASSUME NEW o \in Owner, Fire(o) PROVE LeaseInv'
  <2>1. StampsBehind' /\ ClaimersInTime'
    BY <1>7 DEF LeaseInv, StampsBehind, ClaimersInTime, Fire, TypeOK
  <2> QED BY <1>7, <2>1
      DEF LeaseInv, LeaseExclusive, GrantIsOldest, Fire, Lease!Until
<1>8. ASSUME NEW o \in Owner, Release(o) PROVE LeaseInv'
  <2>1. StampsBehind' /\ ClaimersInTime'
    BY <1>8 DEF LeaseInv, StampsBehind, ClaimersInTime, Release, TypeOK
  <2>2. Grants'
    BY <1>8 DEF LeaseInv, GrantIsOldest, Release, Lease!Until
  <2> QED BY <1>8, <2>1, <2>2 DEF LeaseInv, LeaseExclusive, Release
<1>9. ASSUME NEW c \in wire, Land(c) PROVE LeaseInv'
  <2>1. StampsBehind' /\ ClaimersInTime'
    BY <1>9 DEF LeaseInv, StampsBehind, ClaimersInTime, Land
  <2>2. ASSUME NEW g \in grants PROVE GrantIsOldest(g)'
    \* c lands after g was given and settled, so it is younger than g.
    <3>1. GrantIsOldest(g) /\ c.stamp > g.stamp
      BY <1>0, <1>9 DEF LeaseInv, StampsBehind, GrantIsOldest, BoundedSkew
    <3>2. ~ClaimLess(c, g)
      BY <1>0, <3>1 DEF ClaimLess
    <3> QED BY <1>9, <3>1, <3>2 DEF GrantIsOldest, Land, Lease!Until
  <2>3. Grants'
    BY <1>9, <2>2 DEF Land
  <2> QED BY <1>9, <2>1, <2>3 DEF LeaseInv, LeaseExclusive, Land
<1>10. ASSUME NEW c \in wire, Lose(c) PROVE LeaseInv'
  <2>1. StampsBehind' /\ ClaimersInTime'
    BY <1>10 DEF LeaseInv, StampsBehind, ClaimersInTime, Lose
  <2> QED BY <1>10, <2>1
      DEF LeaseInv, LeaseExclusive, GrantIsOldest, Lose, Lease!Until
<1>11. CASE Advance
  <2>1. StampsBehind' /\ ClaimersInTime'
    BY <1>0, <1>11 DEF LeaseInv, StampsBehind, ClaimersInTime, Advance
  <2>2. Grants'
    BY <1>0, <1>11 DEF LeaseInv, GrantIsOldest, Advance, Lease!Until
  <2> QED BY <1>11, <2>1, <2>2 DEF LeaseInv, LeaseExclusive, Advance
<1>12. CASE UNCHANGED vars
  BY <1>12 DEF vars, LeaseInv, StampsBehind, ClaimersInTime, LeaseExclusive,
     GrantIsOldest, Lease!Until
<1> QED
  BY <1>1, <1>2, <1>3, <1>4, <1>5, <1>6, <1>7, <1>8, <1>9, <1>10, <1>11, <1>12
  DEF Next

\* claimScheduleFire: while claims land within the settle window, two owners
\* never hold the occurrence over overlapping times, for every number of
\* processes, every lease length and every order of landing.
THEOREM SingleOwner ==
    ASSUME BoundedSkew
    PROVE  Spec => []LeaseExclusive
<1>1. Init => LeaseInv
  BY InvInit, TimeAssumption
<1>2. TypeOK /\ LeaseInv /\ [Next]_vars => LeaseInv'
  BY InvStep
<1>3. LeaseInv => LeaseExclusive
  BY DEF LeaseInv
<1> QED BY <1>1, <1>2, <1>3, TypeCorrect, PTL DEF Spec

\* The inductive invariant behind it.
THEOREM LeaseInvariant ==
    ASSUME BoundedSkew
    PROVE  Spec => []LeaseInv
<1>1. Init => LeaseInv
  BY InvInit, TimeAssumption
<1>2. TypeOK /\ LeaseInv /\ [Next]_vars => LeaseInv'
  BY InvStep
<1> QED BY <1>1, <1>2, TypeCorrect, PTL DEF Spec

-----------------------------------------------------------------------------
(* Generations.  A claim on the wire has already what its generation stands *)
(* for, but that it may be itself the claim that opens it.                  *)

GenerationBacked(c) ==
    c.gen > 0 => \E d \in rows : \E e \in rows \cup {c} :
        e.gen = c.gen /\ d.gen < e.gen /\ d.stamp + TTL <= e.stamp

GenerationsBacked == \A c \in rows \cup wire : GenerationBacked(c)

\* A fresh claim repeats the highest generation of the table, or follows it
\* because a claim there had run out.
LEMMA FreshGeneration ==
    ASSUME TypeOK, GenerationsBacked, NEW o \in Owner, NEW n \in Nat,
           IsGeneration(n, now[o]),
           NEW c, c = [owner |-> o, stamp |-> now[o], gen |-> n]
    PROVE  GenerationBacked(c)
<1> USE TimeAssumption
<1>0. /\ \A d \in rows : d.gen \in Nat /\ d.stamp \in Int
      /\ now[o] \in Int
  BY DEF TypeOK, Claim
<1>1. PICK m \in {0} \cup {d.gen : d \in rows} :
         /\ \A d \in rows : d.gen <= m
         /\ n = IF Takeover(now[o]) THEN m + 1 ELSE m
  BY DEF IsGeneration
<1>2. m \in Nat
  BY <1>0
<1>3. CASE Takeover(now[o])
  <2>1. PICK d \in rows : d.stamp + TTL <= now[o]
    BY <1>3 DEF Takeover
  <2>2. d.gen < c.gen /\ d.stamp + TTL <= c.stamp
    BY <1>0, <1>1, <1>2, <1>3, <2>1
  <2> QED BY <2>2 DEF GenerationBacked
<1>4. CASE ~Takeover(now[o]) /\ n > 0
  <2>1. PICK b \in rows : b.gen = n
    BY <1>1, <1>2, <1>4
  <2>2. \E d, e \in rows : e.gen = n /\ d.gen < e.gen /\ d.stamp + TTL <= e.stamp
    BY <1>4, <2>1 DEF GenerationsBacked, GenerationBacked
  <2> QED BY <2>2 DEF GenerationBacked
<1> QED BY <1>3, <1>4 DEF GenerationBacked

LEMMA GenerationStep == TypeOK /\ GenerationsBacked /\ [Next]_vars => GenerationsBacked'
<1> SUFFICES ASSUME TypeOK, GenerationsBacked, [Next]_vars PROVE GenerationsBacked'
  OBVIOUS
<1>1. ASSUME NEW o \in Owner, InsertClaim(o) PROVE GenerationsBacked'
  <2>1. PICK n \in 0..MaxTime + 1 :
            /\ IsGeneration(n, now[o])
            /\ wire' = wire \cup {[owner |-> o, stamp |-> now[o], gen |-> n]}
    BY <1>1 DEF InsertClaim
  <2> DEFINE c == [owner |-> o, stamp |-> now[o], gen |-> n]
  <2>2. rows' = rows
    BY <1>1 DEF InsertClaim
  <2>3. n \in Nat
    BY TimeAssumption
  <2>4. GenerationBacked(c)
    BY <2>1, <2>3, FreshGeneration
  <2>5. \A b : GenerationBacked(b) => GenerationBacked(b)'
    BY <2>2 DEF GenerationBacked
  <2>6. rows' \cup wire' = (rows \cup wire) \cup {c}
    BY <2>1, <2>2
  <2> QED BY <2>4, <2>5, <2>6 DEF GenerationsBacked
<1>2. ASSUME NEW c \in wire, Land(c) PROVE GenerationsBacked'
  <2>1. \A b : GenerationBacked(b) => GenerationBacked(b)'
    BY <1>2 DEF Land, GenerationBacked
  <2>2. rows' \cup wire' \subseteq rows \cup wire
    BY <1>2 DEF Land
  <2> QED BY <2>1, <2>2 DEF GenerationsBacked
<1>3. ASSUME NEW c \in wire, Lose(c) PROVE GenerationsBacked'
  BY <1>3 DEF Lose, GenerationsBacked, GenerationBacked
<1>4. CASE UNCHANGED <<rows, wire>>
  BY <1>4 DEF GenerationsBacked, GenerationBacked
<1>5. ASSUME NEW o \in Owner,
             \/ Tick(o) \/ EarlyOut(o) \/ StartSettle(o)
             \/ Arbitrate(o) \/ Fail(o) \/ Fire(o) \/ Release(o)
      PROVE  UNCHANGED <<rows, wire>>
  BY <1>5 DEF Tick, EarlyOut, StartSettle, Arbitrate, Fail, Fire, Release
<1>6. Advance \/ UNCHANGED vars => UNCHANGED <<rows, wire>>
  BY DEF Advance, vars
<1> QED BY <1>1, <1>2, <1>3, <1>4, <1>5, <1>6 DEF Next

\* scheduleLeaseGeneration: a generation above zero was opened by a claim made
\* after one of a lower generation had run out, whatever the skew and the order
\* of landing.
THEOREM GenerationsCountExpiries == Spec => []GenerationMeansExpiry
<1>1. Init => GenerationsBacked
  BY DEF Init, GenerationsBacked
<1>2. TypeOK /\ GenerationsBacked /\ [Next]_vars => GenerationsBacked'
  BY GenerationStep
<1>3. GenerationsBacked => GenerationMeansExpiry
  <2> SUFFICES ASSUME GenerationsBacked, NEW c \in rows, c.gen > 0
               PROVE  \E d, e \in rows : /\ e.gen = c.gen
                                         /\ d.gen < e.gen
                                         /\ d.stamp + TTL <= e.stamp
    BY DEF GenerationMeansExpiry
  <2> QED BY DEF GenerationsBacked, GenerationBacked
<1> QED BY <1>1, <1>2, <1>3, TypeCorrect, PTL DEF Spec

-----------------------------------------------------------------------------
(* The claim table implements the abstract lease. *)

LEMMA VerdictRefines ==
    ASSUME TypeOK, LeaseInv, NEW o \in Owner, NEW c \in rows,
           Elected(c, now[o]), Verdict(o, c),
           c.owner = o => c.stamp + Settle <= clock
    PROVE  Lease!Next \/ UNCHANGED grants
<1>1. CASE c.owner # o
  BY <1>1 DEF Verdict
<1>2. CASE c.owner = o
  <2> DEFINE g == [owner |-> o, stamp |-> c.stamp, at |-> now[o]]
  <2>1. /\ GrantIsOldest(g)
        /\ \A h \in grants : h.owner # o => ~Lease!Overlap(g, h)
    BY <1>2, NewGrant
  <2>2. grants' = grants \cup {g} /\ g.owner = o
    BY <1>2 DEF Verdict
  <2>3. g \in Lease!Grant
    BY DEF TypeOK, Claim, Lease!Grant
  <2> HIDE DEF g
  <2>4. Lease!Acquire(g)
    BY <2>1, <2>2, <2>3 DEF Lease!Acquire, Lease!Compatible, GrantIsOldest
  <2> QED BY <2>2, <2>4 DEF Lease!Next
<1> QED BY <1>1, <1>2

LEMMA StepRefines ==
    ASSUME BoundedSkew
    PROVE  TypeOK /\ LeaseInv /\ [Next]_vars => [Lease!Next]_grants
<1> SUFFICES ASSUME TypeOK, LeaseInv, [Next]_vars
             PROVE  Lease!Next \/ UNCHANGED grants
  OBVIOUS
<1> USE TimeAssumption
<1>0. /\ \A c \in rows : c.stamp \in Int
      /\ \A o \in Owner : now[o] \in Int /\ wake[o] \in Int
      /\ clock \in Int
  BY DEF TypeOK, Claim
<1>1. ASSUME NEW o \in Owner, EarlyOut(o)
      PROVE  Lease!Next \/ UNCHANGED grants
  <2>1. PICK c \in rows : Elected(c, now[o]) /\ Verdict(o, c)
    BY <1>1 DEF EarlyOut
  <2>2. c.owner = o => c.stamp + Settle <= clock
    BY <1>0, <1>1
    DEF EarlyOut, LeaseInv, ClaimersInTime, StampsBehind, BoundedSkew
  <2> QED BY <2>1, <2>2, VerdictRefines
<1>2. ASSUME NEW o \in Owner, Arbitrate(o)
      PROVE  Lease!Next \/ UNCHANGED grants
  <2>1. ASSUME NEW c \in rows, Elected(c, now[o]), Verdict(o, c)
        PROVE  Lease!Next \/ UNCHANGED grants
    <3>1. now[o] + Settle <= clock
      BY <1>0, <1>2 DEF LeaseInv, ClaimersInTime, Arbitrate
    <3>2. c.owner = o => c.stamp <= now[o]
      BY DEF LeaseInv, StampsBehind
    <3>3. c.owner = o => c.stamp + Settle <= clock
      BY <1>0, <3>1, <3>2
    <3> QED BY <2>1, <3>3, VerdictRefines
  <2> QED BY <1>2, <2>1 DEF Arbitrate
<1>3. ASSUME NEW o \in Owner, Release(o)
      PROVE  Lease!Next \/ UNCHANGED grants
  BY <1>3 DEF Release, Lease!Next, Lease!Decline
<1>4. ASSUME NEW o \in Owner,
             \/ Tick(o) \/ InsertClaim(o) \/ StartSettle(o) \/ Fail(o) \/ Fire(o)
      PROVE  UNCHANGED grants
  BY <1>4 DEF Tick, InsertClaim, StartSettle, Fail, Fire
<1>5. ASSUME NEW c \in wire, Land(c) \/ Lose(c)
      PROVE  UNCHANGED grants
  BY <1>5 DEF Land, Lose
<1>6. Advance \/ UNCHANGED vars => UNCHANGED grants
  BY DEF Advance, vars
<1> QED BY <1>1, <1>2, <1>3, <1>4, <1>5, <1>6 DEF Next

\* The insert-settle-arbitrate protocol over the claim table implements the
\* lease its callers are promised.
THEOREM Implements ==
    ASSUME BoundedSkew
    PROVE  Spec => ImplementsLease
<1>1. Init => LeaseInv
  BY InvInit, TimeAssumption
<1>2. TypeOK /\ LeaseInv /\ [Next]_vars => LeaseInv'
  BY InvStep
<1>3. Init => Lease!Init
  BY DEF Init, Lease!Init
<1>4. TypeOK /\ LeaseInv /\ [Next]_vars => [Lease!Next]_grants
  BY StepRefines
<1> QED
  BY <1>1, <1>2, <1>3, <1>4, TypeCorrect, PTL
  DEF Spec, ImplementsLease, Lease!Spec
=============================================================================
