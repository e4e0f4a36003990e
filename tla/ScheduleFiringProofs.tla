------------------------ MODULE ScheduleFiringProofs ------------------------
(***************************************************************************)
(* For any number of processes, any schedule and any timing: as long as    *)
(* the lease returns no error, a process dispatches an occurrence that     *)
(* another one has dispatched only after every claim of that one to it has *)
(* run out.                                                                *)
(***************************************************************************)
EXTENDS ScheduleFiring, TLAPS

USE FiringAssumption

\* Clocks and stamps are numbers; a claim of a tick under way is no later than
\* its clock reading.
Clocked ==
    /\ clock \in Nat
    /\ now \in [Owner -> Nat]
    /\ pc \in [Owner -> PC]
    /\ DOMAIN seen = Owner
    /\ \A o \in Owner : now[o] <= clock
    /\ \A c \in claims : /\ c.owner \in Owner /\ c.stamp \in Nat /\ c.stamp <= clock
                         /\ pc[c.owner] \in {"claim", "insert", "settle"}
                               => c.stamp <= now[c.owner]
    /\ \A f \in fires : f.owner \in Owner /\ f.at \in Nat

\* A process claims an occurrence again only when its claim has run out.
Spaced ==
    /\ \A c, d \in claims : c.key = d.key /\ c.owner = d.owner =>
          c.stamp = d.stamp \/ c.stamp + TTL <= d.stamp \/ d.stamp + TTL <= c.stamp
    /\ \A c \in claims : pc[c.owner] = "insert" /\ Current(c.owner) = c.key
          => c.stamp + TTL <= now[c.owner]

\* The claim c waits for the end of the settle window.
Unjudged(c) ==
    pc[c.owner] = "settle" /\ Current(c.owner) = c.key /\ now[c.owner] = c.stamp

\* While no claim that goes before it is on its way, a claim is not judged.
Settling ==
    \A c \in claims, p \in Owner :
        pc[p] = "insert" /\ Current(p) = c.key /\ now[p] <= c.stamp
            => Unjudged(c) \/ pc[c.owner] = "down"

\* A claim of o won k at time t, and nothing on its way goes before it.
Won(o, k, t) ==
    \E c \in claims :
        /\ c.owner = o /\ c.stamp <= t /\ Elected(c, k, t)
        /\ \A p \in Owner : pc[p] = "insert" /\ Current(p) = k => c.stamp < now[p]

\* A verdict stands for good: whatever lands later, the same claim is elected.
Standing == \A f \in fires : Won(f.owner, f.key, f.at)

FiringInv == /\ Clocked /\ Spaced
             /\ "error" \notin upset => Settling /\ Standing

\* Steps that leave the claims alone: no process but o moves, and o does not end
\* its list without a live claim.
LEMMA ClaimsKept ==
    ASSUME FiringInv, NEW o \in Owner, UNCHANGED <<def, claims>>,
           clock' \in Nat, clock <= clock',
           now' \in [Owner -> Nat], pc' \in [Owner -> PC], DOMAIN seen' = Owner,
           now'[o] <= clock',
           \A p \in Owner : p # o => pc'[p] = pc[p] /\ seen'[p] = seen[p] /\ now'[p] = now[p],
           pc'[o] \notin {"insert", "settle"} \/
              (pc'[o] = pc[o] /\ seen'[o] = seen[o] /\ now'[o] = now[o]),
           pc'[o] = "claim" => now'[o] = clock \/ (pc[o] = "claim" /\ now'[o] = now[o]),
           \A f \in fires' : f \in fires \/ (f.owner = o /\ f.at \in Nat /\ Won(o, f.key, f.at)),
           "error" \in upset => "error" \in upset',
           "error" \in upset' \/ pc[o] # "settle" \/ pc'[o] \in {"settle", "down"}
              \/ (pc'[o] \in {"idle", "fired"} /\ Settled(o)),
           pc[o] = "down" => pc'[o] = "down"
    PROVE  FiringInv'
<1> USE DEF FiringInv
<1>1. \A p \in Owner : pc'[p] \in {"insert", "settle"} =>
          pc'[p] = pc[p] /\ now'[p] = now[p] /\ Current(p)' = Current(p)
  BY DEF Current, FireKey
<1>2. Clocked'
  <2>1. \A c \in claims : /\ c.owner \in Owner /\ c.stamp \in Nat /\ c.stamp <= clock'
                          /\ pc'[c.owner] \in {"claim", "insert", "settle"}
                                => c.stamp <= now'[c.owner]
    <3> TAKE c \in claims
    <3>1. /\ c.owner \in Owner /\ c.stamp \in Nat /\ c.stamp <= clock /\ clock \in Nat
          /\ pc[c.owner] \in {"claim", "insert", "settle"} => c.stamp <= now[c.owner]
      BY DEF Clocked
    <3>2. CASE c.owner = o
      BY <3>1, <3>2
    <3>3. CASE c.owner # o
      <4>1. pc'[c.owner] = pc[c.owner] /\ now'[c.owner] = now[c.owner]
        BY <3>1, <3>3
      <4>2. c.stamp <= clock'
        BY <3>1
      <4> QED BY <3>1, <4>1, <4>2
    <3> QED BY <3>2, <3>3
  <2>2. \A p \in Owner : now'[p] <= clock'
    BY DEF Clocked
  <2>3. \A f \in fires' : f.owner \in Owner /\ f.at \in Nat
    BY DEF Clocked
  <2> QED BY <2>1, <2>2, <2>3 DEF Clocked
<1>3. Spaced'
  BY <1>1 DEF Spaced, Clocked
<1>4. ASSUME "error" \notin upset' PROVE Settling'
  <2> SUFFICES ASSUME NEW c \in claims, NEW p \in Owner,
                      pc'[p] = "insert", Current(p)' = c.key, now'[p] <= c.stamp
               PROVE  Unjudged(c)' \/ pc'[c.owner] = "down"
    BY DEF Settling
  <2>1. c.owner \in Owner
    BY DEF Clocked
  <2>2. pc[p] = "insert" /\ Current(p) = c.key /\ now[p] <= c.stamp
    BY <1>1
  <2>3. Unjudged(c) \/ pc[c.owner] = "down"
    BY <1>4, <2>2 DEF Settling
  <2>4. CASE pc[c.owner] = "down"
    BY <2>1, <2>4
  <2>5. CASE Unjudged(c) /\ c.owner # o
    BY <2>1, <2>5 DEF Unjudged, Current, FireKey
  <2>6. CASE Unjudged(c) /\ c.owner = o
    <3>1. ~Settled(o)
      BY <2>2, <2>6 DEF Settled, Unjudged, Clocked
    <3>2. pc'[o] \in {"settle", "down"}
      BY <1>4, <2>6, <3>1 DEF Unjudged
    <3> QED BY <1>1, <2>6, <3>2 DEF Unjudged
  <2> QED BY <2>3, <2>4, <2>5, <2>6
<1>5. ASSUME "error" \notin upset' PROVE Standing'
  <2>1. ASSUME NEW p \in Owner, NEW k, NEW t, Won(p, k, t) PROVE Won(p, k, t)'
    <3>1. \A c : Elected(c, k, t)' = Elected(c, k, t)
      BY DEF Elected, LiveClaims, ClaimLess
    <3> QED BY <1>1, <2>1, <3>1 DEF Won
  <2>2. \A f \in fires' : f.owner \in Owner /\ Won(f.owner, f.key, f.at)
    BY <1>5 DEF Standing, Clocked
  <2> QED BY <2>1, <2>2 DEF Standing
<1> QED BY <1>2, <1>3, <1>4, <1>5

\* A claim of o goes into the table; o waits for the settle window, or got an
\* error.
LEMMA ClaimAdded ==
    ASSUME FiringInv, NEW o \in Owner, pc[o] = "insert", UNCHANGED <<clock, def, fires>>,
           claims' = claims \cup {ClaimOf(o)},
           now' \in [Owner -> Nat], pc' \in [Owner -> PC], DOMAIN seen' = Owner,
           now'[o] <= clock,
           \A p \in Owner : p # o => pc'[p] = pc[p] /\ seen'[p] = seen[p] /\ now'[p] = now[p],
           "error" \in upset => "error" \in upset',
           \/ pc'[o] = "settle" /\ seen'[o] = seen[o] /\ now'[o] = now[o]
           \/ pc'[o] = "idle" /\ "error" \in upset'
    PROVE  FiringInv'
<1> USE DEF FiringInv
<1>1. PICK new : /\ new.key = Current(o) /\ new.owner = o /\ new.stamp = now[o]
                 /\ claims' = claims \cup {new}
  <2>1. ClaimOf(o).key = Current(o) /\ ClaimOf(o).owner = o /\ ClaimOf(o).stamp = now[o]
    BY DEF ClaimOf
  <2> QED BY <2>1
<1>2. \A p \in Owner : pc'[p] = "insert" =>
          p # o /\ pc[p] = "insert" /\ now'[p] = now[p] /\ Current(p)' = Current(p)
  BY DEF Current, FireKey
<1>3. Clocked'
  <2>1. now[o] \in Nat /\ now[o] <= clock
    BY DEF Clocked
  <2>2. \A c \in claims' : /\ c.owner \in Owner /\ c.stamp \in Nat /\ c.stamp <= clock
                           /\ pc'[c.owner] \in {"claim", "insert", "settle"}
                                 => c.stamp <= now'[c.owner]
    <3> TAKE c \in claims'
    <3>1. CASE c = new
      BY <1>1, <2>1, <3>1
    <3>2. CASE c \in claims
      <4>1. /\ c.owner \in Owner /\ c.stamp \in Nat /\ c.stamp <= clock
            /\ pc[c.owner] \in {"claim", "insert", "settle"} => c.stamp <= now[c.owner]
        BY <3>2 DEF Clocked
      <4> QED BY <4>1
    <3> QED BY <1>1, <3>1, <3>2
  <2> QED BY <2>2 DEF Clocked
<1>4. Spaced'
  <2>1. \A c \in claims : c.key = new.key /\ c.owner = new.owner => c.stamp + TTL <= new.stamp
    BY <1>1 DEF Spaced
  <2>2. \A c, d \in claims' : c.key = d.key /\ c.owner = d.owner =>
          c.stamp = d.stamp \/ c.stamp + TTL <= d.stamp \/ d.stamp + TTL <= c.stamp
    BY <1>1, <2>1 DEF Spaced
  <2>3. \A c \in claims' : pc'[c.owner] = "insert" /\ Current(c.owner)' = c.key
          => c.stamp + TTL <= now'[c.owner]
    <3> SUFFICES ASSUME NEW c \in claims', pc'[c.owner] = "insert", Current(c.owner)' = c.key
                 PROVE  c.stamp + TTL <= now'[c.owner]
      OBVIOUS
    <3>1. c.owner \in Owner
      BY <1>1 DEF Clocked
    <3>2. c.owner # o
      BY <1>2, <3>1
    <3> QED BY <1>1, <1>2, <3>1, <3>2 DEF Spaced
  <2> QED BY <2>2, <2>3 DEF Spaced
<1>5. ASSUME "error" \notin upset' PROVE Settling'
  <2> SUFFICES ASSUME NEW c \in claims', NEW p \in Owner,
                      pc'[p] = "insert", Current(p)' = c.key, now'[p] <= c.stamp
               PROVE  Unjudged(c)' \/ pc'[c.owner] = "down"
    BY DEF Settling
  <2>1. pc'[o] = "settle" /\ Current(o)' = Current(o) /\ now'[o] = now[o]
    BY <1>5 DEF Current, FireKey
  <2>2. CASE c = new
    BY <1>1, <2>1, <2>2 DEF Unjudged
  <2>3. CASE c \in claims
    <3>1. Unjudged(c) \/ pc[c.owner] = "down"
      BY <1>2, <1>5, <2>3 DEF Settling
    <3>2. c.owner \in Owner /\ c.owner # o
      BY <2>3, <3>1 DEF Clocked, Unjudged
    <3> QED BY <3>1, <3>2 DEF Unjudged, Current, FireKey
  <2> QED BY <1>1, <2>2, <2>3
<1>6. ASSUME "error" \notin upset' PROVE Standing'
  <2> SUFFICES ASSUME NEW f \in fires PROVE Won(f.owner, f.key, f.at)'
    BY DEF Standing
  <2>1. PICK c \in claims :
            /\ c.owner = f.owner /\ c.stamp <= f.at /\ Elected(c, f.key, f.at)
            /\ \A p \in Owner : pc[p] = "insert" /\ Current(p) = f.key => c.stamp < now[p]
    BY <1>6 DEF Standing, Won
  <2>2. Elected(c, f.key, f.at)'
    <3>1. c \in LiveClaims(f.key, f.at)'
      BY <1>1, <2>1 DEF Elected, LiveClaims
    <3>2. new.key = f.key => ClaimLess(c, new)
      <4>1. Current(o) = f.key => c.stamp < now[o]
        BY <2>1
      <4> QED BY <1>1, <4>1 DEF ClaimLess
    <3>3. \A d \in LiveClaims(f.key, f.at)' : d = c \/ ClaimLess(c, d)
      BY <1>1, <2>1, <3>2 DEF Elected, LiveClaims
    <3> QED BY <3>1, <3>3 DEF Elected, ClaimLess
  <2> QED BY <1>1, <1>2, <2>1, <2>2 DEF Won
<1> QED BY <1>3, <1>4, <1>5, <1>6

\* What a verdict of o rests on stands for good.
LEMMA VerdictStands ==
    ASSUME FiringInv, NEW o \in Owner, "error" \notin upset, NEW c \in claims,
           c.owner = o, Elected(c, Current(o), now[o]),
           pc[o] = "claim" \/ (pc[o] = "settle" /\ Settled(o))
    PROVE  Won(o, Current(o), now[o])
<1>1. c.stamp \in Nat /\ c.stamp <= now[o] /\ now \in [Owner -> Nat]
  BY DEF FiringInv, Clocked
<1>2. ASSUME NEW p \in Owner, pc[p] = "insert", Current(p) = Current(o)
      PROVE  c.stamp < now[p]
  <2>1. CASE pc[o] = "claim"
    <3>1. c.key = Current(o)
      BY DEF Elected, LiveClaims
    <3> QED BY <1>1, <1>2, <2>1, <3>1 DEF FiringInv, Settling, Unjudged
  <2>2. CASE Settled(o)
    <3>1. now[o] < now[p]
      BY <1>2, <2>2 DEF Settled
    <3>2. now[o] \in Nat /\ now[p] \in Nat
      BY <1>1
    <3> QED BY <1>1, <3>1, <3>2
  <2> QED BY <2>1, <2>2
<1> QED BY <1>1, <1>2 DEF Won

\* Nothing goes before a claim of a process that found no live one.
LEMMA ListEnds ==
    ASSUME FiringInv, NEW o \in Owner, pc[o] = "claim",
           LiveClaims(Current(o), now[o]) = {},
           pc' = [pc EXCEPT ![o] = "insert"],
           UNCHANGED <<clock, def, seen, now, claims, fires, upset>>
    PROVE  FiringInv'
<1> USE DEF FiringInv
<1>1. \A c \in claims : c.key = Current(o) => c.stamp + TTL <= now[o]
  BY DEF LiveClaims, Clocked
<1>2. /\ \A p \in Owner : Current(p)' = Current(p) /\ (p # o => pc'[p] = pc[p])
      /\ pc'[o] = "insert" /\ pc' \in [Owner -> PC]
  BY DEF Current, FireKey, Clocked, PC
<1>3. Clocked'
  BY <1>2 DEF Clocked
<1>4. Spaced'
  <2>1. \A c \in claims : pc'[c.owner] = "insert" /\ Current(c.owner)' = c.key
          => c.stamp + TTL <= now[c.owner]
    BY <1>1, <1>2 DEF Spaced, Clocked
  <2> QED BY <2>1 DEF Spaced
<1>5. ASSUME "error" \notin upset PROVE Settling'
  <2> SUFFICES ASSUME NEW c \in claims, NEW p \in Owner,
                      pc'[p] = "insert", Current(p)' = c.key, now[p] <= c.stamp
               PROVE  Unjudged(c)' \/ pc'[c.owner] = "down"
    BY DEF Settling
  <2>1. p # o
    BY <1>1, <1>2 DEF Clocked
  <2>2. Unjudged(c) \/ pc[c.owner] = "down"
    BY <1>2, <1>5, <2>1 DEF Settling
  <2> QED BY <1>2, <2>2 DEF Unjudged, Clocked
<1>6. ASSUME "error" \notin upset PROVE Standing'
  <2> SUFFICES ASSUME NEW f \in fires PROVE Won(f.owner, f.key, f.at)'
    BY DEF Standing
  <2>1. PICK c \in claims :
            /\ c.owner = f.owner /\ c.stamp <= f.at /\ Elected(c, f.key, f.at)
            /\ \A p \in Owner : pc[p] = "insert" /\ Current(p) = f.key => c.stamp < now[p]
    BY <1>6 DEF Standing, Won
  <2>2. Elected(c, f.key, f.at)' /\ c.key = f.key
    BY <2>1 DEF Elected, LiveClaims, ClaimLess
  <2>3. \A p \in Owner : pc'[p] = "insert" /\ Current(p)' = f.key => c.stamp < now[p]
    BY <1>1, <1>2, <2>1, <2>2 DEF Clocked
  <2> QED BY <2>1, <2>2, <2>3 DEF Won
<1> QED BY <1>3, <1>4, <1>5, <1>6

LEMMA FiringStep == FiringInv /\ [Next]_vars => FiringInv'
<1> SUFFICES ASSUME FiringInv, [Next]_vars PROVE FiringInv'
  OBVIOUS
<1>c. /\ clock \in Nat /\ now \in [Owner -> Nat] /\ pc \in [Owner -> PC] /\ DOMAIN seen = Owner
      /\ \A o \in Owner : now[o] <= clock
  BY DEF FiringInv, Clocked
<1>1. ASSUME NEW o \in Owner,
             Load(o) \/ LoadState(o) \/ Begin(o) \/ WriteState(o) \/ Crash(o)
      PROVE  FiringInv'
  <2>1. /\ UNCHANGED <<clock, def, claims, fires>>
        /\ "error" \in upset => "error" \in upset'
    BY <1>1 DEF Load, LoadState, Begin, WriteState, Crash, Upset
  <2>2. /\ pc' \in [Owner -> PC] /\ DOMAIN seen' = Owner
        /\ now' \in {now, [now EXCEPT ![o] = clock], [now EXCEPT ![o] = 0]}
        /\ \A p \in Owner : p # o => pc'[p] = pc[p] /\ seen'[p] = seen[p] /\ now'[p] = now[p]
    BY <1>1, <1>c DEF Load, LoadState, Begin, WriteState, Crash, Forget, PC
  <2>3. now' \in [Owner -> Nat] /\ now'[o] <= clock
    BY <1>c, <2>2
  <2>4. /\ pc'[o] \notin {"insert", "settle"}
        /\ pc'[o] = "claim" => now'[o] = clock
        /\ pc[o] = "settle" => pc'[o] = "down"
        /\ pc[o] = "down" => pc'[o] = "down"
    BY <1>1, <1>c DEF Load, LoadState, Begin, WriteState, Crash
  <2> QED BY <1>c, <2>1, <2>2, <2>3, <2>4, ClaimsKept
<1>2. ASSUME NEW o \in Owner, NEW c \in claims, Elected(c, Current(o), now[o]),
             Verdict(o, c), pc[o] = "claim" \/ (pc[o] = "settle" /\ Settled(o)),
             UNCHANGED <<clock, def, claims, upset>>
      PROVE  FiringInv'
  <2>1. CASE c.owner = o
    <3>1. /\ pc' = [pc EXCEPT ![o] = "fired"] /\ UNCHANGED <<seen, now>>
          /\ \E f : f.key = Current(o) /\ f.owner = o /\ f.at = now[o] /\ fires' = fires \cup {f}
      <4> DEFINE f == [key |-> Current(o), owner |-> o, at |-> now[o],
                       nth |-> seen[o].count + 1]
      <4>1. f.key = Current(o) /\ f.owner = o /\ f.at = now[o]
        OBVIOUS
      <4> QED BY <1>2, <2>1, <4>1 DEF Verdict, Dispatch
    <3>2. \A f \in fires' : f \in fires \/ (f.owner = o /\ f.at = now[o] /\ f.key = Current(o))
      BY <3>1
    <3>3. CASE "error" \notin upset
      <4>1. Won(o, Current(o), now[o])
        BY <1>2, <2>1, <3>3, VerdictStands
      <4> QED BY <1>2, <1>c, <3>1, <3>2, <4>1, ClaimsKept DEF PC
    <3>4. CASE "error" \in upset
      <4>1. /\ Clocked' /\ Spaced'
        <5>1. pc' \in [Owner -> PC] /\ pc'[o] = "fired"
              /\ \A p \in Owner : p # o => pc'[p] = pc[p]
          BY <1>c, <3>1 DEF PC
        <5>2. \A p \in Owner : Current(p)' = Current(p)
          BY <1>2, <3>1 DEF Current, FireKey
        <5> QED BY <1>2, <1>c, <3>1, <3>2, <5>1, <5>2 DEF FiringInv, Clocked, Spaced
      <4> QED BY <1>2, <3>4, <4>1 DEF FiringInv
    <3> QED BY <3>3, <3>4
  <2>2. CASE c.owner # o
    <3>1. /\ pc' = [pc EXCEPT ![o] = "idle"] /\ UNCHANGED fires
          /\ now' = [now EXCEPT ![o] = 0] /\ seen' = [seen EXCEPT ![o] = NoState]
      BY <1>2, <2>2 DEF Verdict, Forget
    <3>2. /\ pc' \in [Owner -> PC] /\ DOMAIN seen' = Owner
          /\ now' \in [Owner -> Nat] /\ now'[o] <= clock /\ pc'[o] = "idle"
          /\ \A p \in Owner : p # o => pc'[p] = pc[p] /\ seen'[p] = seen[p] /\ now'[p] = now[p]
      BY <1>c, <3>1 DEF PC
    <3>3. /\ UNCHANGED <<def, claims, upset>> /\ clock' = clock
          /\ pc[o] = "claim" \/ (pc[o] = "settle" /\ Settled(o))
      BY <1>2
    <3>4. clock' \in Nat /\ clock <= clock' /\ now'[o] <= clock'
      BY <1>c, <3>2, <3>3
    <3> QED BY <3>1, <3>2, <3>3, <3>4, ClaimsKept
  <2> QED BY <2>1, <2>2
<1>3. ASSUME NEW o \in Owner, List(o) PROVE FiringInv'
  <2>1. CASE /\ LiveClaims(Current(o), now[o]) = {}
             /\ pc' = [pc EXCEPT ![o] = "insert"]
             /\ UNCHANGED <<seen, now, fires>>
    BY <1>3, <2>1, ListEnds DEF List
  <2>2. CASE \E c \in claims : Elected(c, Current(o), now[o]) /\ Verdict(o, c)
    BY <1>2, <1>3, <2>2 DEF List
  <2> QED BY <1>3, <2>1, <2>2 DEF List
<1>4. ASSUME NEW o \in Owner, Arbitrate(o) PROVE FiringInv'
  BY <1>2, <1>4 DEF Arbitrate
<1>5. ASSUME NEW o \in Owner, InsertClaim(o) PROVE FiringInv'
  <2>1. pc' \in [Owner -> PC] /\ pc'[o] = "settle" /\ \A p \in Owner : p # o => pc'[p] = pc[p]
    BY <1>5, <1>c DEF InsertClaim, PC
  <2> QED BY <1>5, <1>c, <2>1, ClaimAdded DEF InsertClaim
<1>6. ASSUME NEW o \in Owner, ClaimError(o) PROVE FiringInv'
  <2>1. /\ UNCHANGED <<clock, def, fires>> /\ "error" \in upset'
        /\ pc[o] \in {"claim", "insert", "settle"}
        /\ pc' = [pc EXCEPT ![o] = "idle"]
        /\ now' = [now EXCEPT ![o] = 0] /\ seen' = [seen EXCEPT ![o] = NoState]
    BY <1>6 DEF ClaimError, Upset, Forget
  <2>2. /\ pc' \in [Owner -> PC] /\ DOMAIN seen' = Owner /\ pc'[o] = "idle"
        /\ now' \in [Owner -> Nat] /\ now'[o] <= clock
        /\ \A p \in Owner : p # o => pc'[p] = pc[p] /\ seen'[p] = seen[p] /\ now'[p] = now[p]
    BY <1>c, <2>1 DEF PC
  <2>3. CASE UNCHANGED claims
    BY <1>c, <2>1, <2>2, <2>3, ClaimsKept
  <2>4. CASE pc[o] = "insert" /\ claims' = claims \cup {ClaimOf(o)}
    BY <1>c, <2>1, <2>2, <2>4, ClaimAdded
  <2> QED BY <1>6, <2>3, <2>4 DEF ClaimError
<1>7. ASSUME \/ \E r \in wire : Land(r) \/ Drop(r)
             \/ \E v \in BOOLEAN : ReadEdit(v)
             \/ WriteEdit
             \/ Advance
             \/ UNCHANGED vars
      PROVE  FiringInv'
  <2>1. /\ UNCHANGED <<def, now, seen, pc, claims, fires>>
        /\ "error" \in upset => "error" \in upset'
        /\ clock' = clock \/ clock' = clock + 1
    BY <1>7 DEF Land, Drop, ReadEdit, WriteEdit, Advance, Upset, vars
  <2>2. PICK o \in Owner : TRUE
    OBVIOUS
  <2>3. clock' \in Nat /\ clock <= clock' /\ now'[o] <= clock'
    BY <1>c, <2>1
  <2>4. pc[o] \in PC
    BY <1>c
  <2>5. /\ pc'[o] = pc[o] /\ seen'[o] = seen[o] /\ now'[o] = now[o]
        /\ pc'[o] = "settle" \/ pc[o] # "settle"
        /\ pc'[o] = "claim" => pc[o] = "claim"
    BY <2>1
  <2> QED BY <1>c, <2>1, <2>3, <2>5, ClaimsKept
<1>8. CASE \E o \in Owner : \/ Load(o) \/ LoadState(o) \/ Begin(o) \/ WriteState(o) \/ Crash(o)
  BY <1>1, <1>8
<1> QED BY <1>3, <1>4, <1>5, <1>6, <1>7, <1>8 DEF Next

\* docs/perf-lab.md, the processes share the leases and do not double-fire: as
\* long as the lease returns no error, another process dispatches an occurrence
\* again only once every claim that the first had to it by then has run out,
\* whatever rows are lost and whoever dies.
THEOREM LeaseIsWaitedOut == Spec => []OthersWaitOutLease
<1>1. Init => FiringInv
  BY DEF Init, FiringInv, Clocked, Spaced, Settling, Standing, PC
<1>2. FiringInv /\ [Next]_vars => FiringInv'
  BY FiringStep
<1>3. FiringInv => OthersWaitOutLease
  <2> SUFFICES ASSUME FiringInv, "error" \notin upset,
                      NEW f \in fires, NEW g \in fires,
                      f.owner # g.owner, f.key = g.key, f.at <= g.at,
                      NEW c \in claims, c.key = f.key, c.owner = f.owner, c.stamp <= f.at,
                      g.at < c.stamp + TTL
               PROVE  FALSE
    BY DEF OthersWaitOutLease, FiringInv, Clocked
  <2>1. PICK a \in claims : a.owner = f.owner /\ a.stamp <= f.at /\ Elected(a, f.key, f.at)
    BY DEF FiringInv, Standing, Won
  <2>2. PICK b \in claims : b.owner = g.owner /\ b.stamp <= g.at /\ Elected(b, g.key, g.at)
    BY DEF FiringInv, Standing, Won
  <2>3. /\ {a.stamp, b.stamp, c.stamp, f.at, g.at, TTL} \subseteq Nat
        /\ {f.owner, g.owner} \subseteq Nat
    BY DEF FiringInv, Clocked
  <2>4. b # c /\ a # b
    BY <2>1, <2>2
  <2>5. ClaimLess(b, c)
    BY <2>2, <2>4 DEF Elected, LiveClaims
  <2>6. b.key = f.key /\ f.at < b.stamp + TTL
    BY <2>2, <2>3 DEF Elected, LiveClaims
  <2>7. ClaimLess(a, b)
    BY <2>1, <2>4, <2>6 DEF Elected, LiveClaims
  <2>8. a.key = c.key /\ f.at < a.stamp + TTL
    BY <2>1 DEF Elected, LiveClaims
  <2>9. a.stamp = c.stamp
    BY <2>1, <2>3, <2>5, <2>7, <2>8 DEF FiringInv, Spaced, ClaimLess
  <2> QED BY <2>1, <2>2, <2>3, <2>5, <2>7, <2>9 DEF ClaimLess
<1> QED BY <1>1, <1>2, <1>3, PTL DEF Spec
=============================================================================
