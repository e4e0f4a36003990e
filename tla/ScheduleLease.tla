---------------------------- MODULE ScheduleLease ----------------------------
(***************************************************************************)
(* The lease of one scheduled occurrence (one scenario, one fire key) over *)
(* the append-only table load_schedule_leases: every scheduler process     *)
(* appends a claim, waits out the settle window, reads the table back and  *)
(* takes the minimum of a total order.  ClickHouse is a set of landed rows *)
(* and a set of rows still on the wire, which land in any order, late      *)
(* after the client gave up on them, or never.                             *)
(*                                                                         *)
(* Times are in the unit of claimed_at.  A claim carries the time the tick *)
(* started, not the time it was inserted: the two differ by the scenarios  *)
(* fired earlier in the tick, by the insert and by the skew of the clock,  *)
(* and Lag bounds their sum.  A restarted process has a new owner id, so a *)
(* crash is a process that takes no further step: nothing forces one.      *)
(***************************************************************************)
EXTENDS Integers

CONSTANTS
    Owner,    \* scheduler processes, named by the rank of their owner string
    TTL,      \* OPL_SCHEDULER_LEASE_SEC
    Settle,   \* OPL_SCHEDULER_LEASE_SETTLE_MS
    Gap,      \* least distance between the starts of two ticks of a process
    Skew,     \* how far a process clock may run behind the fastest one
    Lag,      \* a claim lands at most this long after its stamp
    MaxTime   \* bound: the clock stops here

ASSUME OwnerAssumption == Owner \subseteq Nat
ASSUME TimeAssumption ==
    /\ TTL \in Nat \ {0}
    /\ Settle \in Nat /\ Gap \in Nat /\ Skew \in Nat
    /\ Lag \in Nat /\ MaxTime \in Nat

VARIABLES
    clock,     \* the fastest process clock
    pc,        \* where each process is in claimScheduleFire
    now,       \* scheduleClaimRequest.Now of each process: its tick start
    wake,      \* when the settle sleep of each process ends, else 0
    rows,      \* claim rows a SELECT returns
    wire,      \* claim rows sent and not landed
    released,  \* owners with a released row
    grants     \* verdicts with Acquired true that were not declined

vars == <<clock, pc, now, wake, rows, wire, released, grants>>

Claim == [owner : Owner, stamp : Int, gen : Nat]

PC == {"idle", "list", "insert", "settle", "won"}

Lease == INSTANCE FireLease

TypeOK ==
    /\ clock \in 0..MaxTime
    /\ pc \in [Owner -> PC]
    /\ now \in [Owner -> Int]
    /\ wake \in [Owner -> Int]
    /\ rows \subseteq Claim
    /\ wire \subseteq Claim
    /\ released \subseteq Owner
    /\ grants \subseteq Lease!Grant

-----------------------------------------------------------------------------
(* Arbitration. *)

\* Faulty variant: no order between claims of one millisecond.
ClaimLessNoTieBreak(a, b) == a.stamp < b.stamp

\* Earliest claim first, lowest owner on a tie.
ClaimLess(a, b) ==
    \/ a.stamp < b.stamp
    \/ a.stamp = b.stamp /\ a.owner < b.owner

\* An owner that released is out; a claim past its expiry is out.
Live(c, t) == c.owner \notin released /\ t < c.stamp + TTL

LiveRows(t) == {c \in rows : Live(c, t)}

\* c is the claim an arbitration at time t elects.
Elected(c, t) ==
    /\ c \in LiveRows(t)
    /\ \A d \in LiveRows(t) : d = c \/ ~ClaimLess(d, c)

\* Some owner died, or fired and let its lease run out, at time t.
Takeover(t) == \E c \in rows : c.owner \notin released /\ c.stamp + TTL <= t

\* Faulty variant: every claim opens a generation.
IsGenerationAlwaysNew(n, t) ==
    \E m \in {0} \cup {c.gen : c \in rows} :
        (\A c \in rows : c.gen <= m) /\ n = m + 1

\* The generation a fresh claim carries: audit metadata, never compared.
IsGeneration(n, t) ==
    \E m \in {0} \cup {c.gen : c \in rows} :
        /\ \A c \in rows : c.gen <= m
        /\ n = IF Takeover(t) THEN m + 1 ELSE m

-----------------------------------------------------------------------------
Init ==
    /\ clock = 0
    /\ pc = [o \in Owner |-> "idle"]
    /\ now = [o \in Owner |-> -(Gap + Skew)]
    /\ wake = [o \in Owner |-> 0]
    /\ rows = {}
    /\ wire = {}
    /\ released = {}
    /\ grants = {}

\* A tick starts and the occurrence is due: the clock is read once.
Tick(o) ==
    /\ pc[o] = "idle"
    /\ \E t \in (clock - Skew)..clock :
        /\ now[o] + Gap <= t
        /\ clock <= t + Lag
        /\ now' = [now EXCEPT ![o] = t]
    /\ pc' = [pc EXCEPT ![o] = "list"]
    /\ UNCHANGED <<clock, wake, rows, wire, released, grants>>

\* The verdict of an arbitration that elected c.
Verdict(o, c) ==
    IF c.owner = o
    THEN /\ pc' = [pc EXCEPT ![o] = "won"]
         /\ grants' = grants \cup
                {[owner |-> o, stamp |-> c.stamp, at |-> now[o]]}
    ELSE /\ pc' = [pc EXCEPT ![o] = "idle"]
         /\ UNCHANGED grants

\* First ListClaims, a lease is live: its owner is the verdict.
EarlyOut(o) ==
    /\ pc[o] = "list"
    /\ \E c \in rows : Elected(c, now[o]) /\ Verdict(o, c)
    /\ UNCHANGED <<clock, now, wake, rows, wire, released>>

\* First ListClaims, no live lease: this claim goes out.
InsertClaim(o) ==
    /\ pc[o] = "list"
    /\ LiveRows(now[o]) = {}
    /\ \E n \in 0..MaxTime + 1 :
        /\ IsGeneration(n, now[o])
        /\ wire' = wire \cup {[owner |-> o, stamp |-> now[o], gen |-> n]}
    /\ pc' = [pc EXCEPT ![o] = "insert"]
    /\ UNCHANGED <<clock, now, wake, rows, released, grants>>

\* ClickHouse makes a row visible.
Land(c) ==
    /\ c \in wire
    /\ rows' = rows \cup {c}
    /\ wire' = wire \ {c}
    /\ UNCHANGED <<clock, pc, now, wake, released, grants>>

\* ... or never receives it.
Lose(c) ==
    /\ c \in wire
    /\ wire' = wire \ {c}
    /\ UNCHANGED <<clock, pc, now, wake, rows, released, grants>>

\* Faulty variant: no settle window.
StartSettleNoWait(o) ==
    /\ pc[o] = "insert"
    /\ \E c \in rows : c.owner = o /\ c.stamp = now[o]
    /\ pc' = [pc EXCEPT ![o] = "settle"]
    /\ wake' = [wake EXCEPT ![o] = clock]
    /\ UNCHANGED <<clock, now, rows, wire, released, grants>>

\* InsertClaim returns nil and the process sleeps for Settle.
StartSettle(o) ==
    /\ pc[o] = "insert"
    /\ \E c \in rows : c.owner = o /\ c.stamp = now[o]
    /\ pc' = [pc EXCEPT ![o] = "settle"]
    /\ wake' = [wake EXCEPT ![o] = clock + Settle]
    /\ UNCHANGED <<clock, now, rows, wire, released, grants>>

\* Faulty variant: the second reading does not wait for the window to end.
ArbitrateEarly(o) ==
    /\ pc[o] = "settle"
    /\ \/ \E c \in rows : Elected(c, now[o]) /\ Verdict(o, c)
       \/ /\ LiveRows(now[o]) = {}
          /\ pc' = [pc EXCEPT ![o] = "idle"]
          /\ UNCHANGED grants
    /\ wake' = [wake EXCEPT ![o] = 0]
    /\ UNCHANGED <<clock, now, rows, wire, released>>

\* Second ListClaims and the arbitration, at the tick's own time.  An owner
\* that has released the occurrence finds no live claim, and stands down.
Arbitrate(o) ==
    /\ pc[o] = "settle"
    /\ wake[o] <= clock
    /\ \/ \E c \in rows : Elected(c, now[o]) /\ Verdict(o, c)
       \/ /\ LiveRows(now[o]) = {}
          /\ pc' = [pc EXCEPT ![o] = "idle"]
          /\ UNCHANGED grants
    /\ wake' = [wake EXCEPT ![o] = 0]
    /\ UNCHANGED <<clock, now, rows, wire, released>>

\* A ListClaims or the InsertClaim returns an error: the tick moves on.  The
\* row of a failed insert may still be on the wire.
Fail(o) ==
    /\ pc[o] \in {"list", "insert", "settle"}
    /\ pc[o] = "settle" => wake[o] <= clock
    /\ pc' = [pc EXCEPT ![o] = "idle"]
    /\ wake' = [wake EXCEPT ![o] = 0]
    /\ UNCHANGED <<clock, now, rows, wire, released, grants>>

\* fireScenarioNow goes through: the lease stays until it expires.
Fire(o) ==
    /\ pc[o] = "won"
    /\ pc' = [pc EXCEPT ![o] = "idle"]
    /\ UNCHANGED <<clock, now, wake, rows, wire, released, grants>>

\* fireScenarioNow declines before it dispatched: a released row is written,
\* or its insert fails and is ignored.
Release(o) ==
    /\ pc[o] = "won"
    /\ released' \in {released, released \cup {o}}
    /\ pc' = [pc EXCEPT ![o] = "idle"]
    /\ grants' = {g \in grants : g.owner # o}
    /\ UNCHANGED <<clock, now, wake, rows, wire>>

\* Time passes, but not past the moment a claim has to have landed.
Advance ==
    /\ clock < MaxTime
    /\ \A c \in wire : clock < c.stamp + Lag
    /\ \A o \in Owner : pc[o] = "list" => clock < now[o] + Lag
    /\ clock' = clock + 1
    /\ UNCHANGED <<pc, now, wake, rows, wire, released, grants>>

Next ==
    \/ \E o \in Owner :
        \/ Tick(o) \/ EarlyOut(o) \/ InsertClaim(o) \/ StartSettle(o)
        \/ Arbitrate(o) \/ Fail(o) \/ Fire(o) \/ Release(o)
    \/ \E c \in wire : Land(c) \/ Lose(c)
    \/ Advance

Spec == Init /\ [][Next]_vars

-----------------------------------------------------------------------------
(* Properties. *)

\* claimScheduleFire: two different owners never hold the occurrence over
\* overlapping times.  Needs Lag < Settle <= Gap.
LeaseExclusive ==
    \A g, h \in grants : g.owner # h.owner => ~Lease!Overlap(g, h)

\* The bound on insert skew the protocol rests on: a claim lands before the
\* settle window of any claim stamped as early is over, and a process that
\* finds its own claim of an earlier tick finds one that has settled.
BoundedSkew == Lag < Settle /\ Settle <= Gap

\* Why exclusion holds.  A grant is younger than every claim still to land, so
\* the earlier claims of others were all in the table when it was given, and
\* had run out by then.
GrantIsOldest(g) ==
    /\ g.owner \notin released
    /\ g.at < Lease!Until(g)
    /\ g.stamp + Settle <= clock
    /\ \E c \in rows : c.owner = g.owner /\ c.stamp = g.stamp
    /\ \A c \in rows :
        c.owner # g.owner /\ c.owner \notin released /\ ClaimLess(c, g)
            => c.stamp + TTL <= g.at

StampsBehind ==
    /\ \A o \in Owner : now[o] <= clock
    /\ \A c \in rows \cup wire : c.stamp <= now[c.owner]
    /\ \A c \in wire : clock <= c.stamp + Lag

ClaimersInTime ==
    \A o \in Owner :
        /\ pc[o] = "list" =>
            /\ clock <= now[o] + Lag
            /\ \A c \in rows \cup wire : c.owner = o => c.stamp + Gap <= now[o]
        /\ pc[o] = "settle" => now[o] + Settle <= wake[o]

\* The inductive strengthening of LeaseExclusive.
LeaseInv ==
    /\ StampsBehind
    /\ ClaimersInTime
    /\ \A g \in grants : GrantIsOldest(g)
    /\ LeaseExclusive

\* The claim table implements the abstract lease.
ImplementsLease == Lease!Spec

\* scheduleLeaseGeneration: each generation above zero was opened by a claim
\* made after an earlier one of a lower generation had run out.
GenerationMeansExpiry ==
    \A c \in rows : c.gen > 0 =>
        \E d, e \in rows : /\ e.gen = c.gen
                           /\ d.gen < e.gen
                           /\ d.stamp + TTL <= e.stamp

\* claimScheduleFire's comment: with the claim order in place, two owners
\* overlap only if their claims carry the same millisecond.
OverlapNeedsEqualStamps ==
    \A g, h \in grants :
        g.owner # h.owner /\ Lease!Overlap(g, h) => g.stamp = h.stamp
=============================================================================
