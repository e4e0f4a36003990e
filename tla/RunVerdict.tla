------------------------------ MODULE RunVerdict -----------------------------
(***************************************************************************)
(* What is made of the results of a run: one summary per JTL file, their   *)
(* merge, and the service-level gate that fails closed.  A row of a file   *)
(* is [ms, ok].  A rate is a fraction [num, den].  The median and p99 are  *)
(* computed and merged like p95 but no gate reads them.  A limit of an SLA  *)
(* is a set, empty when the SLA does not name it.                          *)
(***************************************************************************)
EXTENDS Integers, Sequences, FiniteSets, FiniteSetsExt

CONSTANTS
    MaxRows,       \* maxRows: rows read of one file
    MaxLatencies,  \* maxLats: rows of them whose latency is kept
    AllowEmptySLA  \* OPA_PERF_ALLOW_EMPTY_SLA

ASSUME RunVerdictAssumption ==
    /\ MaxRows \in Nat \ {0} /\ MaxLatencies \in Nat \ {0}
    /\ AllowEmptySLA \in BOOLEAN

\* sortFloats: the value of this rank when the values are in order.
OfRank(values, rank) ==
    LET AtOrBelow(ms) == Cardinality({i \in DOMAIN values : values[i] <= ms})
    IN Min({values[i] : i \in {j \in DOMAIN values : AtOrBelow(values[j]) >= rank}})

\* percentileFloat: the rank is p * n / 100, rounded down, and at least one.
Percentile(latencies, p) ==
    LET n == Len(latencies)
    IN IF n = 0 THEN 0 ELSE OfRank(latencies, Max({1, (p * n) \div 100}))

\* A file that is missing counts as one without rows.  The row that is one
\* too many is counted as a request and not looked at.
ParsedJTL(rows) ==
    LET n      == Min({Len(rows), MaxRows + 1})
        seen   == 1..Min({n, MaxRows})
        errors == Cardinality({i \in seen : ~rows[i].ok})
        kept   == [i \in 1..Min({n, MaxRows, MaxLatencies}) |-> rows[i].ms]
    IN [requests |-> n,
        errors   |-> IF n = 0 THEN [num |-> 0, den |-> 1]
                              ELSE [num |-> errors, den |-> n],
        p95      |-> Percentile(kept, 95)]

\* Faulty variant: the mean of the workers' rates.
MergedUnweighted(a, b) ==
    [requests |-> a.requests + b.requests,
     errors   |-> [num |-> a.errors.num * b.errors.den + b.errors.num * a.errors.den,
                   den |-> 2 * a.errors.den * b.errors.den],
     p95      |-> Max({a.p95, b.p95})]

\* Rates are weighted by requests, of latencies the worst worker counts.
Merged(a, b) ==
    LET total == a.requests + b.requests
    IN [requests |-> total,
        errors   |-> IF total = 0
                     THEN [num |-> 0, den |-> 1]
                     ELSE [num |-> a.errors.num * a.requests * b.errors.den
                                   + b.errors.num * b.requests * a.errors.den,
                           den |-> a.errors.den * b.errors.den * total],
        p95      |-> Max({a.p95, b.p95})]

Exceeds(rate, limit) == rate.num * limit.den > limit.num * rate.den

\* No run measures "rps", so an SLA that asks for it cannot be met.  Keys
\* that are none of the three make an SLA that is not empty and asks nothing.
MeetsSLA(summary, sla) ==
    /\ \A limit \in sla.p95 : summary.p95 <= limit
    /\ \A limit \in sla.errors : ~Exceeds(summary.errors, limit)
    /\ ~sla.rps

EmptySLA(sla) == sla.p95 = {} /\ sla.errors = {} /\ ~sla.rps /\ ~sla.other

Evaluated(summary, sla) ==
    /\ summary.requests > 0
    /\ IF EmptySLA(sla) THEN AllowEmptySLA ELSE MeetsSLA(summary, sla)

StatusOf(summary, sla) ==
    IF ~Evaluated(summary, sla) THEN "failed"
    ELSE IF EmptySLA(sla) THEN "completed" ELSE "passed"
=============================================================================
