------------------------------ MODULE LoadShape ------------------------------
(***************************************************************************)
(* How a requested load becomes thread groups: the clamps, the custom      *)
(* curve, its arrival segments, and the shares of several workers.  A      *)
(* curve is a sequence of points [t, vus, rate]; a segment starts          *)
(* "arrivals" journeys between "delay" and "delay + ramp".  Rates are      *)
(* whole numbers here, so an average is a number of halves.                *)
(***************************************************************************)
EXTENDS Integers, Sequences, FiniteSets, FiniteSetsExt, SequencesExt

CONSTANTS
    MaxVUs,       \* OPA_PERF_MAX_VUS
    MaxArrivals,  \* OPA_PERF_MAX_ARRIVALS
    MaxRate,      \* OPA_PERF_MAX_ARRIVAL_RATE
    MaxDuration,  \* OPA_PERF_MAX_DURATION
    MaxWorkers    \* OPA_JMETER_MAX_WORKERS

ASSUME LoadShapeAssumption ==
    {MaxVUs, MaxArrivals, MaxRate, MaxDuration, MaxWorkers} \subseteq Nat \ {0}

AtMost(n, limit) == IF n > limit THEN limit ELSE n
AtLeast(n, limit) == IF n < limit THEN limit ELSE n

ClampVUs(n)      == IF n <= 0 THEN 1 ELSE AtMost(n, MaxVUs)
ClampArrivals(n) == IF n <= 0 THEN 0 ELSE AtMost(n, MaxArrivals)
ClampDuration(n) == IF n <= 0 THEN 30 ELSE AtMost(n, MaxDuration)
ClampRate(r)     == AtMost(AtLeast(r, 0), MaxRate)

\* Without a request OPA_JMETER_WORKERS decides, which is 1 unless set.
WorkerCount(n) == IF n <= 0 THEN 1 ELSE AtMost(n, MaxWorkers)

\* math.Round of num / den, for num >= 0.
Rounded(num, den) == (2 * num + den) \div (2 * den)

-----------------------------------------------------------------------------
(* The curve.                                                              *)

CleanPoint(p) ==
    [t    |-> AtLeast(p.t, 0),
     vus  |-> IF p.vus <= 0 THEN 0 ELSE ClampVUs(p.vus),
     rate |-> ClampRate(p.rate)]

\* Points of one time keep their order.
SortedByTime(s) ==
    LET Place(i) == 1 + Cardinality({j \in DOMAIN s :
                            \/ s[j].t < s[i].t
                            \/ s[j].t = s[i].t /\ j < i})
    IN [k \in DOMAIN s |-> s[CHOOSE i \in DOMAIN s : Place(i) = k]]

NormalizedCurve(points) ==
    LET s == SortedByTime([i \in DOMAIN points |-> CleanPoint(points[i])])
    IN IF s = <<>> \/ s[1].t = 0
       THEN s
       ELSE <<[t |-> 0, vus |-> 0, rate |-> 0]>> \o s

-----------------------------------------------------------------------------
(* Arrival segments.                                                       *)

Sum(numbers) == FoldFunction(+, 0, numbers)

ArrivalsOf(segs) == Sum([i \in DOMAIN segs |-> segs[i].arrivals])

Started(segs) ==
    FoldLeft(LAMBDA kept, s : IF s.arrivals > 0 THEN Append(kept, s) ELSE kept, <<>>, segs)

Resized(segs, amounts) ==
    Started([i \in DOMAIN segs |-> [segs[i] EXCEPT !.arrivals = amounts[i]]])

\* The trapezoids under the curve.
Slices(curve) ==
    LET Slice(a, b) == [delay    |-> a.t,
                        ramp     |-> b.t - a.t,
                        arrivals |-> Rounded((a.rate + b.rate) * (b.t - a.t), 2)]
    IN Started([i \in 1..(Len(curve) - 1) |-> Slice(curve[i], curve[i + 1])])

\* The drift of the rounding goes to the last segment that starts anything;
\* it may use that segment up and still not be gone.
ShrunkTo(segs, total) ==
    LET scaled == [i \in DOMAIN segs |->
                     Rounded(segs[i].arrivals * total, ArrivalsOf(segs))]
        drift  == total - Sum(scaled)
        open   == {i \in DOMAIN segs : scaled[i] > 0 \/ drift > 0}
        fixed  == [i \in DOMAIN segs |->
                     IF i = Max(open) THEN AtLeast(scaled[i] + drift, 0)
                                      ELSE scaled[i]]
    IN Resized(segs, IF drift = 0 THEN scaled ELSE fixed)

CompiledArrivals(points) ==
    LET segs  == Slices(NormalizedCurve(points))
        total == ClampArrivals(ArrivalsOf(segs))
    IN [segs  |-> IF ArrivalsOf(segs) > total /\ total > 0
                  THEN ShrunkTo(segs, total)
                  ELSE segs,
        total |-> total]

\* What a curve makes of a schedule: its scale (threads, or journeys in all),
\* its duration and its segments.
AppliedCurve(points, mode) ==
    LET curve    == NormalizedCurve(points)
        peak     == Max({0} \cup {p.vus : p \in ToSet(curve)})
        last     == Max({0} \cup {p.t : p \in ToSet(curve)})
        compiled == CompiledArrivals(curve)
        duration == IF last = 0 THEN 60 ELSE last
    IN IF mode = "arrivals"
       THEN [scale |-> AtLeast(compiled.total, 1), duration |-> duration,
             segs |-> compiled.segs]
       ELSE [scale |-> AtLeast(peak, 1), duration |-> duration, segs |-> <<>>]

-----------------------------------------------------------------------------
(* Shares of the workers.                                                  *)

\* Faulty variant: what does not divide evenly is left out.
SplitAcrossEven(vus, workers) ==
    [w \in 1..workers |-> AtLeast(vus \div workers, 1)]

SplitAcross(vus, workers) ==
    [w \in 1..workers |->
        AtLeast((vus \div workers) + (IF w <= vus % workers THEN 1 ELSE 0), 1)]

\* The last segment takes what is left of the share.
ScaledTo(segs, share, total) ==
    IF segs = <<>> \/ total <= 0 \/ share <= 0
    THEN <<>>
    ELSE LET scaled == [i \in DOMAIN segs |-> Rounded(segs[i].arrivals * share, total)]
             before == Sum(Front(scaled))
         IN Resized(segs, [scaled EXCEPT ![Len(segs)] = AtLeast(share - before, 0)])

\* Faulty variant: rows and workers are counted from different ends.
RowsOfShifted(w, workers, rows, raw) ==
    {r \in 1..rows :
        (~raw /\ workers > 1 /\ rows >= workers) => r % workers = w}

\* Inline rows are dealt round-robin when there are enough of them; a text
\* that did not parse is given to every worker as it is.
RowsOf(w, workers, rows, raw) ==
    {r \in 1..rows :
        (~raw /\ workers > 1 /\ rows >= workers) => (r - 1) % workers = w - 1}
=============================================================================
