---------------------------- MODULE MCMeasuredRun ----------------------------
(* The jobs TLC looks at: all short arrivals curves and some long ones, thread *)
(* loads with and without a curve, and results under several SLAs.             *)
EXTENDS MeasuredRun

Point(t, v, r) == [t |-> t, vus |-> v, rate |-> r]

NoSLA  == [p95 |-> {}, errors |-> {}, rps |-> FALSE, other |-> FALSE]
Half   == [num |-> 1, den |-> 2]
Strict == [NoSLA EXCEPT !.p95 = {1}, !.errors = {Half}]

Plain == [mode |-> "vus", curve |-> <<>>, ask |-> 3, duration |-> 60, want |-> 1,
          rows |-> 0, raw |-> FALSE, sla |-> Strict, samples |-> 0]

\* Points in any order, also of one time, with a negative rate and one too high.
ShortCurves ==
    LET Points == {Point(t, 0, r) : t \in {0, 1, 3, 700}, r \in {-1, 1, 4}}
    IN [1..1 -> Points] \cup [1..2 -> Points]

\* Five points, so four segments to round.
LongCurves ==
    {[i \in 1..5 |-> Point(i - 1, 0, f[i])] : f \in [1..5 -> 0..2]}
        \cup {[i \in 1..4 |-> Point(<<0, 100, 350, 600>>[i], 0, f[i])] : f \in [1..4 -> 0..1]}
        \cup {[i \in 1..7 |-> Point(i - 1, 0, i % 2)]}

Arrivals ==
    {[Plain EXCEPT !.mode = "arrivals", !.curve = c, !.ask = n[1], !.want = n[2]] :
        c \in ShortCurves \cup LongCurves \cup {<<>>}, n \in {<<0, 2>>, <<2, 9>>, <<9, 3>>}}

Threads ==
    {[Plain EXCEPT !.curve = c, !.ask = n, !.want = w, !.duration = d,
                   !.rows = r, !.raw = b] :
        c \in {<<>>, <<Point(0, 1, 0), Point(30, 2, 0)>>,
               <<Point(900, 4, 0), Point(-1, 9, 0)>>},
        n \in {0, 2, 9}, w \in {0, 2, 9}, d \in {0, 700},
        r \in {0, 2, 5}, b \in BOOLEAN}

\* An error that its code hides, and a success in spite of its code.
Response(label, ms, ok, code) == [label |-> label, ms |-> ms, ok |-> ok, code |-> code]
MCResponses == {Response("A", 1, TRUE, 200), Response("A", 2, TRUE, 500),
                Response("B", 1, FALSE, 500), Response("B", 2, FALSE, 200)}

Results ==
    {[Plain EXCEPT !.sla = s, !.want = w[1], !.samples = w[2]] :
        s \in {NoSLA, Strict, [Strict EXCEPT !.rps = TRUE],
               [NoSLA EXCEPT !.other = TRUE], [Strict EXCEPT !.errors = {}]},
        w \in {<<1, 5>>, <<2, 4>>, <<3, 2>>}}
    \cup {[Plain EXCEPT !.want = 2, !.samples = 5]}

MCJobs == Arrivals \cup Threads \cup Results
=============================================================================
