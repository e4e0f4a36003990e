------------------------------ MODULE RunReport -------------------------------
(***************************************************************************)
(* What the report of a run says besides its summary: a table of its steps *)
(* and the failing ones among them, made of the samples that were kept.  A *)
(* sample is the row of a JTL file it was taken from, [label, ms, ok,      *)
(* code].                                                                  *)
(***************************************************************************)
EXTENDS RunVerdict

CONSTANT MaxSamples  \* samples kept of one file, and of a run: 500

ASSUME RunReportAssumption == MaxSamples \in Nat \ {0}

FirstSamples(rows) == SubSeq(rows, 1, Min({Len(rows), MaxSamples}))

\* A sample is no error of its step if JMeter says so or its code does.
CountsAsOk(s) == s.ok \/ s.code \in 200..399

\* percentileSorted: here the rank is rounded up.
PercentileUp(latencies, p) ==
    OfRank(latencies, Max({1, (p * Cardinality(DOMAIN latencies) + 99) \div 100}))

StepRow(samples, label) ==
    LET own == {i \in DOMAIN samples : samples[i].label = label}
    IN [name    |-> label,
        samples |-> Cardinality(own),
        errors  |-> Cardinality({i \in own : ~CountsAsOk(samples[i])}),
        p95     |-> PercentileUp([i \in own |-> samples[i].ms], 95)]

\* The members of a finite set, one after the other, by a strict order.
InOrder(set, order) ==
    [n \in 1..Cardinality(set) |->
        CHOOSE i \in set : Cardinality({j \in set : <<j, i>> \in order}) = n - 1]

\* aggregateRunSteps: one row per label, in the order of their first samples.
StepTable(samples) ==
    LET firsts == {i \in DOMAIN samples :
                      \A j \in 1..(i - 1) : samples[j].label # samples[i].label}
        order  == InOrder(firsts, {p \in firsts \X firsts : p[1] < p[2]})
    IN [n \in DOMAIN order |-> StepRow(samples, samples[order[n]].label)]

\* reportErrorBreakdown: the failing steps, the worst first.
FailingSteps(table) ==
    LET failing == {i \in DOMAIN table : table[i].errors > 0}
        order   == InOrder(failing, {p \in failing \X failing :
                       \/ table[p[1]].errors > table[p[2]].errors
                       \/ table[p[1]].errors = table[p[2]].errors /\ p[1] < p[2]})
    IN [n \in DOMAIN order |-> table[order[n]]]
=============================================================================
