-------------------------- MODULE MeasuredRunProofs --------------------------
(***************************************************************************)
(* What holds of a measured run for every job, whatever its load, curve,   *)
(* rows, workers and limits: the workers together start what was asked for *)
(* and little more, rows meant to be unique stay so, the wait for a worker *)
(* outlasts its plan, the verdict is the one that all the rows call for,   *)
(* and the report, made of samples, agrees with it.                        *)
(*                                                                         *)
(* The sums, minima, maxima, sorted curves and kept segments these speak   *)
(* of are folds and CHOOSEs over data.  What holds of a fold is shown by a *)
(* minimal counterexample: the subset ordering of a finite set is well     *)
(* founded, so a set of counterexamples that is not empty has a least one, *)
(* and the fold of that one is a step away from one that is none.          *)
(*                                                                         *)
(* PlanInv says what the stored scenario and the plans are, VerdictInv how *)
(* files, waits and summary belong together, RangeInv what else has a      *)
(* type, SamplesInv which rows the samples are; each is inductive together *)
(* with those before it.                                                   *)
(***************************************************************************)
EXTENDS MeasuredRun, FiniteSetTheorems, WellFoundedInduction, TLAPS

-----------------------------------------------------------------------------
(* Sums.                                                                       *)

\* What holds of a set whenever it holds of its proper subsets holds of a finite
\* set; stated for a minimal counterexample.
LEMMA MinimalSubset ==
    ASSUME NEW S, IsFiniteSet(S), NEW F, F \subseteq SUBSET S, F # {}
    PROVE  \E T \in F : \A U \in F : U \subseteq T => U = T
<1>1. IsWellFoundedOn(StrictSubsetOrdering(S), SUBSET S)
  BY FS_StrictSubsetOrderingWellFounded, FS_FiniteSubsetsOfFinite
<1>2. \E T \in F : \A U \in F : ~(<<U, T>> \in StrictSubsetOrdering(S))
  BY <1>1, WFMin
<1> QED
  BY <1>2 DEF StrictSubsetOrdering

Pick(s) == CHOOSE x \in s : TRUE

\* The function that Sum looks its result up in.
Adds(f, g, S) ==
    g = [s \in SUBSET S |-> IF s = {} THEN 0 ELSE f[Pick(s)] + g[s \ {Pick(s)}]]

LEMMA PickIn == \A s : s # {} => Pick(s) \in s
BY DEF Pick

LEMMA AddsAgree ==
    ASSUME NEW f, NEW g, NEW S, Adds(f, g, S), NEW e, NEW h, NEW T, Adds(e, h, T),
           NEW U, IsFiniteSet(U), U \subseteq S, U \subseteq T, \A x \in U : f[x] = e[x]
    PROVE  g[U] = h[U]
<1> DEFINE F == {V \in SUBSET U : g[V] # h[V]}
<1>1. ASSUME NEW V \in F, \A W \in F : W \subseteq V => W = V PROVE FALSE
  <2>1. V \in SUBSET S /\ V \in SUBSET T /\ V \subseteq U /\ g[V] # h[V]
    OBVIOUS
  <2>2. g[V] = IF V = {} THEN 0 ELSE f[Pick(V)] + g[V \ {Pick(V)}]
    BY <2>1 DEF Adds
  <2>3. h[V] = IF V = {} THEN 0 ELSE e[Pick(V)] + h[V \ {Pick(V)}]
    BY <2>1 DEF Adds
  <2>4. V # {} /\ Pick(V) \in V
    BY <2>1, <2>2, <2>3, PickIn
  <2>5. V \ {Pick(V)} \notin F
    BY <1>1, <2>4
  <2>6. g[V \ {Pick(V)}] = h[V \ {Pick(V)}]
    BY <2>1, <2>5
  <2> QED
    BY <2>1, <2>2, <2>3, <2>4, <2>6
<1>2. F = {}
  <2> HIDE DEF F
  <2>1. F \subseteq SUBSET U
    BY DEF F
  <2> QED
    BY <1>1, <2>1, MinimalSubset
<1> QED
  BY <1>2

LEMMA AddsExists ==
    ASSUME NEW f, NEW S, IsFiniteSet(S)
    PROVE  \E g : Adds(f, g, S)
<1> DEFINE F    == {T \in SUBSET S : ~ \E g : Adds(f, g, T)}
           G(u) == CHOOSE g : Adds(f, g, u)
<1>1. ASSUME NEW T \in F, \A U \in F : U \subseteq T => U = T PROVE FALSE
  <2>1. \A u \in SUBSET T : u # T => Adds(f, G(u), u)
    BY <1>1
  <2> DEFINE h == [s \in SUBSET T |-> IF s = {} THEN 0
                                      ELSE f[Pick(s)] + G(s \ {Pick(s)})[s \ {Pick(s)}]]
  <2>2. \A u \in SUBSET T : IsFiniteSet(u)
    BY FS_Subset
  <2> HIDE DEF G
  <2>3. ASSUME NEW u \in SUBSET T, u # T PROVE h[u] = G(u)[u]
    <3>1. Adds(f, G(u), u)
      BY <2>1, <2>3
    <3>2. G(u)[u] = IF u = {} THEN 0 ELSE f[Pick(u)] + G(u)[u \ {Pick(u)}]
      BY <3>1 DEF Adds
    <3>3. CASE u # {}
      <4> DEFINE v == u \ {Pick(u)}
      <4>1. v \subseteq u /\ v # T /\ v \in SUBSET T
        BY <2>3, <3>3, PickIn
      <4>2. Adds(f, G(v), v)
        BY <2>1, <4>1
      <4>3. G(u)[v] = G(v)[v]
        <5> HIDE DEF v
        <5> QED BY <2>2, <3>1, <4>1, <4>2, AddsAgree
      <4> QED
        BY <3>2, <3>3, <4>3
    <3> QED
      BY <3>2, <3>3
  <2>4. ASSUME NEW s \in SUBSET T, s # {}
        PROVE  h[s] = f[Pick(s)] + h[s \ {Pick(s)}]
    <3> DEFINE v == s \ {Pick(s)}
    <3>1. v \in SUBSET T /\ v # T
      BY <2>4, PickIn
    <3>2. h[v] = G(v)[v]
      BY <2>3, <3>1
    <3>3. h[s] = f[Pick(s)] + G(v)[v]
      BY <2>4
    <3> QED
      BY <3>2, <3>3
  <2>5. h[{}] = 0
    OBVIOUS
  <2>6. h = [s \in SUBSET T |-> h[s]]
    OBVIOUS
  <2>7. Adds(f, h, T)
    <3> HIDE DEF h
    <3> QED BY <2>4, <2>5, <2>6 DEF Adds
  <2> QED
    BY <1>1, <2>7
<1>2. F = {}
  <2> HIDE DEF F
  <2>1. F \subseteq SUBSET S
    BY DEF F
  <2> QED
    BY <1>1, <2>1, MinimalSubset
<1> QED
  BY <1>2

LEMMA AddsInt ==
    ASSUME NEW D, D \subseteq Int, \A a, b \in D : a + b \in D, 0 \in D,
           NEW f, NEW g, NEW S, IsFiniteSet(S), Adds(f, g, S), \A x \in S : f[x] \in D
    PROVE  \A s \in SUBSET S : g[s] \in D
<1> DEFINE F == {V \in SUBSET S : g[V] \notin D}
<1>1. ASSUME NEW V \in F, \A W \in F : W \subseteq V => W = V PROVE FALSE
  <2>1. g[V] = IF V = {} THEN 0 ELSE f[Pick(V)] + g[V \ {Pick(V)}]
    BY DEF Adds
  <2>2. V # {} /\ Pick(V) \in V
    BY <2>1, PickIn
  <2>3. g[V \ {Pick(V)}] \in D
    BY <1>1, <2>2
  <2> QED
    BY <2>1, <2>2, <2>3
<1>2. F = {}
  <2> HIDE DEF F
  <2>1. F \subseteq SUBSET S
    BY DEF F
  <2> QED
    BY <1>1, <2>1, MinimalSubset
<1> QED
  BY <1>2

\* The order does not matter.
LEMMA AddsAny ==
    ASSUME NEW f, NEW g, NEW S, IsFiniteSet(S), Adds(f, g, S), \A x \in S : f[x] \in Int
    PROVE  \A s \in SUBSET S : \A x \in s : g[s] = f[x] + g[s \ {x}]
<1> DEFINE F == {V \in SUBSET S : \E x \in V : g[V] # f[x] + g[V \ {x}]}
<1>i. \A s \in SUBSET S : g[s] \in Int
  <2>1. Int \subseteq Int /\ 0 \in Int /\ \A a, b \in Int : a + b \in Int
    OBVIOUS
  <2> QED
    BY <2>1, AddsInt
<1>1. ASSUME NEW V \in F, \A W \in F : W \subseteq V => W = V PROVE FALSE
  <2>1. PICK x \in V : g[V] # f[x] + g[V \ {x}]
    OBVIOUS
  <2> DEFINE p == Pick(V)
  <2>2. g[V] = f[p] + g[V \ {p}] /\ p \in V
    BY PickIn DEF Adds
  <2>3. x # p
    BY <2>1, <2>2
  <2>4. g[V \ {p}] = f[x] + g[(V \ {p}) \ {x}]
    BY <1>1, <2>1, <2>2, <2>3
  <2>5. g[V \ {x}] = f[p] + g[(V \ {x}) \ {p}]
    BY <1>1, <2>1, <2>2, <2>3
  <2>6. (V \ {p}) \ {x} = (V \ {x}) \ {p}
    OBVIOUS
  <2>7. f[x] \in Int /\ f[p] \in Int /\ g[(V \ {x}) \ {p}] \in Int
    BY <1>i, <2>1, <2>2
  <2>8. \A a, b, c \in Int : a + (b + c) = b + (a + c)
    OBVIOUS
  <2> DEFINE r == g[(V \ {x}) \ {p}]
  <2>9. f[p] + (f[x] + r) = f[x] + (f[p] + r)
    BY <2>7, <2>8
  <2> HIDE DEF p, F
  <2>10. g[V] = f[p] + (f[x] + r)
    BY <2>2, <2>4, <2>6
  <2>11. g[V \ {x}] = f[p] + r
    BY <2>5
  <2> QED
    BY <2>1, <2>9, <2>10, <2>11
<1>2. F = {}
  <2> HIDE DEF F
  <2>1. F \subseteq SUBSET S
    BY DEF F
  <2> QED
    BY <1>1, <2>1, MinimalSubset
<1> QED
  BY <1>2

LEMMA SumAdds ==
    ASSUME NEW S, IsFiniteSet(S), NEW f, DOMAIN f = S
    PROVE  \E g : Adds(f, g, S) /\ Sum(f) = g[S]
<1> DEFINE g == CHOOSE g : Adds(f, g, S)
<1>1. Adds(f, g, S)
  BY AddsExists
<1>2. Sum(f) = g[S]
  BY DEF Sum, FoldFunction, FoldFunctionOnSet, MapThenFoldSet, Adds, Pick
<1> QED
  BY <1>1, <1>2

\* The sum of nothing.
LEMMA SumEmpty == ASSUME NEW f, DOMAIN f = {} PROVE Sum(f) = 0
<1>1. PICK g : Adds(f, g, {}) /\ Sum(f) = g[{}]
  BY SumAdds, FS_EmptySet
<1> QED
  BY <1>1 DEF Adds

LEMMA SumType ==
    ASSUME NEW S, IsFiniteSet(S), NEW f \in [S -> Int]
    PROVE  Sum(f) \in Int /\ ((\A x \in S : f[x] \in Nat) => Sum(f) \in Nat)
<1>1. PICK g : Adds(f, g, S) /\ Sum(f) = g[S]
  BY SumAdds
<1>2. g[S] \in Int
  <2>1. Int \subseteq Int /\ 0 \in Int /\ \A a, b \in Int : a + b \in Int
    OBVIOUS
  <2> QED
    BY <1>1, <2>1, AddsInt
<1>3. (\A x \in S : f[x] \in Nat) => g[S] \in Nat
  <2>1. Nat \subseteq Int /\ 0 \in Nat /\ \A a, b \in Nat : a + b \in Nat
    OBVIOUS
  <2> QED
    BY <1>1, <2>1, AddsInt
<1> QED
  BY <1>1, <1>2, <1>3

\* One term after the other, in any order.
LEMMA SumSplit ==
    ASSUME NEW S, IsFiniteSet(S), NEW f \in [S -> Int], NEW x \in S
    PROVE  Sum(f) = f[x] + Sum([y \in S \ {x} |-> f[y]])
<1> DEFINE e == [y \in S \ {x} |-> f[y]]
<1>1. PICK g : Adds(f, g, S) /\ Sum(f) = g[S]
  BY SumAdds
<1>2. IsFiniteSet(S \ {x})
  BY FS_Subset
<1>3. PICK h : Adds(e, h, S \ {x}) /\ Sum(e) = h[S \ {x}]
  BY <1>2, SumAdds
<1>4. g[S] = f[x] + g[S \ {x}]
  BY <1>1, AddsAny
<1>5. g[S \ {x}] = h[S \ {x}]
  <2>1. \A y \in S \ {x} : f[y] = e[y]
    OBVIOUS
  <2> HIDE DEF e
  <2> QED BY <1>1, <1>2, <1>3, <2>1, AddsAgree
<1> QED
  BY <1>1, <1>3, <1>4, <1>5

\* Induction up to a number.
LEMMA UpTo ==
    ASSUME NEW n \in Nat, NEW F, 0 \in F, \A k \in 0..(n - 1) : k \in F => k + 1 \in F
    PROVE  \A k \in 0..n : k \in F
<1> DEFINE Bad == {T \in SUBSET (0..n) : \E k \in 0..n : k \notin F /\ T = 0..k}
<1>1. ASSUME NEW T \in Bad, \A U \in Bad : U \subseteq T => U = T PROVE FALSE
  <2>1. PICK k \in 0..n : k \notin F /\ T = 0..k
    OBVIOUS
  <2>2. k # 0 /\ k - 1 \in 0..(n - 1)
    BY <2>1
  <2>3. k - 1 \notin F
    BY <2>1, <2>2
  <2>4. 0..(k - 1) \in Bad
    BY <2>2, <2>3
  <2>5. 0..(k - 1) \subseteq T /\ k \in T /\ k \notin 0..(k - 1)
    BY <2>1, <2>2
  <2> QED
    BY <1>1, <2>4, <2>5
<1>2. Bad = {}
  <2> DEFINE D == 0..n
  <2>1. Bad \subseteq SUBSET D
    OBVIOUS
  <2>2. IsFiniteSet(D)
    BY FS_Interval
  <2> HIDE DEF Bad, D
  <2>3. Bad # {} => \E T \in Bad : \A U \in Bad : U \subseteq T => U = T
    BY <2>1, <2>2, MinimalSubset
  <2> QED
    BY <1>1, <2>3
<1> QED
  <2> SUFFICES ASSUME NEW k \in 0..n, k \notin F PROVE FALSE
    OBVIOUS
  <2>1. 0..k \in SUBSET (0..n)
    OBVIOUS
  <2> QED
    BY <1>2, <2>1

\* The last term of a sequence of numbers.
LEMMA SumLast ==
    ASSUME NEW n \in Nat, NEW f \in [1..(n + 1) -> Int]
    PROVE  Sum(f) = f[n + 1] + Sum([i \in 1..n |-> f[i]])
<1>1. IsFiniteSet(1..(n + 1)) /\ n + 1 \in 1..(n + 1) /\ 1..(n + 1) \ {n + 1} = 1..n
  <2>1. IsFiniteSet(1..(n + 1))
    BY FS_Interval
  <2> QED
    BY <2>1
<1> DEFINE S == 1..(n + 1)
           x == n + 1
<1>2. Sum(f) = f[x] + Sum([i \in S \ {x} |-> f[i]])
  <2>1. IsFiniteSet(S) /\ x \in S /\ f \in [S -> Int]
    BY <1>1
  <2> HIDE DEF S, x
  <2> QED
    BY <2>1, SumSplit, ZenonT(60)
<1>3. [i \in S \ {x} |-> f[i]] = [i \in 1..n |-> f[i]]
  BY <1>1
<1> QED
  BY <1>2, <1>3

LEMMA SumOne == ASSUME NEW x \in Int PROVE Sum(<<x>>) = x
<1>1. <<x>> \in [1..1 -> Int] /\ <<x>>[1] = x
  OBVIOUS
<1>2. IsFiniteSet(1..1) /\ 1..1 \ {1} = {} /\ 1 \in 1..1
  <2>1. IsFiniteSet({1})
    BY FS_Singleton
  <2>2. {1} = 1..1
    OBVIOUS
  <2> QED
    BY <2>1, <2>2
<1>3. Sum([y \in 1..1 \ {1} |-> <<x>>[y]]) = 0
  BY <1>2, SumEmpty
<1>4. Sum(<<x>>) = <<x>>[1] + Sum([y \in 1..1 \ {1} |-> <<x>>[y]])
  BY <1>1, <1>2, SumSplit
<1> QED
  BY <1>1, <1>3, <1>4

\* Term by term.
LEMMA SumPlus ==
    ASSUME NEW n \in Nat, NEW f \in [1..n -> Int], NEW g \in [1..n -> Int],
           NEW h \in [1..n -> Int], \A i \in 1..n : h[i] = f[i] + g[i]
    PROVE  Sum(h) = Sum(f) + Sum(g)
<1> DEFINE To(e, k) == Sum([i \in 1..k |-> e[i]])
           F == {k \in 0..n : To(h, k) = To(f, k) + To(g, k)}
<1>1. 0 \in F
  <2>1. To(f, 0) = 0 /\ To(g, 0) = 0 /\ To(h, 0) = 0
    BY SumEmpty
  <2> HIDE DEF To
  <2> QED
    BY <2>1
<1>2. ASSUME NEW k \in 0..(n - 1), k \in F PROVE k + 1 \in F
  <2>1. ASSUME NEW e \in [1..n -> Int]
        PROVE  /\ To(e, k + 1) = e[k + 1] + To(e, k)
               /\ To(e, k) \in Int /\ e[k + 1] \in Int
    <3> DEFINE a == [i \in 1..(k + 1) |-> e[i]]
               b == [i \in 1..k |-> e[i]]
    <3>1. k \in Nat /\ k + 1 \in 1..(k + 1) /\ 1..(k + 1) \subseteq 1..n
          /\ 1..k \subseteq 1..n /\ k + 1 \in 1..n
      OBVIOUS
    <3>5. a \in [1..(k + 1) -> Int] /\ b \in [1..k -> Int] /\ IsFiniteSet(1..k)
      <4>1. IsFiniteSet(1..k)
        BY <3>1, FS_Interval
      <4> QED
        BY <3>1, <4>1
    <3>6. a[k + 1] = e[k + 1] /\ e[k + 1] \in Int
      BY <3>1
    <3>2. b = [i \in 1..k |-> a[i]]
      OBVIOUS
    <3> HIDE DEF a, b
    <3>3. Sum(a) = a[k + 1] + Sum(b)
      BY <3>1, <3>2, <3>5, SumLast
    <3>4. Sum(b) \in Int
      BY <3>5, SumType
    <3> QED
      BY <3>3, <3>4, <3>6 DEF a, b
  <2>2. h[k + 1] = f[k + 1] + g[k + 1]
    OBVIOUS
  <2>3. To(h, k) = To(f, k) + To(g, k) /\ k + 1 \in 0..n
    BY <1>2
  <2>5. \A a, b, c, d \in Int : (a + b) + (c + d) = (a + c) + (b + d)
    OBVIOUS
  <2> HIDE DEF To, F
  <2>6. /\ To(f, k + 1) = f[k + 1] + To(f, k)
        /\ To(f, k) \in Int /\ f[k + 1] \in Int
    BY <2>1
  <2>7. /\ To(g, k + 1) = g[k + 1] + To(g, k)
        /\ To(g, k) \in Int /\ g[k + 1] \in Int
    BY <2>1
  <2>8. To(h, k + 1) = h[k + 1] + To(h, k)
    BY <2>1
  <2>4. To(h, k + 1) = To(f, k + 1) + To(g, k + 1)
    BY <2>2, <2>3, <2>5, <2>6, <2>7, <2>8
  <2> USE DEF F
  <2> QED
    BY <2>3, <2>4
<1>3. n \in F
  <2> HIDE DEF F
  <2>1. n \in 0..n
    OBVIOUS
  <2> QED
    BY <1>1, <1>2, <2>1, UpTo, Zenon
<1>4. \A e : e \in [1..n -> Int] => [i \in 1..n |-> e[i]] = e
  OBVIOUS
<1> QED
  BY <1>3, <1>4

\* Bounds of the terms are bounds of the sum.
LEMMA SumBound ==
    ASSUME NEW n \in Nat, NEW f \in [1..n -> Int], NEW h \in [1..n -> Int],
           NEW a \in Int, NEW b \in Int, NEW c \in Int,
           \A i \in 1..n : c * h[i] <= a * f[i] + b
    PROVE  c * Sum(h) <= a * Sum(f) + n * b
<1> DEFINE To(e, k) == Sum([i \in 1..k |-> e[i]])
           F == {k \in 0..n : c * To(h, k) <= a * To(f, k) + k * b}
<1>1. 0 \in F
  <2>1. To(f, 0) = 0 /\ To(h, 0) = 0
    BY SumEmpty
  <2>2. c * 0 = 0 /\ a * 0 = 0 /\ 0 * b = 0
    OBVIOUS
  <2> HIDE DEF To
  <2> QED
    BY <2>1, <2>2
<1>2. ASSUME NEW k \in 0..(n - 1), k \in F PROVE k + 1 \in F
  <2>1. ASSUME NEW e \in [1..n -> Int]
        PROVE  /\ To(e, k + 1) = e[k + 1] + To(e, k)
               /\ To(e, k) \in Int /\ e[k + 1] \in Int
    <3> DEFINE u == [i \in 1..(k + 1) |-> e[i]]
               v == [i \in 1..k |-> e[i]]
    <3>1. k \in Nat /\ k + 1 \in 1..(k + 1) /\ 1..(k + 1) \subseteq 1..n
          /\ 1..k \subseteq 1..n /\ k + 1 \in 1..n
      OBVIOUS
    <3>2. u \in [1..(k + 1) -> Int] /\ v \in [1..k -> Int] /\ IsFiniteSet(1..k)
      <4>1. IsFiniteSet(1..k)
        BY <3>1, FS_Interval
      <4> QED
        BY <3>1, <4>1
    <3>3. u[k + 1] = e[k + 1] /\ e[k + 1] \in Int
      BY <3>1
    <3>4. v = [i \in 1..k |-> u[i]]
      OBVIOUS
    <3> HIDE DEF u, v
    <3>5. Sum(u) = u[k + 1] + Sum(v)
      BY <3>1, <3>2, <3>4, SumLast
    <3>6. Sum(v) \in Int
      BY <3>2, SumType
    <3> QED
      BY <3>3, <3>5, <3>6 DEF u, v
  <2>2. PICK H \in Int, G \in Int, x \in Int, y \in Int :
            /\ H = To(h, k) /\ G = To(f, k) /\ x = h[k + 1] /\ y = f[k + 1]
            /\ To(h, k + 1) = x + H /\ To(f, k + 1) = y + G
    <3> HIDE DEF To, F
    <3> QED BY <2>1
  <2>3. c * H <= a * G + k * b /\ c * x <= a * y + b /\ k + 1 \in 0..n
    <3>1. k + 1 \in 1..n
      OBVIOUS
    <3>2. c * To(h, k) <= a * To(f, k) + k * b
      BY <1>2
    <3>3. c * h[k + 1] <= a * f[k + 1] + b
      BY <3>1
    <3> HIDE DEF To, F
    <3> QED BY <2>2, <3>1, <3>2, <3>3
  <2>4. c * (x + H) = c * x + c * H /\ a * (y + G) = a * y + a * G /\ (k + 1) * b = k * b + b
    OBVIOUS
  <2>5. PICK cH \in Int, cx \in Int, aG \in Int, ay \in Int, kb \in Int :
            cH = c * H /\ cx = c * x /\ aG = a * G /\ ay = a * y /\ kb = k * b
    OBVIOUS
  <2>6. cx + cH <= (ay + aG) + (kb + b)
    BY <2>3, <2>5
  <2>7. c * (x + H) <= a * (y + G) + (k + 1) * b
    BY <2>4, <2>5, <2>6
  <2> HIDE DEF To
  <2> QED
    BY <2>2, <2>3, <2>7
<1>3. n \in F
  <2> HIDE DEF F
  <2>1. n \in 0..n
    OBVIOUS
  <2> QED
    BY <1>1, <1>2, <2>1, UpTo, Zenon
<1>4. \A e : e \in [1..n -> Int] => [i \in 1..n |-> e[i]] = e
  OBVIOUS
<1> QED
  BY <1>3, <1>4

\* A rounded quotient is at most half away from the quotient.
LEMMA RoundedIs ==
    ASSUME NEW num \in Nat, NEW den \in Nat \ {0}
    PROVE  /\ Rounded(num, den) \in Nat
           /\ 2 * num <= 2 * (den * Rounded(num, den)) + den
           /\ 2 * (den * Rounded(num, den)) <= 2 * num + den
<1>1. PICK x \in Nat, m \in Nat \ {0} : x = 2 * num + den /\ m = 2 * den
  OBVIOUS
<1>2. PICK q \in Int : q = x \div m
  OBVIOUS
<1>3. PICK r \in 0..(m - 1) : x = m * q + r
  <2>1. x = m * (x \div m) + (x % m) /\ x % m \in 0..(m - 1)
    OBVIOUS
  <2> QED BY <1>2, <2>1
<1>4. q >= 0
  BY <1>2
<1>5. m * q = 2 * (den * q)
  BY <1>1
<1>6. PICK p \in Int : p = den * q
  OBVIOUS
<1>7. 2 * num <= 2 * p + den /\ 2 * p <= 2 * num + den
  BY <1>1, <1>3, <1>5, <1>6
<1>8. Rounded(num, den) = q
  BY <1>1, <1>2 DEF Rounded
<1> QED
  BY <1>4, <1>6, <1>7, <1>8

LEMMA Scaled ==
    /\ \A a, b \in Int, c \in Nat \ {0} : a <= b <=> a * c <= b * c
    /\ \A num, total, den, failed, a, b \in Int :
          num * total = den * failed
             => (num * b) * total = (failed * b) * den /\ (a * den) * total = (a * total) * den
<1>1. ASSUME NEW a \in Int, NEW b \in Int, NEW c \in Nat \ {0}
      PROVE  a <= b <=> a * c <= b * c
  <2>1. PICK d \in Int : d = b - a
    OBVIOUS
  <2>2. b * c = a * c + d * c
    <3>1. b = a + d
      BY <2>1
    <3>2. (a + d) * c = a * c + d * c
      OBVIOUS
    <3> QED BY <3>1, <3>2
  <2>3. d >= 0 => d * c >= 0
    OBVIOUS
  <2>4. d < 0 => d * c < 0
    <3>1. \A x, y \in Nat \ {0} : x * y > 0
      OBVIOUS
    <3>2. d < 0 => (0 - d) * c > 0
      BY <3>1
    <3>3. (0 - d) * c = 0 - d * c
      OBVIOUS
    <3> QED BY <3>2, <3>3
  <2>5. PICK x \in Int, y \in Int : x = a * c /\ y = d * c
    OBVIOUS
  <2> QED BY <2>1, <2>2, <2>3, <2>4, <2>5
<1>2. ASSUME NEW num \in Int, NEW total \in Int, NEW den \in Int, NEW failed \in Int,
             NEW a \in Int, NEW b \in Int, num * total = den * failed
      PROVE  (num * b) * total = (failed * b) * den /\ (a * den) * total = (a * total) * den
  <2>1. (num * b) * total = (num * total) * b
    OBVIOUS
  <2>2. (den * failed) * b = (failed * b) * den
    OBVIOUS
  <2>3. (a * den) * total = (a * total) * den
    OBVIOUS
  <2> QED BY <1>2, <2>1, <2>2, <2>3
<1> QED
  BY <1>1, <1>2

\* A sum after one of its terms changed.
LEMMA SumChange ==
    ASSUME NEW n \in Nat, NEW f \in [1..n -> Int], NEW g \in [1..n -> Int], NEW m \in 1..n,
           \A i \in 1..n : i # m => g[i] = f[i]
    PROVE  Sum(g) = Sum(f) + (g[m] - f[m])
<1> DEFINE S == 1..n
           R == S \ {m}
<1>1. IsFiniteSet(S) /\ m \in S /\ IsFiniteSet(R)
  <2>1. IsFiniteSet(S)
    BY FS_Interval
  <2> QED BY <2>1, FS_Subset
<1>2. f \in [S -> Int] /\ g \in [S -> Int]
  OBVIOUS
<1>3. [i \in R |-> f[i]] = [i \in R |-> g[i]] /\ [i \in R |-> f[i]] \in [R -> Int]
  OBVIOUS
<1> HIDE DEF S
<1>4. /\ Sum(f) = f[m] + Sum([i \in S \ {m} |-> f[i]])
      /\ Sum(g) = g[m] + Sum([i \in S \ {m} |-> g[i]])
  BY <1>1, <1>2, SumSplit, ZenonT(60)
<1>5. PICK r : r = Sum([i \in R |-> f[i]])
  OBVIOUS
<1> DEFINE u == [i \in R |-> f[i]]
<1>6. r \in Int
  <2>1. u \in [R -> Int] /\ IsFiniteSet(R)
    BY <1>1, <1>3
  <2>2. r = Sum(u)
    BY <1>5
  <2> HIDE DEF u, R
  <2> QED BY <2>1, <2>2, SumType
<1>7. Sum(f) = f[m] + r /\ Sum(g) = g[m] + r
  BY <1>3, <1>4, <1>5
<1>8. f[m] \in Int /\ g[m] \in Int
  BY <1>1, <1>2
<1> QED
  BY <1>6, <1>7, <1>8

LEMMA UpToFinite ==
    ASSUME NEW n \in Nat
    PROVE  IsFiniteSet(1..n) /\ Cardinality(1..n) = n
<1>1. IsFiniteSet(1..n) /\ Cardinality(1..n) = IF 1 > n THEN 0 ELSE n - 1 + 1
  BY FS_Interval, 1 \in Int, n \in Int, Zenon
<1> QED
  BY <1>1

\* The sizes of the parts of a finite set add up to its size.
LEMMA PartsAddUp ==
    ASSUME NEW U, IsFiniteSet(U), NEW n \in Nat, NEW A,
           \A k \in 1..n : A[k] \subseteq U,
           \A u \in U : \E k \in 1..n : u \in A[k],
           \A k, l \in 1..n : k # l => A[k] \cap A[l] = {}
    PROVE  Sum([k \in 1..n |-> Cardinality(A[k])]) = Cardinality(U)
<1> DEFINE To(k)   == Sum([i \in 1..k |-> Cardinality(A[i])])
           Part(k) == {u \in U : \E i \in 1..k : u \in A[i]}
           F       == {k \in 0..n : To(k) = Cardinality(Part(k))}
<1>1. \A k \in 1..n : IsFiniteSet(A[k]) /\ Cardinality(A[k]) \in Nat
  BY FS_Subset, FS_CardinalityType
<1>2. \A k : IsFiniteSet(Part(k)) /\ Cardinality(Part(k)) \in Nat
  <2> SUFFICES ASSUME NEW k PROVE IsFiniteSet(Part(k)) /\ Cardinality(Part(k)) \in Nat
    OBVIOUS
  <2>1. Part(k) \subseteq U
    OBVIOUS
  <2> HIDE DEF Part
  <2> QED BY <2>1, FS_Subset, FS_CardinalityType
<1>3. 0 \in F
  <2>1. To(0) = 0
    BY SumEmpty
  <2>2. Part(0) = {}
    OBVIOUS
  <2>3. Cardinality(Part(0)) = 0
    BY <2>2, FS_EmptySet
  <2> HIDE DEF To, Part
  <2> QED BY <2>1, <2>3
<1>4. ASSUME NEW k \in 0..(n - 1), k \in F PROVE k + 1 \in F
  <2>1. k \in Nat /\ k + 1 \in 1..n /\ k + 1 \in 0..n
    OBVIOUS
  <2>2. To(k + 1) = Cardinality(A[k + 1]) + To(k)
    <3> DEFINE f == [i \in 1..(k + 1) |-> Cardinality(A[i])]
    <3>1. \A i \in 1..(k + 1) : i \in 1..n
      BY <2>1
    <3>2. f \in [1..(k + 1) -> Int]
      BY <1>1, <3>1
    <3>3. [i \in 1..k |-> f[i]] = [i \in 1..k |-> Cardinality(A[i])]
          /\ f[k + 1] = Cardinality(A[k + 1])
      BY <2>1
    <3> HIDE DEF f
    <3>4. Sum(f) = f[k + 1] + Sum([i \in 1..k |-> f[i]])
      BY <2>1, <3>2, SumLast
    <3> QED BY <3>3, <3>4 DEF f
  <2>3. Part(k + 1) = Part(k) \cup A[k + 1] /\ Part(k) \cap A[k + 1] = {}
    <3>1. \A i : i \in 1..(k + 1) <=> i \in 1..k \/ i = k + 1
      BY <2>1
    <3>2. \A i \in 1..k : i \in 1..n /\ i # k + 1
      BY <2>1
    <3>3. Part(k) \cap A[k + 1] = {}
      BY <2>1, <3>2
    <3>4. A[k + 1] \subseteq U
      BY <2>1
    <3>5. Part(k + 1) = Part(k) \cup A[k + 1]
      BY <3>1, <3>4
    <3> QED BY <3>3, <3>5
  <2>4. Cardinality(Part(k + 1)) = Cardinality(Part(k)) + Cardinality(A[k + 1])
    <3> HIDE DEF Part
    <3>1. Cardinality(Part(k) \cup A[k + 1])
             = Cardinality(Part(k)) + Cardinality(A[k + 1]) - Cardinality(Part(k) \cap A[k + 1])
      BY <1>1, <1>2, <2>1, FS_Union
    <3>2. Cardinality({}) = 0
      BY FS_EmptySet
    <3>3. PICK a \in Nat, b \in Nat : a = Cardinality(Part(k)) /\ b = Cardinality(A[k + 1])
      BY <1>1, <1>2, <2>1
    <3>4. Cardinality(Part(k + 1)) = a + b - 0
      BY <2>3, <3>1, <3>2, <3>3
    <3> QED BY <3>3, <3>4
  <2>5. To(k) = Cardinality(Part(k))
    BY <1>4
  <2> HIDE DEF To, Part
  <2> QED BY <1>1, <1>2, <2>1, <2>2, <2>4, <2>5
<1>5. n \in F
  <2> HIDE DEF F
  <2>1. \A k \in 0..n : k \in F
    BY <1>3, <1>4, UpTo
  <2> QED BY <2>1
<1>6. Part(n) = U
  OBVIOUS
<1>7. To(n) = Cardinality(Part(n))
  BY <1>5
<1> HIDE DEF Part
<1> QED
  BY <1>6, <1>7

\* A term that is not negative is within the sum.
LEMMA TermsWithin ==
    ASSUME NEW n \in Nat, NEW f \in [1..n -> Nat]
    PROVE  /\ Sum(f) \in Nat /\ \A w \in 1..n : f[w] <= Sum(f)
           /\ (\A w \in 1..n : f[w] = 0) => Sum(f) = 0
<1> DEFINE S == 1..n
<1>1. IsFiniteSet(S) /\ f \in [S -> Int] /\ \A w \in S : f[w] \in Nat
  BY UpToFinite
<1>2. Sum(f) \in Nat
  <2> HIDE DEF S
  <2> QED BY <1>1, SumType
<1>3. ASSUME NEW w \in S PROVE f[w] <= Sum(f)
  <2> DEFINE g == [y \in S \ {w} |-> f[y]]
  <2>1. IsFiniteSet(S \ {w})
    BY <1>1, FS_Subset
  <2>2. g \in [S \ {w} -> Int] /\ \A y \in S \ {w} : g[y] \in Nat
    BY <1>1
  <2>3. Sum(f) = f[w] + Sum(g)
    <3>1. IsFiniteSet(S) /\ f \in [S -> Int] /\ w \in S
      BY <1>1, <1>3
    <3> HIDE DEF S
    <3> QED BY <3>1, SumSplit, ZenonT(60)
  <2>4. Sum(g) \in Nat
    <3> HIDE DEF S, g
    <3> QED BY <2>1, <2>2, SumType
  <2>5. f[w] \in Nat
    BY <1>1
  <2> HIDE DEF g
  <2> QED BY <2>3, <2>4, <2>5
<1>4. ASSUME \A w \in S : f[w] = 0 PROVE Sum(f) = 0
  <2>1. 1 * Sum(f) <= 0 * Sum(f) + n * 0
    <3>1. f \in [1..n -> Int] /\ \A w \in 1..n : 1 * f[w] <= 0 * f[w] + 0
      BY <1>4
    <3>2. 0 \in Int /\ 1 \in Int
      OBVIOUS
    <3> HIDE DEF S
    <3> QED BY <3>1, <3>2, SumBound
  <2> QED BY <1>2, <2>1
<1> QED
  BY <1>2, <1>3, <1>4

-----------------------------------------------------------------------------
(* Greatest and least elements.                                                *)

LEMMA MaxIs ==
    \A S : IsFiniteSet(S) /\ S \subseteq Int /\ S # {}
            => Max(S) \in S /\ \A y \in S : Max(S) >= y
<1>a. SUFFICES ASSUME NEW S, IsFiniteSet(S), S \subseteq Int, S # {}
               PROVE  Max(S) \in S /\ \A y \in S : Max(S) >= y
  OBVIOUS
<1>b. IsFiniteSet(S)
  BY <1>a
<1> DEFINE F == {T \in SUBSET S : T # {} /\ ~ \E x \in T : \A y \in T : x >= y}
<1>1. ASSUME NEW T \in F, \A U \in F : U \subseteq T => U = T PROVE FALSE
  <2>1. PICK z \in T : TRUE
    OBVIOUS
  <2>2. T \ {z} \notin F
    BY <1>1
  <2>3. CASE T \ {z} = {}
    <3>1. z >= z /\ \A y \in T : y = z
      BY <1>a, <2>3
    <3> QED BY <3>1
  <2>4. ASSUME NEW x \in T \ {z}, \A y \in T \ {z} : x >= y PROVE FALSE
    <3>1. x \in Int /\ z \in Int /\ \A y \in T : y \in Int
      BY <1>a
    <3>2. CASE x >= z
      BY <2>4, <3>1, <3>2
    <3>3. CASE ~(x >= z)
      <4>1. \A y \in T : z >= y
        BY <2>4, <3>1, <3>3
      <4> QED BY <4>1
    <3> QED BY <3>2, <3>3
  <2> QED
    BY <2>2, <2>3, <2>4
<1>2. F = {}
  <2> HIDE DEF F
  <2>1. F \subseteq SUBSET S
    BY DEF F
  <2>2. F # {} => \E T \in F : \A U \in F : U \subseteq T => U = T
    BY <1>b, <2>1, MinimalSubset
  <2> QED
    BY <1>1, <2>2
<1>3. \E x \in S : \A y \in S : x >= y
  BY <1>a, <1>2
<1> QED
  BY <1>3 DEF Max

LEMMA MinIs ==
    \A S : IsFiniteSet(S) /\ S \subseteq Int /\ S # {}
            => Min(S) \in S /\ \A y \in S : Min(S) <= y
<1>a. SUFFICES ASSUME NEW S, IsFiniteSet(S), S \subseteq Int, S # {}
               PROVE  Min(S) \in S /\ \A y \in S : Min(S) <= y
  OBVIOUS
<1>b. IsFiniteSet(S)
  BY <1>a
<1> DEFINE F == {T \in SUBSET S : T # {} /\ ~ \E x \in T : \A y \in T : x <= y}
<1>1. ASSUME NEW T \in F, \A U \in F : U \subseteq T => U = T PROVE FALSE
  <2>1. PICK z \in T : TRUE
    OBVIOUS
  <2>2. T \ {z} \notin F
    BY <1>1
  <2>3. CASE T \ {z} = {}
    <3>1. z <= z /\ \A y \in T : y = z
      BY <1>a, <2>3
    <3> QED BY <3>1
  <2>4. ASSUME NEW x \in T \ {z}, \A y \in T \ {z} : x <= y PROVE FALSE
    <3>1. x \in Int /\ z \in Int /\ \A y \in T : y \in Int
      BY <1>a
    <3>2. CASE x <= z
      BY <2>4, <3>1, <3>2
    <3>3. CASE ~(x <= z)
      <4>1. \A y \in T : z <= y
        BY <2>4, <3>1, <3>3
      <4> QED BY <4>1
    <3> QED BY <3>2, <3>3
  <2> QED
    BY <2>2, <2>3, <2>4
<1>2. F = {}
  <2> HIDE DEF F
  <2>1. F \subseteq SUBSET S
    BY DEF F
  <2>2. F # {} => \E T \in F : \A U \in F : U \subseteq T => U = T
    BY <1>b, <2>1, MinimalSubset
  <2> QED
    BY <1>1, <2>2
<1>3. \E x \in S : \A y \in S : x <= y
  BY <1>a, <1>2
<1> QED
  BY <1>3 DEF Min

-----------------------------------------------------------------------------
(* Segments that start nothing are dropped.                                    *)

Put(segs, i, kept) == IF segs[i].arrivals > 0 THEN Append(kept, segs[i]) ELSE kept

\* The function that Started looks its result up in.
Keeps(segs, g, S) ==
    g = [s \in SUBSET S |-> IF s = {} THEN <<>>
                            ELSE Put(segs, Max(s), g[s \ {Max(s)}])]

LEMMA MaxIn ==
    ASSUME NEW S, IsFiniteSet(S), S \subseteq Int
    PROVE  \A s \in SUBSET S : s # {} => Max(s) \in s
<1> SUFFICES ASSUME NEW s \in SUBSET S, s # {} PROVE Max(s) \in s
  OBVIOUS
<1>1. IsFiniteSet(s) /\ s \subseteq Int
  BY FS_Subset
<1> QED
  BY <1>1, MaxIs

LEMMA KeepsAgree ==
    ASSUME NEW segs, NEW g, NEW S, Keeps(segs, g, S), NEW h, NEW T, Keeps(segs, h, T),
           IsFiniteSet(S), IsFiniteSet(T), \A s \in SUBSET S : s # {} => Max(s) \in s,
           NEW U, U \subseteq S, U \subseteq T
    PROVE  g[U] = h[U]
<1> DEFINE F == {V \in SUBSET U : g[V] # h[V]}
<1>1. ASSUME NEW V \in F, \A W \in F : W \subseteq V => W = V PROVE FALSE
  <2>1. V \in SUBSET S /\ V \in SUBSET T /\ V \subseteq U /\ g[V] # h[V]
    OBVIOUS
  <2>2. g[V] = IF V = {} THEN <<>> ELSE Put(segs, Max(V), g[V \ {Max(V)}])
    BY <2>1 DEF Keeps
  <2>3. h[V] = IF V = {} THEN <<>> ELSE Put(segs, Max(V), h[V \ {Max(V)}])
    BY <2>1 DEF Keeps
  <2>4. V # {} /\ Max(V) \in V
    BY <2>1, <2>2, <2>3
  <2>5. V \ {Max(V)} \notin F
    BY <1>1, <2>4
  <2>6. g[V \ {Max(V)}] = h[V \ {Max(V)}]
    BY <2>1, <2>5
  <2> QED
    BY <2>1, <2>2, <2>3, <2>4, <2>6
<1>2. F = {}
  <2> HIDE DEF F
  <2>1. F \subseteq SUBSET S
    BY DEF F
  <2> QED
    BY <1>1, <2>1, MinimalSubset
<1> QED
  BY <1>2

LEMMA KeepsExists ==
    ASSUME NEW segs, NEW S, IsFiniteSet(S), \A s \in SUBSET S : s # {} => Max(s) \in s
    PROVE  \E g : Keeps(segs, g, S)
<1> DEFINE F    == {T \in SUBSET S : ~ \E g : Keeps(segs, g, T)}
           G(u) == CHOOSE g : Keeps(segs, g, u)
<1>1. ASSUME NEW T \in F, \A U \in F : U \subseteq T => U = T PROVE FALSE
  <2>1. \A u \in SUBSET T : u # T => Keeps(segs, G(u), u)
    BY <1>1
  <2> DEFINE h == [s \in SUBSET T |->
                      IF s = {} THEN <<>>
                      ELSE Put(segs, Max(s), G(s \ {Max(s)})[s \ {Max(s)}])]
  <2>2. \A u \in SUBSET T : IsFiniteSet(u) /\ \A s \in SUBSET u : s # {} => Max(s) \in s
    BY FS_Subset
  <2> HIDE DEF G
  <2>3. ASSUME NEW u \in SUBSET T, u # T PROVE h[u] = G(u)[u]
    <3>1. Keeps(segs, G(u), u)
      BY <2>1, <2>3
    <3>2. G(u)[u] = IF u = {} THEN <<>> ELSE Put(segs, Max(u), G(u)[u \ {Max(u)}])
      BY <3>1 DEF Keeps
    <3>3. CASE u # {}
      <4> DEFINE v == u \ {Max(u)}
      <4>0. Max(u) \in u
        BY <2>2, <3>3
      <4>1. v \subseteq u /\ v # T /\ v \in SUBSET T
        BY <2>3, <4>0
      <4>2. Keeps(segs, G(v), v)
        BY <2>1, <4>1
      <4>3. G(u)[v] = G(v)[v]
        <5> HIDE DEF v
        <5>1. IsFiniteSet(u) /\ IsFiniteSet(v)
          BY <2>2, <4>1
        <5>2. \A s \in SUBSET u : s # {} => Max(s) \in s
          BY <2>2
        <5> QED BY <3>1, <4>1, <4>2, <5>1, <5>2, KeepsAgree
      <4> QED
        BY <3>2, <3>3, <4>3
    <3> QED
      BY <3>2, <3>3
  <2>4. ASSUME NEW s \in SUBSET T, s # {}
        PROVE  h[s] = Put(segs, Max(s), h[s \ {Max(s)}])
    <3> DEFINE v == s \ {Max(s)}
    <3>1. v \in SUBSET T /\ v # T
      BY <2>4
    <3>2. h[v] = G(v)[v]
      BY <2>3, <3>1
    <3>3. h[s] = Put(segs, Max(s), G(v)[v])
      BY <2>4
    <3> QED
      BY <3>2, <3>3
  <2>5. h[{}] = <<>>
    OBVIOUS
  <2>6. h = [s \in SUBSET T |-> h[s]]
    OBVIOUS
  <2>7. Keeps(segs, h, T)
    <3> HIDE DEF h
    <3> QED BY <2>4, <2>5, <2>6 DEF Keeps
  <2> QED
    BY <1>1, <2>7
<1>2. F = {}
  <2> HIDE DEF F
  <2>1. F \subseteq SUBSET S
    BY DEF F
  <2> QED
    BY <1>1, <2>1, MinimalSubset
<1> QED
  BY <1>2

\* What is left are some of the segments, those that start something.
LEMMA StartedIn ==
    ASSUME NEW D, NEW segs \in Seq(D)
    PROVE  Started(segs) \in Seq({s \in D : s.arrivals > 0})
<1> DEFINE S == 1..Len(segs)
           E == {s \in D : s.arrivals > 0}
           g == CHOOSE g : Keeps(segs, g, S)
<1>1. IsFiniteSet(S) /\ S \subseteq Int /\ DOMAIN segs = S
  <2>1. IsFiniteSet(S)
    BY FS_Interval
  <2> QED BY <2>1
<1>2. \A s \in SUBSET S : s # {} => Max(s) \in s
  BY <1>1, MaxIn
<1>3. Keeps(segs, g, S)
  BY <1>1, <1>2, KeepsExists
<1>4. Started(segs) = g[S]
  BY <1>1 DEF Started, FoldLeft, MapThenFoldSet, Keeps, Put
<1> DEFINE F == {V \in SUBSET S : g[V] \notin Seq(E)}
<1>5. ASSUME NEW V \in F, \A W \in F : W \subseteq V => W = V PROVE FALSE
  <2> HIDE DEF g
  <2> DEFINE m == Max(V)
             U == V \ {m}
  <2>1. g[V] = IF V = {} THEN <<>> ELSE Put(segs, m, g[U])
    BY <1>3 DEF Keeps
  <2>2. V # {} /\ m \in V
    <3>1. <<>> \in Seq(E)
      OBVIOUS
    <3> QED BY <1>2, <2>1, <3>1
  <2>3. g[U] \in Seq(E)
    BY <1>5, <2>2
  <2>4. segs[m] \in D
    <3>1. V \subseteq S
      OBVIOUS
    <3>2. m \in 1..Len(segs)
      BY <2>2, <3>1
    <3> HIDE DEF m
    <3> QED BY <3>2
  <2> HIDE DEF S, m, U
  <2>5. Put(segs, m, g[U]) \in Seq(E)
    BY <2>3, <2>4 DEF Put
  <2> QED
    BY <2>1, <2>2, <2>5
<1>6. F = {}
  <2>0. IsFiniteSet(S)
    BY <1>1
  <2> HIDE DEF F, S
  <2>1. F \subseteq SUBSET S
    BY DEF F
  <2> QED
    BY <1>5, <2>0, <2>1, MinimalSubset
<1> QED
  BY <1>4, <1>6

LEMMA ArrivalsNext ==
    ASSUME NEW D, \A d \in D : d.arrivals \in Int, NEW s \in Seq(D), NEW x \in D
    PROVE  ArrivalsOf(Append(s, x)) = x.arrivals + ArrivalsOf(s)
<1>1. PICK n \in Nat : n = Len(s) /\ DOMAIN s = 1..n /\ Append(s, x) \in Seq(D)
                       /\ DOMAIN Append(s, x) = 1..(n + 1) /\ Append(s, x)[n + 1] = x
                       /\ \A i \in 1..n : Append(s, x)[i] = s[i]
  OBVIOUS
<1> DEFINE e == Append(s, x)
           f == [i \in 1..(n + 1) |-> e[i].arrivals]
<1>2. \A i \in 1..(n + 1) : e[i] \in D
  BY <1>1
<1> HIDE DEF e
<1>3. f \in [1..(n + 1) -> Int]
  BY <1>2
<1>4. f[n + 1] = x.arrivals
  BY <1>1 DEF e
<1>5. [i \in 1..n |-> f[i]] = [i \in DOMAIN s |-> s[i].arrivals]
  BY <1>1 DEF e
<1>6. ArrivalsOf(e) = Sum(f)
  BY <1>1 DEF ArrivalsOf, e
<1> HIDE DEF f
<1>7. Sum(f) = f[n + 1] + Sum([i \in 1..n |-> f[i]])
  BY <1>3, SumLast
<1> QED
  BY <1>4, <1>5, <1>6, <1>7 DEF ArrivalsOf, e

\* What is dropped starts nothing.
LEMMA StartedSum ==
    ASSUME NEW D, \A d \in D : d.arrivals \in Nat, NEW segs \in Seq(D)
    PROVE  /\ ArrivalsOf(Started(segs)) = ArrivalsOf(segs)
           /\ Len(Started(segs)) <= Len(segs)
<1> DEFINE S == 1..Len(segs)
           E == {s \in D : s.arrivals > 0}
           f == [i \in S |-> segs[i].arrivals]
           g == CHOOSE g : Keeps(segs, g, S)
<1>1. IsFiniteSet(S) /\ S \subseteq Int /\ DOMAIN segs = S /\ Cardinality(S) = Len(segs)
  <2>1. 1 \in Int /\ Len(segs) \in Int /\ Len(segs) \in Nat
    OBVIOUS
  <2>2. IsFiniteSet(S) /\ Cardinality(S) = IF 1 > Len(segs) THEN 0 ELSE Len(segs) - 1 + 1
    BY <2>1, FS_Interval, Zenon
  <2>3. S \subseteq Int /\ DOMAIN segs = S
    OBVIOUS
  <2> HIDE DEF S
  <2> QED BY <2>1, <2>2, <2>3
<1>2. \A s \in SUBSET S : s # {} => Max(s) \in s
  BY <1>1, MaxIn
<1>3. Keeps(segs, g, S)
  BY <1>1, <1>2, KeepsExists
<1>4. Started(segs) = g[S]
  BY <1>1 DEF Started, FoldLeft, MapThenFoldSet, Keeps, Put
<1>5. \A i \in S : segs[i] \in D /\ segs[i].arrivals \in Nat
  OBVIOUS
<1>6. ArrivalsOf(segs) = Sum(f)
  BY <1>1 DEF ArrivalsOf
<1> DEFINE Part(V) == Sum([i \in V |-> f[i]])
           Good(V) == /\ g[V] \in Seq(E)
                      /\ ArrivalsOf(g[V]) = Part(V)
                      /\ Len(g[V]) <= Cardinality(V)
           F == {V \in SUBSET S : ~Good(V)}
<1>7. ASSUME NEW V \in F, \A W \in F : W \subseteq V => W = V PROVE FALSE
  <2> HIDE DEF g, Part
  <2> DEFINE m == Max(V)
             U == V \ {m}
  <2>0. V \in SUBSET S /\ ~Good(V)
    OBVIOUS
  <2>1. g[V] = IF V = {} THEN <<>> ELSE Put(segs, m, g[U])
    BY <1>3 DEF Keeps
  <2>2. V # {} /\ m \in V
    <3>1. ASSUME V = {} PROVE Good(V)
      <4>1. g[V] = <<>> /\ <<>> \in Seq(E) /\ Len(<<>>) = 0
        BY <2>1, <3>1
      <4>2. Part(V) = 0
        <5>1. DOMAIN [i \in V |-> f[i]] = {}
          BY <3>1
        <5> QED BY <5>1, SumEmpty DEF Part
      <4>3. ArrivalsOf(<<>>) = 0
        <5>1. DOMAIN [i \in DOMAIN <<>> |-> <<>>[i].arrivals] = {}
          OBVIOUS
        <5> QED BY <5>1, SumEmpty DEF ArrivalsOf
      <4>4. Cardinality(V) = 0
        BY <3>1, FS_EmptySet
      <4> QED BY <4>1, <4>2, <4>3, <4>4
    <3>2. V # {}
      BY <2>0, <3>1
    <3> QED BY <1>2, <2>0, <3>2
  <2>3. Good(U)
    <3>1. U \notin F
      BY <1>7, <2>2
    <3>2. U \in SUBSET S
      BY <2>0
    <3> QED BY <3>1, <3>2
  <2>4. segs[m] \in D /\ segs[m].arrivals \in Nat /\ m \in S
    BY <1>5, <2>0, <2>2
  <2>5. IsFiniteSet(V) /\ IsFiniteSet(U) /\ Cardinality(U) = Cardinality(V) - 1
        /\ Cardinality(V) \in Nat /\ Cardinality(U) \in Nat
    <3>1. IsFiniteSet(V)
      BY <1>1, <2>0, FS_Subset
    <3>2. IsFiniteSet(U) /\ Cardinality(U) = Cardinality(V) - 1
      BY <2>2, <3>1, FS_RemoveElement
    <3> HIDE DEF U, m
    <3> QED BY <3>1, <3>2, FS_CardinalityType
  <2>6. Part(V) = f[m] + Part(U)
    <3> DEFINE e == [i \in V |-> f[i]]
    <3>1. e \in [V -> Int]
      BY <1>5, <2>0
    <3>2. [i \in V \ {m} |-> e[i]] = [i \in U |-> f[i]] /\ e[m] = f[m]
      BY <2>2
    <3> HIDE DEF e, m
    <3>3. Sum(e) = e[m] + Sum([i \in V \ {m} |-> e[i]])
      <4>1. IsFiniteSet(V) /\ m \in V
        BY <2>2, <2>5
      <4> HIDE DEF F
      <4> QED BY <3>1, <4>1, SumSplit, ZenonT(60)
    <3> QED BY <3>2, <3>3 DEF Part, e
  <2>7. f[m] = segs[m].arrivals
    BY <2>4
  <2>8. PICK x, k, T : x = segs[m] /\ k = g[U] /\ T = Part(U)
    OBVIOUS
  <2>9. x \in D /\ x.arrivals \in Nat /\ k \in Seq(E) /\ ArrivalsOf(k) = T
        /\ Len(k) <= Cardinality(U) /\ Part(V) = x.arrivals + T
    <3> HIDE DEF m, U
    <3> QED BY <2>3, <2>4, <2>6, <2>7, <2>8
  <2>10. ArrivalsOf(k) \in Int
    <3> DEFINE e == [i \in DOMAIN k |-> k[i].arrivals]
    <3>1. IsFiniteSet(1..Len(k)) /\ DOMAIN k = 1..Len(k)
      <4>1. Len(k) \in Nat
        BY <2>9
      <4>2. IsFiniteSet(1..Len(k))
        BY <4>1, FS_Interval
      <4> QED BY <2>9, <4>2
    <3>2. \A i \in 1..Len(k) : k[i].arrivals \in Int
      <4> SUFFICES ASSUME NEW i \in 1..Len(k) PROVE k[i].arrivals \in Int
        OBVIOUS
      <4>1. k[i] \in E
        BY <2>9
      <4>2. k[i] \in D
        BY <4>1
      <4> QED BY <4>2
    <3>3. e \in [1..Len(k) -> Int]
      BY <3>1, <3>2
    <3> HIDE DEF e
    <3> QED BY <3>1, <3>3, SumType DEF ArrivalsOf, e
  <2>11. g[V] = IF x.arrivals > 0 THEN Append(k, x) ELSE k
    BY <2>1, <2>2, <2>8 DEF Put
  <2>12. Good(V)
    <3>1. CASE x.arrivals > 0
      <4>1. x \in E
        BY <2>9, <3>1
      <4>2. ArrivalsOf(Append(k, x)) = x.arrivals + ArrivalsOf(k)
        <5>1. \A d \in E : d.arrivals \in Int
          OBVIOUS
        <5> HIDE DEF E
        <5> QED BY <2>9, <4>1, <5>1, ArrivalsNext
      <4>3. Append(k, x) \in Seq(E) /\ Len(Append(k, x)) = Len(k) + 1 /\ Len(k) \in Nat
        BY <2>9, <4>1
      <4>4. Len(k) + 1 <= Cardinality(V)
        BY <2>5, <2>9, <4>3
      <4> HIDE DEF E, U, m
      <4> QED BY <2>9, <2>11, <3>1, <4>2, <4>3, <4>4
    <3>2. CASE x.arrivals = 0
      <4>1. Len(k) \in Nat /\ Len(k) <= Cardinality(V)
        BY <2>5, <2>9
      <4>2. x.arrivals + T = T /\ g[V] = k
        BY <2>9, <2>10, <2>11, <3>2
      <4> HIDE DEF E, U, m
      <4> QED BY <2>9, <4>1, <4>2
    <3> QED BY <2>9, <3>1, <3>2
  <2> QED BY <2>0, <2>12
<1>8. F = {}
  <2>0. IsFiniteSet(S)
    BY <1>1
  <2> HIDE DEF F, S
  <2>1. F \subseteq SUBSET S
    BY DEF F
  <2>2. F # {} => \E V \in F : \A W \in F : W \subseteq V => W = V
    BY <2>0, <2>1, MinimalSubset
  <2> QED
    BY <1>7, <2>2
<1>9. Good(S)
  <2>1. S \in SUBSET S
    OBVIOUS
  <2> HIDE DEF S, Good
  <2> QED BY <1>8, <2>1
<1>10. [i \in S |-> f[i]] = f
  OBVIOUS
<1> HIDE DEF S, f, g, E
<1> QED
  BY <1>1, <1>4, <1>6, <1>9, <1>10

-----------------------------------------------------------------------------
(* Sorting.                                                                    *)

Before(S, B, i) == Cardinality({j \in S : <<j, i>> \in B})

\* A strict total order.
Orders(S, B) ==
    /\ \A i \in S : <<i, i>> \notin B
    /\ \A i, j, k \in S : <<i, j>> \in B /\ <<j, k>> \in B => <<i, k>> \in B
    /\ \A i, j \in S : i # j => <<i, j>> \in B \/ <<j, i>> \in B

\* n positions, all different and all taken.
Ranked(S, B, n) ==
    /\ \A i \in S : Before(S, B, i) \in Nat /\ Before(S, B, i) < n
    /\ \A i, j \in S : <<i, j>> \in B => Before(S, B, i) < Before(S, B, j)
    /\ \A i, j \in S : Before(S, B, i) = Before(S, B, j) => i = j
    /\ \A k \in 1..n : \E i \in S : Before(S, B, i) = k - 1

LEMMA Positions ==
    ASSUME NEW S, IsFiniteSet(S), NEW B, Orders(S, B)
    PROVE  Ranked(S, B, Cardinality(S))
<1> DEFINE To(i) == {j \in S : <<j, i>> \in B}
           p == [i \in S |-> 1 + Before(S, B, i)]
<1>1. PICK n \in Nat : n = Cardinality(S)
  BY FS_CardinalityType
<1>2. ASSUME NEW i \in S
      PROVE  IsFiniteSet(To(i)) /\ Cardinality(To(i)) \in Nat /\ Cardinality(To(i)) < n
  <2>1. To(i) \subseteq S /\ i \notin To(i)
    BY DEF Orders
  <2> HIDE DEF To
  <2>2. IsFiniteSet(To(i)) /\ Cardinality(To(i)) <= Cardinality(S)
        /\ (Cardinality(S) = Cardinality(To(i)) => S = To(i))
    BY <2>1, FS_Subset
  <2>3. Cardinality(To(i)) \in Nat
    BY <2>2, FS_CardinalityType
  <2>4. Cardinality(To(i)) # n
    BY <1>1, <2>1, <2>2
  <2> QED
    BY <1>1, <2>2, <2>3, <2>4
<1>3. \A i \in S : Before(S, B, i) = Cardinality(To(i))
  BY DEF Before
<1>4. ASSUME NEW i \in S, NEW j \in S, <<i, j>> \in B
      PROVE  Cardinality(To(i)) < Cardinality(To(j))
  <2>1. To(i) \subseteq To(j) /\ i \in To(j) /\ i \notin To(i)
    BY <1>4 DEF Orders
  <2>2. IsFiniteSet(To(j)) /\ Cardinality(To(i)) \in Nat /\ Cardinality(To(j)) \in Nat
    BY <1>2
  <2> HIDE DEF To
  <2>3. /\ Cardinality(To(i)) <= Cardinality(To(j))
        /\ Cardinality(To(j)) = Cardinality(To(i)) => To(i) = To(j)
    BY <2>1, <2>2, FS_Subset
  <2> QED
    BY <2>1, <2>2, <2>3
<1> HIDE DEF To
<1>5. \A i \in S : Before(S, B, i) \in Nat /\ Before(S, B, i) < n
  BY <1>2, <1>3
<1>6. \A i, j \in S : <<i, j>> \in B => Before(S, B, i) < Before(S, B, j)
  BY <1>3, <1>4
<1>7. \A i, j \in S : Before(S, B, i) = Before(S, B, j) => i = j
  <2> SUFFICES ASSUME NEW i \in S, NEW j \in S, i # j
               PROVE  Before(S, B, i) # Before(S, B, j)
    OBVIOUS
  <2>1. PICK a \in Nat, b \in Nat : a = Before(S, B, i) /\ b = Before(S, B, j)
    BY <1>5
  <2>2. a < b \/ b < a
    BY <1>6, <2>1 DEF Orders
  <2> QED BY <2>1, <2>2
<1>8. p \in Injection(S, 1..n)
  <2>1. \A i \in S : p[i] \in 1..n
    BY <1>5
  <2>2. \A i, j \in S : p[i] = p[j] => i = j
    BY <1>5, <1>7
  <2>3. p = [i \in S |-> p[i]]
    OBVIOUS
  <2> HIDE DEF p
  <2> QED
    BY <2>1, <2>2, <2>3 DEF Injection, IsInjective
<1>9. p \in Surjection(S, 1..n)
  <2>1. IsFiniteSet(1..n) /\ Cardinality(1..n) = n
    BY UpToFinite
  <2> HIDE DEF p
  <2> QED BY <1>1, <1>8, <2>1, FS_Injection
<1>10. \A k \in 1..n : \E i \in S : Before(S, B, i) = k - 1
  <2> SUFFICES ASSUME NEW k \in 1..n PROVE \E i \in S : Before(S, B, i) = k - 1
    OBVIOUS
  <2>1. PICK i \in S : p[i] = k
    <3> HIDE DEF p
    <3> QED BY <1>9 DEF Surjection
  <2>2. 1 + Before(S, B, i) = k
    BY <2>1
  <2> QED BY <1>5, <2>2
<1> QED
  BY <1>1, <1>5, <1>6, <1>7, <1>10 DEF Ranked

Below(n, B, i) == Cardinality({j \in 1..n : <<j, i>> \in B})

LEMMA Places ==
    ASSUME NEW n \in Nat, NEW B,
           \A i \in 1..n : <<i, i>> \notin B,
           \A i, j, k \in 1..n : <<i, j>> \in B /\ <<j, k>> \in B => <<i, k>> \in B,
           \A i, j \in 1..n : i # j => <<i, j>> \in B \/ <<j, i>> \in B
    PROVE  /\ \A i \in 1..n : 1 + Below(n, B, i) \in 1..n
           /\ \A i, j \in 1..n : Below(n, B, i) = Below(n, B, j) => i = j
           /\ \A k \in 1..n : \E i \in 1..n : 1 + Below(n, B, i) = k
<1> DEFINE S == 1..n
<1>1. IsFiniteSet(S) /\ Cardinality(S) = n
  BY UpToFinite
<1>2. \A i : Below(n, B, i) = Before(S, B, i)
  BY DEF Below, Before
<1>3. Ranked(S, B, n)
  <2>1. Orders(S, B)
    BY DEF Orders
  <2> HIDE DEF S
  <2> QED BY <1>1, <2>1, Positions
<1>4. \A i \in 1..n : Below(n, B, i) \in Nat /\ Below(n, B, i) < n
  BY <1>2, <1>3 DEF Ranked
<1>5. ASSUME NEW k \in 1..n PROVE \E i \in 1..n : 1 + Below(n, B, i) = k
  <2>1. PICK i \in 1..n : Below(n, B, i) = k - 1
    BY <1>2, <1>3 DEF Ranked
  <2>2. 1 + (k - 1) = k
    OBVIOUS
  <2> QED BY <2>1, <2>2
<1>6. \A i, j \in 1..n : Below(n, B, i) = Below(n, B, j) => i = j
  BY <1>2, <1>3 DEF Ranked
<1> HIDE DEF S
<1>7. \A i \in 1..n : 1 + Below(n, B, i) \in 1..n
  BY <1>4
<1> QED
  BY <1>5, <1>6, <1>7

\* A list has every member of a set once, and in order.
Lists(o, S, B) ==
    /\ o \in [1..Cardinality(S) -> S]
    /\ \A i \in S : \E n \in 1..Cardinality(S) : o[n] = i
    /\ \A m, n \in 1..Cardinality(S) : o[m] = o[n] => m = n
    /\ \A m, n \in 1..Cardinality(S) : m < n => <<o[m], o[n]>> \in B

LEMMA InOrderIs ==
    ASSUME NEW S, IsFiniteSet(S), NEW B, Orders(S, B)
    PROVE  Lists(InOrder(S, B), S, B)
<1>1. PICK n \in Nat : n = Cardinality(S)
  BY FS_CardinalityType
<1>2. Ranked(S, B, n)
  BY <1>1, Positions
<1>3. PICK o : o = InOrder(S, B)
  OBVIOUS
<1>4. o = [m \in 1..n |-> CHOOSE i \in S : Before(S, B, i) = m - 1]
  BY <1>1, <1>3 DEF InOrder, Before
<1>5. \A m \in 1..n : o[m] \in S /\ Before(S, B, o[m]) = m - 1
  <2> SUFFICES ASSUME NEW m \in 1..n PROVE o[m] \in S /\ Before(S, B, o[m]) = m - 1
    OBVIOUS
  <2>1. \E i \in S : Before(S, B, i) = m - 1
    BY <1>2 DEF Ranked
  <2>2. o[m] = CHOOSE i \in S : Before(S, B, i) = m - 1
    BY <1>4
  <2> QED BY <2>1, <2>2
<1>6. o \in [1..n -> S]
  BY <1>4, <1>5
<1>7. ASSUME NEW i \in S PROVE \E m \in 1..n : o[m] = i
  <2>1. PICK b \in Nat : b = Before(S, B, i) /\ b < n
    BY <1>2 DEF Ranked
  <2>2. b + 1 \in 1..n /\ (b + 1) - 1 = b
    BY <2>1
  <2>3. o[b + 1] \in S /\ Before(S, B, o[b + 1]) = b
    BY <1>5, <2>2
  <2>4. o[b + 1] = i
    BY <1>2, <2>1, <2>3 DEF Ranked
  <2> QED BY <2>2, <2>4
<1>8. ASSUME NEW k \in 1..n, NEW m \in 1..n, o[k] = o[m] PROVE k = m
  <2>1. k - 1 = m - 1
    BY <1>5, <1>8
  <2> QED BY <2>1
<1>9. ASSUME NEW k \in 1..n, NEW m \in 1..n, k < m PROVE <<o[k], o[m]>> \in B
  <2>1. o[k] \in S /\ o[m] \in S /\ Before(S, B, o[k]) = k - 1 /\ Before(S, B, o[m]) = m - 1
    BY <1>5
  <2>2. ~(m - 1 < k - 1) /\ k - 1 # m - 1
    BY <1>9
  <2>3. <<o[m], o[k]>> \notin B
    BY <1>2, <2>1, <2>2 DEF Ranked
  <2>4. o[k] # o[m]
    BY <2>1, <2>2
  <2> QED BY <2>1, <2>3, <2>4 DEF Orders
<1> QED
  BY <1>1, <1>3, <1>6, <1>7, <1>8, <1>9 DEF Lists

\* Sorting loses no point and invents none.
LEMMA SortedIs ==
    ASSUME NEW D, NEW s \in Seq(D), \A p \in D : p.t \in Int
    PROVE  /\ SortedByTime(s) \in Seq(D) /\ Len(SortedByTime(s)) = Len(s)
           /\ ToSet(SortedByTime(s)) = ToSet(s)
<1>1. PICK n \in Nat : Len(s) = n /\ DOMAIN s = 1..n /\ \A i \in 1..n : s[i] \in D /\ s[i].t \in Int
  OBVIOUS
<1> DEFINE S == 1..n
           B == {x \in S \X S : \/ s[x[1]].t < s[x[2]].t
                                \/ s[x[1]].t = s[x[2]].t /\ x[1] < x[2]}
           Place(i) == 1 + Cardinality({j \in DOMAIN s :
                                    \/ s[j].t < s[i].t
                                    \/ s[j].t = s[i].t /\ j < i})
           From(k) == CHOOSE i \in DOMAIN s : Place(i) = k
<1>2. \A i, j \in S : <<i, j>> \in B <=> (s[i].t < s[j].t \/ (s[i].t = s[j].t /\ i < j))
  OBVIOUS
<1>3. /\ \A i \in S : Place(i) \in S
      /\ \A i, j \in S : Place(i) = Place(j) => i = j
      /\ \A k \in S : \E i \in S : Place(i) = k
  <2>1. \A i \in S : <<i, i>> \notin B
    BY <1>1, <1>2
  <2>2. \A i, j, k \in S : <<i, j>> \in B /\ <<j, k>> \in B => <<i, k>> \in B
    BY <1>1, <1>2
  <2>3. \A i, j \in S : i # j => <<i, j>> \in B \/ <<j, i>> \in B
    BY <1>1, <1>2
  <2>4. /\ \A i \in 1..n : 1 + Below(n, B, i) \in 1..n
        /\ \A i, j \in 1..n : Below(n, B, i) = Below(n, B, j) => i = j
        /\ \A k \in 1..n : \E i \in 1..n : 1 + Below(n, B, i) = k
    <3> HIDE DEF B
    <3> QED BY <2>1, <2>2, <2>3, Places
  <2>5. ASSUME NEW i \in S
        PROVE  Place(i) = 1 + Below(n, B, i) /\ Below(n, B, i) \in Int
    <3> DEFINE To == {j \in 1..n : <<j, i>> \in B}
    <3>1. To = {j \in DOMAIN s : \/ s[j].t < s[i].t
                                 \/ s[j].t = s[i].t /\ j < i}
      BY <1>1, <1>2
    <3>2. IsFiniteSet(S)
      BY FS_Interval
    <3>3. IsFiniteSet(To)
      BY <3>2, FS_Subset
    <3>4. Below(n, B, i) = Cardinality(To)
      BY DEF Below
    <3> HIDE DEF To
    <3> QED BY <3>1, <3>3, <3>4, FS_CardinalityType
  <2>6. \A a, b \in Int : 1 + a = 1 + b => a = b
    OBVIOUS
  <2> HIDE DEF Place, B
  <2>7. ASSUME NEW i \in S, NEW j \in S, Place(i) = Place(j) PROVE i = j
    <3>1. 1 + Below(n, B, i) = 1 + Below(n, B, j)
      BY <2>5, <2>7
    <3>2. Below(n, B, i) \in Int /\ Below(n, B, j) \in Int
      BY <2>5
    <3>3. Below(n, B, i) = Below(n, B, j)
      BY <2>6, <3>1, <3>2
    <3> QED BY <2>4, <3>3
  <2>8. (\A i \in S : Place(i) \in S) /\ \A k \in S : \E i \in S : Place(i) = k
    <3>1. \A i \in S : Place(i) \in S
      BY <2>4, <2>5
    <3>2. ASSUME NEW k \in S PROVE \E i \in S : Place(i) = k
      <4>1. PICK i \in S : 1 + Below(n, B, i) = k
        BY <2>4
      <4> QED BY <2>5, <4>1
    <3> QED BY <3>1, <3>2
  <2> QED
    BY <2>7, <2>8
<1>4. SortedByTime(s) = [k \in DOMAIN s |-> s[From(k)]]
  BY DEF SortedByTime
<1> HIDE DEF Place
<1>5. \A k \in S : From(k) \in S /\ Place(From(k)) = k
  BY <1>1, <1>3
<1> HIDE DEF From, S, B
<1>6. \A i \in S : From(Place(i)) = i
  BY <1>3, <1>5
<1>7. SortedByTime(s) \in Seq(D) /\ Len(SortedByTime(s)) = n
      /\ DOMAIN SortedByTime(s) = S
  <2>1. SortedByTime(s) \in [1..n -> D]
    BY <1>1, <1>4, <1>5 DEF S
  <2> QED BY <1>1, <2>1 DEF S
<1>8. \A i \in S : SortedByTime(s)[Place(i)] = s[i] /\ Place(i) \in S
  BY <1>1, <1>3, <1>4, <1>6 DEF S
<1>9. \A k \in S : SortedByTime(s)[k] = s[From(k)] /\ From(k) \in S
  BY <1>1, <1>4, <1>5 DEF S
<1>10. ToSet(SortedByTime(s)) = ToSet(s)
  <2>1. ToSet(s) = {s[i] : i \in S} /\ ToSet(SortedByTime(s)) = {SortedByTime(s)[i] : i \in S}
    BY <1>1, <1>7 DEF ToSet, S
  <2>2. \A k \in S : SortedByTime(s)[k] \in {s[i] : i \in S}
    BY <1>9
  <2>3. \A i \in S : s[i] \in {SortedByTime(s)[k] : k \in S}
    BY <1>8
  <2> QED BY <2>1, <2>2, <2>3
<1> QED
  BY <1>1, <1>7, <1>10

Increasing(s) == \A i, j \in DOMAIN s : i < j => s[i].t <= s[j].t

LEMMA SortedIncreases ==
    ASSUME NEW D, NEW s \in Seq(D), \A p \in D : p.t \in Int
    PROVE  Increasing(SortedByTime(s))
<1>1. PICK n \in Nat : Len(s) = n /\ DOMAIN s = 1..n /\ \A i \in 1..n : s[i] \in D /\ s[i].t \in Int
  OBVIOUS
<1> DEFINE S == 1..n
           B == {x \in S \X S : \/ s[x[1]].t < s[x[2]].t
                                \/ s[x[1]].t = s[x[2]].t /\ x[1] < x[2]}
           Under(i) == {j \in DOMAIN s : \/ s[j].t < s[i].t
                                         \/ s[j].t = s[i].t /\ j < i}
           Place(i) == 1 + Cardinality(Under(i))
           From(k)  == CHOOSE i \in DOMAIN s : Place(i) = k
<1>2. \A i, j \in S : <<i, j>> \in B <=> (s[i].t < s[j].t \/ (s[i].t = s[j].t /\ i < j))
  OBVIOUS
<1>3. \A k \in S : \E i \in S : Place(i) = k
  <2>1. \A i \in S : <<i, i>> \notin B
    BY <1>1, <1>2
  <2>2. \A i, j, k \in S : <<i, j>> \in B /\ <<j, k>> \in B => <<i, k>> \in B
    BY <1>1, <1>2
  <2>3. \A i, j \in S : i # j => <<i, j>> \in B \/ <<j, i>> \in B
    BY <1>1, <1>2
  <2>4. \A k \in 1..n : \E i \in 1..n : 1 + Below(n, B, i) = k
    <3> HIDE DEF B
    <3> QED BY <2>1, <2>2, <2>3, Places
  <2>5. ASSUME NEW i \in S PROVE Under(i) = {j \in S : <<j, i>> \in B}
    BY <1>1, <1>2
  <2>6. \A i \in S : Place(i) = 1 + Below(n, B, i)
    <3> HIDE DEF Under, B
    <3> QED BY <2>5 DEF Below
  <2> HIDE DEF Place, B
  <2> QED BY <2>4, <2>6
<1>4. SortedByTime(s) = [k \in S |-> s[From(k)]]
  BY <1>1 DEF SortedByTime
<1>5. \A k \in S : From(k) \in S /\ Place(From(k)) = k
  <2> HIDE DEF Place, S
  <2>1. DOMAIN s = S
    BY <1>1 DEF S
  <2> QED BY <1>3, <2>1
<1>6. \A i \in S : IsFiniteSet(Under(i)) /\ Cardinality(Under(i)) \in Nat
  <2> SUFFICES ASSUME NEW i \in S PROVE IsFiniteSet(Under(i)) /\ Cardinality(Under(i)) \in Nat
    OBVIOUS
  <2>1. IsFiniteSet(S)
    BY FS_Interval
  <2>2. Under(i) \subseteq S
    BY <1>1
  <2> HIDE DEF Under, S
  <2> QED BY <2>1, <2>2, FS_Subset, FS_CardinalityType
<1>7. ASSUME NEW i \in S, NEW j \in S, s[j].t < s[i].t
      PROVE  Cardinality(Under(j)) < Cardinality(Under(i))
  <2>1. Under(j) \subseteq Under(i)
    BY <1>1, <1>7
  <2>2. j \in Under(i) /\ j \notin Under(j)
    BY <1>1, <1>7
  <2>3. IsFiniteSet(Under(i)) /\ Cardinality(Under(i)) \in Nat /\ Cardinality(Under(j)) \in Nat
    BY <1>6
  <2> HIDE DEF Under
  <2>4. /\ Cardinality(Under(j)) <= Cardinality(Under(i))
        /\ Cardinality(Under(i)) = Cardinality(Under(j)) => Under(i) = Under(j)
    BY <2>1, <2>3, FS_Subset
  <2> QED BY <2>2, <2>3, <2>4
<1>8. ASSUME NEW a \in S, NEW b \in S, a < b
      PROVE  s[From(a)].t <= s[From(b)].t
  <2>1. PICK i \in S, j \in S : i = From(a) /\ j = From(b)
    BY <1>5
  <2>2. 1 + Cardinality(Under(i)) = a /\ 1 + Cardinality(Under(j)) = b
    BY <1>5, <2>1
  <2>3. Cardinality(Under(i)) \in Nat /\ Cardinality(Under(j)) \in Nat
    BY <1>6
  <2>4. s[i].t \in Int /\ s[j].t \in Int
    BY <1>1
  <2> HIDE DEF Under, From
  <2>5. ~(s[j].t < s[i].t)
    BY <1>7, <1>8, <2>2, <2>3
  <2> QED BY <2>1, <2>4, <2>5
<1> HIDE DEF From
<1> QED
  BY <1>4, <1>8 DEF Increasing

\* What is sorted stays as it is.
LEMMA SortedStays ==
    ASSUME NEW D, NEW s \in Seq(D), \A p \in D : p.t \in Int, Increasing(s)
    PROVE  SortedByTime(s) = s
<1>1. PICK n \in Nat : Len(s) = n /\ DOMAIN s = 1..n /\ \A i \in 1..n : s[i] \in D /\ s[i].t \in Int
  OBVIOUS
<1> DEFINE S == 1..n
           Under(i) == {j \in DOMAIN s : \/ s[j].t < s[i].t
                                         \/ s[j].t = s[i].t /\ j < i}
           Place(i) == 1 + Cardinality(Under(i))
           From(k)  == CHOOSE i \in DOMAIN s : Place(i) = k
<1>2. ASSUME NEW i \in S PROVE Place(i) = i
  <2>1. Under(i) = 1..(i - 1)
    <3>1. ASSUME NEW j \in S PROVE j \in Under(i) <=> j < i
      <4>1. i < j => s[i].t <= s[j].t
        BY <1>1 DEF Increasing
      <4>2. j < i => s[j].t <= s[i].t
        BY <1>1 DEF Increasing
      <4>3. s[i].t \in Int /\ s[j].t \in Int /\ i \in Int /\ j \in Int
        BY <1>1
      <4> QED BY <1>1, <4>1, <4>2, <4>3
    <3>2. Under(i) \subseteq S
      BY <1>1
    <3>3. \A j : j \in 1..(i - 1) <=> j \in S /\ j < i
      OBVIOUS
    <3> HIDE DEF Under, S
    <3> QED BY <3>1, <3>2, <3>3
  <2>2. Cardinality(1..(i - 1)) = i - 1
    <3>1. 1 \in Int /\ i - 1 \in Int
      OBVIOUS
    <3>2. Cardinality(1..(i - 1)) = IF 1 > i - 1 THEN 0 ELSE (i - 1) - 1 + 1
      BY <3>1, FS_Interval, Zenon
    <3> QED BY <3>2
  <2> HIDE DEF Under
  <2> QED BY <2>1, <2>2
<1>3. SortedByTime(s) = [k \in S |-> s[From(k)]]
  BY <1>1 DEF SortedByTime
<1> HIDE DEF Place
<1>4. \A k \in S : From(k) = k
  BY <1>1, <1>2
<1>5. s = [k \in S |-> s[k]]
  BY <1>1
<1> HIDE DEF From
<1> QED
  BY <1>3, <1>4, <1>5

-----------------------------------------------------------------------------
(* Shares of the workers.                                                      *)

\* No worker is idle, and the shares differ by at most one, as long as there
\* are no more workers than threads: what dispatch sees to before it splits.
THEOREM SharesAreEven ==
    ASSUME NEW vus \in Nat, NEW workers \in Nat \ {0}, workers <= vus,
           NEW v \in 1..workers, NEW w \in 1..workers
    PROVE  /\ SplitAcross(vus, workers)[v] >= 1
           /\ SplitAcross(vus, workers)[v] <= SplitAcross(vus, workers)[w] + 1
           /\ v <= w => SplitAcross(vus, workers)[v] >= SplitAcross(vus, workers)[w]
<1> DEFINE base    == vus \div workers
           rest    == vus % workers
           of(i)   == base + (IF i <= rest THEN 1 ELSE 0)
<1>1. base \in Nat /\ rest \in Nat
  OBVIOUS
<1>2. base >= 1
  OBVIOUS
<1>3. ASSUME NEW i \in 1..workers
      PROVE  SplitAcross(vus, workers)[i] = of(i)
  <2>1. of(i) \in Nat /\ of(i) >= 1
    BY <1>1, <1>2
  <2>2. SplitAcross(vus, workers)[i] = AtLeast(of(i), 1)
    BY DEF SplitAcross
  <2> QED
    BY <2>1, <2>2 DEF AtLeast
<1>4. of(v) >= 1 /\ of(v) <= of(w) + 1 /\ (v <= w => of(v) >= of(w))
  BY <1>1, <1>2
<1> QED
  BY <1>3, <1>4

\* The shares add up to what is shared: no thread is lost, none is started twice.
THEOREM SharesAddUp ==
    ASSUME NEW vus \in Nat, NEW workers \in Nat \ {0}, workers <= vus
    PROVE  /\ SplitAcross(vus, workers) \in [1..workers -> Nat]
           /\ Sum(SplitAcross(vus, workers)) = vus
<1>1. PICK base \in Nat, rest \in Nat : /\ base = vus \div workers /\ rest = vus % workers
                                       /\ base >= 1 /\ rest < workers
                                       /\ vus = base * workers + rest
  <2> DEFINE b == vus \div workers
             r == vus % workers
  <2>1. b \in Nat /\ r \in Nat /\ b >= 1 /\ r < workers /\ vus = b * workers + r
    OBVIOUS
  <2> HIDE DEF b, r
  <2>2. \E x \in Nat, y \in Nat : x = b /\ y = r /\ x >= 1 /\ y < workers
                                  /\ vus = x * workers + y
    BY <2>1
  <2> QED
    BY <2>2 DEF b, r
<1> DEFINE share == [w \in 1..workers |-> base + (IF w <= rest THEN 1 ELSE 0)]
<1>2. SplitAcross(vus, workers) = share
  <2>1. ASSUME NEW i \in 1..workers
        PROVE  AtLeast(base + (IF i <= rest THEN 1 ELSE 0), 1)
               = base + (IF i <= rest THEN 1 ELSE 0)
    BY <1>1 DEF AtLeast
  <2>2. SplitAcross(vus, workers)
        = [w \in 1..workers |-> AtLeast(base + (IF w <= rest THEN 1 ELSE 0), 1)]
    BY <1>1 DEF SplitAcross
  <2> QED
    BY <2>1, <2>2
<1>3. share \in [1..workers -> Nat]
  BY <1>1
<1> DEFINE To(k)  == Sum([i \in 1..k |-> share[i]])
           Due(k) == k * base + (IF k <= rest THEN k ELSE rest)
           F      == {k \in 0..workers : To(k) = Due(k)}
<1>4. 0 \in F
  <2>1. To(0) = 0
    BY SumEmpty
  <2>2. Due(0) = 0
    BY <1>1
  <2> HIDE DEF To, Due
  <2> QED
    BY <2>1, <2>2
<1>5. ASSUME NEW k \in 0..(workers - 1), k \in F PROVE k + 1 \in F
  <2>1. To(k + 1) = share[k + 1] + To(k)
    <3> DEFINE a == [i \in 1..(k + 1) |-> share[i]]
    <3>1. k \in Nat /\ 1..(k + 1) \subseteq 1..workers
      OBVIOUS
    <3>2. a \in [1..(k + 1) -> Int] /\ a[k + 1] = share[k + 1]
      <4> HIDE DEF share
      <4> QED BY <1>3, <3>1
    <3>3. [i \in 1..k |-> a[i]] = [i \in 1..k |-> share[i]]
      OBVIOUS
    <3> HIDE DEF a, share
    <3>4. Sum(a) = a[k + 1] + Sum([i \in 1..k |-> a[i]])
      BY <3>1, <3>2, SumLast
    <3> QED
      BY <3>2, <3>3, <3>4 DEF a
  <2>2. share[k + 1] = base + (IF k + 1 <= rest THEN 1 ELSE 0)
    OBVIOUS
  <2>3. Due(k + 1) = share[k + 1] + Due(k)
    <3>1. (k + 1) * base = k * base + base
      OBVIOUS
    <3>2. k * base \in Int
      OBVIOUS
    <3> HIDE DEF share
    <3> QED BY <2>2, <3>1, <3>2
  <2>4. To(k) = Due(k)
    BY <1>5
  <2> HIDE DEF To, Due, share
  <2> QED
    BY <2>1, <2>3, <2>4
<1>6. workers \in F
  <2> HIDE DEF F
  <2>1. workers \in Nat /\ workers \in 0..workers
    OBVIOUS
  <2> QED
    BY <1>4, <1>5, <2>1, UpTo
<1>7. [i \in 1..workers |-> share[i]] = share
  OBVIOUS
<1>8. Sum(share) = Due(workers)
  <2> HIDE DEF share, Due
  <2> QED BY <1>6, <1>7
<1>9. Due(workers) = vus
  <2>1. workers * base = base * workers
    OBVIOUS
  <2>2. Due(workers) = workers * base + rest
    BY <1>1
  <2> QED
    BY <1>1, <2>1, <2>2
<1> HIDE DEF share, Due
<1> QED
  BY <1>2, <1>3, <1>8, <1>9

\* Rows that are dealt out reach exactly one worker each, and no worker is left
\* without a row.
THEOREM RowsAreDealt ==
    ASSUME NEW rows \in Nat, NEW workers \in Nat, workers > 1, rows >= workers
    PROVE  /\ \A r \in 1..rows : \E w \in 1..workers :
                 \A v \in 1..workers :
                    r \in RowsOf(v, workers, rows, FALSE) <=> v = w
           /\ \A w \in 1..workers : RowsOf(w, workers, rows, FALSE) # {}
<1>1. ASSUME NEW r \in 1..rows
      PROVE  \E w \in 1..workers : \A v \in 1..workers :
                r \in RowsOf(v, workers, rows, FALSE) <=> v = w
  <2> DEFINE turn == (r - 1) % workers
  <2>1. turn \in 0..(workers - 1)
    OBVIOUS
  <2>2. turn + 1 \in 1..workers
    BY <2>1
  <2>3. ASSUME NEW v \in 1..workers
        PROVE  r \in RowsOf(v, workers, rows, FALSE) <=> v = turn + 1
    <3>1. r \in RowsOf(v, workers, rows, FALSE) <=> turn = v - 1
      BY DEF RowsOf
    <3>2. turn = v - 1 <=> v = turn + 1
      BY <2>1
    <3> QED
      BY <3>1, <3>2
  <2> HIDE DEF turn
  <2> QED
    BY <2>2, <2>3
<1>2. ASSUME NEW w \in 1..workers
      PROVE  RowsOf(w, workers, rows, FALSE) # {}
  <2>1. w \in 1..rows
    OBVIOUS
  <2>2. (w - 1) % workers = w - 1
    OBVIOUS
  <2>3. w \in RowsOf(w, workers, rows, FALSE)
    BY <2>1, <2>2 DEF RowsOf
  <2> QED
    BY <2>3
<1> QED
  BY <1>1, <1>2

\* An injection into a finite set, for a fixed distance between the numbers.
LEMMA ShiftedInto ==
    ASSUME NEW A, NEW B, A \subseteq Int, B \subseteq Int, IsFiniteSet(B),
           NEW d \in Int, \A x \in A : x + d \in B
    PROVE  IsFiniteSet(A) /\ Cardinality(A) <= Cardinality(B)
<1> DEFINE f == [x \in A |-> x + d]
<1>1. f \in [A -> B]
  OBVIOUS
<1>2. \A x, y \in A : f[x] = f[y] => x = y
  OBVIOUS
<1> HIDE DEF f
<1>3. f \in Injection(A, B)
  BY <1>1, <1>2 DEF Injection, IsInjective
<1> QED
  BY <1>3, FS_Injection

\* Nobody is dealt two rows more than another.
LEMMA DealtEvenly ==
    ASSUME NEW rows \in Nat, NEW workers \in Nat, workers > 1, rows >= workers,
           NEW v \in 1..workers, NEW w \in 1..workers
    PROVE  Cardinality(RowsOf(v, workers, rows, FALSE))
               - Cardinality(RowsOf(w, workers, rows, FALSE)) <= 1
<1> DEFINE V == RowsOf(v, workers, rows, FALSE)
           W == RowsOf(w, workers, rows, FALSE)
<1>1. /\ IsFiniteSet(V) /\ V \subseteq 1..rows
      /\ IsFiniteSet(W) /\ W \subseteq 1..rows
  <2>1. V \subseteq 1..rows /\ W \subseteq 1..rows
    BY DEF RowsOf
  <2>2. IsFiniteSet(1..rows)
    BY FS_Interval
  <2> HIDE DEF V, W
  <2> QED BY <2>1, <2>2, FS_Subset
<1>2. /\ \A r \in 1..rows : r \in V <=> (r - 1) % workers = v - 1
      /\ \A r \in 1..rows : r \in W <=> (r - 1) % workers = w - 1
  BY DEF RowsOf
<1>3. Cardinality(V) \in Nat /\ Cardinality(W) \in Nat
  BY <1>1, FS_CardinalityType
<1>m. ASSUME NEW a \in Int, NEW q \in Int, NEW r \in 0..(workers - 1), a = q * workers + r
      PROVE  a % workers = r
  BY <1>m
<1>n. ASSUME NEW r \in V
      PROVE  \E q \in Nat : r - 1 = q * workers + (v - 1)
  <2>1. r \in Int /\ r >= 1 /\ (r - 1) % workers = v - 1
    <3>1. r \in 1..rows
      BY <1>1
    <3> HIDE DEF V
    <3> QED BY <1>2, <3>1
  <2>2. r - 1 = ((r - 1) \div workers) * workers + (v - 1) /\ (r - 1) \div workers \in Nat
    BY <2>1
  <2> QED BY <2>2
<1> HIDE DEF V, W
<1> SUFFICES Cardinality(V) - Cardinality(W) <= 1
  BY DEF V, W
<1>4. CASE v >= w
  <2>1. ASSUME NEW r \in V PROVE r + (w - v) \in W
    <3>1. PICK q \in Nat : r - 1 = q * workers + (v - 1)
      BY <1>n
    <3>2. r \in 1..rows /\ q * workers \in Nat
      BY <1>1
    <3>7. PICK m \in Nat : m = q * workers /\ r = m + v
      BY <3>1, <3>2
    <3>3. (r + (w - v)) - 1 = q * workers + (w - 1)
      BY <3>7
    <3>4. w - 1 \in 0..(workers - 1) /\ (r + (w - v)) - 1 \in Int
      BY <3>2
    <3>5. ((r + (w - v)) - 1) % workers = w - 1
      <4>1. q \in Int
        OBVIOUS
      <4> QED BY <1>m, <3>3, <3>4, <4>1, Zenon
    <3>6. r + (w - v) \in 1..rows
      BY <1>4, <3>2, <3>7
    <3> QED BY <1>2, <3>5, <3>6
  <2>2. V \subseteq Int /\ W \subseteq Int /\ w - v \in Int
    BY <1>1
  <2>3. Cardinality(V) <= Cardinality(W)
    BY <1>1, <2>1, <2>2, ShiftedInto
  <2> QED BY <1>3, <2>3
<1>5. CASE v < w
  <2> DEFINE U == V \ {v}
             d == (w - v) - workers
  <2>1. ASSUME NEW r \in U PROVE r + d \in W
    <3>0. r \in V /\ r # v
      OBVIOUS
    <3>1. PICK q \in Nat : r - 1 = q * workers + (v - 1)
      BY <1>n, <3>0
    <3>2. r \in 1..rows /\ q * workers \in Nat /\ (q - 1) * workers = q * workers - workers
      BY <1>1, <3>0
    <3>3. q # 0
      BY <3>0, <3>1, <3>2
    <3>7. (q - 1) * workers \in Nat
      BY <3>3
    <3>4. (r + d) - 1 = (q - 1) * workers + (w - 1)
      BY <3>1, <3>2
    <3>5. w - 1 \in 0..(workers - 1) /\ (r + d) - 1 \in Int /\ q - 1 \in Int
      BY <3>2
    <3>6. ((r + d) - 1) % workers = w - 1
      <4> HIDE DEF d
      <4> QED BY <1>m, <3>4, <3>5
    <3>8. r + d \in 1..rows
      BY <1>5, <3>2, <3>4, <3>7
    <3> HIDE DEF d
    <3> QED BY <1>2, <3>6, <3>8
  <2>2. U \subseteq Int /\ W \subseteq Int /\ d \in Int
    BY <1>1
  <2>3. Cardinality(U) <= Cardinality(W)
    <3> HIDE DEF U, d
    <3> QED BY <1>1, <2>1, <2>2, ShiftedInto
  <2>4. v \in V
    <3>1. v \in 1..rows /\ (v - 1) % workers = v - 1
      OBVIOUS
    <3> QED BY <1>2, <3>1
  <2>5. Cardinality(U) = Cardinality(V) - 1
    BY <1>1, <2>4, FS_RemoveElement
  <2> HIDE DEF U
  <2> QED BY <1>3, <2>3, <2>5
<1>6. v \in Int /\ w \in Int
  OBVIOUS
<1> QED
  BY <1>4, <1>5, <1>6

-----------------------------------------------------------------------------
(* Curves.                                                                     *)

AskedPoint == [t : Int, vus : Int, rate : Int]
CleanedPoint == [t : Nat, vus : Nat, rate : Nat]

TimesOf(s) == {p.t : p \in ToSet(s)}

LEMMA TimesFinite ==
    ASSUME NEW s \in Seq(AskedPoint)
    PROVE  IsFiniteSet({0} \cup TimesOf(s)) /\ {0} \cup TimesOf(s) \subseteq Int
<1> DEFINE S == 1..Len(s)
           T == TimesOf(s)
           f == [i \in S |-> s[i].t]
<1>1. DOMAIN s = S /\ Len(s) \in Nat
  OBVIOUS
<1>2. T = {s[i].t : i \in S}
  BY <1>1 DEF TimesOf, ToSet
<1>3. IsFiniteSet(S)
  BY <1>1, FS_Interval
<1>4. \A i \in S : s[i].t \in Int
  <2>1. \A i \in S : s[i] \in AskedPoint
    BY <1>1
  <2> HIDE DEF S
  <2> QED BY <2>1 DEF AskedPoint
<1>5. f \in Surjection(S, T)
  <2>1. f \in [S -> T]
    BY <1>2
  <2>2. \A t \in T : \E i \in S : f[i] = t
    BY <1>2
  <2> HIDE DEF S, T, f
  <2> QED BY <2>1, <2>2 DEF Surjection
<1>6. IsFiniteSet(T)
  <2> HIDE DEF S, T, f
  <2> QED BY <1>3, <1>5, FS_Surjection
<1>7. T \subseteq Int
  BY <1>2, <1>4
<1>8. IsFiniteSet(T \cup {0})
  <2> HIDE DEF T
  <2> QED BY <1>6, FS_AddElement
<1>9. T \cup {0} = {0} \cup T
  OBVIOUS
<1> SUFFICES IsFiniteSet({0} \cup T) /\ {0} \cup T \subseteq Int
  OBVIOUS
<1> HIDE DEF T
<1>10. {0} \cup T \subseteq Int
  BY <1>7
<1>11. IsFiniteSet({0} \cup T)
  BY <1>8, <1>9
<1> QED
  BY <1>10, <1>11

\* The last time of a curve.
LEMMA LastIs ==
    ASSUME NEW s \in Seq(AskedPoint)
    PROVE  LET last == Max({0} \cup {p.t : p \in ToSet(s)})
           IN  /\ last \in Nat
               /\ \A p \in ToSet(s) : p.t <= last
               /\ last # 0 => \E p \in ToSet(s) : p.t = last
<1> DEFINE T == {0} \cup {p.t : p \in ToSet(s)}
<1>1. IsFiniteSet(T) /\ T \subseteq Int /\ T # {}
  BY TimesFinite DEF TimesOf
<1>2. Max(T) \in T /\ \A y \in T : Max(T) >= y
  <2> HIDE DEF T
  <2> QED BY <1>1, MaxIs
<1>3. 0 \in T /\ \A p \in ToSet(s) : p.t \in T
  OBVIOUS
<1>4. \A t \in T : t = 0 \/ \E p \in ToSet(s) : p.t = t
  OBVIOUS
<1> SUFFICES /\ Max(T) \in Nat
             /\ \A p \in ToSet(s) : p.t <= Max(T)
             /\ Max(T) # 0 => \E p \in ToSet(s) : p.t = Max(T)
  OBVIOUS
<1> HIDE DEF T
<1>5. Max(T) \in Int /\ Max(T) >= 0
  BY <1>1, <1>2, <1>3
<1>6. \A p \in ToSet(s) : p.t <= Max(T)
  BY <1>1, <1>2, <1>3
<1> QED
  BY <1>2, <1>4, <1>5, <1>6

LEMMA CleanPointIs ==
    ASSUME NEW p \in AskedPoint
    PROVE  CleanPoint(p) \in CleanedPoint /\ CleanPoint(p).t = AtLeast(p.t, 0)
BY LoadShapeAssumption DEF CleanPoint, AskedPoint, CleanedPoint, AtLeast, AtMost,
   ClampVUs, ClampRate

\* Cleaning keeps the times, apart from those before the start and a point there.
LEMMA NormalIs ==
    ASSUME NEW s \in Seq(AskedPoint)
    PROVE  /\ NormalizedCurve(s) \in Seq(CleanedPoint)
           /\ NormalizedCurve(s) = <<>> <=> s = <<>>
           /\ \A p \in ToSet(NormalizedCurve(s)) :
                 p.t = 0 \/ \E q \in ToSet(s) : p.t = q.t
           /\ \A q \in ToSet(s) :
                 q.t <= 0 \/ \E p \in ToSet(NormalizedCurve(s)) : p.t = q.t
<1> DEFINE c == [i \in DOMAIN s |-> CleanPoint(s[i])]
           d == SortedByTime(c)
<1>1. c \in Seq(CleanedPoint) /\ Len(c) = Len(s)
  <2>1. \A i \in 1..Len(s) : CleanPoint(s[i]) \in CleanedPoint
    BY CleanPointIs
  <2> QED BY <2>1
<1>2. /\ \A p \in ToSet(c) : p.t = 0 \/ \E q \in ToSet(s) : p.t = q.t
      /\ \A q \in ToSet(s) : q.t <= 0 \/ \E p \in ToSet(c) : p.t = q.t
  <2>1. \A i \in DOMAIN s : c[i].t = AtLeast(s[i].t, 0) /\ s[i].t \in Int
    <3> SUFFICES ASSUME NEW i \in DOMAIN s
                 PROVE  c[i].t = AtLeast(s[i].t, 0) /\ s[i].t \in Int
      OBVIOUS
    <3>1. s[i] \in AskedPoint /\ c[i] = CleanPoint(s[i])
      OBVIOUS
    <3>2. c[i].t = AtLeast(s[i].t, 0)
      BY <3>1, CleanPointIs
    <3> QED BY <3>1, <3>2 DEF AskedPoint
  <2>2. ToSet(c) = {c[i] : i \in DOMAIN s} /\ ToSet(s) = {s[i] : i \in DOMAIN s}
    BY DEF ToSet
  <2> HIDE DEF c
  <2> QED BY <2>1, <2>2 DEF AtLeast
<1>3. d \in Seq(CleanedPoint) /\ Len(d) = Len(c) /\ ToSet(d) = ToSet(c)
  <2>1. \A p \in CleanedPoint : p.t \in Int
    BY DEF CleanedPoint
  <2> HIDE DEF c
  <2> QED BY <1>1, <2>1, SortedIs
<1> DEFINE z == [t |-> 0, vus |-> 0, rate |-> 0]
<1> HIDE DEF c, d
<1>4. NormalizedCurve(s) = IF d = <<>> \/ d[1].t = 0 THEN d ELSE <<z>> \o d
  BY DEF NormalizedCurve, c, d
<1>5. z \in CleanedPoint /\ z.t = 0
  BY DEF CleanedPoint
<1> HIDE DEF z
<1>6. CASE d = <<>> \/ d[1].t = 0
  <2>1. NormalizedCurve(s) = d
    BY <1>4, <1>6
  <2>2. d = <<>> <=> s = <<>>
    BY <1>1, <1>3
  <2> QED BY <1>2, <1>3, <2>1, <2>2
<1>7. CASE ~(d = <<>> \/ d[1].t = 0)
  <2>1. NormalizedCurve(s) = <<z>> \o d
    BY <1>4, <1>7
  <2>2. <<z>> \o d \in Seq(CleanedPoint) /\ <<z>> \o d # <<>> /\ s # <<>>
    BY <1>1, <1>3, <1>5, <1>7
  <2>3. ToSet(<<z>> \o d) = {z} \cup ToSet(d)
    <3> DEFINE e == <<z>> \o d
    <3>1. /\ DOMAIN e = 1..(Len(d) + 1) /\ DOMAIN d = 1..Len(d) /\ Len(d) \in Nat
          /\ e[1] = z /\ \A i \in 1..Len(d) : e[i + 1] = d[i]
      BY <1>3, <1>5
    <3>2. \A i \in 1..(Len(d) + 1) : i = 1 \/ (i - 1 \in 1..Len(d) /\ i = (i - 1) + 1)
      BY <3>1
    <3>3. \A i \in 1..Len(d) : i + 1 \in 1..(Len(d) + 1)
      BY <3>1
    <3>4. 1 \in 1..(Len(d) + 1)
      BY <3>1
    <3> HIDE DEF e
    <3>5. \A x : x \in ToSet(e) => x = z \/ x \in ToSet(d)
      <4> SUFFICES ASSUME NEW x \in ToSet(e), x # z PROVE x \in ToSet(d)
        OBVIOUS
      <4>1. PICK i \in 1..(Len(d) + 1) : x = e[i]
        BY <3>1 DEF ToSet
      <4>2. i - 1 \in 1..Len(d) /\ e[(i - 1) + 1] = d[i - 1] /\ i = (i - 1) + 1
        BY <3>1, <3>2, <4>1
      <4>3. x = d[i - 1]
        BY <4>1, <4>2
      <4> QED BY <3>1, <4>2, <4>3 DEF ToSet
    <3>6. \A x : x = z \/ x \in ToSet(d) => x \in ToSet(e)
      BY <3>1, <3>3, <3>4 DEF ToSet
    <3> QED BY <3>5, <3>6 DEF e
  <2> QED BY <1>2, <1>3, <1>5, <2>1, <2>2, <2>3
<1> QED
  BY <1>6, <1>7

LEMMA CleanedAsked == Seq(CleanedPoint) \subseteq Seq(AskedPoint)
<1>1. CleanedPoint \subseteq AskedPoint
  BY DEF CleanedPoint, AskedPoint
<1> SUFFICES ASSUME NEW s \in Seq(CleanedPoint) PROVE s \in Seq(AskedPoint)
  OBVIOUS
<1>2. \A i \in 1..Len(s) : s[i] \in AskedPoint
  BY <1>1
<1> QED
  BY <1>2

\* A curve that cleaning does not change.
CleanCurve(c) ==
    /\ c \in Seq(CleanedPoint)
    /\ \A i \in 1..Len(c) : CleanPoint(c[i]) = c[i]
    /\ Increasing(c)
    /\ c = <<>> \/ c[1].t = 0

LEMMA CleanPointAgain ==
    ASSUME NEW p \in AskedPoint
    PROVE  CleanPoint(CleanPoint(p)) = CleanPoint(p)
BY LoadShapeAssumption DEF CleanPoint, AskedPoint, AtLeast, AtMost, ClampVUs, ClampRate

LEMMA NormalClean ==
    ASSUME NEW s \in Seq(AskedPoint)
    PROVE  CleanCurve(NormalizedCurve(s))
<1> DEFINE c == [i \in DOMAIN s |-> CleanPoint(s[i])]
           d == SortedByTime(c)
           z == [t |-> 0, vus |-> 0, rate |-> 0]
<1>1. c \in Seq(CleanedPoint) /\ DOMAIN c = 1..Len(s) /\ Len(s) \in Nat
  <2>1. \A i \in 1..Len(s) : CleanPoint(s[i]) \in CleanedPoint
    BY CleanPointIs
  <2> QED BY <2>1
<1>2. \A x \in ToSet(c) : CleanPoint(x) = x
  <2> SUFFICES ASSUME NEW x \in ToSet(c) PROVE CleanPoint(x) = x
    OBVIOUS
  <2>1. PICK i \in DOMAIN s : x = CleanPoint(s[i])
    BY DEF ToSet
  <2>2. s[i] \in AskedPoint
    BY <2>1
  <2> QED BY <2>1, <2>2, CleanPointAgain
<1> HIDE DEF c
<1>3. \A p \in CleanedPoint : p.t \in Nat
  BY DEF CleanedPoint
<1>4. d \in Seq(CleanedPoint) /\ ToSet(d) = ToSet(c) /\ Increasing(d)
  BY <1>1, <1>3, SortedIs, SortedIncreases
<1> HIDE DEF d
<1>5. \A i \in 1..Len(d) : CleanPoint(d[i]) = d[i] /\ d[i].t \in Nat
  <2> SUFFICES ASSUME NEW i \in 1..Len(d) PROVE CleanPoint(d[i]) = d[i] /\ d[i].t \in Nat
    OBVIOUS
  <2>1. d[i] \in ToSet(d) /\ d[i] \in CleanedPoint
    BY <1>4 DEF ToSet
  <2> QED BY <1>2, <1>3, <1>4, <2>1
<1>6. NormalizedCurve(s) = IF d = <<>> \/ d[1].t = 0 THEN d ELSE <<z>> \o d
  BY DEF NormalizedCurve, c, d
<1>7. CASE d = <<>> \/ d[1].t = 0
  BY <1>4, <1>5, <1>6, <1>7 DEF CleanCurve
<1>8. CASE ~(d = <<>> \/ d[1].t = 0)
  <2>1. z \in CleanedPoint /\ z.t = 0 /\ CleanPoint(z) = z
    BY LoadShapeAssumption DEF CleanedPoint, CleanPoint, AtLeast, AtMost, ClampRate
  <2> HIDE DEF z
  <2>2. PICK e : e = <<z>> \o d
    OBVIOUS
  <2>3. /\ e \in Seq(CleanedPoint) /\ Len(e) = Len(d) + 1 /\ DOMAIN e = 1..(Len(d) + 1)
        /\ Len(d) \in Nat /\ DOMAIN d = 1..Len(d)
        /\ e[1] = z /\ \A i \in 1..(Len(d) + 1) : i # 1 => i - 1 \in 1..Len(d) /\ e[i] = d[i - 1]
    BY <1>4, <2>1, <2>2
  <2>4. \A i \in 1..Len(e) : CleanPoint(e[i]) = e[i] /\ e[i].t \in Nat
    BY <1>5, <2>1, <2>3
  <2>5. ASSUME NEW i \in DOMAIN e, NEW j \in DOMAIN e, i < j PROVE e[i].t <= e[j].t
    <3>1. CASE i = 1
      BY <2>1, <2>3, <2>4, <3>1
    <3>2. CASE i # 1
      <4>1. i - 1 \in DOMAIN d /\ j - 1 \in DOMAIN d /\ i - 1 < j - 1
            /\ e[i] = d[i - 1] /\ e[j] = d[j - 1]
        BY <2>3, <2>5, <3>2
      <4> QED BY <1>4, <4>1 DEF Increasing
    <3> QED BY <3>1, <3>2
  <2> QED BY <1>6, <1>8, <2>1, <2>2, <2>3, <2>4, <2>5 DEF CleanCurve, Increasing
<1> QED
  BY <1>7, <1>8

LEMMA CleanStays ==
    ASSUME NEW c, CleanCurve(c)
    PROVE  NormalizedCurve(c) = c
<1>1. [i \in DOMAIN c |-> CleanPoint(c[i])] = c
  BY DEF CleanCurve
<1>2. SortedByTime(c) = c
  <2>1. \A p \in CleanedPoint : p.t \in Int
    BY DEF CleanedPoint
  <2> QED BY <2>1, SortedStays DEF CleanCurve
<1> QED
  BY <1>1, <1>2 DEF CleanCurve, NormalizedCurve

-----------------------------------------------------------------------------
(* Segments that end by a given time.                                          *)

Segments(last) ==
    {s \in [delay : Int, ramp : Int, arrivals : Int] : s.delay + s.ramp <= last}

LEMMA RoundedInt ==
    \A num \in Int, den \in Nat \ {0} : Rounded(num, den) \in Int
BY DEF Rounded

LEMMA ArrivalsInt ==
    ASSUME NEW last \in Int, NEW segs \in Seq(Segments(last))
    PROVE  ArrivalsOf(segs) \in Int
<1> DEFINE S == 1..Len(segs)
           f == [i \in S |-> segs[i].arrivals]
<1>1. IsFiniteSet(S) /\ DOMAIN segs = S
  <2>1. IsFiniteSet(S)
    BY FS_Interval
  <2> QED BY <2>1
<1>2. \A i \in S : segs[i].arrivals \in Int
  <2> SUFFICES ASSUME NEW i \in S PROVE segs[i].arrivals \in Int
    OBVIOUS
  <2>1. segs[i] \in Segments(last)
    OBVIOUS
  <2> QED BY <2>1 DEF Segments
<1>3. f \in [S -> Int]
  BY <1>2
<1>4. Sum(f) \in Int
  <2> HIDE DEF S, f
  <2> QED BY <1>1, <1>3, SumType
<1> QED
  BY <1>1, <1>4 DEF ArrivalsOf

LEMMA StartedSegments ==
    ASSUME NEW last \in Int, NEW segs \in Seq(Segments(last))
    PROVE  Started(segs) \in Seq(Segments(last))
<1> DEFINE D == Segments(last)
<1>1. Started(segs) \in Seq({s \in D : s.arrivals > 0})
  <2> HIDE DEF D
  <2>1. segs \in Seq(D)
    BY DEF D
  <2> QED BY <2>1, StartedIn
<1> HIDE DEF D
<1>2. \A i \in 1..Len(Started(segs)) : Started(segs)[i] \in D
  BY <1>1
<1>3. Started(segs) \in Seq(D)
  BY <1>1, <1>2
<1> QED
  BY <1>3 DEF D

LEMMA ResizedIn ==
    ASSUME NEW last \in Int, NEW segs \in Seq(Segments(last)), NEW amounts,
           \A i \in 1..Len(segs) : amounts[i] \in Int
    PROVE  Resized(segs, amounts) \in Seq(Segments(last))
<1> DEFINE Of(i) == [segs[i] EXCEPT !.arrivals = amounts[i]]
           e     == [i \in DOMAIN segs |-> Of(i)]
<1>1. ASSUME NEW i \in 1..Len(segs)
      PROVE  Of(i) \in Segments(last)
  <2>1. segs[i] \in Segments(last) /\ amounts[i] \in Int
    OBVIOUS
  <2> DEFINE s == segs[i]
             r == [s EXCEPT !.arrivals = amounts[i]]
  <2>2. s \in [delay : Int, ramp : Int, arrivals : Int] /\ s.delay + s.ramp <= last
    BY <2>1 DEF Segments
  <2> HIDE DEF s
  <2>3. r \in [delay : Int, ramp : Int, arrivals : Int]
    BY <2>1, <2>2
  <2>4. r.delay = s.delay /\ r.ramp = s.ramp
    BY <2>2
  <2>5. r \in Segments(last)
    <3> HIDE DEF r
    <3> QED BY <2>2, <2>3, <2>4 DEF Segments
  <2> QED BY <2>5 DEF s
<1>2. e \in Seq(Segments(last))
  <2> HIDE DEF Of
  <2>1. DOMAIN segs = 1..Len(segs) /\ Len(segs) \in Nat
    OBVIOUS
  <2> QED BY <1>1, <2>1
<1> HIDE DEF e
<1>3. Started(e) \in Seq(Segments(last))
  BY <1>2, StartedSegments
<1> QED
  BY <1>3 DEF Resized, e

LEMMA SlicesIn ==
    ASSUME NEW last \in Int, NEW curve \in Seq(CleanedPoint),
           \A p \in ToSet(curve) : p.t <= last
    PROVE  Slices(curve) \in Seq(Segments(last))
<1> DEFINE Slice(a, b) == [delay    |-> a.t,
                           ramp     |-> b.t - a.t,
                           arrivals |-> Rounded((a.rate + b.rate) * (b.t - a.t), 2)]
           n == Len(curve) - 1
           e == [i \in 1..(Len(curve) - 1) |-> Slice(curve[i], curve[i + 1])]
<1>1. ASSUME NEW i \in 1..(Len(curve) - 1)
      PROVE  Slice(curve[i], curve[i + 1]) \in Segments(last)
  <2>1. i \in 1..Len(curve) /\ i + 1 \in 1..Len(curve)
    OBVIOUS
  <2>2. PICK a, b : a = curve[i] /\ b = curve[i + 1]
    OBVIOUS
  <2>3. a \in CleanedPoint /\ b \in CleanedPoint /\ b \in ToSet(curve)
    BY <2>1, <2>2 DEF ToSet
  <2>4. a.t \in Int /\ b.t \in Int /\ a.rate \in Int /\ b.rate \in Int /\ b.t <= last
    BY <2>3 DEF CleanedPoint
  <2>5. Rounded((a.rate + b.rate) * (b.t - a.t), 2) \in Int
    <3>1. (a.rate + b.rate) * (b.t - a.t) \in Int /\ 2 \in Nat \ {0}
      BY <2>4
    <3> QED BY <3>1, RoundedInt
  <2>6. a.t + (b.t - a.t) = b.t
    BY <2>4
  <2>7. Slice(a, b) \in Segments(last)
    BY <2>4, <2>5, <2>6 DEF Segments
  <2> HIDE DEF Slice
  <2> QED BY <2>2, <2>7
<1>2. CASE curve = <<>>
  <2>1. e \in Seq(Segments(last))
    BY <1>2
  <2> HIDE DEF e
  <2>2. Started(e) \in Seq(Segments(last))
    BY <2>1, StartedSegments
  <2> QED BY <2>2 DEF Slices, e
<1>3. CASE curve # <<>>
  <2>1. Len(curve) - 1 \in Nat
    BY <1>3
  <2>2. e \in Seq(Segments(last))
    <3> HIDE DEF Slice
    <3> QED BY <1>1, <2>1
  <2> HIDE DEF e
  <2>3. Started(e) \in Seq(Segments(last))
    BY <2>2, StartedSegments
  <2> QED BY <2>3 DEF Slices, e
<1> QED
  BY <1>2, <1>3

LEMMA ShrunkIn ==
    ASSUME NEW last \in Int, NEW segs \in Seq(Segments(last)), NEW total \in Int,
           ArrivalsOf(segs) > total, total > 0
    PROVE  ShrunkTo(segs, total) \in Seq(Segments(last))
<1>0. PICK all \in Nat \ {0} : all = ArrivalsOf(segs)
  BY ArrivalsInt
<1> DEFINE scaled == [i \in DOMAIN segs |->
                        Rounded(segs[i].arrivals * total, ArrivalsOf(segs))]
           drift  == total - Sum(scaled)
           open   == {i \in DOMAIN segs : scaled[i] > 0 \/ drift > 0}
           fixed  == [i \in DOMAIN segs |->
                        IF i = Max(open) THEN AtLeast(scaled[i] + drift, 0)
                                         ELSE scaled[i]]
           S      == 1..Len(segs)
<1>1. IsFiniteSet(S) /\ DOMAIN segs = S
  <2>1. IsFiniteSet(S)
    BY FS_Interval
  <2> QED BY <2>1
<1>2. \A i \in S : scaled[i] \in Int
  <2> SUFFICES ASSUME NEW i \in S PROVE scaled[i] \in Int
    OBVIOUS
  <2>1. segs[i] \in Segments(last)
    OBVIOUS
  <2>2. segs[i].arrivals \in Int
    BY <2>1 DEF Segments
  <2>3. segs[i].arrivals * total \in Int
    BY <2>2
  <2>4. Rounded(segs[i].arrivals * total, all) \in Int
    BY <2>3, RoundedInt
  <2> QED BY <1>0, <1>1, <2>4
<1>3. scaled \in [S -> Int]
  BY <1>1, <1>2
<1> HIDE DEF scaled
<1>4. Sum(scaled) \in Int
  <2> HIDE DEF S
  <2> QED BY <1>1, <1>3, SumType
<1>5. \A i \in S : fixed[i] \in Int
  BY <1>1, <1>2, <1>4 DEF AtLeast
<1> HIDE DEF fixed
<1> DEFINE amounts == IF drift = 0 THEN scaled ELSE fixed
<1>6. \A i \in 1..Len(segs) : amounts[i] \in Int
  BY <1>2, <1>5
<1>7. ShrunkTo(segs, total) = Resized(segs, amounts)
  BY DEF ShrunkTo, scaled, fixed
<1> HIDE DEF amounts
<1>8. Resized(segs, amounts) \in Seq(Segments(last))
  BY <1>6, ResizedIn
<1> QED
  BY <1>7, <1>8

LEMMA CompiledIs ==
    ASSUME NEW last \in Nat, NEW points \in Seq(AskedPoint),
           \A p \in ToSet(points) : p.t <= last
    PROVE  /\ CompiledArrivals(points).segs \in Seq(Segments(last))
           /\ CompiledArrivals(points).total \in Nat
<1> DEFINE curve == NormalizedCurve(points)
           segs  == Slices(curve)
           total == ClampArrivals(ArrivalsOf(segs))
<1>1. curve \in Seq(CleanedPoint) /\ \A p \in ToSet(curve) : p.t <= last
  <2>1. curve \in Seq(CleanedPoint)
        /\ \A p \in ToSet(curve) : p.t = 0 \/ \E q \in ToSet(points) : p.t = q.t
    BY NormalIs
  <2> HIDE DEF curve
  <2> QED BY <2>1
<1>2. segs \in Seq(Segments(last))
  <2> HIDE DEF curve
  <2> QED BY <1>1, SlicesIn
<1> HIDE DEF segs
<1>3. ArrivalsOf(segs) \in Int
  BY <1>2, ArrivalsInt
<1>4. total \in Nat
  BY <1>3, LoadShapeAssumption DEF ClampArrivals, AtMost
<1> HIDE DEF total
<1>5. ArrivalsOf(segs) > total /\ total > 0 => ShrunkTo(segs, total) \in Seq(Segments(last))
  BY <1>2, <1>4, ShrunkIn
<1>6. CompiledArrivals(points)
      = [segs  |-> IF ArrivalsOf(segs) > total /\ total > 0
                   THEN ShrunkTo(segs, total) ELSE segs,
         total |-> total]
  BY DEF CompiledArrivals, segs, total
<1> QED
  BY <1>2, <1>4, <1>5, <1>6

LEMMA ScaledIn ==
    ASSUME NEW last \in Int, NEW segs \in Seq(Segments(last)),
           NEW share \in Int, NEW total \in Int
    PROVE  ScaledTo(segs, share, total) \in Seq(Segments(last))
<1>1. CASE segs = <<>> \/ total <= 0 \/ share <= 0
  <2>1. <<>> \in Seq(Segments(last))
    OBVIOUS
  <2> QED BY <1>1, <2>1 DEF ScaledTo
<1>2. CASE ~(segs = <<>> \/ total <= 0 \/ share <= 0)
  <2> DEFINE scaled  == [i \in DOMAIN segs |-> Rounded(segs[i].arrivals * share, total)]
             before  == Sum(Front(scaled))
             amounts == [scaled EXCEPT ![Len(segs)] = AtLeast(share - before, 0)]
             n       == Len(segs)
  <2>1. n \in Nat /\ n >= 1 /\ DOMAIN segs = 1..n /\ total \in Nat \ {0}
    BY <1>2
  <2>2. \A i \in 1..n : scaled[i] \in Int
    <3> SUFFICES ASSUME NEW i \in 1..n PROVE scaled[i] \in Int
      OBVIOUS
    <3>1. segs[i] \in Segments(last)
      OBVIOUS
    <3>2. segs[i].arrivals \in Int
      BY <3>1 DEF Segments
    <3>3. segs[i].arrivals * share \in Int
      BY <3>2
    <3>4. Rounded(segs[i].arrivals * share, total) \in Int
      BY <2>1, <3>3, RoundedInt
    <3> QED BY <2>1, <3>4
  <2>3. scaled \in [1..n -> Int] /\ scaled \in Seq(Int) /\ Len(scaled) = n
    BY <2>1, <2>2
  <2> HIDE DEF scaled
  <2>4. before \in Int
    <3>1. Front(scaled) \in [1..(n - 1) -> Int]
      <4> DEFINE m == n - 1
      <4>1. m \in Nat /\ m = Len(scaled) - 1
        BY <2>1, <2>3
      <4>2. SubSeq(scaled, 1, m) \in Seq(Int) /\ Len(SubSeq(scaled, 1, m)) = m
        <5> HIDE DEF n
        <5> QED BY <2>1, <2>3
      <4>3. Front(scaled) = SubSeq(scaled, 1, m)
        BY <4>1 DEF Front
      <4> HIDE DEF m
      <4>4. Front(scaled) \in [1..m -> Int]
        <5>1. \A s \in Seq(Int) : s \in [1..Len(s) -> Int]
          OBVIOUS
        <5> QED BY <4>2, <4>3, <5>1
      <4> QED BY <4>4 DEF m
    <3>2. IsFiniteSet(1..(n - 1))
      BY <2>1, FS_Interval
    <3> QED BY <3>1, <3>2, SumType
  <2> HIDE DEF before
  <2>5. AtLeast(share - before, 0) \in Int
    BY <2>4 DEF AtLeast
  <2>6. \A i \in 1..n : amounts[i] \in Int
    BY <2>3, <2>5
  <2>7. ScaledTo(segs, share, total) = Resized(segs, amounts)
    BY <1>2 DEF ScaledTo, scaled, before
  <2> HIDE DEF amounts
  <2>8. Resized(segs, amounts) \in Seq(Segments(last))
    BY <2>6, ResizedIn
  <2> QED BY <2>7, <2>8
<1> QED
  BY <1>1, <1>2

-----------------------------------------------------------------------------
(* How many journeys segments start.                                           *)

Journeys == [delay : Nat, ramp : Nat, arrivals : Nat]

\* Segments that start something.
Busy == {s \in Journeys : s.arrivals > 0}

LEMMA ArrivalsAre ==
    ASSUME NEW segs \in Seq(Journeys), NEW n \in Nat, n = Len(segs)
    PROVE  /\ [i \in 1..n |-> segs[i].arrivals] \in [1..n -> Nat]
           /\ ArrivalsOf(segs) = Sum([i \in 1..n |-> segs[i].arrivals])
           /\ ArrivalsOf(segs) \in Nat
           /\ segs = <<>> => ArrivalsOf(segs) = 0
<1> DEFINE f == [i \in 1..n |-> segs[i].arrivals]
<1>1. \A i \in 1..n : segs[i].arrivals \in Nat
  <2> SUFFICES ASSUME NEW i \in 1..n PROVE segs[i].arrivals \in Nat
    OBVIOUS
  <2>1. segs[i] \in Journeys
    OBVIOUS
  <2> QED BY <2>1 DEF Journeys
<1>2. f \in [1..n -> Nat] /\ f \in [1..n -> Int] /\ \A i \in 1..n : f[i] \in Nat
  BY <1>1
<1>3. ArrivalsOf(segs) = Sum(f)
  <2>1. DOMAIN segs = 1..n
    OBVIOUS
  <2> QED BY <2>1 DEF ArrivalsOf
<1>4. segs = <<>> => DOMAIN f = {}
  OBVIOUS
<1>5. IsFiniteSet(1..n)
  BY FS_Interval
<1> HIDE DEF f
<1>6. Sum(f) \in Nat
  BY <1>2, <1>5, SumType
<1>7. segs = <<>> => Sum(f) = 0
  BY <1>4, SumEmpty
<1> QED
  BY <1>2, <1>3, <1>6, <1>7 DEF f

LEMMA BusyStarts ==
    ASSUME NEW segs \in Seq(Journeys)
    PROVE  /\ Started(segs) \in Seq(Busy) /\ Started(segs) \in Seq(Journeys)
           /\ ArrivalsOf(Started(segs)) = ArrivalsOf(segs)
           /\ Len(Started(segs)) <= Len(segs)
<1>1. \A d \in Journeys : d.arrivals \in Nat
  BY DEF Journeys
<1>2. ArrivalsOf(Started(segs)) = ArrivalsOf(segs) /\ Len(Started(segs)) <= Len(segs)
  BY <1>1, StartedSum
<1>3. Started(segs) \in Seq(Busy)
  BY StartedIn DEF Busy
<1>4. Busy \subseteq Journeys
  BY DEF Busy
<1>5. \A s \in Seq(Busy) : s \in Seq(Journeys)
  BY <1>4
<1> QED
  BY <1>2, <1>3, <1>5

LEMMA ResizedSum ==
    ASSUME NEW segs \in Seq(Journeys), NEW n \in Nat, n = Len(segs),
           NEW amounts \in [1..n -> Nat]
    PROVE  /\ Resized(segs, amounts) \in Seq(Busy) /\ Resized(segs, amounts) \in Seq(Journeys)
           /\ ArrivalsOf(Resized(segs, amounts)) = Sum(amounts)
           /\ Len(Resized(segs, amounts)) <= n
<1> DEFINE Of(i) == [segs[i] EXCEPT !.arrivals = amounts[i]]
           e     == [i \in DOMAIN segs |-> Of(i)]
<1>1. ASSUME NEW i \in 1..n PROVE Of(i) \in Journeys /\ Of(i).arrivals = amounts[i]
  <2>1. PICK s \in Journeys, a \in Nat : s = segs[i] /\ a = amounts[i]
    OBVIOUS
  <2>2. [s EXCEPT !.arrivals = a] \in Journeys /\ [s EXCEPT !.arrivals = a].arrivals = a
    BY DEF Journeys
  <2> QED BY <2>1, <2>2
<1> HIDE DEF Of
<1>2. DOMAIN segs = 1..n
  OBVIOUS
<1>3. e \in Seq(Journeys) /\ Len(e) = n /\ \A i \in 1..n : e[i].arrivals = amounts[i]
  BY <1>1, <1>2
<1>4. Resized(segs, amounts) = Started(e)
  BY DEF Resized, Of
<1> HIDE DEF e
<1>5. [i \in 1..n |-> e[i].arrivals] = amounts
  BY <1>3
<1>6. ArrivalsOf(e) = Sum(amounts)
  BY <1>3, <1>5, ArrivalsAre
<1> QED
  BY <1>3, <1>4, <1>6, BusyStarts

\* Twice the area under a curve, slice by slice.
Area(curve) ==
    Sum([i \in 1..(Len(curve) - 1) |->
            (curve[i].rate + curve[i + 1].rate) * (curve[i + 1].t - curve[i].t)])

\* The slices start no fewer journeys than the area says, and half a journey
\* more for each slice at most.
LEMMA SlicesSum ==
    ASSUME NEW curve, CleanCurve(curve), NEW k \in Nat, Len(curve) = k + 1
    PROVE  /\ Slices(curve) \in Seq(Busy) /\ Slices(curve) \in Seq(Journeys)
           /\ Len(Slices(curve)) <= k
           /\ Area(curve) \in Nat /\ ArrivalsOf(Slices(curve)) \in Nat
           /\ Area(curve) <= 2 * ArrivalsOf(Slices(curve))
           /\ 2 * ArrivalsOf(Slices(curve)) <= Area(curve) + k
<1> DEFINE Slice(a, b) == [delay    |-> a.t,
                           ramp     |-> b.t - a.t,
                           arrivals |-> Rounded((a.rate + b.rate) * (b.t - a.t), 2)]
           e == [i \in 1..k |-> Slice(curve[i], curve[i + 1])]
           x == [i \in 1..k |->
                   (curve[i].rate + curve[i + 1].rate) * (curve[i + 1].t - curve[i].t)]
           h == [i \in 1..k |-> Rounded(x[i], 2)]
<1>0. Len(curve) - 1 = k
  OBVIOUS
<1>1. ASSUME NEW i \in 1..k
      PROVE  /\ x[i] \in Nat /\ h[i] \in Nat
             /\ x[i] <= 2 * h[i] /\ 2 * h[i] <= x[i] + 1
             /\ e[i] \in Journeys /\ e[i].arrivals = h[i]
  <2>1. i \in 1..Len(curve) /\ i + 1 \in 1..Len(curve) /\ DOMAIN curve = 1..Len(curve)
    BY DEF CleanCurve
  <2>2. PICK a, b : a = curve[i] /\ b = curve[i + 1]
    OBVIOUS
  <2>3. a \in CleanedPoint /\ b \in CleanedPoint /\ a.t <= b.t
    BY <2>1, <2>2 DEF CleanCurve, Increasing
  <2>4. a.t \in Nat /\ b.t \in Nat /\ a.rate \in Nat /\ b.rate \in Nat
    BY <2>3 DEF CleanedPoint
  <2>5. PICK y \in Nat : y = (a.rate + b.rate) * (b.t - a.t)
    <3>1. a.rate + b.rate \in Nat /\ b.t - a.t \in Nat
      BY <2>3, <2>4
    <3>2. \A p, q \in Nat : p * q \in Nat
      OBVIOUS
    <3> QED BY <3>1, <3>2
  <2>6. PICK r \in Nat : /\ r = Rounded(y, 2)
                         /\ 2 * y <= 2 * (2 * r) + 2 /\ 2 * (2 * r) <= 2 * y + 2
    <3>1. 2 \in Nat \ {0}
      OBVIOUS
    <3> QED BY <3>1, RoundedIs
  <2>7. y <= 2 * r /\ 2 * r <= y + 1
    <3>1. r = (2 * y + 2) \div 4
      BY <2>6 DEF Rounded
    <3>2. r = (y + 1) \div 2
      BY <3>1
    <3> QED BY <3>2
  <2>8. x[i] = y /\ h[i] = r /\ e[i] = [delay |-> a.t, ramp |-> b.t - a.t, arrivals |-> r]
    BY <2>2, <2>5, <2>6
  <2>9. [delay |-> a.t, ramp |-> b.t - a.t, arrivals |-> r] \in Journeys
    BY <2>3, <2>4 DEF Journeys
  <2> QED BY <2>7, <2>8, <2>9
<1>2. e \in Seq(Journeys) /\ Len(e) = k
  <2>1. \A i \in 1..k : Slice(curve[i], curve[i + 1]) \in Journeys
    BY <1>1
  <2> HIDE DEF Slice
  <2> QED BY <2>1
<1>3. Slices(curve) = Started(e)
  BY <1>0 DEF Slices
<1>4. Area(curve) = Sum(x)
  BY <1>0 DEF Area
<1> HIDE DEF x, e
<1>5. x \in [1..k -> Nat] /\ h \in [1..k -> Nat]
  <2>1. DOMAIN x = 1..k /\ x = [i \in 1..k |-> x[i]]
    BY DEF x
  <2> QED BY <1>1, <2>1
<1> HIDE DEF h
<1>6. [i \in 1..k |-> e[i].arrivals] = h
  <2>1. h = [i \in 1..k |-> h[i]]
    BY <1>5
  <2>2. \A i \in 1..k : e[i].arrivals = h[i]
    BY <1>1
  <2> QED BY <2>1, <2>2
<1>7. ArrivalsOf(e) = Sum(h)
  BY <1>2, <1>6, ArrivalsAre
<1>8. x \in [1..k -> Int] /\ h \in [1..k -> Int]
  BY <1>5
<1>9. Sum(x) \in Nat /\ Sum(h) \in Nat
  <2>1. IsFiniteSet(1..k)
    BY FS_Interval
  <2>2. (\A i \in 1..k : x[i] \in Nat) /\ \A i \in 1..k : h[i] \in Nat
    BY <1>1
  <2> QED BY <1>8, <2>1, <2>2, SumType
<1>z. 0 \in Int /\ 1 \in Int /\ 2 \in Int
  OBVIOUS
<1>10. Sum(x) <= 2 * Sum(h)
  <2>1. \A i \in 1..k : 1 * x[i] <= 2 * h[i] + 0
    BY <1>1
  <2>2. 1 * Sum(x) <= 2 * Sum(h) + k * 0
    BY <1>8, <1>z, <2>1, SumBound, ZenonT(60)
  <2> QED BY <1>9, <2>2
<1>11. 2 * Sum(h) <= Sum(x) + k
  <2>1. \A i \in 1..k : 2 * h[i] <= 1 * x[i] + 1
    BY <1>1
  <2>2. 2 * Sum(h) <= 1 * Sum(x) + k * 1
    BY <1>8, <1>z, <2>1, SumBound, ZenonT(60)
  <2> QED BY <1>9, <2>2
<1>12. ArrivalsOf(Slices(curve)) = Sum(h) /\ Len(Slices(curve)) <= k
       /\ Slices(curve) \in Seq(Busy) /\ Slices(curve) \in Seq(Journeys)
  BY <1>2, <1>3, <1>7, BusyStarts
<1> QED
  BY <1>4, <1>9, <1>10, <1>11, <1>12

\* Segments that are cut to a limit start no fewer journeys than the limit, half
\* a journey more for each at most, and no more than before.
LEMMA ShrunkSum ==
    ASSUME NEW segs \in Seq(Journeys), NEW total \in Nat \ {0}, ArrivalsOf(segs) > total
    PROVE  LET all == ArrivalsOf(ShrunkTo(segs, total))
           IN  /\ ShrunkTo(segs, total) \in Seq(Busy) /\ ShrunkTo(segs, total) \in Seq(Journeys)
               /\ Len(ShrunkTo(segs, total)) <= Len(segs)
               /\ total <= all /\ all <= ArrivalsOf(segs)
               /\ 2 * all <= 2 * total + Len(segs)
<1>1. PICK n \in Nat, a \in Nat \ {0}, f \in [1..Len(segs) -> Nat] :
         /\ n = Len(segs) /\ DOMAIN segs = 1..n /\ a = ArrivalsOf(segs) /\ a > total
         /\ f = [i \in 1..n |-> segs[i].arrivals]
         /\ f \in [1..n -> Nat] /\ f \in [1..n -> Int] /\ a = Sum(f)
  <2>1. PICK n \in Nat : n = Len(segs) /\ DOMAIN segs = 1..n
    OBVIOUS
  <2>2. PICK f : f = [i \in 1..n |-> segs[i].arrivals]
    OBVIOUS
  <2>3. f \in [1..n -> Nat] /\ ArrivalsOf(segs) = Sum(f) /\ ArrivalsOf(segs) \in Nat
    BY <2>1, <2>2, ArrivalsAre
  <2>4. f \in [1..n -> Int]
    BY <2>3
  <2>5. ArrivalsOf(segs) \in Nat \ {0}
    BY <2>3
  <2> QED BY <2>1, <2>2, <2>3, <2>4, <2>5
<1> DEFINE scaled == [i \in DOMAIN segs |->
                        Rounded(segs[i].arrivals * total, ArrivalsOf(segs))]
           drift  == total - Sum(scaled)
           open   == {i \in DOMAIN segs : scaled[i] > 0 \/ drift > 0}
           fixed  == [i \in DOMAIN segs |->
                        IF i = Max(open) THEN AtLeast(scaled[i] + drift, 0)
                                         ELSE scaled[i]]
           amounts == IF drift = 0 THEN scaled ELSE fixed
<1>2. ASSUME NEW i \in 1..n
      PROVE  /\ scaled[i] \in Nat /\ f[i] \in Nat /\ scaled[i] <= f[i]
             /\ (2 * a) * scaled[i] <= (2 * total) * f[i] + a
  <2>1. PICK x \in Nat : x = f[i]
    BY <1>1
  <2>2. x * total \in Nat
    OBVIOUS
  <2>3. scaled[i] = Rounded(x * total, a)
    BY <1>1, <2>1
  <2>4. PICK r \in Nat : /\ r = scaled[i]
                         /\ 2 * (a * r) <= 2 * (x * total) + a
    BY <2>2, <2>3, RoundedIs
  <2>5. (2 * a) * r = 2 * (a * r) /\ (2 * total) * x = 2 * (x * total)
    OBVIOUS
  <2>6. (2 * a) * r <= (2 * total) * x + a
    BY <2>4, <2>5
  <2>7. r <= x
    <3>1. x * total <= x * a
      <4>0. a > total
        BY <1>1
      <4>1. PICK d \in Nat : d = a - total
        BY <4>0
      <4>2. x * (total + d) = x * total + x * d /\ x * d \in Nat
        OBVIOUS
      <4>3. a = total + d
        BY <4>1
      <4>4. PICK p \in Nat, q \in Nat : p = x * total /\ q = x * d
        BY <2>2, <4>2
      <4>5. x * a = p + q
        BY <4>2, <4>3, <4>4
      <4> QED BY <4>4, <4>5
    <3>2. SUFFICES ASSUME r > x PROVE FALSE
      OBVIOUS
    <3>3. PICK d \in Nat : d = r - (x + 1)
      BY <3>2
    <3>4. a * (x + 1 + d) = x * a + a + a * d /\ a * d \in Nat /\ x * a \in Nat
      OBVIOUS
    <3>5. r = x + 1 + d
      BY <3>3
    <3>6. PICK p \in Nat, q \in Nat, y \in Nat : p = x * total /\ q = a * d /\ y = x * a
      BY <2>2, <3>4
    <3>7. a * r = y + a + q
      BY <3>4, <3>5, <3>6
    <3>8. 2 * (y + a + q) <= 2 * p + a /\ p <= y
      BY <2>4, <3>1, <3>6, <3>7
    <3> QED BY <3>8
  <2> HIDE DEF scaled
  <2> QED BY <2>1, <2>4, <2>6, <2>7
<1>3. scaled \in [1..n -> Nat] /\ scaled \in [1..n -> Int]
  <2>1. DOMAIN scaled = 1..n /\ scaled = [i \in 1..n |-> scaled[i]]
    BY <1>1
  <2> HIDE DEF scaled
  <2> QED BY <1>2, <2>1
<1>4. ShrunkTo(segs, total) = Resized(segs, amounts)
  BY DEF ShrunkTo
<1> HIDE DEF scaled
<1>5. PICK s \in Nat : s = Sum(scaled)
  <2>1. IsFiniteSet(1..n)
    BY FS_Interval
  <2>2. \A i \in 1..n : scaled[i] \in Nat
    BY <1>2
  <2> QED BY <1>3, <2>1, <2>2, SumType
<1>6. s <= a
  <2>1. \A i \in 1..n : 1 * scaled[i] <= 1 * f[i] + 0
    BY <1>2
  <2>2. 0 \in Int /\ 1 \in Int
    OBVIOUS
  <2>3. 1 * Sum(scaled) <= 1 * Sum(f) + n * 0
    BY <1>1, <1>3, <2>1, <2>2, SumBound, ZenonT(60)
  <2> QED BY <1>1, <1>5, <2>3
<1>7. 2 * s <= 2 * total + n
  <2>1. PICK c \in Int, t \in Int : c = 2 * a /\ t = 2 * total
    OBVIOUS
  <2>2. \A i \in 1..n : c * scaled[i] <= t * f[i] + a
    BY <1>2, <2>1
  <2>3. a \in Int
    OBVIOUS
  <2>4. c * Sum(scaled) <= t * Sum(f) + n * a
    BY <1>1, <1>3, <2>2, <2>3, SumBound, ZenonT(60)
  <2>5. (2 * a) * s <= (2 * total) * a + n * a
    BY <1>1, <1>5, <2>1, <2>4
  <2>6. (2 * a) * s = (2 * s) * a /\ (2 * total) * a + n * a = (2 * total + n) * a
    OBVIOUS
  <2>7. (2 * s) * a <= (2 * total + n) * a
    BY <2>5, <2>6
  <2>8. 2 * s \in Int /\ 2 * total + n \in Int
    OBVIOUS
  <2> QED BY <2>7, <2>8, Scaled
<1>8. CASE drift = 0
  <2>1. amounts = scaled /\ s = total
    BY <1>5, <1>8
  <2> HIDE DEF amounts
  <2>2. ArrivalsOf(Resized(segs, amounts)) = s
    BY <1>1, <1>3, <1>5, <2>1, ResizedSum
  <2>3. /\ Resized(segs, amounts) \in Seq(Busy) /\ Resized(segs, amounts) \in Seq(Journeys)
        /\ Len(Resized(segs, amounts)) <= n
    BY <1>1, <1>3, <2>1, ResizedSum
  <2> QED BY <1>1, <1>4, <1>6, <1>7, <2>1, <2>2, <2>3
<1>9. CASE drift # 0
  <2>0. amounts = fixed /\ drift = total - s
    BY <1>5, <1>9
  <2> DEFINE m == Max(open)
  <2>1. \A i \in 1..n : fixed[i] = IF i = m THEN AtLeast(scaled[i] + drift, 0) ELSE scaled[i]
    BY <1>1
  <2>2. DOMAIN fixed = 1..n /\ fixed = [i \in 1..n |-> fixed[i]]
    BY <1>1
  <2>3. drift > 0 => m \in 1..n
    <3> SUFFICES ASSUME drift > 0 PROVE m \in 1..n
      OBVIOUS
    <3>1. open = 1..n
      BY <1>1
    <3>2. n # 0
      <4>1. n = 0 => segs = <<>>
        BY <1>1
      <4> QED BY <1>1, <4>1, ArrivalsAre
    <3> DEFINE S == 1..n
    <3>3. IsFiniteSet(S) /\ S \subseteq Int /\ S # {}
      <4>1. IsFiniteSet(S)
        BY FS_Interval
      <4>2. 1 \in S /\ S \subseteq Int
        BY <3>2
      <4> HIDE DEF S
      <4> QED BY <4>1, <4>2
    <3> HIDE DEF S
    <3>4. Max(S) \in S
      BY <3>3, MaxIs
    <3> QED BY <3>1, <3>4 DEF S
  <2> HIDE DEF fixed, m
  <2>4. PICK g : g = fixed
    OBVIOUS
  <2>5. PICK d \in Int : d = drift /\ d = total - s /\ d # 0
    BY <1>9, <2>0
  <2>6. \A i \in 1..n : g[i] = IF i = m THEN AtLeast(scaled[i] + d, 0) ELSE scaled[i]
    BY <2>1, <2>4, <2>5
  <2>7. g \in [1..n -> Nat] /\ g \in [1..n -> Int]
    <3>1. \A i \in 1..n : g[i] \in Nat
      <4> SUFFICES ASSUME NEW i \in 1..n PROVE g[i] \in Nat
        OBVIOUS
      <4>1. PICK x \in Nat : x = scaled[i]
        BY <1>2
      <4>2. g[i] = IF i = m THEN AtLeast(x + d, 0) ELSE x
        BY <2>6, <4>1
      <4>3. AtLeast(x + d, 0) \in Nat
        BY DEF AtLeast
      <4> QED BY <4>2, <4>3
    <3> QED BY <2>2, <2>4, <3>1
  <2>8. m \in 1..n => Sum(g) = s + (g[m] - scaled[m])
    <3>1. \A i \in 1..n : i # m => g[i] = scaled[i]
      BY <2>6
    <3>2. n \in Nat /\ scaled \in [1..n -> Int]
      BY <1>3
    <3>3. PICK h, k : h = scaled /\ k = m
      OBVIOUS
    <3>4. k \in 1..n => Sum(g) = Sum(h) + (g[k] - h[k])
      BY <2>7, <3>1, <3>2, <3>3, SumChange
    <3> QED BY <1>5, <3>3, <3>4
  <2>9. m \notin 1..n => Sum(g) = s
    <3> SUFFICES ASSUME m \notin 1..n PROVE Sum(g) = s
      OBVIOUS
    <3>1. g = scaled
      BY <1>3, <2>6, <2>7
    <3> QED BY <1>5, <3>1
  <2>10. PICK r \in Int : r = Sum(g) /\ total <= r /\ r <= AtLeast(s, total)
                          /\ (d > 0 => r = total) /\ (d < 0 => r <= s)
    <3>1. CASE m \in 1..n
      <4>1. scaled[m] \in Nat /\ g[m] = AtLeast(scaled[m] + d, 0)
        BY <1>2, <2>6, <3>1
      <4> QED BY <2>5, <2>8, <3>1, <4>1 DEF AtLeast
    <3>2. CASE m \notin 1..n
      BY <2>3, <2>5, <2>9, <3>2 DEF AtLeast
    <3> QED BY <3>1, <3>2
  <2>11. r <= a /\ 2 * r <= 2 * total + n
    BY <1>1, <1>6, <1>7, <2>5, <2>10
  <2>12. ArrivalsOf(Resized(segs, g)) = r
    BY <1>1, <2>7, <2>10, ResizedSum
  <2>13. /\ Resized(segs, g) \in Seq(Busy) /\ Resized(segs, g) \in Seq(Journeys)
         /\ Len(Resized(segs, g)) <= n
    BY <1>1, <2>7, ResizedSum
  <2>14. ShrunkTo(segs, total) = Resized(segs, g)
    BY <1>4, <2>0, <2>4
  <2> QED BY <1>1, <2>10, <2>11, <2>12, <2>13, <2>14
<1> QED
  BY <1>8, <1>9

\* Each busy segment starts something.
LEMMA BusySum ==
    ASSUME NEW segs \in Seq(Busy)
    PROVE  Len(segs) <= ArrivalsOf(segs)
<1>1. PICK n \in Nat : n = Len(segs)
  OBVIOUS
<1>2. segs \in Seq(Journeys) /\ \A i \in 1..n : segs[i].arrivals > 0
  <2>1. Busy \subseteq Journeys /\ \A s \in Busy : s.arrivals > 0
    BY DEF Busy
  <2>2. \A i \in 1..n : segs[i] \in Busy
    BY <1>1
  <2> QED BY <2>1, <2>2
<1>3. PICK f : f = [i \in 1..n |-> segs[i].arrivals]
  OBVIOUS
<1>4. f \in [1..n -> Nat] /\ ArrivalsOf(segs) = Sum(f) /\ ArrivalsOf(segs) \in Nat
  BY <1>1, <1>2, <1>3, ArrivalsAre
<1>5. f \in [1..n -> Int]
  BY <1>4
<1>6. \A i \in 1..n : 0 * f[i] <= 1 * f[i] + -1
  <2> SUFFICES ASSUME NEW i \in 1..n PROVE 0 * f[i] <= 1 * f[i] + -1
    OBVIOUS
  <2>1. f[i] > 0 /\ f[i] \in Nat
    BY <1>2, <1>3, <1>4
  <2> QED BY <2>1
<1>7. 0 \in Int /\ 1 \in Int /\ -1 \in Int
  OBVIOUS
<1>8. 0 * Sum(f) <= 1 * Sum(f) + n * (-1)
  BY <1>5, <1>6, <1>7, SumBound, ZenonT(60)
<1> QED
  BY <1>1, <1>4, <1>8

\* Twice what a curve asks for, up to the limit, and one journey at least.
DoubleAsked(curve) == AtLeast(AtMost(Area(curve), 2 * MaxArrivals), 2)

\* What a curve is compiled to: no fewer journeys than are asked for, and half a
\* journey more for each of its slices at most.
LEMMA CompiledSum ==
    ASSUME NEW curve, CleanCurve(curve), NEW k \in Nat, Len(curve) = k + 1
    PROVE  LET compiled == CompiledArrivals(curve)
               total    == AtLeast(compiled.total, 1)
           IN  /\ compiled.segs \in Seq(Journeys) /\ compiled.segs \in Seq(Busy)
               /\ Len(compiled.segs) <= k
               /\ Len(compiled.segs) <= ArrivalsOf(compiled.segs)
               /\ compiled.total \in Nat
               /\ compiled.total <= ArrivalsOf(compiled.segs)
               /\ DoubleAsked(curve) \in Nat
               /\ DoubleAsked(curve) <= 2 * total
               /\ 2 * total <= DoubleAsked(curve) + k
               /\ 2 * ArrivalsOf(compiled.segs) <= DoubleAsked(curve) + k
<1> DEFINE segs  == Slices(curve)
           total == ClampArrivals(ArrivalsOf(segs))
           cut   == IF ArrivalsOf(segs) > total /\ total > 0 THEN ShrunkTo(segs, total)
                                                             ELSE segs
<1>1. CompiledArrivals(curve) = [segs |-> cut, total |-> total]
  BY CleanStays DEF CompiledArrivals
<1>2. PICK a \in Nat, area \in Nat : /\ a = ArrivalsOf(segs) /\ area = Area(curve)
                                     /\ area <= 2 * a /\ 2 * a <= area + k
                                     /\ segs \in Seq(Journeys) /\ segs \in Seq(Busy) /\ Len(segs) <= k
  BY SlicesSum
<1>3. a = 0 => area = 0
  BY <1>2
<1> HIDE DEF segs
<1>m. MaxArrivals \in Nat \ {0}
  BY LoadShapeAssumption
<1>4. PICK t \in Nat : /\ t = total /\ t <= a /\ t <= MaxArrivals
                       /\ (a > 0 => t > 0) /\ (t < a => t = MaxArrivals)
  <2>1. ArrivalsOf(segs) = a
    BY <1>2
  <2>2. total = IF a <= 0 THEN 0 ELSE IF a > MaxArrivals THEN MaxArrivals ELSE a
    BY <2>1 DEF ClampArrivals, AtMost
  <2> HIDE DEF total
  <2> QED BY <1>m, <2>2
<1> HIDE DEF total
<1>5. PICK f \in Nat : /\ f = ArrivalsOf(cut) /\ t <= f /\ f <= a /\ 2 * f <= 2 * t + k
                       /\ cut \in Seq(Journeys) /\ cut \in Seq(Busy) /\ Len(cut) <= k
  <2>0. Len(segs) \in Nat
    BY <1>2
  <2>1. CASE a > t /\ t > 0
    <3>1. t \in Nat \ {0} /\ ArrivalsOf(segs) > t /\ cut = ShrunkTo(segs, t)
      BY <1>2, <1>4, <2>1
    <3>2. PICK s : s = ShrunkTo(segs, t)
      OBVIOUS
    <3>3. /\ s \in Seq(Journeys) /\ s \in Seq(Busy) /\ Len(s) <= Len(segs)
          /\ t <= ArrivalsOf(s) /\ ArrivalsOf(s) <= a
          /\ 2 * ArrivalsOf(s) <= 2 * t + Len(segs)
      BY <1>2, <3>1, <3>2, ShrunkSum
    <3>4. ArrivalsOf(s) \in Nat /\ Len(s) \in Nat
      <4>1. PICK n \in Nat : n = Len(s)
        BY <3>3
      <4> QED BY <3>3, <4>1, ArrivalsAre
    <3>5. cut = s
      BY <3>1, <3>2
    <3>6. PICK f \in Nat, l \in Nat, o \in Nat :
             f = ArrivalsOf(s) /\ l = Len(s) /\ o = Len(segs)
      BY <2>0, <3>4
    <3>7. t <= f /\ f <= a /\ 2 * f <= 2 * t + k /\ l <= k
      <4>1. t <= f /\ f <= a /\ 2 * f <= 2 * t + o /\ l <= o
        BY <3>3, <3>6
      <4>2. o <= k
        BY <1>2, <3>6
      <4> QED BY <4>1, <4>2
    <3> HIDE DEF cut
    <3> QED BY <3>3, <3>5, <3>6, <3>7
  <2>2. CASE ~(a > t /\ t > 0)
    <3>1. cut = segs
      BY <1>2, <1>4, <2>2
    <3>2. a = t
      BY <1>4, <2>2
    <3> HIDE DEF cut
    <3> QED BY <1>2, <3>1, <3>2
  <2> QED BY <2>1, <2>2
<1> HIDE DEF cut
<1>6. PICK m \in Nat \ {0} : m = MaxArrivals
  BY LoadShapeAssumption
<1>7. PICK asked \in Nat : /\ asked = DoubleAsked(curve)
                           /\ asked = AtLeast(AtMost(area, 2 * m), 2)
  BY <1>2, <1>6 DEF DoubleAsked, AtLeast, AtMost
<1>8. /\ asked <= 2 * AtLeast(t, 1)
      /\ 2 * AtLeast(t, 1) <= asked + k
      /\ 2 * f <= asked + k
  <2>1. area <= 2 * a /\ 2 * a <= area + k /\ (a = 0 => area = 0)
    BY <1>2, <1>3
  <2>2. t <= a /\ t <= m /\ (a > 0 => t > 0) /\ (t < a => t = m)
    BY <1>4, <1>6
  <2>3. t <= f /\ f <= a /\ 2 * f <= 2 * t + k
    BY <1>5
  <2>4. /\ area >= 2 * m => asked = 2 * m
        /\ area < 2 * m => asked >= area /\ asked >= 2 /\ (area >= 2 => asked = area)
                           /\ (area < 2 => asked = 2)
    BY <1>7 DEF AtLeast, AtMost
  <2>5. PICK u \in Nat : u = AtLeast(t, 1) /\ (t = 0 => u = 1) /\ (t > 0 => u = t)
    BY DEF AtLeast
  <2>6. asked <= 2 * u
    BY <2>1, <2>2, <2>4, <2>5
  <2>7. 2 * u <= asked + k
    BY <2>1, <2>2, <2>4, <2>5
  <2>8. 2 * f <= asked + k
    BY <2>1, <2>2, <2>3, <2>4
  <2> QED BY <2>5, <2>6, <2>7, <2>8
<1>9. /\ CompiledArrivals(curve).segs = cut /\ CompiledArrivals(curve).total = t
  BY <1>1, <1>4
<1>10. Len(cut) \in Nat
  BY <1>5
<1>11. Len(cut) <= f
  BY <1>5, BusySum
<1> QED
  BY <1>4, <1>5, <1>7, <1>8, <1>9, <1>10, <1>11

\* A worker starts no fewer journeys than its share, and no more than its part
\* of the segments calls for, but for half a journey for each segment except the
\* last.
LEMMA ShareSum ==
    ASSUME NEW segs \in Seq(Journeys), NEW share \in Nat \ {0}, NEW total \in Nat \ {0},
           NEW n \in Nat \ {0}, n = Len(segs), total <= ArrivalsOf(segs)
    PROVE  LET all == ArrivalsOf(ScaledTo(segs, share, total))
           IN  /\ ScaledTo(segs, share, total) \in Seq(Busy)
               /\ all \in Nat /\ share <= all
               /\ (2 * total) * all <= (2 * ArrivalsOf(segs)) * share + (n - 1) * total
<1>1. PICK a \in Nat, f \in [1..n -> Nat] :
         /\ DOMAIN segs = 1..n /\ a = ArrivalsOf(segs) /\ total <= a
         /\ f = [i \in 1..n |-> segs[i].arrivals]
         /\ f \in [1..n -> Nat] /\ f \in [1..n -> Int] /\ a = Sum(f)
  <2>1. PICK f : f = [i \in 1..n |-> segs[i].arrivals]
    OBVIOUS
  <2>2. f \in [1..n -> Nat] /\ ArrivalsOf(segs) = Sum(f) /\ ArrivalsOf(segs) \in Nat
    BY <2>1, ArrivalsAre
  <2>3. f \in [1..n -> Int]
    BY <2>2
  <2>4. DOMAIN segs = 1..n
    OBVIOUS
  <2> QED BY <2>1, <2>2, <2>3, <2>4
<1> DEFINE scaled  == [i \in DOMAIN segs |-> Rounded(segs[i].arrivals * share, total)]
           before  == Sum(Front(scaled))
           amounts == [scaled EXCEPT ![Len(segs)] = AtLeast(share - before, 0)]
           m       == n - 1
<1>2. ScaledTo(segs, share, total) = Resized(segs, amounts)
  <2>1. segs # <<>> /\ ~(total <= 0) /\ ~(share <= 0)
    OBVIOUS
  <2> QED BY <2>1 DEF ScaledTo
<1>3. ASSUME NEW i \in 1..n
      PROVE  /\ scaled[i] \in Nat /\ f[i] \in Nat
             /\ (2 * total) * scaled[i] <= (2 * share) * f[i] + total
  <2>1. PICK x \in Nat : x = f[i]
    BY <1>1
  <2>2. x * share \in Nat
    OBVIOUS
  <2>3. scaled[i] = Rounded(x * share, total)
    BY <1>1, <2>1
  <2>4. PICK r \in Nat : /\ r = scaled[i]
                         /\ 2 * (total * r) <= 2 * (x * share) + total
    BY <2>2, <2>3, RoundedIs
  <2>5. (2 * total) * r = 2 * (total * r) /\ (2 * share) * x = 2 * (x * share)
    OBVIOUS
  <2>6. (2 * total) * r <= (2 * share) * x + total
    BY <2>4, <2>5
  <2> HIDE DEF scaled
  <2> QED BY <2>1, <2>4, <2>6
<1>4. scaled \in [1..n -> Nat] /\ scaled \in Seq(Nat) /\ Len(scaled) = n
  <2>1. DOMAIN scaled = 1..n /\ scaled = [i \in 1..n |-> scaled[i]]
    BY <1>1
  <2> HIDE DEF scaled
  <2>2. scaled \in [1..n -> Nat]
    BY <1>3, <2>1
  <2> QED BY <2>2
<1> HIDE DEF scaled
<1>5. m \in Nat /\ m + 1 = n /\ 1..m \subseteq 1..n
  OBVIOUS
<1> HIDE DEF m
<1> DEFINE g == [i \in 1..m |-> scaled[i]]
           e == [i \in 1..m |-> f[i]]
<1>6. Front(scaled) = g
  <2>1. Front(scaled) = SubSeq(scaled, 1, m)
    BY <1>4, <1>5 DEF Front, m
  <2>2. SubSeq(scaled, 1, m) = [i \in 1..m |-> scaled[i]]
    BY <1>4, <1>5
  <2> QED BY <2>1, <2>2
<1>7. g \in [1..m -> Int] /\ e \in [1..m -> Int] /\ \A i \in 1..m : g[i] \in Nat /\ e[i] \in Nat
  BY <1>3, <1>5
<1>8. PICK b \in Nat, ae \in Nat : b = Sum(g) /\ ae = Sum(e)
  <2>1. IsFiniteSet(1..m)
    BY <1>5, FS_Interval
  <2> HIDE DEF g, e
  <2> QED BY <1>7, <2>1, SumType
<1>9. before = b
  BY <1>6, <1>8
<1> HIDE DEF before
<1>10. a = f[n] + ae /\ f[n] \in Nat
  <2>1. f \in [1..(m + 1) -> Int]
    BY <1>1, <1>5
  <2>2. Sum(f) = f[m + 1] + Sum([i \in 1..m |-> f[i]])
    BY <1>5, <2>1, SumLast
  <2>3. n \in 1..n
    OBVIOUS
  <2> QED BY <1>1, <1>3, <1>5, <1>8, <2>2, <2>3
<1>11. (2 * total) * b <= (2 * share) * ae + m * total
  <2>1. PICK c \in Int, s \in Int : c = 2 * total /\ s = 2 * share
    OBVIOUS
  <2>2. \A i \in 1..m : c * g[i] <= s * e[i] + total
    BY <1>3, <1>5, <2>1
  <2>3. total \in Int
    OBVIOUS
  <2> HIDE DEF g, e
  <2>4. c * Sum(g) <= s * Sum(e) + m * total
    BY <1>5, <1>7, <2>2, <2>3, SumBound, ZenonT(60)
  <2> QED BY <1>8, <2>1, <2>4
<1>12. amounts \in [1..n -> Nat] /\ amounts \in [1..n -> Int]
       /\ Sum(amounts) = AtLeast(share - b, 0) + b
  <2>1. PICK h : h = amounts
    OBVIOUS
  <2>2. AtLeast(share - b, 0) \in Nat /\ n \in 1..n
    BY DEF AtLeast
  <2>3. h \in [1..n -> Nat] /\ h[n] = AtLeast(share - b, 0) /\ \A i \in 1..n : i # n => h[i] = scaled[i]
    BY <1>4, <1>9, <2>1, <2>2
  <2>4. h \in [1..(m + 1) -> Int]
    BY <1>5, <2>3
  <2>5. [i \in 1..m |-> h[i]] = g
    BY <1>5, <2>3
  <2> HIDE DEF amounts, g
  <2>6. Sum(h) = h[m + 1] + Sum([i \in 1..m |-> h[i]])
    BY <1>5, <2>4, SumLast
  <2> QED BY <1>5, <1>8, <2>1, <2>3, <2>4, <2>5, <2>6
<1>13. PICK p \in Nat : p = ArrivalsOf(ScaledTo(segs, share, total)) /\ p = Sum(amounts)
  <2>1. AtLeast(share - b, 0) + b \in Nat
    BY DEF AtLeast
  <2> HIDE DEF amounts
  <2>2. ArrivalsOf(Resized(segs, amounts)) = Sum(amounts)
    BY <1>12, ResizedSum
  <2> QED BY <1>2, <1>12, <2>1, <2>2
<1>14. p = IF share >= b THEN share ELSE b
  BY <1>12, <1>13 DEF AtLeast
<1>15. (2 * total) * p <= (2 * a) * share + m * total
  <2>0. \A x, y \in Nat : x * y \in Nat
    OBVIOUS
  <2>1. PICK mt \in Nat : mt = m * total
    BY <1>5
  <2>2. CASE p = share
    <3>0. total <= a
      BY <1>1
    <3>1. PICK d \in Nat : d = a - total
      BY <3>0
    <3>2. a = total + d
      BY <3>1
    <3>3. (2 * (total + d)) * share = (2 * total) * share + 2 * (d * share)
      OBVIOUS
    <3>4. PICK x \in Nat, y \in Nat : x = (2 * total) * share /\ y = d * share
      BY <2>0
    <3>5. (2 * a) * share = x + 2 * y
      BY <3>2, <3>3, <3>4, Zenon
    <3>6. (2 * total) * p = x /\ m * total = mt
      BY <2>1, <2>2, <3>4, Zenon
    <3>7. x <= (x + 2 * y) + mt
      OBVIOUS
    <3> QED BY <3>5, <3>6, <3>7, Zenon
  <2>3. CASE p = b
    <3>1. PICK z \in Nat : z = f[n] /\ a = z + ae
      BY <1>10
    <3>2. (2 * (z + ae)) * share = (2 * share) * ae + 2 * (z * share)
      OBVIOUS
    <3>3. PICK x \in Nat, y \in Nat, w \in Nat :
             x = (2 * share) * ae /\ y = z * share /\ w = (2 * total) * b
      BY <2>0
    <3>4. (2 * a) * share = x + 2 * y /\ w <= x + mt
      BY <1>11, <2>1, <3>1, <3>2, <3>3
    <3>5. (2 * total) * p = w
      BY <2>3, <3>3
    <3>6. w <= x + 2 * y + mt
      BY <3>4
    <3> QED BY <2>1, <3>4, <3>5, <3>6
  <2> QED BY <1>14, <2>2, <2>3
<1>16. share <= p
  BY <1>14
<1> HIDE DEF amounts
<1>17. ScaledTo(segs, share, total) \in Seq(Busy)
  BY <1>2, <1>12, ResizedSum
<1> QED
  BY <1>1, <1>13, <1>15, <1>16, <1>17 DEF m

\* How many journeys each worker starts.
Portions(segs, total, workers) ==
    [w \in 1..workers |-> ArrivalsOf(ScaledTo(segs, SplitAcross(total, workers)[w], total))]

\* All workers together start no fewer journeys than they share, and little more
\* than the segments do.
LEMMA FleetSum ==
    ASSUME NEW segs \in Seq(Journeys), NEW n \in Nat \ {0}, n = Len(segs),
           NEW total \in Nat \ {0}, total <= ArrivalsOf(segs),
           NEW workers \in Nat \ {0}, workers <= total,
           NEW p, p = Portions(segs, total, workers)
    PROVE  /\ Sum(p) \in Nat /\ total <= Sum(p)
           /\ 2 * Sum(p) <= 2 * ArrivalsOf(segs) + (n - 1) * workers
<1>1. PICK a \in Nat : a = ArrivalsOf(segs)
  BY ArrivalsAre
<1>2. PICK share : share = SplitAcross(total, workers)
  OBVIOUS
<1>3. share \in [1..workers -> Nat] /\ share \in [1..workers -> Int] /\ Sum(share) = total
  <2>1. share \in [1..workers -> Nat] /\ Sum(share) = total
    BY <1>2, SharesAddUp
  <2> QED BY <2>1
<1>s. p = [w \in 1..workers |-> ArrivalsOf(ScaledTo(segs, share[w], total))]
  BY <1>2 DEF Portions
<1>4. ASSUME NEW w \in 1..workers
      PROVE  /\ p[w] \in Nat /\ share[w] <= p[w]
             /\ (2 * total) * p[w] <= (2 * a) * share[w] + (n - 1) * total
  <2>1. share[w] \in Nat \ {0}
    <3>1. share[w] >= 1
      BY <1>2, SharesAreEven
    <3> QED BY <1>3, <3>1
  <2>2. PICK s \in Nat \ {0} : s = share[w]
    BY <2>1
  <2>3. p[w] = ArrivalsOf(ScaledTo(segs, s, total))
    BY <1>s, <2>2
  <2>4. /\ ArrivalsOf(ScaledTo(segs, s, total)) \in Nat
        /\ s <= ArrivalsOf(ScaledTo(segs, s, total))
        /\ (2 * total) * ArrivalsOf(ScaledTo(segs, s, total)) <= (2 * a) * s + (n - 1) * total
    BY <1>1, ShareSum
  <2> QED BY <2>2, <2>3, <2>4
<1>5. p \in [1..workers -> Int] /\ \A w \in 1..workers : p[w] \in Nat
  <2>1. p = [w \in 1..workers |-> p[w]]
    BY <1>s
  <2> QED BY <1>4, <2>1
<1>6. PICK all \in Nat : all = Sum(p)
  <2>1. IsFiniteSet(1..workers)
    BY FS_Interval
  <2> QED BY <1>5, <2>1, SumType
<1>7. total <= all
  <2>1. \A w \in 1..workers : 1 * share[w] <= 1 * p[w] + 0
    <3> SUFFICES ASSUME NEW w \in 1..workers PROVE 1 * share[w] <= 1 * p[w] + 0
      OBVIOUS
    <3>1. share[w] \in Nat /\ p[w] \in Nat /\ share[w] <= p[w]
      BY <1>3, <1>4
    <3> QED BY <3>1
  <2>2. 0 \in Int /\ 1 \in Int /\ workers \in Nat
    OBVIOUS
  <2>3. 1 * Sum(share) <= 1 * Sum(p) + workers * 0
    BY <1>3, <1>5, <2>1, <2>2, SumBound, ZenonT(60)
  <2> QED BY <1>3, <1>6, <2>3
<1>8. 2 * all <= 2 * a + (n - 1) * workers
  <2>1. PICK c \in Int, d \in Int, b \in Int : c = 2 * total /\ d = 2 * a /\ b = (n - 1) * total
    OBVIOUS
  <2>2. \A w \in 1..workers : c * p[w] <= d * share[w] + b
    BY <1>4, <2>1
  <2>3. workers \in Nat
    OBVIOUS
  <2>4. c * Sum(p) <= d * Sum(share) + workers * b
    BY <1>3, <1>5, <2>2, <2>3, SumBound, ZenonT(60)
  <2>5. (2 * total) * all <= (2 * a) * total + workers * ((n - 1) * total)
    BY <1>3, <1>6, <2>1, <2>4
  <2>6. (2 * total) * all = (2 * all) * total
    OBVIOUS
  <2>7. PICK m \in Nat : m = n - 1
    OBVIOUS
  <2>8. (2 * a) * total + workers * (m * total) = (2 * a + m * workers) * total
    OBVIOUS
  <2>9. (2 * all) * total <= (2 * a + m * workers) * total
    BY <2>5, <2>6, <2>7, <2>8
  <2>10. 2 * all \in Int /\ 2 * a + m * workers \in Int
    OBVIOUS
  <2>11. 2 * all <= 2 * a + m * workers
    BY <2>9, <2>10, Scaled
  <2> QED BY <2>7, <2>11
<1> QED
  BY <1>1, <1>6, <1>7, <1>8

LEMMA OpenModelSum ==
    \A segs, duration : ArrivalsOf(OpenModel(segs, duration)) = ArrivalsOf(segs)
<1> SUFFICES ASSUME NEW segs, NEW duration
             PROVE  ArrivalsOf(OpenModel(segs, duration)) = ArrivalsOf(segs)
  OBVIOUS
<1> DEFINE m == OpenModel(segs, duration)
<1>1. [i \in DOMAIN m |-> m[i].arrivals] = [i \in DOMAIN segs |-> segs[i].arrivals]
  BY DEF OpenModel
<1> QED
  BY <1>1 DEF ArrivalsOf

LEMMA LoopingSum ==
    ASSUME NEW threads \in Int, NEW end
    PROVE  ArrivalsOf(Looping(threads, end)) = threads
<1>1. PICK g : g = [arrivals |-> threads, start |-> 0, end |-> end]
  OBVIOUS
<1>2. [i \in DOMAIN <<g>> |-> <<g>>[i].arrivals] = <<g.arrivals>> /\ g.arrivals = threads
  BY <1>1
<1>3. ArrivalsOf(<<g>>) = threads
  BY <1>2, SumOne DEF ArrivalsOf
<1> QED
  BY <1>1, <1>3 DEF Looping

-----------------------------------------------------------------------------
(* What dispatch computes.                                                     *)

\* c has the times of s, apart from those before the start and a point there.
SameTimes(c, s) ==
    /\ c \in Seq(CleanedPoint)
    /\ c = <<>> <=> s = <<>>
    /\ \A p \in ToSet(c) : p.t = 0 \/ \E q \in ToSet(s) : p.t = q.t
    /\ \A q \in ToSet(s) : q.t <= 0 \/ \E p \in ToSet(c) : p.t = q.t

LEMMA NormalAgain ==
    ASSUME NEW s \in Seq(AskedPoint), NEW c, SameTimes(c, s)
    PROVE  SameTimes(NormalizedCurve(c), s)
<1>1. c \in Seq(AskedPoint)
  BY CleanedAsked DEF SameTimes
<1> DEFINE d == NormalizedCurve(c)
<1>2. /\ d \in Seq(CleanedPoint)
      /\ d = <<>> <=> c = <<>>
      /\ \A p \in ToSet(d) : p.t = 0 \/ \E q \in ToSet(c) : p.t = q.t
      /\ \A q \in ToSet(c) : q.t <= 0 \/ \E p \in ToSet(d) : p.t = q.t
  BY <1>1, NormalIs
<1> HIDE DEF d
<1>3. \A p \in ToSet(d) : p.t = 0 \/ \E q \in ToSet(s) : p.t = q.t
  BY <1>2 DEF SameTimes
<1>4. \A q \in ToSet(s) : q.t <= 0 \/ \E p \in ToSet(d) : p.t = q.t
  BY <1>2 DEF SameTimes
<1> QED
  BY <1>2, <1>3, <1>4 DEF SameTimes, d

LastTime(s) == Max({0} \cup {p.t : p \in ToSet(s)})

\* The times of a cleaned curve end when those of the curve do.
LEMMA LastKept ==
    ASSUME NEW s \in Seq(AskedPoint), NEW c, SameTimes(c, s)
    PROVE  LastTime(c) = LastTime(s) /\ LastTime(s) \in Nat
<1>1. c \in Seq(AskedPoint)
  BY CleanedAsked DEF SameTimes
<1> DEFINE m == LastTime(c)
           n == LastTime(s)
<1>2. /\ m \in Nat
      /\ \A p \in ToSet(c) : p.t <= m
      /\ m # 0 => \E p \in ToSet(c) : p.t = m
  BY <1>1, LastIs DEF LastTime
<1>3. /\ n \in Nat
      /\ \A p \in ToSet(s) : p.t <= n
      /\ n # 0 => \E p \in ToSet(s) : p.t = n
  BY LastIs DEF LastTime
<1> HIDE DEF m, n
<1>4. m <= n
  <2>1. CASE m = 0
    BY <1>3, <2>1
  <2>2. CASE m # 0
    <3>1. PICK p \in ToSet(c) : p.t = m
      BY <1>2, <2>2
    <3>2. PICK q \in ToSet(s) : p.t = q.t
      BY <2>2, <3>1 DEF SameTimes
    <3> QED BY <1>3, <3>1, <3>2
  <2> QED BY <2>1, <2>2
<1>5. n <= m
  <2>1. CASE n = 0
    BY <1>2, <2>1
  <2>2. CASE n # 0
    <3>1. PICK q \in ToSet(s) : q.t = n
      BY <1>3, <2>2
    <3>2. PICK p \in ToSet(c) : p.t = q.t
      BY <1>3, <2>2, <3>1 DEF SameTimes
    <3> QED BY <1>2, <3>1, <3>2
  <2> QED BY <2>1, <2>2
<1>6. m = n
  BY <1>2, <1>3, <1>4, <1>5
<1> QED
  BY <1>3, <1>6 DEF m, n

LEMMA AppliedIs ==
    ASSUME NEW s \in Seq(AskedPoint), NEW c, SameTimes(c, s)
    PROVE  /\ AppliedCurve(c, "arrivals").scale \in Nat \ {0}
           /\ AppliedCurve(c, "arrivals").segs \in Seq(Segments(LastTime(s)))
           /\ \A mode : /\ AppliedCurve(c, mode).duration
                              = IF LastTime(s) = 0 THEN 60 ELSE LastTime(s)
                        /\ mode # "arrivals" => AppliedCurve(c, mode).segs = <<>>
<1> DEFINE d        == NormalizedCurve(c)
           peak     == Max({0} \cup {p.vus : p \in ToSet(d)})
           compiled == CompiledArrivals(d)
           last     == LastTime(s)
           duration == IF last = 0 THEN 60 ELSE last
<1>1. SameTimes(d, s) /\ d \in Seq(AskedPoint)
  <2>1. SameTimes(d, s)
    BY NormalAgain
  <2> QED BY <2>1, CleanedAsked DEF SameTimes
<1> HIDE DEF d
<1>2. LastTime(d) = last /\ last \in Nat
  BY <1>1, LastKept
<1>3. \A p \in ToSet(d) : p.t <= last
  BY <1>1, <1>2, LastIs DEF LastTime
<1> HIDE DEF last, peak
<1>4. compiled.segs \in Seq(Segments(last)) /\ compiled.total \in Nat
  BY <1>1, <1>2, <1>3, CompiledIs
<1> HIDE DEF compiled
<1>5. \A mode : AppliedCurve(c, mode)
         = IF mode = "arrivals"
           THEN [scale |-> AtLeast(compiled.total, 1), duration |-> duration,
                 segs |-> compiled.segs]
           ELSE [scale |-> AtLeast(peak, 1), duration |-> duration, segs |-> <<>>]
  <2>1. Max({0} \cup {p.t : p \in ToSet(d)}) = last
    BY <1>2 DEF LastTime
  <2> QED BY <2>1 DEF AppliedCurve, d, peak, compiled
<1>6. AtLeast(compiled.total, 1) \in Nat \ {0}
  BY <1>4 DEF AtLeast
<1> HIDE DEF duration
<1>7. \A mode : AppliedCurve(c, mode).duration = duration
  BY <1>5
<1>8. \A mode : mode # "arrivals" => AppliedCurve(c, mode).segs = <<>>
  BY <1>5
<1>9. AppliedCurve(c, "arrivals").scale = AtLeast(compiled.total, 1)
      /\ AppliedCurve(c, "arrivals").segs = compiled.segs
  BY <1>5
<1> QED
  BY <1>4, <1>6, <1>7, <1>8, <1>9 DEF duration, last

\* The stored curve and duration.
StoredAsSaved ==
    saved = [curve    |-> NormalizedCurve(NormalizedCurve(job.curve)),
             duration |-> ClampDuration(IF job.duration <= 0 THEN 60
                                                             ELSE job.duration)]

LEMMA JobIs ==
    ASSUME job \in Jobs
    PROVE  /\ job.mode \in {"vus", "arrivals"} /\ job.raw \in BOOLEAN
           /\ job.curve \in Seq(AskedPoint)
           /\ job.ask \in Int /\ job.duration \in Int /\ job.want \in Int
           /\ job.rows \in Nat /\ job.samples \in Nat
BY MeasuredRunAssumption DEF AskedPoint

LEMMA StoredIs ==
    ASSUME job \in Jobs, StoredAsSaved
    PROVE  /\ saved.duration \in Nat /\ 1 <= saved.duration /\ saved.duration <= MaxDuration
           /\ SameTimes(NormalizedCurve(saved.curve), job.curve)
           /\ NormalizedCurve(saved.curve) = NormalizedCurve(job.curve)
<1>1. job.curve \in Seq(AskedPoint) /\ job.duration \in Int
  BY JobIs
<1>2. SameTimes(NormalizedCurve(job.curve), job.curve)
  BY <1>1, NormalIs DEF SameTimes
<1>3. SameTimes(NormalizedCurve(NormalizedCurve(job.curve)), job.curve)
  BY <1>1, <1>2, NormalAgain
<1>4. SameTimes(NormalizedCurve(NormalizedCurve(NormalizedCurve(job.curve))), job.curve)
  BY <1>1, <1>3, NormalAgain
<1>5. saved.curve = NormalizedCurve(NormalizedCurve(job.curve))
      /\ saved.duration = ClampDuration(IF job.duration <= 0 THEN 60 ELSE job.duration)
  BY DEF StoredAsSaved
<1>6. (IF job.duration <= 0 THEN 60 ELSE job.duration) \in Nat \ {0}
  BY <1>1
<1>7. MaxDuration \in Nat \ {0}
  BY LoadShapeAssumption
<1>8. \A n \in Nat \ {0} : ClampDuration(n) \in Nat /\ 1 <= ClampDuration(n)
                           /\ ClampDuration(n) <= MaxDuration
  BY <1>7 DEF ClampDuration, AtMost
<1>9. NormalizedCurve(NormalizedCurve(job.curve)) = NormalizedCurve(job.curve)
  BY <1>1, NormalClean, CleanStays
<1> QED
  BY <1>4, <1>5, <1>6, <1>8, <1>9

\* The shape of what dispatch decides, as far as the theorems need it: the
\* workers, their groups and rows, and the wait.
Decided(workers, total, segs, duration) ==
    /\ fleet = [w \in 1..workers |->
                  [groups |-> GroupsOf(SplitAcross(total, workers)[w], total, workers = 1,
                                       job.mode = "arrivals", segs, duration),
                   rows   |-> RowsOf(w, workers, job.rows, job.raw)]]
    /\ workers \in Nat \ {0} /\ total \in Nat /\ workers <= total
    /\ job.mode = "vus" => total = ClampVUs(job.ask)
    /\ job.curve = <<>> => segs = <<>>
    /\ job.mode = "arrivals" /\ job.curve # <<>> =>
          /\ segs  = CompiledArrivals(NormalizedCurve(job.curve)).segs
          /\ total = AtLeast(CompiledArrivals(NormalizedCurve(job.curve)).total, 1)
    /\ segs \in Seq(Segments(LastTime(job.curve)))
    /\ duration = ClampDuration(IF job.curve = <<>> THEN saved.duration
                                ELSE IF LastTime(job.curve) = 0 THEN 60
                                ELSE LastTime(job.curve))
    /\ wait = WaitFor(duration)

LEMMA DispatchDecides ==
    ASSUME job \in Jobs, StoredAsSaved, Dispatch
    PROVE  \E workers, total, segs, duration :
              /\ Decided(workers, total, segs, duration)'
              /\ box' = [w \in 1..workers |-> "none"]
              /\ jtl' = [w \in 1..workers |-> <<>>]
              /\ read' = [w \in 1..workers |-> 0]
<1> DEFINE arrivals == job.mode = "arrivals"
           curve    == NormalizedCurve(saved.curve)
           applied  == AppliedCurve(curve, job.mode)
           asked    == IF arrivals THEN AtLeast(ClampArrivals(job.ask), 1)
                                   ELSE ClampVUs(job.ask)
           scale    == IF arrivals /\ curve # <<>> THEN applied.scale ELSE asked
           segs     == IF curve # <<>> THEN applied.segs ELSE <<>>
           duration == ClampDuration(IF curve # <<>> THEN applied.duration
                                                     ELSE saved.duration)
           workers  == AtMost(AtMost(WorkerCount(job.want), asked), scale)
           last     == LastTime(job.curve)
<1>1. /\ job.mode \in {"vus", "arrivals"} /\ job.ask \in Int /\ job.want \in Int
      /\ job.curve \in Seq(AskedPoint)
  BY JobIs
<1>2. SameTimes(curve, job.curve)
  BY StoredIs
<1>3. curve = <<>> <=> job.curve = <<>>
  BY <1>2 DEF SameTimes
<1> HIDE DEF curve
<1>4. /\ AppliedCurve(curve, "arrivals").scale \in Nat \ {0}
      /\ AppliedCurve(curve, "arrivals").segs \in Seq(Segments(last))
      /\ \A mode : /\ AppliedCurve(curve, mode).duration = IF last = 0 THEN 60 ELSE last
                   /\ mode # "arrivals" => AppliedCurve(curve, mode).segs = <<>>
  BY <1>1, <1>2, AppliedIs
<1> HIDE DEF last
<1>5. asked \in Nat \ {0}
  BY <1>1, LoadShapeAssumption DEF AtLeast, AtMost, ClampArrivals, ClampVUs
<1>6. scale \in Nat \ {0} /\ (~arrivals => scale = asked)
  BY <1>4, <1>5
<1>7. segs \in Seq(Segments(last))
  <2>1. <<>> \in Seq(Segments(last))
    OBVIOUS
  <2> QED BY <1>1, <1>4, <2>1
<1>e. job.curve = <<>> => segs = <<>>
  BY <1>3
<1>8. duration = ClampDuration(IF job.curve = <<>> THEN saved.duration
                               ELSE IF last = 0 THEN 60 ELSE last)
  BY <1>3, <1>4
<1> HIDE DEF asked, applied
<1>9. workers \in Nat \ {0} /\ workers <= scale
  <2>1. WorkerCount(job.want) \in Nat \ {0}
    BY <1>1, LoadShapeAssumption DEF WorkerCount, AtMost
  <2> QED BY <1>5, <1>6, <2>1 DEF AtMost
<1>10. ~arrivals => scale = ClampVUs(job.ask)
  BY <1>6 DEF asked
<1>11. /\ fleet' = [w \in 1..workers |->
                      [groups |-> GroupsOf(SplitAcross(scale, workers)[w], scale, workers = 1,
                                           arrivals, segs, duration),
                       rows   |-> RowsOf(w, workers, job.rows, job.raw)]]
       /\ wait' = WaitFor(duration)
       /\ box' = [w \in 1..workers |-> "none"]
       /\ jtl' = [w \in 1..workers |-> <<>>]
       /\ read' = [w \in 1..workers |-> 0]
       /\ job' = job /\ saved' = saved
  BY DEF Dispatch, curve, asked, applied
<1> HIDE DEF workers, scale, segs, duration, arrivals
<1>12. job.mode = "vus" => scale = ClampVUs(job.ask)
  BY <1>10 DEF arrivals
<1>c. job.mode = "arrivals" /\ job.curve # <<>> =>
         /\ segs  = CompiledArrivals(NormalizedCurve(job.curve)).segs
         /\ scale = AtLeast(CompiledArrivals(NormalizedCurve(job.curve)).total, 1)
  <2> SUFFICES ASSUME job.mode = "arrivals", job.curve # <<>>
               PROVE  /\ segs  = CompiledArrivals(NormalizedCurve(job.curve)).segs
                      /\ scale = AtLeast(CompiledArrivals(NormalizedCurve(job.curve)).total, 1)
    OBVIOUS
  <2>1. curve = NormalizedCurve(job.curve)
    BY StoredIs DEF curve
  <2>2. NormalizedCurve(curve) = curve
    BY <1>1, <2>1, NormalClean, CleanStays
  <2>3. /\ AppliedCurve(curve, "arrivals").segs = CompiledArrivals(curve).segs
        /\ AppliedCurve(curve, "arrivals").scale = AtLeast(CompiledArrivals(curve).total, 1)
    BY <2>2 DEF AppliedCurve
  <2>4. segs = AppliedCurve(curve, "arrivals").segs /\ scale = AppliedCurve(curve, "arrivals").scale
    BY <1>3 DEF segs, scale, applied, arrivals
  <2> QED BY <2>1, <2>3, <2>4
<1>13. PICK W, T, G, D : W = workers /\ T = scale /\ G = segs /\ D = duration
  OBVIOUS
<1>14. fleet' = [w \in 1..W |->
                   [groups |-> GroupsOf(SplitAcross(T, W)[w], T, W = 1,
                                        job.mode = "arrivals", G, D)',
                    rows   |-> RowsOf(w, W, job.rows, job.raw)']]
  <2>1. \A w : GroupsOf(SplitAcross(T, W)[w], T, W = 1, job.mode = "arrivals", G, D)'
              = GroupsOf(SplitAcross(T, W)[w], T, W = 1, job.mode = "arrivals", G, D)
    BY <1>11 DEF GroupsOf
  <2>2. \A w : RowsOf(w, W, job.rows, job.raw)' = RowsOf(w, W, job.rows, job.raw)
    BY <1>11
  <2> QED
    BY <1>11, <1>13, <2>1, <2>2 DEF arrivals
<1>15. LastTime(job.curve)' = LastTime(job.curve)
  BY <1>11
<1>16. Decided(W, T, G, D)'
  BY <1>6, <1>7, <1>8, <1>9, <1>11, <1>12, <1>c, <1>e, <1>13, <1>14, <1>15 DEF Decided, last
<1> QED
  BY <1>11, <1>13, <1>16

LEMMA DecidedFleet ==
    ASSUME NEW workers, NEW total, NEW segs, NEW duration,
           Decided(workers, total, segs, duration)
    PROVE  /\ Len(fleet) = workers /\ Fleet = 1..workers
           /\ \A w \in Fleet :
                 /\ fleet[w].groups = GroupsOf(SplitAcross(total, workers)[w], total, workers = 1,
                                               job.mode = "arrivals", segs, duration)
                 /\ fleet[w].rows = RowsOf(w, workers, job.rows, job.raw)
<1> DEFINE Groups(w) == GroupsOf(SplitAcross(total, workers)[w], total, workers = 1,
                                 job.mode = "arrivals", segs, duration)
           Rows(w)   == RowsOf(w, workers, job.rows, job.raw)
<1>1. fleet = [w \in 1..workers |-> [groups |-> Groups(w), rows |-> Rows(w)]]
      /\ workers \in Nat
  BY DEF Decided
<1> HIDE DEF Groups, Rows
<1>2. Len(fleet) = workers
  BY <1>1
<1>3. \A w \in 1..workers : fleet[w].groups = Groups(w) /\ fleet[w].rows = Rows(w)
  BY <1>1
<1>4. Fleet = 1..workers
  BY <1>2 DEF Fleet
<1>5. /\ Len(fleet) = workers /\ Fleet = 1..workers
      /\ \A w \in Fleet : fleet[w].groups = Groups(w) /\ fleet[w].rows = Rows(w)
  BY <1>2, <1>3, <1>4
<1> QED
  BY <1>5 DEF Groups, Rows

LEMMA DecidedRows ==
    ASSUME job \in Jobs, NEW workers, NEW total, NEW segs, NEW duration,
           Decided(workers, total, segs, duration)
    PROVE  RowsUsedOnce
<1>1. /\ workers \in Nat \ {0} /\ Len(fleet) = workers /\ Fleet = 1..workers
      /\ \A w \in 1..workers : fleet[w].rows = RowsOf(w, workers, job.rows, job.raw)
  <2>1. /\ Len(fleet) = workers /\ Fleet = 1..workers
        /\ \A w \in Fleet : fleet[w].rows = RowsOf(w, workers, job.rows, job.raw)
    BY DecidedFleet
  <2>2. workers \in Nat \ {0}
    BY DEF Decided
  <2> QED BY <2>1, <2>2
<1>2. job.rows \in Nat /\ job.raw \in BOOLEAN
  BY JobIs
<1>3. PICK n \in Nat, raw \in BOOLEAN : n = job.rows /\ raw = job.raw
  BY <1>2
<1> DEFINE Users(r) == {w \in Fleet : r \in fleet[w].rows}
<1>4. \A r \in 1..n : Users(r) = {w \in 1..workers : r \in RowsOf(w, workers, n, raw)}
  BY <1>1, <1>3
<1>5. CASE raw \/ n < workers
  <2>1. \A r \in 1..n, w \in 1..workers : r \in RowsOf(w, workers, n, raw)
    BY <1>1, <1>5 DEF RowsOf
  <2>2. \A r \in 1..n : Users(r) = Fleet
    BY <1>1, <1>4, <2>1
  <2> HIDE DEF Users
  <2>3. job.raw \/ job.rows < Len(fleet)
    BY <1>1, <1>3, <1>5
  <2>4. \A r \in 1..job.rows : Users(r) = Fleet
    BY <1>3, <2>2
  <2> QED BY <2>3, <2>4 DEF RowsUsedOnce, Users
<1>6. CASE ~(raw \/ n < workers)
  <2>0. raw = FALSE /\ n >= workers
    BY <1>1, <1>6
  <2>1. ASSUME NEW r \in 1..n PROVE Cardinality(Users(r)) = 1
    <3>1. CASE workers = 1
      <4>1. Users(r) = {1}
        <5>1. \A w \in 1..workers : r \in RowsOf(w, workers, n, raw)
          BY <3>1 DEF RowsOf
        <5> QED BY <1>4, <3>1, <5>1
      <4> HIDE DEF Users
      <4> QED BY <4>1, FS_Singleton
    <3>2. CASE workers > 1
      <4>1. PICK w \in 1..workers : \A v \in 1..workers :
                r \in RowsOf(v, workers, n, FALSE) <=> v = w
        BY <1>1, <2>0, <3>2, RowsAreDealt
      <4>2. Users(r) = {w}
        <5>1. \A v \in 1..workers : v \in Users(r) <=> v = w
          BY <1>4, <2>0, <4>1
        <5>2. Users(r) \subseteq 1..workers
          BY <1>4
        <5> HIDE DEF Users
        <5> QED BY <5>1, <5>2
      <4> HIDE DEF Users
      <4> QED BY <4>2, FS_Singleton
    <3> QED BY <1>1, <3>1, <3>2
  <2>2. ASSUME NEW v \in Fleet, NEW w \in Fleet
        PROVE  Cardinality(fleet[v].rows) - Cardinality(fleet[w].rows) <= 1
    <3>0. /\ v \in 1..workers /\ fleet[v].rows = RowsOf(v, workers, n, raw)
          /\ w \in 1..workers /\ fleet[w].rows = RowsOf(w, workers, n, raw)
      BY <1>1, <1>3
    <3>1. CASE workers = 1
      <4>1. v = w
        BY <3>0, <3>1
      <4>2. RowsOf(v, workers, n, raw) \subseteq 1..n
        BY DEF RowsOf
      <4>3. IsFiniteSet(1..n)
        BY FS_Interval
      <4>4. Cardinality(RowsOf(v, workers, n, raw)) \in Nat
        BY <4>2, <4>3, FS_Subset, FS_CardinalityType
      <4> QED BY <3>0, <4>1, <4>4
    <3>2. CASE workers > 1
      BY <1>1, <2>0, <3>0, <3>2, DealtEvenly
    <3> QED BY <1>1, <3>1, <3>2
  <2>3. ~(job.raw \/ job.rows < Len(fleet))
    BY <1>1, <1>3, <1>6
  <2>4. \A r \in 1..job.rows : Cardinality(Users(r)) = 1
    <3> HIDE DEF Users
    <3> QED BY <1>3, <2>1
  <2> HIDE DEF Users
  <2> QED BY <2>2, <2>3, <2>4 DEF RowsUsedOnce, Users
<1> QED
  BY <1>5, <1>6

LEMMA DecidedThreads ==
    ASSUME job \in Jobs, NEW workers, NEW total, NEW segs, NEW duration,
           Decided(workers, total, segs, duration), job.mode = "vus"
    PROVE  FleetLoadAddsUp
<1>1. /\ workers \in Nat \ {0} /\ Fleet = 1..workers
      /\ \A w \in 1..workers : fleet[w].groups
            = GroupsOf(SplitAcross(total, workers)[w], total, workers = 1,
                       job.mode = "arrivals", segs, duration)
      /\ total \in Nat /\ workers <= total /\ total = ClampVUs(job.ask)
  BY DecidedFleet DEF Decided
<1> DEFINE share == SplitAcross(total, workers)
<1>2. share \in [1..workers -> Nat] /\ Sum(share) = total
  BY <1>1, SharesAddUp
<1> HIDE DEF share
<1>3. ASSUME NEW w \in 1..workers PROVE Planned(w) = share[w]
  <2>1. job.mode # "arrivals"
    OBVIOUS
  <2>2. fleet[w].groups = <<[arrivals |-> share[w], start |-> 0, end |-> saved.duration]>>
    BY <1>1, <2>1 DEF GroupsOf, Looping, share
  <2>3. PICK g : g = [arrivals |-> share[w], start |-> 0, end |-> saved.duration]
    OBVIOUS
  <2>4. g.arrivals = share[w] /\ share[w] \in Int
    BY <1>2, <2>3
  <2>5. [i \in DOMAIN <<g>> |-> <<g>>[i].arrivals] = <<g.arrivals>>
    OBVIOUS
  <2>6. ArrivalsOf(<<g>>) = Sum(<<g.arrivals>>)
    BY <2>5 DEF ArrivalsOf
  <2> QED BY <2>2, <2>3, <2>4, <2>6, SumOne DEF Planned
<1>4. [w \in Fleet |-> Planned(w)] = share
  <2>1. share = [w \in 1..workers |-> share[w]]
    BY <1>2
  <2> QED BY <1>1, <1>3, <2>1
<1>5. InAll = total
  BY <1>2, <1>4 DEF InAll
<1> QED
  BY <1>1, <1>5 DEF FleetLoadAddsUp

LEMMA DecidedJourneys ==
    ASSUME job \in Jobs, NEW workers, NEW total, NEW segs, NEW duration,
           Decided(workers, total, segs, duration), job.mode = "arrivals", job.curve # <<>>
    PROVE  FleetLoadAddsUp
<1>1. /\ workers \in Nat \ {0} /\ Len(fleet) = workers /\ Fleet = 1..workers
      /\ \A w \in 1..workers : fleet[w].groups
            = GroupsOf(SplitAcross(total, workers)[w], total, workers = 1, TRUE, segs, duration)
      /\ workers <= total
  <2>1. job.mode = "arrivals" <=> TRUE
    OBVIOUS
  <2>2. /\ Len(fleet) = workers /\ Fleet = 1..workers
        /\ \A w \in Fleet : fleet[w].groups
              = GroupsOf(SplitAcross(total, workers)[w], total, workers = 1,
                         job.mode = "arrivals", segs, duration)
    BY DecidedFleet
  <2>3. \A w : GroupsOf(SplitAcross(total, workers)[w], total, workers = 1,
                        job.mode = "arrivals", segs, duration)
               = GroupsOf(SplitAcross(total, workers)[w], total, workers = 1, TRUE, segs, duration)
    BY <2>1 DEF GroupsOf
  <2>4. workers \in Nat \ {0} /\ workers <= total
    BY DEF Decided
  <2> QED BY <2>2, <2>3, <2>4
<1> DEFINE c == NormalizedCurve(job.curve)
<1>2. CleanCurve(c) /\ c \in Seq(CleanedPoint) /\ c # <<>>
  <2>1. job.curve \in Seq(AskedPoint)
    BY JobIs
  <2> QED BY <2>1, NormalClean, NormalIs
<1>3. segs = CompiledArrivals(c).segs /\ total = AtLeast(CompiledArrivals(c).total, 1)
  BY DEF Decided
<1>4. DoubleArea(job.curve) = Area(c)
  BY DEF DoubleArea, Area
<1> HIDE DEF c
<1>5. PICK k \in Nat : Len(c) = k + 1 /\ Len(c) - 1 = k
  <2>1. Len(c) - 1 \in Nat
    BY <1>2
  <2> QED BY <1>2, <2>1
<1>6. PICK asked \in Nat : asked = DoubleAsked(c) /\ asked <= 2 * total /\ 2 * total <= asked + k
  BY <1>2, <1>3, <1>5, CompiledSum
<1>7. PICK n \in Nat, f \in Nat, t \in Nat :
         /\ n = Len(segs) /\ f = ArrivalsOf(segs) /\ t = CompiledArrivals(c).total
         /\ segs \in Seq(Journeys) /\ n <= k /\ n <= f /\ t <= f
         /\ 2 * f <= asked + k /\ (segs # <<>> => n # 0) /\ (segs = <<>> => f = 0)
  <2>1. /\ segs \in Seq(Journeys)
        /\ Len(segs) <= k /\ Len(segs) <= ArrivalsOf(segs)
        /\ CompiledArrivals(c).total \in Nat /\ CompiledArrivals(c).total <= ArrivalsOf(segs)
        /\ 2 * ArrivalsOf(segs) <= asked + k
    BY <1>2, <1>3, <1>5, <1>6, CompiledSum
  <2>2. PICK n \in Nat : n = Len(segs) /\ (segs # <<>> => n # 0)
    BY <2>1
  <2>3. ArrivalsOf(segs) \in Nat /\ (segs = <<>> => ArrivalsOf(segs) = 0)
    BY <2>1, <2>2, ArrivalsAre
  <2> QED BY <2>1, <2>2, <2>3
<1>8. total = (IF t < 1 THEN 1 ELSE t) /\ total \in Nat \ {0}
  BY <1>3, <1>7 DEF AtLeast
<1> DEFINE again == IF workers = 1 THEN 0 ELSE workers * (k - 1)
<1>9. InAll \in Nat /\ asked <= 2 * InAll /\ 2 * InAll <= asked + k + again
  <2>1. CASE workers = 1
    <3>1. PICK p \in Nat : /\ p = Planned(1) /\ asked <= 2 * p /\ 2 * p <= asked + k
      <4>1. CASE segs = <<>>
        <5>1. fleet[1].groups = Looping(total, duration)
          BY <1>1, <2>1, <4>1 DEF GroupsOf
        <5>2. Planned(1) = total
          BY <1>8, <5>1, LoopingSum DEF Planned
        <5> QED BY <1>6, <1>8, <5>2
      <4>2. CASE segs # <<>>
        <5>1. fleet[1].groups = OpenModel(segs, duration)
          BY <1>1, <2>1, <4>2 DEF GroupsOf
        <5>2. Planned(1) = f
          BY <1>7, <5>1, OpenModelSum DEF Planned
        <5>3. total <= f
          BY <1>7, <1>8, <4>2
        <5> QED BY <1>6, <1>7, <1>8, <5>2, <5>3
      <4> QED BY <4>1, <4>2
    <3>2. InAll = p
      <4>1. [w \in Fleet |-> Planned(w)] = <<p>>
        BY <1>1, <2>1, <3>1
      <4>2. Sum(<<p>>) = p
        BY SumOne
      <4> QED BY <4>1, <4>2 DEF InAll
    <3> QED BY <2>1, <3>1, <3>2
  <2>2. CASE workers # 1
    <3>1. total = t /\ t > 1 /\ total <= f
      BY <1>1, <1>7, <1>8, <2>2
    <3>2. segs # <<>> /\ n \in Nat \ {0}
      BY <1>7, <3>1
    <3> DEFINE p == [w \in 1..workers |->
                       ArrivalsOf(ScaledTo(segs, SplitAcross(total, workers)[w], total))]
    <3>3. ASSUME NEW w \in 1..workers PROVE Planned(w) = p[w]
      <4>1. fleet[w].groups
            = OpenModel(ScaledTo(segs, SplitAcross(total, workers)[w], total), duration)
        BY <1>1, <2>2 DEF GroupsOf
      <4> QED BY <4>1, OpenModelSum DEF Planned
    <3>4. InAll = Sum(p)
      BY <1>1, <3>3 DEF InAll
    <3>5. /\ Sum(p) \in Nat /\ total <= Sum(p)
          /\ 2 * Sum(p) <= 2 * f + (n - 1) * workers
      <4>1. p = [w \in 1..workers |->
                   ArrivalsOf(ScaledTo(segs, SplitAcross(total, workers)[w], total))]
        OBVIOUS
      <4>2. segs \in Seq(Journeys) /\ n = Len(segs) /\ total <= ArrivalsOf(segs)
        BY <1>7, <3>1
      <4> HIDE DEF p
      <4>3. /\ Sum(p) \in Nat /\ total <= Sum(p)
            /\ 2 * Sum(p) <= 2 * ArrivalsOf(segs) + (n - 1) * workers
        <5>1. PICK tot \in Nat \ {0}, wks \in Nat \ {0} :
                 tot = total /\ wks = workers /\ wks <= tot
          BY <1>1, <1>8
        <5>2. segs \in Seq(Journeys) /\ n \in Nat \ {0} /\ n = Len(segs) /\ tot <= ArrivalsOf(segs)
          BY <3>2, <4>2, <5>1
        <5>3. p = Portions(segs, tot, wks)
          BY <4>1, <5>1 DEF Portions
        <5>4. /\ Sum(p) \in Nat /\ tot <= Sum(p)
              /\ 2 * Sum(p) <= 2 * ArrivalsOf(segs) + (n - 1) * wks
          BY <5>1, <5>2, <5>3, FleetSum
        <5> QED BY <5>1, <5>4
      <4> QED BY <1>7, <4>3
    <3> HIDE DEF p
    <3>6. PICK x \in Int, y \in Int : x = (n - 1) * workers /\ y = workers * (k - 1) /\ x <= y
      <4>1. n - 1 \in Int /\ k - 1 \in Int /\ n - 1 <= k - 1 /\ workers \in Nat \ {0}
        BY <1>1, <1>7
      <4>2. (n - 1) * workers <= (k - 1) * workers
        BY <4>1, Scaled
      <4>3. (k - 1) * workers = workers * (k - 1)
        BY <4>1
      <4> QED BY <1>1, <4>2, <4>3
    <3>7. PICK s \in Nat : s = Sum(p) /\ total <= s /\ 2 * s <= 2 * f + x
      BY <3>5, <3>6
    <3>8. 2 * s <= asked + k + y /\ asked <= 2 * s
      <4>1. x <= y /\ 2 * f <= asked + k /\ asked <= 2 * total /\ total \in Nat
        BY <1>6, <1>7, <1>8, <3>6
      <4> QED BY <3>7, <4>1
    <3> QED BY <2>2, <3>4, <3>6, <3>7, <3>8
  <2> QED BY <2>1, <2>2
<1>10. again \in Int
  BY <1>1
<1> DEFINE segments == Len(NormalizedCurve(job.curve)) - 1
           more     == IF Len(fleet) = 1 THEN 0 ELSE Len(fleet) * (segments - 1)
           least    == AtLeast(AtMost(DoubleArea(job.curve), 2 * MaxArrivals), 2)
<1>11. segments = k /\ more = again /\ least = asked
  BY <1>1, <1>4, <1>5, <1>6 DEF DoubleAsked, c
<1> HIDE DEF segments, more, least, again
<1>12. 2 * InAll \in least..(least + segments + more)
  BY <1>9, <1>10, <1>11
<1> QED
  BY <1>12 DEF FleetLoadAddsUp, segments, more, least

\* Groups that start something, by a time that is known.
Grouped ==
    /\ \A w \in Fleet :
          /\ fleet[w].rows \subseteq 1..job.rows
          /\ \A g \in ToSet(fleet[w].groups) : g.arrivals > 0 /\ g.end \in Nat
    /\ wait = 0 \/ wait >= 180

LEMMA GroupsAre ==
    ASSUME NEW segs \in Seq(Busy), NEW duration \in Nat, NEW threads \in Nat \ {0}
    PROVE  /\ \A g \in ToSet(OpenModel(segs, duration)) : g.arrivals > 0 /\ g.end \in Nat
           /\ \A g \in ToSet(Looping(threads, duration)) : g.arrivals > 0 /\ g.end \in Nat
<1>1. ClampDuration(duration + 60) \in Nat
  BY LoadShapeAssumption DEF ClampDuration, AtMost
<1>2. ASSUME NEW g \in ToSet(OpenModel(segs, duration)) PROVE g.arrivals > 0 /\ g.end \in Nat
  <2>1. PICK i \in DOMAIN segs : g = OpenModel(segs, duration)[i]
    BY DEF ToSet, OpenModel
  <2>2. segs[i] \in Busy
    BY <2>1
  <2>3. PICK s : s = segs[i]
    OBVIOUS
  <2>4. s.arrivals > 0 /\ s.delay \in Nat /\ s.ramp \in Nat
    BY <2>2, <2>3 DEF Busy, Journeys
  <2>5. g = [arrivals |-> s.arrivals, start |-> s.delay + s.ramp,
             end |-> s.delay + s.ramp + ClampDuration(duration + 60)]
    BY <2>1, <2>3 DEF OpenModel
  <2> QED BY <1>1, <2>4, <2>5
<1>3. ASSUME NEW g \in ToSet(Looping(threads, duration)) PROVE g.arrivals > 0 /\ g.end \in Nat
  <2>1. g = [arrivals |-> threads, start |-> 0, end |-> duration]
    BY DEF ToSet, Looping
  <2> QED BY <2>1
<1> QED
  BY <1>2, <1>3

LEMMA DecidedGroups ==
    ASSUME job \in Jobs, StoredAsSaved, NEW workers, NEW total, NEW segs, NEW duration,
           Decided(workers, total, segs, duration)
    PROVE  Grouped
<1>1. /\ Fleet = 1..workers
      /\ \A w \in Fleet : fleet[w].groups
            = GroupsOf(SplitAcross(total, workers)[w], total, workers = 1,
                       job.mode = "arrivals", segs, duration)
      /\ \A w \in Fleet : fleet[w].rows = RowsOf(w, workers, job.rows, job.raw)
  BY DecidedFleet
<1>2. /\ workers \in Nat \ {0} /\ total \in Nat /\ workers <= total
      /\ job.curve = <<>> => segs = <<>>
      /\ job.mode = "arrivals" /\ job.curve # <<>> =>
            /\ segs  = CompiledArrivals(NormalizedCurve(job.curve)).segs
            /\ total = AtLeast(CompiledArrivals(NormalizedCurve(job.curve)).total, 1)
      /\ duration = ClampDuration(IF job.curve = <<>> THEN saved.duration
                                  ELSE IF LastTime(job.curve) = 0 THEN 60
                                  ELSE LastTime(job.curve))
      /\ wait = WaitFor(duration)
  BY DEF Decided
<1>3. saved.duration \in Nat /\ job.curve \in Seq(AskedPoint)
  BY JobIs, StoredIs
<1>4. duration \in Nat
  <2>1. LastTime(job.curve) \in Nat
    BY <1>3, LastIs DEF LastTime
  <2> QED BY <1>2, <1>3, <2>1, LoadShapeAssumption DEF ClampDuration, AtMost
<1>5. wait >= 180
  BY <1>2, <1>4 DEF WaitFor, AtLeast
<1>6. \A w \in Fleet : fleet[w].rows \subseteq 1..job.rows
  BY <1>1 DEF RowsOf
<1>7. ASSUME NEW w \in Fleet, NEW g \in ToSet(fleet[w].groups)
      PROVE  g.arrivals > 0 /\ g.end \in Nat
  <2>1. PICK share \in Nat \ {0} : share = SplitAcross(total, workers)[w]
    <3>1. SplitAcross(total, workers) \in [1..workers -> Nat]
          /\ SplitAcross(total, workers)[w] >= 1
      BY <1>1, <1>2, SharesAddUp, SharesAreEven
    <3>2. SplitAcross(total, workers)[w] \in Nat
      BY <1>1, <3>1
    <3> QED BY <3>1, <3>2
  <2>2. total \in Nat \ {0}
    BY <1>2
  <2>3. CASE job.mode # "arrivals"
    <3>1. fleet[w].groups = Looping(share, saved.duration)
      BY <1>1, <2>1, <2>3 DEF GroupsOf
    <3>2. <<>> \in Seq(Busy)
      OBVIOUS
    <3> QED BY <1>3, <2>1, <3>1, <3>2, GroupsAre
  <2>4. CASE job.mode = "arrivals"
    <3>1. segs \in Seq(Busy) /\ segs \in Seq(Journeys)
          /\ (total > 1 /\ segs # <<>> => total <= ArrivalsOf(segs))
      <4>1. CASE job.curve = <<>>
        <5>1. segs = <<>>
          BY <1>2, <4>1
        <5> QED BY <5>1
      <4>2. CASE job.curve # <<>>
        <5> DEFINE c == NormalizedCurve(job.curve)
        <5>1. CleanCurve(c) /\ c \in Seq(CleanedPoint) /\ c # <<>>
          BY <1>3, <4>2, NormalClean, NormalIs
        <5>2. segs = CompiledArrivals(c).segs /\ total = AtLeast(CompiledArrivals(c).total, 1)
          BY <1>2, <2>4, <4>2
        <5> HIDE DEF c
        <5>3. PICK k \in Nat : Len(c) = k + 1
          <6>1. Len(c) - 1 \in Nat
            BY <5>1
          <6> QED BY <5>1, <6>1
        <5>4. /\ segs \in Seq(Busy) /\ segs \in Seq(Journeys)
              /\ CompiledArrivals(c).total \in Nat
              /\ CompiledArrivals(c).total <= ArrivalsOf(segs)
          BY <5>1, <5>2, <5>3, CompiledSum
        <5> QED BY <5>2, <5>4 DEF AtLeast
      <4> QED BY <4>1, <4>2
    <3>2. CASE workers # 1
      <4>1. fleet[w].groups = OpenModel(ScaledTo(segs, share, total), duration)
        BY <1>1, <2>1, <2>4, <3>2 DEF GroupsOf
      <4>2. ScaledTo(segs, share, total) \in Seq(Busy)
        <5>1. CASE segs = <<>>
          BY <5>1 DEF ScaledTo
        <5>2. CASE segs # <<>>
          <6>1. PICK n \in Nat \ {0} : n = Len(segs)
            BY <3>1, <5>2
          <6>2. total <= ArrivalsOf(segs)
            BY <1>2, <3>1, <3>2, <5>2
          <6> QED BY <2>1, <2>2, <3>1, <6>1, <6>2, ShareSum
        <5> QED BY <5>1, <5>2
      <4> QED BY <1>4, <2>2, <4>1, <4>2, GroupsAre
    <3>3. CASE workers = 1
      <4>1. fleet[w].groups = IF segs # <<>> THEN OpenModel(segs, duration)
                                             ELSE Looping(total, duration)
        BY <1>1, <2>4, <3>3 DEF GroupsOf
      <4> QED BY <1>4, <2>2, <3>1, <4>1, GroupsAre
    <3> QED BY <3>2, <3>3
  <2> QED BY <2>3, <2>4
<1> QED
  BY <1>5, <1>6, <1>7 DEF Grouped

\* Every group of an open model starts its last journey when a segment ends.
LEMMA OpenModelEnds ==
    ASSUME NEW last \in Int, NEW segs \in Seq(Segments(last)), NEW duration,
           NEW g \in ToSet(OpenModel(segs, duration))
    PROVE  g.start \in Int /\ g.start <= last
<1> DEFINE m == OpenModel(segs, duration)
<1>1. PICK i \in DOMAIN segs : g = m[i]
  BY DEF ToSet, OpenModel
<1>2. g.start = segs[i].delay + segs[i].ramp
  BY <1>1 DEF OpenModel
<1>3. segs[i] \in Segments(last)
  BY <1>1
<1> QED
  BY <1>2, <1>3 DEF Segments

LEMMA DecidedWait ==
    ASSUME job \in Jobs, StoredAsSaved, NEW workers, NEW total, NEW segs, NEW duration,
           Decided(workers, total, segs, duration)
    PROVE  WaitOutlastsPlan
<1> DEFINE last    == LastTime(job.curve)
           covered == \/ job.curve = <<>>
                      \/ job.mode = "vus" /\ last >= saved.duration
                      \/ job.mode = "arrivals" /\ last <= MaxDuration
<1>1. /\ workers \in Nat \ {0} /\ Fleet = 1..workers
      /\ \A w \in Fleet : fleet[w].groups
            = GroupsOf(SplitAcross(total, workers)[w], total, workers = 1,
                       job.mode = "arrivals", segs, duration)
      /\ total \in Nat /\ workers <= total
      /\ segs \in Seq(Segments(last))
      /\ duration = ClampDuration(IF job.curve = <<>> THEN saved.duration
                                  ELSE IF last = 0 THEN 60 ELSE last)
      /\ wait = WaitFor(duration)
  <2>1. Fleet = 1..workers /\ \A w \in Fleet : fleet[w].groups
            = GroupsOf(SplitAcross(total, workers)[w], total, workers = 1,
                       job.mode = "arrivals", segs, duration)
    BY DecidedFleet
  <2>2. /\ workers \in Nat \ {0} /\ total \in Nat /\ workers <= total
        /\ segs \in Seq(Segments(last))
        /\ duration = ClampDuration(IF job.curve = <<>> THEN saved.duration
                                    ELSE IF last = 0 THEN 60 ELSE last)
        /\ wait = WaitFor(duration)
    BY DEF Decided
  <2> QED BY <2>1, <2>2
<1>2. /\ job.mode \in {"vus", "arrivals"} /\ job.curve \in Seq(AskedPoint)
      /\ saved.duration \in Nat /\ 1 <= saved.duration /\ saved.duration <= MaxDuration
      /\ MaxDuration \in Nat \ {0}
  BY JobIs, StoredIs, LoadShapeAssumption
<1>3. last \in Nat
  BY <1>2, LastIs DEF LastTime
<1>s. job.curve = <<>> => last = 0
  <2> SUFFICES ASSUME job.curve = <<>> PROVE last = 0
    OBVIOUS
  <2>1. ToSet(job.curve) = {}
    BY DEF ToSet
  <2>2. last = 0 \/ \E p \in ToSet(job.curve) : p.t = last
    BY <1>2, LastIs DEF LastTime
  <2> QED BY <2>1, <2>2
<1> HIDE DEF last
<1>4. duration \in Nat /\ wait \in Nat /\ wait >= 180 /\ wait >= duration + 120
  <2>1. duration \in Nat
    BY <1>1, <1>2, <1>3 DEF ClampDuration, AtMost
  <2> QED BY <1>1, <2>1 DEF WaitFor, AtLeast
<1>5. ASSUME covered, NEW w \in Fleet, NEW g \in ToSet(fleet[w].groups)
      PROVE  wait >= IF job.mode = "vus" THEN g.end ELSE g.start
  <2>1. CASE job.mode = "vus"
    <3>1. fleet[w].groups
          = <<[arrivals |-> SplitAcross(total, workers)[w], start |-> 0, end |-> saved.duration]>>
      BY <1>1, <2>1 DEF GroupsOf, Looping
    <3>2. g.end = saved.duration
      BY <3>1 DEF ToSet
    <3>3. duration >= saved.duration
      BY <1>1, <1>2, <1>3, <1>5, <2>1 DEF ClampDuration, AtMost
    <3> QED BY <1>2, <1>4, <2>1, <3>2, <3>3
  <2>2. CASE job.mode = "arrivals"
    <3>0. last <= duration
      BY <1>1, <1>2, <1>3, <1>5, <1>s, <2>2 DEF ClampDuration, AtMost
    <3>1. g.start \in Int /\ g.start <= last
      <4> DEFINE share == SplitAcross(total, workers)[w]
      <4>0. last \in Int
        BY <1>3
      <4>1. CASE workers # 1
        <5>1. share \in Int /\ total \in Int
          <6>1. SplitAcross(total, workers) \in [1..workers -> Nat] /\ w \in 1..workers
            BY <1>1, SharesAddUp
          <6> QED BY <1>1, <6>1
        <5> HIDE DEF share
        <5>2. ScaledTo(segs, share, total) \in Seq(Segments(last))
          BY <1>1, <4>0, <5>1, ScaledIn
        <5>3. fleet[w].groups = OpenModel(ScaledTo(segs, share, total), duration)
          BY <1>1, <2>2, <4>1 DEF GroupsOf, share
        <5> QED BY <4>0, <5>2, <5>3, OpenModelEnds
      <4>2. CASE workers = 1 /\ segs # <<>>
        <5>3. fleet[w].groups = OpenModel(segs, duration)
          BY <1>1, <2>2, <4>2 DEF GroupsOf
        <5> QED BY <1>1, <4>0, <5>3, OpenModelEnds
      <4>3. CASE workers = 1 /\ segs = <<>>
        <5>3. fleet[w].groups = <<[arrivals |-> total, start |-> 0, end |-> duration]>>
              \/ fleet[w].groups = <<[arrivals |-> total, start |-> 0, end |-> saved.duration]>>
          BY <1>1, <2>2, <4>3 DEF GroupsOf, Looping
        <5>4. g.start = 0
          BY <5>3 DEF ToSet
        <5> QED BY <1>3, <5>4
      <4> QED BY <4>1, <4>2, <4>3
    <3> QED BY <1>3, <1>4, <2>2, <3>0, <3>1
  <2> QED BY <1>2, <2>1, <2>2
<1>6. Max({0} \cup {p.t : p \in ToSet(job.curve)}) = last
  BY DEF last, LastTime
<1> QED
  BY <1>5, <1>6 DEF WaitOutlastsPlan

-----------------------------------------------------------------------------
(* The plans of the workers.                                                   *)

\* What is stored is what was asked for, cleaned, and the fleet that is started
\* is the one dispatch decided.
PlanInv ==
    /\ job \in Jobs
    /\ pc \in {"saved", "start"} => StoredAsSaved
    /\ pc = "start" => \E workers, total, segs, duration :
                          Decided(workers, total, segs, duration)

\* Nothing but Save and Dispatch touches what the plans are made of.
LEMMA PlanKept ==
    ASSUME PlanInv, UNCHANGED <<job, saved, fleet, wait>>,
           pc' \in {"saved", "start"} => pc' = pc
    PROVE  PlanInv'
<1>1. job' = job /\ saved' = saved /\ fleet' = fleet /\ wait' = wait
  OBVIOUS
<1>2. StoredAsSaved => StoredAsSaved'
  BY <1>1 DEF StoredAsSaved
<1>3. ASSUME NEW workers, NEW total, NEW segs, NEW duration,
             Decided(workers, total, segs, duration)
      PROVE  Decided(workers, total, segs, duration)'
  BY <1>1, <1>3 DEF Decided, GroupsOf, LastTime
<1>4. pc' = "start" => \E workers, total, segs, duration :
                          Decided(workers, total, segs, duration)'
  <2> SUFFICES ASSUME pc' = "start"
               PROVE  \E workers, total, segs, duration :
                          Decided(workers, total, segs, duration)'
    OBVIOUS
  <2>1. pc = "start"
    OBVIOUS
  <2>2. PICK workers, total, segs, duration : Decided(workers, total, segs, duration)
    BY <2>1 DEF PlanInv
  <2> QED BY <1>3, <2>2
<1> QED
  BY <1>1, <1>2, <1>4 DEF PlanInv

LEMMA PlanInvariant == Spec => []PlanInv
<1>1. Init => PlanInv
  BY DEF Init, PlanInv
<1>2. PlanInv /\ [Next]_vars => PlanInv'
  <2> SUFFICES ASSUME PlanInv, [Next]_vars PROVE PlanInv'
    OBVIOUS
  <2>1. CASE Save
    <3>1. StoredAsSaved' /\ job' = job /\ pc' = "saved"
      BY <2>1 DEF Save, StoredAsSaved
    <3> QED BY <3>1 DEF PlanInv
  <2>2. CASE Dispatch
    <3>1. StoredAsSaved /\ job \in Jobs
      BY <2>2 DEF Dispatch, PlanInv
    <3>2. \E workers, total, segs, duration : Decided(workers, total, segs, duration)'
      BY <2>2, <3>1, DispatchDecides
    <3>3. job' = job /\ saved' = saved
      BY <2>2 DEF Dispatch
    <3>4. StoredAsSaved'
      BY <3>1, <3>3 DEF StoredAsSaved
    <3> QED BY <3>1, <3>2, <3>3, <3>4 DEF PlanInv
  <2>3. CASE StartWorker
    BY <2>3, PlanKept DEF StartWorker
  <2>4. CASE StartFails
    BY <2>4, PlanKept DEF StartFails
  <2>5. CASE \E w \in Fleet : Sample(w) \/ Exit(w)
    BY <2>5, PlanKept DEF Sample, Exit
  <2>6. CASE WaitEnds
    BY <2>6, PlanKept DEF WaitEnds
  <2>7. CASE ReadJTL
    BY <2>7, PlanKept DEF ReadJTL
  <2>8. CASE Judge
    BY <2>8, PlanKept DEF Judge
  <2>9. CASE UNCHANGED vars
    BY <2>9, PlanKept DEF vars
  <2> QED
    BY <2>1, <2>2, <2>3, <2>4, <2>5, <2>6, <2>7, <2>8, <2>9 DEF Next
<1> QED
  BY <1>1, <1>2, PTL DEF Spec

\* However many rows and workers: rows that are meant to be unique reach one
\* worker each and are shared evenly, others reach everyone.
THEOREM UniqueRows == Spec => []RowsUsedOnce
<1>1. PlanInv => RowsUsedOnce
  <2> SUFFICES ASSUME PlanInv, pc = "start" PROVE RowsUsedOnce
    BY DEF RowsUsedOnce
  <2> QED BY DecidedRows DEF PlanInv
<1> QED
  BY <1>1, PlanInvariant, PTL

\* However long the curve and the request: the wait for a worker outlasts what
\* its plan says, within the bounds the property names.
THEOREM WaitIsLongEnough == Spec => []WaitOutlastsPlan
<1>1. PlanInv => WaitOutlastsPlan
  <2> SUFFICES ASSUME PlanInv, pc = "start" PROVE WaitOutlastsPlan
    BY DEF WaitOutlastsPlan
  <2> QED BY DecidedWait DEF PlanInv
<1> QED
  BY <1>1, PlanInvariant, PTL

\* Whatever threads or curve are asked for and however many workers share them:
\* the workers start all of it, up to the limit, and no more than the rounding adds.
THEOREM LoadAddsUp == Spec => []FleetLoadAddsUp
<1>1. PlanInv => FleetLoadAddsUp
  <2> SUFFICES ASSUME PlanInv, pc = "start", job.mode # "vus" => job.curve # <<>>
               PROVE  FleetLoadAddsUp
    BY DEF FleetLoadAddsUp
  <2>1. PICK workers, total, segs, duration : Decided(workers, total, segs, duration)
    BY DEF PlanInv
  <2>2. job \in Jobs /\ job.mode \in {"vus", "arrivals"}
    BY JobIs DEF PlanInv
  <2> QED BY <2>1, <2>2, DecidedThreads, DecidedJourneys
<1> QED
  BY <1>1, PlanInvariant, PTL

-----------------------------------------------------------------------------
(* The verdict.                                                                *)

LEMMA MinOfTwo ==
    \A a, b \in Int : Min({a, b}) = IF a <= b THEN a ELSE b
<1> SUFFICES ASSUME NEW a \in Int, NEW b \in Int
             PROVE  Min({a, b}) = IF a <= b THEN a ELSE b
  OBVIOUS
<1> DEFINE S == {a, b}
<1>1. IsFiniteSet(S)
  <2>1. IsFiniteSet({a}) /\ {a} \cup {b} = S
    BY FS_Singleton
  <2> QED BY <2>1, FS_AddElement
<1>2. S \subseteq Int /\ S # {}
  OBVIOUS
<1>3. Min(S) \in S /\ \A y \in S : Min(S) <= y
  <2> HIDE DEF S
  <2> QED BY <1>1, <1>2, MinIs
<1> QED
  BY <1>3

LEMMA MinOfThree ==
    \A a, b, c \in Int : Min({a, b, c}) = Min({Min({a, b}), c})
<1> SUFFICES ASSUME NEW a \in Int, NEW b \in Int, NEW c \in Int
             PROVE  Min({a, b, c}) = Min({Min({a, b}), c})
  OBVIOUS
<1> DEFINE S == {a, b, c}
<1>1. IsFiniteSet(S)
  <2>1. IsFiniteSet({a})
    BY FS_Singleton
  <2>2. IsFiniteSet({a} \cup {b})
    BY <2>1, FS_AddElement
  <2>3. IsFiniteSet(({a} \cup {b}) \cup {c})
    BY <2>2, FS_AddElement
  <2>4. ({a} \cup {b}) \cup {c} = S
    OBVIOUS
  <2> HIDE DEF S
  <2> QED BY <2>3, <2>4
<1>2. S \subseteq Int /\ S # {}
  OBVIOUS
<1>3. Min(S) \in S /\ \A y \in S : Min(S) <= y
  <2> HIDE DEF S
  <2> QED BY <1>1, <1>2, MinIs
<1>4. Min({a, b}) = IF a <= b THEN a ELSE b
  BY MinOfTwo
<1>5. PICK m \in Int : m = Min({a, b})
  BY <1>4
<1>6. Min({m, c}) = IF m <= c THEN m ELSE c
  BY <1>5, MinOfTwo
<1> QED
  BY <1>3, <1>4, <1>5, <1>6

LEMMA MaxOfTwo ==
    \A a, b \in Int : Max({a, b}) = IF a >= b THEN a ELSE b
<1> SUFFICES ASSUME NEW a \in Int, NEW b \in Int
             PROVE  Max({a, b}) = IF a >= b THEN a ELSE b
  OBVIOUS
<1> DEFINE S == {a, b}
<1>1. IsFiniteSet(S)
  <2>1. IsFiniteSet({a}) /\ {a} \cup {b} = S
    BY FS_Singleton
  <2> QED BY <2>1, FS_AddElement
<1>2. S \subseteq Int /\ S # {}
  OBVIOUS
<1>3. Max(S) \in S /\ \A y \in S : Max(S) >= y
  <2> HIDE DEF S
  <2> QED BY <1>1, <1>2, MaxIs
<1> QED
  BY <1>3

\* The value of a rank is within a limit when no more values are above the limit
\* than come after the rank.
LEMMA OfRankIs ==
    ASSUME NEW S, IsFiniteSet(S), NEW lats \in [S -> Nat], NEW rank \in Nat \ {0},
           rank <= Cardinality(S)
    PROVE  /\ OfRank(lats, rank) \in Nat
           /\ \A limit \in Int :
                 OfRank(lats, rank) <= limit
                   <=> Cardinality({i \in S : lats[i] > limit}) <= Cardinality(S) - rank
<1> DEFINE Low(ms)  == {i \in S : lats[i] <= ms}
           High(ms) == {i \in S : lats[i] > ms}
           Top      == {j \in S : Cardinality(Low(lats[j])) >= rank}
           V        == {lats[i] : i \in Top}
<1>1. OfRank(lats, rank) = Min(V)
  <2>1. DOMAIN lats = S
    OBVIOUS
  <2> QED BY <2>1 DEF OfRank
<1>2. PICK n \in Nat \ {0} : n = Cardinality(S)
  <2>1. Cardinality(S) \in Nat
    BY FS_CardinalityType
  <2> QED BY <2>1
<1>3. \A i \in S : lats[i] \in Nat
  OBVIOUS
<1>4. \A a, b \in Int : a <= b => Low(a) \subseteq Low(b)
  BY <1>3
<1>5. \A ms : Low(ms) \subseteq S /\ IsFiniteSet(Low(ms)) /\ Cardinality(Low(ms)) \in Nat
  <2> SUFFICES ASSUME NEW ms
               PROVE  Low(ms) \subseteq S /\ IsFiniteSet(Low(ms)) /\ Cardinality(Low(ms)) \in Nat
    OBVIOUS
  <2>1. Low(ms) \subseteq S
    OBVIOUS
  <2> HIDE DEF Low
  <2> QED BY <2>1, FS_Subset, FS_CardinalityType
<1>6. ASSUME NEW a \in Int, NEW b \in Int, a <= b
      PROVE  Cardinality(Low(a)) <= Cardinality(Low(b))
  <2>1. Low(a) \subseteq Low(b) /\ IsFiniteSet(Low(b))
    BY <1>4, <1>5, <1>6
  <2> HIDE DEF Low
  <2> QED BY <2>1, FS_Subset
\* Some value of a part of the values is the greatest of the part.
<1>7. ASSUME NEW A, A \subseteq S, A # {}
      PROVE  \E i \in A : \A j \in A : lats[j] <= lats[i]
  <2> DEFINE f == [i \in A |-> lats[i]]
             T == {lats[i] : i \in A}
  <2>1. IsFiniteSet(A)
    BY <1>7, FS_Subset
  <2>2. f \in Surjection(A, T)
    <3>1. f \in [A -> T] /\ \A t \in T : \E i \in A : f[i] = t
      OBVIOUS
    <3> HIDE DEF f, T
    <3> QED BY <3>1 DEF Surjection
  <2>3. IsFiniteSet(T)
    <3> HIDE DEF f, T
    <3> QED BY <2>1, <2>2, FS_Surjection
  <2>4. \A j \in A : lats[j] \in Int
    BY <1>3, <1>7
  <2>5. T \subseteq Int /\ T # {}
    BY <1>7, <2>4
  <2>6. Max(T) \in T /\ \A y \in T : Max(T) >= y
    <3> HIDE DEF T
    <3> QED BY <2>3, <2>5, MaxIs
  <2>7. PICK i \in A : Max(T) = lats[i]
    BY <2>6
  <2>8. \A j \in A : lats[i] >= lats[j]
    BY <2>6, <2>7
  <2> HIDE DEF f, T
  <2> QED BY <2>4, <2>7, <2>8
\* A limit is a bound when enough values are within it.
<1>8. ASSUME NEW limit \in Int, Cardinality(Low(limit)) >= rank
      PROVE  \E j \in Top : lats[j] <= limit
  <2>1. Low(limit) # {}
    <3>1. Low(limit) = {} => Cardinality(Low(limit)) = 0
      BY FS_EmptySet
    <3> HIDE DEF Low
    <3> QED BY <1>8, <3>1
  <2>2. PICK j \in Low(limit) : \A i \in Low(limit) : lats[i] <= lats[j]
    <3> HIDE DEF Low
    <3> QED BY <1>5, <1>7, <2>1
  <2>3. j \in S /\ lats[j] <= limit
    OBVIOUS
  <2>4. Low(limit) \subseteq Low(lats[j])
    BY <2>2
  <2>5. Cardinality(Low(limit)) <= Cardinality(Low(lats[j]))
    <3>1. IsFiniteSet(Low(lats[j]))
      BY <1>5
    <3> HIDE DEF Low
    <3> QED BY <2>4, <3>1, FS_Subset
  <2>6. Cardinality(Low(lats[j])) >= rank
    <3>1. Cardinality(Low(lats[j])) \in Nat /\ Cardinality(Low(limit)) \in Nat
      BY <1>5
    <3> HIDE DEF Low
    <3> QED BY <1>8, <2>5, <3>1
  <2> QED BY <2>3, <2>6
<1>9. IsFiniteSet(V) /\ V \subseteq Nat /\ V # {}
  <2> DEFINE f == [i \in Top |-> lats[i]]
  <2>1. IsFiniteSet(Top)
    <3>1. Top \subseteq S
      OBVIOUS
    <3> HIDE DEF Top
    <3> QED BY <3>1, FS_Subset
  <2>2. f \in Surjection(Top, V)
    <3> HIDE DEF Top
    <3>1. f \in [Top -> V] /\ \A t \in V : \E i \in Top : f[i] = t
      OBVIOUS
    <3> HIDE DEF f, V
    <3> QED BY <3>1 DEF Surjection
  <2>3. IsFiniteSet(V)
    <3> HIDE DEF f, V, Top
    <3> QED BY <2>1, <2>2, FS_Surjection
  <2>4. V \subseteq Nat
    BY <1>3
  <2>5. PICK i \in S : \A j \in S : lats[j] <= lats[i]
    <3>1. S # {}
      BY <1>2, FS_EmptySet
    <3> QED BY <1>7, <3>1
  <2>6. Low(lats[i]) = S
    BY <2>5
  <2>7. i \in Top
    <3>1. Cardinality(Low(lats[i])) >= rank
      <4> HIDE DEF Low
      <4> QED BY <1>2, <2>6
    <3> QED BY <3>1
  <2> HIDE DEF Top
  <2> QED BY <2>3, <2>4, <2>7
<1>10. Min(V) \in V /\ \A y \in V : Min(V) <= y
  <2> HIDE DEF V
  <2>1. V \subseteq Int
    BY <1>9
  <2> QED BY <1>9, <2>1, MinIs
<1>11. Min(V) \in Nat
  <2> HIDE DEF V
  <2> QED BY <1>9, <1>10
<1>12. \A limit \in Int : Min(V) <= limit <=> Cardinality(Low(limit)) >= rank
  <2> SUFFICES ASSUME NEW limit \in Int
               PROVE  Min(V) <= limit <=> Cardinality(Low(limit)) >= rank
    OBVIOUS
  <2>1. ASSUME Cardinality(Low(limit)) >= rank PROVE Min(V) <= limit
    <3>1. PICK j \in Top : lats[j] <= limit
      BY <1>8, <2>1
    <3>2. lats[j] \in V /\ lats[j] \in Int
      <4>1. j \in S
        OBVIOUS
      <4>2. lats[j] \in Int
        BY <1>3, <4>1
      <4> QED BY <4>2
    <3> HIDE DEF V
    <3> QED BY <1>10, <1>11, <3>1, <3>2
  <2>2. ASSUME Min(V) <= limit PROVE Cardinality(Low(limit)) >= rank
    <3>1. PICK j \in Top : Min(V) = lats[j]
      BY <1>10
    <3>2. Cardinality(Low(lats[j])) >= rank
      OBVIOUS
    <3>3. Cardinality(Low(lats[j])) <= Cardinality(Low(limit))
      <4>1. lats[j] \in Int /\ lats[j] <= limit
        BY <1>11, <2>2, <3>1
      <4> HIDE DEF Low
      <4> QED BY <1>6, <4>1
    <3>4. Cardinality(Low(lats[j])) \in Nat /\ Cardinality(Low(limit)) \in Nat
      BY <1>5
    <3> HIDE DEF Low
    <3> QED BY <3>2, <3>3, <3>4
  <2> QED BY <2>1, <2>2
<1>13. \A limit \in Int : Cardinality(High(limit)) = n - Cardinality(Low(limit))
  <2> SUFFICES ASSUME NEW limit \in Int
               PROVE  Cardinality(High(limit)) = n - Cardinality(Low(limit))
    OBVIOUS
  <2>1. High(limit) = S \ Low(limit) /\ S \cap Low(limit) = Low(limit)
    BY <1>3
  <2> HIDE DEF High, Low
  <2>2. Cardinality(S \ Low(limit)) = Cardinality(S) - Cardinality(S \cap Low(limit))
    BY FS_Difference
  <2> QED BY <1>2, <2>1, <2>2
<1>14. \A limit \in Int :
          Min(V) <= limit <=> Cardinality(High(limit)) <= n - rank
  <2> SUFFICES ASSUME NEW limit \in Int
               PROVE  Min(V) <= limit <=> Cardinality(High(limit)) <= n - rank
    OBVIOUS
  <2>1. PICK l \in Nat : l = Cardinality(Low(limit))
    BY <1>5
  <2>2. Cardinality(High(limit)) = n - l
    BY <1>13, <2>1
  <2>3. Min(V) <= limit <=> l >= rank
    BY <1>12, <2>1
  <2>4. l >= rank <=> n - l <= n - rank
    OBVIOUS
  <2> HIDE DEF V, High
  <2> QED BY <2>2, <2>3, <2>4
<1> HIDE DEF V
<1> QED BY <1>1, <1>2, <1>11, <1>14

\* A percentile is within a limit when no more values are above the limit than
\* the percentile leaves out.
LEMMA PercentileIs ==
    ASSUME NEW n \in Nat, NEW lats \in [1..n -> Nat]
    PROVE  /\ Percentile(lats, 95) \in Nat
           /\ n = 0 => Percentile(lats, 95) = 0
           /\ n > 0 => \A limit \in Int :
                 Percentile(lats, 95) <= limit
                   <=> Cardinality({i \in 1..n : lats[i] > limit})
                          <= n - Max({1, (95 * n) \div 100})
<1>1. Len(lats) = n
  OBVIOUS
<1>2. n = 0 => Percentile(lats, 95) = 0
  BY <1>1 DEF Percentile
<1>3. CASE n > 0
  <2>1. PICK rank : rank = Max({1, (95 * n) \div 100})
    OBVIOUS
  <2>2. Percentile(lats, 95) = OfRank(lats, rank)
    BY <1>1, <1>3, <2>1 DEF Percentile
  <2>3. rank \in Nat \ {0} /\ rank <= n
    <3>1. (95 * n) \div 100 \in Int /\ (95 * n) \div 100 <= n
      OBVIOUS
    <3>2. PICK x \in Int : x = (95 * n) \div 100 /\ x <= n
      BY <3>1
    <3>3. Max({1, x}) = IF 1 >= x THEN 1 ELSE x
      BY MaxOfTwo
    <3> QED BY <1>3, <2>1, <3>2, <3>3
  <2> DEFINE S == 1..n
  <2>4. lats \in [S -> Nat]
    OBVIOUS
  <2>5. IsFiniteSet(S) /\ Cardinality(S) = n
    BY UpToFinite
  <2>6. /\ OfRank(lats, rank) \in Nat
        /\ \A limit \in Int :
              OfRank(lats, rank) <= limit
                <=> Cardinality({i \in S : lats[i] > limit}) <= Cardinality(S) - rank
    <3> HIDE DEF S
    <3>1. rank <= Cardinality(S)
      BY <2>3, <2>5
    <3> QED BY <2>3, <2>4, <2>5, <3>1, OfRankIs, Zenon
  <2> DEFINE High(limit) == {i \in S : lats[i] > limit}
  <2> HIDE DEF High
  <2>7. \A limit \in Int : Percentile(lats, 95) <= limit
                              <=> Cardinality(High(limit)) <= n - Max({1, (95 * n) \div 100})
    <3> HIDE DEF S
    <3> SUFFICES ASSUME NEW limit \in Int
                 PROVE  Percentile(lats, 95) <= limit
                          <=> Cardinality(High(limit)) <= n - Max({1, (95 * n) \div 100})
      OBVIOUS
    <3>1. OfRank(lats, rank) <= limit <=> Cardinality(High(limit)) <= Cardinality(S) - rank
      BY <2>6 DEF High
    <3> QED BY <2>1, <2>2, <2>5, <3>1
  <2>8. Percentile(lats, 95) \in Nat /\ n # 0
    BY <1>3, <2>2, <2>6
  <2>9. \A limit \in Int : Percentile(lats, 95) <= limit
           <=> Cardinality({i \in 1..n : lats[i] > limit}) <= n - Max({1, (95 * n) \div 100})
    BY <2>7 DEF High
  <2> HIDE DEF S
  <2> QED BY <2>8, <2>9, Zenon
<1>4. (n = 0 \/ n > 0) /\ (n = 0 => ~(n > 0)) /\ 0 \in Nat
  OBVIOUS
<1> QED
  BY <1>2, <1>3, <1>4, Zenon

-----------------------------------------------------------------------------
(* One file and the merge of files.                                            *)

Requests(rows) == Min({Len(rows), MaxRows + 1})
Kept(rows)     == Min({Len(rows), MaxRows, MaxLatencies})
Failures(rows) == Cardinality({i \in 1..Min({Len(rows), MaxRows}) : ~rows[i].ok})
Latencies(rows) == [i \in 1..Kept(rows) |-> rows[i].ms]

LEMMA CountsAre ==
    ASSUME NEW rows \in Seq(Responses)
    PROVE  /\ Requests(rows) \in Nat /\ Kept(rows) \in Nat /\ Failures(rows) \in Nat
           /\ Requests(rows) = 0 <=> Len(rows) = 0
           /\ Kept(rows) = 0 <=> Len(rows) = 0
           /\ Kept(rows) <= Len(rows)
           /\ Len(rows) = 0 => Failures(rows) = 0
           /\ Latencies(rows) \in [1..Kept(rows) -> Nat]
           /\ \A i \in 1..Kept(rows) : rows[i].ms \in Nat
<1>1. PICK n \in Nat : n = Len(rows)
  OBVIOUS
<1>2. MaxRows \in Nat \ {0} /\ MaxLatencies \in Nat \ {0}
  BY RunVerdictAssumption
<1>3. /\ Min({n, MaxRows + 1}) = IF n <= MaxRows + 1 THEN n ELSE MaxRows + 1
      /\ Min({n, MaxRows}) = IF n <= MaxRows THEN n ELSE MaxRows
  BY <1>2, MinOfTwo
<1>4. PICK m \in Nat : m = Min({n, MaxRows}) /\ m <= n /\ (m = 0 <=> n = 0)
  BY <1>2, <1>3
<1>5. Min({m, MaxLatencies}) = IF m <= MaxLatencies THEN m ELSE MaxLatencies
  BY <1>2, <1>4, MinOfTwo
<1>6. Min({n, MaxRows, MaxLatencies}) = Min({m, MaxLatencies})
  BY <1>2, <1>4, MinOfThree
<1>7. Requests(rows) \in Nat /\ (Requests(rows) = 0 <=> n = 0)
  BY <1>1, <1>2, <1>3 DEF Requests
<1>8. Kept(rows) \in Nat /\ (Kept(rows) = 0 <=> n = 0) /\ Kept(rows) <= n
  BY <1>1, <1>2, <1>4, <1>5, <1>6 DEF Kept
<1>9. Failures(rows) \in Nat /\ (n = 0 => Failures(rows) = 0)
  <2> DEFINE F == {i \in 1..m : ~rows[i].ok}
  <2>1. Failures(rows) = Cardinality(F)
    BY <1>1, <1>4 DEF Failures
  <2>2. IsFiniteSet(1..m)
    BY FS_Interval
  <2>3. IsFiniteSet(F)
    BY <2>2, FS_Subset
  <2>4. n = 0 => F = {}
    BY <1>4
  <2> HIDE DEF F
  <2>5. Cardinality(F) \in Nat
    BY <2>3, FS_CardinalityType
  <2>6. n = 0 => Cardinality(F) = 0
    BY <2>4, FS_EmptySet
  <2> QED BY <2>1, <2>5, <2>6
<1>10. \A i \in 1..Kept(rows) : rows[i].ms \in Nat
  <2> SUFFICES ASSUME NEW i \in 1..Kept(rows) PROVE rows[i].ms \in Nat
    OBVIOUS
  <2>1. i \in 1..Len(rows)
    BY <1>1, <1>8
  <2>2. rows[i] \in Responses
    BY <2>1
  <2> QED BY <2>2, MeasuredRunAssumption
<1>11. Latencies(rows) \in [1..Kept(rows) -> Nat]
  BY <1>10 DEF Latencies
<1> QED
  BY <1>1, <1>7, <1>8, <1>9, <1>10, <1>11

\* The numerator and the denominator of the rate of errors say how many of the
\* requests failed.
Rates(one, requests, failures) ==
    /\ one.requests = requests
    /\ one.errors.num \in Int /\ one.errors.den \in Nat \ {0}
    /\ one.errors.num * requests = one.errors.den * failures
    /\ requests = 0 => failures = 0

LEMMA ParsedIs ==
    ASSUME NEW rows \in Seq(Responses)
    PROVE  /\ Rates(ParsedJTL(rows), Requests(rows), Failures(rows))
           /\ ParsedJTL(rows).p95 = Percentile(Latencies(rows), 95)
           /\ ParsedJTL(rows).p95 \in Nat
<1> DEFINE n      == Min({Len(rows), MaxRows + 1})
           seen   == 1..Min({n, MaxRows})
           errors == Cardinality({i \in seen : ~rows[i].ok})
           kept   == [i \in 1..Min({n, MaxRows, MaxLatencies}) |-> rows[i].ms]
<1>1. ParsedJTL(rows)
      = [requests |-> n,
         errors   |-> IF n = 0 THEN [num |-> 0, den |-> 1]
                               ELSE [num |-> errors, den |-> n],
         p95      |-> Percentile(kept, 95)]
  BY DEF ParsedJTL
<1>2. MaxRows \in Nat \ {0} /\ MaxLatencies \in Nat \ {0} /\ MaxRows + 1 \in Int
  BY RunVerdictAssumption
<1>3. PICK l \in Nat : l = Len(rows)
  OBVIOUS
<1>4. PICK q \in Nat : q = Min({l, MaxRows + 1}) /\ q = IF l <= MaxRows + 1 THEN l ELSE MaxRows + 1
  BY <1>2, MinOfTwo
<1>5. Min({q, MaxRows}) = Min({l, MaxRows})
  <2>1. Min({q, MaxRows}) = IF q <= MaxRows THEN q ELSE MaxRows
    BY <1>2, MinOfTwo
  <2>2. Min({l, MaxRows}) = IF l <= MaxRows THEN l ELSE MaxRows
    BY <1>2, MinOfTwo
  <2> QED BY <1>2, <1>4, <2>1, <2>2
<1>6. Min({q, MaxRows, MaxLatencies}) = Min({l, MaxRows, MaxLatencies})
  <2>1. Min({q, MaxRows, MaxLatencies}) = Min({Min({q, MaxRows}), MaxLatencies})
    BY <1>2, MinOfThree
  <2>2. Min({l, MaxRows, MaxLatencies}) = Min({Min({l, MaxRows}), MaxLatencies})
    BY <1>2, MinOfThree
  <2> QED BY <1>5, <2>1, <2>2
<1>7. n = q /\ Requests(rows) = q
  BY <1>3, <1>4 DEF Requests
<1>8. errors = Failures(rows)
  BY <1>3, <1>5, <1>7 DEF Failures
<1>9. kept = Latencies(rows)
  BY <1>3, <1>6, <1>7 DEF Latencies, Kept
<1>10. Failures(rows) \in Nat /\ (q = 0 => Failures(rows) = 0)
       /\ Kept(rows) \in Nat /\ Latencies(rows) \in [1..Kept(rows) -> Nat]
  BY <1>7, CountsAre
<1>11. Percentile(Latencies(rows), 95) \in Nat
  BY <1>10, PercentileIs
<1> HIDE DEF n, errors, kept
<1>12. PICK f \in Nat : f = Failures(rows) /\ (q = 0 => f = 0)
  BY <1>10
<1>13. ParsedJTL(rows).requests = q /\ ParsedJTL(rows).p95 = Percentile(Latencies(rows), 95)
       /\ ParsedJTL(rows).errors = IF q = 0 THEN [num |-> 0, den |-> 1] ELSE [num |-> f, den |-> q]
  BY <1>1, <1>7, <1>8, <1>9, <1>12
<1>14. Rates(ParsedJTL(rows), q, f)
  <2>1. f * q = q * f /\ 0 * q = 0
    OBVIOUS
  <2>2. CASE q = 0
    BY <1>12, <1>13, <2>2 DEF Rates
  <2>3. CASE q # 0
    <3>1. ParsedJTL(rows).errors.num = f /\ ParsedJTL(rows).errors.den = q
      BY <1>13, <2>3
    <3> QED BY <1>13, <2>1, <2>3, <3>1 DEF Rates
  <2> QED BY <2>2, <2>3
<1> QED
  BY <1>7, <1>11, <1>12, <1>13, <1>14

LEMMA MergedIs ==
    ASSUME NEW a, NEW b, NEW r \in Nat, NEW s \in Nat, NEW f \in Nat, NEW g \in Nat,
           Rates(a, r, f), Rates(b, s, g)
    PROVE  Rates(Merged(a, b), r + s, f + g) /\ Merged(a, b).p95 = Max({a.p95, b.p95})
<1>1. PICK x \in Int, y \in Nat \ {0} : a.errors.num = x /\ a.errors.den = y /\ x * r = y * f
  BY DEF Rates
<1>2. PICK v \in Int, w \in Nat \ {0} : b.errors.num = v /\ b.errors.den = w /\ v * s = w * g
  BY DEF Rates
<1>3. a.requests = r /\ b.requests = s /\ (r = 0 => f = 0) /\ (s = 0 => g = 0)
  BY DEF Rates
<1>4. PICK t \in Nat : t = r + s
  OBVIOUS
<1>5. Merged(a, b)
      = [requests |-> t,
         errors   |-> IF t = 0 THEN [num |-> 0, den |-> 1]
                      ELSE [num |-> x * r * w + v * s * y, den |-> y * w * t],
         p95      |-> Max({a.p95, b.p95})]
  BY <1>1, <1>2, <1>3, <1>4 DEF Merged
<1>6. CASE t = 0
  <2>1. f + g = 0 /\ 0 * t = 0 /\ 1 * (f + g) = 0
    BY <1>3, <1>4, <1>6
  <2>2. Merged(a, b) = [requests |-> 0, errors |-> [num |-> 0, den |-> 1],
                        p95 |-> Max({a.p95, b.p95})]
    BY <1>5, <1>6
  <2> QED BY <1>4, <1>6, <2>1, <2>2 DEF Rates
<1>7. CASE t # 0
  <2> DEFINE num == x * r * w + v * s * y
             den == y * w * t
  <2>1. num = y * w * (f + g)
    <3>1. x * r * w = y * f * w /\ v * s * y = w * g * y
      BY <1>1, <1>2
    <3>2. \A i, j, k, l \in Int : i * j * k + k * l * i = i * k * (j + l)
      OBVIOUS
    <3>3. y * f * w + w * g * y = y * w * (f + g)
      BY <3>2
    <3> QED BY <3>1, <3>3
  <2>2. num * t = den * (f + g)
    <3>1. \A i, j, k \in Int : (i * j) * k = (i * k) * j
      OBVIOUS
    <3>2. y * w \in Int /\ f + g \in Int
      OBVIOUS
    <3> QED BY <2>1, <3>1, <3>2
  <2>3. num \in Int /\ den \in Nat \ {0}
    <3>1. num \in Int
      BY <2>1
    <3>2. \A i, j \in Nat \ {0} : i * j \in Nat \ {0}
      OBVIOUS
    <3>3. y * w \in Nat \ {0} /\ t \in Nat \ {0}
      BY <1>7, <3>2
    <3>4. den \in Nat \ {0}
      BY <3>2, <3>3
    <3> QED BY <3>1, <3>4
  <2> HIDE DEF num, den
  <2>4. Merged(a, b) = [requests |-> t, errors |-> [num |-> num, den |-> den],
                        p95 |-> Max({a.p95, b.p95})]
    BY <1>5, <1>7 DEF num, den
  <2>5. Merged(a, b).requests = t /\ Merged(a, b).errors.num = num
        /\ Merged(a, b).errors.den = den /\ Merged(a, b).p95 = Max({a.p95, b.p95})
    BY <2>4
  <2> QED BY <1>4, <1>7, <2>2, <2>3, <2>5 DEF Rates
<1> QED
  BY <1>6, <1>7

\* s is what the first n of some files add up to.
Tallied(s, n, files) ==
    /\ Rates(s, Sum([w \in 1..n |-> Requests(files[w])]),
                Sum([w \in 1..n |-> Failures(files[w])]))
    /\ s.p95 \in Nat
    /\ \A limit \in Int :
          s.p95 <= limit <=> \A w \in 1..n : Percentile(Latencies(files[w]), 95) <= limit

LEMMA TalliedSame ==
    ASSUME NEW s, NEW n \in Nat, NEW F, NEW H, Tallied(s, n, F),
           \A w \in 1..n : F[w] = H[w]
    PROVE  Tallied(s, n, H)
<1>1. /\ [w \in 1..n |-> Requests(F[w])] = [w \in 1..n |-> Requests(H[w])]
      /\ [w \in 1..n |-> Failures(F[w])] = [w \in 1..n |-> Failures(H[w])]
  OBVIOUS
<1>2. \A w \in 1..n : Percentile(Latencies(F[w]), 95) = Percentile(Latencies(H[w]), 95)
  OBVIOUS
<1> QED
  BY <1>1, <1>2 DEF Tallied

LEMMA SumsOf ==
    ASSUME NEW n \in Nat, NEW F, \A w \in 1..n : F[w] \in Seq(Responses)
    PROVE  /\ Sum([w \in 1..n |-> Requests(F[w])]) \in Nat
           /\ Sum([w \in 1..n |-> Failures(F[w])]) \in Nat
<1> DEFINE S == 1..n
           r == [w \in S |-> Requests(F[w])]
           f == [w \in S |-> Failures(F[w])]
<1>1. IsFiniteSet(S)
  BY FS_Interval
<1>2. \A w \in S : Requests(F[w]) \in Nat /\ Failures(F[w]) \in Nat
  BY CountsAre
<1>3. r \in [S -> Int] /\ f \in [S -> Int] /\ \A w \in S : r[w] \in Nat /\ f[w] \in Nat
  BY <1>2
<1>4. Sum(r) \in Nat /\ Sum(f) \in Nat
  <2> HIDE DEF S, r, f
  <2> QED BY <1>1, <1>3, SumType
<1> QED
  BY <1>4

\* The sums with one more file.
LEMMA SumsNext ==
    ASSUME NEW n \in Nat, NEW F, \A w \in 1..(n + 1) : F[w] \in Seq(Responses)
    PROVE  /\ Sum([w \in 1..(n + 1) |-> Requests(F[w])])
                = Requests(F[n + 1]) + Sum([w \in 1..n |-> Requests(F[w])])
           /\ Sum([w \in 1..(n + 1) |-> Failures(F[w])])
                = Failures(F[n + 1]) + Sum([w \in 1..n |-> Failures(F[w])])
<1> DEFINE r == [w \in 1..(n + 1) |-> Requests(F[w])]
           f == [w \in 1..(n + 1) |-> Failures(F[w])]
<1>1. \A w \in 1..(n + 1) : Requests(F[w]) \in Int /\ Failures(F[w]) \in Int
  <2> SUFFICES ASSUME NEW w \in 1..(n + 1)
               PROVE  Requests(F[w]) \in Int /\ Failures(F[w]) \in Int
    OBVIOUS
  <2>1. Requests(F[w]) \in Nat /\ Failures(F[w]) \in Nat
    BY CountsAre
  <2> QED BY <2>1
<1>2. r \in [1..(n + 1) -> Int] /\ f \in [1..(n + 1) -> Int]
  BY <1>1
<1>3. /\ [w \in 1..n |-> r[w]] = [w \in 1..n |-> Requests(F[w])]
      /\ [w \in 1..n |-> f[w]] = [w \in 1..n |-> Failures(F[w])]
      /\ r[n + 1] = Requests(F[n + 1]) /\ f[n + 1] = Failures(F[n + 1])
  OBVIOUS
<1> HIDE DEF r, f
<1>4. Sum(r) = r[n + 1] + Sum([w \in 1..n |-> r[w]])
  BY <1>2, SumLast
<1>5. Sum(f) = f[n + 1] + Sum([w \in 1..n |-> f[w]])
  BY <1>2, SumLast
<1>6. Sum(r) = Requests(F[n + 1]) + Sum([w \in 1..n |-> Requests(F[w])])
  BY <1>3, <1>4
<1>7. Sum(f) = Failures(F[n + 1]) + Sum([w \in 1..n |-> Failures(F[w])])
  BY <1>3, <1>5
<1> QED
  BY <1>6, <1>7 DEF r, f

LEMMA TalliedOne ==
    ASSUME NEW F, F[1] \in Seq(Responses)
    PROVE  Tallied(ParsedJTL(F[1]), 1, F)
<1>1. /\ Rates(ParsedJTL(F[1]), Requests(F[1]), Failures(F[1]))
      /\ ParsedJTL(F[1]).p95 = Percentile(Latencies(F[1]), 95)
      /\ ParsedJTL(F[1]).p95 \in Nat
  BY ParsedIs
<1>2. Requests(F[1]) \in Nat /\ Failures(F[1]) \in Nat
  BY CountsAre
<1> DEFINE r == [w \in 1..0 |-> Requests(F[w])]
           f == [w \in 1..0 |-> Failures(F[w])]
<1>3. Sum(r) = 0 /\ Sum(f) = 0
  <2>1. DOMAIN r = {} /\ DOMAIN f = {}
    OBVIOUS
  <2> HIDE DEF r, f
  <2> QED BY <2>1, SumEmpty
<1> HIDE DEF r, f
<1>4. /\ Sum([w \in 1..(0 + 1) |-> Requests(F[w])]) = Requests(F[0 + 1]) + Sum(r)
      /\ Sum([w \in 1..(0 + 1) |-> Failures(F[w])]) = Failures(F[0 + 1]) + Sum(f)
  <2>1. 0 \in Nat /\ \A w \in 1..(0 + 1) : F[w] \in Seq(Responses)
    <3>1. \A w \in 1..(0 + 1) : w = 1
      OBVIOUS
    <3> QED BY <3>1
  <2> QED BY <2>1, SumsNext DEF r, f
<1>5. /\ Sum([w \in 1..1 |-> Requests(F[w])]) = Requests(F[1])
      /\ Sum([w \in 1..1 |-> Failures(F[w])]) = Failures(F[1])
  <2>1. 0 + 1 = 1 /\ (\A x \in Nat : x + 0 = x)
    OBVIOUS
  <2> QED BY <1>2, <1>3, <1>4, <2>1
<1>6. \A w \in 1..1 : w = 1
  OBVIOUS
<1>7. 1 \in 1..1
  OBVIOUS
<1> QED
  BY <1>1, <1>5, <1>6, <1>7 DEF Tallied

LEMMA TalliedNext ==
    ASSUME NEW n \in Nat \ {0}, NEW F, \A w \in 1..(n + 1) : F[w] \in Seq(Responses),
           NEW s, Tallied(s, n, F)
    PROVE  Tallied(Merged(s, ParsedJTL(F[n + 1])), n + 1, F)
<1> DEFINE one == ParsedJTL(F[n + 1])
           R   == Sum([w \in 1..n |-> Requests(F[w])])
           E   == Sum([w \in 1..n |-> Failures(F[w])])
           r   == Requests(F[n + 1])
           e   == Failures(F[n + 1])
           P(w) == Percentile(Latencies(F[w]), 95)
<1>0. F[n + 1] \in Seq(Responses) /\ \A w \in 1..n : F[w] \in Seq(Responses)
  OBVIOUS
<1>1. Rates(one, r, e) /\ one.p95 = P(n + 1) /\ one.p95 \in Nat
  BY <1>0, ParsedIs
<1>2. r \in Nat /\ e \in Nat
  BY <1>0, CountsAre
<1>3. R \in Nat /\ E \in Nat
  BY <1>0, SumsOf
<1>4. Sum([w \in 1..(n + 1) |-> Requests(F[w])]) = r + R
      /\ Sum([w \in 1..(n + 1) |-> Failures(F[w])]) = e + E
  BY SumsNext
<1>5. Rates(s, R, E) /\ s.p95 \in Nat
      /\ \A limit \in Int : s.p95 <= limit <=> \A w \in 1..n : P(w) <= limit
  BY DEF Tallied
<1> HIDE DEF one, R, E, r, e, P
<1>6. Rates(Merged(s, one), R + r, E + e) /\ Merged(s, one).p95 = Max({s.p95, one.p95})
  BY <1>1, <1>2, <1>3, <1>5, MergedIs
<1>7. R + r = r + R /\ E + e = e + E
  BY <1>2, <1>3
<1>8. Merged(s, one).p95 = IF s.p95 >= one.p95 THEN s.p95 ELSE one.p95
  BY <1>1, <1>5, <1>6, MaxOfTwo
<1>9. Merged(s, one).p95 \in Nat
      /\ \A limit \in Int : Merged(s, one).p95 <= limit
            <=> s.p95 <= limit /\ P(n + 1) <= limit
  <2>1. PICK a \in Nat, b \in Nat : a = s.p95 /\ b = one.p95 /\ b = P(n + 1)
    BY <1>1, <1>5
  <2> QED BY <1>8, <2>1
<1>10. \A limit \in Int : Merged(s, one).p95 <= limit
            <=> \A w \in 1..(n + 1) : P(w) <= limit
  <2>1. \A w \in 1..(n + 1) : w \in 1..n \/ w = n + 1
    OBVIOUS
  <2>2. \A w \in 1..n : w \in 1..(n + 1)
    OBVIOUS
  <2>3. n + 1 \in 1..(n + 1)
    OBVIOUS
  <2> QED BY <1>5, <1>9, <2>1, <2>2, <2>3
<1> QED
  BY <1>4, <1>6, <1>7, <1>9, <1>10 DEF Tallied, one, P

-----------------------------------------------------------------------------
(* From the files to the verdict.                                              *)

\* The part of each file that was read.
Files == [w \in Fleet |-> SubSeq(jtl[w], 1, read[w])]

\* There is a fleet with a file for each worker once dispatch is done.
Dispatched ==
    /\ Len(fleet) \in Nat \ {0}
    /\ box \in [Fleet -> {"none", "running", "exited"}]
    /\ jtl \in [Fleet -> Seq(Responses)]
    /\ read \in [Fleet -> Nat]
    /\ \A w \in Fleet : read[w] <= Len(jtl[w])
    /\ next \in 1..(Len(fleet) + 1)
    /\ pc \in {"start", "wait"} => next <= Len(fleet)

\* Workers that were waited for and did not time out have stopped writing.
Waited ==
    /\ pc = "wait" => \A w \in Fleet : w < next /\ w \notin late => box[w] = "exited"
    /\ pc \in {"read", "judged"} =>
          /\ \A w \in Fleet : w \notin late => box[w] = "exited"
          /\ \A w \in Fleet : w < next /\ w \notin late => read[w] = Len(jtl[w])

\* The summary is what the files read so far add up to, and the verdict is that
\* of the summary.
Summarised ==
    /\ pc \in {"read", "judged"} /\ next > 1 => Tallied(summary, next - 1, Files)
    /\ pc = "judged" => next = Len(fleet) + 1 /\ status = StatusOf(summary, job.sla)

VerdictInv ==
    /\ pc \in {"new", "saved", "start", "wait", "read", "judged", "refused"}
    /\ pc \in {"new", "saved"} => fleet = <<>> /\ next = 1
    /\ pc \notin {"new", "saved"} => Dispatched /\ Waited /\ Summarised

LEMMA FilesAre ==
    ASSUME Dispatched
    PROVE  \A w \in Fleet : Files[w] \in Seq(Responses) /\ Len(Files[w]) = read[w]
                            /\ \A i \in 1..read[w] : Files[w][i] = jtl[w][i]
<1> SUFFICES ASSUME NEW w \in Fleet
             PROVE  Files[w] \in Seq(Responses) /\ Len(Files[w]) = read[w]
                    /\ \A i \in 1..read[w] : Files[w][i] = jtl[w][i]
  OBVIOUS
<1>1. PICK s, k : s = jtl[w] /\ k = read[w]
  OBVIOUS
<1>2. s \in Seq(Responses) /\ k \in Nat /\ k <= Len(s)
  BY <1>1 DEF Dispatched
<1>3. SubSeq(s, 1, k) \in Seq(Responses) /\ Len(SubSeq(s, 1, k)) = k
      /\ \A i \in 1..k : SubSeq(s, 1, k)[i] = s[i]
  BY <1>2
<1> QED
  BY <1>1, <1>3 DEF Files

LEMMA VerdictInit == Init => VerdictInv
BY DEF Init, VerdictInv

LEMMA VerdictSave == VerdictInv /\ Save => VerdictInv'
BY DEF VerdictInv, Save

LEMMA VerdictDispatch ==
    ASSUME PlanInv, VerdictInv, Dispatch
    PROVE  VerdictInv'
<1>1. StoredAsSaved /\ job \in Jobs
  BY DEF Dispatch, PlanInv
<1>2. PICK workers, total, segs, duration :
              /\ Decided(workers, total, segs, duration)'
              /\ box' = [w \in 1..workers |-> "none"]
              /\ jtl' = [w \in 1..workers |-> <<>>]
              /\ read' = [w \in 1..workers |-> 0]
  BY <1>1, DispatchDecides
<1> DEFINE Plan(w) == [groups |-> GroupsOf(SplitAcross(total, workers)[w], total, workers = 1,
                                           job.mode = "arrivals", segs, duration)',
                       rows   |-> RowsOf(w, workers, job.rows, job.raw)']
<1>3. fleet' = [w \in 1..workers |-> Plan(w)] /\ workers \in Nat \ {0}
  BY <1>2 DEF Decided
<1> HIDE DEF Plan
<1>4. Len(fleet') = workers
  BY <1>3
<1>5. next' = 1 /\ pc' = "start"
  BY DEF Dispatch, VerdictInv
<1>6. \A w \in 1..workers : jtl'[w] = <<>> /\ read'[w] = 0
  BY <1>2
<1>7. Dispatched'
  <2>1. Fleet' = 1..workers
    BY <1>4 DEF Fleet
  <2>2. <<>> \in Seq(Responses) /\ Len(<<>>) = 0
    OBVIOUS
  <2>3. jtl' \in [Fleet' -> Seq(Responses)]
    BY <1>2, <2>1, <2>2
  <2>4. box' \in [Fleet' -> {"none", "running", "exited"}] /\ read' \in [Fleet' -> Nat]
    BY <1>2, <2>1
  <2>5. \A w \in Fleet' : read'[w] <= Len(jtl'[w])
    BY <1>6, <2>1, <2>2
  <2>6. next' \in 1..(Len(fleet') + 1) /\ next' <= Len(fleet') /\ Len(fleet') \in Nat \ {0}
    BY <1>3, <1>4, <1>5
  <2> QED BY <2>3, <2>4, <2>5, <2>6 DEF Dispatched
<1>8. Waited' /\ Summarised'
  BY <1>5 DEF Waited, Summarised
<1> QED
  BY <1>5, <1>7, <1>8 DEF VerdictInv

LEMMA VerdictStart ==
    ASSUME VerdictInv, StartWorker
    PROVE  VerdictInv'
<1>1. Dispatched /\ pc = "start" /\ next \in Fleet
  BY DEF VerdictInv, StartWorker, Dispatched, Fleet
<1>2. Fleet' = Fleet /\ fleet' = fleet /\ jtl' = jtl /\ read' = read
  BY DEF StartWorker, Fleet
<1>3. box' \in [Fleet -> {"none", "running", "exited"}]
  BY <1>1 DEF StartWorker, Dispatched
<1>4. \/ pc' = "wait" /\ next' = 1
      \/ pc' = "start" /\ next' = next + 1 /\ next # Len(fleet)
  BY <1>1 DEF StartWorker
<1>5. next' \in 1..(Len(fleet) + 1) /\ next' <= Len(fleet)
  BY <1>1, <1>4 DEF Dispatched
<1>6. Dispatched'
  BY <1>1, <1>2, <1>3, <1>5 DEF Dispatched
<1>7. Waited' /\ Summarised'
  <2>1. pc' = "wait" => \A w \in Fleet' : ~(w < next')
    BY <1>2, <1>4 DEF Fleet
  <2> QED BY <1>4, <2>1 DEF Waited, Summarised
<1> QED
  BY <1>4, <1>6, <1>7 DEF VerdictInv

LEMMA VerdictRefused == VerdictInv /\ StartFails => VerdictInv'
<1> SUFFICES ASSUME VerdictInv, StartFails PROVE VerdictInv'
  OBVIOUS
<1>1. Dispatched /\ pc' = "refused"
  BY DEF VerdictInv, StartFails
<1>2. Dispatched'
  BY <1>1 DEF StartFails, Dispatched, Fleet
<1> QED
  BY <1>1, <1>2 DEF VerdictInv, Waited, Summarised

\* A worker that writes or stops leaves the part of its file that was read.
LEMMA FilesKept ==
    ASSUME Dispatched, Dispatched', Fleet' = Fleet, read' = read,
           \A w \in Fleet : \A i \in 1..Len(jtl[w]) : jtl'[w][i] = jtl[w][i]
    PROVE  \A w \in Fleet : Files'[w] = Files[w]
<1> SUFFICES ASSUME NEW w \in Fleet PROVE Files'[w] = Files[w]
  OBVIOUS
<1>1. PICK s, t, k : s = jtl[w] /\ t = jtl'[w] /\ k = read[w]
  OBVIOUS
<1>2. s \in Seq(Responses) /\ k \in Nat /\ k <= Len(s) /\ t \in Seq(Responses) /\ k <= Len(t)
      /\ \A i \in 1..Len(s) : t[i] = s[i]
  BY <1>1 DEF Dispatched
<1>3. SubSeq(s, 1, k) = SubSeq(t, 1, k)
  <2>1. /\ SubSeq(s, 1, k) = [i \in 1..k |-> s[i]]
        /\ SubSeq(t, 1, k) = [i \in 1..k |-> t[i]]
    BY <1>2
  <2>2. \A i \in 1..k : t[i] = s[i]
    BY <1>2
  <2> QED BY <2>1, <2>2
<1> QED
  BY <1>1, <1>3 DEF Files

LEMMA VerdictSample ==
    ASSUME VerdictInv, NEW w \in Fleet, Sample(w)
    PROVE  VerdictInv'
<1>1. PICK row \in Responses : jtl' = [jtl EXCEPT ![w] = Append(@, row)]
  BY DEF Sample
<1>2. /\ fleet' = fleet /\ Fleet' = Fleet /\ box' = box /\ read' = read /\ next' = next
      /\ pc' = pc /\ late' = late /\ summary' = summary /\ status' = status /\ job' = job
      /\ box[w] = "running"
  BY DEF Sample, Fleet
<1>3. pc \notin {"new", "saved"} /\ Dispatched /\ Waited /\ Summarised
  <2>1. fleet # <<>>
    BY DEF Fleet
  <2> QED BY <2>1 DEF VerdictInv
<1>4. /\ jtl' \in [Fleet -> Seq(Responses)]
      /\ \A v \in Fleet : v # w => jtl'[v] = jtl[v]
      /\ jtl'[w] = Append(jtl[w], row)
  BY <1>1, <1>3 DEF Dispatched
<1>5. \A v \in Fleet : Len(jtl'[v]) >= Len(jtl[v])
                       /\ \A i \in 1..Len(jtl[v]) : jtl'[v][i] = jtl[v][i]
  <2> SUFFICES ASSUME NEW v \in Fleet
               PROVE  Len(jtl'[v]) >= Len(jtl[v])
                      /\ \A i \in 1..Len(jtl[v]) : jtl'[v][i] = jtl[v][i]
    OBVIOUS
  <2>1. PICK s : s = jtl[v] /\ s \in Seq(Responses)
    BY <1>3 DEF Dispatched
  <2>2. CASE v = w
    <3>1. jtl'[v] = Append(s, row)
      BY <1>4, <2>1, <2>2
    <3>2. Len(Append(s, row)) >= Len(s) /\ \A i \in 1..Len(s) : Append(s, row)[i] = s[i]
      BY <2>1
    <3> QED BY <2>1, <3>1, <3>2
  <2>3. CASE v # w
    <3>1. Len(s) >= Len(s)
      BY <2>1
    <3> QED BY <1>4, <2>1, <2>3, <3>1
  <2> QED BY <2>2, <2>3
<1>6. Dispatched'
  <2>1. \A v \in Fleet : read[v] <= Len(jtl'[v])
    <3> SUFFICES ASSUME NEW v \in Fleet PROVE read[v] <= Len(jtl'[v])
      OBVIOUS
    <3>1. read[v] \in Nat /\ read[v] <= Len(jtl[v]) /\ Len(jtl[v]) \in Nat
      BY <1>3 DEF Dispatched
    <3>2. Len(jtl'[v]) \in Nat
      BY <1>4
    <3> QED BY <1>5, <3>1, <3>2
  <2> QED BY <1>2, <1>3, <1>4, <2>1 DEF Dispatched
<1>7. Waited'
  <2>1. pc \in {"read", "judged"} => w \in late
    BY <1>2, <1>3 DEF Waited
  <2>2. pc \in {"read", "judged"} =>
           \A v \in Fleet : v < next /\ v \notin late => read[v] = Len(jtl'[v])
    BY <1>3, <1>4, <2>1 DEF Waited
  <2> QED BY <1>2, <1>3, <2>2 DEF Waited
<1>8. Summarised'
  <2>1. \A v \in Fleet : Files[v] = Files'[v]
    BY <1>2, <1>3, <1>5, <1>6, FilesKept
  <2>2. ASSUME pc \in {"read", "judged"}, next > 1
        PROVE  Tallied(summary, next - 1, Files')
    <3>1. Tallied(summary, next - 1, Files)
      BY <1>3, <2>2 DEF Summarised
    <3>2. next - 1 \in Nat /\ \A v \in 1..(next - 1) : v \in Fleet
      BY <1>3, <2>2 DEF Dispatched, Fleet
    <3>3. \A v \in 1..(next - 1) : Files[v] = Files'[v]
      BY <2>1, <3>2
    <3>4. PICK n, F, H : n = next - 1 /\ F = Files /\ H = Files'
      OBVIOUS
    <3> QED BY <3>1, <3>2, <3>3, <3>4, TalliedSame
  <2> QED BY <1>2, <1>3, <2>2 DEF Summarised
<1> QED
  BY <1>2, <1>3, <1>6, <1>7, <1>8 DEF VerdictInv

LEMMA VerdictExit ==
    ASSUME VerdictInv, NEW w \in Fleet, Exit(w)
    PROVE  VerdictInv'
<1>1. box' = [box EXCEPT ![w] = "exited"]
  BY DEF Exit
<1>2. /\ fleet' = fleet /\ Fleet' = Fleet /\ jtl' = jtl /\ read' = read /\ next' = next
      /\ pc' = pc /\ late' = late /\ summary' = summary /\ status' = status /\ job' = job
  BY DEF Exit, Fleet
<1>3. pc \notin {"new", "saved"} /\ Dispatched /\ Waited /\ Summarised
  <2>1. fleet # <<>>
    BY DEF Fleet
  <2> QED BY <2>1 DEF VerdictInv
<1>4. box' \in [Fleet -> {"none", "running", "exited"}]
      /\ \A v \in Fleet : box[v] = "exited" => box'[v] = "exited"
  BY <1>1, <1>3 DEF Dispatched
<1>5. Dispatched'
  BY <1>2, <1>3, <1>4 DEF Dispatched
<1>6. Waited'
  BY <1>2, <1>3, <1>4 DEF Waited
<1>7. Files' = Files
  BY <1>2 DEF Files
<1>8. Summarised'
  BY <1>2, <1>3, <1>7 DEF Summarised
<1> QED
  BY <1>2, <1>3, <1>5, <1>6, <1>8 DEF VerdictInv

LEMMA VerdictWait ==
    ASSUME VerdictInv, WaitEnds
    PROVE  VerdictInv'
<1>1. Dispatched /\ Waited /\ pc = "wait" /\ next \in Fleet
  BY DEF VerdictInv, WaitEnds, Dispatched, Fleet
<1>2. Fleet' = Fleet /\ fleet' = fleet /\ jtl' = jtl /\ read' = read /\ box' = box
  BY DEF WaitEnds, Fleet
<1>3. \/ pc' = "read" /\ next' = 1 /\ next = Len(fleet)
      \/ pc' = "wait" /\ next' = next + 1 /\ next # Len(fleet)
  BY <1>1 DEF WaitEnds
<1>4. next' \in 1..(Len(fleet) + 1) /\ next' <= Len(fleet) /\ next \in Nat /\ Len(fleet) \in Nat
  BY <1>1, <1>3 DEF Dispatched
<1>5. Dispatched'
  BY <1>1, <1>2, <1>4 DEF Dispatched
<1>6. \A w \in Fleet : w <= next /\ w \notin late' => box[w] = "exited"
  <2> SUFFICES ASSUME NEW w \in Fleet, w <= next, w \notin late' PROVE box[w] = "exited"
    OBVIOUS
  <2>1. w \in Int
    BY DEF Fleet
  <2>2. late \subseteq late' /\ (box[next] = "exited" \/ next \in late')
    BY DEF WaitEnds
  <2>3. CASE w = next
    BY <2>2, <2>3
  <2>4. CASE w < next
    BY <1>1, <2>2, <2>4 DEF Waited
  <2> QED BY <1>4, <2>1, <2>3, <2>4
<1>7. Waited'
  <2>1. CASE pc' = "read" /\ next' = 1 /\ next = Len(fleet)
    <3>1. \A w \in Fleet : w <= next /\ ~(w < next')
      BY <1>4, <2>1 DEF Fleet
    <3> QED BY <1>2, <1>6, <2>1, <3>1 DEF Waited
  <2>2. CASE pc' = "wait" /\ next' = next + 1
    <3>1. \A w \in Fleet : w < next' => w <= next
      BY <1>4, <2>2 DEF Fleet
    <3> QED BY <1>2, <1>6, <2>2, <3>1 DEF Waited
  <2> QED BY <1>3, <2>1, <2>2
<1>8. Summarised'
  BY <1>3 DEF Summarised
<1> QED
  BY <1>3, <1>5, <1>7, <1>8 DEF VerdictInv

LEMMA VerdictRead ==
    ASSUME VerdictInv, ReadJTL
    PROVE  VerdictInv'
<1>1. Dispatched /\ Waited /\ Summarised /\ pc = "read" /\ next \in Fleet
  BY DEF VerdictInv, ReadJTL, Dispatched, Fleet
<1>2. /\ Fleet' = Fleet /\ fleet' = fleet /\ jtl' = jtl /\ box' = box /\ late' = late
      /\ pc' = "read" /\ next' = next + 1 /\ read' = [read EXCEPT ![next] = Len(jtl[next])]
  BY <1>1 DEF ReadJTL, Fleet
<1>3. /\ next \in Nat \ {0} /\ next <= Len(fleet) /\ Len(fleet) \in Nat
      /\ jtl[next] \in Seq(Responses)
  BY <1>1 DEF Dispatched, Fleet
<1>4. /\ read' \in [Fleet -> Nat] /\ read'[next] = Len(jtl[next])
      /\ \A w \in Fleet : w # next => read'[w] = read[w]
  BY <1>1, <1>2, <1>3 DEF Dispatched
<1>5. Dispatched'
  <2>1. \A w \in Fleet : read'[w] <= Len(jtl[w])
    <3>1. Len(jtl[next]) <= Len(jtl[next])
      BY <1>3
    <3> QED BY <1>1, <1>4, <3>1 DEF Dispatched
  <2>2. next' \in 1..(Len(fleet) + 1)
    BY <1>2, <1>3
  <2> QED BY <1>1, <1>2, <1>4, <2>1, <2>2 DEF Dispatched
<1>6. Waited'
  <2>1. \A w \in Fleet : w < next' => w = next \/ w < next
    BY <1>2, <1>3 DEF Fleet
  <2>2. \A w \in Fleet : w < next' /\ w \notin late => read'[w] = Len(jtl[w])
    BY <1>1, <1>4, <2>1 DEF Waited
  <2> QED BY <1>1, <1>2, <2>2 DEF Waited
<1>7. Tallied(summary', next, Files')
  <2>1. PICK n, F, H, s, t : n = next /\ F = Files /\ H = Files' /\ s = summary /\ t = summary'
    OBVIOUS
  <2>2. H[n] = jtl[n] /\ jtl[n] \in Seq(Responses)
    <3>1. Files' = [w \in Fleet |-> SubSeq(jtl[w], 1, read'[w])]
      BY <1>2 DEF Files
    <3>2. \A x \in Seq(Responses) : SubSeq(x, 1, Len(x)) = x
      OBVIOUS
    <3> QED BY <1>1, <1>3, <1>4, <2>1, <3>1, <3>2
  <2>3. \A w \in 1..(n - 1) : F[w] = H[w] /\ F[w] \in Seq(Responses)
    <3> SUFFICES ASSUME NEW w \in 1..(n - 1)
                 PROVE  F[w] = H[w] /\ F[w] \in Seq(Responses)
      OBVIOUS
    <3>1. w \in Fleet /\ w # next
      BY <1>3, <2>1 DEF Fleet
    <3>2. Files'[w] = SubSeq(jtl[w], 1, read'[w]) /\ Files[w] = SubSeq(jtl[w], 1, read[w])
      BY <1>2, <3>1 DEF Files
    <3>3. Files[w] \in Seq(Responses)
      BY <1>1, <3>1, FilesAre
    <3> QED BY <1>4, <2>1, <3>1, <3>2, <3>3
  <2>4. t = IF n = 1 THEN ParsedJTL(H[n]) ELSE Merged(s, ParsedJTL(H[n]))
    BY <2>1, <2>2 DEF ReadJTL
  <2>5. ASSUME n = 1 PROVE Tallied(t, n, H)
    BY <2>2, <2>4, <2>5, TalliedOne
  <2>6. ASSUME n # 1 PROVE Tallied(t, n, H)
    <3>1. PICK m \in Nat \ {0} : n = m + 1 /\ m = n - 1
      <4>1. n - 1 \in Nat \ {0} /\ n = (n - 1) + 1
        BY <1>3, <2>1, <2>6
      <4> QED BY <4>1
    <3>2. Tallied(s, m, F)
      <4>1. next > 1 /\ next - 1 = m
        BY <1>3, <2>1, <2>6, <3>1
      <4> QED BY <1>1, <2>1, <4>1 DEF Summarised
    <3>3. Tallied(s, m, H)
      BY <2>3, <3>1, <3>2, TalliedSame
    <3>4. \A w \in 1..(m + 1) : H[w] \in Seq(Responses)
      <4>1. \A w \in 1..(m + 1) : w = n \/ w \in 1..(n - 1)
        BY <3>1
      <4> QED BY <2>2, <2>3, <4>1
    <3>5. Tallied(Merged(s, ParsedJTL(H[m + 1])), m + 1, H)
      BY <3>3, <3>4, TalliedNext
    <3> QED BY <2>4, <2>6, <3>1, <3>5
  <2>7. Tallied(t, n, H)
    BY <2>5, <2>6
  <2> QED BY <2>1, <2>7
<1>8. Summarised'
  <2>1. next' - 1 = next
    BY <1>2, <1>3
  <2> QED BY <1>2, <1>7, <2>1 DEF Summarised
<1> QED
  BY <1>2, <1>5, <1>6, <1>8 DEF VerdictInv

LEMMA VerdictJudge ==
    ASSUME VerdictInv, Judge
    PROVE  VerdictInv'
<1>1. Dispatched /\ Waited /\ Summarised /\ pc = "read" /\ next > Len(fleet)
  BY DEF VerdictInv, Judge
<1>2. /\ Fleet' = Fleet /\ fleet' = fleet /\ jtl' = jtl /\ box' = box /\ late' = late
      /\ pc' = "judged" /\ next' = next /\ read' = read /\ summary' = summary /\ job' = job
      /\ status' = StatusOf(summary, job.sla)
  BY DEF Judge, Fleet
<1>3. next = Len(fleet) + 1 /\ next > 1
  BY <1>1 DEF Dispatched
<1>4. Dispatched'
  BY <1>1, <1>2 DEF Dispatched
<1>5. Waited'
  BY <1>1, <1>2 DEF Waited
<1>6. Files' = Files
  BY <1>2 DEF Files
<1>7. Summarised'
  BY <1>1, <1>2, <1>3, <1>6 DEF Summarised
<1> QED
  BY <1>2, <1>4, <1>5, <1>7 DEF VerdictInv

LEMMA VerdictInvariant == Spec => []VerdictInv
<1>1. PlanInv /\ VerdictInv /\ [Next]_vars => VerdictInv'
  <2> SUFFICES ASSUME PlanInv, VerdictInv, [Next]_vars PROVE VerdictInv'
    OBVIOUS
  <2>1. CASE \E w \in Fleet : Sample(w) \/ Exit(w)
    BY <2>1, VerdictSample, VerdictExit
  <2>2. CASE UNCHANGED vars
    BY <2>2 DEF vars, VerdictInv, Dispatched, Waited, Summarised, Files, Fleet
  <2> QED
    BY <2>1, <2>2, VerdictSave, VerdictDispatch, VerdictStart, VerdictRefused,
       VerdictWait, VerdictRead, VerdictJudge DEF Next
<1> QED
  BY <1>1, VerdictInit, PlanInvariant, PTL DEF Spec

\* What the errors of a summary say of a limit.
LEMMA RateWithin ==
    ASSUME NEW s, NEW total \in Nat \ {0}, NEW failed \in Nat, Rates(s, total, failed),
           NEW limit \in [num : Int, den : Nat \ {0}]
    PROVE  ~Exceeds(s.errors, limit) <=> failed * limit.den <= limit.num * total
<1>1. PICK num \in Int, den \in Nat \ {0} :
          s.errors.num = num /\ s.errors.den = den /\ num * total = den * failed
  BY DEF Rates
<1>2. PICK a \in Int, b \in Nat \ {0} : limit.num = a /\ limit.den = b
  OBVIOUS
<1>3. /\ (num * b) * total = (failed * b) * den
      /\ (a * den) * total = (a * total) * den
  BY <1>1, Scaled
<1>4. PICK x \in Int, y \in Int, u \in Int, v \in Int :
          x = num * b /\ y = a * den /\ u = failed * b /\ v = a * total
  OBVIOUS
<1>5. x <= y <=> x * total <= y * total
  BY Scaled
<1>6. u <= v <=> u * den <= v * den
  BY Scaled
<1>7. x <= y <=> u <= v
  BY <1>3, <1>4, <1>5, <1>6
<1>8. ~(x > y) <=> x <= y
  OBVIOUS
<1> QED
  BY <1>1, <1>2, <1>4, <1>7, <1>8 DEF Exceeds

\* What was measured was measured by some worker.
LEMMA SomeMeasured ==
    ASSUME NEW n \in Nat, NEW F, \A w \in 1..n : F[w] \in Seq(Responses),
           Sum([w \in 1..n |-> Requests(F[w])]) > 0
    PROVE  \E w \in 1..n : Kept(F[w]) > 0
<1> SUFFICES ASSUME \A w \in 1..n : ~(Kept(F[w]) > 0)
             PROVE  FALSE
  OBVIOUS
<1> DEFINE S == 1..n
           r == [w \in S |-> Requests(F[w])]
<1>1. \A w \in S : Requests(F[w]) = 0
  <2> SUFFICES ASSUME NEW w \in S PROVE Requests(F[w]) = 0
    OBVIOUS
  <2>1. /\ Kept(F[w]) \in Nat
        /\ Kept(F[w]) = 0 <=> Len(F[w]) = 0
        /\ Requests(F[w]) = 0 <=> Len(F[w]) = 0
    BY CountsAre
  <2> QED BY <2>1
<1>2. IsFiniteSet(S) /\ DOMAIN r = S /\ \A w \in S : r[w] \in {0}
  <2>1. IsFiniteSet(S)
    BY FS_Interval
  <2> QED BY <1>1, <2>1
<1>3. Sum(r) = 0
  <2> HIDE DEF S, r
  <2>1. PICK g : Adds(r, g, S) /\ Sum(r) = g[S]
    BY <1>2, SumAdds
  <2>2. {0} \subseteq Int /\ 0 \in {0} /\ \A a, b \in {0} : a + b \in {0}
    OBVIOUS
  <2>3. \A s \in SUBSET S : g[s] \in {0}
    BY <1>2, <2>1, <2>2, AddsInt
  <2> QED BY <2>1, <2>3
<1> QED
  BY <1>3

\* All percentiles are within a limit when those of the files with rows are.
LEMMA AllWithin ==
    ASSUME NEW n \in Nat, NEW F, \A w \in 1..n : F[w] \in Seq(Responses),
           NEW limit \in Int, \E w \in 1..n : Kept(F[w]) > 0
    PROVE  (\A w \in 1..n : Percentile(Latencies(F[w]), 95) <= limit)
              <=> \A w \in 1..n : Kept(F[w]) > 0 =>
                     Cardinality({i \in 1..Kept(F[w]) : F[w][i].ms > limit})
                        <= Kept(F[w]) - Max({1, (95 * Kept(F[w])) \div 100})
<1> DEFINE P(w)     == Percentile(Latencies(F[w]), 95)
           Fine(w)  == Cardinality({i \in 1..Kept(F[w]) : F[w][i].ms > limit})
                          <= Kept(F[w]) - Max({1, (95 * Kept(F[w])) \div 100})
<1>1. ASSUME NEW w \in 1..n
      PROVE  /\ P(w) \in Nat /\ Kept(F[w]) \in Nat
             /\ Kept(F[w]) = 0 => P(w) = 0
             /\ Kept(F[w]) > 0 => (P(w) <= limit <=> Fine(w))
  <2>1. PICK k, l : k = Kept(F[w]) /\ l = Latencies(F[w])
    OBVIOUS
  <2>2. k \in Nat /\ l \in [1..k -> Nat]
    BY <2>1, CountsAre
  <2>3. /\ Percentile(l, 95) \in Nat
        /\ k = 0 => Percentile(l, 95) = 0
        /\ k > 0 => (Percentile(l, 95) <= limit
                       <=> Cardinality({i \in 1..k : l[i] > limit})
                              <= k - Max({1, (95 * k) \div 100}))
    <3>1. /\ Percentile(l, 95) \in Nat
          /\ k = 0 => Percentile(l, 95) = 0
          /\ k > 0 => \A most \in Int :
                Percentile(l, 95) <= most
                  <=> Cardinality({i \in 1..k : l[i] > most})
                         <= k - Max({1, (95 * k) \div 100})
      BY <2>2, PercentileIs, Zenon
    <3> QED BY <3>1, Zenon
  <2>4. \A i \in 1..k : l[i] = F[w][i].ms
    BY <2>1 DEF Latencies
  <2>5. {i \in 1..k : l[i] > limit} = {i \in 1..k : F[w][i].ms > limit}
    BY <2>4
  <2> QED BY <2>1, <2>2, <2>3, <2>5
<1>2. PICK v \in 1..n : Kept(F[v]) > 0
  OBVIOUS
<1> HIDE DEF P, Fine
<1>3. ASSUME \A w \in 1..n : P(w) <= limit, NEW w \in 1..n, Kept(F[w]) > 0
      PROVE  Fine(w)
  BY <1>1, <1>3
<1>4. ASSUME \A w \in 1..n : Kept(F[w]) > 0 => Fine(w), NEW w \in 1..n
      PROVE  P(w) <= limit
  <2>1. P(v) \in Nat /\ P(v) <= limit
    BY <1>1, <1>2, <1>4
  <2>2. CASE Kept(F[w]) = 0
    BY <1>1, <2>1, <2>2
  <2>3. CASE Kept(F[w]) # 0
    <3>1. Kept(F[w]) > 0
      BY <1>1, <2>3
    <3> QED BY <1>1, <1>4, <3>1
  <2> QED BY <2>2, <2>3
<1> QED
  BY <1>3, <1>4 DEF P, Fine

LEMMA JudgedIs ==
    ASSUME VerdictInv, pc = "judged"
    PROVE  \A w \in Fleet : Judged(w) = Files[w] /\ Files[w] \in Seq(Responses)
<1>1. Dispatched /\ Waited /\ next = Len(fleet) + 1 /\ Len(fleet) \in Nat
  BY DEF VerdictInv, Summarised, Dispatched
<1> SUFFICES ASSUME NEW w \in Fleet
             PROVE  Judged(w) = Files[w] /\ Files[w] \in Seq(Responses)
  OBVIOUS
<1>2. w < next
  BY <1>1 DEF Fleet
<1>3. Files[w] = SubSeq(jtl[w], 1, read[w]) /\ Files[w] \in Seq(Responses)
  BY <1>1, FilesAre DEF Files
<1>4. CASE w \in late
  BY <1>3, <1>4 DEF Judged
<1>5. CASE w \notin late
  <2>1. PICK s \in Seq(Responses) : s = jtl[w]
    BY <1>1 DEF Dispatched
  <2>2. read[w] = Len(s)
    BY <1>1, <1>2, <1>5, <2>1 DEF Waited
  <2>3. SubSeq(s, 1, Len(s)) = s
    OBVIOUS
  <2> QED BY <1>3, <1>5, <2>1, <2>2, <2>3 DEF Judged
<1> QED
  BY <1>4, <1>5

\* The verdict that a number of files calls for.
Reference(n, files, sla) ==
    LET Slow(w, limit) == {i \in 1..Kept(files[w]) : files[w][i].ms > limit}
        Allowed(w)     == Kept(files[w]) - Max({1, (95 * Kept(files[w])) \div 100})
        total          == Sum([w \in 1..n |-> Requests(files[w])])
        failed         == Sum([w \in 1..n |-> Failures(files[w])])
        good           == /\ total > 0
                          /\ \A w \in 1..n, limit \in sla.p95 :
                                Kept(files[w]) > 0
                                   => Cardinality(Slow(w, limit)) <= Allowed(w)
                          /\ \A limit \in sla.errors :
                                failed * limit.den <= limit.num * total
                          /\ ~sla.rps
    IN IF EmptySLA(sla)
       THEN IF total > 0 /\ AllowEmptySLA THEN "completed" ELSE "failed"
       ELSE IF good THEN "passed" ELSE "failed"

LEMMA StatusIsReference ==
    ASSUME NEW n \in Nat, NEW F, \A w \in 1..n : F[w] \in Seq(Responses),
           NEW s, Tallied(s, n, F), NEW j \in Jobs
    PROVE  StatusOf(s, j.sla) = Reference(n, F, j.sla)
<1> DEFINE total       == Sum([w \in 1..n |-> Requests(F[w])])
           failed      == Sum([w \in 1..n |-> Failures(F[w])])
           Fine(w, limit) == Cardinality({i \in 1..Kept(F[w]) : F[w][i].ms > limit})
                                <= Kept(F[w]) - Max({1, (95 * Kept(F[w])) \div 100})
           fast        == \A w \in 1..n, limit \in j.sla.p95 : Kept(F[w]) > 0 => Fine(w, limit)
           sound       == \A limit \in j.sla.errors : failed * limit.den <= limit.num * total
<1>1. PICK sla : /\ sla = j.sla /\ sla.p95 \subseteq Int
                 /\ sla.errors \subseteq [num : Int, den : Nat \ {0}]
  <2>1. j.sla \in [p95 : SUBSET Int, errors : SUBSET [num : Int, den : Nat \ {0}],
                   rps : BOOLEAN, other : BOOLEAN]
    BY MeasuredRunAssumption
  <2> QED BY <2>1
<1>2. total \in Nat /\ failed \in Nat
  BY SumsOf
<1>3. Rates(s, total, failed) /\ s.requests = total
      /\ \A limit \in Int :
            s.p95 <= limit <=> \A w \in 1..n : Percentile(Latencies(F[w]), 95) <= limit
  BY DEF Tallied, Rates
<1>4. Reference(n, F, j.sla)
      = IF EmptySLA(j.sla)
        THEN IF total > 0 /\ AllowEmptySLA THEN "completed" ELSE "failed"
        ELSE IF total > 0 /\ fast /\ sound /\ ~j.sla.rps THEN "passed" ELSE "failed"
  BY DEF Reference
<1>5. ASSUME total > 0
      PROVE  /\ (\A limit \in j.sla.p95 : s.p95 <= limit) <=> fast
             /\ (\A limit \in j.sla.errors : ~Exceeds(s.errors, limit)) <=> sound
  <2>1. \E w \in 1..n : Kept(F[w]) > 0
    BY <1>5, SomeMeasured
  <2>2. ASSUME NEW limit \in j.sla.p95
        PROVE  s.p95 <= limit <=> \A w \in 1..n : Kept(F[w]) > 0 => Fine(w, limit)
    <3>1. limit \in Int
      BY <1>1
    <3>2. (\A w \in 1..n : Percentile(Latencies(F[w]), 95) <= limit)
             <=> \A w \in 1..n : Kept(F[w]) > 0 => Fine(w, limit)
      BY <2>1, <3>1, AllWithin, ZenonT(60)
    <3> HIDE DEF Fine
    <3> QED BY <1>3, <3>1, <3>2
  <2>3. ASSUME NEW limit \in j.sla.errors
        PROVE  ~Exceeds(s.errors, limit) <=> failed * limit.den <= limit.num * total
    <3>1. limit \in [num : Int, den : Nat \ {0}]
      BY <1>1
    <3>2. total \in Nat \ {0}
      BY <1>2, <1>5
    <3> HIDE DEF total, failed
    <3> QED BY <1>2, <1>3, <3>1, <3>2, RateWithin
  <2>4. (\A limit \in j.sla.p95 : s.p95 <= limit) <=> fast
    <3> HIDE DEF Fine
    <3> QED BY <2>2
  <2>5. (\A limit \in j.sla.errors : ~Exceeds(s.errors, limit)) <=> sound
    <3> HIDE DEF total, failed
    <3> QED BY <2>3
  <2> QED BY <2>4, <2>5
<1> HIDE DEF total, failed, fast, sound
<1> QED
  BY <1>3, <1>4, <1>5 DEF StatusOf, Evaluated, MeetsSLA

\* However many workers, rows and limits, and whichever waits time out: the
\* verdict the goroutine computes file by file, with rates weighted and the worst
\* percentile kept, is the one that all the rows it speaks of call for at once.
THEOREM VerdictIs == Spec => []VerdictIsReference
<1>1. PlanInv /\ VerdictInv => VerdictIsReference
  <2> SUFFICES ASSUME PlanInv, VerdictInv, pc = "judged" PROVE VerdictIsReference
    BY DEF VerdictIsReference
  <2>1. /\ Len(fleet) \in Nat \ {0} /\ next = Len(fleet) + 1
        /\ Tallied(summary, next - 1, Files) /\ status = StatusOf(summary, job.sla)
    <3>1. Dispatched /\ Summarised
      BY DEF VerdictInv
    <3>2. Len(fleet) \in Nat \ {0} /\ next = Len(fleet) + 1
      BY <3>1 DEF Dispatched, Summarised
    <3>3. next > 1
      BY <3>2
    <3> QED BY <3>1, <3>2, <3>3 DEF Summarised
  <2>2. PICK n, F, s : n = Len(fleet) /\ F = Files /\ s = summary
    OBVIOUS
  <2>3. n \in Nat /\ Fleet = 1..n /\ n = next - 1
    BY <2>1, <2>2 DEF Fleet
  <2>4. \A w \in 1..n : Judged(w) = F[w] /\ F[w] \in Seq(Responses)
    BY <2>2, <2>3, JudgedIs
  <2>5. status = Reference(n, F, job.sla)
    <3>1. Tallied(s, n, F) /\ job \in Jobs
      BY <2>1, <2>2, <2>3 DEF PlanInv
    <3>2. StatusOf(s, job.sla) = Reference(n, F, job.sla)
      BY <2>3, <2>4, <3>1, StatusIsReference
    <3> QED BY <2>1, <2>2, <3>2
  <2> DEFINE Slow(w, limit) == {i \in 1..Min({Len(Judged(w)), MaxRows, MaxLatencies}) :
                                   Judged(w)[i].ms > limit}
             Rest(w)     == Min({Len(Judged(w)), MaxRows, MaxLatencies})
             Allowed(w)  == Rest(w) - Max({1, (95 * Rest(w)) \div 100})
             Failed(w)   == {i \in 1..Min({Len(Judged(w)), MaxRows}) : ~Judged(w)[i].ok}
             total       == Sum([w \in Fleet |-> Min({Len(Judged(w)), MaxRows + 1})])
             failed      == Sum([w \in Fleet |-> Cardinality(Failed(w))])
  <2>6. \A w \in Fleet : /\ Rest(w) = Kept(F[w])
                         /\ Min({Len(Judged(w)), MaxRows + 1}) = Requests(F[w])
                         /\ Cardinality(Failed(w)) = Failures(F[w])
    BY <2>3, <2>4 DEF Kept, Requests, Failures
  <2>7. total = Sum([w \in 1..n |-> Requests(F[w])])
    <3>1. [w \in Fleet |-> Min({Len(Judged(w)), MaxRows + 1})]
             = [w \in 1..n |-> Requests(F[w])]
      BY <2>3, <2>6
    <3> QED BY <3>1
  <2>8. failed = Sum([w \in 1..n |-> Failures(F[w])])
    <3>1. [w \in Fleet |-> Cardinality(Failed(w))] = [w \in 1..n |-> Failures(F[w])]
      BY <2>3, <2>6
    <3> QED BY <3>1
  <2>9. \A w \in Fleet : \A limit :
           /\ Slow(w, limit) = {i \in 1..Kept(F[w]) : F[w][i].ms > limit}
           /\ Allowed(w) = Kept(F[w]) - Max({1, (95 * Kept(F[w])) \div 100})
    <3> SUFFICES ASSUME NEW w \in Fleet, NEW limit
                 PROVE  /\ Slow(w, limit) = {i \in 1..Kept(F[w]) : F[w][i].ms > limit}
                        /\ Allowed(w) = Kept(F[w]) - Max({1, (95 * Kept(F[w])) \div 100})
      OBVIOUS
    <3>1. Judged(w) = F[w] /\ Rest(w) = Kept(F[w])
      BY <2>3, <2>4, <2>6
    <3>2. Slow(w, limit) = {i \in 1..Rest(w) : Judged(w)[i].ms > limit}
      OBVIOUS
    <3> HIDE DEF Slow, Rest
    <3> QED BY <3>1, <3>2
  <2> DEFINE Few(w, limit)  == Rest(w) > 0 => Cardinality(Slow(w, limit)) <= Allowed(w)
             Fine(w, limit) == Kept(F[w]) > 0 =>
                                  Cardinality({i \in 1..Kept(F[w]) : F[w][i].ms > limit})
                                     <= Kept(F[w]) - Max({1, (95 * Kept(F[w])) \div 100})
             fast  == \A w \in Fleet, limit \in job.sla.p95 : Few(w, limit)
             quick == \A w \in 1..n, limit \in job.sla.p95 : Fine(w, limit)
  <2>10. fast <=> quick
    <3>1. ASSUME NEW w \in Fleet, NEW limit PROVE Few(w, limit) <=> Fine(w, limit)
      <4> HIDE DEF Slow, Rest, Allowed
      <4> QED BY <2>3, <2>6, <2>9
    <3> HIDE DEF Few, Fine
    <3> QED BY <2>3, <3>1
  <2>11. status = IF EmptySLA(job.sla)
                  THEN IF total > 0 /\ AllowEmptySLA THEN "completed" ELSE "failed"
                  ELSE IF /\ total > 0 /\ fast
                          /\ \A limit \in job.sla.errors : failed * limit.den <= limit.num * total
                          /\ ~job.sla.rps
                       THEN "passed" ELSE "failed"
    <3> HIDE DEF fast, total, failed
    <3> QED BY <2>5, <2>7, <2>8, <2>10 DEF Reference
  <2> HIDE DEF quick
  <2> QED
    BY <2>11 DEF VerdictIsReference
<1> QED
  BY <1>1, PlanInvariant, VerdictInvariant, PTL

-----------------------------------------------------------------------------
(* The types.                                                                  *)

\* What the invariants of the plans and of the verdict leave to say.
RangeInv ==
    /\ saved.duration \in 0..MaxDuration
    /\ pc \in {"new", "saved"} => wait = 0 /\ box = <<>> /\ jtl = <<>> /\ read = <<>>
    /\ pc \notin {"new", "saved", "start"} => Grouped
    /\ late \subseteq Fleet
    /\ samples \in Seq(Responses)
    /\ summary.requests \in Nat /\ summary.errors.den \in Nat \ {0}
    /\ status \in {"none", "completed", "passed", "failed"}

LEMMA GroupedAtStart ==
    ASSUME PlanInv, RangeInv, pc \notin {"new", "saved"}
    PROVE  Grouped
<1>1. CASE pc = "start"
  <2>1. StoredAsSaved /\ job \in Jobs
    BY <1>1 DEF PlanInv
  <2>2. PICK workers, total, segs, duration : Decided(workers, total, segs, duration)
    BY <1>1 DEF PlanInv
  <2> QED BY <2>1, <2>2, DecidedGroups
<1>2. CASE pc # "start"
  BY <1>2 DEF RangeInv
<1> QED
  BY <1>1, <1>2

\* Once the workers are dispatched a step that keeps the fleet and the plans
\* keeps what is said of them.
LEMMA RangeKept ==
    ASSUME PlanInv, RangeInv, pc \notin {"new", "saved"}, pc' \notin {"new", "saved"},
           UNCHANGED <<job, saved, fleet, wait>>, late' \subseteq Fleet,
           samples' \in Seq(Responses),
           summary'.requests \in Nat /\ summary'.errors.den \in Nat \ {0},
           status' \in {"none", "completed", "passed", "failed"}
    PROVE  RangeInv'
<1>1. Grouped
  BY GroupedAtStart
<1>2. Grouped' /\ Fleet' = Fleet
  BY <1>1 DEF Grouped, Fleet
<1> QED
  BY <1>2 DEF RangeInv

LEMMA FirstSamplesAre ==
    ASSUME NEW rows \in Seq(Responses)
    PROVE  FirstSamples(rows) \in Seq(Responses)
<1>1. MaxSamples \in Nat
  BY RunReportAssumption
<1>2. PICK n \in Nat : n = Len(rows)
  OBVIOUS
<1>3. Min({n, MaxSamples}) = IF n <= MaxSamples THEN n ELSE MaxSamples
  BY <1>1, MinOfTwo
<1>4. PICK m \in Nat : m = Min({n, MaxSamples}) /\ m <= n
  BY <1>1, <1>3
<1>5. SubSeq(rows, 1, m) \in Seq(Responses)
  <2>1. m <= Len(rows)
    BY <1>2, <1>4
  <2> QED BY <2>1
<1> QED
  BY <1>2, <1>4, <1>5 DEF FirstSamples

LEMMA RangeInit == Init => RangeInv
<1> SUFFICES ASSUME Init PROVE RangeInv
  OBVIOUS
<1>1. saved.duration = 0 /\ 0 \in 0..MaxDuration
  BY LoadShapeAssumption DEF Init
<1>2. summary.requests = 0 /\ summary.errors.den = 1
  BY DEF Init, NoSummary
<1>3. samples \in Seq(Responses)
  BY DEF Init
<1> QED
  BY <1>1, <1>2, <1>3 DEF Init, RangeInv

LEMMA RangeSave ==
    ASSUME PlanInv, VerdictInv, RangeInv, Save
    PROVE  RangeInv'
<1>1. PICK d \in Int : d = IF job.duration <= 0 THEN 60 ELSE job.duration
  BY JobIs DEF PlanInv
<1>2. ClampDuration(d) \in 0..MaxDuration
  <2>1. d > 0
    BY <1>1, JobIs DEF PlanInv
  <2> QED BY <2>1, LoadShapeAssumption DEF ClampDuration, AtMost
<1>3. saved'.duration \in 0..MaxDuration
  BY <1>1, <1>2 DEF Save
<1>4. Fleet' = Fleet /\ pc = "new" /\ pc' = "saved"
  BY DEF Save, Fleet
<1> QED
  BY <1>3, <1>4 DEF Save, RangeInv

LEMMA RangeDispatch ==
    ASSUME VerdictInv, RangeInv, Dispatch
    PROVE  RangeInv'
<1>1. pc = "saved" /\ pc' = "start"
      /\ UNCHANGED <<job, saved, late, next, summary, samples, status>>
  BY DEF Dispatch
<1>2. fleet = <<>>
  BY <1>1 DEF VerdictInv
<1>3. late = {}
  <2>1. Fleet = {}
    BY <1>2 DEF Fleet
  <2> QED BY <2>1 DEF RangeInv
<1> QED
  BY <1>1, <1>3 DEF RangeInv

LEMMA RangeWait ==
    ASSUME PlanInv, VerdictInv, RangeInv, WaitEnds
    PROVE  RangeInv'
<1>1. Dispatched /\ pc = "wait" /\ next \in Fleet
  BY DEF VerdictInv, WaitEnds, Dispatched, Fleet
<1>2. late' \subseteq Fleet
  BY <1>1 DEF WaitEnds, RangeInv
<1>3. pc' \notin {"new", "saved"}
  BY <1>1 DEF WaitEnds
<1>4. UNCHANGED <<job, saved, fleet, wait, summary, samples, status>>
  BY DEF WaitEnds
<1> QED
  BY <1>1, <1>2, <1>3, <1>4, RangeKept DEF RangeInv

LEMMA RangeRead ==
    ASSUME PlanInv, VerdictInv, RangeInv, ReadJTL
    PROVE  RangeInv'
<1>1. Dispatched /\ Summarised /\ pc = "read" /\ next \in Fleet
  BY DEF VerdictInv, ReadJTL, Dispatched, Fleet
<1>2. jtl[next] \in Seq(Responses)
  BY <1>1 DEF Dispatched
<1>3. PICK rows \in Seq(Responses) : rows = jtl[next]
  BY <1>2
<1>4. PICK one : one = ParsedJTL(rows)
  OBVIOUS
<1>5. one.requests \in Nat /\ one.errors.den \in Nat \ {0}
  <2>1. Requests(rows) \in Nat
    BY CountsAre
  <2> QED BY <1>4, <2>1, ParsedIs DEF Rates
<1>6. PICK s : s = summary
  OBVIOUS
<1>7. s.requests \in Nat /\ s.errors.den \in Nat \ {0}
  BY <1>6 DEF RangeInv
<1>8. Merged(s, one).requests \in Nat /\ Merged(s, one).errors.den \in Nat \ {0}
  <2>1. PICK a \in Nat, b \in Nat, c \in Nat \ {0}, d \in Nat \ {0} :
           a = s.requests /\ b = one.requests /\ c = s.errors.den /\ d = one.errors.den
    BY <1>5, <1>7
  <2>2. \A x, y \in Nat \ {0} : x * y \in Nat \ {0}
    OBVIOUS
  <2>3. c * d \in Nat \ {0}
    BY <2>2
  <2>4. a + b # 0 => c * d * (a + b) \in Nat \ {0}
    <3>1. a + b \in Nat
      OBVIOUS
    <3> QED BY <2>2, <2>3, <3>1
  <2>5. Merged(s, one).requests = a + b
    BY <2>1 DEF Merged
  <2>6. Merged(s, one).errors.den = IF a + b = 0 THEN 1 ELSE c * d * (a + b)
    BY <2>1 DEF Merged
  <2> QED BY <2>4, <2>5, <2>6
<1>9. summary' = IF next = 1 THEN one ELSE Merged(s, one)
  BY <1>3, <1>4, <1>6 DEF ReadJTL
<1>10. samples' \in Seq(Responses)
  <2>1. samples' = samples \o FirstSamples(rows)
    BY <1>3 DEF ReadJTL
  <2>2. FirstSamples(rows) \in Seq(Responses) /\ samples \in Seq(Responses)
    BY FirstSamplesAre DEF RangeInv
  <2> QED BY <2>1, <2>2
<1>11. UNCHANGED <<job, pc, saved, fleet, wait, late, status>>
  BY DEF ReadJTL
<1>12. summary'.requests \in Nat /\ summary'.errors.den \in Nat \ {0}
  BY <1>5, <1>8, <1>9
<1> QED
  BY <1>1, <1>10, <1>11, <1>12, RangeKept DEF RangeInv

LEMMA RangeJudge ==
    ASSUME PlanInv, VerdictInv, RangeInv, Judge
    PROVE  RangeInv'
<1>1. pc = "read" /\ pc' = "judged" /\ status' = StatusOf(summary, job.sla)
      /\ samples' = FirstSamples(samples)
      /\ UNCHANGED <<job, saved, fleet, wait, late, summary>>
  BY DEF Judge
<1>2. samples' \in Seq(Responses)
  BY <1>1, FirstSamplesAre DEF RangeInv
<1>3. status' \in {"none", "completed", "passed", "failed"}
  BY <1>1 DEF StatusOf, Evaluated
<1> QED
  BY <1>1, <1>2, <1>3, RangeKept DEF RangeInv

LEMMA RangeInvariant == Spec => []RangeInv
<1>1. PlanInv /\ VerdictInv /\ RangeInv /\ [Next]_vars => RangeInv'
  <2> SUFFICES ASSUME PlanInv, VerdictInv, RangeInv, [Next]_vars PROVE RangeInv'
    OBVIOUS
  <2>1. CASE StartWorker
    <3>1. pc = "start" /\ pc' \in {"start", "wait"}
          /\ UNCHANGED <<job, saved, fleet, wait, late, summary, samples, status>>
      BY <2>1 DEF StartWorker
    <3> QED BY <3>1, RangeKept DEF RangeInv
  <2>2. CASE StartFails
    <3>1. pc = "start" /\ pc' = "refused"
          /\ UNCHANGED <<job, saved, fleet, wait, late, summary, samples, status>>
      BY <2>2 DEF StartFails
    <3> QED BY <3>1, RangeKept DEF RangeInv
  <2>3. CASE \E w \in Fleet : Sample(w) \/ Exit(w)
    <3>1. fleet # <<>>
      BY <2>3 DEF Fleet
    <3>2. pc \notin {"new", "saved"}
      BY <3>1 DEF VerdictInv
    <3>3. UNCHANGED <<job, pc, saved, fleet, wait, late, summary, samples, status>>
      BY <2>3 DEF Sample, Exit
    <3> QED BY <3>2, <3>3, RangeKept DEF RangeInv
  <2>4. CASE UNCHANGED vars
    BY <2>4 DEF vars, RangeInv, Grouped, Fleet
  <2> QED
    BY <2>1, <2>2, <2>3, <2>4, RangeSave, RangeDispatch, RangeWait, RangeRead,
       RangeJudge DEF Next
<1> QED
  BY <1>1, RangeInit, PlanInvariant, VerdictInvariant, PTL DEF Spec

\* Whatever is asked for: every group starts something by a time that is known,
\* every worker has a file of rows its plan may leave and no more of it was read
\* than there is, and the wait is never less than three minutes.
THEOREM MeasuredTypes == Spec => []TypeOK
<1>1. PlanInv /\ VerdictInv /\ RangeInv => TypeOK
  <2> SUFFICES ASSUME PlanInv, VerdictInv, RangeInv PROVE TypeOK
    OBVIOUS
  <2>1. job.mode \in {"vus", "arrivals"}
        /\ pc \in {"new", "saved", "start", "wait", "read", "judged", "refused"}
    BY JobIs DEF PlanInv, VerdictInv
  <2>2. summary.requests \in Nat /\ summary.errors.den > 0
    BY DEF RangeInv
  <2>3. CASE pc \in {"new", "saved"}
    <3>1. fleet = <<>> /\ next = 1 /\ wait = 0 /\ box = <<>>
      BY <2>3 DEF VerdictInv, RangeInv
    <3>2. Fleet = {} /\ next \in 1..(Len(fleet) + 1)
      BY <3>1 DEF Fleet
    <3>3. <<>> \in [{} -> {"none", "running", "exited"}]
      OBVIOUS
    <3> QED BY <2>1, <2>2, <3>1, <3>2, <3>3 DEF TypeOK, RangeInv
  <2>4. CASE pc \notin {"new", "saved"}
    <3>1. Grouped /\ Dispatched
      BY <2>4, GroupedAtStart DEF VerdictInv
    <3> QED BY <2>1, <2>2, <3>1 DEF TypeOK, RangeInv, Grouped, Dispatched
  <2> QED BY <2>3, <2>4
<1> QED
  BY <1>1, PlanInvariant, VerdictInvariant, RangeInvariant, PTL

-----------------------------------------------------------------------------
(* The report.                                                                 *)

\* The table of steps: one row for each label there is.
Tabled(s, n, L) ==
    /\ StepTable(s) = [k \in 1..n |-> StepRow(s, L[k])]
    /\ \A k \in 1..n : \E i \in DOMAIN s : s[i].label = L[k]
    /\ \A i \in DOMAIN s : \E k \in 1..n : s[i].label = L[k]
    /\ \A k, l \in 1..n : L[k] = L[l] => k = l

LEMMA TableIs ==
    ASSUME NEW s \in Seq(Responses)
    PROVE  \E n \in Nat : \E L : Tabled(s, n, L)
<1>1. PICK m \in Nat : m = Len(s) /\ DOMAIN s = 1..m
  OBVIOUS
<1> DEFINE firsts == {i \in DOMAIN s : \A j \in 1..(i - 1) : s[j].label # s[i].label}
           B      == {p \in firsts \X firsts : p[1] < p[2]}
           o      == InOrder(firsts, B)
           n      == Cardinality(firsts)
           L      == [k \in 1..n |-> s[o[k]].label]
<1>2. firsts \subseteq 1..m /\ IsFiniteSet(firsts) /\ n \in Nat
  <2>1. firsts \subseteq 1..m
    BY <1>1
  <2> HIDE DEF firsts
  <2> QED BY <2>1, UpToFinite, FS_Subset, FS_CardinalityType
<1>3. \A i, j \in firsts : <<i, j>> \in B <=> i < j
  <2> HIDE DEF firsts
  <2> QED OBVIOUS
<1> HIDE DEF B
<1>4. Orders(firsts, B)
  <2>1. \A i \in firsts : i \in Int
    BY <1>2
  <2> HIDE DEF firsts
  <2> QED BY <1>3, <2>1 DEF Orders
<1>5. Lists(o, firsts, B)
  <2> HIDE DEF firsts
  <2> QED BY <1>2, <1>4, InOrderIs
<1>6. StepTable(s) = [k \in 1..n |-> StepRow(s, L[k])]
  <2>1. StepTable(s) = [k \in DOMAIN o |-> StepRow(s, s[o[k]].label)]
    BY DEF StepTable, B
  <2>2. DOMAIN o = 1..n
    BY <1>5 DEF Lists
  <2>3. \A k \in 1..n : L[k] = s[o[k]].label
    OBVIOUS
  <2> HIDE DEF L, n, o
  <2> QED BY <2>1, <2>2, <2>3
<1>7. \A k \in 1..n : o[k] \in firsts
  <2> HIDE DEF firsts, o
  <2> QED BY <1>5 DEF Lists
<1>8. \A k \in 1..n : \E i \in DOMAIN s : s[i].label = L[k]
  <2> SUFFICES ASSUME NEW k \in 1..n PROVE \E i \in DOMAIN s : s[i].label = L[k]
    OBVIOUS
  <2>1. o[k] \in DOMAIN s /\ L[k] = s[o[k]].label
    BY <1>7
  <2> HIDE DEF L, o
  <2> QED BY <2>1
<1>9. ASSUME NEW i \in DOMAIN s PROVE \E k \in 1..n : s[i].label = L[k]
  <2> DEFINE Same == {j \in 1..m : s[j].label = s[i].label}
  <2>1. Same # {} /\ Same \subseteq Int /\ Same \subseteq 1..m
    BY <1>1, <1>9
  <2>2. IsFiniteSet(Same)
    <3> HIDE DEF Same
    <3> QED BY <2>1, UpToFinite, FS_Subset
  <2>3. PICK f : f \in Same /\ \A j \in Same : f <= j
    <3> HIDE DEF Same
    <3> QED BY <2>1, <2>2, MinIs
  <2>4. f \in firsts
    <3>1. f \in DOMAIN s /\ f \in 1..m
      BY <1>1, <2>3
    <3>2. ASSUME NEW j \in 1..(f - 1), s[j].label = s[f].label PROVE FALSE
      <4>1. j \in 1..m /\ j < f
        BY <3>1
      <4>2. j \in Same
        BY <2>3, <3>2, <4>1
      <4> QED BY <2>3, <3>1, <4>1, <4>2
    <3> QED BY <3>1, <3>2
  <2>5. PICK k \in 1..n : o[k] = f
    <3> HIDE DEF firsts, o
    <3> QED BY <1>5, <2>4 DEF Lists
  <2>6. L[k] = s[f].label /\ s[f].label = s[i].label
    BY <2>3, <2>5
  <2> HIDE DEF L, n
  <2> QED BY <2>6
<1>10. ASSUME NEW k \in 1..n, NEW l \in 1..n, L[k] = L[l] PROVE k = l
  <2>1. PICK f \in firsts, g \in firsts : f = o[k] /\ g = o[l]
    BY <1>7
  <2>2. s[f].label = s[g].label
    BY <1>10, <2>1
  <2>3. f \in 1..m /\ g \in 1..m
    BY <1>2, <2>1
  <2>4. ~(f < g)
    <3>1. f < g => f \in 1..(g - 1)
      BY <2>3
    <3> QED BY <2>2, <3>1
  <2>5. ~(g < f)
    <3>1. g < f => g \in 1..(f - 1)
      BY <2>3
    <3> QED BY <2>2, <3>1
  <2>6. f = g
    BY <2>3, <2>4, <2>5
  <2> HIDE DEF firsts, o
  <2> QED BY <1>5, <2>1, <2>6 DEF Lists
<1> HIDE DEF L, n
<1> QED
  BY <1>2, <1>6, <1>8, <1>9, <1>10 DEF Tabled

\* How many of some rows are of one kind.
Counted(s, T) == Cardinality({i \in DOMAIN s : s[i] \in T})

LEMMA CountedIs ==
    ASSUME NEW s \in Seq(Responses), NEW T
    PROVE  /\ Counted(s, T) \in Nat
           /\ IsFiniteSet({i \in DOMAIN s : s[i] \in T})
           /\ Counted(s, Responses) = Len(s)
           /\ Len(s) = 0 => Counted(s, T) = 0
<1>1. PICK n \in Nat : n = Len(s) /\ DOMAIN s = 1..n
  OBVIOUS
<1> DEFINE own == {i \in DOMAIN s : s[i] \in T}
<1>2. own \subseteq 1..n
  BY <1>1
<1>3. IsFiniteSet(own) /\ Cardinality(own) \in Nat
  <2> HIDE DEF own
  <2> QED BY <1>2, UpToFinite, FS_Subset, FS_CardinalityType
<1>4. {i \in DOMAIN s : s[i] \in Responses} = 1..n
  BY <1>1
<1>5. Counted(s, Responses) = n
  BY <1>4, UpToFinite DEF Counted
<1>6. n = 0 => own = {}
  BY <1>2
<1>7. n = 0 => Cardinality(own) = 0
  BY <1>6, FS_EmptySet
<1> QED
  BY <1>1, <1>3, <1>5, <1>7 DEF Counted

LEMMA CountedBoth ==
    ASSUME NEW s \in Seq(Responses), NEW t \in Seq(Responses), NEW T
    PROVE  Counted(s \o t, T) = Counted(s, T) + Counted(t, T)
<1>1. PICK m \in Nat, n \in Nat : m = Len(s) /\ n = Len(t)
  OBVIOUS
<1> DEFINE A == {i \in DOMAIN s : s[i] \in T}
           B == {i \in DOMAIN t : t[i] \in T}
           C == {i \in (m + 1)..(m + n) : t[i - m] \in T}
           W == {i \in DOMAIN (s \o t) : (s \o t)[i] \in T}
<1>2. W = A \cup C /\ A \cap C = {}
  <2>1. DOMAIN s = 1..m /\ DOMAIN (s \o t) = 1..(m + n)
    BY <1>1
  <2>2. \A i \in 1..m : (s \o t)[i] = s[i]
    BY <1>1
  <2>3. \A i \in (m + 1)..(m + n) : (s \o t)[i] = t[i - m]
    BY <1>1
  <2>4. \A i : i \in 1..(m + n) <=> i \in 1..m \/ i \in (m + 1)..(m + n)
    OBVIOUS
  <2>5. \A i : ~(i \in 1..m /\ i \in (m + 1)..(m + n))
    OBVIOUS
  <2> QED BY <2>1, <2>2, <2>3, <2>4, <2>5
<1>3. IsFiniteSet(A) /\ IsFiniteSet(B) /\ Cardinality(A) \in Nat /\ Cardinality(B) \in Nat
  BY CountedIs DEF Counted
<1>4. IsFiniteSet(C) /\ Cardinality(C) = Cardinality(B)
  <2> DEFINE f == [i \in B |-> i + m]
  <2>1. DOMAIN t = 1..n
    BY <1>1
  <2>2. \A i \in B : f[i] \in C
    BY <2>1
  <2>3. \A i, j \in B : f[i] = f[j] => i = j
    BY <2>1
  <2>4. ASSUME NEW c \in C PROVE \E i \in B : f[i] = c
    <3>1. c - m \in B /\ (c - m) + m = c
      BY <2>1
    <3> QED BY <3>1
  <2>5. f = [i \in B |-> f[i]]
    OBVIOUS
  <2> HIDE DEF B, C, f
  <2>6. f \in Bijection(B, C)
    BY <2>2, <2>3, <2>4, <2>5 DEF Bijection, Injection, Surjection, IsInjective
  <2>7. ExistsBijection(B, C)
    BY <2>6 DEF ExistsBijection
  <2> QED BY <1>3, <2>7, FS_Bijection
<1>5. Cardinality(W) = Cardinality(A) + Cardinality(B)
  <2> HIDE DEF A, B, C, W
  <2>1. Cardinality(A \cup C) = Cardinality(A) + Cardinality(C) - Cardinality(A \cap C)
    BY <1>3, <1>4, FS_Union
  <2>2. Cardinality({}) = 0
    BY FS_EmptySet
  <2>3. PICK a \in Nat, b \in Nat : a = Cardinality(A) /\ b = Cardinality(B)
    BY <1>3
  <2>4. Cardinality(W) = a + b - 0
    BY <1>2, <1>4, <2>1, <2>2, <2>3
  <2> QED BY <2>3, <2>4
<1> QED
  BY <1>5 DEF Counted

\* The rows of one kind in all steps are those of the samples.
LEMMA StepsAddUp ==
    ASSUME NEW s \in Seq(Responses), NEW n \in Nat, NEW L, Tabled(s, n, L), NEW T
    PROVE  Sum([k \in 1..n |->
                   Cardinality({i \in DOMAIN s : s[i].label = L[k] /\ s[i] \in T})])
              = Counted(s, T)
<1> DEFINE A == [k \in 1..n |-> {i \in DOMAIN s : s[i].label = L[k] /\ s[i] \in T}]
           U == {i \in DOMAIN s : s[i] \in T}
<1>1. IsFiniteSet(U)
  BY CountedIs
<1>2. \A k \in 1..n : A[k] \subseteq U
  OBVIOUS
<1>3. \A u \in U : \E k \in 1..n : u \in A[k]
  BY DEF Tabled
<1>4. \A k, l \in 1..n : k # l => A[k] \cap A[l] = {}
  BY DEF Tabled
<1>5. [k \in 1..n |-> Cardinality(A[k])]
         = [k \in 1..n |-> Cardinality({i \in DOMAIN s : s[i].label = L[k] /\ s[i] \in T})]
  OBVIOUS
<1>6. Sum([k \in 1..n |-> Cardinality(A[k])]) = Cardinality(U)
  <2> HIDE DEF A, U
  <2> QED BY <1>1, <1>2, <1>3, <1>4, PartsAddUp
<1> HIDE DEF A
<1> QED
  BY <1>5, <1>6 DEF Counted

LEMMA TableAddsUp ==
    ASSUME NEW s \in Seq(Responses)
    PROVE  Sum([i \in DOMAIN StepTable(s) |-> StepTable(s)[i].samples]) = Len(s)
<1>a. PICK n \in Nat : \E L : Tabled(s, n, L)
  BY TableIs
<1>1. PICK L : Tabled(s, n, L)
  BY <1>a
<1>2. PICK table : table = StepTable(s)
  OBVIOUS
<1>3. table = [k \in 1..n |-> StepRow(s, L[k])]
  BY <1>1, <1>2 DEF Tabled
<1> DEFINE Own(k) == Cardinality({i \in DOMAIN s : s[i].label = L[k] /\ s[i] \in Responses})
<1>4. ASSUME NEW k \in 1..n PROVE table[k].samples = Own(k)
  <2>1. table[k].samples = Cardinality({i \in DOMAIN s : s[i].label = L[k]})
    BY <1>3 DEF StepRow
  <2>2. {i \in DOMAIN s : s[i].label = L[k]}
           = {i \in DOMAIN s : s[i].label = L[k] /\ s[i] \in Responses}
    OBVIOUS
  <2> QED BY <2>1, <2>2
<1>5. Sum([k \in 1..n |-> Own(k)]) = Len(s)
  <2>1. Sum([k \in 1..n |-> Own(k)]) = Counted(s, Responses)
    BY <1>1, StepsAddUp
  <2> HIDE DEF Own
  <2> QED BY <2>1, CountedIs
<1>6. [i \in DOMAIN table |-> table[i].samples] = [k \in 1..n |-> Own(k)]
  <2>1. DOMAIN table = 1..n
    BY <1>3
  <2> HIDE DEF Own
  <2> QED BY <1>4, <2>1
<1> HIDE DEF Own
<1> QED
  BY <1>2, <1>5, <1>6

\* Rows that are errors of their step.
Bad == {r \in Responses : ~r.ok /\ r.code \notin 200..399}

LEMMA FailingAddUp ==
    ASSUME NEW s \in Seq(Responses), NEW failing, failing = FailingSteps(StepTable(s))
    PROVE  /\ Sum([i \in DOMAIN failing |-> failing[i].errors]) = Counted(s, Bad)
           /\ \A i \in DOMAIN failing : failing[i].errors <= failing[1].errors
<1>a. PICK n \in Nat : \E L : Tabled(s, n, L)
  BY TableIs
<1>1. PICK L : Tabled(s, n, L)
  BY <1>a
<1>2. PICK table : table = StepTable(s)
  OBVIOUS
<1>3. table = [k \in 1..n |-> StepRow(s, L[k])]
  BY <1>1, <1>2 DEF Tabled
<1> DEFINE Own(k) == {i \in DOMAIN s : s[i].label = L[k] /\ s[i] \in Bad}
           U      == {i \in DOMAIN s : s[i] \in Bad}
           S      == {k \in DOMAIN table : table[k].errors > 0}
           B      == {p \in S \X S : \/ table[p[1]].errors > table[p[2]].errors
                                     \/ table[p[1]].errors = table[p[2]].errors /\ p[1] < p[2]}
           o      == InOrder(S, B)
           m      == Cardinality(S)
<1>4. IsFiniteSet(U)
  BY CountedIs
<1>5. \A k : Own(k) \subseteq U /\ IsFiniteSet(Own(k)) /\ Cardinality(Own(k)) \in Nat
  <2> SUFFICES ASSUME NEW k
               PROVE  Own(k) \subseteq U /\ IsFiniteSet(Own(k)) /\ Cardinality(Own(k)) \in Nat
    OBVIOUS
  <2>1. Own(k) \subseteq U
    OBVIOUS
  <2> HIDE DEF Own, U
  <2> QED BY <1>4, <2>1, FS_Subset, FS_CardinalityType
<1>6. ASSUME NEW k \in 1..n PROVE table[k].errors = Cardinality(Own(k))
  <2>1. table[k].errors = Cardinality({i \in {j \in DOMAIN s : s[j].label = L[k]} :
                                          ~CountsAsOk(s[i])})
    BY <1>3 DEF StepRow
  <2>2. \A i \in DOMAIN s : s[i] \in Bad <=> ~CountsAsOk(s[i])
    <3>1. \A i \in DOMAIN s : s[i] \in Responses
      OBVIOUS
    <3> QED BY <3>1, Zenon DEF CountsAsOk, Bad
  <2>3. {i \in {j \in DOMAIN s : s[j].label = L[k]} : ~CountsAsOk(s[i])} = Own(k)
    BY <2>2
  <2> HIDE DEF Own
  <2> QED BY <2>1, <2>3
<1> HIDE DEF Own
<1>7. DOMAIN table = 1..n /\ \A k \in 1..n : table[k].errors \in Nat
  BY <1>3, <1>5, <1>6
<1>8. S \subseteq 1..n /\ IsFiniteSet(S) /\ m \in Nat
  <2>1. S \subseteq 1..n
    BY <1>7
  <2> HIDE DEF S
  <2> QED BY <2>1, UpToFinite, FS_Subset, FS_CardinalityType
<1>9. \A i, j \in S : <<i, j>> \in B <=> \/ table[i].errors > table[j].errors
                                         \/ table[i].errors = table[j].errors /\ i < j
  <2> HIDE DEF S
  <2> QED OBVIOUS
<1> HIDE DEF B
<1>10. Orders(S, B)
  <2>1. \A i \in S : i \in Int /\ table[i].errors \in Nat
    BY <1>7
  <2> HIDE DEF S
  <2>2. \A i \in S : <<i, i>> \notin B
    BY <1>9, <2>1
  <2>3. \A i, j, k \in S : <<i, j>> \in B /\ <<j, k>> \in B => <<i, k>> \in B
    <3> SUFFICES ASSUME NEW i \in S, NEW j \in S, NEW k \in S,
                        <<i, j>> \in B, <<j, k>> \in B
                 PROVE  <<i, k>> \in B
      OBVIOUS
    <3> DEFINE e(x) == table[x].errors
    <3>1. e(i) \in Nat /\ e(j) \in Nat /\ e(k) \in Nat /\ i \in Int /\ j \in Int /\ k \in Int
      BY <2>1
    <3>2. \A x, y \in S : <<x, y>> \in B <=> e(x) > e(y) \/ (e(x) = e(y) /\ x < y)
      BY <1>9
    <3> HIDE DEF e
    <3>3. e(i) > e(j) \/ (e(i) = e(j) /\ i < j)
      BY <3>2
    <3>4. e(j) > e(k) \/ (e(j) = e(k) /\ j < k)
      BY <3>2
    <3>5. e(i) > e(k) \/ (e(i) = e(k) /\ i < k)
      BY <3>1, <3>3, <3>4
    <3> QED BY <3>2, <3>5
  <2>4. \A i, j \in S : i # j => <<i, j>> \in B \/ <<j, i>> \in B
    BY <1>9, <2>1
  <2> QED BY <2>2, <2>3, <2>4, Zenon DEF Orders
<1>11. Lists(o, S, B)
  <2> HIDE DEF S
  <2> QED BY <1>8, <1>10, InOrderIs
<1>12. failing = [k \in 1..m |-> table[o[k]]]
  <2>1. failing = [k \in DOMAIN o |-> table[o[k]]]
    BY <1>2 DEF FailingSteps, B
  <2>2. DOMAIN o = 1..m
    BY <1>11 DEF Lists
  <2> HIDE DEF o, m
  <2> QED BY <2>1, <2>2
<1>13. \A k \in 1..m : o[k] \in S
  <2> HIDE DEF S, o
  <2> QED BY <1>11 DEF Lists
<1> DEFINE A == [k \in 1..m |-> Own(o[k])]
<1>14. Sum([k \in 1..m |-> Cardinality(A[k])]) = Cardinality(U)
  <2>1. \A k \in 1..m : A[k] \subseteq U
    BY <1>5
  <2>2. ASSUME NEW u \in U PROVE \E k \in 1..m : u \in A[k]
    <3>1. PICK k \in 1..n : s[u].label = L[k]
      BY <1>1 DEF Tabled
    <3>2. u \in Own(k)
      BY <3>1 DEF Own
    <3>3. Cardinality(Own(k)) # 0
      BY <1>5, <3>2, FS_EmptySet
    <3>4. k \in S
      BY <1>5, <1>6, <1>7, <3>3
    <3>5. PICK l \in 1..m : o[l] = k
      <4> HIDE DEF S, o
      <4> QED BY <1>11, <3>4 DEF Lists
    <3>6. A[l] = Own(k)
      BY <3>5
    <3> HIDE DEF A, m
    <3> QED BY <3>2, <3>6
  <2>3. ASSUME NEW k \in 1..m, NEW l \in 1..m, k # l PROVE A[k] \cap A[l] = {}
    <3>1. PICK i \in 1..n, j \in 1..n : i = o[k] /\ j = o[l]
      BY <1>8, <1>13
    <3>2. i # j
      <4> HIDE DEF S, o
      <4> QED BY <1>11, <2>3, <3>1 DEF Lists
    <3>3. L[i] # L[j]
      BY <1>1, <3>2 DEF Tabled
    <3>4. A[k] = Own(i) /\ A[l] = Own(j)
      BY <3>1
    <3> HIDE DEF A
    <3> QED BY <3>3, <3>4 DEF Own
  <2> HIDE DEF A, U, m
  <2> QED BY <1>4, <1>8, <2>1, <2>2, <2>3, PartsAddUp
<1>15. [i \in DOMAIN failing |-> failing[i].errors] = [k \in 1..m |-> Cardinality(A[k])]
  <2>1. DOMAIN failing = 1..m
    BY <1>12
  <2>2. ASSUME NEW k \in 1..m PROVE failing[k].errors = Cardinality(A[k])
    <3>1. o[k] \in 1..n
      BY <1>8, <1>13
    <3>2. failing[k] = table[o[k]]
      BY <1>12
    <3>3. A[k] = Own(o[k])
      OBVIOUS
    <3> HIDE DEF A, o, m
    <3> QED BY <1>6, <3>1, <3>2, <3>3
  <2> HIDE DEF A, m
  <2> QED BY <2>1, <2>2
<1>16. ASSUME NEW i \in DOMAIN failing PROVE failing[i].errors <= failing[1].errors
  <2>1. i \in 1..m /\ 1 \in 1..m
    <3> HIDE DEF m, o
    <3> QED BY <1>8, <1>12
  <2>2. failing[i] = table[o[i]] /\ failing[1] = table[o[1]]
    <3> HIDE DEF m, o
    <3> QED BY <1>12, <2>1
  <2>3. PICK a \in S, b \in S : a = o[1] /\ b = o[i]
    BY <1>13, <2>1
  <2>4. table[a].errors \in Nat /\ table[b].errors \in Nat
    BY <1>7, <1>8
  <2>5. CASE i = 1
    BY <2>2, <2>3, <2>4, <2>5
  <2>6. CASE i # 1
    <3>1. 1 < i
      <4> HIDE DEF m
      <4> QED BY <1>8, <2>1, <2>6
    <3>2. <<a, b>> \in B
      <4> HIDE DEF S, o
      <4> QED BY <1>11, <2>1, <2>3, <3>1 DEF Lists
    <3> HIDE DEF S, o
    <3> QED BY <1>9, <2>2, <2>3, <2>4, <3>2
  <2> QED BY <2>5, <2>6
<1>17. Cardinality(U) = Counted(s, Bad)
  BY DEF Counted
<1> HIDE DEF A, U, m
<1> QED
  BY <1>14, <1>15, <1>16, <1>17

\* Of the rows of a step no more than one in twenty is slower than its percentile.
LEMMA PercentileUpIs ==
    ASSUME NEW S, IsFiniteSet(S), S # {}, NEW lats \in [S -> Nat]
    PROVE  /\ PercentileUp(lats, 95) \in Nat
           /\ \A limit \in Int :
                 PercentileUp(lats, 95) <= limit
                   => 100 * Cardinality({i \in S : lats[i] > limit}) <= 5 * Cardinality(S)
<1>1. PICK n \in Nat \ {0} : n = Cardinality(S)
  BY FS_CardinalityType, FS_EmptySet
<1>2. PICK x \in Int : x = (95 * n + 99) \div 100 /\ x <= n /\ x >= 1 /\ 100 * x >= 95 * n
  <2>1. (95 * n + 99) \div 100 \in Int /\ (95 * n + 99) \div 100 <= n
        /\ (95 * n + 99) \div 100 >= 1 /\ 100 * ((95 * n + 99) \div 100) >= 95 * n
    OBVIOUS
  <2> QED BY <2>1
<1>3. PercentileUp(lats, 95) = OfRank(lats, x)
  <2>1. Max({1, x}) = x
    BY <1>2, MaxOfTwo
  <2>2. DOMAIN lats = S
    OBVIOUS
  <2> QED BY <1>1, <1>2, <2>1, <2>2 DEF PercentileUp
<1>4. /\ OfRank(lats, x) \in Nat
      /\ \A limit \in Int :
            OfRank(lats, x) <= limit
              <=> Cardinality({i \in S : lats[i] > limit}) <= Cardinality(S) - x
  <2>1. x \in Nat \ {0} /\ x <= Cardinality(S)
    BY <1>1, <1>2
  <2> QED BY <2>1, OfRankIs
<1>5. ASSUME NEW limit \in Int, OfRank(lats, x) <= limit
      PROVE  100 * Cardinality({i \in S : lats[i] > limit}) <= 5 * Cardinality(S)
  <2> DEFINE High == {i \in S : lats[i] > limit}
  <2>1. High \subseteq S
    OBVIOUS
  <2>2. Cardinality(High) <= n - x
    BY <1>1, <1>4, <1>5
  <2> HIDE DEF High
  <2>3. PICK h \in Nat : h = Cardinality(High)
    BY <2>1, FS_Subset, FS_CardinalityType
  <2>4. 100 * h <= 5 * n
    BY <1>2, <2>2, <2>3
  <2> QED BY <1>1, <2>3, <2>4 DEF High
<1> QED
  BY <1>3, <1>4, <1>5

\* The samples that are above a limit.
Above(limit) == {r \in Responses : r.ms > limit}

LEMMA SomeStepIsSlow ==
    ASSUME NEW s \in Seq(Responses), NEW q \in Nat,
           100 * Counted(s, Above(q - 1)) > 5 * Len(s)
    PROVE  \E i \in DOMAIN StepTable(s) : StepTable(s)[i].p95 >= q
<1>a. PICK n \in Nat : \E L : Tabled(s, n, L)
  BY TableIs
<1>1. PICK L : Tabled(s, n, L)
  BY <1>a
<1>2. PICK table : table = StepTable(s)
  OBVIOUS
<1>3. table = [k \in 1..n |-> StepRow(s, L[k])]
  BY <1>1, <1>2 DEF Tabled
<1> DEFINE Own(k)  == {i \in DOMAIN s : s[i].label = L[k]}
           Slow(k) == {i \in DOMAIN s : s[i].label = L[k] /\ s[i] \in Above(q - 1)}
           Lats(k) == [i \in Own(k) |-> s[i].ms]
           f       == [k \in 1..n |-> Cardinality(Own(k))]
           h       == [k \in 1..n |-> Cardinality(Slow(k))]
<1> SUFFICES ASSUME \A k \in DOMAIN table : ~(table[k].p95 >= q) PROVE FALSE
  BY <1>2
<1>4. \A i \in DOMAIN s : s[i] \in Responses /\ s[i].ms \in Nat
  BY MeasuredRunAssumption
<1>5. IsFiniteSet(DOMAIN s)
  BY UpToFinite
<1>6. ASSUME NEW k \in 1..n
      PROVE  /\ Cardinality(Own(k)) \in Nat /\ Cardinality(Slow(k)) \in Nat
             /\ 100 * Cardinality(Slow(k)) <= 5 * Cardinality(Own(k))
  <2>1. Own(k) \subseteq DOMAIN s /\ Slow(k) \subseteq DOMAIN s
    OBVIOUS
  <2>2. IsFiniteSet(Own(k)) /\ IsFiniteSet(Slow(k))
        /\ Cardinality(Own(k)) \in Nat /\ Cardinality(Slow(k)) \in Nat
    <3> HIDE DEF Own, Slow
    <3> QED BY <1>5, <2>1, FS_Subset, FS_CardinalityType
  <2>3. Own(k) # {}
    BY <1>1 DEF Tabled
  <2>4. Lats(k) \in [Own(k) -> Nat]
    BY <1>4
  <2>5. table[k].p95 = PercentileUp(Lats(k), 95)
    BY <1>3 DEF StepRow
  <2>6. /\ PercentileUp(Lats(k), 95) \in Nat
        /\ \A limit \in Int :
              PercentileUp(Lats(k), 95) <= limit
                => 100 * Cardinality({i \in Own(k) : Lats(k)[i] > limit})
                      <= 5 * Cardinality(Own(k))
    <3> HIDE DEF Own, Lats
    <3> QED BY <2>2, <2>3, <2>4, PercentileUpIs
  <2>7. PercentileUp(Lats(k), 95) <= q - 1
    <3>1. k \in DOMAIN table
      BY <1>3
    <3> HIDE DEF Own, Lats
    <3> QED BY <2>5, <2>6, <3>1
  <2>8. {i \in Own(k) : Lats(k)[i] > q - 1} = Slow(k)
    <3>1. \A i \in DOMAIN s : s[i] \in Above(q - 1) <=> s[i].ms > q - 1
      BY <1>4 DEF Above
    <3>2. \A i \in Own(k) : Lats(k)[i] = s[i].ms
      OBVIOUS
    <3> HIDE DEF Lats
    <3> QED BY <3>1, <3>2
  <2>9. q - 1 \in Int
    OBVIOUS
  <2> HIDE DEF Own, Slow, Lats
  <2> QED BY <2>2, <2>6, <2>7, <2>8, <2>9
<1>7. Sum(h) = Counted(s, Above(q - 1))
  <2>1. Sum(h) = Sum([k \in 1..n |->
                  Cardinality({i \in DOMAIN s :
                                  s[i].label = L[k] /\ s[i] \in Above(q - 1)})])
    OBVIOUS
  <2> HIDE DEF h
  <2> QED BY <1>1, <2>1, StepsAddUp
<1>8. Sum(f) = Len(s)
  <2>1. \A k \in 1..n : table[k].samples = Cardinality(Own(k))
    BY <1>3 DEF StepRow
  <2>2. [k \in DOMAIN table |-> table[k].samples] = f
    <3>1. DOMAIN table = 1..n
      BY <1>3
    <3> HIDE DEF Own
    <3> QED BY <2>1, <3>1
  <2> HIDE DEF f
  <2> QED BY <1>2, <2>2, TableAddsUp
<1>9. 100 * Sum(h) <= 5 * Sum(f) + n * 0
  <2>1. f \in [1..n -> Int] /\ h \in [1..n -> Int]
    <3> HIDE DEF Own, Slow
    <3> QED BY <1>6
  <2>2. \A k \in 1..n : 100 * h[k] <= 5 * f[k] + 0
    <3> HIDE DEF Own, Slow
    <3> QED BY <1>6
  <2> HIDE DEF f, h
  <2>3. 100 \in Int /\ 5 \in Int /\ 0 \in Int
    OBVIOUS
  <2> QED BY <2>1, <2>2, <2>3, SumBound
<1> HIDE DEF f, h
<1>10. Counted(s, Above(q - 1)) \in Nat /\ Len(s) \in Nat
  BY CountedIs
<1> QED
  BY <1>7, <1>8, <1>9, <1>10

\* Samples that are the rows of n files together.
Gathered(n, files, s) ==
    \A T : Counted(s, T) = Sum([w \in 1..n |-> Counted(files[w], T)])

LEMMA NoneGathered ==
    ASSUME NEW n \in Nat, NEW F, \A w \in 1..n : F[w] = <<>>
    PROVE  Gathered(n, F, <<>>)
<1>1. \A T : Counted(<<>>, T) = 0
  <2>1. <<>> \in Seq(Responses) /\ Len(<<>>) = 0
    OBVIOUS
  <2> QED BY <2>1, CountedIs
<1> SUFFICES ASSUME NEW T PROVE 0 = Sum([w \in 1..n |-> Counted(F[w], T)])
  BY <1>1 DEF Gathered
<1> DEFINE f == [w \in 1..n |-> Counted(F[w], T)]
<1>2. f \in [1..n -> Nat] /\ \A w \in 1..n : f[w] = 0
  BY <1>1
<1> HIDE DEF f
<1>3. Sum(f) = 0
  BY <1>2, TermsWithin
<1> QED
  BY <1>3 DEF f

LEMMA GatheredNext ==
    ASSUME NEW n \in Nat, NEW F, NEW H, NEW m \in 1..n, NEW s \in Seq(Responses),
           \A w \in 1..n : F[w] \in Seq(Responses) /\ H[w] \in Seq(Responses),
           F[m] = <<>>, \A w \in 1..n : w # m => H[w] = F[w], Gathered(n, F, s)
    PROVE  Gathered(n, H, s \o H[m])
<1> SUFFICES ASSUME NEW T
             PROVE  Counted(s \o H[m], T) = Sum([w \in 1..n |-> Counted(H[w], T)])
  BY DEF Gathered
<1> DEFINE f == [w \in 1..n |-> Counted(F[w], T)]
           h == [w \in 1..n |-> Counted(H[w], T)]
<1>1. f \in [1..n -> Int] /\ h \in [1..n -> Int] /\ Counted(s, T) \in Nat
  <2>1. \A w \in 1..n : Counted(F[w], T) \in Nat /\ Counted(H[w], T) \in Nat
    BY CountedIs
  <2>2. \A w \in 1..n : Counted(F[w], T) \in Int /\ Counted(H[w], T) \in Int
    BY <2>1
  <2> QED BY <2>2, CountedIs
<1>2. f[m] = 0
  <2>1. Len(<<>>) = 0 /\ <<>> \in Seq(Responses)
    OBVIOUS
  <2>2. Counted(<<>>, T) = 0
    BY <2>1, CountedIs
  <2> QED BY <2>2
<1>3. \A w \in 1..n : w # m => h[w] = f[w]
  OBVIOUS
<1>4. h[m] = Counted(H[m], T)
  OBVIOUS
<1>5. Counted(s, T) = Sum(f)
  BY DEF Gathered
<1> HIDE DEF f, h
<1>6. Sum(h) = Sum(f) + (h[m] - f[m])
  BY <1>1, <1>3, SumChange
<1>7. Counted(s \o H[m], T) = Counted(s, T) + Counted(H[m], T)
  BY CountedBoth
<1>8. h[m] \in Int
  BY <1>1
<1>9. Counted(s \o H[m], T) = Sum(h)
  BY <1>1, <1>2, <1>4, <1>5, <1>6, <1>7, <1>8
<1> QED
  BY <1>9 DEF h

LEMMA GatheredLength ==
    ASSUME NEW n \in Nat, NEW F, NEW s \in Seq(Responses), Gathered(n, F, s),
           \A w \in 1..n : F[w] \in Seq(Responses)
    PROVE  Len(s) = Sum([w \in 1..n |-> Len(F[w])])
<1>1. Counted(s, Responses) = Len(s)
  BY CountedIs
<1>2. [w \in 1..n |-> Counted(F[w], Responses)] = [w \in 1..n |-> Len(F[w])]
  BY CountedIs
<1> QED
  BY <1>1, <1>2 DEF Gathered

LEMMA AllFirst ==
    ASSUME NEW rows \in Seq(Responses), Len(rows) <= MaxSamples
    PROVE  FirstSamples(rows) = rows
<1>1. MaxSamples \in Nat
  BY RunReportAssumption
<1>2. Min({Len(rows), MaxSamples}) = Len(rows)
  BY <1>1, MinOfTwo
<1>3. SubSeq(rows, 1, Len(rows)) = rows
  OBVIOUS
<1> QED
  BY <1>2, <1>3 DEF FirstSamples

\* Until they are too many the samples are the rows that were read.
SamplesInv ==
    /\ pc \in {"new", "saved"} => samples = <<>>
    /\ pc \notin {"new", "saved"} =>
          /\ \A w \in Fleet : pc \notin {"read", "judged"} \/ w >= next => read[w] = 0
          /\ Sum(read) <= MaxSamples => Gathered(Len(fleet), Files, samples)

LEMMA SamplesKept ==
    ASSUME SamplesInv, pc \notin {"new", "saved"}, pc' \notin {"new", "saved"},
           fleet' = fleet, read' = read, samples' = samples,
           VerdictInv, \A w \in Fleet : Files'[w] = Files[w],
           \A w \in Fleet : pc' \notin {"read", "judged"} \/ w >= next'
                                => pc \notin {"read", "judged"} \/ w >= next
    PROVE  SamplesInv'
<1>1. Fleet' = Fleet /\ Fleet = 1..Len(fleet)
  BY DEF Fleet
<1>2. \A w \in Fleet' : pc' \notin {"read", "judged"} \/ w >= next' => read'[w] = 0
  BY <1>1 DEF SamplesInv
<1>3. ASSUME Sum(read) <= MaxSamples PROVE Gathered(Len(fleet), Files', samples)
  <2>1. Gathered(Len(fleet), Files, samples)
    BY <1>3 DEF SamplesInv
  <2>2. PICK n, F, H, s : n = Len(fleet) /\ F = Files /\ H = Files' /\ s = samples
    OBVIOUS
  <2>3. \A w \in 1..n : H[w] = F[w]
    BY <1>1, <2>2
  <2>4. \A T : [w \in 1..n |-> Counted(F[w], T)] = [w \in 1..n |-> Counted(H[w], T)]
    BY <2>3
  <2>5. Gathered(n, F, s)
    BY <2>1, <2>2
  <2>6. Gathered(n, H, s)
    <3> SUFFICES ASSUME NEW T PROVE Counted(s, T) = Sum([w \in 1..n |-> Counted(H[w], T)])
      BY DEF Gathered
    <3>1. Counted(s, T) = Sum([w \in 1..n |-> Counted(F[w], T)])
      BY <2>5 DEF Gathered
    <3> QED BY <2>4, <3>1
  <2> QED BY <2>2, <2>6
<1> QED
  BY <1>2, <1>3 DEF SamplesInv

LEMMA SamplesDispatch ==
    ASSUME PlanInv, VerdictInv, SamplesInv, Dispatch
    PROVE  SamplesInv'
<1>1. StoredAsSaved /\ job \in Jobs
  BY DEF Dispatch, PlanInv
<1>2. PICK workers, total, segs, duration :
              /\ Decided(workers, total, segs, duration)'
              /\ jtl' = [w \in 1..workers |-> <<>>]
              /\ read' = [w \in 1..workers |-> 0]
  BY <1>1, DispatchDecides
<1> DEFINE Plan(w) == [groups |-> GroupsOf(SplitAcross(total, workers)[w], total, workers = 1,
                                           job.mode = "arrivals", segs, duration)',
                       rows   |-> RowsOf(w, workers, job.rows, job.raw)']
<1>3. fleet' = [w \in 1..workers |-> Plan(w)] /\ workers \in Nat \ {0}
  BY <1>2 DEF Decided
<1> HIDE DEF Plan
<1>4. Len(fleet') = workers /\ Fleet' = 1..workers
  BY <1>3 DEF Fleet
<1>5. pc' = "start" /\ samples' = <<>>
  BY DEF Dispatch, SamplesInv
<1>6. \A w \in 1..workers : Files'[w] = <<>> /\ read'[w] = 0
  <2>1. Files' = [w \in 1..workers |-> SubSeq(jtl'[w], 1, read'[w])]
    BY <1>4 DEF Files
  <2>2. SubSeq(<<>>, 1, 0) = <<>>
    OBVIOUS
  <2> QED BY <1>2, <2>1, <2>2
<1>7. Gathered(workers, Files', <<>>)
  <2>1. PICK F : F = Files'
    OBVIOUS
  <2> QED BY <1>3, <1>6, <2>1, NoneGathered
<1> QED
  BY <1>4, <1>5, <1>6, <1>7 DEF SamplesInv

LEMMA SamplesRead ==
    ASSUME VerdictInv, VerdictInv', RangeInv, SamplesInv, ReadJTL
    PROVE  SamplesInv'
<1>1. Dispatched /\ pc = "read" /\ next \in Fleet /\ Len(fleet) \in Nat /\ next \in Nat
      /\ Fleet = 1..Len(fleet)
  BY DEF VerdictInv, ReadJTL, Dispatched, Fleet
<1>2. /\ Fleet' = Fleet /\ fleet' = fleet /\ jtl' = jtl /\ pc' = "read" /\ next' = next + 1
      /\ read' = [read EXCEPT ![next] = Len(jtl[next])]
      /\ samples' = samples \o FirstSamples(jtl[next])
  BY <1>1 DEF ReadJTL, Fleet
<1>3. jtl[next] \in Seq(Responses) /\ read \in [Fleet -> Nat] /\ samples \in Seq(Responses)
  BY <1>1 DEF Dispatched, RangeInv
<1>4. read[next] = 0
  BY <1>1 DEF SamplesInv
<1>5. /\ read' \in [Fleet -> Nat] /\ read'[next] = Len(jtl[next])
      /\ \A w \in Fleet : w # next => read'[w] = read[w]
  BY <1>1, <1>2, <1>3
<1>6. \A w \in Fleet' : w >= next' => read'[w] = 0
  <2>1. \A w \in Fleet : w >= next' => w # next /\ w >= next
    BY <1>1, <1>2
  <2> QED BY <1>1, <1>2, <1>5, <2>1 DEF SamplesInv
<1>7. ASSUME Sum(read') <= MaxSamples PROVE Gathered(Len(fleet), Files', samples')
  <2>1. PICK n \in Nat : n = Len(fleet) /\ Fleet = 1..n
    BY <1>1
  <2>2. PICK f \in [1..n -> Nat], h \in [1..n -> Nat] : f = read /\ h = read'
    BY <1>3, <1>5, <2>1
  <2>3. Sum(h) \in Nat /\ h[next] <= Sum(h) /\ Sum(f) \in Nat
    BY <1>1, <2>1, TermsWithin
  <2>4. Sum(h) = Sum(f) + (h[next] - f[next])
    <3>1. f \in [1..n -> Int] /\ h \in [1..n -> Int] /\ next \in 1..n
      BY <1>1, <2>1
    <3>2. \A w \in 1..n : w # next => h[w] = f[w]
      BY <1>5, <2>1, <2>2
    <3> QED BY <3>1, <3>2, SumChange
  <2>5. PICK l \in Nat : l = Len(jtl[next])
    BY <1>3
  <2>6. h[next] = l /\ f[next] = 0 /\ MaxSamples \in Nat
    BY <1>4, <1>5, <2>2, <2>5, RunReportAssumption
  <2>7. Sum(f) <= MaxSamples /\ l <= MaxSamples
    BY <1>7, <2>2, <2>3, <2>4, <2>6
  <2>8. Gathered(Len(fleet), Files, samples)
    BY <1>1, <2>2, <2>7 DEF SamplesInv
  <2>9. FirstSamples(jtl[next]) = jtl[next]
    BY <1>3, <2>5, <2>7, AllFirst
  <2>10. PICK F, H, s : F = Files /\ H = Files' /\ s = samples /\ s \in Seq(Responses)
    BY <1>3
  <2>11. \A w \in 1..n : F[w] \in Seq(Responses) /\ H[w] \in Seq(Responses)
    <3>1. \A w \in Fleet : Files[w] \in Seq(Responses)
      BY <1>1, FilesAre
    <3>2. \A w \in Fleet : SubSeq(jtl[w], 1, read'[w]) \in Seq(Responses)
      <4> SUFFICES ASSUME NEW w \in Fleet PROVE SubSeq(jtl[w], 1, read'[w]) \in Seq(Responses)
        OBVIOUS
      <4>1. PICK t \in Seq(Responses), k \in Nat : t = jtl[w] /\ k = read'[w] /\ k <= Len(t)
        <5>1. Dispatched'
          BY <1>2 DEF VerdictInv
        <5> QED BY <1>2, <5>1 DEF Dispatched
      <4>2. SubSeq(t, 1, k) \in Seq(Responses)
        BY <4>1
      <4> QED BY <4>1, <4>2
    <3>3. Files' = [w \in Fleet |-> SubSeq(jtl[w], 1, read'[w])]
      BY <1>2 DEF Files
    <3> QED BY <2>1, <2>10, <3>1, <3>2, <3>3
  <2>12. \A w \in Fleet : Files[w] = SubSeq(jtl[w], 1, read[w])
                           /\ Files'[w] = SubSeq(jtl[w], 1, read'[w])
    BY <1>2 DEF Files
  <2>13. F[next] = <<>>
    <3>1. \A t \in Seq(Responses) : SubSeq(t, 1, 0) = <<>>
      OBVIOUS
    <3> QED BY <1>1, <1>3, <1>4, <2>10, <2>12, <3>1
  <2>14. H[next] = jtl[next]
    <3>1. \A t \in Seq(Responses) : SubSeq(t, 1, Len(t)) = t
      OBVIOUS
    <3>2. jtl[next] \in Seq(Responses) /\ next \in Fleet /\ read'[next] = Len(jtl[next])
      BY <1>1, <1>3, <1>5
    <3>3. SubSeq(jtl[next], 1, read'[next]) = jtl[next]
      BY <3>1, <3>2
    <3>4. next \in 1..n /\ H[next] = Files'[next]
      BY <2>1, <2>10, <3>2
    <3>5. Files'[next] = SubSeq(jtl[next], 1, read'[next])
      BY <2>12, <3>2
    <3> QED BY <3>3, <3>4, <3>5, Zenon
  <2>15. \A w \in 1..n : w # next => H[w] = F[w]
    <3>1. ASSUME NEW w \in Fleet, w # next PROVE Files'[w] = Files[w]
      <4>1. read'[w] = read[w]
        BY <1>5, <3>1
      <4>2. Files[w] = SubSeq(jtl[w], 1, read[w]) /\ Files'[w] = SubSeq(jtl[w], 1, read'[w])
        BY <2>12, <3>1
      <4> QED BY <4>1, <4>2
    <3> QED BY <2>1, <2>10, <3>1
  <2>16. Gathered(n, F, s) /\ next \in 1..n
    BY <1>1, <2>1, <2>8, <2>10
  <2>17. Gathered(n, H, s \o H[next])
    BY <2>10, <2>11, <2>13, <2>15, <2>16, GatheredNext
  <2> QED BY <1>2, <2>1, <2>9, <2>10, <2>14, <2>17
<1> QED
  BY <1>2, <1>6, <1>7 DEF SamplesInv

LEMMA ReadLengths ==
    ASSUME Dispatched
    PROVE  Sum(read) = Sum([w \in 1..Len(fleet) |-> Len(Files[w])])
<1>1. Fleet = 1..Len(fleet)
  BY DEF Fleet
<1>2. \A w \in Fleet : Len(Files[w]) = read[w]
  BY FilesAre
<1>3. read = [w \in Fleet |-> read[w]]
  BY DEF Dispatched
<1> QED
  BY <1>1, <1>2, <1>3

LEMMA SamplesJudge ==
    ASSUME VerdictInv, RangeInv, SamplesInv, Judge
    PROVE  SamplesInv'
<1>1. Dispatched /\ pc = "read" /\ Len(fleet) \in Nat /\ Fleet = 1..Len(fleet)
  BY DEF VerdictInv, Judge, Dispatched, Fleet
<1>2. /\ fleet' = fleet /\ Fleet' = Fleet /\ jtl' = jtl /\ read' = read /\ next' = next
      /\ pc' = "judged" /\ samples' = FirstSamples(samples)
  BY DEF Judge, Fleet
<1>3. Files' = Files
  BY <1>2 DEF Files
<1>4. ASSUME Sum(read) <= MaxSamples PROVE Gathered(Len(fleet), Files, samples')
  <2>1. Gathered(Len(fleet), Files, samples) /\ samples \in Seq(Responses)
    BY <1>1, <1>4 DEF SamplesInv, RangeInv
  <2>2. PICK n, F, s : n = Len(fleet) /\ F = Files /\ s = samples
    OBVIOUS
  <2>3. \A w \in 1..n : F[w] \in Seq(Responses)
    BY <1>1, <2>2, FilesAre
  <2>4. Len(s) = Sum([w \in 1..n |-> Len(F[w])])
    BY <1>1, <2>1, <2>2, <2>3, GatheredLength
  <2>5. Len(samples) <= MaxSamples
    BY <1>1, <1>4, <2>2, <2>4, ReadLengths
  <2> QED BY <1>2, <2>1, <2>5, AllFirst
<1> QED
  BY <1>1, <1>2, <1>3, <1>4 DEF SamplesInv

LEMMA SamplesInvariant == Spec => []SamplesInv
<1>1. Init => SamplesInv
  BY DEF Init, SamplesInv
<1>2. PlanInv /\ VerdictInv /\ VerdictInv' /\ RangeInv /\ SamplesInv /\ [Next]_vars
         => SamplesInv'
  <2> SUFFICES ASSUME PlanInv, VerdictInv, VerdictInv', RangeInv, SamplesInv, [Next]_vars
               PROVE  SamplesInv'
    OBVIOUS
  <2>1. CASE Save
    BY <2>1 DEF Save, SamplesInv
  <2>2. CASE StartWorker
    <3>1. pc = "start" /\ pc' \in {"start", "wait"}
          /\ UNCHANGED <<fleet, jtl, read, samples>>
      BY <2>2 DEF StartWorker
    <3>2. Files' = Files
      BY <3>1 DEF Files, Fleet
    <3> QED BY <3>1, <3>2, SamplesKept
  <2>3. CASE StartFails
    <3>1. pc = "start" /\ pc' = "refused" /\ UNCHANGED <<fleet, jtl, read, samples>>
      BY <2>3 DEF StartFails
    <3>2. Files' = Files
      BY <3>1 DEF Files, Fleet
    <3> QED BY <3>1, <3>2, SamplesKept
  <2>4. CASE WaitEnds
    <3>1. pc = "wait" /\ pc' \in {"wait", "read"}
          /\ UNCHANGED <<fleet, jtl, read, samples>>
      BY <2>4 DEF WaitEnds
    <3>2. Files' = Files
      BY <3>1 DEF Files, Fleet
    <3> QED BY <3>1, <3>2, SamplesKept
  <2>5. ASSUME NEW w \in Fleet, Sample(w) PROVE SamplesInv'
    <3>1. UNCHANGED <<fleet, pc, next, read, samples>>
      BY <2>5 DEF Sample
    <3>2. pc \notin {"new", "saved"}
      <4>1. fleet # <<>>
        BY DEF Fleet
      <4> QED BY <4>1 DEF VerdictInv
    <3>3. \A v \in Fleet : \A i \in 1..Len(jtl[v]) : jtl'[v][i] = jtl[v][i]
      <4> SUFFICES ASSUME NEW v \in Fleet, NEW i \in 1..Len(jtl[v])
                   PROVE  jtl'[v][i] = jtl[v][i]
        OBVIOUS
      <4>1. PICK row \in Responses : jtl' = [jtl EXCEPT ![w] = Append(@, row)]
        BY <2>5 DEF Sample
      <4>2. jtl \in [Fleet -> Seq(Responses)]
        BY <3>2 DEF VerdictInv, Dispatched
      <4>3. PICK s \in Seq(Responses) : s = jtl[v]
        BY <4>2
      <4>4. jtl'[v] = IF v = w THEN Append(s, row) ELSE s
        BY <4>1, <4>2, <4>3
      <4>5. Append(s, row)[i] = s[i]
        BY <4>3
      <4> QED BY <4>3, <4>4, <4>5
    <3>4. Fleet' = Fleet /\ Dispatched /\ Dispatched'
      BY <3>1, <3>2 DEF Fleet, VerdictInv
    <3>5. \A v \in Fleet : Files'[v] = Files[v]
      BY <3>1, <3>3, <3>4, FilesKept
    <3> QED BY <3>1, <3>2, <3>5, SamplesKept
  <2>6. ASSUME NEW w \in Fleet, Exit(w) PROVE SamplesInv'
    <3>1. UNCHANGED <<fleet, pc, next, jtl, read, samples>>
      BY <2>6 DEF Exit
    <3>2. pc \notin {"new", "saved"}
      <4>1. fleet # <<>>
        BY DEF Fleet
      <4> QED BY <4>1 DEF VerdictInv
    <3>3. Files' = Files
      BY <3>1 DEF Files, Fleet
    <3> QED BY <3>1, <3>2, <3>3, SamplesKept
  <2>7. CASE UNCHANGED vars
    BY <2>7 DEF vars, SamplesInv, Files, Fleet
  <2> QED
    BY <2>1, <2>2, <2>3, <2>4, <2>5, <2>6, <2>7, SamplesDispatch, SamplesRead,
       SamplesJudge DEF Next
<1> QED
  BY <1>1, <1>2, PlanInvariant, VerdictInvariant, RangeInvariant, PTL DEF Spec

\* What is slower than the summary of a file says is more than one row in twenty.
LEMMA SlowerRows ==
    ASSUME NEW rows \in Seq(Responses), Len(rows) > 0, Len(rows) <= MaxSamples, NEW q \in Nat,
           q = Percentile(Latencies(rows), 95)
    PROVE  100 * Counted(rows, Above(q - 1)) > 5 * Len(rows)
<1>1. PICK n \in Nat \ {0} : n = Len(rows)
  OBVIOUS
<1>2. Kept(rows) = n
  <2>1. PICK a \in Nat, b \in Nat : a = MaxRows /\ b = MaxLatencies /\ n <= b /\ b <= a
    BY <1>1, RunVerdictAssumption, RunReportAssumption, MeasuredRunAssumption
  <2>2. Min({n, a, b}) = Min({Min({n, a}), b})
    BY MinOfThree
  <2>3. Min({n, a}) = n /\ Min({n, b}) = n
    BY <2>1, MinOfTwo
  <2> QED BY <1>1, <2>1, <2>2, <2>3 DEF Kept
<1>3. Latencies(rows) \in [1..n -> Nat] /\ Latencies(rows) = [i \in 1..n |-> rows[i].ms]
  BY <1>2, CountsAre DEF Latencies
<1>4. PICK lats \in [1..n -> Nat] : lats = Latencies(rows)
  BY <1>3
<1> DEFINE High == {i \in 1..n : lats[i] > q - 1}
<1>5. ~(Cardinality(High) <= n - Max({1, (95 * n) \div 100}))
  <2>1. q - 1 \in Int /\ ~(q <= q - 1) /\ n > 0
    OBVIOUS
  <2>2. \A limit \in Int : Percentile(lats, 95) <= limit
           <=> Cardinality({i \in 1..n : lats[i] > limit}) <= n - Max({1, (95 * n) \div 100})
    <3>1. n \in Nat /\ n > 0
      OBVIOUS
    <3> QED BY <3>1, PercentileIs, ZenonT(60)
  <2>3. Percentile(lats, 95) <= q - 1 <=> Cardinality(High) <= n - Max({1, (95 * n) \div 100})
    BY <2>1, <2>2
  <2> HIDE DEF High
  <2> QED BY <1>4, <2>1, <2>3
<1>6. Counted(rows, Above(q - 1)) = Cardinality(High)
  <2>1. DOMAIN rows = 1..n /\ \A i \in 1..n : rows[i] \in Responses
    BY <1>1
  <2>2. \A i \in 1..n : rows[i] \in Above(q - 1) <=> lats[i] > q - 1
    BY <1>3, <1>4, <2>1 DEF Above
  <2>3. {i \in DOMAIN rows : rows[i] \in Above(q - 1)} = High
    BY <2>1, <2>2
  <2> HIDE DEF High
  <2> QED BY <2>3 DEF Counted
<1>7. PICK c \in Nat : c = Cardinality(High)
  BY <1>6, CountedIs
<1>8. PICK x \in Int : x = (95 * n) \div 100 /\ 100 * x <= 95 * n
  <2>1. (95 * n) \div 100 \in Int /\ 100 * ((95 * n) \div 100) <= 95 * n
    OBVIOUS
  <2> QED BY <2>1
<1>9. Max({1, x}) = IF 1 >= x THEN 1 ELSE x
  BY MaxOfTwo
<1>10. c > n - (IF 1 >= x THEN 1 ELSE x)
  BY <1>5, <1>7, <1>8, <1>9
<1>11. 100 * c > 5 * n
  BY <1>8, <1>10
<1> QED
  BY <1>1, <1>6, <1>7, <1>11

LEMMA WrongIs ==
    ASSUME Dispatched, NEW w \in Fleet
    PROVE  Counted(Files[w], Bad)
              = Cardinality({i \in 1..read[w] : ~jtl[w][i].ok /\ jtl[w][i].code \notin 200..399})
<1>1. PICK s \in Seq(Responses) : s = Files[w] /\ Len(s) = read[w]
                                 /\ \A i \in 1..read[w] : s[i] = jtl[w][i]
  BY FilesAre
<1>2. DOMAIN s = 1..read[w] /\ \A i \in DOMAIN s : s[i] \in Responses
  BY <1>1
<1>3. {i \in DOMAIN s : s[i] \in Bad}
         = {i \in 1..read[w] : ~jtl[w][i].ok /\ jtl[w][i].code \notin 200..399}
  <2>1. \A t \in Responses : t \in Bad <=> ~t.ok /\ t.code \notin 200..399
    BY DEF Bad
  <2> DEFINE W == {i \in 1..read[w] : ~jtl[w][i].ok /\ jtl[w][i].code \notin 200..399}
  <2>2. ASSUME NEW i \in 1..read[w] PROVE s[i] \in Bad <=> i \in W
    <3>1. PICK t \in Responses : t = s[i] /\ t = jtl[w][i]
      BY <1>1, <1>2
    <3>2. i \in W <=> ~t.ok /\ t.code \notin 200..399
      <4>1. i \in W <=> ~jtl[w][i].ok /\ jtl[w][i].code \notin 200..399
        OBVIOUS
      <4> HIDE DEF W
      <4> QED BY <3>1, <4>1
    <3> HIDE DEF W
    <3> QED BY <2>1, <3>1, <3>2
  <2>3. W \subseteq 1..read[w]
    OBVIOUS
  <2> HIDE DEF W
  <2>4. {i \in DOMAIN s : s[i] \in Bad} = W
    BY <1>2, <2>2, <2>3
  <2> QED BY <2>4 DEF W
<1>4. Counted(s, Bad) = Cardinality({i \in DOMAIN s : s[i] \in Bad})
  BY DEF Counted
<1> QED
  BY <1>1, <1>3, <1>4, Zenon

\* However many workers, rows and labels: as long as all rows become samples the
\* table of steps and the failing steps, made of samples, say what the summary and
\* the files say, although they count errors and rank latencies in other ways.
THEOREM ReportIs == Spec => []ReportAgrees
<1>1. VerdictInv /\ RangeInv /\ SamplesInv => ReportAgrees
  <2> DEFINE table    == StepTable(samples)
             failing  == FailingSteps(table)
             Wrong(w) == {i \in 1..read[w] : ~jtl[w][i].ok /\ jtl[w][i].code \notin 200..399}
  <2> SUFFICES ASSUME VerdictInv, RangeInv, SamplesInv, pc = "judged", Sum(read) <= MaxSamples
               PROVE  /\ Sum([i \in DOMAIN table |-> table[i].samples]) = summary.requests
                      /\ Sum([i \in DOMAIN failing |-> failing[i].errors])
                            = Sum([w \in Fleet |-> Cardinality(Wrong(w))])
                      /\ \A i \in DOMAIN failing : failing[i].errors <= failing[1].errors
                      /\ Len(fleet) = 1 /\ read[1] > 0
                            => \E i \in DOMAIN table : table[i].p95 >= summary.p95
    BY DEF ReportAgrees
  <2>1. Dispatched /\ Summarised /\ next = Len(fleet) + 1 /\ samples \in Seq(Responses)
        /\ Gathered(Len(fleet), Files, samples)
    BY DEF VerdictInv, Summarised, RangeInv, SamplesInv
  <2>2. PICK n, F, s : /\ n = Len(fleet) /\ F = Files /\ s = samples
                       /\ n \in Nat \ {0} /\ s \in Seq(Responses)
    BY <2>1 DEF Dispatched
  <2>3. Fleet = 1..n /\ Tallied(summary, n, F) /\ Gathered(n, F, s)
    <3>1. next > 1 /\ next - 1 = n
      BY <2>1, <2>2
    <3> QED BY <2>1, <2>2, <3>1 DEF Fleet, Summarised
  <2>4. \A w \in 1..n : F[w] \in Seq(Responses) /\ Len(F[w]) = read[w]
    BY <2>1, <2>2, <2>3, FilesAre
  <2>5. Len(s) = Sum([w \in 1..n |-> Len(F[w])]) /\ Sum(read) = Sum([w \in 1..n |-> Len(F[w])])
    BY <2>1, <2>2, <2>3, <2>4, GatheredLength, ReadLengths
  <2>6. \A w \in 1..n : Len(F[w]) <= MaxSamples
    <3>1. PICK f \in [1..n -> Nat] : f = read
      BY <2>1, <2>3 DEF Dispatched
    <3>2. Sum(f) \in Nat /\ \A w \in 1..n : f[w] <= Sum(f)
      BY <2>2, TermsWithin
    <3>3. MaxSamples \in Nat /\ \A w \in 1..n : f[w] \in Nat
      BY RunReportAssumption
    <3> QED BY <2>4, <3>1, <3>2, <3>3
  <2>7. Sum([i \in DOMAIN table |-> table[i].samples]) = summary.requests
    <3>1. \A w \in 1..n : Requests(F[w]) = Len(F[w])
      <4> SUFFICES ASSUME NEW w \in 1..n PROVE Requests(F[w]) = Len(F[w])
        OBVIOUS
      <4>1. PICK l \in Nat : l = Len(F[w])
        BY <2>4
      <4>2. PICK a \in Nat : a = MaxRows /\ l <= a
        BY <2>6, <4>1, RunVerdictAssumption, RunReportAssumption, MeasuredRunAssumption
      <4>3. Min({l, a + 1}) = l
        BY <4>2, MinOfTwo
      <4> QED BY <4>1, <4>2, <4>3 DEF Requests
    <3>2. [w \in 1..n |-> Requests(F[w])] = [w \in 1..n |-> Len(F[w])]
      BY <3>1
    <3>3. summary.requests = Sum([w \in 1..n |-> Requests(F[w])])
      BY <2>3 DEF Tallied, Rates
    <3> QED BY <2>2, <2>5, <3>2, <3>3, TableAddsUp
  <2>8. /\ Sum([i \in DOMAIN failing |-> failing[i].errors])
              = Sum([w \in Fleet |-> Cardinality(Wrong(w))])
        /\ \A i \in DOMAIN failing : failing[i].errors <= failing[1].errors
    <3>1. PICK worst : worst = FailingSteps(StepTable(s)) /\ worst = failing
      BY <2>2
    <3>2. /\ Sum([i \in DOMAIN worst |-> worst[i].errors]) = Counted(s, Bad)
          /\ \A i \in DOMAIN worst : worst[i].errors <= worst[1].errors
      BY <2>2, <3>1, FailingAddUp
    <3>3. Counted(s, Bad) = Sum([w \in 1..n |-> Counted(F[w], Bad)])
      BY <2>3 DEF Gathered
    <3>4. \A w \in Fleet : Counted(F[w], Bad) = Cardinality(Wrong(w))
      BY <2>1, <2>2, WrongIs
    <3>5. [w \in 1..n |-> Counted(F[w], Bad)] = [w \in Fleet |-> Cardinality(Wrong(w))]
      <4> HIDE DEF Wrong
      <4> QED BY <2>3, <3>4
    <3> HIDE DEF failing, Wrong
    <3> QED BY <3>1, <3>2, <3>3, <3>5
  <2>9. ASSUME n = 1, read[1] > 0
        PROVE  \E i \in DOMAIN table : table[i].p95 >= summary.p95
    <3>1. PICK rows \in Seq(Responses), q \in Nat : rows = F[1] /\ q = summary.p95
      BY <2>3, <2>4, <2>9 DEF Tallied
    <3>2. Len(rows) > 0 /\ Len(rows) <= MaxSamples
      BY <2>4, <2>6, <2>9, <3>1
    <3>3. q = Percentile(Latencies(rows), 95)
      <4>1. PICK p \in Nat : p = Percentile(Latencies(rows), 95)
        BY ParsedIs
      <4>2. \A limit \in Int : q <= limit <=> p <= limit
        <5>1. \A w \in 1..n : w = 1
          BY <2>9
        <5>2. 1 \in 1..n
          BY <2>9
        <5> QED BY <2>3, <3>1, <4>1, <5>1, <5>2 DEF Tallied
      <4>3. q \in Int /\ p \in Int /\ q <= q /\ p <= p
        OBVIOUS
      <4>4. q <= p /\ p <= q
        BY <4>2, <4>3
      <4> QED BY <4>1, <4>4
    <3>4. 100 * Counted(rows, Above(q - 1)) > 5 * Len(rows)
      BY <3>2, <3>3, SlowerRows
    <3>5. \A T : Counted(s, T) = Counted(rows, T)
      <4> SUFFICES ASSUME NEW T PROVE Counted(s, T) = Counted(rows, T)
        OBVIOUS
      <4>1. PICK c \in Nat : c = Counted(rows, T)
        BY CountedIs
      <4>2. [w \in 1..n |-> Counted(F[w], T)] = <<c>>
        BY <2>9, <3>1, <4>1
      <4>3. Counted(s, T) = Sum(<<c>>)
        BY <2>3, <4>2 DEF Gathered
      <4> QED BY <4>1, <4>3, c \in Int, SumOne
    <3>6. Len(s) = Len(rows)
      BY <2>2, <3>5, CountedIs
    <3>7. 100 * Counted(s, Above(q - 1)) > 5 * Len(s)
      BY <3>4, <3>5, <3>6
    <3>8. \E i \in DOMAIN StepTable(s) : StepTable(s)[i].p95 >= q
      BY <2>2, <3>7, SomeStepIsSlow
    <3> QED BY <2>2, <3>1, <3>8
  <2> HIDE DEF table, failing, Wrong
  <2> QED BY <2>2, <2>7, <2>8, <2>9
<1> QED
  BY <1>1, VerdictInvariant, RangeInvariant, SamplesInvariant, PTL
=============================================================================
