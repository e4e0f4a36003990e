--------------------------- MODULE RunNotifyProofs ---------------------------
(***************************************************************************)
(* For any set of processes, statuses and channels and any number of       *)
(* calls and crashes: the model of the notifications is type correct and   *)
(* the history honest, and if all processes share the security cache, no   *)
(* destination gets a status twice.                                        *)
(***************************************************************************)
EXTENDS RunNotify, TLAPS

USE NotifyAssumption

-----------------------------------------------------------------------------
(* Types. *)

LEMMA ChannelIn == ASSUME NEW i \in 1..Last PROVE Channels[i] \in Chan
BY DEF Last, Chan

LEMMA OutcomesType ==
    ASSUME TypeOK, NEW c \in Chan
    PROVE  Outcomes(c) \subseteq Result
<1>1. setup[c] \in {"off", "bare", "log", "ready"}
  BY DEF TypeOK, Chan
<1> QED BY <1>1 DEF Outcomes, Result

LEMMA TypeInit == Init => TypeOK
<1> SUFFICES ASSUME Init PROVE TypeOK
  OBVIOUS
<1>1. Last \in Nat
  BY DEF Last
<1>2. budget \in [calls : 0..Calls, crashes : 0..Crashes, fails : 0..InsertFails]
  BY DEF Init
<1>3. \A d \in Proc \X Event : results[d] = <<>> /\ next[d] = 0
  BY DEF Init
<1>4. next \in [Proc \X Event -> 0..Last + 1]
  BY <1>1 DEF Init
<1> QED BY <1>2, <1>3, <1>4 DEF Init, TypeOK

LEMMA SpendType ==
    ASSUME TypeOK, NEW what \in {"calls", "crashes", "fails"}, Spend(what)
    PROVE  budget' \in [calls : 0..Calls, crashes : 0..Crashes, fails : 0..InsertFails]
<1>1. CASE what = "calls"
  <2>1. budget' = [budget EXCEPT !.calls = budget.calls - 1] /\ budget.calls > 0
    BY <1>1 DEF Spend
  <2>2. budget.calls - 1 \in 0..Calls
    BY <2>1 DEF TypeOK
  <2> QED BY <2>1, <2>2 DEF TypeOK
<1>2. CASE what = "crashes"
  <2>1. budget' = [budget EXCEPT !.crashes = budget.crashes - 1] /\ budget.crashes > 0
    BY <1>2 DEF Spend
  <2>2. budget.crashes - 1 \in 0..Crashes
    BY <2>1 DEF TypeOK
  <2> QED BY <2>1, <2>2 DEF TypeOK
<1>3. CASE what = "fails"
  <2>1. budget' = [budget EXCEPT !.fails = budget.fails - 1] /\ budget.fails > 0
    BY <1>3 DEF Spend
  <2>2. budget.fails - 1 \in 0..InsertFails
    BY <2>1 DEF TypeOK
  <2> QED BY <2>1, <2>2 DEF TypeOK
<1> QED BY <1>1, <1>2, <1>3

\* A process remembers the statuses it is delivering.
Remembered == \A p \in Proc, s \in Status : next[<<p, s>>] # 0 => s \in local[p]

\* results and next go together.
Aligned(d) == Len(results[d]) = IF next[d] = 0 THEN 0 ELSE next[d] - 1

LEMMA RememberedStep == TypeOK /\ Remembered /\ [Next]_vars => Remembered'
<1> SUFFICES ASSUME TypeOK, Remembered, [Next]_vars,
                    NEW q \in Proc, NEW t \in Status, next'[<<q, t>>] # 0
             PROVE  t \in local'[q]
  BY DEF Remembered
<1>e. <<q, t>> \in Proc \X Event /\ t # "test"
  BY DEF Event
<1> USE DEF TypeOK, Remembered
<1>1. ASSUME NEW p \in Proc, NEW s \in Status, Notify(p, s) PROVE t \in local'[q]
  <2>1. local[q] \subseteq local'[q]
    <3>1. local' = local \/ local' = [local EXCEPT ![p] = @ \cup {s}]
      BY <1>1 DEF Notify
    <3>2. DOMAIN local = Proc
      OBVIOUS
    <3> HIDE DEF TypeOK, Remembered
    <3> QED BY <3>1, <3>2
  <2>2. CASE next[<<q, t>>] # 0
    BY <2>1, <2>2
  <2>3. CASE next[<<q, t>>] = 0
    <3>1. next \in [Proc \X Event -> 0..Last + 1]
      OBVIOUS
    <3>2. <<q, t>> = <<p, s>> /\ local' = [local EXCEPT ![p] = @ \cup {s}]
      <4> HIDE DEF TypeOK, Remembered
      <4> QED BY <1>1, <1>e, <2>3, <3>1 DEF Notify
    <3> QED BY <3>2
  <2> QED BY <2>2, <2>3
<1>2. ASSUME NEW p \in Proc, NotifyTest(p) PROVE t \in local'[q]
  BY <1>2, <1>e DEF NotifyTest
<1>3. ASSUME NEW p \in Proc, NEW e \in Event, Attempt(p, e) \/ Record(p, e)
      PROVE  t \in local'[q]
  <2>1. local' = local /\ next[<<p, e>>] # 0
    <3> HIDE DEF TypeOK, Remembered
    <3>1. Last \in Nat
      BY DEF Last
    <3>2. CASE Attempt(p, e)
      BY <3>1, <3>2 DEF Attempt
    <3>3. CASE Record(p, e)
      BY <3>1, <3>3 DEF Record
    <3> QED BY <1>3, <3>2, <3>3
  <2>2. next[<<q, t>>] # 0
    BY <1>3, <1>e, <2>1 DEF Attempt, Record
  <2> QED BY <2>1, <2>2
<1>4. ASSUME NEW p \in Proc, Crash(p) PROVE t \in local'[q]
  BY <1>4, <1>e DEF Crash
<1>5. CASE UNCHANGED vars
  BY <1>5 DEF vars
<1> QED BY <1>1, <1>2, <1>3, <1>4, <1>5 DEF Next

LEMMA TypeStep == TypeOK /\ Remembered /\ [Next]_vars => TypeOK'
<1> SUFFICES ASSUME TypeOK, Remembered, [Next]_vars PROVE TypeOK'
  OBVIOUS
<1>a. \A d \in Proc \X Event : Aligned(d)
  BY DEF TypeOK, Aligned
<1>l. Last \in Nat
  BY DEF Last
<1>1. ASSUME NEW p \in Proc, NEW s \in Status, Notify(p, s) PROVE TypeOK'
  <2>1. next' \in [Proc \X Event -> 0..Last + 1]
    <3>1. next' = next \/ next' = [next EXCEPT ![<<p, s>>] = 1]
      BY <1>1 DEF Notify
    <3>2. next \in [Proc \X Event -> 0..Last + 1] /\ 1 \in 0..Last + 1
      BY <1>l DEF TypeOK
    <3> QED BY <3>1, <3>2
  <2>2. \A d \in Proc \X Event : Aligned(d)'
    <3> SUFFICES ASSUME NEW d \in Proc \X Event PROVE Aligned(d)'
      OBVIOUS
    <3>1. \/ next' = next
          \/ next[<<p, s>>] = 0 /\ next' = [next EXCEPT ![<<p, s>>] = 1]
      BY <1>1 DEF Notify, Remembered
    <3>2. \/ next'[d] = next[d]
          \/ next[d] = 0 /\ next'[d] = 1
      BY <3>1 DEF TypeOK
    <3>3. results' = results
      BY <1>1 DEF Notify
    <3> QED BY <1>a, <3>2, <3>3 DEF Aligned
  <2>3. budget' \in [calls : 0..Calls, crashes : 0..Crashes, fails : 0..InsertFails]
    BY <1>1, SpendType DEF Notify
  <2>4. asked' \subseteq Allowed /\ cache' \subseteq Status /\ local' \in [Proc -> SUBSET Status]
    <3>1. asked' = asked \cup ({s} \cap Allowed)
      BY <1>1 DEF Notify
    <3>2. cache' = cache \/ cache' = cache \cup {s}
      BY <1>1 DEF Notify
    <3>3. local' = local \/ local' = [local EXCEPT ![p] = @ \cup {s}]
      BY <1>1 DEF Notify
    <3> QED BY <3>1, <3>2, <3>3 DEF TypeOK
  <2> QED BY <1>1, <2>1, <2>2, <2>3, <2>4 DEF Notify, TypeOK, Aligned
<1>2. ASSUME NEW p \in Proc, NotifyTest(p) PROVE TypeOK'
  <2>1. next' \in [Proc \X Event -> 0..Last + 1]
    BY <1>2, <1>l DEF NotifyTest, TypeOK, Event
  <2>2. \A d \in Proc \X Event : Aligned(d)'
    <3> SUFFICES ASSUME NEW d \in Proc \X Event PROVE Aligned(d)'
      OBVIOUS
    <3>1. \/ next'[d] = next[d]
          \/ next[d] = 0 /\ next'[d] = 1
      BY <1>2 DEF NotifyTest, TypeOK
    <3>2. results' = results
      BY <1>2 DEF NotifyTest
    <3> QED BY <1>a, <3>1, <3>2 DEF Aligned
  <2>3. budget' \in [calls : 0..Calls, crashes : 0..Crashes, fails : 0..InsertFails]
    BY <1>2, SpendType DEF NotifyTest
  <2> QED BY <1>2, <2>1, <2>2, <2>3 DEF NotifyTest, TypeOK, Aligned
<1>3. ASSUME NEW p \in Proc, NEW e \in Event, Attempt(p, e) PROVE TypeOK'
  <2> DEFINE c == Channels[next[<<p, e>>]]
  <2>1. c \in Chan /\ <<p, e>> \in Proc \X Event
    BY <1>3, ChannelIn DEF Attempt
  <2>2. PICK res \in Outcomes(c) : results' = [results EXCEPT ![<<p, e>>] = Append(@, res)]
    BY <1>3 DEF Attempt
  <2>3. res \in Result
    BY <2>1, <2>2, OutcomesType
  <2>4. next' \in [Proc \X Event -> 0..Last + 1]
    <3>1. next' = [next EXCEPT ![<<p, e>>] = next[<<p, e>>] + 1]
      BY <1>3 DEF Attempt
    <3>2. next[<<p, e>>] + 1 \in 0..Last + 1
      BY <1>3, <1>l DEF Attempt
    <3> QED BY <3>1, <3>2 DEF TypeOK
  <2>5. \A d \in Proc \X Event : Aligned(d)'
    <3> SUFFICES ASSUME NEW d \in Proc \X Event PROVE Aligned(d)'
      OBVIOUS
    <3>1. CASE d = <<p, e>>
      <4>1. DOMAIN results = Proc \X Event /\ DOMAIN next = Proc \X Event
        BY DEF TypeOK
      <4>2. results'[d] = Append(results[d], res)
        BY <2>2, <3>1, <4>1
      <4>3. next'[d] = next[d] + 1 /\ next[d] \in 1..Last
        <5>1. next' = [next EXCEPT ![<<p, e>>] = @ + 1] /\ next[<<p, e>>] \in 1..Last
          BY <1>3 DEF Attempt
        <5> QED BY <3>1, <4>1, <5>1
      <4>4. results[d] \in Seq(Result) /\ Len(results[d]) = next[d] - 1
        BY <1>a, <1>l, <4>3 DEF Aligned, TypeOK
      <4>5. Len(results'[d]) = Len(results[d]) + 1
        BY <2>3, <4>2, <4>4
      <4> QED BY <1>l, <4>3, <4>4, <4>5 DEF Aligned
    <3>2. CASE d # <<p, e>>
      <4>1. results'[d] = results[d] /\ next'[d] = next[d]
        BY <1>3, <2>2, <3>2 DEF Attempt, TypeOK
      <4> QED BY <1>a, <4>1 DEF Aligned
    <3> QED BY <3>1, <3>2
  <2>6. delivered' \in [Chan \X Event -> Nat]
    <3>1. PICK n \in {0, 1} : delivered' = [delivered EXCEPT ![<<c, e>>] = @ + n]
      BY <1>3 DEF Attempt
    <3>2. <<c, e>> \in Chan \X Event /\ delivered \in [Chan \X Event -> Nat]
      BY <2>1 DEF TypeOK
    <3> HIDE DEF c
    <3> QED BY <3>1, <3>2
  <2>7. results' \in [Proc \X Event -> Seq(Result)]
    <3>1. results \in [Proc \X Event -> Seq(Result)]
      BY DEF TypeOK
    <3>2. Append(results[<<p, e>>], res) \in Seq(Result)
      BY <2>1, <2>3, <3>1
    <3> QED BY <2>2, <3>1, <3>2
  <2> QED BY <1>3, <2>4, <2>5, <2>6, <2>7 DEF Attempt, TypeOK, Aligned
<1>4. ASSUME NEW p \in Proc, NEW e \in Event, Record(p, e) PROVE TypeOK'
  <2>1. next' \in [Proc \X Event -> 0..Last + 1]
    BY <1>4, <1>l DEF Record, TypeOK
  <2>2. \A d \in Proc \X Event : Aligned(d)'
    <3> SUFFICES ASSUME NEW d \in Proc \X Event PROVE Aligned(d)'
      OBVIOUS
    <3>1. \/ next'[d] = next[d] /\ results'[d] = results[d]
          \/ next'[d] = 0 /\ results'[d] = <<>>
      BY <1>4 DEF Record, TypeOK
    <3> QED BY <1>a, <3>1, Len(<<>>) = 0 DEF Aligned
  <2>3. \A i \in 1..Last : results[<<p, e>>][i] \in Result /\ Channels[i] \in Chan
    <3>1. results[<<p, e>>] \in Seq(Result) /\ Len(results[<<p, e>>]) = Last
      <4>1. <<p, e>> \in Proc \X Event /\ next[<<p, e>>] = Last + 1
        BY <1>4 DEF Record
      <4>2. Len(results[<<p, e>>]) = Last
        BY <1>a, <1>l, <4>1 DEF Aligned
      <4> QED BY <4>1, <4>2 DEF TypeOK
    <3> QED BY <3>1, ChannelIn
  <2>4. history' \subseteq [proc : Proc, event : Event, channel : Chan, result : Result]
    <3>1. {[proc |-> p, event |-> e, channel |-> Channels[i],
            result |-> results[<<p, e>>][i]] : i \in 1..Last}
             \subseteq [proc : Proc, event : Event, channel : Chan, result : Result]
      BY <2>3
    <3> QED BY <1>4, <3>1 DEF Record, TypeOK
  <2>5. budget' \in [calls : 0..Calls, crashes : 0..Crashes, fails : 0..InsertFails]
    BY <1>4, SpendType DEF Record, TypeOK
  <2>6. results' \in [Proc \X Event -> Seq(Result)]
    BY <1>4 DEF Record, TypeOK
  <2> QED BY <1>4, <2>1, <2>2, <2>4, <2>5, <2>6 DEF Record, TypeOK, Aligned
<1>5. ASSUME NEW p \in Proc, Crash(p) PROVE TypeOK'
  <2>1. next' \in [Proc \X Event -> 0..Last + 1]
    BY <1>5, <1>l DEF Crash, TypeOK
  <2>2. \A d \in Proc \X Event : Aligned(d)'
    <3> SUFFICES ASSUME NEW d \in Proc \X Event PROVE Aligned(d)'
      OBVIOUS
    <3>1. \/ next'[d] = next[d] /\ results'[d] = results[d]
          \/ next'[d] = 0 /\ results'[d] = <<>>
      BY <1>5 DEF Crash, TypeOK
    <3> QED BY <1>a, <3>1, Len(<<>>) = 0 DEF Aligned
  <2>3. budget' \in [calls : 0..Calls, crashes : 0..Crashes, fails : 0..InsertFails]
    BY <1>5, SpendType DEF Crash
  <2>4. local' \in [Proc -> SUBSET Status]
    BY <1>5 DEF Crash, TypeOK
  <2>5. results' \in [Proc \X Event -> Seq(Result)]
    BY <1>5 DEF Crash, TypeOK
  <2> QED BY <1>5, <2>1, <2>2, <2>3, <2>4, <2>5 DEF Crash, TypeOK, Aligned
<1>6. CASE UNCHANGED vars
  BY <1>6 DEF vars, TypeOK
<1> QED BY <1>1, <1>2, <1>3, <1>4, <1>5, <1>6 DEF Next

\* Type correctness: every delivery has as many results as channels it is past.
THEOREM TypeCorrect == Spec => []TypeOK
<1>1. Init => TypeOK /\ Remembered
  <2>1. Init => Remembered
    BY DEF Init, Remembered, Event
  <2> QED BY <2>1, TypeInit
<1>2. TypeOK /\ Remembered /\ [Next]_vars => TypeOK' /\ Remembered'
  BY TypeStep, RememberedStep
<1> QED BY <1>1, <1>2, PTL DEF Spec

-----------------------------------------------------------------------------
(* No destination twice. *)

\* Only the delivery that took the shared key of a status contacts anybody, and
\* each channel after the one before it.
OnceInv ==
    \A s \in Status :
        /\ s \notin cache => /\ \A p \in Proc : next[<<p, s>>] = 0
                             /\ \A c \in Chan : delivered[<<c, s>>] = 0
        /\ \A p, q \in Proc : next[<<p, s>>] # 0 /\ next[<<q, s>>] # 0 => p = q
        /\ \A p \in Proc : next[<<p, s>>] # 0 =>
              \A i \in next[<<p, s>>]..Last : delivered[<<Channels[i], s>>] = 0
        /\ \A c \in Chan : delivered[<<c, s>>] <= 1

OneCache ==
    /\ Shared = Proc
    /\ \A i, j \in 1..Last : Channels[i] = Channels[j] => i = j

LEMMA OnceStep ==
    ASSUME OneCache, TypeOK, OnceInv, [Next]_vars
    PROVE  OnceInv'
<1>l. Last \in Nat
  BY DEF Last
<1>e. Status \subseteq Event
  BY DEF Event
<1>1. ASSUME NEW p \in Proc, NEW s \in Status, Notify(p, s) PROVE OnceInv'
  <2>1. s \notin Allowed \/ s \in cache => UNCHANGED <<cache, next, delivered>>
    BY <1>1 DEF Notify, OneCache
  <2>2. CASE s \in Allowed /\ s \notin cache
    <3>1. cache' = cache \cup {s} /\ delivered' = delivered
      BY <1>1, <2>2 DEF Notify, OneCache
    <3>2. \A q \in Proc : next'[<<q, s>>] # 0 => q = p
      BY <1>1, <1>e, <2>2 DEF Notify, OnceInv, TypeOK
    <3>3. \A q \in Proc, t \in Status \ {s} : next'[<<q, t>>] = next[<<q, t>>]
      BY <1>1, <1>e, <2>2 DEF Notify, TypeOK
    <3>4. next'[<<p, s>>] # 0 => \A i \in next'[<<p, s>>]..Last : i \in 1..Last
      BY <1>1, <1>l, <1>e, <2>2 DEF Notify, OnceInv, TypeOK
    <3> QED BY <2>2, <3>1, <3>2, <3>3, <3>4, ChannelIn DEF OnceInv
  <2>3. CASE s \notin Allowed \/ s \in cache
    <3>1. cache' = cache /\ next' = next /\ delivered' = delivered
      BY <2>1, <2>3
    <3> QED BY <3>1 DEF OnceInv
  <2> QED BY <2>2, <2>3
<1>2. ASSUME NEW p \in Proc, NotifyTest(p) PROVE OnceInv'
  BY <1>2, <1>e DEF NotifyTest, OnceInv, TypeOK
<1>3. ASSUME NEW p \in Proc, NEW e \in Event, Attempt(p, e) PROVE OnceInv'
  <2> DEFINE c == Channels[next[<<p, e>>]]
  <2>1. c \in Chan /\ next[<<p, e>>] \in 1..Last
    BY <1>3, ChannelIn DEF Attempt
  <2>2. PICK n \in {0, 1} : delivered' = [delivered EXCEPT ![<<c, e>>] = @ + n]
    BY <1>3 DEF Attempt
  <2> SUFFICES ASSUME NEW s \in Status
               PROVE  /\ s \notin cache' => /\ \A q \in Proc : next'[<<q, s>>] = 0
                                            /\ \A d \in Chan : delivered'[<<d, s>>] = 0
                      /\ \A q, r \in Proc : next'[<<q, s>>] # 0 /\ next'[<<r, s>>] # 0 => q = r
                      /\ \A q \in Proc : next'[<<q, s>>] # 0 =>
                            \A i \in next'[<<q, s>>]..Last : delivered'[<<Channels[i], s>>] = 0
                      /\ \A d \in Chan : delivered'[<<d, s>>] <= 1
    BY DEF OnceInv
  <2>3. CASE e # s
    <3>1. \A d \in Chan : delivered'[<<d, s>>] = delivered[<<d, s>>]
      BY <1>e, <2>1, <2>2, <2>3 DEF TypeOK
    <3>2. \A q \in Proc : next'[<<q, s>>] = next[<<q, s>>]
      BY <1>3, <1>e, <2>3 DEF Attempt, TypeOK
    <3>3. \A q \in Proc : \A i \in next[<<q, s>>]..Last : next[<<q, s>>] # 0 => Channels[i] \in Chan
      BY <1>l, <1>e, ChannelIn DEF TypeOK
    <3>4. cache' = cache
      BY <1>3 DEF Attempt
    <3> QED BY <3>1, <3>2, <3>3, <3>4 DEF OnceInv
  <2>4. CASE e = s
    <3>1. s \in cache /\ cache' = cache
      BY <1>3, <2>1, <2>4 DEF Attempt, OnceInv
    <3>2. \A q \in Proc : next'[<<q, s>>] # 0 <=> q = p
      <4>1. \A q \in Proc \ {p} : next'[<<q, s>>] = next[<<q, s>>]
        BY <1>3, <1>e, <2>4 DEF Attempt, TypeOK
      <4>2. \A q \in Proc \ {p} : next[<<q, s>>] = 0
        BY <1>l, <2>1, <2>4 DEF OnceInv
      <4>3. next'[<<p, s>>] # 0
        BY <1>3, <1>l, <1>e, <2>1, <2>4 DEF Attempt, TypeOK
      <4> QED BY <4>1, <4>2, <4>3
    <3>3. next'[<<p, s>>] = next[<<p, s>>] + 1
      BY <1>3, <1>e, <2>4 DEF Attempt, TypeOK
    <3>4. delivered[<<c, s>>] = 0
      BY <1>l, <2>1, <2>4 DEF OnceInv
    <3>5. \A d \in Chan : delivered'[<<d, s>>] = IF d = c THEN n ELSE delivered[<<d, s>>]
      BY <1>e, <2>1, <2>2, <2>4, <3>4 DEF TypeOK
    <3>6. \A i \in next'[<<p, s>>]..Last :
             i \in 1..Last /\ Channels[i] # c /\ delivered[<<Channels[i], s>>] = 0
      BY <1>l, <2>1, <2>4, <3>3 DEF OneCache, OnceInv
    <3>7. \A i \in next'[<<p, s>>]..Last : delivered'[<<Channels[i], s>>] = 0
      BY <3>5, <3>6, ChannelIn
    <3>8. \A d \in Chan : delivered'[<<d, s>>] <= 1
      BY <3>5 DEF OnceInv
    <3> QED BY <3>1, <3>2, <3>7, <3>8
  <2> QED BY <2>3, <2>4
<1>4. ASSUME NEW p \in Proc, NEW e \in Event, Record(p, e) PROVE OnceInv'
  BY <1>4, <1>l, <1>e DEF Record, OnceInv, TypeOK
<1>5. ASSUME NEW p \in Proc, Crash(p) PROVE OnceInv'
  BY <1>5, <1>e DEF Crash, OnceInv, TypeOK
<1>6. CASE UNCHANGED vars
  BY <1>6 DEF vars, OnceInv
<1> QED BY <1>1, <1>2, <1>3, <1>4, <1>5, <1>6 DEF Next

\* docs/configuration.md on REDIS_URL, replicas dedup run notifications: if all
\* processes share the cache, no destination gets a status of the run twice,
\* however many of them call notifyRunTerminal and crash.
THEOREM SharedCacheDeliversOnce == ASSUME OneCache PROVE Spec => []DeliveredOnce
<1>1. Init => OnceInv
  BY DEF Init, OnceInv, Event
<1>2. TypeOK /\ OnceInv /\ [Next]_vars => OnceInv'
  BY OnceStep
<1>3. OnceInv => DeliveredOnce
  BY DEF OnceInv, DeliveredOnce
<1> QED BY <1>1, <1>2, <1>3, TypeCorrect, PTL DEF Spec

-----------------------------------------------------------------------------
(* The history. *)

\* What a result says of a channel with the setting how that got n deliveries.
Truthful(how, n, res) ==
    /\ res = "sent" => n > 0
    /\ res \in {"sent", "failed"} => how = "ready"
    /\ res = "logged" => n = 0 /\ how = "log"
    /\ res = "skipped" => n = 0 /\ how \in {"off", "bare"}

\* The results at hand of the delivery by p of e.
Noted(p, e) ==
    \A i \in 1..Last : i < next[<<p, e>>] =>
        Truthful(setup[Channels[i]], delivered[<<Channels[i], e>>],
                 results[<<p, e>>][i])

\* Nobody contacts a channel that is not set up, and results are true before they
\* are recorded.
Quiet   == \A c \in Chan, e \in Event : setup[c] # "ready" => delivered[<<c, e>>] = 0
Pending == \A p \in Proc, e \in Event : Noted(p, e)
Kept    == \A h \in history :
               Truthful(setup[h.channel], delivered[<<h.channel, h.event>>], h.result)

TruthInv == Quiet /\ Pending /\ Kept

\* What one step may do to a channel's count.
Grows ==
    /\ setup' = setup
    /\ \A c \in Chan, e \in Event :
        /\ delivered[<<c, e>>] \in Nat /\ delivered'[<<c, e>>] \in Nat
        /\ delivered[<<c, e>>] <= delivered'[<<c, e>>]
        /\ setup[c] # "ready" => delivered'[<<c, e>>] = 0

LEMMA TruthKept ==
    ASSUME Grows, NEW c \in Chan, NEW e \in Event, NEW res,
           Truthful(setup[c], delivered[<<c, e>>], res)
    PROVE  Truthful(setup'[c], delivered'[<<c, e>>], res)
BY DEF Grows, Truthful

LEMMA SameGrows ==
    TypeOK /\ Quiet /\ UNCHANGED <<setup, delivered>> => Grows
<1> SUFFICES ASSUME TypeOK, Quiet, UNCHANGED <<setup, delivered>> PROVE Grows
  OBVIOUS
<1>1. \A c \in Chan, e \in Event : delivered[<<c, e>>] \in Nat
  BY DEF TypeOK
<1> QED BY <1>1 DEF Grows, Quiet

LEMMA AttemptGrows ==
    ASSUME TypeOK, Quiet, NEW p \in Proc, NEW e \in Event, Attempt(p, e),
           NEW c, c = Channels[next[<<p, e>>]]
    PROVE  /\ Grows
           /\ \E res \in Result :
                /\ results' = [results EXCEPT ![<<p, e>>] = Append(@, res)]
                /\ Truthful(setup'[c], delivered'[<<c, e>>], res)
<1>1. c \in Chan /\ setup' = setup
  BY ChannelIn DEF Attempt
<1>2. PICK res \in Outcomes(c), n \in {0, 1} :
          /\ results' = [results EXCEPT ![<<p, e>>] = Append(@, res)]
          /\ delivered' = [delivered EXCEPT ![<<c, e>>] = @ + n]
          /\ res = "sent" => n = 1
          /\ res \notin {"sent", "failed"} => n = 0
  BY DEF Attempt
<1>3. setup[c] \in {"off", "bare", "log", "ready"} /\ res \in Result
  BY <1>1, OutcomesType DEF TypeOK, Chan
<1>4. /\ res \in {"sent", "failed"} => setup[c] = "ready"
      /\ res = "logged" => setup[c] = "log"
      /\ res = "skipped" => setup[c] \in {"off", "bare"}
  BY <1>2, <1>3 DEF Outcomes
<1>5. delivered \in [Chan \X Event -> Nat]
  BY DEF TypeOK
<1>6. delivered'[<<c, e>>] = delivered[<<c, e>>] + n /\ delivered[<<c, e>>] \in Nat
  BY <1>1, <1>2, <1>5
<1>7. ASSUME NEW d \in Chan, NEW f \in Event
      PROVE  /\ delivered[<<d, f>>] \in Nat /\ delivered'[<<d, f>>] \in Nat
             /\ delivered[<<d, f>>] <= delivered'[<<d, f>>]
             /\ setup[d] # "ready" => delivered'[<<d, f>>] = 0
  <2>1. delivered[<<d, f>>] \in Nat /\ (setup[d] # "ready" => delivered[<<d, f>>] = 0)
    BY <1>5 DEF Quiet
  <2>2. CASE d = c /\ f = e
    <3>1. setup[c] # "ready" => n = 0
      BY <1>2, <1>4
    <3>2. delivered[<<d, f>>] \in Nat /\ delivered'[<<d, f>>] = delivered[<<d, f>>] + n
      BY <1>6, <2>2
    <3>3. n \in Nat /\ (setup[d] # "ready" => n = 0)
      BY <2>2, <3>1
    <3> HIDE <2>2
    <3> QED BY <2>1, <3>2, <3>3
  <2>3. CASE ~(d = c /\ f = e)
    <3>1. delivered'[<<d, f>>] = delivered[<<d, f>>]
      BY <1>2, <1>5, <2>3
    <3> QED BY <2>1, <3>1
  <2> QED BY <2>2, <2>3
<1>8. Truthful(setup'[c], delivered'[<<c, e>>], res)
  <2>1. setup[c] # "ready" => delivered[<<c, e>>] = 0
    BY <1>1 DEF Quiet
  <2>2. res = "sent" => delivered'[<<c, e>>] > 0
    BY <1>2, <1>6
  <2>3. res \in {"logged", "skipped"} => delivered'[<<c, e>>] = 0
    <3>1. res \in {"logged", "skipped"} => setup[c] # "ready"
      BY <1>4
    <3>2. res \in {"logged", "skipped"} => n = 0
      BY <1>2
    <3> QED BY <1>6, <2>1, <3>1, <3>2
  <2> QED BY <1>1, <1>4, <2>2, <2>3 DEF Truthful
<1>9. Grows
  BY <1>1, <1>7 DEF Grows
<1> QED BY <1>2, <1>3, <1>8, <1>9

LEMMA AppendBelow ==
    ASSUME NEW rs \in Seq(Result), NEW res \in Result, NEW i \in Nat \ {0}, i <= Len(rs)
    PROVE  Append(rs, res)[i] = rs[i]
OBVIOUS

\* A delivery that is not touched, or that is given up or starts, stays true.
LEMMA NotedKept ==
    ASSUME TypeOK, Pending, Grows, NEW p \in Proc, NEW e \in Event,
           \/ next'[<<p, e>>] \in {0, 1}
           \/ /\ next'[<<p, e>>] = next[<<p, e>>]
              /\ results'[<<p, e>>] = results[<<p, e>>]
    PROVE  Noted(p, e)'
<1>1. CASE next'[<<p, e>>] \in {0, 1}
  <2>1. \A i \in 1..Last : ~(i < next'[<<p, e>>])
    BY <1>1 DEF Last
  <2> QED BY <2>1 DEF Noted
<1>2. CASE /\ next'[<<p, e>>] = next[<<p, e>>]
           /\ results'[<<p, e>>] = results[<<p, e>>]
  <2> SUFFICES ASSUME NEW i \in 1..Last, i < next'[<<p, e>>]
               PROVE  Truthful(setup'[Channels[i]], delivered'[<<Channels[i], e>>],
                               results'[<<p, e>>][i])
    BY DEF Noted
  <2>1. Truthful(setup[Channels[i]], delivered[<<Channels[i], e>>], results[<<p, e>>][i])
    BY <1>2 DEF Pending, Noted
  <2> QED BY <1>2, <2>1, ChannelIn, TruthKept
<1> QED BY <1>1, <1>2

LEMMA KeptGrows == TypeOK /\ Kept /\ Grows /\ history' = history => Kept'
<1> SUFFICES ASSUME TypeOK, Kept, Grows, history' = history, NEW h \in history
             PROVE  Truthful(setup'[h.channel], delivered'[<<h.channel, h.event>>], h.result)
  BY DEF Kept
<1>1. h.channel \in Chan /\ h.event \in Event
  BY DEF TypeOK
<1>2. Truthful(setup[h.channel], delivered[<<h.channel, h.event>>], h.result)
  BY DEF Kept
<1> QED BY <1>1, <1>2, TruthKept

LEMMA QuietGrows == Grows => Quiet'
BY DEF Grows, Quiet

LEMMA TruthStep == TypeOK /\ TruthInv /\ [Next]_vars => TruthInv'
<1> SUFFICES ASSUME TypeOK, TruthInv, [Next]_vars PROVE TruthInv'
  OBVIOUS
<1> USE DEF TruthInv
<1>l. Last \in Nat
  BY DEF Last
<1>n. next \in [Proc \X Event -> 0..Last + 1]
  BY DEF TypeOK
<1>r. results \in [Proc \X Event -> Seq(Result)]
  BY DEF TypeOK
<1>s. ASSUME UNCHANGED <<setup, delivered>>, history' = history,
             \A p \in Proc, e \in Event :
                 \/ next'[<<p, e>>] \in {0, 1}
                 \/ next'[<<p, e>>] = next[<<p, e>>]
                    /\ results'[<<p, e>>] = results[<<p, e>>]
      PROVE  TruthInv'
  <2>1. Grows
    BY <1>s, SameGrows
  <2>2. Pending'
    BY <1>s, <2>1, NotedKept DEF Pending
  <2> QED BY <1>s, <2>1, <2>2, KeptGrows, QuietGrows
<1>1. ASSUME NEW p \in Proc, NEW s \in Status, Notify(p, s) PROVE TruthInv'
  <2>1. next' = next \/ next' = [next EXCEPT ![<<p, s>>] = 1]
    BY <1>1 DEF Notify
  <2>2. \A q \in Proc, e \in Event :
            next'[<<q, e>>] = 1 \/ next'[<<q, e>>] = next[<<q, e>>]
    BY <1>n, <2>1
  <2>3. UNCHANGED <<setup, delivered, results, history>>
    BY <1>1 DEF Notify
  <2> QED BY <1>s, <2>2, <2>3
<1>2. ASSUME NEW p \in Proc, NotifyTest(p) PROVE TruthInv'
  <2>1. next' = [next EXCEPT ![<<p, "test">>] = 1]
    BY <1>2 DEF NotifyTest
  <2>2. \A q \in Proc, e \in Event :
            next'[<<q, e>>] = 1 \/ next'[<<q, e>>] = next[<<q, e>>]
    BY <1>n, <2>1
  <2>3. UNCHANGED <<setup, delivered, results, history>>
    BY <1>2 DEF NotifyTest
  <2> QED BY <1>s, <2>2, <2>3
<1>3. ASSUME NEW p \in Proc, NEW e \in Event, Attempt(p, e) PROVE TruthInv'
  <2>1. PICK c : c = Channels[next[<<p, e>>]]
    OBVIOUS
  <2>2. PICK res \in Result :
            /\ results' = [results EXCEPT ![<<p, e>>] = Append(@, res)]
            /\ Truthful(setup'[c], delivered'[<<c, e>>], res)
    BY <1>3, <2>1, AttemptGrows
  <2>3. Grows
    BY <1>3, <2>1, AttemptGrows
  <2>4. next[<<p, e>>] \in 1..Last /\ next' = [next EXCEPT ![<<p, e>>] = @ + 1]
    BY <1>3 DEF Attempt
  <2>5. ASSUME NEW q \in Proc, NEW f \in Event, <<q, f>> # <<p, e>> PROVE Noted(q, f)'
    <3>1. next'[<<q, f>>] = next[<<q, f>>] /\ results'[<<q, f>>] = results[<<q, f>>]
      BY <1>n, <1>r, <2>2, <2>4, <2>5
    <3> QED BY <2>3, <3>1, NotedKept
  <2>6. Noted(p, e)'
    <3> SUFFICES ASSUME NEW i \in 1..Last, i < next'[<<p, e>>]
                 PROVE  Truthful(setup'[Channels[i]], delivered'[<<Channels[i], e>>],
                                 results'[<<p, e>>][i])
      BY DEF Noted
    <3>1. next'[<<p, e>>] = next[<<p, e>>] + 1
      BY <1>n, <2>4
    <3>2. Len(results[<<p, e>>]) = next[<<p, e>>] - 1
      <4>1. \A d \in Proc \X Event :
                Len(results[d]) = IF next[d] = 0 THEN 0 ELSE next[d] - 1
        BY DEF TypeOK
      <4> QED BY <2>4, <4>1
    <3>3. results[<<p, e>>] \in Seq(Result)
          /\ results'[<<p, e>>] = Append(results[<<p, e>>], res)
      BY <1>r, <2>2
    <3>4. CASE i = next[<<p, e>>]
      <4>1. results'[<<p, e>>][i] = res
        BY <2>4, <3>2, <3>3, <3>4
      <4> QED BY <2>1, <2>2, <3>4, <4>1
    <3>5. CASE i # next[<<p, e>>]
      <4>1. i < next[<<p, e>>]
        BY <1>l, <2>4, <3>1, <3>5
      <4>2. results'[<<p, e>>][i] = results[<<p, e>>][i]
        <5>1. i \in Nat \ {0} /\ i <= Len(results[<<p, e>>])
          BY <1>l, <2>4, <3>2, <4>1
        <5>2. Append(results[<<p, e>>], res)[i] = results[<<p, e>>][i]
          BY <3>3, <5>1, AppendBelow
        <5> QED BY <3>3, <5>2
      <4>3. Truthful(setup[Channels[i]], delivered[<<Channels[i], e>>],
                     results[<<p, e>>][i])
        BY <4>1 DEF Pending, Noted
      <4> QED BY <2>3, <4>2, <4>3, ChannelIn, TruthKept
    <3> QED BY <3>4, <3>5
  <2>7. Pending'
    BY <2>5, <2>6 DEF Pending
  <2>8. history' = history
    BY <1>3 DEF Attempt
  <2> QED BY <2>3, <2>7, <2>8, KeptGrows, QuietGrows
<1>4. ASSUME NEW p \in Proc, NEW e \in Event, Record(p, e) PROVE TruthInv'
  <2>1. UNCHANGED <<setup, delivered>>
    BY <1>4 DEF Record
  <2>2. /\ next[<<p, e>>] = Last + 1
        /\ next' = [next EXCEPT ![<<p, e>>] = 0]
        /\ results' = [results EXCEPT ![<<p, e>>] = <<>>]
    BY <1>4 DEF Record
  <2>3. \A q \in Proc, f \in Event :
            \/ next'[<<q, f>>] = 0
            \/ next'[<<q, f>>] = next[<<q, f>>] /\ results'[<<q, f>>] = results[<<q, f>>]
    BY <1>n, <1>r, <2>2
  <2>4. Grows
    BY <2>1, SameGrows
  <2>5. Pending'
    BY <2>3, <2>4, NotedKept DEF Pending
  <2>6. Kept'
    <3> SUFFICES ASSUME NEW h \in history'
                 PROVE  Truthful(setup[h.channel], delivered[<<h.channel, h.event>>],
                                 h.result)
      BY <2>1 DEF Kept
    <3>1. CASE h \in history
      BY <3>1 DEF Kept
    <3>2. CASE h \notin history
      <4>1. PICK i \in 1..Last :
                h = [proc |-> p, event |-> e, channel |-> Channels[i],
                     result |-> results[<<p, e>>][i]]
        BY <1>4, <3>2 DEF Record
      <4>2. i < next[<<p, e>>]
        BY <1>l, <2>2
      <4>3. Truthful(setup[Channels[i]], delivered[<<Channels[i], e>>],
                     results[<<p, e>>][i])
        BY <4>2 DEF Pending, Noted
      <4> QED BY <4>1, <4>3
    <3> QED BY <3>1, <3>2
  <2> QED BY <2>4, <2>5, <2>6, QuietGrows
<1>5. ASSUME NEW p \in Proc, Crash(p) PROVE TruthInv'
  <2>1. \A q \in Proc, e \in Event :
            \/ next'[<<q, e>>] = 0
            \/ next'[<<q, e>>] = next[<<q, e>>] /\ results'[<<q, e>>] = results[<<q, e>>]
    BY <1>5 DEF Crash
  <2>2. UNCHANGED <<setup, delivered, history>>
    BY <1>5 DEF Crash
  <2> QED BY <1>s, <2>1, <2>2
<1>6. CASE UNCHANGED vars
  <2>1. UNCHANGED <<setup, delivered, next, results, history>>
    BY <1>6 DEF vars
  <2> QED BY <1>s, <2>1
<1> QED BY <1>1, <1>2, <1>3, <1>4, <1>5, <1>6 DEF Next

\* run_notify_history.go, the history says what happened: a row says sent only of
\* what arrived, and skipped or logged only of a channel that was not contacted.
THEOREM HistoryIsHonest == Spec => []HonestHistory
<1>1. Init => TruthInv
  <2> SUFFICES ASSUME Init PROVE TruthInv
    OBVIOUS
  <2>1. Quiet
    BY DEF Init, Quiet
  <2>2. Pending
    <3>1. \A p \in Proc, e \in Event : next[<<p, e>>] = 0
      BY DEF Init
    <3>2. \A i \in 1..Last : ~(i < 0)
      BY DEF Last
    <3> QED BY <3>1, <3>2 DEF Pending, Noted
  <2> QED BY <2>1, <2>2 DEF Init, TruthInv, Kept
<1>2. TypeOK /\ TruthInv /\ [Next]_vars => TruthInv'
  BY TruthStep
<1>3. TypeOK /\ TruthInv => HonestHistory
  <2> SUFFICES ASSUME TypeOK, TruthInv, NEW h \in history
               PROVE  CASE h.result = "sent" -> /\ delivered[<<h.channel, h.event>>] > 0
                                                /\ setup[h.channel] = "ready"
                        [] h.result = "failed" -> setup[h.channel] = "ready"
                        [] h.result = "logged" -> /\ delivered[<<h.channel, h.event>>] = 0
                                                  /\ setup[h.channel] = "log"
                        [] h.result = "skipped" -> /\ delivered[<<h.channel, h.event>>] = 0
                                                   /\ setup[h.channel] \in {"off", "bare"}
    BY DEF HonestHistory
  <2>1. h.result \in Result
    BY DEF TypeOK
  <2>2. Truthful(setup[h.channel], delivered[<<h.channel, h.event>>], h.result)
    BY DEF TruthInv, Kept
  <2> QED BY <2>1, <2>2 DEF Truthful, Result
<1> QED BY <1>1, <1>2, <1>3, TypeCorrect, PTL DEF Spec
=============================================================================
