------------------------------ MODULE RunNotify ------------------------------
(***************************************************************************)
(* Notifications of one run.  notifyRunTerminal filters the status, passes *)
(* the cross-replica dedup key in the security cache and then the dedup    *)
(* map of its own process, and starts a goroutine that tries the channels  *)
(* in order and records one history row per channel at the end.  Only      *)
(* opl-api sets the security cache up; the orchestrator, which closes and  *)
(* dispatches runs too, has the map alone.  The test endpoint delivers a   *)
(* synthetic event that passes neither the filter nor the dedup.           *)
(***************************************************************************)
EXTENDS Integers, Sequences

CONSTANTS
    Proc,      \* opl-api and opl-orchestrator processes
    Shared,    \* those whose security cache is one and the same Redis
    Status,    \* terminal statuses the run may be notified of
    Allowed,   \* OPL_RUN_NOTIFY_STATUSES
    Channels,  \* runNotifyChannels, in order
    Setups,    \* settings of the channels to consider, see setup
    Silent,    \* channels whose destination may never answer
    Calls, Crashes, InsertFails  \* bounds, see budget

ASSUME NotifyAssumption ==
    /\ Shared \subseteq Proc /\ Allowed \subseteq Status
    /\ "test" \notin Status
    /\ Len(Channels) \in Nat /\ DOMAIN Channels = 1..Len(Channels)
    /\ Setups \subseteq [{Channels[i] : i \in DOMAIN Channels} ->
                            {"off", "bare", "log", "ready"}]
    /\ {Calls, Crashes, InsertFails} \subseteq Nat

VARIABLES
    setup,      \* a channel is switched off, has nowhere to go, is only logged
                \* (OPL_RUN_NOTIFY_MODE=log, or no relay) or is delivered to
    asked,      \* allowed statuses notifyRunTerminal was called with
    cache,      \* statuses with a run-notify key in Redis
    local,      \* runNotifyOnceDedup of each process
    next,       \* the channel each delivery is at, 0 if there is none
    results,    \* results of each delivery so far
    delivered,  \* how often a channel's destination got each status
    history,    \* rows of run_notifications
    budget      \* calls, crashes and failed inserts still allowed

vars == <<setup, asked, cache, local, next, results, delivered, history, budget>>

\* A delivery is named by its process and status, "test" for a synthetic one.
Event  == Status \cup {"test"}
Chan   == {Channels[i] : i \in DOMAIN Channels}
Result == {"sent", "failed", "logged", "skipped"}
Last   == Len(Channels)

TypeOK ==
    /\ setup \in Setups
    /\ asked \subseteq Allowed
    /\ cache \subseteq Status
    /\ local \in [Proc -> SUBSET Status]
    /\ next \in [Proc \X Event -> 0..Last + 1]
    /\ results \in [Proc \X Event -> Seq(Result)]
    /\ \A d \in Proc \X Event :
        Len(results[d]) = IF next[d] = 0 THEN 0 ELSE next[d] - 1
    /\ delivered \in [Chan \X Event -> Nat]
    /\ history \subseteq [proc : Proc, event : Event, channel : Chan,
                          result : Result]
    /\ budget \in [calls : 0..Calls, crashes : 0..Crashes, fails : 0..InsertFails]

Spend(what) ==
    /\ budget[what] > 0
    /\ budget' = [budget EXCEPT ![what] = @ - 1]

Init ==
    /\ setup \in Setups
    /\ asked = {}
    /\ cache = {}
    /\ local = [p \in Proc |-> {}]
    /\ next = [d \in Proc \X Event |-> 0]
    /\ results = [d \in Proc \X Event |-> <<>>]
    /\ delivered = [x \in Chan \X Event |-> 0]
    /\ history = {}
    /\ budget = [calls |-> Calls, crashes |-> Crashes, fails |-> InsertFails]

\* Faulty variant: the dedup map of the process is asked before the shared key
\* and the shared key is forgotten.
NotifyLocalOnly(p, s) ==
    /\ Spend("calls")
    /\ asked' = asked \cup ({s} \cap Allowed)
    /\ IF s \in Allowed \ local[p]
       THEN /\ local' = [local EXCEPT ![p] = @ \cup {s}]
            /\ next' = [next EXCEPT ![<<p, s>>] = 1]
       ELSE UNCHANGED <<local, next>>
    /\ UNCHANGED <<setup, cache, results, delivered, history>>

\* notifyRunTerminal: SetNX wins once among the sharing processes, LoadOrStore
\* once within the process, and the goroutine is started.
Notify(p, s) ==
    /\ Spend("calls")
    /\ asked' = asked \cup ({s} \cap Allowed)
    /\ IF s \in Allowed /\ (p \in Shared => s \notin cache)
       THEN /\ cache' = IF p \in Shared THEN cache \cup {s} ELSE cache
            /\ local' = [local EXCEPT ![p] = @ \cup {s}]
            /\ next' = IF s \in local[p] THEN next
                       ELSE [next EXCEPT ![<<p, s>>] = 1]
       ELSE UNCHANGED <<cache, local, next>>
    /\ UNCHANGED <<setup, results, delivered, history>>

\* POST /api/perf/notifications/test.
NotifyTest(p) ==
    /\ next[<<p, "test">>] = 0
    /\ Spend("calls")
    /\ next' = [next EXCEPT ![<<p, "test">>] = 1]
    /\ UNCHANGED <<setup, asked, cache, local, results, delivered, history>>

\* Faulty variant: whatever is switched on is contacted.
OutcomesContact(c) ==
    IF setup[c] \in {"off", "bare"} THEN {"skipped"} ELSE {"sent", "failed"}

\* What deliverRunNotifyAll may report for a channel.
Outcomes(c) ==
    CASE setup[c] \in {"off", "bare"} -> {"skipped"}
      [] setup[c] = "log"   -> {"logged"}
      [] setup[c] = "ready" -> {"sent", "failed"}

\* One channel is tried.  A failed delivery may have arrived all the same.
Attempt(p, e) ==
    LET c == Channels[next[<<p, e>>]] IN
    /\ next[<<p, e>>] \in 1..Last
    /\ \E res \in Outcomes(c) :
        /\ results' = [results EXCEPT ![<<p, e>>] = Append(@, res)]
        /\ \E n \in CASE res = "sent" -> {1} [] res = "failed" -> {0, 1}
                      [] OTHER -> {0} :
            delivered' = [delivered EXCEPT ![<<c, e>>] = @ + n]
    /\ next' = [next EXCEPT ![<<p, e>>] = @ + 1]
    /\ UNCHANGED <<setup, asked, cache, local, history, budget>>

\* Faulty variant: only the channels that were contacted are recorded.
RecordContacted(p, e) ==
    /\ next[<<p, e>>] = Last + 1
    /\ history' = history \cup
        {[proc |-> p, event |-> e, channel |-> Channels[i],
          result |-> results[<<p, e>>][i]] :
            i \in {j \in 1..Last : results[<<p, e>>][j] # "skipped"}}
    /\ next' = [next EXCEPT ![<<p, e>>] = 0]
    /\ results' = [results EXCEPT ![<<p, e>>] = <<>>]
    /\ UNCHANGED <<setup, asked, cache, local, delivered, budget>>

\* recordRunNotifyHistory: one insert with a row per channel, lost as a whole
\* when all its attempts fail.
Record(p, e) ==
    /\ next[<<p, e>>] = Last + 1
    /\ \/ /\ history' = history \cup
               {[proc |-> p, event |-> e, channel |-> Channels[i],
                 result |-> results[<<p, e>>][i]] : i \in 1..Last}
          /\ UNCHANGED budget
       \/ Spend("fails") /\ UNCHANGED history
    /\ next' = [next EXCEPT ![<<p, e>>] = 0]
    /\ results' = [results EXCEPT ![<<p, e>>] = <<>>]
    /\ UNCHANGED <<setup, asked, cache, local, delivered>>

\* A process restarts: its goroutines and its map are gone, Redis is not.
Crash(p) ==
    /\ Spend("crashes")
    /\ local' = [local EXCEPT ![p] = {}]
    /\ next' = [d \in Proc \X Event |-> IF d[1] = p THEN 0 ELSE next[d]]
    /\ results' = [d \in Proc \X Event |-> IF d[1] = p THEN <<>> ELSE results[d]]
    /\ UNCHANGED <<setup, asked, cache, delivered, history>>

Next ==
    \E p \in Proc :
        \/ \E s \in Status : Notify(p, s)
        \/ \E e \in Event : Attempt(p, e) \/ Record(p, e)
        \/ NotifyTest(p)
        \/ Crash(p)

Spec == Init /\ [][Next]_vars

\* The HTTP client gives up after 12 seconds and insert after its attempts;
\* net/smtp sets no deadline, so a relay may keep a delivery for ever.
Answered(p, e) ==
    /\ next[<<p, e>>] \in 1..Last
    /\ LET c == Channels[next[<<p, e>>]] IN c \in Silent => setup[c] # "ready"
    /\ Attempt(p, e)

FairSpec ==
    /\ Spec
    /\ \A p \in Proc, e \in Event :
        WF_vars(Answered(p, e)) /\ WF_vars(Record(p, e))

-----------------------------------------------------------------------------
(* Properties. *)

\* docs/configuration.md on REDIS_URL: replicas dedup run notifications.  No
\* destination gets a status of the run twice, crashes or not.
DeliveredOnce == \A c \in Chan, s \in Status : delivered[<<c, s>>] <= 1

\* run_notify_history.go: the history says what happened.  A row says sent
\* only of a delivery that arrived, skipped only of a channel with nowhere to
\* go, and a channel that is logged or skipped was never contacted.
HonestHistory ==
    \A h \in history :
        CASE h.result = "sent"    -> /\ delivered[<<h.channel, h.event>>] > 0
                                     /\ setup[h.channel] = "ready"
          [] h.result = "failed"  -> setup[h.channel] = "ready"
          [] h.result = "logged"  -> /\ delivered[<<h.channel, h.event>>] = 0
                                     /\ setup[h.channel] = "log"
          [] h.result = "skipped" -> /\ delivered[<<h.channel, h.event>>] = 0
                                     /\ setup[h.channel] \in {"off", "bare"}

\* docs/perf-lab.md: every terminal run writes one history row per channel,
\* unless a process dies, the insert fails or a relay never answers.
HistoryComplete ==
    \A s \in Status : s \in asked ~>
        \/ \A c \in Chan : \E h \in history : h.event = s /\ h.channel = c
        \/ budget.crashes < Crashes \/ budget.fails < InsertFails
        \/ \E c \in Silent : setup[c] = "ready"
=============================================================================
