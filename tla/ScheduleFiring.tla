--------------------------- MODULE ScheduleFiring ---------------------------
(***************************************************************************)
(* One scenario with an interval or a daily schedule, ticked by several    *)
(* scheduler processes (opl-api and opl-orchestrator run the same tick).   *)
(* A tick reads the definition and the state row, then the clock, claims   *)
(* the occurrence under its fire key, dispatches it and writes a new state *)
(* row through the asynchronous writer.  The claim table is that of        *)
(* ScheduleLease with its settle window taken to be longer than an insert: *)
(* a claim is arbitrated once those it could lose to are in the table.     *)
(*                                                                         *)
(* Time is the model's own: Advance is held back while a live process or a *)
(* row on the wire is at its deadline, so that "in time" can be stated as  *)
(* an invariant.  0 is the zero time of the code.                          *)
(***************************************************************************)
EXTENDS Integers, FiniteSets

CONSTANTS
    Owner,     \* scheduler processes, named by the rank of their owner string
    Every,     \* every_minutes of an interval schedule
    Minute,    \* length of a minute
    Day,       \* minutes of a day
    DailyAt,   \* the minute of the day of a daily schedule
    Defs,      \* definitions to consider, see def
    Phases,    \* when the tickers may start
    TTL,       \* how long a claim lives
    Period,    \* ticker period
    ReadLag,   \* longest time from the ticker to a tick's clock reading
    FireLag,   \* longest time from a tick's clock reading to its state write
    WriteLag,  \* longest time an asynchronous row takes to land
    Upsets,    \* what may come in between, each at most once
    MaxUpsets, \* bound: how many of them besides a crash
    MaxEdit,   \* bound: no edit begins later
    MaxFires,  \* bound: the clock stops with this many dispatches ...
    MaxTime    \* bound: ... or here

ASSUME FiringAssumption ==
    /\ Owner # {} /\ Owner \subseteq Nat \ {0}
    /\ {Every, Minute, Day, TTL, Period} \subseteq Nat \ {0}
    /\ Phases \subseteq [Owner -> 1..Period]
    /\ DailyAt \in 0..Day - 1
    /\ Defs \subseteq [daily : BOOLEAN, next : Nat, last : Nat]
    /\ ReadLag \in Nat /\ FireLag \in Nat /\ WriteLag \in Nat
    /\ Upsets \subseteq {"crash", "drop", "scan", "blind", "error", "edit"}
    /\ MaxUpsets \in Nat /\ MaxEdit \in Nat /\ MaxFires \in Nat /\ MaxTime \in Nat \ {0}

VARIABLES
    clock,
    def,       \* the definition, as schedule_json has it: an interval or daily,
               \* and the fire times of a scenario older than state rows
    enabled,   \* schedule_json.enabled of the scenario row
    since,     \* when enabled last changed
    state,     \* the load_schedule_state row a FINAL read returns
    wire,      \* state rows handed to insertAsync and not landed
    pc,        \* where each process is in its tick
    due,       \* when the ticker of each process fires next
    seen,      \* the state row the tick of each process read
    now,       \* the clock reading of that tick; before it, when it began
    claims,    \* rows of load_schedule_leases, of every fire key
    fires,     \* dispatched occurrences
    post,      \* the schedule edit in progress, or NoEdit
    upset      \* which of Upsets have happened

vars == <<clock, def, enabled, since, state, wire, pc, due, seen, now, claims,
          fires, post, upset>>

\* A row names the process of its dispatch, if it has one.
Row == [next : Nat, last : Nat, count : Nat, owner : Owner \cup {0}, upd : Nat]
NoState == [next |-> 0, last |-> 0, count |-> 0, owner |-> 0, upd |-> 0]

Key == [kind : {"at", "iv", "day"}, n : Nat]

PC == {"idle", "loading", "loaded", "claim", "insert", "settle", "fired", "down"}

NoEdit == [open |-> FALSE]
Edit == [open : {TRUE}, enable : BOOLEAN, seen : Row]

TypeOK ==
    /\ clock \in 1..MaxTime
    /\ def \in Defs
    /\ enabled \in BOOLEAN
    /\ since \in 0..MaxTime
    /\ state \in Row
    /\ wire \subseteq Row
    /\ pc \in [Owner -> PC]
    /\ due \in [Owner -> Nat]
    /\ seen \in [Owner -> Row]
    /\ now \in [Owner -> 0..MaxTime]
    /\ claims \subseteq [key : Key, owner : Owner, stamp : Nat]
    /\ fires \subseteq [key : Key, owner : Owner, at : Nat, nth : Nat]
    /\ post \in {NoEdit} \cup Edit
    /\ upset \subseteq Upsets /\ Cardinality(upset \ {"crash"}) <= MaxUpsets

\* A process dies ("crash"), the writer gives a state row up ("drop"), the
\* query of the scenarios fails ("scan") or that of the state rows ("blind"), the
\* lease returns an error ("error"), an operator edits the schedule ("edit").
Upset(what) ==
    /\ what \in Upsets \ upset
    /\ upset' = upset \cup {what}
    /\ Cardinality(upset' \ {"crash"}) <= MaxUpsets

-----------------------------------------------------------------------------
(* Due and key of an occurrence. *)

DayOf(t)      == t \div (Day * Minute)
DailyTime(d)  == (d * Day + DailyAt) * Minute
DailyWindow(d) == DailyTime(d)..DailyTime(d) + Minute - 1

\* The next fire time of the state row goes before that of the definition.
NextKnown(st) ==
    IF st.next # 0 THEN st.next ELSE IF st.last = 0 THEN def.next ELSE 0

\* Without one: an interval since the last dispatch that the state row knows of,
\* else the definition, or any time in the minute of the day unless that day has
\* had its dispatch.
DueByDefinition(st, t) ==
    LET last == IF st.last # 0 THEN st.last ELSE def.last
    IN IF def.daily
       THEN t \in DailyWindow(DayOf(t)) /\ (last # 0 => DayOf(last) # DayOf(t))
       ELSE last # 0 => t - last >= Every

IsDue(st, t) ==
    IF NextKnown(st) # 0 THEN NextKnown(st) <= t ELSE DueByDefinition(st, t)

\* Faulty variant: the key is always derived from the wall clock.
FireKeyFromClock(st, t) ==
    IF def.daily THEN [kind |-> "day", n |-> DayOf(t)]
                 ELSE [kind |-> "iv", n |-> t \div Every]

FireKey(st, t) ==
    LET next == IF st.next # 0 THEN st.next ELSE def.next
    IN CASE next # 0              -> [kind |-> "at", n |-> next]
         [] next = 0 /\ def.daily  -> [kind |-> "day", n |-> DayOf(t)]
         [] next = 0 /\ ~def.daily -> [kind |-> "iv", n |-> t \div Every]

\* Faulty variant: the next fire is never moved on.
NextFireStale(t) == t

NextFire(t) ==
    IF ~def.daily THEN t + Every
    ELSE DailyTime(IF DailyTime(DayOf(t)) > t THEN DayOf(t) ELSE DayOf(t) + 1)

\* The occurrence a process is at.
Current(o) == FireKey(seen[o], now[o])

\* Faulty variant: a claim never expires.
ClaimsEver(k, t) == {c \in claims : c.key = k}

\* The live claims to an occurrence, and the one an arbitration at time t elects:
\* the earliest, of the lowest owner on a tie.
LiveClaims(k, t) == {c \in claims : c.key = k /\ t < c.stamp + TTL}

ClaimLess(c, d) == c.stamp < d.stamp \/ (c.stamp = d.stamp /\ c.owner < d.owner)

Elected(c, k, t) ==
    /\ c \in LiveClaims(k, t)
    /\ \A d \in LiveClaims(k, t) : d = c \/ ClaimLess(c, d)

-----------------------------------------------------------------------------
Init ==
    /\ clock = 1
    /\ def \in Defs
    /\ enabled \in BOOLEAN
    /\ since = 0
    /\ state = NoState
    /\ wire = {}
    /\ pc = [o \in Owner |-> "idle"]
    /\ due \in Phases
    /\ seen = [o \in Owner |-> NoState]
    /\ now = [o \in Owner |-> 0]
    /\ claims = {}
    /\ fires = {}
    /\ post = NoEdit
    /\ upset = {}

\* A tick that is over, or dies, forgets what it read.
Forget(o) ==
    /\ seen' = [seen EXCEPT ![o] = NoState]
    /\ now' = [now EXCEPT ![o] = 0]

\* The ticker fires and the tick reads the scenarios; a query that fails ends it.
\* The ticker keeps its grid: a late tick does not move the next one.
Load(o) ==
    /\ pc[o] = "idle"
    /\ due[o] <= clock
    /\ due' = [due EXCEPT ![o] = @ + Period * ((clock - @) \div Period + 1)]
    /\ \/ /\ Upset("scan")
          /\ UNCHANGED <<pc, now>>
       \/ /\ enabled
          /\ pc' = [pc EXCEPT ![o] = "loading"]
          /\ now' = [now EXCEPT ![o] = clock]
          /\ UNCHANGED upset
       \/ /\ ~enabled
          /\ UNCHANGED <<pc, now, upset>>
    /\ UNCHANGED <<clock, def, enabled, since, state, wire, seen, claims, fires, post>>

\* ... then the state rows; a query that fails finds none.
LoadState(o) ==
    /\ pc[o] = "loading"
    /\ pc' = [pc EXCEPT ![o] = "loaded"]
    /\ \/ /\ seen' = [seen EXCEPT ![o] = state]
          /\ UNCHANGED upset
       \/ /\ Upset("blind")
          /\ seen' = [seen EXCEPT ![o] = NoState]
    /\ UNCHANGED <<clock, def, enabled, since, state, wire, due, now, claims, fires,
                   post>>

\* ... and then the clock, once for the whole tick.
Begin(o) ==
    /\ pc[o] = "loaded"
    /\ IF IsDue(seen[o], clock)
       THEN /\ pc' = [pc EXCEPT ![o] = "claim"]
            /\ now' = [now EXCEPT ![o] = clock]
            /\ UNCHANGED seen
       ELSE /\ pc' = [pc EXCEPT ![o] = "idle"]
            /\ Forget(o)
    /\ UNCHANGED <<clock, def, enabled, since, state, wire, due, claims, fires,
                   post, upset>>

\* fireScenarioNow writes the run and dispatches it under a run id derived
\* from the fire key.
Dispatch(o) ==
    /\ fires' = fires \cup
         {[key |-> Current(o), owner |-> o, at |-> now[o], nth |-> seen[o].count + 1]}
    /\ pc' = [pc EXCEPT ![o] = "fired"]
    /\ UNCHANGED <<seen, now>>

\* The verdict of an arbitration that elected c: the process that owns it
\* dispatches, any other stands down.
Verdict(o, c) ==
    IF c.owner = o
    THEN Dispatch(o)
    ELSE /\ pc' = [pc EXCEPT ![o] = "idle"]
         /\ Forget(o)
         /\ UNCHANGED fires

\* claimScheduleFire lists the claims: the owner of a live lease is the verdict,
\* be it o by a claim of an earlier tick; without one, o claims.
List(o) ==
    /\ pc[o] = "claim"
    /\ \/ /\ LiveClaims(Current(o), now[o]) = {}
          /\ pc' = [pc EXCEPT ![o] = "insert"]
          /\ UNCHANGED <<seen, now, fires>>
       \/ \E c \in claims : Elected(c, Current(o), now[o]) /\ Verdict(o, c)
    /\ UNCHANGED <<clock, def, enabled, since, state, wire, due, claims, post, upset>>

ClaimOf(o) == [key |-> Current(o), owner |-> o, stamp |-> now[o]]

InsertClaim(o) ==
    /\ pc[o] = "insert"
    /\ claims' = claims \cup {ClaimOf(o)}
    /\ pc' = [pc EXCEPT ![o] = "settle"]
    /\ UNCHANGED <<clock, def, enabled, since, state, wire, due, seen, now, fires, post,
                   upset>>

\* Faulty variant: there is no settle window.
Unsettled(o) == pc[o] = "settle"

\* The settle window is over: no claim that goes before that of o is on its way.
Settled(o) ==
    \A p \in Owner :
        pc[p] = "insert" /\ Current(p) = Current(o) => now[o] < now[p]

\* ... and arbitrates.  The claim of a process that loses stays in the table.
Arbitrate(o) ==
    /\ pc[o] = "settle"
    /\ Settled(o)
    /\ \E c \in claims : Elected(c, Current(o), now[o]) /\ Verdict(o, c)
    /\ UNCHANGED <<clock, def, enabled, since, state, wire, due, claims, post, upset>>

\* The lease returns an error: a list or the insert failed, the latter with or
\* without its row in the table.
ClaimError(o) ==
    /\ pc[o] \in {"claim", "insert", "settle"}
    /\ Upset("error")
    /\ pc' = [pc EXCEPT ![o] = "idle"]
    /\ Forget(o)
    /\ \/ UNCHANGED claims
       \/ pc[o] = "insert" /\ claims' = claims \cup {ClaimOf(o)}
    /\ UNCHANGED <<clock, def, enabled, since, state, wire, due, fires, post>>

\* Faulty variant: the fire count is carried over.
WriteStateSameCount(o) ==
    /\ pc[o] = "fired"
    /\ wire' = wire \cup {[seen[o] EXCEPT !.next = NextFire(now[o]),
                                          !.last = now[o], !.owner = o,
                                          !.upd = clock]}
    /\ pc' = [pc EXCEPT ![o] = "idle"]
    /\ Forget(o)
    /\ UNCHANGED <<clock, def, enabled, since, state, due, claims, fires, post,
                   upset>>

\* fireScenarioNow hands the new state row to the writer.
WriteState(o) ==
    /\ pc[o] = "fired"
    /\ wire' = wire \cup {[next |-> NextFire(now[o]), last |-> now[o],
                           count |-> seen[o].count + 1, owner |-> o, upd |-> clock]}
    /\ pc' = [pc EXCEPT ![o] = "idle"]
    /\ Forget(o)
    /\ UNCHANGED <<clock, def, enabled, since, state, due, claims, fires, post,
                   upset>>

\* Faulty variant: the last row to land wins.
LandLast(r) ==
    /\ r \in wire
    /\ state' = r
    /\ wire' = wire \ {r}
    /\ UNCHANGED <<clock, def, enabled, since, pc, due, seen, now, claims, fires,
                   post, upset>>

\* A state row lands; ReplacingMergeTree keeps the newest updated_at, and the
\* last inserted of equals.
Land(r) ==
    /\ r \in wire
    /\ state' = IF r.upd >= state.upd THEN r ELSE state
    /\ wire' = wire \ {r}
    /\ UNCHANGED <<clock, def, enabled, since, pc, due, seen, now, claims, fires,
                   post, upset>>

\* The writer gives a row up after its retries.
Drop(r) ==
    /\ r \in wire
    /\ Upset("drop")
    /\ wire' = wire \ {r}
    /\ UNCHANGED <<clock, def, enabled, since, state, pc, due, seen, now, claims,
                   fires, post>>

\* POST .../schedule reads the scenario and its state row ...
ReadEdit(v) ==
    /\ post = NoEdit
    /\ clock <= MaxEdit
    /\ Upset("edit")
    /\ post' = [open |-> TRUE, enable |-> v, seen |-> state]
    /\ UNCHANGED <<clock, def, enabled, since, state, wire, pc, due, seen, now,
                   claims, fires>>

\* ... and writes the definition, with a first state row if it saw none.  The
\* scenario row is taken to land at once.
WriteEdit ==
    /\ post # NoEdit
    /\ post' = NoEdit
    /\ enabled' = post.enable
    /\ since' = clock
    /\ wire' = IF post.enable /\ post.seen.next = 0
               THEN wire \cup {[next |-> NextFire(clock), last |-> post.seen.last,
                                count |-> post.seen.count,
                                owner |-> post.seen.owner, upd |-> clock]}
               ELSE wire
    /\ UNCHANGED <<clock, def, state, pc, due, seen, now, claims, fires, upset>>

\* A process dies, and with it its ticker and rows it has handed to the writer:
\* those of its dispatches, and that of an edit it served.  Its claims stay.
Crash(o) ==
    /\ Upset("crash")
    /\ pc' = [pc EXCEPT ![o] = "down"]
    /\ Forget(o)
    /\ due' = [due EXCEPT ![o] = 0]
    /\ \E lost \in SUBSET {r \in wire : r.owner \in {o, 0}} : wire' = wire \ lost
    /\ UNCHANGED <<clock, def, enabled, since, state, claims, fires, post>>

\* Nothing is at its deadline.
InTime(o) ==
    /\ pc[o] = "idle" => clock < due[o]
    /\ pc[o] \in {"loading", "loaded"} => clock < now[o] + ReadLag
    /\ pc[o] \in {"claim", "insert", "settle", "fired"}
          => clock < now[o] + FireLag

Advance ==
    /\ clock < MaxTime /\ Cardinality(fires) < MaxFires
    /\ \A o \in Owner : InTime(o)
    /\ \A r \in wire : clock < r.upd + WriteLag
    /\ post = NoEdit
    /\ clock' = clock + 1
    /\ UNCHANGED <<def, enabled, since, state, wire, pc, due, seen, now, claims,
                   fires, post, upset>>

Next ==
    \/ \E o \in Owner :
        \/ Load(o) \/ LoadState(o) \/ Begin(o)
        \/ List(o) \/ InsertClaim(o) \/ Arbitrate(o) \/ ClaimError(o)
        \/ WriteState(o) \/ Crash(o)
    \/ \E r \in wire : Land(r) \/ Drop(r)
    \/ \E v \in BOOLEAN : ReadEdit(v)
    \/ WriteEdit
    \/ Advance

Spec == Init /\ [][Next]_vars

-----------------------------------------------------------------------------
(* Properties. *)

\* docs/perf-lab.md: the processes share the leases and do not double-fire.
\* While no state row is dropped and the lease returns no error, an occurrence
\* named by a state row, its day or the definition is dispatched again only if a
\* process died that had claimed it, and only once that claim has run out.  A
\* failed read of the state rows, though, brings back what the definition or the
\* day names.
RefireOnlyAfterCrash ==
    upset \cap {"drop", "error"} = {} =>
        \A f, g \in fires :
            /\ f # g /\ f.key = g.key /\ f.key.kind # "iv" /\ f.at <= g.at
            /\ "blind" \in upset => f.key.kind = "at" /\ f.key.n # def.next
            => \E c \in claims : /\ c.key = f.key /\ pc[c.owner] = "down"
                                 /\ c.stamp + TTL <= g.at

\* Even when state rows are lost, another process dispatches the occurrence
\* again only once every claim that the first had to it by then has run out.
OthersWaitOutLease ==
    "error" \notin upset =>
        \A f, g \in fires :
            f.owner # g.owner /\ f.key = g.key /\ f.key.kind # "iv" /\ f.at <= g.at
                => \A c \in claims :
                      c.key = f.key /\ c.owner = f.owner /\ c.stamp <= f.at
                          => c.stamp + TTL <= g.at

\* A due occurrence is dispatched within this time while a process is alive:
\* a tick that dies with the lease, the lease's length, the little more that a
\* claim which lost to it lives, and one more tick.  A failed query of the
\* scenarios or an error of the lease costs another tick, and so may a failed
\* read of the state rows: the tick goes by the definition, which may name no
\* occurrence yet or one that another process holds.
Lost == upset \cap {"scan", "error", "blind"}

Deadline == 2 * (Period - 1 + ReadLag + FireLag) + TTL + Period * Cardinality(Lost)

KnownTimeFires ==
    LET next == NextKnown(state)
        start == IF next < since THEN since ELSE next
    IN enabled /\ next # 0 /\ start + Deadline < clock
        => \E f \in fires : f.key = FireKey(state, clock) \/ f.at >= start

\* A daily schedule without a state row has one minute a day.  With a period that
\* lets a tick read the clock in every minute it is dispatched in that minute,
\* unless a process dies, a query of the scenarios fails or the lease returns an
\* error, or the definition has that day's dispatch.
DailyMinuteFires ==
    Period + ReadLag <= Minute /\ upset \cap {"crash", "scan", "error"} = {} =>
        \A d \in 0..DayOf(clock) :
            /\ def.daily /\ enabled /\ NextKnown(state) = 0
            /\ def.last # 0 => DayOf(def.last) # d
            /\ since < DailyTime(d) /\ DailyTime(d) + Minute + FireLag <= clock
            => \E f \in fires : f.at \in DailyWindow(d)

OccurrenceFiresInTime == KnownTimeFires /\ DailyMinuteFires

\* Whatever order the rows land in, the state row never moves an interval
\* schedule back by more than a dispatch takes.  It does not move a daily one
\* back at all; but a dispatch that comes a day late, because of an error, an
\* edit or a lost row, is not told apart from the one after it.
NeverMovesBack ==
    [][IF def.daily THEN upset \subseteq {"crash"} => state'.next >= state.next
                    ELSE state'.next >= state.next - FireLag]_vars

\* The fire count of the state row is the number of the last dispatch it knows
\* of: no landed row forgets an earlier dispatch, unless an operator's edit or
\* a failed read came in between, or an error made a daily schedule a day late.
CountKeepsUp ==
    upset \cap (IF def.daily THEN {"edit", "blind", "drop", "error"}
                             ELSE {"edit", "blind", "drop"}) = {} =>
        \A f \in fires :
            \/ f.nth <= state.count
            \/ pc[f.owner] \in {"fired", "down"}
            \/ \E r \in wire : r.count >= f.nth

\* scheduleDueWithState: the state row is authoritative when present.  While
\* its reads succeed, no tick falls back to a wall-clock key once the state
\* row of a dispatch has landed.
FallbackOnlyWithoutState ==
    upset \cap {"blind", "drop"} = {} =>
        \A f, g \in fires :
            g.key.kind # "at" /\ pc[f.owner] # "down"
                => g.at <= f.at + FireLag + WriteLag + ReadLag

\* scheduleFireKey's comment: every process derives the same key for the same
\* occurrence.
SameOccurrenceSameKey ==
    \A f, g \in fires : f.nth = g.nth => f.key = g.key
=============================================================================
