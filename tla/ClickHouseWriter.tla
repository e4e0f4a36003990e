-------------------------- MODULE ClickHouseWriter --------------------------
(***************************************************************************)
(* The ClickHouse writer every component hands its rows to.  insert posts  *)
(* one batch with bounded retries; insertAsync does so in a goroutine of   *)
(* its own once it holds one of maxInFlightInserts tokens, and blocks the  *)
(* caller until then; Add collects rows into a batch under bufMu and Flush *)
(* sends what was collected.  AddFull and its buffer are a second copy of  *)
(* Add.  A post that fails for the client may still have reached the       *)
(* server, so a batch can land more than once.                             *)
(***************************************************************************)
EXTENDS Integers, FiniteSets

CONSTANTS
    Caller,     \* goroutines that use the writer
    Row,        \* rows they write, each once
    BatchSize,
    MaxInFlight,  \* maxInFlightInserts
    Attempts      \* attempts of insert

ASSUME CallerAssumption == IsFiniteSet(Caller) /\ IsFiniteSet(Row)
ASSUME WriterAssumption ==
    BatchSize \in Nat \ {0} /\ MaxInFlight \in Nat \ {0} /\ Attempts \in Nat \ {0}

VARIABLES
    fresh,    \* rows nobody has written yet
    buf,      \* the batch buffer
    count,    \* w.count
    job,      \* the batch each caller is writing, {} if it writes none
    mode,     \* whether it waits for a token or runs insert itself
    tokens,   \* tokens taken from sem
    flight,   \* insert goroutines, named by their batch
    tries,    \* attempts each batch has used up
    landed,   \* rows the server has
    lost      \* rows of batches insert gave up on, and logged

vars == <<fresh, buf, count, job, mode, tokens, flight, tries, landed, lost>>

Batch == SUBSET Row

TypeOK ==
    /\ fresh \subseteq Row
    /\ buf \subseteq Row
    /\ count \in 0..BatchSize - 1
    /\ job \in [Caller -> Batch]
    /\ mode \in [Caller -> {"idle", "async", "sync"}]
    /\ tokens \in 0..MaxInFlight
    /\ flight \subseteq Batch
    /\ tries \in [Row -> 0..Attempts]
    /\ landed \subseteq Row
    /\ lost \subseteq Row

Init ==
    /\ fresh = Row
    /\ buf = {}
    /\ count = 0
    /\ job = [p \in Caller |-> {}]
    /\ mode = [p \in Caller |-> "idle"]
    /\ tokens = 0
    /\ flight = {}
    /\ tries = [r \in Row |-> 0]
    /\ landed = {}
    /\ lost = {}

\* Faulty variant: the snapshot is taken, the buffer is not reset.
AddKeepsBuffer(p, r) ==
    /\ mode[p] = "idle"
    /\ r \in fresh
    /\ fresh' = fresh \ {r}
    /\ buf' = buf \cup {r}
    /\ IF count + 1 >= BatchSize
       THEN /\ job' = [job EXCEPT ![p] = buf \cup {r}]
            /\ mode' = [mode EXCEPT ![p] = "async"]
            /\ count' = 0
       ELSE /\ count' = count + 1
            /\ UNCHANGED <<job, mode>>
    /\ UNCHANGED <<tokens, flight, tries, landed, lost>>

\* Add: swap under the lock; the snapshot is posted outside it.
Add(p, r) ==
    /\ mode[p] = "idle"
    /\ r \in fresh
    /\ fresh' = fresh \ {r}
    /\ IF count + 1 >= BatchSize
       THEN /\ job' = [job EXCEPT ![p] = buf \cup {r}]
            /\ mode' = [mode EXCEPT ![p] = "async"]
            /\ buf' = {}
            /\ count' = 0
       ELSE /\ buf' = buf \cup {r}
            /\ count' = count + 1
            /\ UNCHANGED <<job, mode>>
    /\ UNCHANGED <<tokens, flight, tries, landed, lost>>

\* Faulty variant: the buffer is reset before the snapshot is taken.
FlushEmpty(p) ==
    /\ mode[p] = "idle"
    /\ buf # {}
    /\ buf' = {}
    /\ count' = 0
    /\ UNCHANGED <<fresh, job, mode, tokens, flight, tries, landed, lost>>

\* Flush: an empty buffer is an empty payload, which insertAsync ignores.
Flush(p) ==
    /\ mode[p] = "idle"
    /\ buf # {}
    /\ job' = [job EXCEPT ![p] = buf]
    /\ mode' = [mode EXCEPT ![p] = "async"]
    /\ buf' = {}
    /\ count' = 0
    /\ UNCHANGED <<fresh, tokens, flight, tries, landed, lost>>

\* insertAsync, or insert, of one row: runs, scenarios, claims, history.
Write(p, r, m) ==
    /\ mode[p] = "idle"
    /\ r \in fresh
    /\ fresh' = fresh \ {r}
    /\ job' = [job EXCEPT ![p] = {r}]
    /\ mode' = [mode EXCEPT ![p] = m]
    /\ UNCHANGED <<buf, count, tokens, flight, tries, landed, lost>>

\* Faulty variant: the goroutine starts whether or not a token is left.
AcquireAnyway(p) ==
    /\ mode[p] = "async"
    /\ tokens' = IF tokens < MaxInFlight THEN tokens + 1 ELSE tokens
    /\ flight' = flight \cup {job[p]}
    /\ job' = [job EXCEPT ![p] = {}]
    /\ mode' = [mode EXCEPT ![p] = "idle"]
    /\ UNCHANGED <<fresh, buf, count, tries, landed, lost>>

\* The caller gets a token, starts the goroutine and returns.
Acquire(p) ==
    /\ mode[p] = "async"
    /\ tokens < MaxInFlight
    /\ tokens' = tokens + 1
    /\ flight' = flight \cup {job[p]}
    /\ job' = [job EXCEPT ![p] = {}]
    /\ mode' = [mode EXCEPT ![p] = "idle"]
    /\ UNCHANGED <<fresh, buf, count, tries, landed, lost>>

\* One POST of batch b: it is answered with 200, it fails and an attempt is
\* left, or it fails for good.  A failed POST may have landed all the same.
Accepted(b) ==
    /\ landed' = landed \cup b
    /\ UNCHANGED <<tries, lost>>

\* Faulty variants: no limit on attempts; a batch is given up without a word.
RetriedForever(b) ==
    /\ tries' = [r \in Row |-> IF r \in b THEN tries[r] + 1 ELSE tries[r]]
    /\ landed' \in {landed, landed \cup b}
    /\ UNCHANGED lost

GivenUpSilently(b) ==
    /\ tries' = [r \in Row |-> IF r \in b THEN tries[r] + 1 ELSE tries[r]]
    /\ \A r \in b : tries'[r] = Attempts
    /\ landed' \in {landed, landed \cup b}
    /\ UNCHANGED lost

Retried(b) ==
    /\ tries' = [r \in Row |-> IF r \in b THEN tries[r] + 1 ELSE tries[r]]
    /\ \A r \in b : tries'[r] < Attempts
    /\ landed' \in {landed, landed \cup b}
    /\ UNCHANGED lost

\* ... or the request cannot be built, and the batch is given up untried.
GivenUp(b) ==
    /\ \/ /\ tries' = [r \in Row |-> IF r \in b THEN tries[r] + 1 ELSE tries[r]]
          /\ \A r \in b : tries'[r] = Attempts
          /\ landed' \in {landed, landed \cup b}
       \/ (\A r \in b : tries[r] = 0) /\ UNCHANGED <<tries, landed>>
    /\ lost' = lost \cup b

\* The goroutine of an asynchronous insert; the token goes back on return.
RetryAsync(b) ==
    /\ b \in flight
    /\ Retried(b)
    /\ UNCHANGED <<fresh, buf, count, job, mode, tokens, flight>>

\* Faulty variant: a batch that is given up keeps its token.
FinishAsyncLeak(b) ==
    /\ b \in flight
    /\ Accepted(b) \/ GivenUp(b)
    /\ tokens' = IF lost' = lost THEN tokens - 1 ELSE tokens
    /\ flight' = flight \ {b}
    /\ UNCHANGED <<fresh, buf, count, job, mode>>

FinishAsync(b) ==
    /\ b \in flight
    /\ Accepted(b) \/ GivenUp(b)
    /\ tokens' = tokens - 1
    /\ flight' = flight \ {b}
    /\ UNCHANGED <<fresh, buf, count, job, mode>>

\* insert called by the caller itself, without a token.
RetrySync(p) ==
    /\ mode[p] = "sync"
    /\ Retried(job[p])
    /\ UNCHANGED <<fresh, buf, count, job, mode, tokens, flight>>

FinishSync(p) ==
    /\ mode[p] = "sync"
    /\ Accepted(job[p]) \/ GivenUp(job[p])
    /\ job' = [job EXCEPT ![p] = {}]
    /\ mode' = [mode EXCEPT ![p] = "idle"]
    /\ UNCHANGED <<fresh, buf, count, tokens, flight>>

Next ==
    \/ \E p \in Caller :
        \/ \E r \in fresh : Add(p, r) \/ Write(p, r, "async") \/ Write(p, r, "sync")
        \/ Flush(p) \/ Acquire(p) \/ RetrySync(p) \/ FinishSync(p)
    \/ \E b \in flight : RetryAsync(b) \/ FinishAsync(b)

\* The HTTP client times out, so every POST ends; a Go channel serves blocked
\* senders in turn.
Fairness ==
    /\ \A p \in Caller :
        SF_vars(Acquire(p)) /\ WF_vars(RetrySync(p) \/ FinishSync(p))
    /\ \A b \in Batch : WF_vars(RetryAsync(b) \/ FinishAsync(b))

Spec == Init /\ [][Next]_vars
FairSpec == Spec /\ Fairness

-----------------------------------------------------------------------------
(* Properties. *)

\* A row is in one place at a time until its insert returns: nobody else can
\* send it, and no two batches share it.
OneHolder ==
    /\ buf \cap fresh = {}
    /\ \A p \in Caller : job[p] \cap (fresh \cup buf) = {}
    /\ \A b \in flight : b \cap (fresh \cup buf) = {}
    /\ \A p, q \in Caller : p # q => job[p] \cap job[q] = {}
    /\ \A p \in Caller, b \in flight : job[p] \cap b = {}
    /\ \A b, c \in flight : b # c => b \cap c = {}

\* insert: no row disappears silently.  A row handed to the writer is in the
\* buffer, with a caller, in flight, in the table, or was dropped loudly.
Accounted(r) ==
    \/ r \in fresh \cup buf \cup landed \cup lost
    \/ \E p \in Caller : r \in job[p]
    \/ \E b \in flight : r \in b

NothingVanishes == \A r \in Row : Accounted(r)

\* maxInFlightInserts: a stalled ClickHouse holds at most that many insert
\* goroutines, and each of them one token.
InFlightBounded == tokens = Cardinality(flight) /\ tokens <= MaxInFlight

\* Rows of the buffer are counted, and a full batch never stays in it.
CountMatches == count = Cardinality(buf) /\ count < BatchSize

\* The inductive strengthening of the three.
WriterInv ==
    /\ OneHolder
    /\ NothingVanishes
    /\ InFlightBounded
    /\ CountMatches
    /\ \A p \in Caller : job[p] = {} <=> mode[p] = "idle"
    /\ {} \notin flight

\* insertAsync: backpressure delays a caller, it never strands one, and every
\* insert ends.
CallersReturn == \A p \in Caller : mode[p] # "idle" ~> mode[p] = "idle"
RowsSettle == \A r \in Row : r \in UNION flight ~> r \in landed \cup lost
=============================================================================
