--------------------------- MODULE MCScheduleFiring ---------------------------
(* Schedules and tickers for the firing model. *)
EXTENDS ScheduleFiring

\* An interval, a daily time, and both with the fire times that schedule_json
\* kept before there were state rows.
MCDefs == {[daily |-> FALSE, next |-> 0, last |-> 0], [daily |-> TRUE, next |-> 0, last |-> 0],
           [daily |-> FALSE, next |-> 2, last |-> 1], [daily |-> TRUE, next |-> 0, last |-> 1]}

\* Tickers that start together: what tells the processes apart is how long they
\* read.
MCPhases == {<<1, 1>>}

\* Tickers of processes that need not start together.
MCStaggered == {<<1, 1>>, <<2, 1>>}
=============================================================================
