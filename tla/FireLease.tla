------------------------------ MODULE FireLease ------------------------------
(***************************************************************************)
(* What the lease of one scheduled occurrence promises its callers, with   *)
(* no claim table, no settle window and no clock: a grant gives an owner   *)
(* the occurrence from the instant the verdict is judged at until the      *)
(* winning claim expires, and the grants of two owners never overlap.      *)
(***************************************************************************)
EXTENDS Integers

CONSTANTS Owner,   \* scheduler processes, named by their lexicographic rank
          TTL      \* how long a claim lives

VARIABLE grants

Grant == [owner : Owner, stamp : Int, at : Int]

\* The grant stands from g.at to the expiry of the claim that won it.
Until(g) == g.stamp + TTL

Overlap(g, h) == g.at < Until(h) /\ h.at < Until(g)

\* g can be handed out beside the grants already standing.
Compatible(g) == \A h \in grants : h.owner # g.owner => ~Overlap(g, h)

Init == grants = {}

Acquire(g) ==
    /\ g \in Grant
    /\ g.at < Until(g)
    /\ Compatible(g)
    /\ grants' = grants \cup {g}

\* An owner that declines the occurrence gives up what it holds.
Decline(o) == grants' = {g \in grants : g.owner # o}

\* The new grant is one of grants', so that TLC can check steps against Next.
Next ==
    \/ \E g \in grants' : Acquire(g)
    \/ \E o \in Owner : Decline(o)

Spec == Init /\ [][Next]_grants
=============================================================================
