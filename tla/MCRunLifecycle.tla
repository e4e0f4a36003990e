--------------------------- MODULE MCRunLifecycle ---------------------------
(***************************************************************************)
(* RunLifecycle for TLC: nothing tells one worker container from another.  *)
(***************************************************************************)
EXTENDS RunLifecycle, TLC

Alike == Permutations(Workers)
=============================================================================
