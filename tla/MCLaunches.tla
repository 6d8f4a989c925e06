----------------------------- MODULE MCLaunches -----------------------------
(***************************************************************************)
(* Launches with two analyses of one run that race and one launch that can *)
(* be stopped.  Launches of a kind and pids are interchangeable.           *)
(***************************************************************************)
EXTENDS Launches, TLC

Symmetry == Permutations(Analyses) \cup Permutations(Pids)
=============================================================================
