----------------------------- MODULE MCLifecycle -----------------------------
(***************************************************************************)
(* Lifecycle on small sets of daemon processes and invocations of `wa       *)
(* start', all alike.                                                       *)
(***************************************************************************)
EXTENDS Lifecycle, TLC

ProcessSymmetry == Permutations(Daemon) \cup Permutations(Cli)
=============================================================================
