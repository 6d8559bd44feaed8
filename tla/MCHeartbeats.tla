---------------------------- MODULE MCHeartbeats ----------------------------
(***************************************************************************)
(* Model-checking instance of Heartbeats: coordinators and instances are   *)
(* interchangeable.                                                        *)
(***************************************************************************)
EXTENDS Heartbeats, TLC

Symmetry == Permutations(Coordinators) \cup Permutations(Instances)
=============================================================================
