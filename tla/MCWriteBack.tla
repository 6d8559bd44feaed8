--------------------------- MODULE MCWriteBack ---------------------------
(* Instances of WriteBack for TLC.  Threads and tasks are interchangeable; *)
(* the safety instances declare them symmetric.                            *)
EXTENDS WriteBack, TLC

Symmetry == Permutations(Writers) \cup Permutations(Flushers)
=============================================================================
