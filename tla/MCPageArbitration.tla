------------------------- MODULE MCPageArbitration -------------------------
(* Instances of PageArbitration for TLC; the processes are model values.   *)
EXTENDS PageArbitration, TLC

Sym == Permutations(Readers) \cup Permutations(Collectors)
=============================================================================
