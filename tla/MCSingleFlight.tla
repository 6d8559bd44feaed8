-------------------------- MODULE MCSingleFlight --------------------------
(* Instances of SingleFlight for TLC; the requests are model values.       *)
(* Liveness is checked, so they are not declared symmetric.  Three         *)
(* requests for a block or a small object; of the pages, one request reads *)
(* all, the second some, and the third none.                               *)
EXTENDS SingleFlight, TLC

CONSTANTS a, b, c

MCReads == (a :> {{1, 2, 3}}) @@ (b :> {{2}, {1, 2}, {2, 3}}) @@ (c :> {{}})
=============================================================================
