------------------------- MODULE MCAccessCheckpoint -------------------------
(* The instance of AccessCheckpoint that MCAccess.cfg checks.              *)
EXTENDS AccessCheckpoint
=============================================================================
