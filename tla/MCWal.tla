-------------------------------- MODULE MCWal --------------------------------
(* An instance of Wal for TLC.                                             *)
EXTENDS Wal
=============================================================================
