----------------------------- MODULE MCJournal -----------------------------
(* Instances of Journal for TLC; the requests are model values.            *)
EXTENDS Journal
=============================================================================
