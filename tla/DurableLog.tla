----------------------------- MODULE DurableLog -----------------------------
(***************************************************************************)
(* What one stream of the metadata journal promises, with no mention of    *)
(* files, batches or checkpoints: a log that grows at its end and that may *)
(* lose a suffix, but never the part it has promised to keep.              *)
(***************************************************************************)
EXTENDS Naturals, Sequences, SequencesExt

VARIABLES
  content,  \* the records that opening the stream now would yield
  floor     \* length of the prefix that callers were told is kept

Init == content = <<>> /\ floor = 0

Extend ==
  /\ IsPrefix(content, content')
  /\ UNCHANGED floor

Promise ==
  /\ floor' \in floor..Len(content)
  /\ UNCHANGED content

Lose ==
  /\ IsPrefix(content', content)
  /\ Len(content') >= floor
  /\ UNCHANGED floor

Next == Extend \/ Promise \/ Lose

Spec == Init /\ [][Next]_<<content, floor>>

=============================================================================
