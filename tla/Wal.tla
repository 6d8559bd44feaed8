--------------------------------- MODULE Wal ---------------------------------
(***************************************************************************)
(* The write-back WAL: group commit (WalCommit) over one segment file in   *)
(* the format of WalFraming.  Records are appended one after the other as  *)
(* encode_record returns them, and append is told their length.  What a    *)
(* power loss or the disk does to the file is not an action: the           *)
(* properties quantify over all it may do in the state at hand.            *)
(***************************************************************************)
EXTENDS WalCommit, WalFraming, SequencesExt

CONSTANT BodyLens   \* lengths of the records' bodies

ASSUME BodiesAssumption == BodyLens \subseteq Nat

VARIABLES
  file,    \* the cells of the segment, synced or not
  log      \* history: the records in the order of their appends

vars == <<commitVars, file, log>>

Init == CommitInit /\ file = <<>> /\ log = <<>>

(* A record whose bytes tell it from every other one.                      *)
Body(id, len) == [k \in 1 .. len |-> <<id, k>>]

AppendRecord ==
  \E len \in BodyLens :
    LET body == Body(Len(log) + 1, len)
        bytes == EncodeRecord(body)
    IN  /\ AppendBytes(Len(bytes))
        /\ file' = file \o bytes
        /\ log' = Append(log, [body |-> body, end |-> Len(file) + Len(bytes)])

Idle(step) == step /\ UNCHANGED <<file, log>>

Next ==
  \/ AppendRecord
  \/ Idle(Tick)
  \/ Idle(BeginFlush)
  \/ Idle(CompleteFlush)
  \/ \E e \in ends : Idle(Acknowledge(e))

Spec == Init /\ [][Next]_vars

(* The writer lets time pass, starts the flush it is told to start and is  *)
(* told when it is done; appenders read is_durable until it is true.       *)
FairSpec ==
  /\ Spec
  /\ WF_vars(Idle(Tick))
  /\ WF_vars(ShouldFlush /\ Idle(BeginFlush))
  /\ WF_vars(Idle(CompleteFlush))
  /\ WF_vars(\E e \in ends : Idle(Acknowledge(e)))
-----------------------------------------------------------------------------
\* The bodies of the records that end at one of E, in the order of the log.
Bodies(E) ==
  LET chosen == SelectSeq(log, LAMBDA r : r.end \in E)
  IN  [i \in DOMAIN chosen |-> chosen[i].body]

\* The records that lie wholly within the first n cells of the file.
Within(n) == Bodies({e \in ends : e <= n})

\* The file after a power loss that kept n cells of it: it ends there, or it
\* kept its length and the rest reads as zeros.
Cut(n) == SubSeq(file, 1, n)
Zeroed(n) == [i \in DOMAIN file |-> IF i <= n THEN file[i] ELSE Zero]

\* A power loss keeps the synced part of the file and any part of the rest.
\* Whatever is left, the reader returns exactly its whole records, none of
\* them cut short.  It calls a file that ends early torn only if it ends
\* within a record, and never damaged.  With AckedSynced, every acknowledged
\* record is among those it returns.
CrashKeepsRecords ==
  \A n \in synced .. Len(file) :
    LET r == ReadSegment(Cut(n))
    IN  /\ r.records = Within(n)
        /\ r.damaged = 0
        /\ r.stopped # "no" => r.stopped = "torn" /\ n \notin ends
        /\ ReadSegment(Zeroed(n)).records = Within(n)

\* The file with one damaged cell.
Damaged(p, hit) == [file EXCEPT ![p].hit = hit]

\* The reader never makes up a record: with any one cell damaged it returns
\* appended records in their order, all that precede the damage among them,
\* and when one is missing it says so.
DamageNeverForges ==
  LET possible == {Bodies(E) : E \in SUBSET ends}
  IN  \A p \in DOMAIN file : \A hit \in Hits(file[p]) :
        LET r == ReadSegment(Damaged(p, hit))
        IN  /\ r.records \in possible
            /\ IsPrefix(Within(p - 1), r.records)
            /\ r.records # Bodies(ends) => r.damaged > 0 \/ r.stopped # "no"

\* What blocks buy: after damage that does not end the reading, a record that
\* starts on a later block boundary is read, and so are all that follow it.
ResyncAtBlock ==
  \A p \in DOMAIN file : \A hit \in Hits(file[p]) :
    LET r == ReadSegment(Damaged(p, hit))
    IN  \A b \in ends :
          (r.stopped = "no" /\ b % BLOCK_SIZE = 0 /\ b >= p)
             => IsSuffix(Bodies({e \in ends : e > b}), r.records)

\* Every record is acknowledged in the end, also one that came while a flush
\* was running and one that no other record follows.
EveryRecordAcked ==
  \A e \in 1 .. MaxAppended : (e \in ends) ~> (e \in acked)
=============================================================================
