--------------------------- MODULE WalCommitProofs ---------------------------
(***************************************************************************)
(* The safety of group commit, for every threshold, interval, record size  *)
(* and order of the calls.                                                 *)
(***************************************************************************)
EXTENDS WalCommit, TLAPS

(***************************************************************************)
(* What the properties rest on.  Watermarks: the fsync under way covers    *)
(* what in_flight says, and what was made durable is what is synced.       *)
(* LastEnd: the file ends with the last record, so more bytes mean a       *)
(* record that the flush did not take up.  SameClock: the batcher's window *)
(* is the age of its oldest record.                                        *)
(***************************************************************************)
Watermarks ==
  /\ durable = synced
  /\ durable <= appended
  /\ \A covered \in inFlight :
       /\ inFlight = {covered}
       /\ covered = syncing
       /\ durable <= covered
       /\ covered <= appended

LastEnd ==
  /\ \A e \in ends : e <= appended
  /\ appended > 0 => appended \in ends

AckedDurable == \A e \in acked : e <= durable

SameClock == hasPending => sincePending = waited

CommitInv ==
  /\ CommitTypeOK
  /\ Watermarks
  /\ LastEnd
  /\ AckedDurable
  /\ NothingForgotten
  /\ SameClock

(* The inductive invariant holds initially.                                *)
LEMMA InvInit == CommitInit => CommitInv
<1> SUFFICES ASSUME CommitInit PROVE CommitInv
  OBVIOUS
<1> USE DEF CommitInit
<1>1. 0 \in 0 .. MaxAppended /\ 0 \in 0 .. FLUSH_INTERVAL
  BY CommitAssumption
<1>2. CommitTypeOK
  <2>1. hasPending \in BOOLEAN
    BY Zenon
  <2> QED BY <1>1, <2>1 DEF CommitTypeOK
<1>3. Watermarks /\ LastEnd /\ AckedDurable
  BY DEF Watermarks, LastEnd, AckedDurable
<1>4. Unflushed = {}
  BY DEF Unflushed
<1> QED BY <1>2, <1>3, <1>4 DEF CommitInv, NothingForgotten, SameClock

\* Every call of the batcher, in any order, keeps the invariant.
LEMMA InvStep == CommitInv /\ [CommitNext]_commitVars => CommitInv'
<1> SUFFICES ASSUME CommitInv, [CommitNext]_commitVars PROVE CommitInv'
  OBVIOUS
<1> USE CommitAssumption DEF CommitInv, CommitTypeOK
<1>1. ASSUME NEW bytes \in Nat, AppendBytes(bytes) PROVE CommitInv'
  <2> USE <1>1 DEF AppendBytes
  <2>1. CommitTypeOK'
    BY DEF Window
  <2>2. Watermarks' /\ LastEnd' /\ AckedDurable'
    BY DEF Watermarks, LastEnd, AckedDurable
  <2>3. appended' \in Unflushed'
    BY DEF Unflushed, Watermarks
  <2>4. NothingForgotten'
    BY <2>3 DEF NothingForgotten
  <2>5. SameClock'
    BY DEF SameClock, NothingForgotten, Window
  <2> QED BY <2>1, <2>2, <2>4, <2>5
<1>2. CASE Tick
  <2> USE <1>2 DEF Tick
  <2>1. CommitTypeOK'
    BY DEF Later
  <2>2. Watermarks' /\ LastEnd' /\ AckedDurable' /\ NothingForgotten'
    BY DEF Watermarks, LastEnd, AckedDurable, NothingForgotten, Unflushed
  <2>3. SameClock'
    BY DEF SameClock, NothingForgotten
  <2> QED BY <2>1, <2>2, <2>3
<1>3. CASE BeginFlush
  <2> USE <1>3 DEF BeginFlush
  <2>1. CommitTypeOK'
    <3>1. hasPending' \in BOOLEAN
      BY Zenon
    <3>2. 0 \in 0 .. FLUSH_INTERVAL
      OBVIOUS
    <3> QED BY <3>1, <3>2
  <2>2. Watermarks' /\ LastEnd' /\ AckedDurable'
    BY DEF Watermarks, LastEnd, AckedDurable
  <2>3. Unflushed' = {}
    <3>1. inFlight' = {appended} /\ ends' = ends
      OBVIOUS
    <3>2. \A e \in ends : e \in Nat /\ appended \in Nat /\ e <= appended
      BY DEF LastEnd
    <3>3. \A e \in ends : ~(e > appended)
      BY <3>2
    <3> QED BY <3>1, <3>3, Zenon DEF Unflushed
  <2> QED BY <2>1, <2>2, <2>3 DEF NothingForgotten, SameClock
<1>4. CASE CompleteFlush
  <2>1. PICK covered \in inFlight :
          /\ inFlight' = {}
          /\ durable' = covered
          /\ hasPending' = (hasPending \/ appended > covered)
          /\ synced' = syncing
          /\ UNCHANGED <<appended, sincePending, ends, acked, syncing, waited>>
    BY <1>4 DEF CompleteFlush
  <2>2. inFlight = {covered} /\ covered = syncing /\ durable <= covered
        /\ covered <= appended
    BY DEF Watermarks
  <2>3. CommitTypeOK'
    BY <2>1, <2>2
  <2>4. Watermarks' /\ LastEnd' /\ AckedDurable'
    BY <2>1, <2>2 DEF Watermarks, LastEnd, AckedDurable
  <2>5. Unflushed' = {e \in ends : e > covered} /\ Unflushed' = Unflushed
    <3>1. \A e \in ends : e > covered => e > durable
      BY <2>2
    <3>2. ends' = ends /\ durable' = covered /\ inFlight' = {}
      BY <2>1
    <3> QED BY <2>2, <3>1, <3>2, Zenon DEF Unflushed
  <2>6. appended > covered => Unflushed' # {}
    BY <2>5, <2>2 DEF LastEnd
  <2>7. NothingForgotten' /\ SameClock'
    BY <2>1, <2>2, <2>5, <2>6 DEF NothingForgotten, SameClock
  <2> QED BY <2>3, <2>4, <2>7
<1>5. ASSUME NEW end \in ends, Acknowledge(end) PROVE CommitInv'
  BY <1>5 DEF Acknowledge, IsDurable, batcher, Watermarks, LastEnd, AckedDurable,
              NothingForgotten, SameClock, Unflushed
<1>6. CASE UNCHANGED commitVars
  BY <1>6 DEF commitVars, batcher, Watermarks, LastEnd, AckedDurable,
              NothingForgotten, SameClock, Unflushed
<1> QED BY <1>1, <1>2, <1>3, <1>4, <1>5, <1>6 DEF CommitNext

(* It holds at every moment of every behaviour.                            *)
LEMMA InvAlways == CommitSpec => []CommitInv
  BY InvInit, InvStep, PTL DEF CommitSpec

\* Batcher::is_durable: for any thresholds and any order of the calls, only a
\* completed fsync that covered a record acknowledges it.
THEOREM AckedOnlySynced == CommitSpec => []AckedSynced
<1>1. CommitInv => AckedSynced
  BY DEF CommitInv, CommitTypeOK, AckedDurable, AckedSynced, Watermarks
<1> QED BY InvAlways, <1>1, PTL

\* Batcher::complete_flush: has_pending is set exactly while some record is
\* outside every flush, whatever arrived while one ran.
THEOREM PendingKnown == CommitSpec => []NothingForgotten
<1>1. CommitInv => NothingForgotten
  BY DEF CommitInv
<1> QED BY InvAlways, <1>1, PTL

\* Batcher::should_flush: a record that waited for the interval makes the
\* next free writer sync, also when it arrived during a flush.
THEOREM DeadlineMet == CommitSpec => []DeadlineKept
<1>1. CommitInv => DeadlineKept
  BY DEF CommitInv, CommitTypeOK, DeadlineKept, NothingForgotten, SameClock,
         ShouldFlush
<1> QED BY InvAlways, <1>1, PTL
=============================================================================
