------------------------------ MODULE WalCommit ------------------------------
(***************************************************************************)
(* Group commit of the write-back WAL (wal_commit.rs).  Batcher counts the *)
(* bytes that were appended and the bytes that a completed fsync covered,  *)
(* and decides when the writer should sync.  The writer of the cache       *)
(* directory and the appenders that wait for it are external: they append, *)
(* let time pass, start and complete an fsync, and acknowledge a record    *)
(* when is_durable says so.  Durations count ticks.                        *)
(***************************************************************************)
EXTENDS Naturals

CONSTANTS
  FLUSH_BYTES,      \* unflushed bytes that ask for a sync
  FLUSH_INTERVAL,   \* ticks since the first pending record that ask for one
  MaxAppended       \* bound of the model: bytes of the log

ASSUME CommitAssumption ==
  /\ FLUSH_BYTES \in Nat \ {0}
  /\ FLUSH_INTERVAL \in Nat \ {0}
  /\ MaxAppended \in Nat

VARIABLES
  appended,     \* Batcher.appended: bytes appended, flushed or not
  durable,      \* Batcher.durable: bytes that a completed fsync covered
  inFlight,     \* Batcher.in_flight: {} or the position it will make durable
  sincePending, \* Batcher.since_first_pending, up to FLUSH_INTERVAL
  hasPending,   \* Batcher.has_pending
  ends,         \* the positions append returned: where each record ends
  acked,        \* the ends that were acknowledged
  syncing,      \* external: the length of the file when the fsync was issued
  synced,       \* external: the length of the file that a power loss keeps
  waited        \* history: ticks since the oldest record outside any flush

batcher == <<appended, durable, inFlight, sincePending, hasPending>>
commitVars == <<batcher, ends, acked, syncing, synced, waited>>

CommitInit ==
  /\ appended = 0
  /\ durable = 0
  /\ inFlight = {}
  /\ sincePending = 0
  /\ hasPending = FALSE
  /\ ends = {}
  /\ acked = {}
  /\ syncing = 0
  /\ synced = 0
  /\ waited = 0

\* The records that no flush, completed or running, has taken up.
Unflushed == {e \in ends : e > durable /\ \A covered \in inFlight : e > covered}

\* One tick more, as far as the interval can tell.
Later(time) == IF time < FLUSH_INTERVAL THEN time + 1 ELSE time

(* Mutant: every record starts the window again.                           *)
WindowRestarted == 0
Window == IF hasPending THEN sincePending ELSE 0

AppendBytes(bytes) ==
  /\ bytes > 0
  /\ appended + bytes <= MaxAppended
  /\ appended' = appended + bytes
  /\ hasPending' = TRUE
  /\ sincePending' = Window
  /\ ends' = ends \cup {appended + bytes}
  /\ waited' = IF Unflushed = {} THEN 0 ELSE waited
  /\ UNCHANGED <<durable, inFlight, acked, syncing, synced>>

Tick ==
  /\ sincePending' = IF hasPending THEN Later(sincePending) ELSE sincePending
  /\ waited' = IF Unflushed # {} THEN Later(waited) ELSE waited
  /\ UNCHANGED <<appended, durable, inFlight, hasPending, ends, acked, syncing,
                 synced>>

PendingBytes == appended - durable

ShouldFlush ==
  /\ inFlight = {}
  /\ hasPending
  /\ \/ PendingBytes >= FLUSH_BYTES
     \/ sincePending >= FLUSH_INTERVAL

(* Mutant: a second flush replaces the position of the first.              *)
BeginTwice ==
  /\ hasPending
  /\ inFlight' = {appended}
  /\ sincePending' = 0
  /\ hasPending' = FALSE
  /\ syncing' = IF inFlight = {} THEN appended ELSE syncing
  /\ waited' = 0
  /\ UNCHANGED <<appended, durable, ends, acked, synced>>

(* The writer calls begin_flush when should_flush asks for it, or because  *)
(* a caller did (FlushTrigger::Explicit).  The fsync it issues then makes  *)
(* the bytes durable that are in the file at that moment.                  *)
BeginFlush ==
  /\ inFlight = {}
  /\ hasPending
  /\ inFlight' = {appended}
  /\ sincePending' = 0
  /\ hasPending' = FALSE
  /\ syncing' = appended
  /\ waited' = 0
  /\ UNCHANGED <<appended, durable, ends, acked, synced>>

(* Mutant: what arrived during the flush is no longer pending after it.    *)
CompleteForgets ==
  \E covered \in inFlight :
    /\ inFlight' = {}
    /\ durable' = covered
    /\ hasPending' = FALSE
    /\ synced' = syncing
    /\ UNCHANGED <<appended, sincePending, ends, acked, syncing, waited>>

CompleteFlush ==
  \E covered \in inFlight :
    /\ inFlight' = {}
    /\ durable' = covered
    /\ hasPending' = (hasPending \/ appended > covered)
    /\ synced' = syncing
    /\ UNCHANGED <<appended, sincePending, ends, acked, syncing, waited>>

IsDurable(position) == durable >= position

Acknowledge(end) ==
  /\ end \in ends \ acked
  /\ IsDurable(end)
  /\ acked' = acked \cup {end}
  /\ UNCHANGED <<batcher, ends, syncing, synced, waited>>
CommitNext ==
  \/ \E bytes \in Nat : AppendBytes(bytes)
  \/ Tick
  \/ BeginFlush
  \/ CompleteFlush
  \/ \E end \in ends : Acknowledge(end)

(* The batcher under any writer.                                           *)
CommitSpec == CommitInit /\ [][CommitNext]_commitVars
-----------------------------------------------------------------------------
CommitTypeOK ==
  /\ appended \in 0 .. MaxAppended
  /\ durable \in 0 .. MaxAppended
  /\ inFlight \subseteq 0 .. MaxAppended
  /\ sincePending \in 0 .. FLUSH_INTERVAL
  /\ syncing \in 0 .. MaxAppended
  /\ synced \in 0 .. MaxAppended
  /\ waited \in 0 .. FLUSH_INTERVAL
  /\ hasPending \in BOOLEAN
  /\ ends \subseteq 1 .. MaxAppended
  /\ acked \subseteq ends

\* Only the completed fsync that covered a record acknowledges it: neither
\* the timer, nor a flush that has begun, nor one that began before it.
AckedSynced == \A e \in acked : e <= synced

\* The batcher never loses sight of a record: as long as one is outside
\* every flush, also one that arrived while a flush ran, it is pending.
NothingForgotten == hasPending <=> Unflushed # {}

\* The timer bounds the batching delay of the oldest record: once it waited
\* for the interval, the next free writer is told to sync.
DeadlineKept ==
  (inFlight = {} /\ Unflushed # {} /\ waited >= FLUSH_INTERVAL) => ShouldFlush
=============================================================================
