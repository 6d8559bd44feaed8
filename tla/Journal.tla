------------------------------ MODULE Journal ------------------------------
(***************************************************************************)
(* One stream of the cache metadata journal (crates/talon-journal).        *)
(*                                                                         *)
(* Callers append records, query the state machine and ask for             *)
(* checkpoints through a bounded channel; one writer task (writer.rs)      *)
(* groups appends into write batches, covers durable appends with a group  *)
(* fsync, rotates the log and publishes snapshots.  CURRENT (disk.rs)      *)
(* names the snapshot and the logs that recovery must read.  The process   *)
(* may be lost, the machine may lose power, and an I/O error or poison()   *)
(* stops the stream, at any step.                                          *)
(*                                                                         *)
(* Abstractions.  A record is the request that appended it and occupies    *)
(* one unit of log offset; the state machine is the sequence of records    *)
(* applied to it, so its length is the LSN it has reached, and a snapshot  *)
(* is such a sequence.  A frame is a record with its LSN.  A log file is   *)
(* the set of complete frames in it plus the LSN of a frame cut short by a *)
(* crash.  Byte budgets are counted in requests.                           *)
(***************************************************************************)
EXTENDS Naturals, Sequences, FiniteSets

CONSTANTS
  Written,          \* append requests that ask for Ack::Written
  Durable,          \* append requests that ask for Ack::Durable
  Queries,          \* Handle::query requests
  Checkpoints,      \* Handle::checkpoint requests
  PermitHolders,    \* appends whose caller holds the maintenance I/O permit
  MaxRequests,      \* Options.max_requests
  MaxBatch,         \* frames in one write batch (256 in the code)
  CheckpointBytes,  \* StreamOptions.checkpoint_bytes, in frames
  MaxGenerations,   \* logs CURRENT may list (64 in the code)
  MaxGen,           \* largest generation number (2^64 - 1 in the code)
  MaxLosses,        \* bound of the model: process losses and I/O failures
  MaxPowerLosses,   \* bound of the model: power losses
  None

Appends  == Written \cup Durable
Requests == Appends \cup Queries \cup Checkpoints
Gens     == 1..MaxGen

ASSUME ConstantsAssumption ==
  /\ MaxRequests \in Nat \ {0}
  /\ MaxBatch \in Nat \ {0}
  /\ CheckpointBytes \in Nat \ {0}
  /\ MaxGenerations \in Nat \ {0}
  /\ MaxGen \in Nat \ {0}
  /\ MaxLosses \in Nat
  /\ MaxPowerLosses \in Nat
  /\ Written \cap Durable = {}
  /\ Appends \cap Queries = {}
  /\ (Appends \cup Queries) \cap Checkpoints = {}
  /\ PermitHolders \subseteq Appends
  /\ None \notin Requests
  /\ "snapshot" \notin Requests

VARIABLES
  \* Callers.
  status,     \* where each request is
  answer,     \* append: the LSN returned; query: the state it saw;
              \* checkpoint: the LSN applied when it was asked for
  permit,     \* who holds the maintenance I/O permit
  \* Volatile state of the writer task.
  pc,         \* where the writer (or recovery) is
  closing,    \* the last Handle was dropped
  queue,      \* the mpsc channel
  writes,     \* batches of frames handed to the kernel and not completed
  durable,    \* applied durable appends that wait for a sync to start
  sync,       \* durable appends the running sync covers
  syncing,    \* whether a sync is running
  barrier,    \* a received query or checkpoint
  pending,    \* callers waiting for the next snapshot cut
  running,    \* callers waiting for the snapshot in progress
  snapshot,   \* the snapshot in progress
  nextLsn,    \* last LSN given to a frame
  machine,    \* the state machine
  offset,     \* write offset in the open log
  current,    \* the in-memory copy of CURRENT
  \* The disk.
  logs,       \* frames of each log file
  synced,     \* frames of each log file that survive a power loss
  tear,       \* LSN of an incomplete frame at the end of a log file, or 0
  snaps,      \* contents of each snapshot file
  files,      \* <<kind, generation>> of the files in the directory
  curFile,    \* CURRENT as a process reads it
  curSynced,  \* CURRENT as of the last directory sync
  losses,     \* process losses and failures so far
  powerLosses, \* power losses so far
  damage      \* LSN of the first frame of a log file that is there in length
              \* but not in content, or 0

clientVars == <<status, answer, permit>>
taskVars   == <<queue, writes, durable, sync, syncing, barrier, pending,
                running, snapshot>>
stateVars  == <<nextLsn, machine, offset, current>>
logVars    == <<logs, synced, tear>>
diskVars   == <<logs, synced, tear, snaps, files, curFile, curSynced>>
vars == <<status, answer, permit, pc, closing, queue, writes, durable, sync,
          syncing, barrier, pending, running, snapshot, nextLsn, machine,
          offset, current, logs, synced, tear, snaps, files, curFile,
          curSynced, losses, powerLosses, damage>>
lossVars == <<losses, powerLosses, damage>>

-----------------------------------------------------------------------------
(* Records and files.                                                      *)

Frame(n, r) == [lsn |-> n, req |-> r]
NoSnapshot  == [stage |-> "none", gen |-> 0, state |-> <<>>]
NoCurrent   == [snapshot |-> 0, lsn |-> 0, logs |-> {}, garbage |-> {},
                pending |-> 0]
FirstCurrent == [snapshot |-> 1, lsn |-> 0, logs |-> {1}, garbage |-> {},
                 pending |-> 0]

SnapFile(g) == <<"snapshot", g>>
LogFile(g)  == <<"journal", g>>

LastLog(c)   == CHOOSE g \in c.logs : \A h \in c.logs : h <= g

Up == pc \in {"loop", "query", "select", "rotate", "rotated", "published",
              "cleanup", "cleared"}

Outstanding(r) == status[r] \notin {"idle", "done", "failed"}

(* Requests that hold admission permits: queued and in-flight work.  A     *)
(* checkpoint gives its permits back when it is coalesced.                 *)
Admitted ==
  {r \in Requests : status[r] \in {"queued", "batch", "sync", "barrier"}}

LsnsOf(S) == {f.lsn : f \in S}

(* Current::encode refuses lists that are too long.                        *)
EncodeOk(c) ==
  /\ Cardinality(c.logs) <= MaxGenerations
  /\ Cardinality(c.garbage) <= 2 * MaxGenerations

(* Current::decode: the recovery set that CURRENT may name.                *)
DecodeOk(c) ==
  /\ c.snapshot # 0
  /\ EncodeOk(c)
  /\ \E last \in c.logs : c.logs = c.snapshot..last /\ c.pending \in {0, last}
  /\ SnapFile(c.snapshot) \notin c.garbage
  /\ \A g \in c.logs : LogFile(g) \notin c.garbage

(* Frames that recovery reads, and the last LSN it reaches.                *)
Replayed(c, L) == UNION {L[g] : g \in c.logs}
LastLsn(c, L) ==
  LET N == LsnsOf(Replayed(c, L))
  IN  IF N = {} THEN c.lsn ELSE CHOOSE n \in N : \A m \in N : m <= n

(* The checks of recover() and replay::read: the snapshot is whole, the    *)
(* logs exist and are read in the order of their generations, LSNs have no *)
(* gap, and only the last log may end in an incomplete frame.              *)
ReplayOk(c, L, t, S, F) ==
  /\ DecodeOk(c)
  /\ SnapFile(c.snapshot) \in F
  /\ Len(S[c.snapshot]) = c.lsn
  /\ \A g \in c.logs : LogFile(g) \in F
  /\ \E top \in {c.lsn} \cup LsnsOf(Replayed(c, L)) :
       LsnsOf(Replayed(c, L)) = (c.lsn + 1)..top
  /\ \A f, e \in Replayed(c, L) : f.lsn = e.lsn => f = e
  /\ \A g, h \in c.logs : g < h =>
       \A m \in LsnsOf(L[g]), n \in LsnsOf(L[h]) : m < n
  /\ \A g \in c.logs : t[g] # 0 =>
       g = LastLog(c) /\ \A n \in LsnsOf(L[g]) : n < t[g]

(* The state machine that recovery rebuilds.                               *)
Rebuilt(c, L, S) ==
  [n \in 1..LastLsn(c, L) |->
     IF n <= c.lsn THEN S[c.snapshot][n]
     ELSE (CHOOSE f \in Replayed(c, L) : f.lsn = n).req]

-----------------------------------------------------------------------------
(* Callers: Handle::append, Handle::query, Handle::checkpoint.  A caller   *)
(* that holds the maintenance permit keeps it until it has its answer.     *)

Submit(r) ==
  /\ status[r] = "idle"
  /\ Up
  /\ ~closing
  /\ Cardinality(Admitted) < MaxRequests
  /\ r \in PermitHolders => permit = None
  /\ status' = [status EXCEPT ![r] = "queued"]
  /\ queue' = Append(queue, r)
  /\ answer' = IF r \in Checkpoints
               THEN [answer EXCEPT ![r] = Len(machine)]
               ELSE answer
  /\ permit' = IF r \in PermitHolders THEN r ELSE permit
  /\ UNCHANGED <<pc, closing, writes, durable, sync, syncing, barrier,
                 pending, running, snapshot, stateVars, diskVars, lossVars>>

(* The last Handle is dropped; the writer drains the channel and stops.    *)
Close ==
  /\ Up
  /\ ~closing
  /\ closing' = TRUE
  /\ UNCHANGED <<clientVars, pc, taskVars, stateVars, diskVars, lossVars>>

-----------------------------------------------------------------------------
(* The writer loop: what it does before it waits in select.                *)

CoalesceReady == barrier \in Checkpoints
SyncReady     == ~syncing /\ durable # {}
QuietReady    == writes = {} /\ ~syncing /\ durable = {}
QueryReady    == QuietReady /\ barrier \in Queries
RotateReady   == /\ QuietReady
                 /\ barrier \notin Queries
                 /\ snapshot.stage = "none"
                 /\ pending # {} \/ offset >= CheckpointBytes
Idle == /\ pc = "loop"
        /\ ~CoalesceReady
        /\ ~SyncReady
        /\ ~QueryReady
        /\ ~RotateReady

(* The writer waits in select.  After a query it goes there directly       *)
(* ("select"), without another look at the rotation that may be due.       *)
Selecting == pc = "select" \/ Idle

(* Mutant: a checkpoint joins the snapshot that is already running.        *)
CoalesceRunning ==
  /\ pc = "loop"
  /\ CoalesceReady
  /\ IF snapshot.stage = "none"
     THEN pending' = pending \cup {barrier} /\ running' = running
     ELSE running' = running \cup {barrier} /\ pending' = pending
  /\ status' = [status EXCEPT ![barrier] = "cut"]
  /\ barrier' = None
  /\ UNCHANGED <<answer, permit, pc, closing, queue, writes, durable, sync,
                 syncing, snapshot, stateVars, diskVars, lossVars>>

(* A checkpoint joins the callers of the next snapshot cut and releases    *)
(* its place in the queue.                                                 *)
Coalesce ==
  /\ pc = "loop"
  /\ CoalesceReady
  /\ pending' = pending \cup {barrier}
  /\ status' = [status EXCEPT ![barrier] = "cut"]
  /\ barrier' = None
  /\ UNCHANGED <<answer, permit, pc, closing, queue, writes, durable, sync,
                 syncing, running, snapshot, stateVars, diskVars, lossVars>>

StartSync ==
  /\ pc = "loop"
  /\ ~CoalesceReady
  /\ SyncReady
  /\ sync' = durable
  /\ durable' = {}
  /\ syncing' = TRUE
  /\ UNCHANGED <<clientVars, pc, closing, queue, writes, barrier, pending,
                 running, snapshot, stateVars, diskVars, lossVars>>

(* Mutant: a query is answered without a sync.                             *)
QueryUnsynced ==
  /\ pc = "loop"
  /\ QueryReady
  /\ pc' = "query"
  /\ UNCHANGED <<clientVars, closing, taskVars, stateVars, diskVars, lossVars>>

(* A query waits for a sync of its own and then reads the machine: Query   *)
(* is the sync, Answer the call of the query.                              *)
Query ==
  /\ pc = "loop"
  /\ QueryReady
  /\ pc' = "query"
  /\ synced' = [synced EXCEPT ![LastLog(current)] = logs[LastLog(current)]]
  /\ UNCHANGED <<clientVars, closing, taskVars, stateVars, logs, tear, snaps,
                 files, curFile, curSynced, lossVars>>

Answer ==
  /\ pc = "query"
  /\ pc' = "select"
  /\ status' = [status EXCEPT ![barrier] = "done"]
  /\ answer' = [answer EXCEPT ![barrier] = machine]
  /\ barrier' = None
  /\ UNCHANGED <<permit, closing, queue, writes, durable, sync, syncing,
                 pending, running, snapshot, stateVars, diskVars, lossVars>>

(* Generation numbers are checked for overflow.  Mutant: they are not.     *)
AnyGeneration == TRUE
HasGeneration == LastLog(current) + 1 \in Gens

(* Disk::rotate syncs the open log, creates the next one and publishes a   *)
(* CURRENT that lists both: Rotate is the part before the publication.     *)
Rotate ==
  /\ pc = "loop"
  /\ ~CoalesceReady
  /\ RotateReady
  /\ LET open == LastLog(current)
         gen  == open + 1
     IN  /\ HasGeneration
         /\ pc' = "rotate"
         /\ synced' = [synced EXCEPT ![open] = logs[open], ![gen] = {}]
         /\ logs' = [logs EXCEPT ![gen] = {}]
         /\ tear' = [tear EXCEPT ![gen] = 0]
         /\ damage' = [damage EXCEPT ![gen] = 0]
         /\ files' = files \cup {LogFile(gen)}
         /\ current' = [current EXCEPT !.logs = @ \cup {gen},
                                       !.pending = gen]
  /\ UNCHANGED <<clientVars, closing, taskVars, nextLsn, machine, offset,
                 snaps, curFile, curSynced, losses, powerLosses>>

(* publish(): CURRENT.tmp is written, synced and renamed to CURRENT.  The  *)
(* directory sync that follows is the next step of each caller.            *)
PublishRotation ==
  /\ pc = "rotate"
  /\ EncodeOk(current)
  /\ pc' = "rotated"
  /\ curFile' = current
  /\ UNCHANGED <<clientVars, closing, taskVars, stateVars, logs, synced, tear,
                 snaps, files, curSynced, lossVars>>

(* The snapshot of the machine starts.  The machine has not changed since  *)
(* Machine::snapshot was called, before the rotation.                      *)
StartSnapshot ==
  /\ pc = "rotated"
  /\ pc' = "loop"
  /\ curSynced' = curFile
  /\ offset' = 0
  /\ snapshot' = [stage |-> "encoding", gen |-> current.pending,
                  state |-> machine]
  /\ running' = pending
  /\ pending' = {}
  /\ UNCHANGED <<clientVars, closing, queue, writes, durable, sync, syncing,
                 barrier, nextLsn, machine, current, logs, synced, tear,
                 snaps, files, curFile, lossVars>>

(* The loop ends once every Handle is gone and everything is drained.      *)
Exit ==
  /\ Idle
  /\ closing
  /\ queue = <<>>
  /\ writes = {}
  /\ ~syncing
  /\ snapshot.stage = "none"
  /\ barrier = None
  /\ pending = {}
  /\ pc' = "down"
  /\ UNCHANGED <<clientVars, closing, taskVars, stateVars, diskVars, lossVars>>

-----------------------------------------------------------------------------
(* The branches of select.                                                 *)

(* Mutant: later batches are written beside an unfinished one.             *)
ReceivePipelined ==
  /\ queue # <<>>
  /\ barrier = None
  /\ offset < CheckpointBytes \/ snapshot.stage # "none"

(* No request is taken while a batch is being written or a barrier waits,  *)
(* nor once the log is full unless a snapshot is already in progress.      *)
ReceiveReady ==
  /\ queue # <<>>
  /\ writes = {}
  /\ barrier = None
  /\ offset < CheckpointBytes \/ snapshot.stage # "none"

(* k is the size of the batch that the leading appends of the channel make.*)
IsBatch(k) ==
  /\ k <= Len(queue)
  /\ \A i \in 1..k : queue[i] \in Appends
  /\ k < MaxBatch /\ k < Len(queue) => queue[k + 1] \notin Appends

(* A batch is written at the end of the open log.  The request that ends   *)
(* it, if it is not the limit that does, becomes the barrier.              *)
ReceiveAppends ==
  /\ Selecting
  /\ ReceiveReady
  /\ \E k \in 1..MaxBatch :
       /\ IsBatch(k)
       /\ LET next == IF k < MaxBatch /\ k < Len(queue) THEN queue[k + 1]
                                                        ELSE None
          IN  /\ writes' = writes \cup
                   {[lsn |-> nextLsn, reqs |-> SubSeq(queue, 1, k)]}
              /\ barrier' = next
              /\ queue' = SubSeq(queue, IF next = None THEN k + 1 ELSE k + 2,
                                 Len(queue))
              /\ status' = [r \in Requests |->
                   IF \E i \in 1..k : queue[i] = r THEN "batch"
                   ELSE IF r = next THEN "barrier" ELSE status[r]]
       /\ nextLsn' = nextLsn + k
       /\ offset' = offset + k
  /\ pc' = "loop"
  /\ UNCHANGED <<answer, permit, closing, durable, sync, syncing, pending,
                 running, snapshot, machine, current, diskVars, lossVars>>

ReceiveBarrier ==
  /\ Selecting
  /\ ReceiveReady
  /\ Head(queue) \notin Appends
  /\ barrier' = Head(queue)
  /\ queue' = Tail(queue)
  /\ status' = [status EXCEPT ![Head(queue)] = "barrier"]
  /\ pc' = "loop"
  /\ UNCHANGED <<answer, permit, closing, writes, durable, sync, syncing,
                 pending, running, snapshot, stateVars, diskVars, lossVars>>

(* The last Handle is gone: recv returns None and the loop goes round.     *)
ReceiveClosed ==
  /\ pc = "select"
  /\ closing
  /\ queue = <<>>
  /\ offset < CheckpointBytes \/ snapshot.stage # "none"
  /\ pc' = "loop"
  /\ UNCHANGED <<clientVars, closing, taskVars, stateVars, diskVars, lossVars>>

(* The frames of a batch that reached the file, and its callers.           *)
Landed(b, k) == {Frame(b.lsn + i, b.reqs[i]) : i \in 1..k}
Callers(b)   == {b.reqs[i] : i \in 1..Len(b.reqs)}
LsnIn(b, r)  == b.lsn + CHOOSE i \in 1..Len(b.reqs) : b.reqs[i] = r

(* A finished batch is applied in LSN order.  Ack::Written is answered     *)
(* here; Ack::Durable waits for a sync that starts after this point.       *)
CompleteWrite ==
  /\ Selecting
  /\ \E b \in writes :
       /\ writes' = writes \ {b}
       /\ logs' = [logs EXCEPT ![LastLog(current)] =
                     @ \cup Landed(b, Len(b.reqs))]
       /\ machine' = machine \o b.reqs
       /\ answer' = [r \in Requests |->
            IF r \in Callers(b) THEN LsnIn(b, r) ELSE answer[r]]
       /\ status' = [r \in Requests |->
            IF r \notin Callers(b) THEN status[r]
            ELSE IF r \in Durable THEN "sync" ELSE "done"]
       /\ durable' = durable \cup (Callers(b) \cap Durable)
       /\ permit' = IF permit \in Callers(b) \cap Written THEN None ELSE permit
  /\ pc' = "loop"
  /\ UNCHANGED <<closing, queue, sync, syncing, barrier, pending, running,
                 snapshot, nextLsn, offset, current, synced, tear, snaps,
                 files, curFile, curSynced, lossVars>>

(* The durable appends that a sync answers.  Mutant: it also answers those *)
(* that were applied after the sync started.                               *)
CoveredLate == sync \cup durable
Covered     == sync

(* A group sync covers the frames that were in the log when it started.    *)
CompleteSync ==
  /\ Selecting
  /\ syncing
  /\ synced' = [synced EXCEPT ![LastLog(current)] = @ \cup
       {f \in logs[LastLog(current)] : \E r \in sync : f.lsn <= answer[r]}]
  /\ status' = [r \in Requests |-> IF r \in Covered THEN "done" ELSE status[r]]
  /\ permit' = IF permit \in Covered THEN None ELSE permit
  /\ sync' = {}
  /\ syncing' = FALSE
  /\ pc' = "loop"
  /\ UNCHANGED <<answer, closing, queue, writes, durable, barrier, pending,
                 running, snapshot, stateVars, logs, tear, snaps, files,
                 curFile, curSynced, lossVars>>

(* Disk::snapshot: the encoded snapshot takes the maintenance permit, is   *)
(* synced and renamed to its final name.  The permit is kept until the     *)
(* publication is over.  The future is polled by select and by the drain.  *)
FinishSnapshot ==
  /\ Selecting \/ pc = "draining"
  /\ snapshot.stage = "encoding"
  /\ permit = None
  /\ permit' = "snapshot"
  /\ snapshot' = [snapshot EXCEPT !.stage = "final"]
  /\ snaps' = [snaps EXCEPT ![snapshot.gen] = snapshot.state]
  /\ files' = files \cup {SnapFile(snapshot.gen)}
  /\ UNCHANGED <<status, answer, pc, closing, queue, writes, durable, sync,
                 syncing, barrier, pending, running, stateVars, logVars,
                 curFile, curSynced, lossVars>>

(* Disk::publish_snapshot: CURRENT names the new snapshot, keeps the logs  *)
(* from its generation on and lists the others as garbage.                 *)
WithSnapshot(c, s) ==
  [snapshot |-> s.gen,
   lsn      |-> Len(s.state),
   logs     |-> {g \in c.logs : g >= s.gen},
   garbage  |-> c.garbage \cup {SnapFile(c.snapshot)}
                  \cup {LogFile(g) : g \in {h \in c.logs : h < s.gen}},
   pending  |-> 0]

PublishSnapshot ==
  /\ Selecting
  /\ snapshot.stage = "final"
  /\ EncodeOk(WithSnapshot(current, snapshot))
  /\ pc' = "published"
  /\ current' = WithSnapshot(current, snapshot)
  /\ curFile' = WithSnapshot(current, snapshot)
  /\ UNCHANGED <<clientVars, closing, taskVars, nextLsn, machine, offset,
                 logVars, snaps, files, curSynced, lossVars>>

SyncPublication ==
  /\ pc = "published"
  /\ pc' = "cleanup"
  /\ curSynced' = curFile
  /\ UNCHANGED <<clientVars, closing, taskVars, stateVars, logVars, snaps,
                 files, curFile, lossVars>>

RemoveGarbage ==
  /\ pc = "cleanup"
  /\ \E x \in current.garbage \cap files : files' = files \ {x}
  /\ UNCHANGED <<clientVars, pc, closing, taskVars, stateVars, logVars, snaps,
                 curFile, curSynced, lossVars>>

ClearGarbage ==
  /\ pc = "cleanup"
  /\ current.garbage \cap files = {}
  /\ pc' = "cleared"
  /\ current' = [current EXCEPT !.garbage = {}]
  /\ curFile' = [current EXCEPT !.garbage = {}]
  /\ UNCHANGED <<clientVars, closing, taskVars, nextLsn, machine, offset,
                 logVars, snaps, files, curSynced, lossVars>>

(* The last directory sync; the checkpoint's callers are answered and the  *)
(* maintenance permit is returned.                                         *)
FinishCheckpoint ==
  /\ pc = "cleared"
  /\ pc' = "loop"
  /\ curSynced' = curFile
  /\ status' = [r \in Requests |-> IF r \in running THEN "done" ELSE status[r]]
  /\ permit' = None
  /\ running' = {}
  /\ snapshot' = NoSnapshot
  /\ UNCHANGED <<answer, closing, queue, writes, durable, sync, syncing,
                 barrier, pending, stateVars, logVars, snaps, files, curFile,
                 lossVars>>

-----------------------------------------------------------------------------
(* Failure of the stream: an I/O error, or poison() noticed by the loop.   *)

(* Mutant: callers of a snapshot that will not come are forgotten.         *)
FailQueued ==
  status' = [r \in Requests |->
    IF Outstanding(r) /\ status[r] # "cut" THEN "failed" ELSE status[r]]

FailOutstanding ==
  status' = [r \in Requests |-> IF Outstanding(r) THEN "failed" ELSE status[r]]

(* Every caller is failed before the I/O in flight is drained: callers may *)
(* hold the permit that the snapshot waits for.                            *)
Stop ==
  /\ pc' = "draining"
  /\ FailOutstanding
  /\ permit' = IF permit = "snapshot" THEN permit ELSE None
  /\ queue' = <<>>
  /\ durable' = {}
  /\ barrier' = None
  /\ pending' = {}
  /\ running' = {}
  /\ UNCHANGED <<answer, closing, writes, sync, syncing, snapshot, stateVars,
                 diskVars>>

Fail ==
  /\ Up
  /\ losses < MaxLosses
  /\ losses' = losses + 1
  /\ Stop
  /\ UNCHANGED <<powerLosses, damage>>

(* A rotation fails when generation numbers run out or CURRENT would list  *)
(* more logs than it can hold.                                             *)
RefuseRotation ==
  /\ \/ /\ pc = "loop"
        /\ ~CoalesceReady
        /\ RotateReady
        /\ ~HasGeneration
     \/ /\ pc = "rotate"
        /\ ~EncodeOk(current)
  /\ Stop
  /\ UNCHANGED lossVars

(* What the writer leaves behind when it is gone: of every batch in flight *)
(* some prefix of its frames reached the file, and possibly a part of the  *)
(* next frame.                                                             *)
Abandon ==
  /\ pc' = "down"
  /\ \E cut \in [writes -> 0..MaxBatch] :
       /\ \A b \in writes : cut[b] <= Len(b.reqs)
       /\ writes # {} =>
            logs' = [logs EXCEPT ![LastLog(current)] =
                       @ \cup UNION {Landed(b, cut[b]) : b \in writes}]
       /\ writes = {} => logs' = logs
       /\ \/ tear' = tear
          \/ \E b \in writes :
               /\ cut[b] < Len(b.reqs)
               /\ tear' = [tear EXCEPT ![LastLog(current)] =
                             b.lsn + cut[b] + 1]
  /\ permit' = None
  /\ queue' = <<>>
  /\ writes' = {}
  /\ durable' = {}
  /\ sync' = {}
  /\ syncing' = FALSE
  /\ barrier' = None
  /\ pending' = {}
  /\ running' = {}
  /\ snapshot' = NoSnapshot
  /\ nextLsn' = 0
  /\ machine' = <<>>
  /\ offset' = 0
  /\ current' = NoCurrent
  /\ UNCHANGED <<answer, closing, synced, snaps, files, curFile, curSynced>>

(* Accepted I/O ends before the stream can be opened again (Life, Exit).   *)
Drained ==
  /\ pc = "draining"
  /\ snapshot.stage = "encoding" => permit = None
  /\ Abandon
  /\ UNCHANGED <<status, lossVars>>

ProcessLoss ==
  /\ pc # "down"
  /\ losses < MaxLosses
  /\ losses' = losses + 1
  /\ FailOutstanding
  /\ Abandon
  /\ UNCHANGED <<powerLosses, damage>>

(* A select without an else branch panics when every branch is disabled:   *)
(* after a query, with the log full and no snapshot running.  The journal  *)
(* thread ends with every request that waits.                              *)
Panic ==
  /\ pc = "select"
  /\ writes = {}
  /\ ~syncing
  /\ snapshot.stage = "none"
  /\ offset >= CheckpointBytes
  /\ FailOutstanding
  /\ Abandon
  /\ UNCHANGED lossVars

(* LSNs of the frames of a log file, the incomplete one included.          *)
Begun(g) == LsnsOf(logs[g]) \cup ({tear[g]} \ {0})

(* Log files with bytes that no sync covered, and where such a file may    *)
(* end after a power loss: behind one of its frames or at its beginning.   *)
Dirty == {g \in Gens : logs[g] # synced[g] \/ tear[g] # 0}
Cuts  == {0} \cup (UNION {LsnsOf(logs[g]) : g \in Dirty})
             \cup (UNION {{n - 1 : n \in Begun(g)} : g \in Dirty})

(* A power loss strikes a process (ProcessLoss) and the page cache.  Of    *)
(* the bytes that no sync covered any may be missing: of each file the     *)
(* frames up to some LSN are whole, and the next one is absent (the file   *)
(* ends there), cut short (torn) or damaged (bad): long enough, with bytes *)
(* missing in it and perhaps whole frames behind, which recovery cannot    *)
(* reach.  CURRENT may return to what the last directory sync made durable.*)
PowerLoss ==
  /\ pc = "down"
  /\ powerLosses < MaxPowerLosses
  /\ powerLosses' = powerLosses + 1
  /\ \E c \in {curFile, curSynced} : curFile' = c /\ curSynced' = c
  /\ \E cut \in [Dirty -> Cuts], torn \in SUBSET Dirty, bad \in SUBSET Dirty :
       /\ \A g \in Dirty : \A f \in synced[g] : f.lsn <= cut[g]
       /\ \A g \in torn \cup bad : cut[g] + 1 \in Begun(g)
       /\ torn \cap bad = {}
       /\ logs' = [g \in Gens |-> IF g \in Dirty
                     THEN {f \in logs[g] : f.lsn <= cut[g]} ELSE logs[g]]
       /\ synced' = logs'
       /\ tear' = [g \in Gens |-> IF g \in torn THEN cut[g] + 1 ELSE 0]
       /\ damage' = [g \in Gens |-> IF g \in bad THEN cut[g] + 1
                                                 ELSE damage[g]]
  /\ UNCHANGED <<clientVars, pc, closing, taskVars, stateVars, snaps, files,
                 losses>>

-----------------------------------------------------------------------------
(* Recovery: Disk::open and recover().                                     *)

(* A directory without CURRENT gets an empty snapshot, an empty log and a  *)
(* CURRENT that names them.                                                *)
Create ==
  /\ pc = "down"
  /\ curFile = NoCurrent
  /\ files' = files \cup {SnapFile(1), LogFile(1)}
  /\ snaps' = [snaps EXCEPT ![1] = <<>>]
  /\ logs' = [logs EXCEPT ![1] = {}]
  /\ synced' = [synced EXCEPT ![1] = {}]
  /\ tear' = [tear EXCEPT ![1] = 0]
  /\ damage' = [damage EXCEPT ![1] = 0]
  /\ curFile' = FirstCurrent
  /\ UNCHANGED <<clientVars, pc, closing, taskVars, stateVars, curSynced,
                 losses, powerLosses>>

(* Magic, length and checksum of every frame are right.                    *)
Legible(c) == \A g \in c.logs : damage[g] = 0

(* Restore the snapshot, replay the logs, cut an incomplete frame off the  *)
(* last log.                                                               *)
Recover ==
  /\ pc = "down"
  /\ curFile # NoCurrent
  /\ ReplayOk(curFile, logs, tear, snaps, files)
  /\ Legible(curFile)
  /\ pc' = "repair"
  /\ closing' = FALSE
  /\ current' = curFile
  /\ machine' = Rebuilt(curFile, logs, snaps)
  /\ nextLsn' = LastLsn(curFile, logs)
  /\ LET last == LastLog(curFile)
     IN  /\ offset' = Cardinality(logs[last])
         /\ tear' = [tear EXCEPT ![last] = 0]
         /\ synced' = IF tear[last] = 0 THEN synced
                      ELSE [synced EXCEPT ![last] = logs[last]]
  /\ UNCHANGED <<clientVars, taskVars, logs, snaps, files, curFile, curSynced,
                 lossVars>>

(* A recovery set that fails a check cannot be opened, and nothing of it   *)
(* is changed.                                                             *)
RefuseRecovery ==
  /\ pc = "down"
  /\ curFile # NoCurrent
  /\ ~(ReplayOk(curFile, logs, tear, snaps, files) /\ Legible(curFile))
  /\ UNCHANGED vars

(* Mutant: the unpublished snapshot is left in the directory.              *)
GarbageOnly(c) == c.garbage

(* Files that CURRENT lists as garbage, and the snapshot that a crash kept *)
(* from being published.                                                   *)
Leftover(c) == c.garbage \cup (IF c.pending = 0 THEN {} ELSE {SnapFile(c.pending)})

(* A deletion that is durable makes the directory changes before it        *)
(* durable: journaling file systems commit metadata in order.              *)
RemoveLeftover ==
  /\ pc = "repair"
  /\ \E x \in Leftover(current) \cap files : files' = files \ {x}
  /\ curSynced' = curFile
  /\ UNCHANGED <<clientVars, pc, closing, taskVars, stateVars, logVars, snaps,
                 curFile, lossVars>>

Republish ==
  /\ pc = "repair"
  /\ Leftover(current) \cap files = {}
  /\ pc' = "republish"
  /\ current' = [current EXCEPT !.garbage = {}, !.pending = 0]
  /\ curSynced' = curFile
  /\ curFile' = [current EXCEPT !.garbage = {}, !.pending = 0]
  /\ UNCHANGED <<clientVars, closing, taskVars, nextLsn, machine, offset,
                 logVars, snaps, files, lossVars>>

Opened ==
  /\ pc = "republish"
  /\ pc' = "loop"
  /\ curSynced' = curFile
  /\ UNCHANGED <<clientVars, closing, taskVars, stateVars, logVars, snaps,
                 files, curFile, lossVars>>

-----------------------------------------------------------------------------

Init ==
  /\ status = [r \in Requests |-> "idle"]
  /\ answer = [r \in Requests |-> IF r \in Queries THEN <<>> ELSE 0]
  /\ permit = None
  /\ pc = "down"
  /\ closing = FALSE
  /\ queue = <<>>
  /\ writes = {}
  /\ durable = {}
  /\ sync = {}
  /\ syncing = FALSE
  /\ barrier = None
  /\ pending = {}
  /\ running = {}
  /\ snapshot = NoSnapshot
  /\ nextLsn = 0
  /\ machine = <<>>
  /\ offset = 0
  /\ current = NoCurrent
  /\ logs = [g \in Gens |-> {}]
  /\ synced = [g \in Gens |-> {}]
  /\ tear = [g \in Gens |-> 0]
  /\ snaps = [g \in Gens |-> <<>>]
  /\ files = {}
  /\ curFile = NoCurrent
  /\ curSynced = NoCurrent
  /\ losses = 0
  /\ powerLosses = 0
  /\ damage = [g \in Gens |-> 0]

Clients == Close \/ \E r \in Requests : Submit(r)

(* What the writer does by itself, at the top of its loop and between the  *)
(* awaits of a rotation, a query or a publication.                         *)
Writer ==
  \/ Coalesce \/ StartSync \/ Query \/ Answer
  \/ Rotate \/ PublishRotation \/ StartSnapshot \/ RefuseRotation
  \/ SyncPublication \/ RemoveGarbage \/ ClearGarbage \/ FinishCheckpoint
  \/ Exit \/ Panic

Receive  == ReceiveAppends \/ ReceiveBarrier \/ ReceiveClosed
Recovery == Create \/ Recover \/ RefuseRecovery \/ RemoveLeftover \/ Republish \/ Opened

Next ==
  \/ Clients
  \/ Writer
  \/ Receive
  \/ CompleteWrite
  \/ CompleteSync
  \/ FinishSnapshot
  \/ PublishSnapshot
  \/ Drained
  \/ Recovery
  \/ Fail
  \/ ProcessLoss
  \/ PowerLoss

Spec == Init /\ [][Next]_vars

(* The journal thread runs its task, the kernel finishes accepted I/O, and *)
(* select takes every branch that stays ready.  A stream that is down is   *)
(* opened again.  Callers, failures and losses are under no obligation.    *)
Fairness ==
  /\ WF_vars(Writer)
  /\ WF_vars(Receive)
  /\ WF_vars(CompleteWrite)
  /\ WF_vars(CompleteSync)
  /\ WF_vars(FinishSnapshot)
  /\ WF_vars(PublishSnapshot)
  /\ WF_vars(Drained)
  /\ WF_vars(Recovery)

FairSpec == Spec /\ Fairness

-----------------------------------------------------------------------------
(* Properties.                                                             *)

Records  == Seq(Appends)
Currents == [snapshot : 0..MaxGen, lsn : Nat, logs : SUBSET Gens,
             garbage : SUBSET ({"snapshot", "journal"} \X Gens),
             pending : 0..MaxGen]
Batches  == [lsn : Nat, reqs : Records]
Snapshots == [stage : {"none", "encoding", "final"}, gen : 0..MaxGen,
              state : Records]
Frames   == [lsn : Nat \ {0}, req : Appends]
Statuses == {"idle", "queued", "batch", "sync", "barrier", "cut", "done",
             "failed"}

ClientsTypeOK ==
  /\ status \in [Requests -> Statuses]
  /\ answer = [r \in Requests |-> answer[r]]
  /\ \A r \in Appends \cup Checkpoints : answer[r] \in Nat
  /\ \A q \in Queries : answer[q] \in Records
  /\ permit \in PermitHolders \cup {"snapshot", None}

TaskTypeOK ==
  /\ Up \/ pc \in {"down", "draining", "repair", "republish"}
  /\ closing \in BOOLEAN
  /\ queue \in Seq(Requests)
  /\ writes \subseteq Batches
  /\ durable \subseteq Durable
  /\ sync \subseteq Durable
  /\ syncing \in BOOLEAN
  /\ barrier \in Queries \cup Checkpoints \cup {None}
  /\ pending \subseteq Checkpoints
  /\ running \subseteq Checkpoints
  /\ snapshot \in Snapshots

StateTypeOK ==
  /\ nextLsn \in Nat
  /\ machine \in Records
  /\ offset \in Nat
  /\ current \in Currents

DiskTypeOK ==
  /\ logs \in [Gens -> SUBSET Frames]
  /\ synced \in [Gens -> SUBSET Frames]
  /\ tear \in [Gens -> Nat]
  /\ snaps \in [Gens -> Records]
  /\ files \subseteq {"snapshot", "journal"} \X Gens
  /\ curFile \in Currents
  /\ curSynced \in Currents
  /\ losses \in Nat
  /\ powerLosses \in Nat
  /\ damage \in [Gens -> Nat]

(* Every variable of the callers, of the writer and of the disk has the    *)
(* shape the code gives it; CURRENT never names a generation that was not  *)
(* allocated.                                                              *)
TypeOK == ClientsTypeOK /\ TaskTypeOK /\ StateTypeOK /\ DiskTypeOK

(* The last LSNs that callers were promised: by an Ack::Durable, by the    *)
(* answer to a query, by a checkpoint that returned.                       *)
Promised == {0} \cup {answer[r] : r \in {d \in Durable : status[d] = "done"}}
                \cup {Len(answer[q]) : q \in {p \in Queries : status[p] = "done"}}
                \cup {answer[c] : c \in {k \in Checkpoints : status[k] = "done"}}

(* A stream can be opened again whatever step a process loss, a panic, an  *)
(* I/O failure or a power loss interrupts: CURRENT names a snapshot and    *)
(* logs with no LSN gap and no torn frame but at the end of the last log.  *)
(* The one exception is the one recover() fails closed on: a power loss    *)
(* damaged a frame that no sync covered.  It is in the last log, and       *)
(* behind every record that was promised.                                  *)
RecoverySucceeds ==
  pc = "down" /\ curFile # NoCurrent =>
    /\ ReplayOk(curFile, logs, tear, snaps, files)
    /\ \A g \in curFile.logs : damage[g] # 0 =>
         /\ g = LastLog(curFile)
         /\ powerLosses > 0
         /\ \A n \in Promised : n < damage[g]

(* An open stream holds every acknowledged record at the LSN its caller    *)
(* was given: a Durable acknowledgement survives any loss, a Written one   *)
(* every loss but that of power (Ack in lib.rs, the replies of writer.rs). *)
AcknowledgedSurvive ==
  Up => \A r \in Appends :
          status[r] = "done" /\ (r \in Durable \/ powerLosses = 0) =>
            answer[r] \in 1..Len(machine) /\ machine[answer[r]] = r

(* The state a query was shown never unhappens: it is a prefix of the      *)
(* machine of every later opening (the sync before query() in writer.rs).  *)
QuerySurvives ==
  Up => \A q \in Queries :
          status[q] = "done" =>
            /\ Len(answer[q]) <= Len(machine)
            /\ \A n \in 1..Len(answer[q]) : answer[q][n] = machine[n]

(* A checkpoint that has returned covers every record applied before it    *)
(* was asked for, in the snapshot that CURRENT durably names, even when    *)
(* its caller was coalesced with others or came during another snapshot.   *)
CheckpointCovers ==
  \A c \in Checkpoints : status[c] = "done" => answer[c] <= curSynced.lsn

(* Files that belong to a recovery set, and the ones a rotation or a       *)
(* snapshot in progress is about to publish.                               *)
Named(c) == {SnapFile(c.snapshot)} \cup {LogFile(g) : g \in c.logs}
              \cup {LogFile(LastLog(c) + 1)} \cup {SnapFile(snapshot.gen)}

(* No file is forgotten: while the stream serves requests its directory    *)
(* holds no file that neither CURRENT nor work in progress accounts for,   *)
(* whatever crashes came between a rename and its publication.             *)
NoForgottenFile ==
  pc \in {"loop", "select"} => files \subseteq Named(current)

(* The writer went from a query to select with a snapshot cut due, and     *)
(* stays there until another request comes or the last Handle is dropped.  *)
Stranded(r) == pc = "select" /\ r \in pending /\ snapshot.stage = "none"

(* Every request is answered: neither the barrier, nor a full log, nor a   *)
(* snapshot that waits for the permit of a caller leaves one waiting.  The *)
(* one that may wait is a checkpoint overtaken by a query (Stranded).      *)
Answered == \A r \in Requests :
  status[r] = "queued" ~> status[r] \in {"done", "failed"} \/ Stranded(r)

(* The files on disk implement one log that loses only unpromised records. *)
Log == INSTANCE DurableLog WITH
  content <- IF curFile = NoCurrent THEN <<>> ELSE Rebuilt(curFile, logs, snaps),
  floor   <- CHOOSE n \in Promised : \A m \in Promised : m <= n

(* Rotation, snapshots, cleanup, recovery and group commit together are    *)
(* one durable log: every step of the journal appends to it, promises more *)
(* of it, loses an unpromised suffix or leaves it alone.                   *)
ImplementsLog == Log!Spec

=============================================================================
