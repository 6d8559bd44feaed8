# Talon: a TLA+ verification project

Talon is a distributed read cache for object stores, written in Rust. A worker
keeps blocks of remote objects in memory (L1) and on local disks (L2), whole or
page by page; clients and gateways find the worker of a block by a placement
table; a coordinator keeps the membership. This project models the parts in which
several tasks, lock-free readers, messages, timeouts, crashes and partial failures
meet: most of them in the worker, one between workers and coordinators. It has
TLA+ modules, TLC configurations that check them on small instances, and proofs
checked by TLAPS.

Files: a component's module (`Journal`, `DurableLog`, `PageArbitration`,
`AccessCheckpoint`, `SingleFlight`, `WriteBack`, `WalCommit`, `WalFraming`, `Wal`,
`Heartbeats`), its `MC...` module and `.cfg` files for TLC, and `...Proofs` modules
(and `AccessCheckpointSteps`) for TLAPS. `PROJECT.json` maps each definition to the
source lines it translates, lists runs, mutants, findings, hazards and theorems.

    tlc -config MCJournalCrash.cfg MCJournal
    tlapm JournalProofs.tla

## 1. Inventory

| Part | State | Operations | What is hard | Modelled |
|---|---|---|---|---|
| Metadata journal (`talon-journal`) | channel, write batches, group sync, snapshot in progress, CURRENT, log and snapshot files | append (written or durable), query, checkpoint, rotate, publish, recover, poison | group sync beside later appends, process and power loss between any two file steps, damaged unsynced frames, coalesced checkpoints, recovery interrupted by another loss | `Journal`, `DurableLog` |
| Page arbitration (`page_lifecycle.rs`, `runtime/page_maintenance.rs`) | one atomic word per page, page table, selections, retries, pending set, block lifecycle and gate | read guard, select, claim, unlink, abort, stale-block claim, fill, scan, retire | lock-free readers against deletion, stale candidates, gates that outlive their record | `PageArbitration` |
| Access-age checkpoint (`page_access_shard*`, `page_lifecycle.rs`) | page ages and marks, block and shard summaries, tombstones, base and log file | touch, consume, sample, full and delta checkpoint, roll back, retire, load | a touch between any two atomics of a checkpoint, two files renamed in turn, a block deleted and created again | `AccessCheckpoint` |
| Miss single-flight (`miss.rs`, `runtime.rs`) | the map of keys in flight, one Notify per flight, each request's place, runs and guards | admit, wait, fetch, commit, guard drop | waiter registration against completion and re-admission, reads that lead and follow each other, cancelled leaders, detached commits | `SingleFlight` |
| Block index, eviction policy (`index.rs`, `eviction.rs`) | residency, LRU order, pins, bytes | commit, touch, evict, pin | candidates that go stale before they are used | only where it arbitrates pages |
| Write cache and flusher (`write_cache.rs`, `flusher.rs`, `staging.rs`) | pending, in-flight and parked generations, queue, attempts, files | stage, take, upload, complete, requeue, park, re-arm, recover | acknowledged writes across a crash, a write during its predecessor's upload, files removed outside the lock | `WriteBack` |
| Write-back WAL (`wal.rs`, `wal_commit.rs`) | appended and durable watermark, flush in flight, the segment's bytes | append, tick, begin and complete a flush, encode, read back | appends during a flush, torn and damaged segments | `WalCommit`, `WalFraming`, `Wal`; not `wal_checkpoint.rs` |
| Paged catalog, small-object store | a state machine on a journal stream | reserve, publish, remove, recover | file and journal record are two things | no |
| Background budget, admission, rate limits | permits, token buckets | acquire, refill | arithmetic at the limits, fairness of permits | no |
| Coordinator (`observability/heartbeats.rs`, `observability/state.rs`, `state_store/`) | shared store of instance leases, buffered reports, last discovery, refresh lock, flushes | report, publish, approve from memory, reconcile, flush, restart | late and lost answers, two coordinators with cached approvals, leases written after a wait | `Heartbeats` (memory store, one registered worker) |
| Registry, retirement, placement epochs | registry record, epochs | register, retire, look up | compare-and-swap, check and act | no |
| Cache client | membership cache, pool, deadlines | refresh, read, retry | stale placement, retry of what was done | no |
| Metadata service contract (`talon-metadata`) | fences, links, transactions | not yet wired to the worker | write-shard recovery | no |
| Backends, gateways, FUSE, transport, telemetry, CLI, SDKs | protocol state | translation and I/O | mostly parsing and formatting | no |

How they interact. A read request probes the index and L1, takes a page's read
guard or, on a miss, asks `InFlightLoads` for the key, fetches from a backend and
commits through the page store under the block's mutation gate. Every successful
page read touches the page's age. The maintenance loop scans lifecycles for
expired pages, deletes candidates, deletes stale blocks, and checkpoints ages per
shard. The catalog and the small store are state machines on journal streams.
A staged write is queued for the flusher, which uploads it to the origin. All of
these share a process, so what they exchange is shared memory, channels and files; a
lost process loses everything but the files. The worker reports to any of several
coordinators, which share a store; a client is sent to the one ready instance of a
worker that the store holds.

## 2. Modules

### Journal (crates/talon-journal/src)

One stream. `Submit` and `Close` are the handle (`lib.rs`); the writer task of
`writer.rs` is one action per pass of its loop: `Coalesce`, `StartSync`, `Query` and
`Answer`, `Rotate`, `PublishRotation`, `StartSnapshot`, `ReceiveAppends`,
`ReceiveBarrier`, `ReceiveClosed`, `Exit`, in the order and under the guards of the
loop. After a query the loop does not look at the rotation again: `Answer` goes to the
place `select`, where only the branches of `select!` are open, and `Panic` is the
macro's panic when all of them are disabled (section 4). What the kernel does for it
ends in actions of its own: `CompleteWrite`, `CompleteSync`, `FinishSnapshot`. A
publication is a sequence of file steps (`PublishSnapshot`, `SyncPublication`,
`RemoveGarbage`, `ClearGarbage`, `FinishCheckpoint`), because a power loss may fall
between any two. `Recover` is the replay of `disk.rs` and `replay.rs`, `RefuseRecovery`
its error; `Abandon`/`Drained` are the end of a stream whose I/O is still in the kernel
(`lifecycle.rs`).

Abstractions: a record is the request that appended it and is one unit of offset;
the state machine is the sequence of applied records, so its length is its LSN; a
log file is the set of its complete frames, the subset that survives a power loss,
the LSN of a torn frame if a crash left one (`tear`) and of a damaged frame if a power
loss left one (`damage`). Frame bytes and option parsing are left out.

At most one batch is being written at a time (`writer.rs:88-90`), so a process loss
leaves a prefix of frames and perhaps a torn one. A power loss may drop any of the bytes
that no sync covered. As recovery reads a file it finds whole frames up to some LSN; the
next frame is then absent, cut short by the end of the file, or damaged: long enough, with
bytes missing in it, a hole or zeros, and perhaps whole frames behind it. `replay.rs`
cuts off a frame that is cut short at the end of the last log and refuses the whole
stream for a wrong magic, length or checksum, in the last log too (`Legible`): it fails
closed, and so does the model, which then stays down. `RecoverySucceeds` says that this is
the only way not to recover, and that no promised record is then behind the damage.

`RemoveLeftover` assumes that a deletion made durable makes earlier changes of the
directory durable, as journaling file systems commit metadata in order. `disk.rs:245-256`
removes garbage without a directory sync of its own and does not say so.

`DurableLog` is the abstract specification: one sequence of records and the length
promised to callers. It grows, the promise grows, and a loss cuts the sequence back
to no less than the promise. `ImplementsLog` states that `Journal`'s files, read
as recovery would read them, implement it.

### PageArbitration

The pages of one block. Each page handle has the atomic word of
`page_lifecycle.rs` (readers, retry count, CLOSED, ACCESSED). Readers
(`Acquire`, `TouchPolicy`, `Touch`, `Release`, `Abandon`), page collectors (`Select`
through `Finish`, `Sweep`), the stale-block evictor (`ChooseBlock` through
`FinishBlock`) and fills (`StartFill` through `EndFill`) interleave between every
two atomic steps or critical sections. Gates belong to a `BlockState`, which
`Retire` may remove and `Obtain` creates again: gate and record have identities.
Time is reduced to whether a page's last access is older than the TTI. The unlink of
a directory may fail half way (`DropSome`).

Where the model is narrower than the code:
- `StartFill` lets no two fills of a page overlap. Warm fills cannot, by their
  single-flight key; ordinary ones can (the retry without a key, `runtime.rs:1514-1516`,
  and a detached commit, `page_gc.rs:96-98`), but they take the gate exclusively, so no
  property turns on it.
- `StillStale` sees every use of a block. `eviction.rs:1178` compares the millisecond of
  the last access for equality, so a use in the same millisecond goes unnoticed; where it
  matters is the ownership collector, which is not modelled.
- `Candidate` has reason 1, capacity. A candidate that a new version of an object
  supersedes (`runtime.rs:1856`, reason 2) goes through the same claim, and differs in
  that it does not stop when the cache is below its target (`page_maintenance.rs:305`), a
  stop the model leaves open at any time anyway (`GiveUp`).

### AccessCheckpoint

One shard and one block identity. A touch is four atomic steps (`Stamp`, `Mark`,
`Notify`, `Queue`) with the early return of each. The checkpoint task is a chain of
`Ck...` actions: it takes the queued block, consumes page marks one by one, samples
ages, writes a new base and log or appends a delta, and on a failure puts the
marks back one by one. `Create`, `Register`, `Delete` and `Retire` change the registry
under it; `Restart` stops the process and loads what the files may hold.

Assumed: atomics are sequentially consistent (the code uses orderings weaker than that
in places; reorderings are out of the model's reach); the clock does not go back over a
restart, so that no saved age is in the future (`page_access_store.rs:186` discards one
that is); the files that a stop leaves can be read, so that `Recovered` never takes the
error path of the load, which discards every age of the shard and starts at generation 0
(`page_access_shard.rs:94-104`, `journal.rs:105-117`); after a restart the page store
finds some subset of the pages; an unsynced append survives up to any frame. The file
format before shard files is not modelled, nor is the binding of a new block to its
summary while it is touched. `CkNoDirectory` tests the directory alone:
`page_maintenance.rs:680` also wants no resident snapshot, which here follows, as a
resident page has made the directory.

### SingleFlight

Concurrent misses of one block, on one of three paths chosen at the start (`kind`):
`load_block_range` for a whole block, `paged_block_range_inner` for the pages of a
read, `small_object_range` for a small object. A unit is the block or a page; each
has a key in `InFlightLoads`.

`Lead`/`Follow` are `admit_traced`, `Lookup`, `Create`, `Recheck` and `Wake` the
steps of `InFlightLoads::wait`, `Remove` and `Signal` the two halves of `complete`.
`Create` calls tokio's `Notify::notified` (`miss.rs:158-162`): a `Notified` sees the
`notify_waiters` calls after its creation, never an earlier one. A paged read probes
page after page and keeps a guard of each page it leads; consecutive ones are a run,
and at most `Concurrency` runs load at a time (`Started`). A run fetches once and
commits its pages in order; its guards are dropped when it has ended, loaded or not.
After all its runs the request fails or waits for what it follows (`Settle`).
`Reprobe` is what each path does after a wait: a whole block asks for the key once
more and then fetches without it, a page fetches without it at once, a small object
asks again each time. `Cancel` drops the request at an await point with its guards;
a commit that began goes on (`CommitDetached`). Each request reads once, so the
state space is finite without a bound on flights.

Left out: resolution of version and length before the pages are known, the short cut
to a block cached whole, and LOAD, which writes the pages of a run concurrently. The
guards of two runs of one request are dropped lowest page first, which is one order
of those the code has.

### WriteBack

The write cache, its flusher and the stager, for writes of one object by several
threads. `stage` is five steps (`Begin`, `CommitMeta`, `SyncDir`, `Insert`, `Drop`) and
its return (`Acknowledge`), because a crash or another thread may come between them;
`flush_next` is `Take` or `TakeNone`, `ReadStaged`, `Upload`, `PutOk` or `PutFails`,
then `Complete`, `Requeue` or `ParkFailed`, and `Retire` for the removal of files
outside the lock. `Begin` takes the sequence number, stages the body and renames its
file in one step: nobody reads a number before its sidecar is there, and a `.data` file
alone is what recovery removes. `Upload` is a backend's `put`, and may happen although
the reply is lost. `ReadFails` drops a generation whose files cannot be read or do not
match, as `take_next` does after it has logged the error. `Crash` keeps the directory,
`PowerLoss` any directory since the last fsync of it; `Recover` is `WriteCache::open`. A
generation is (object, seq, body); the body stands for its bytes and checksum. The
histories `acked`, `call` and `delivered` say which write was acknowledged before which
was begun: that is the order in which one write is "older" than another. Two more
histories name what the code gives up: `dropped`, the writes logged as unreadable, and
`lost`, the inserted writes whose generation an insert with a lower number replaced,
until a write begun later is inserted (finding 2). The cancellation of `flush_next` at
its await of `put` is not modelled.

### WalCommit, WalFraming, Wal

`WalCommit` is the `Batcher` of `wal_commit.rs`: watermarks, the window of the oldest
pending record, a flush in flight. The file and the fsync are external.
`WalFraming` is the format of `wal.rs` as a pure algorithm, `EncodeRecord` and
`ReadSegment`, over files of cells instead of bytes: a header is two cells, its
magic and its fields. `Wal` composes them: records are encoded, packed into a
segment and acknowledged by group commit. Its properties quantify over every file
that a power loss (cut or zero-filled behind any point after the last sync) or one
damaged cell can leave. Nothing on the serving path uses these modules yet
(ADR 0003), so the caller is modelled after their tests and marked external.

### Heartbeats

Two coordinators, a shared store, and the instances of one registered worker.
`Beat`, `Acked` and `ControlFails` are the worker's control loop; `Publish` is
`receive_instance` under the refresh lock: approved from memory (`Verdict`,
`Received`), or written with what is left of the lease (`Remaining`) and followed by
a reconcile (`Read`, `Install`). `StartFlush`, `FlushWrite`, `FlushDone` are the
publication of buffered reports, which may complete after newer reports, a
withdrawal, or the restart of the coordinator. `retained` is the rule that a worker
with two ready instances has none.

Readiness is as in `observability.rs:570-631`: an accepted report registers the instance
without a deadline ("yes"), a refused one ends the registration, and a report that fails
or gets no answer in time gives it a deadline of `HOLD` from the last accepted report
("until"). What bounds a registration without a deadline is that the next report ends:
it is sent an interval later and answered or given up within
`CONTROL_OPERATION_TIMEOUT`. Their sum is `ROUND`, and time does not pass beyond it
(`Overdue`). So the worker's timers are assumed to fire; a process that is stopped or
starved for longer keeps its readiness in the code, and is outside the model.

Abstractions: an `Instant` is its age in ticks, up to the cap past which no test of
the code tells two ages apart. The store is the one of `memory.rs`, whose leases and
sequence rule the model has; in the code that store lives in one process, here it is
shared by the coordinators and survives `Restart`, as the etcd and Kubernetes stores do,
whose own revisions and watches are not modelled. The node records of the
management view are left out, so are the limit of 16 flush tasks and the registry's
refusals. The write of a report and the computation of its lease are one step on the
request path; on the flush path a tick may pass between. An instance that crashed is
one that reports no more. An answer takes no time to travel back: the age of an
accepted report counts from the answer at the coordinator.

## 3. Runs

| Run | Shows |
|---|---|
| `journal_crash` | Two losses, one of them of power, at any step, recovery included. `RecoverySucceeds`: what the disk may hold now can be opened, or a power loss damaged an unsynced frame of the last log, behind every promised record. `QuerySurvives`: no query showed a state that a loss takes back. `NoForgottenFile`: an open stream has no file that CURRENT does not name. `CheckpointCovers`: a checkpoint that returned is in the durable snapshot. `ImplementsLog`: refinement of `DurableLog`. |
| `journal_serve` | `Answered` under fairness: every request is answered, also when a caller holds the maintenance permit, a query comes between a checkpoint and its cut, and the stream fails or panics; exempt is a checkpoint while it is `Stranded` (section 4). `AcknowledgedSurvive`: an acknowledged append is there after a loss, also one that came while a group sync ran. |
| `pages_collect` | Two candidates of one page with TTI. `OnlyUnusedDeleted`: a page used since its selection is not deleted. `ReadableHasFile`: an open, resident page has its file. |
| `pages_block` | A block claimed page by page while its record comes and goes. `GateExclusive`, `DeferredWorkQueued` (what failed is still found by the scan), `RemovedStaysClosed`, `NoPageLeftClosed`, and `GuardProtectsFile`: no step removes the file of a page under a read guard. |
| `access` | Two lives of the block with a failed checkpoint or a stop at any step. `NoTouchLost`: when nothing is queued, marked or under way, the files hold exactly the ages in memory. `SavedAgesSurvive`: a stop loses no age of a good checkpoint. `TouchEventuallySaved` under fairness: also the marks that a failed checkpoint had consumed are saved in the end. |
| `flight` | Three misses of a block or a small object, or two reads of overlapping pages, with any two faults. `KeyOwned`, `FollowersNeverFetch`, and `RequestsEnd` under fairness: reads that lead some pages and follow each other's do not wait in a circle. |
| `flight_wake` | Violation: `WaiterWakes` (finding 1). |
| `writeback` | Three writes by two threads, two flushers, errors, a re-arm, a crash. `AckedDurable`: whatever directory is left, an acknowledged write, or one that is not older, is delivered or recoverable. `AckedQueued`, `NotForgotten`: in memory it is delivered, queued, in flight or parked, and somebody will get to it. `ReadYourWrites`: no read is answered with an older one. These three exempt the writes in `lost` (finding 2), the first two also those dropped as unreadable. `StagedReadable`, `BackOnlyByRestart` have no exemption. |
| `writeback_overtaken` | Violation: `ReadsAreCurrent` (finding 2). |
| `writeback_restart` | Violation: `RestartKeepsAcked` (finding 3). |
| `wal` | `AckedSynced`, `NothingForgotten`, `DeadlineKept` of group commit; `CrashKeepsRecords`, `DamageNeverForges`, `ResyncAtBlock` of the reader; `EveryRecordAcked` under fairness. |
| `heartbeats` | `LeaseBounded`: a lease outlives the last report by the waits the code bounds. `ReadyOnlyIfSole`: an instance that is not the store's only ready one stops serving within the age of a discovery and the end of its next report, or the grace if that report failed. `AdmissionBacked`: an approval from memory is backed by a lease. |

Each property of a passing run has a mutant in `PROJECT.json`: a plausible error in
one mapped definition (a dropped guard, a sync left out, a mark reset at the wrong
moment) under which TLC finds the property violated. The mutated operators are
marked "Mutant" in the modules and used by nothing else.

### Bounds

Names with the comment "bound of the model" or "bound:" cap what is unbounded in
the code.
- Journal: two losses let the second interrupt the recovery from the first, the
  deepest nesting in which recovery writes; `MaxGenerations = 2` and `MaxGen = 3`
  make rotation reach its limits; `MaxBatch = 2` makes batches of one and two
  frames, torn behind the first or inside it; `CheckpointBytes = 1` makes every applied
  record ask for a snapshot, and 2 (`journal_serve`) leaves logs with records that no
  snapshot asked for. The query of `journal_serve` comes with the batch that fills the
  log, and between a checkpoint and its cut. Deadlock is checked.
- PageArbitration: two handles per page slot are one removal and re-admission; two
  selections are what a stale candidate needs; two lives let a record be retired
  and created again. The runs differ in which of these they raise, because all at
  once is beyond five minutes. Deadlock is not checked: with the handles, lives
  and selections of the bound used up the model, not the code, stops.
- AccessCheckpoint: two clock ticks order two touches around one sample; two
  slots are a block deleted and created again; `CompactAt = 2` makes both full and
  delta checkpoints happen; one tombstone overflows at the second. `MaxFaults` bounds
  failed checkpoints and stops together: one of either, at any step; that a stop follows
  a failure is left to the proofs. Deadlock is not checked for the same reason.
- SingleFlight: three requests are the fewest with a leader, a waiter and a second
  leader, and two faults take a follower to the fetch without a flight. Three pages
  against one or two of them give runs broken by a page that is in flight, two
  runs at once, and two reads that each lead what the other follows. Deadlock is not
  checked: the requests end.
- WriteBack: three writes are one uploading, one waiting and one that replaces it; two
  errors spend the attempts of a policy of two and park a write; one re-arm and one
  crash follow. Finding 2 needs three writes, two threads and one task. Longer chains of
  replacements are left to the proof. Deadlock is not checked: the writes are used up.
- Wal: blocks of five cells and bodies of 0, 3, 4 and 7 cells give records of one
  fragment that is empty or fills a block, and of two and three fragments; 18 cells are
  up to four blocks. Deadlock is not checked: the segment is full.
- Heartbeats: a lease of three ticks, a discovery good for two, one tick of timeout, of
  grace and to the end of the next report keep the order of the code's defaults
  (`TimingAssumption`); `MaxMoves = 3` is a report of each instance and a fault, or
  three reports; one periodic reconcile in flight. Deadlock is checked: time goes on.

### Fairness

`Journal.FairSpec`: the journal thread runs its task, the kernel completes accepted
I/O, `select` takes each branch that stays ready (hence weak fairness per kind of
completion), and a stream that is down is opened again. Callers and failures owe
nothing. `AccessCheckpoint.FairSpec`: a read that began finishes its touch (there is
no await in it), and the maintenance loop returns to every shard. `SingleFlight.FairSpec`:
the executor polls a ready task, and a backend call answers or fails (the backend
clients have timeouts). Nobody has to cancel, evict or read. `Wal.FairSpec`: time
passes, the writer starts the flush it is told to start and the fsync returns, and an
appender reads `is_durable` until it is true. `WriteBack` and `Heartbeats` state
safety only: their liveness is a matter of an origin and a network that come back.

## 4. Findings

1. `miss.rs:165`, a waiter can sleep forever (run `flight_wake`).
   `wait` clones the Notify of the flight under the mutex and creates its `Notified`
   after releasing it. If in between the leader completes (key removed,
   `notify_waiters` called) and another request admits the key again, the re-check
   finds the key in flight - the new flight - and the waiter awaits the old Notify.
   The comment at `miss.rs:146-148` says the pattern excludes this. `RequestsEnd`
   shows that this is the only way a request is left behind, on all three paths.
   Creating the `Notified` while the mutex is held, or comparing the flight in the
   re-check, would close it.
2. `write_cache.rs:236`, an acknowledged write is replaced by one with a lower number
   (run `writeback_overtaken`). `stage` takes its number first and inserts last, and the
   insert never compares numbers. Write g takes 1 and is slow; h takes 2, is
   acknowledged and is being uploaded; b, begun after that, takes 3, is acknowledged and
   waits; then g's insert replaces b and its files go. Now `staged_bytes` answers with h,
   the highest number staged, and recovery would queue h, which is older than b. If h's
   upload fails, `requeue` (`write_cache.rs:388`) drops g as well. `write_cache.rs:254-258`
   promises the newest staged bytes, `:57-58` that no acknowledged write is lost.
   `AckedDurable`, `AckedQueued` and `ReadYourWrites` show that no other step loses an
   acknowledged write: they exempt exactly those in `lost`, to which only `Insert` adds.
3. `write_cache.rs:371`, a restart can upload an older write over an acknowledged
   one (run `writeback_restart`). `complete` takes the generation out of `inflight`
   under the lock and removes its files after it. In between a second flusher may
   take, upload and retire a newer generation, files included; if the process ends
   then, recovery finds the older one alone. `BackOnlyByRestart` shows that without a
   restart the origin never goes back.

Nothing on the serving path constructs a `WriteCache` yet.

Defects that the model has as actions or exemptions, without a run of their own:
- `writer.rs:50-62`, panic. A query is taken in the same pass in which the log is full and
  no snapshot runs: the rotation of line 54 is an `else if`, so the loop goes on to
  `select!`, which has no `else` branch, with every branch disabled. Tokio panics, and
  with it ends the thread that runs every stream of the service (`lib.rs:168-204`).
  `Panic` is that step; requests then fail, none is answered wrongly, and what was
  promised is there at the next opening.
- `writer.rs:50-62`, a stranded checkpoint. In the same place with room in the log and a
  coalesced checkpoint pending, `select!` waits for another request, and the snapshot cut
  is not made before one comes. `docs/explanation/cache-journal.md:112-113` says that
  checkpoint requests wait for a later snapshot cut. `Stranded` in `Answered` names this
  state; outside it every request is answered.

Observations that no run states, met while modelling:
- `runtime.rs:1930`: a leader does not probe again after it got the key, so a request
  whose probe missed before another's commit fetches a resident unit again.
  Harmless: it commits the same version. `FollowersNeverFetch` is what does hold.
- `write_cache.rs:388`: a `requeue` or `park_failed` over a lower pending number, and a
  failed `stage`, leave files behind that only recovery removes.
- `wal.rs:323`: a block of zeros reads as padding and does not drop the record being
  assembled, so fragments on both sides of such a hole join. `DamageNeverForges`
  is about one damaged cell and does not cover it.
- `wal.rs:21` and `:290` say that damage loses the record that spans it and nothing
  else; when records are packed, all of them up to the next block that starts one are
  lost. `ResyncAtBlock` states what holds. A length that damage made too large for
  the file is reported as a torn tail and ends the reading (`wal.rs:252`).
- `heartbeats.rs:170`: a coordinator that meets an instance for the first time in a
  snapshot dates its lease at the observation, so its approvals may outlive the lease
  in the store; `AdmissionBacked` exempts these entries (`lent`) until a flush of its own.
- `state.rs:480`: a report is dated when it is received under the lock, hence the two
  waits in `LeaseBounded`.
- `state.rs:706`: the retirement of a worker checks for ready instances before it
  writes; an instance that becomes ready in between is dropped by `retained` at the
  next reconcile. Not modelled.
- `wal_checkpoint.rs:166`: falling back to an older checkpoint after the segments
  between the two were deleted would leave a gap. Nothing calls it yet.

## 5. Proofs

`JournalProofs.tla`, from `ConstantsAssumption` alone (disjoint kinds of requests,
positive limits), for any number of requests, limits and losses:
- `TypeCorrect`: `Spec => []TypeOK`. The inductive invariant is `TypeInv == TypeOK /\
  InUse /\ Finite`: `InUse` says that a state that uses a generation has one, which
  `TypeOK` allows to be the number that stands for none; `Finite` says that logs and
  batches in flight are finite, without which the largest LSN of a replay need not
  exist. `RebuiltIsLog` is the lemma about recovery: a replay that succeeds yields a
  sequence whose length is its last LSN.
- `CheckpointCorrect`: `Spec => []CheckpointCovers`. A checkpoint carries the LSN
  applied when it was asked for. `CoverInv` adds to the property that the LSNs of
  durable CURRENT, its copies and the snapshot in progress are ordered (`LsnOrder`),
  that no caller waits for a snapshot that does not exist (`Vacant`), and that each
  waiting caller's LSN is at most the one its snapshot is or will be cut at
  (`Carried`). Only with these is it kept by the step that answers the callers.

The second part of `JournalProofs.tla`, from the same assumption: `RecoveryCorrect`
(`RecoverySucceeds`), `AcknowledgedCorrect` (`AcknowledgedSurvive`), `QueryCorrect`
(`QuerySurvives`), `FilesAccounted` (`NoForgottenFile`) and `LogImplemented`, the
refinement of `DurableLog` (`ImplementsLog`). All follow from one inductive invariant,
`RecoveryInv`. Its point is a sequence of records `h`, the log the stream stands for,
and the length `s` of its durable part, neither of which is a variable: `h` is spread
over a snapshot and several log files and can be read through the copy of CURRENT in
memory, the one a process would read and the one a power loss would leave. The parts:
- `Flight`, `Tickets`: at most one batch is in flight and it is numbered from the end of
  the machine; what the writer holds of a request agrees with what its caller waits for,
  so that nobody is answered twice.
- `SetsInv`: each copy of CURRENT names a snapshot and an unbroken run of logs that
  exist, and knows of every other file; how the copies may differ at each step of a
  rotation, a publication, a cleanup and a recovery.
- `DataInv(h, s)`: every copy `Holds` the same `h`, its records in order over the files,
  with an incomplete frame only after the last (`Stored`); an unpublished snapshot is a
  durable prefix of `h` cut exactly where its log starts (`Cut`); callers were told
  nothing that is not in `h`, or in its first `s` records if it is to be durable
  (`Acked`).
- `Broken`: a damaged frame is in the last log of a closed stream only, after a power
  loss, and beyond every promise. `PowerCut` is the lemma that names the log and the
  durable length that a power loss leaves, `PromisedDurable` that no promise exceeds `s`.
`HeldIsRecovered` is the lemma about recovery: from a set that holds `h`, recovery reads
`h` and refuses nothing but damage. Each step lemma names the `h` and `s` after the
step: a batch extends `h`, a crash extends it by what landed of the batch, a power loss
cuts it at no less than `s`, and every other step keeps it. The refinement maps `h` to
`content` and the longest promise to `floor`. TLC checked the invariant on both
instances of the journal's runs before it was proved.

`SingleFlightProofs.tla`, from `BoundsAssumption`, for any number of requests, pages,
runs and faults and all three paths:
- `KeyAlwaysOwned`: `Spec => []KeyOwned`. `KeyOwned` is not inductive alone: that
  `Remove` takes its own flight needs to know that only a leader completes
  (`GuardPlaces`), and that the fetch without the key overwrites no guard needs to
  know that a request that waits has none (`WaitsWithout`). `EndedKeeps` and
  `GuardsKept` are the lemmas that the end of a run gives up no guard.
- `NoFollowerFetches`: `Spec => []FollowersNeverFetch`. `CleanOf` says of each request,
  while nothing failed, was cancelled or was evicted: it visits units in ascending
  order, leads none that it follows, what it follows is in flight or cached, and what it
  gives up the key of is cached before.

`WalCommitProofs.tla`, from `CommitAssumption`, for every threshold, interval and
order of calls: `AckedOnlySynced`, `PendingKnown` and `DeadlineMet` state
`AckedSynced`, `NothingForgotten` and `DeadlineKept` of `CommitSpec`, the batcher
alone; `Wal`'s steps are `CommitSpec`'s with the file added. `CommitInv` ties the
code's watermarks to the file (`Watermarks`), the end of the file to the last record
(`LastEnd`) and the batcher's window to the age of the oldest record (`SameClock`).

`PageArbitrationProofs.tla`, from `ConstantsAssumption` (kinds of processes disjoint
and, for readers and fills, finite; at least one page), for any number of pages,
readers, collectors and fills, with and without TTI: `MutationsExclude`,
`OldHandlesClosed`, `ReadersFindFiles`, `NothingUsedDeleted`, `NothingStranded` and
`ClaimsEnd` state `GateExclusive`, `RemovedStaysClosed`, `ReadableHasFile`,
`OnlyUnusedDeleted`, `DeferredWorkQueued` and `NoPageLeftClosed`; `GuardsHold` states
the action property `GuardProtectsFile`. All follow from `ArbitrationInv`:
- `GateInv`: a job is in the gate of the record that the registry holds, exactly at
  the stages the code is; two jobs in one gate are warm fills of different pages. A
  gate whose record was retired would not exclude anybody.
- `TableInv`: the count in a handle's word is the number of its holders, and a held
  handle is still the page's entry. This is where the atomic word meets the table.
- `ClaimInv`: a closed handle has no holder; a page of the table is closed only while
  a collector or the block eviction has claimed it; a handle that left the table
  is closed. Neither `RemovedStaysClosed` nor `NoPageLeftClosed` is inductive without it.
- `FileInv`: who may have removed the file of a page that is still resident.
- `CandidateInv`: a candidate used since its selection is stale or the access bit
  shows the use, at every stage up to the claim.
- `StaleBlockInv`: a use that the policy has not seen is by somebody who still
  protects a page, so a claim of the whole block fails.
- `DeferredWorkQueued`, which is inductive with the others.

`WriteBackProofs.tla`, from `BoundsAssumption` (finite objects, threads and tasks, at
least one attempt), for any number of writes, errors, re-arms and crashes:
`TypesHold`, `AcksAreDurable`, `AcksStayQueued`, `StagedFilesStay`, `NothingForgotten`
and `ReadsSeeWrites` state `TypeOK`, `AckedDurable`, `AckedQueued`, `StagedReadable`,
`NotForgotten` and `ReadYourWrites`; `OriginAdvances` states the action property
`BackOnlyByRestart`. All follow from `WriteBackInv`:
- `Typed`, `MapInv`, `WriterInv`, `FlusherInv`, `DownInv`, `CallInv`: an object has one
  generation per map and none in two maps; a thread or a task has one
  generation, nobody else's; what is in flight has a task; a process that is down
  has no memory.
- `DirInv`: in every directory that a power loss may leave, a sidecar has its body and
  the sidecars of an object are numbered in the order of their calls.
- `FileInv`: what is staged or about to be has its files, and nobody is about to
  remove them. This is what the removals outside the lock rest on.
- `NumberInv`: the next number is above every number in use, so that a rename never
  replaces a file in use, also after recovery.
- `CoverInv`: for a write that is owed (inserted and not in `lost`) and not settled
  (neither it nor one that is not older was delivered or dropped as unreadable) every
  directory has a sidecar as new, and the present one has one that nobody is about to
  remove.
- `StageInv`, `AgeInv`, `OriginInv`: its object is staged; an older generation is
  staged only in flight with a newer one waiting, or because recovery found it; and
  the same between two staged generations and against what the origin has held.
- `QueueInv`: what waits is in the queue. `SkippedKeeps` is the lemma about the part
  of the queue that `take_next` passes over; it is a recursive function here, so
  that the prover can unfold it.
`lost` is what the proof needs it to be and no more: `Overtaken` adds a write when the
generation that stood for it is replaced by a lower number, and `Covered` takes it out
again as soon as a write begun no earlier is inserted, from when on the properties
hold for it too.

`HeartbeatsProofs.tla`, from `TimingAssumption` (the order of the timeouts that the
configuration validates, and a request timeout below the age of a discovery) and
`NobodyAssumption` (finitely many instances; the value that stands for nothing is
nothing else), for any number of coordinators, instances, reports and faults:
- `TypesHold`: `Spec => []TypeOK`, with the sequence of an instance below the moves made
  and a buffer only after a first discovery.
- `LeasesBounded`: `Spec => []LeaseBounded`, and `ApprovalsBacked`: `Spec =>
  []AdmissionBacked` under the hypothesis `2 * REQUEST_TIMEOUT <= TTL`. Both are about
  a quantity that no variable holds: the true age of each report, the ticks since some
  coordinator received it. The invariant `LeaseInv` says that there are ages `b` that fit
  the state (`AgeInv(b)`): sequences are received in order; the lease of a record and
  its age add up to at least a TTL and at most a TTL and the two waits; a buffered
  report and a publication in flight are dated at most a wait too late; a snapshot is no
  older than what it shows; and a report that counts as published and is younger than a
  TTL is in the store, or a newer one is. A step other than `Tick` keeps the same ages;
  a tick adds one to those of the reports sent. The hypothesis is needed for the last
  fact to apply to every entry that may approve: its age is below half a TTL and at most
  a timeout short of the true one. The defaults (3 s of 30 s) satisfy it; the
  configuration does not check it.
- `ServesOnlyIfSole`: `Spec => []ReadyOnlyIfSole`. `ServeInv` follows an approval back:
  whoever is ready was approved from a fresh discovery, at most `ROUND` ago while no
  report has failed and less than `HOLD` ago after that; whoever a buffer serves was
  sole at the last discovery, whoever a snapshot shows as sole was so when it was read,
  each to within the age of that step.

`AccessCheckpointSteps.tla` and `AccessCheckpointProofs.tla`, which extends it, from
`BoundsAssumption` (finitely many pages, positive bounds), for any number of pages,
readers, slots, revisions, failures and stops: `TypeCorrect`, `TouchesKept` and
`SavedAges` state `TypeOK`, `NoTouchLost` and `SavedAgesSurvive`. They follow from one
inductive invariant, `Inv` (`Invariance`):
- `Typed`, `Stages`: who is where and holds what; only the live block is queued.
- `Files`: the base is at most one generation ahead of the registry's journal, the log
  never ahead of the base, and a log of the new generation is empty, so a log is
  replayed only onto the base it follows (`Generations`); unless a full checkpoint
  is due the files are synced and are what the journal says (`Retry`); what each step
  of the flush has written (`Writes`).
- `Outcome`: what a flush leaves of each page, `Target(p)`. Here the order of a delta's
  frames counts: tombstone first.
- `Handles`: an age, a mark or a consumed mark belongs to the page's present handle; a
  handle that left the table while the task holds it is an orphan.
- `Lives`: a block below the ceiling was not deleted since the checkpoint began, one
  above it, or after a deletion that is still on record, has nothing saved. This makes
  it sound that a checkpoint covers tombstones up to `upto` and leaves later ones.
- `Queued`, `Busy`: a mark or a change of the page table that the files do not hold is on
  the queue, in the hands of a reader that will queue it, or held by the task that puts
  it back on failure; a shard whose last checkpoint did not succeed has work.
- `Durable`: no file a stop may leave, and no target of a flush, is behind a saved age.
- `Content`: every page has the right age on disk, in the target or page by page while
  the task samples, or an excuse (`Excused`): it is marked or about to be, the table
  changed, or a deletion is on record. When nothing is queued no excuse is left, which
  is `NoTouchLost`.
`ReplayedNothing` and `ReplayedOneMore` are the lemmas about recovery: the model says
in closed form which frame decides a page's age, and they show that this is what
applying the frames one after the other gives. `AppendImages` says what a stop in the
middle of an append leaves. Each part has one lemma per action (`Files_CkLog`: `CkLog`
keeps `Files`); the `...Effect` lemmas before them say what each action changes. The
parts up to `Lives` are in the first module, the rest and the theorems in the second. TLC
checked `Inv` on the instance of `access` before it was proved.

Only model-checked:
- `CrashKeepsRecords`, `DamageNeverForges` and `ResyncAtBlock` of the WAL's reader: what a
  recursive parse computes for every input needs induction over data;
- `Answered`, `TouchEventuallySaved`, `RequestsEnd` and `EveryRecordAcked`: liveness
  under fairness is out of the prover's reach, as is ENABLED.

## 6. Not modelled

The map covers a small share of the repository's lines: most of them are protocol front
ends, configuration, object-store clients, tools and tests' support. What is left
out, and why:
- Parts without state of their own that several actors share (gateways, FUSE,
  codecs, telemetry, CLI, SDKs, io_uring bindings) and pure encoding.
- Placement: a pure function of hashes whose real table size TLC cannot enumerate.
- Within the modelled parts: weak memory orderings, byte formats and checksums, what
  a file system keeps after a failed fsync beyond the loss of or damage to unsynced
  frames, LOAD,
  the directory sweep of `page_cleanup.rs`, `wal_checkpoint.rs`, the registry and the
  etcd and Kubernetes stores of the coordinator.
- `PageArbitration`, `SingleFlight` and `Wal` have no type invariant in a run; for the
  latter two the types are part of the proofs (`FlightType`, `CommitTypeOK`).

## 7. Plan

In this order:
1. `Catalog` and the small-object store as state machines over `DurableLog`:
   a journal record and a file, recovered together.
2. The composition of `SingleFlight`'s commits with `PageArbitration`'s fills, and
   LOAD.
3. The registry with registration and retirement, next to `Heartbeats`; the client's
   membership cache; the ownership collector that follows from it.
4. Eviction policy and index accounting; background permits and rate limits as
   algorithms against a reference.
5. An abstract specification of the write cache as a durable queue per object.
