---------------------------- MODULE WriteBack ----------------------------
(***************************************************************************)
(* The write-back skeleton (talon-worker: write_cache.rs, flusher.rs and   *)
(* the Stager of staging.rs): staged writes, their files, the flush queue, *)
(* uploads to the origin, crashes and recovery.  Nothing on the serve path *)
(* constructs these types yet; the model is of what they do when used.     *)
(*                                                                         *)
(* Steps.  A critical section of Inner's mutex is one step, and so is each *)
(* file operation and each upload.  A write is numbered as its stage call  *)
(* begins; the number stands for the body and its checksum.  A generation  *)
(* (object, seq, body) names a .data and a .meta file.                     *)
(*                                                                         *)
(* Directory.  A rename or a removal is visible at once and durable after  *)
(* the next fsync of the directory.  The file system keeps their order: a  *)
(* power loss leaves one of the directories since the last fsync.          *)
(***************************************************************************)
EXTENDS Naturals, Sequences, FiniteSets, SequencesExt

CONSTANTS
  Objects,     \* objects that are written
  Writers,     \* threads that call stage
  Flushers,    \* tasks that call flush_next
  MaxAttempts, \* FlushPolicy.max_attempts
  MaxWrites,   \* bound of the model: stage calls
  MaxErrors,   \* bound of the model: file errors and failed uploads
  MaxRearms,   \* bound of the model: retry_failed calls
  MaxCrashes   \* bound of the model: crashes and power losses

ASSUME BoundsAssumption ==
  /\ IsFiniteSet(Objects) /\ IsFiniteSet(Writers) /\ IsFiniteSet(Flushers)
  /\ MaxAttempts \in Nat \ {0}
  /\ MaxWrites \in Nat /\ MaxErrors \in Nat /\ MaxRearms \in Nat
  /\ MaxCrashes \in Nat

Writes == 1..MaxWrites
None   == 0

VARIABLES
  dir,       \* the directory now: generations with a .data, with a .meta
  since,     \* the directories since the last fsync, dir among them
  running,   \* the process is up and has recovered
  nextSeq,   \* WriteCache.next_seq
  pending,   \* Inner.pending:  object -> generations, at most one
  inflight,  \* Inner.inflight: likewise
  failed,    \* Inner.failed:   likewise
  queue,     \* Inner.queue
  attempts,  \* Flusher.attempts
  origin,    \* the origin's copy of each object, None before the first
  writer,    \* each thread: its place, its write, generations to remove
  flusher,   \* each task: its place, its generation, whether its upload worked
  begun,     \* number of stage calls so far
  acked,     \* history: writes whose stage returned Ok
  call,      \* history: each write's object and the writes acked before it
  delivered, \* history: writes the origin has held
  recovered, \* history: writes that this process found on disk
  dropped,   \* history: writes logged as unreadable and dropped
  lost,      \* history: inserted writes that a call begun before them replaced
  faults     \* errors, re-arms and crashes so far

memory == <<nextSeq, pending, inflight, failed, queue>>
ghosts == <<begun, acked, call>>
log    == <<recovered, dropped, lost>>
vars   == <<dir, since, running, memory, attempts, origin, writer, flusher,
            ghosts, delivered, log, faults>>

Gens == [obj : Objects, seq : 0..(2 * MaxWrites), body : Writes]
Idle == [pc |-> "idle", gen |-> {}, old |-> {}]
Rest == [pc |-> "idle", gen |-> {}, ok |-> FALSE]

TypeOK ==
  /\ dir.data \subseteq Gens /\ dir.meta \subseteq Gens
  /\ dir \in since
  /\ running \in BOOLEAN
  /\ nextSeq \in Nat
  /\ \A m \in {pending, inflight, failed} : \A o \in Objects :
       /\ m[o] \subseteq {g \in Gens : g.obj = o}
       /\ Cardinality(m[o]) <= 1
  /\ queue \in Seq(Objects)
  /\ attempts \in [Objects -> 0..(MaxAttempts - 1)]
  /\ origin \in [Objects -> Writes \cup {None}]
  /\ \A w \in Writers : writer[w].gen \subseteq Gens
  /\ \A f \in Flushers : flusher[f].gen \subseteq Gens
  /\ begun \in 0..MaxWrites
  /\ acked \subseteq 1..begun /\ delivered \subseteq 1..begun
  /\ recovered \subseteq 1..begun /\ dropped \subseteq 1..begun
  /\ lost \subseteq 1..begun
  /\ faults.errors \in 0..MaxErrors

Init ==
  /\ dir = [data |-> {}, meta |-> {}]
  /\ since = {dir}
  /\ running = TRUE
  /\ nextSeq = 1
  /\ pending = [o \in Objects |-> {}]
  /\ inflight = [o \in Objects |-> {}]
  /\ failed = [o \in Objects |-> {}]
  /\ queue = <<>>
  /\ attempts = [o \in Objects |-> 0]
  /\ origin = [o \in Objects |-> None]
  /\ writer = [w \in Writers |-> Idle]
  /\ flusher = [f \in Flushers |-> Rest]
  /\ begun = 0
  /\ acked = {}
  /\ call = [b \in Writes |-> [obj |-> None, after |-> {}]]
  /\ delivered = {}
  /\ recovered = {}
  /\ dropped = {}
  /\ lost = {}
  /\ faults = [errors |-> 0, rearms |-> 0, crashes |-> 0]

----------------------------------------------------------------------------
(* Files                                                                   *)

SameName(g, h) == g.obj = h.obj /\ g.seq = h.seq

\* A rename onto a final name replaces a file of that name.
Put(files, g) == {h \in files : ~SameName(g, h)} \cup {g}

Change(d) == dir' = d /\ since' = since \cup {d}

\* remove_files: the sidecars go first.  Both removals are one step, and a
\* power loss may fall between them; after a crash there recovery does what
\* it does after both.
RemoveFiles(gens) ==
  LET half == [dir EXCEPT !.meta = @ \ gens]
      done == [half EXCEPT !.data = @ \ gens]
  IN dir' = done /\ since' = since \cup {half, done}

\* read_verified: the file is there and is the body that was staged.
Readable(g) == g \in dir.data

----------------------------------------------------------------------------
(* Writers: WriteCache::stage                                              *)

Now(w, pc) == writer[w].pc = pc
Go(w, pc)  == writer' = [writer EXCEPT ![w].pc = pc]

\* The sequence number is taken, and the body is staged and renamed.
Begin(w, o) ==
  LET b == begun + 1
      g == [obj |-> o, seq |-> nextSeq, body |-> b]
  IN
  /\ running /\ Now(w, "idle") /\ begun < MaxWrites
  /\ begun' = b
  /\ call' = [call EXCEPT ![b] = [obj |-> o, after |-> acked]]
  /\ nextSeq' = nextSeq + 1
  /\ Change([dir EXCEPT !.data = Put(@, g)])
  /\ writer' = [writer EXCEPT ![w] = [pc |-> "meta", gen |-> {g}, old |-> {}]]
  /\ UNCHANGED <<running, pending, inflight, failed, queue, attempts, origin,
                 flusher, acked, delivered, log, faults>>

\* The sidecar is staged and renamed.
CommitMeta(w) ==
  /\ Now(w, "meta")
  /\ \E g \in writer[w].gen : Change([dir EXCEPT !.meta = Put(@, g)])
  /\ Go(w, "sync")
  /\ UNCHANGED <<running, memory, attempts, origin, flusher, ghosts,
                 delivered, log, faults>>

\* Mutant: the directory is not synced before the write is inserted.
SkipSync(w) ==
  /\ Now(w, "sync")
  /\ Go(w, "insert")
  /\ UNCHANGED <<dir, since, running, memory, attempts, origin, flusher,
                 ghosts, delivered, log, faults>>

\* fsync_dir.
SyncDir(w) ==
  /\ Now(w, "sync")
  /\ since' = {dir}
  /\ Go(w, "insert")
  /\ UNCHANGED <<dir, running, memory, attempts, origin, flusher, ghosts,
                 delivered, log, faults>>

\* A commit or the fsync fails: stage returns an error and leaves its files.
StageFails(w) ==
  /\ writer[w].pc \in {"meta", "sync"}
  /\ faults.errors < MaxErrors
  /\ faults' = [faults EXCEPT !.errors = @ + 1]
  /\ writer' = [writer EXCEPT ![w] = Idle]
  /\ UNCHANGED <<dir, since, running, memory, attempts, origin, flusher,
                 ghosts, delivered, log>>

\* Mutant: the files of an upload in progress go as well.
InsertOverInflight(w) ==
  /\ Now(w, "insert")
  /\ \E g \in writer[w].gen :
       LET o == g.obj IN
       /\ pending' = [pending EXCEPT ![o] = {g}]
       /\ queue' = IF pending[o] = {} THEN Append(queue, o) ELSE queue
       /\ failed' = [failed EXCEPT ![o] = {}]
       /\ writer' = [writer EXCEPT ![w].pc = "drop", ![w].old =
                       pending[o] \cup failed[o] \cup inflight[o]]
  /\ UNCHANGED <<dir, since, running, nextSeq, inflight, attempts, origin,
                 flusher, ghosts, delivered, log, faults>>

Bodies(gens) == {g.body : g \in gens}

\* Writes that have been inserted: acknowledged, or about to be.
Placed == acked \cup UNION {Bodies(writer[w].gen) : w \in {v \in Writers : Now(v, "drop")}}

\* History: inserted writes begun after g that its insertion loses.  g has
\* the lower number and replaces a generation that was theirs or stood for
\* them; what is left of the object may be older than they are.
Overtaken(g) ==
  {b \in Placed :
     /\ call[b].obj = g.obj /\ b > g.body /\ b \notin Bodies(inflight[g.obj])
     /\ \E q \in pending[g.obj] \cup failed[g.obj] : q.seq > g.seq /\ q.body >= b}

\* Writes of the object begun no later than g, which g stands for from now on.
Covered(g) == {b \in Writes : call[b].obj = g.obj /\ b <= g.body}

\* The new generation replaces a pending and a parked one.
Insert(w) ==
  /\ Now(w, "insert")
  /\ \E g \in writer[w].gen :
       LET o == g.obj IN
       /\ pending' = [pending EXCEPT ![o] = {g}]
       /\ queue' = IF pending[o] = {} THEN Append(queue, o) ELSE queue
       /\ failed' = [failed EXCEPT ![o] = {}]
       /\ writer' = [writer EXCEPT ![w].pc = "drop",
                                   ![w].old = pending[o] \cup failed[o]]
       /\ lost' = (lost \ Covered(g)) \cup Overtaken(g)
  /\ UNCHANGED <<dir, since, running, nextSeq, inflight, attempts, origin,
                 flusher, ghosts, delivered, recovered, dropped, faults>>

\* The files of what was replaced go, outside the lock.
Drop(w) ==
  /\ Now(w, "drop") /\ writer[w].old # {}
  /\ RemoveFiles(writer[w].old)
  /\ writer' = [writer EXCEPT ![w].old = {}]
  /\ UNCHANGED <<running, memory, attempts, origin, flusher, ghosts,
                 delivered, log, faults>>

\* stage returns Ok: the write may be acknowledged.
Acknowledge(w) ==
  /\ Now(w, "drop") /\ writer[w].old = {}
  /\ acked' = acked \cup {g.body : g \in writer[w].gen}
  /\ writer' = [writer EXCEPT ![w] = Idle]
  /\ UNCHANGED <<dir, since, running, memory, attempts, origin, flusher,
                 begun, call, delivered, log, faults>>

----------------------------------------------------------------------------
(* Flushers: WriteCache::take_next and Flusher::flush_next                 *)

Doing(f, pc) == flusher[f].pc = pc
Turn(f, pc)  == flusher' = [flusher EXCEPT ![f].pc = pc]

\* Places of the queue whose object waits and is not being uploaded.
Due == {i \in 1..Len(queue) : pending[queue[i]] # {} /\ inflight[queue[i]] = {}}

\* What stays of a stretch of the queue that take_next passes over: the
\* objects that wait, in their order.
Skipped(q) ==
  LET kept[i \in 0..Len(q)] ==
        IF i = 0 THEN <<>>
        ELSE IF pending[q[i]] # {} THEN Append(kept[i - 1], q[i]) ELSE kept[i - 1]
  IN kept[Len(q)]

\* take_next's critical section; objects it passes over go to the back.
Take(f) ==
  /\ running /\ Doing(f, "idle") /\ Due # {}
  /\ LET i == Min(Due)
         o == queue[i]
     IN
     /\ queue' = SubSeq(queue, i + 1, Len(queue))
                   \o Skipped(SubSeq(queue, 1, i - 1))
     /\ inflight' = [inflight EXCEPT ![o] = pending[o]]
     /\ pending' = [pending EXCEPT ![o] = {}]
     /\ flusher' = [flusher EXCEPT ![f] =
                      [pc |-> "read", gen |-> pending[o], ok |-> FALSE]]
  /\ UNCHANGED <<dir, since, running, nextSeq, failed, attempts, origin,
                 writer, ghosts, delivered, log, faults>>

\* Mutant: objects that were passed over are not put back.
TakeNoneForgets(f) ==
  /\ running /\ Doing(f, "idle") /\ Due = {}
  /\ queue' = <<>>
  /\ UNCHANGED <<dir, since, running, nextSeq, pending, inflight, failed,
                 attempts, origin, writer, flusher, ghosts, delivered, log,
                 faults>>

\* take_next finds nothing due and leaves the passed objects in the queue.
TakeNone(f) ==
  /\ running /\ Doing(f, "idle") /\ Due = {}
  /\ queue' = Skipped(queue)
  /\ UNCHANGED <<dir, since, running, nextSeq, pending, inflight, failed,
                 attempts, origin, writer, flusher, ghosts, delivered,
                 log, faults>>

ReadStaged(f) ==
  /\ Doing(f, "read")
  /\ \A g \in flusher[f].gen : Readable(g)
  /\ Turn(f, "put")
  /\ UNCHANGED <<dir, since, running, memory, attempts, origin, writer,
                 ghosts, delivered, log, faults>>

\* The staged file cannot be read back: the generation is dropped.
ReadFails(f) ==
  /\ Doing(f, "read")
  /\ \/ \E g \in flusher[f].gen : ~Readable(g) /\ UNCHANGED faults
     \/ /\ faults.errors < MaxErrors
        /\ faults' = [faults EXCEPT !.errors = @ + 1]
  /\ inflight' = [o \in Objects |-> inflight[o] \ flusher[f].gen]
  /\ dropped' = dropped \cup {g.body : g \in flusher[f].gen}
  /\ Turn(f, "drop")
  /\ UNCHANGED <<dir, since, running, nextSeq, pending, failed, queue,
                 attempts, origin, writer, ghosts, delivered, recovered,
                 lost>>

\* The origin takes the body.
Upload(f) ==
  \E g \in flusher[f].gen :
    /\ origin' = [origin EXCEPT ![g.obj] = g.body]
    /\ delivered' = delivered \cup {g.body}

PutOk(f) ==
  /\ Doing(f, "put")
  /\ Upload(f)
  /\ flusher' = [flusher EXCEPT ![f].pc = "complete", ![f].ok = TRUE]
  /\ UNCHANGED <<dir, since, running, memory, attempts, writer, ghosts,
                 log, faults>>

\* put returns an error; the origin may have taken the body all the same.
PutFails(f) ==
  /\ Doing(f, "put")
  /\ faults.errors < MaxErrors
  /\ faults' = [faults EXCEPT !.errors = @ + 1]
  /\ Upload(f) \/ UNCHANGED <<origin, delivered>>
  /\ Turn(f, "fail")
  /\ UNCHANGED <<dir, since, running, memory, attempts, writer, ghosts,
                 log>>

\* complete.
Complete(f) ==
  /\ Doing(f, "complete")
  /\ inflight' = [o \in Objects |-> inflight[o] \ flusher[f].gen]
  /\ Turn(f, "drop")
  /\ UNCHANGED <<dir, since, running, nextSeq, pending, failed, queue,
                 attempts, origin, writer, ghosts, delivered, log,
                 faults>>

\* A newer generation waits, so the failed one is dead.
Superseded(g) == \E p \in pending[g.obj] : p.seq > g.seq

\* Mutant: one attempt more than the policy allows.
RequeueOnceMore(f) ==
  /\ Doing(f, "fail")
  /\ \E g \in flusher[f].gen :
       /\ attempts' = [attempts EXCEPT ![g.obj] = @ + 1]
       /\ inflight' = [inflight EXCEPT ![g.obj] = {}]
       /\ pending' = [pending EXCEPT ![g.obj] = {g}]
       /\ queue' = Append(queue, g.obj)
  /\ flusher' = [flusher EXCEPT ![f] = Rest]
  /\ UNCHANGED <<dir, since, running, nextSeq, failed, origin, writer, ghosts,
                 delivered, log, faults>>

\* Mutant: the failed generation replaces a newer one that waits.
RequeueOverNewer(f) ==
  /\ Doing(f, "fail")
  /\ \E g \in flusher[f].gen :
       /\ attempts[g.obj] + 1 < MaxAttempts
       /\ attempts' = [attempts EXCEPT ![g.obj] = @ + 1]
       /\ inflight' = [inflight EXCEPT ![g.obj] = {}]
       /\ pending' = [pending EXCEPT ![g.obj] = {g}]
       /\ queue' = Append(queue, g.obj)
  /\ flusher' = [flusher EXCEPT ![f] = Rest]
  /\ UNCHANGED <<dir, since, running, nextSeq, failed, origin, writer, ghosts,
                 delivered, log, faults>>

\* requeue.
Requeue(f) ==
  /\ Doing(f, "fail")
  /\ \E g \in flusher[f].gen :
       LET o == g.obj IN
       /\ attempts[o] + 1 < MaxAttempts
       /\ attempts' = [attempts EXCEPT ![o] = @ + 1]
       /\ inflight' = [inflight EXCEPT ![o] = {}]
       /\ IF Superseded(g)
            THEN Turn(f, "drop") /\ UNCHANGED <<pending, queue>>
            ELSE /\ pending' = [pending EXCEPT ![o] = {g}]
                 /\ queue' = Append(queue, o)
                 /\ flusher' = [flusher EXCEPT ![f] = Rest]
  /\ UNCHANGED <<dir, since, running, nextSeq, failed, origin, writer, ghosts,
                 delivered, log, faults>>

\* Mutant: a generation is parked although a newer one waits.
ParkStale(f) ==
  /\ Doing(f, "fail")
  /\ \E g \in flusher[f].gen :
       /\ attempts[g.obj] + 1 >= MaxAttempts
       /\ attempts' = [attempts EXCEPT ![g.obj] = 0]
       /\ inflight' = [inflight EXCEPT ![g.obj] = {}]
       /\ failed' = [failed EXCEPT ![g.obj] = {g}]
  /\ flusher' = [flusher EXCEPT ![f] = Rest]
  /\ UNCHANGED <<dir, since, running, nextSeq, pending, queue, origin, writer,
                 ghosts, delivered, log, faults>>

\* park_failed: the object's attempts are spent.
ParkFailed(f) ==
  /\ Doing(f, "fail")
  /\ \E g \in flusher[f].gen :
       LET o == g.obj IN
       /\ attempts[o] + 1 >= MaxAttempts
       /\ attempts' = [attempts EXCEPT ![o] = 0]
       /\ inflight' = [inflight EXCEPT ![o] = {}]
       /\ IF Superseded(g)
            THEN Turn(f, "drop") /\ UNCHANGED failed
            ELSE /\ failed' = [failed EXCEPT ![o] = {g}]
                 /\ flusher' = [flusher EXCEPT ![f] = Rest]
  /\ UNCHANGED <<dir, since, running, nextSeq, pending, queue, origin, writer,
                 ghosts, delivered, log, faults>>

\* The files go; after an upload the object's attempts are forgotten.
Retire(f) ==
  /\ Doing(f, "drop")
  /\ RemoveFiles(flusher[f].gen)
  /\ attempts' = [o \in Objects |->
                    IF flusher[f].ok /\ \E g \in flusher[f].gen : g.obj = o
                      THEN 0 ELSE attempts[o]]
  /\ flusher' = [flusher EXCEPT ![f] = Rest]
  /\ UNCHANGED <<running, memory, origin, writer, ghosts, delivered, log,
                 faults>>

----------------------------------------------------------------------------
(* The operator, crashes and recovery                                      *)

\* retry_failed: parked generations are queued again; one that a newer
\* pending generation covers is removed instead.
RetryFailed ==
  LET back == {o \in Objects : \E g \in failed[o] : ~Superseded(g)}
      dead == UNION {{g \in failed[o] : Superseded(g)} : o \in Objects}
  IN
  /\ running /\ \E o \in Objects : failed[o] # {}
  /\ faults.rearms < MaxRearms
  /\ faults' = [faults EXCEPT !.rearms = @ + 1]
  /\ pending' = [o \in Objects |-> IF o \in back THEN failed[o] ELSE pending[o]]
  /\ \E order \in SetToSeqs(back) : queue' = queue \o order
  /\ failed' = [o \in Objects |-> {}]
  /\ RemoveFiles(dead)
  /\ UNCHANGED <<running, nextSeq, inflight, attempts, origin, writer,
                 flusher, ghosts, delivered, log>>

\* The process ends; what is in memory is gone.
Stop ==
  /\ running
  /\ faults.crashes < MaxCrashes
  /\ faults' = [faults EXCEPT !.crashes = @ + 1]
  /\ running' = FALSE
  /\ pending' = [o \in Objects |-> {}]
  /\ inflight' = [o \in Objects |-> {}]
  /\ failed' = [o \in Objects |-> {}]
  /\ queue' = <<>>
  /\ attempts' = [o \in Objects |-> 0]
  /\ writer' = [w \in Writers |-> Idle]
  /\ flusher' = [f \in Flushers |-> Rest]
  /\ UNCHANGED <<nextSeq, origin, ghosts, delivered, log>>

Crash == Stop /\ UNCHANGED <<dir, since>>

\* The machine loses power: a directory since the last fsync is what is left.
PowerLoss ==
  /\ Stop
  /\ \E d \in since : dir' = d /\ since' = {d}

\* The newest committed generation of each object in a directory.
Newest(d) == {g \in d.meta : \A h \in d.meta : h.obj = g.obj => h.seq <= g.seq}

\* open and recover: older generations and bodies without sidecar go, and
\* the newest are queued in the order in which the directory is read.
Recover ==
  LET kept == Newest(dir) IN
  /\ ~running
  /\ running' = TRUE
  /\ nextSeq' = Max({0} \cup {g.seq : g \in dir.meta}) + 1
  /\ pending' = [o \in Objects |-> {g \in kept : g.obj = o}]
  /\ \E order \in SetToSeqs({g.obj : g \in kept}) : queue' = order
  /\ recovered' = {g.body : g \in kept}
  /\ Change([data |-> {g \in dir.data : \E h \in kept : SameName(g, h)},
             meta |-> kept])
  /\ UNCHANGED <<inflight, failed, attempts, origin, writer, flusher, ghosts,
                 delivered, dropped, lost, faults>>

----------------------------------------------------------------------------
(* Readers: WriteCache::staged_bytes                                       *)

Staged == UNION {pending[o] \cup inflight[o] \cup failed[o] : o \in Objects}

\* Mutant: an upload in progress answers before the generation that waits.
UploadFirst(o) == IF inflight[o] # {} THEN inflight[o] ELSE pending[o]

\* The generation that a read of the object is answered with.
StagedBytes(o) ==
  {g \in Staged : g.obj = o /\ \A h \in Staged : h.obj = o => h.seq <= g.seq}

----------------------------------------------------------------------------

Stage(w) == CommitMeta(w) \/ SyncDir(w) \/ Insert(w) \/ Drop(w)
              \/ Acknowledge(w)

Flush(f) == Take(f) \/ ReadStaged(f) \/ PutOk(f) \/ Complete(f)
              \/ Requeue(f) \/ ParkFailed(f) \/ Retire(f)

Next ==
  \/ \E w \in Writers : Stage(w) \/ StageFails(w) \/ \E o \in Objects : Begin(w, o)
  \/ \E f \in Flushers : Flush(f) \/ TakeNone(f) \/ ReadFails(f) \/ PutFails(f)
  \/ RetryFailed \/ Crash \/ PowerLoss \/ Recover

Spec == Init /\ [][Next]_vars

----------------------------------------------------------------------------
(* Properties                                                              *)

\* v's stage call had not returned when b's began: v may be the newer one.
NotOlder(v, b) == call[v].obj = call[b].obj /\ v \notin call[b].after

\* Whatever directory a crash or a power loss would leave now, an
\* acknowledged write, or one that is not older, has been at the origin, is
\* what recovery queues for its object, or was given up as unreadable.  Not
\* so a write in lost: stage replaces it with a lower numbered one
\* (write_cache.rs:236), and recovery may queue a write acknowledged before
\* it began.  Outside lost nothing is lost, and only Insert adds to it.
AckedDurable ==
  \A b \in acked \ lost : \A d \in since :
    \E v \in delivered \cup dropped \cup Bodies(Newest(d) \cap d.data) : NotOlder(v, b)

\* While the process runs an acknowledged write, or one that is not older,
\* has been at the origin, waits, is being uploaded, is parked or was given
\* up as unreadable, unless it is in lost: requeue, park_failed, retry_failed
\* and complete lose nothing, stage only what it overtakes.
AckedQueued ==
  running => \A b \in acked \ lost :
    \E v \in delivered \cup dropped \cup Bodies(Staged) : NotOlder(v, b)

\* A staged generation can be read back, so take_next never has to drop an
\* acknowledged write: removals outside the lock touch only dead generations.
StagedReadable == \A g \in Staged : Readable(g)

\* Without a restart the origin never goes back to an older write: an older
\* body lands only when recovery had found it on disk.
BackOnlyByRestart ==
  [][\A o \in Objects :
       origin'[o] # origin[o] /\ origin[o] # None =>
         NotOlder(origin'[o], origin[o]) \/ origin'[o] \in recovered]_vars

\* A read that staged_bytes answers is not older than an acknowledged write,
\* be the generations pending, in flight or parked, unless recovery had found
\* that older write on disk, or the acknowledged one is in lost and no write
\* begun later has been inserted since.
ReadYourWrites ==
  \A b \in acked \ lost : \A g \in StagedBytes(call[b].obj) :
    NotOlder(g.body, b) \/ g.body \in recovered

\* staged_bytes as its comment has it, "the newest staged bytes": a process
\* that has not restarted never answers a read with a write that had been
\* acknowledged before another acknowledged write of the object began.
ReadsAreCurrent ==
  \A b \in acked : \A g \in StagedBytes(call[b].obj) :
    NotOlder(g.body, b) \/ g.body \in recovered

\* No staged write is forgotten: an object that waits is in the queue, also
\* after take_next passed it over or a failed upload was put back, and one
\* in flight has a task that will complete, requeue or park it.
NotForgotten ==
  \A o \in Objects :
    /\ pending[o] # {} => \E i \in 1..Len(queue) : queue[i] = o
    /\ inflight[o] # {} => \E f \in Flushers :
         /\ flusher[f].gen = inflight[o]
         /\ flusher[f].pc \in {"read", "put", "complete", "fail"}

\* A restart does not bring back an older write: what recovery would queue
\* for an object, or the origin's copy if it would queue none, is not older
\* than an acknowledged write of the object.
RestartKeepsAcked ==
  \A b \in acked :
    LET o    == call[b].obj
        left == Bodies({g \in Newest(dir) : g.obj = o})
    IN \A v \in (IF left = {} THEN {origin[o]} ELSE left) : NotOlder(v, b)

=============================================================================
