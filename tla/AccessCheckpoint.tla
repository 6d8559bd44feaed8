-------------------------- MODULE AccessCheckpoint --------------------------
(***************************************************************************)
(* How last-access times of cached pages reach the disk, for one shard of  *)
(* the page registry and one block identity in it.                         *)
(*                                                                         *)
(* Readers stamp a page and mark it dirty with lock-free atomics, and the  *)
(* first mark of a page notifies the block's summary, which queues the     *)
(* block's registry slot in the shard.  The checkpointer takes the queued  *)
(* block off the queue, consumes the page marks, samples the times, and    *)
(* writes either a whole base file or a delta appended to a log; any       *)
(* failure puts the consumed marks back.  Pages come and go and the block  *)
(* itself is retired and created again while that happens, and the process *)
(* may stop at any point and load the files on restart.                    *)
(*                                                                         *)
(* Atomics are sequentially consistent here.  A step under the block's     *)
(* mutex is one action unless a reader's atomics can come between its      *)
(* parts.  Writes that were not synced survive a stop or not, a log tail   *)
(* up to any frame.                                                        *)
(***************************************************************************)
EXTENDS Naturals, FiniteSets, Sequences, FiniteSetsExt

CONSTANTS
    Pages,          \* page indices of the block
    Readers,        \* concurrent reads that finish successfully
    MaxTime,        \* bound: the last millisecond of the policy clock
    MaxSlots,       \* bound: registry slots handed out since the process started
    MaxRevision,    \* bound: page table changes of one block
    MaxFaults,      \* bound: checkpoint failures and process stops together
    CompactAt,      \* frames in the log that make the next checkpoint full
    MaxTombstones   \* deletions remembered before overflow forces a full one

ASSUME BoundsAssumption ==
    /\ IsFiniteSet(Pages)
    /\ {MaxTime, MaxSlots, MaxRevision, CompactAt} \subseteq Nat \ {0}
    /\ {MaxFaults, MaxTombstones} \subseteq Nat

VARIABLES
    now,         \* AccessClock
    resident,    \* keys of the block's page table
    last,        \* PageAccess.last_access of each page's current handle
    mark,        \* PageAccess.dirty_since
    live,        \* slot of the registered BlockState, 0 when there is none
    blockDirty,  \* BlockWork.dirty_since of the live block
    shardDirty,  \* ShardWork.dirty: slot -> since
    revision,    \* BlockPages.revision
    savedRevision, \* BlockPages.checkpointed_revision
    reg,         \* the shard's Registry
    reader,      \* each reader's place inside PageState::touch
    ck,          \* the shard's checkpoint task
    base,        \* access.shard as the process sees it
    log,         \* access.log as the process sees it
    bases,       \* what a stop may leave of access.shard
    logs,        \* what a stop may leave of access.log
    saved,       \* ghost: age each resident page had in the last good checkpoint
    fails,
    crashes

memory == <<now, resident, last, mark, live, blockDirty, shardDirty,
            revision, savedRevision, reg, reader>>
disk == <<base, log, bases, logs>>
ghost == <<saved, fails, crashes>>
vars == <<memory, ck, disk, ghost>>

Times == 1 .. MaxTime

\* UNKNOWN is u64::MAX: the identity of fetch_min.
Unknown == MaxTime + 1
Stamps == Times \cup {Unknown}

Earlier(a, b) == IF a <= b THEN a ELSE b

\* Ages as a file holds them; 0 where the page has no record.
Ages == [Pages -> 0 .. MaxTime]
NoAges == [p \in Pages |-> 0]
NoFile == [gen |-> 0, ages |-> NoAges]
NoLog == [gen |-> 0, frames |-> <<>>]
NewJournal == [gen |-> 0, full |-> TRUE, size |-> 0]

Clean == [p \in Pages |-> Unknown]

(***************************************************************************)
(* What load() makes of the two files: the base, and the log's frames on   *)
(* top when the log carries the base's generation.  The frames are applied *)
(* in order, and a replacing frame (a structural change or a tombstone)    *)
(* forgets the map it finds: a page has the age of the last frame that     *)
(* replaces the map or names the page, and the base's when there is none.  *)
(***************************************************************************)
Deciding(frames, p) ==
    {i \in DOMAIN frames : frames[i].replace \/ frames[i].ages[p] # 0}

Replayed(ages, frames) ==
    [p \in Pages |-> IF Deciding(frames, p) = {} THEN ages[p]
                     ELSE frames[Max(Deciding(frames, p))].ages[p]]

Recovered(b, l) ==
    IF b.gen = 0 \/ l.gen # b.gen THEN b.ages ELSE Replayed(b.ages, l.frames)

Idle == [pc |-> "idle", ceiling |-> 0, upto |-> 0, journal |-> NewJournal,
         full |-> FALSE, gone |-> FALSE, slot |-> 0, held |-> FALSE,
         since |-> Unknown, replace |-> FALSE, revision |-> 0, todo |-> {},
         page |-> CHOOSE p \in Pages : TRUE, marks |-> Clean, ages |-> NoAges,
         orphans |-> {}]

Resting == [pc |-> "idle", page |-> CHOOSE p \in Pages : TRUE, at |-> 0]

\* track_access is on and the shard starts without pages or files.
Init ==
    /\ now = 1
    /\ resident = {}
    /\ last = Clean
    /\ mark = Clean
    /\ live = 0
    /\ blockDirty = Unknown
    /\ shardDirty = [s \in 1 .. MaxSlots |-> Unknown]
    /\ revision = 0
    /\ savedRevision = 0
    /\ reg = [next |-> 0, membership |-> 0, saved |-> 0, removed |-> {},
              overflow |-> 0, journal |-> NewJournal, dir |-> FALSE]
    /\ reader = [r \in Readers |-> Resting]
    /\ ck = Idle
    /\ base = NoFile
    /\ log = NoLog
    /\ bases = {NoFile}
    /\ logs = {NoLog}
    /\ saved = NoAges
    /\ fails = 0
    /\ crashes = 0

-----------------------------------------------------------------------------
(***************************************************************************)
(* Readers: PageState::touch, one action per atomic operation.             *)
(***************************************************************************)

Tick ==
    /\ now < MaxTime
    /\ now' = now + 1
    /\ UNCHANGED <<resident, last, mark, live, blockDirty, shardDirty, revision,
                   savedRevision, reg, reader, ck, disk, ghost>>

\* A read of a resident page ends and takes the time it will record.
ReadDone(r) ==
    /\ reader[r].pc = "idle"
    /\ \E p \in resident :
        reader' = [reader EXCEPT ![r] = [pc |-> "timed", page |-> p, at |-> now]]
    /\ UNCHANGED <<now, resident, last, mark, live, blockDirty, shardDirty,
                   revision, savedRevision, reg, ck, disk, ghost>>

Newer(t, old) == old = Unknown \/ old < t

\* The compare-exchange on last_access; a reader that lost to a later one stops.
Stamp(r) ==
    LET p == reader[r].page
        t == reader[r].at
    IN  /\ reader[r].pc = "timed"
        /\ \/ /\ Newer(t, last[p])
              /\ last' = [last EXCEPT ![p] = t]
              /\ reader' = [reader EXCEPT ![r].pc = "stamped"]
           \/ /\ ~Newer(t, last[p])
              /\ reader' = [reader EXCEPT ![r] = Resting]
              /\ UNCHANGED last
        /\ UNCHANGED <<now, resident, mark, live, blockDirty, shardDirty,
                       revision, savedRevision, reg, ck, disk, ghost>>

\* fetch_min on the page's dirty_since; only the first mark goes on to notify.
Mark(r) ==
    LET p == reader[r].page
    IN  /\ reader[r].pc = "stamped"
        /\ mark' = [mark EXCEPT ![p] = Earlier(@, reader[r].at)]
        /\ reader' = IF mark[p] = Unknown
                     THEN [reader EXCEPT ![r].pc = "notify"]
                     ELSE [reader EXCEPT ![r] = Resting]
        /\ UNCHANGED <<now, resident, last, live, blockDirty, shardDirty,
                       revision, savedRevision, reg, ck, disk, ghost>>

\* BlockWork::dirty up to its early return: a block already dirty is queued
\* or is being queued by whoever made it so.
Notify(r) ==
    /\ reader[r].pc = "notify"
    /\ blockDirty' = Earlier(blockDirty, reader[r].at)
    /\ reader' = IF blockDirty <= reader[r].at
                 THEN [reader EXCEPT ![r] = Resting]
                 ELSE [reader EXCEPT ![r].pc = "queue"]
    /\ UNCHANGED <<now, resident, last, mark, live, shardDirty, revision,
                   savedRevision, reg, ck, disk, ghost>>

\* BlockWork::dirty under the shard's lock.
Queue(r) ==
    /\ reader[r].pc = "queue"
    /\ shardDirty' = [shardDirty EXCEPT ![live] = Earlier(@, reader[r].at)]
    /\ reader' = [reader EXCEPT ![r] = Resting]
    /\ UNCHANGED <<now, resident, last, mark, live, blockDirty, revision,
                   savedRevision, reg, ck, disk, ghost>>

\* Mutant: the rollback of a checkpoint queues a slot that was retired.
DirtyRetired(slot, t) ==
    IF t < blockDirty
    THEN /\ blockDirty' = t
         /\ shardDirty' = [shardDirty EXCEPT ![slot] = Earlier(@, t)]
    ELSE UNCHANGED <<blockDirty, shardDirty>>

(***************************************************************************)
(* The whole of BlockWork::dirty for callers no checkpoint can interleave: *)
(* those under the block's mutex, and the checkpointer's own rollback.  A  *)
(* retired slot is never queued again.                                     *)
(***************************************************************************)
Dirty(slot, t) ==
    IF slot = live /\ t < blockDirty
    THEN /\ blockDirty' = t
         /\ shardDirty' = [shardDirty EXCEPT ![slot] = Earlier(@, t)]
    ELSE UNCHANGED <<blockDirty, shardDirty>>

-----------------------------------------------------------------------------
(***************************************************************************)
(* The registry: blocks and pages come and go.                             *)
(***************************************************************************)

\* checkpoint_shard holds the block's mutex while it samples.
BlockUnlocked == ck.pc \notin {"consume", "sample"}

\* PageLifecycle::block for an identity without a lifecycle.
Create ==
    /\ live = 0
    /\ reg.next < MaxSlots
    /\ live' = reg.next + 1
    /\ reg' = [reg EXCEPT !.next = @ + 1, !.membership = @ + 1]
    /\ blockDirty' = Unknown
    /\ revision' = 0
    /\ savedRevision' = 0
    /\ UNCHANGED <<now, resident, last, mark, shardDirty, reader, ck, disk, ghost>>

\* BlockState::register of a fill: a new handle, or a duplicate fill of the
\* old one; touch and changed.  The page's file made the shard's directory.
Register(p) ==
    LET fresh == p \notin resident
        touched == fresh \/ Newer(now, last[p])
    IN  /\ live # 0
        /\ BlockUnlocked
        /\ revision < MaxRevision
        /\ resident' = resident \cup {p}
        /\ last' = IF touched THEN [last EXCEPT ![p] = now] ELSE last
        /\ mark' = IF fresh THEN [mark EXCEPT ![p] = now]
                   ELSE IF touched THEN [mark EXCEPT ![p] = Earlier(@, now)]
                   ELSE mark
        /\ revision' = revision + 1
        /\ Dirty(live, now)
        /\ reg' = [reg EXCEPT !.dir = TRUE]
        /\ saved' = IF fresh THEN [saved EXCEPT ![p] = 0] ELSE saved
        /\ UNCHANGED <<now, live, savedRevision, reader, ck, disk, fails, crashes>>

\* BlockState::finish: a page nobody is reading was deleted.  A checkpoint
\* may still hold the removed handle.
Delete(p) ==
    /\ p \in resident
    /\ BlockUnlocked
    /\ revision < MaxRevision
    /\ \A r \in Readers : reader[r].pc = "idle" \/ reader[r].page # p
    /\ resident' = resident \ {p}
    /\ last' = [last EXCEPT ![p] = Unknown]
    /\ mark' = [mark EXCEPT ![p] = Unknown]
    /\ revision' = revision + 1
    /\ Dirty(live, now)
    /\ ck' = IF ck.pc = "idle" THEN ck ELSE [ck EXCEPT !.orphans = @ \cup {p}]
    /\ saved' = [saved EXCEPT ![p] = 0]
    /\ UNCHANGED <<now, live, savedRevision, reg, reader, disk, fails, crashes>>

\* Registry::removed.
Tombstone ==
    LET m == reg.membership + 1
        g == [reg EXCEPT !.membership = m]
    IN  IF reg.journal.gen = 0 THEN g
        ELSE IF Cardinality(reg.removed) >= MaxTombstones
        THEN [g EXCEPT !.overflow = m]
        ELSE [g EXCEPT !.removed = @ \cup {m}]

\* retire_empty: the block has no page and no owner but the directory and the
\* registry; BlockWork::retire takes its slot off the queue.
Retire ==
    /\ live # 0
    /\ resident = {}
    /\ ~(ck.held /\ ck.slot = live)
    /\ shardDirty' = [shardDirty EXCEPT ![live] = Unknown]
    /\ live' = 0
    /\ blockDirty' = Unknown
    /\ revision' = 0
    /\ savedRevision' = 0
    /\ reg' = Tombstone
    /\ UNCHANGED <<now, resident, last, mark, reader, ck, disk, ghost>>

-----------------------------------------------------------------------------
(***************************************************************************)
(* checkpoint_shard: prepare.                                              *)
(***************************************************************************)

NothingQueued == \A s \in DOMAIN shardDirty : shardDirty[s] = Unknown

\* What checkpoint_start reports when there is work to do.
Due == reg.membership # reg.saved \/ ~NothingQueued

\* checkpoint_start: one lock for the ceiling, the membership and the verdict.
CkStart ==
    /\ ck.pc = "idle"
    /\ Due
    /\ ck' = [Idle EXCEPT !.pc = "journal", !.ceiling = reg.next,
                          !.upto = reg.membership]
    /\ UNCHANGED <<memory, disk, ghost>>

\* checkpoint_journal, compact, and set_checkpoint_journal of the retry state
\* that a failure leaves behind.
CkJournal ==
    LET old == [reg.journal EXCEPT !.full = @ \/ reg.overflow # 0]
    IN  /\ ck.pc = "journal"
        /\ ck' = [ck EXCEPT !.pc = "pick", !.journal = old,
                            !.full = old.full \/ old.size >= CompactAt,
                            !.gone = \E m \in reg.removed : m <= ck.upto]
        /\ reg' = [reg EXCEPT !.journal = [old EXCEPT !.full = TRUE]]
        /\ UNCHANGED <<now, resident, last, mark, live, blockDirty, shardDirty,
                       revision, savedRevision, reader, disk, ghost>>

\* checkpoint_batch and checkpoint_dirty_batch: blocks below the ceiling.
Eligible ==
    /\ live # 0
    /\ live <= ck.ceiling
    /\ ck.full \/ shardDirty[live] # Unknown

\* The batch keeps the block alive until it is sampled and written.
CkPick ==
    /\ ck.pc = "pick"
    /\ ck' = IF Eligible
             THEN [ck EXCEPT !.pc = "summary", !.slot = live, !.held = TRUE]
             ELSE [ck EXCEPT !.pc = "encode"]
    /\ UNCHANGED <<memory, disk, ghost>>

\* BlockWork::checkpoint, before any page is looked at.
CkSummary ==
    /\ ck.pc = "summary"
    /\ ck' = [ck EXCEPT !.pc = "consume", !.since = shardDirty[live],
                        !.replace = ck.full \/ revision # savedRevision,
                        !.revision = revision, !.todo = resident,
                        !.orphans = {}]
    /\ shardDirty' = [shardDirty EXCEPT ![live] = Unknown]
    /\ blockDirty' = Unknown
    /\ UNCHANGED <<now, resident, last, mark, live, revision, savedRevision, reg,
                   reader, disk, ghost>>

\* PageCheckpoint::new swaps the page's mark away ...
CkConsume ==
    /\ ck.pc = "consume"
    /\ \E p \in ck.todo :
        /\ ck' = [ck EXCEPT !.pc = "sample", !.page = p, !.todo = @ \ {p},
                            !.marks[p] = mark[p]]
        /\ mark' = [mark EXCEPT ![p] = Unknown]
    /\ UNCHANGED <<now, resident, last, live, blockDirty, shardDirty, revision,
                   savedRevision, reg, reader, disk, ghost>>

\* ... and reads its age after that.  A delta keeps the marked pages only.
CkSample ==
    LET p == ck.page
        kept == last[p] # Unknown /\ (ck.replace \/ ck.marks[p] # Unknown)
    IN  /\ ck.pc = "sample"
        /\ ck' = [ck EXCEPT !.pc = "consume",
                            !.ages[p] = IF kept THEN last[p] ELSE 0]
        /\ UNCHANGED <<memory, disk, ghost>>

\* Mutant: the summary is reset again once the pages were sampled.
CkSampledReset ==
    /\ ck.pc = "consume"
    /\ ck.todo = {}
    /\ ck' = [ck EXCEPT !.pc = "encode"]
    /\ shardDirty' = [shardDirty EXCEPT ![live] = Unknown]
    /\ blockDirty' = Unknown
    /\ UNCHANGED <<now, resident, last, mark, live, revision, savedRevision, reg,
                   reader, disk, ghost>>

\* Every page is sampled: the block's mutex is released.
CkSampled ==
    /\ ck.pc = "consume"
    /\ ck.todo = {}
    /\ ck' = [ck EXCEPT !.pc = "encode"]
    /\ UNCHANGED <<memory, disk, ghost>>

\* The size check fails before any page is consumed: the summary goes back
\* on the queue under the block's mutex.
CkTooLarge ==
    /\ ck.pc = "consume"
    /\ ck.todo = resident
    /\ fails + crashes < MaxFaults
    /\ fails' = fails + 1
    /\ Dirty(ck.slot, ck.since)
    /\ ck' = Idle
    /\ UNCHANGED <<now, resident, last, mark, live, revision, savedRevision, reg,
                   reader, disk, saved, crashes>>

-----------------------------------------------------------------------------
(***************************************************************************)
(* checkpoint_shard: encode and flush.                                     *)
(***************************************************************************)

\* checkpoint_finished.
Finished(upto) ==
    [reg EXCEPT !.saved = upto,
                !.removed = {m \in @ : m > upto},
                !.overflow = IF @ <= upto THEN 0 ELSE @]

\* A shard that never held a page has no directory to write into.
CkNoDirectory ==
    /\ ck.pc = "encode"
    /\ ~reg.dir
    /\ reg' = Finished(ck.upto)
    /\ ck' = Idle
    /\ UNCHANGED <<now, resident, last, mark, live, blockDirty, shardDirty,
                   revision, savedRevision, reader, disk, ghost>>

\* Mutant: tombstones follow the live block.
LateTombstones ==
    (IF ck.slot # 0 THEN <<[replace |-> ck.replace, ages |-> ck.ages]>> ELSE <<>>)
    \o (IF ck.gone THEN <<[replace |-> TRUE, ages |-> NoAges]>> ELSE <<>>)

\* Tombstones precede the live block, so a block deleted and created again in
\* one flush keeps its new ages.
DeltaFrames ==
    (IF ck.gone THEN <<[replace |-> TRUE, ages |-> NoAges]>> ELSE <<>>)
    \o (IF ck.slot # 0 THEN <<[replace |-> ck.replace, ages |-> ck.ages]>> ELSE <<>>)

CkEncode ==
    /\ ck.pc = "encode"
    /\ reg.dir
    /\ ck' = [ck EXCEPT !.pc = CASE ck.full -> "base"
                                 [] ~ck.full /\ DeltaFrames = <<>> -> "written"
                                 [] OTHER -> "append"]
    /\ UNCHANGED <<memory, disk, ghost>>

\* flush of a full checkpoint: publish_named renames a synced file into place
\* and syncs the directory, for the base first and then for an empty log.
NextGen == ck.journal.gen + 1

CkBase ==
    /\ ck.pc = "base"
    /\ base' = [gen |-> NextGen, ages |-> ck.ages]
    /\ bases' = bases \cup {base'}
    /\ ck' = [ck EXCEPT !.pc = "baseSync"]
    /\ UNCHANGED <<memory, log, logs, ghost>>

\* Mutant: the base's rename is not synced before the log is replaced.
CkBaseUnsynced ==
    /\ ck.pc = "baseSync"
    /\ ck' = [ck EXCEPT !.pc = "log"]
    /\ UNCHANGED <<memory, disk, ghost>>

CkBaseSync ==
    /\ ck.pc = "baseSync"
    /\ bases' = {base}
    /\ ck' = [ck EXCEPT !.pc = "log"]
    /\ UNCHANGED <<memory, base, log, logs, ghost>>

CkLog ==
    /\ ck.pc = "log"
    /\ log' = [gen |-> NextGen, frames |-> <<>>]
    /\ logs' = logs \cup {log'}
    /\ ck' = [ck EXCEPT !.pc = "logSync"]
    /\ UNCHANGED <<memory, base, bases, ghost>>

CkLogSync ==
    /\ ck.pc = "logSync"
    /\ logs' = {log}
    /\ ck' = [ck EXCEPT !.pc = "written",
                        !.journal = [gen |-> NextGen, full |-> FALSE, size |-> 0]]
    /\ UNCHANGED <<memory, base, bases, log, ghost>>

\* flush of a delta: write at log_bytes, then sync.
CkAppend ==
    LET kept == SubSeq(log.frames, 1, ck.journal.size)
        upTo(k) == [log EXCEPT !.frames = kept \o SubSeq(DeltaFrames, 1, k)]
    IN  /\ ck.pc = "append"
        /\ log' = upTo(Len(DeltaFrames))
        /\ logs' = logs \cup {upTo(k) : k \in 0 .. Len(DeltaFrames)}
        /\ ck' = [ck EXCEPT !.pc = "appendSync"]
        /\ UNCHANGED <<memory, base, bases, ghost>>

CkAppendSync ==
    /\ ck.pc = "appendSync"
    /\ logs' = {log}
    /\ ck' = [ck EXCEPT !.pc = "written", !.journal.size = @ + Len(DeltaFrames)]
    /\ UNCHANGED <<memory, base, bases, log, ghost>>

-----------------------------------------------------------------------------
(***************************************************************************)
(* checkpoint_shard: commit, or put everything back.                       *)
(***************************************************************************)

\* Deletions are journaled again before the sampled block is released.
CkSetJournal ==
    /\ ck.pc = "written"
    /\ reg' = [reg EXCEPT !.journal = ck.journal]
    /\ ck' = [ck EXCEPT !.pc = "revise"]
    /\ UNCHANGED <<now, resident, last, mark, live, blockDirty, shardDirty,
                   revision, savedRevision, reader, disk, ghost>>

\* The guards are committed and the block is released.
CkRevise ==
    /\ ck.pc = "revise"
    /\ savedRevision' = IF ck.slot # 0 THEN ck.revision ELSE savedRevision
    /\ saved' = [p \in Pages |-> IF ck.ages[p] # 0 /\ p \notin ck.orphans
                                 THEN ck.ages[p] ELSE saved[p]]
    /\ ck' = [ck EXCEPT !.pc = "finish", !.held = FALSE]
    /\ UNCHANGED <<now, resident, last, mark, live, blockDirty, shardDirty,
                   revision, reg, reader, disk, fails, crashes>>

CkFinish ==
    /\ ck.pc = "finish"
    /\ reg' = Finished(ck.upto)
    /\ ck' = Idle
    /\ UNCHANGED <<now, resident, last, mark, live, blockDirty, shardDirty,
                   revision, savedRevision, reader, disk, ghost>>

\* Mutant: the guards are committed although the flush failed.
CkFailCommitted ==
    /\ ck.pc \in {"encode", "base", "baseSync", "log", "logSync", "append",
                  "appendSync"}
    /\ fails + crashes < MaxFaults
    /\ fails' = fails + 1
    /\ ck' = Idle
    /\ UNCHANGED <<memory, disk, saved, crashes>>

\* Encoding or any I/O fails: the block is released, then the guards drop.
CkFail ==
    /\ ck.pc \in {"encode", "base", "baseSync", "log", "logSync", "append",
                  "appendSync"}
    /\ fails + crashes < MaxFaults
    /\ fails' = fails + 1
    /\ ck' = [ck EXCEPT !.pc = "drop", !.held = FALSE]
    /\ UNCHANGED <<memory, disk, saved, crashes>>

\* PageCheckpoint::drop; a handle that left the table keeps its mark to itself.
CkDropPage ==
    /\ ck.pc = "drop"
    /\ \E p \in Pages :
        /\ ck.marks[p] # Unknown
        /\ mark' = IF p \in ck.orphans THEN mark
                   ELSE [mark EXCEPT ![p] = Earlier(@, ck.marks[p])]
        /\ Dirty(ck.slot, ck.marks[p])
        /\ ck' = [ck EXCEPT !.marks[p] = Unknown]
    /\ UNCHANGED <<now, resident, last, live, revision, savedRevision, reg, reader,
                   disk, ghost>>

\* BlockCheckpoint::drop.
CkDropSummary ==
    /\ ck.pc = "drop"
    /\ ck.marks = Clean
    /\ Dirty(ck.slot, ck.since)
    /\ ck' = Idle
    /\ UNCHANGED <<now, resident, last, mark, live, revision, savedRevision, reg,
                   reader, disk, ghost>>

(***************************************************************************)
(* The process stops and starts again: the page store finds some of its    *)
(* pages, restore_page_states creates their block, load() gives their ages *)
(* and a shard with a base is due for a full checkpoint.                   *)
(***************************************************************************)
Restart ==
    /\ fails + crashes < MaxFaults
    /\ crashes' = crashes + 1
    /\ \E b \in bases, l \in logs, found \in SUBSET resident :
        LET slot == IF found = {} THEN 0 ELSE 1
            ages == Recovered(b, l)
        IN  /\ base' = b /\ bases' = {b}
            /\ log' = l /\ logs' = {l}
            /\ resident' = found
            /\ last' = [p \in Pages |-> IF p \in found /\ ages[p] # 0
                                        THEN ages[p] ELSE Unknown]
            /\ live' = slot
            /\ reg' = [next |-> slot, saved |-> 0, removed |-> {}, overflow |-> 0,
                       membership |-> slot + (IF b.gen = 0 THEN 0 ELSE 1),
                       journal |-> [NewJournal EXCEPT !.gen = b.gen],
                       dir |-> reg.dir]
            /\ saved' = [p \in Pages |-> IF p \in found THEN saved[p] ELSE 0]
    /\ mark' = Clean
    /\ blockDirty' = Unknown
    /\ shardDirty' = [s \in 1 .. MaxSlots |-> Unknown]
    /\ revision' = 0
    /\ savedRevision' = 0
    /\ reader' = [r \in Readers |-> Resting]
    /\ ck' = Idle
    /\ UNCHANGED <<now, fails>>

Touch(r) == Stamp(r) \/ Mark(r) \/ Notify(r) \/ Queue(r)

Checkpoint ==
    \/ CkStart \/ CkJournal \/ CkPick \/ CkSummary \/ CkConsume \/ CkSample
    \/ CkSampled \/ CkNoDirectory \/ CkEncode \/ CkBase \/ CkBaseSync \/ CkLog
    \/ CkLogSync \/ CkAppend \/ CkAppendSync \/ CkSetJournal \/ CkRevise
    \/ CkFinish \/ CkDropPage \/ CkDropSummary

Next ==
    \/ Tick
    \/ \E r \in Readers : ReadDone(r) \/ Touch(r)
    \/ \E p \in Pages : Register(p) \/ Delete(p)
    \/ Create \/ Retire
    \/ Checkpoint
    \/ CkTooLarge \/ CkFail
    \/ Restart

Spec == Init /\ [][Next]_vars

\* A read that began finishes its touch, and the maintenance loop comes back
\* to every shard; nothing makes a client read or a disk fail.
FairSpec ==
    /\ Spec
    /\ \A r \in Readers : WF_vars(Touch(r))
    /\ WF_vars(Checkpoint)

-----------------------------------------------------------------------------
CkPlaces == {"idle", "journal", "pick", "summary", "consume", "sample", "encode",
             "base", "baseSync", "log", "logSync", "append", "appendSync",
             "written", "revise", "finish", "drop"}

File == [gen : Nat, ages : Ages]
Log == [gen : Nat, frames : Seq([replace : BOOLEAN, ages : Ages])]

\* Type correctness; a slot is queued only while its block is registered, and a
\* reader is inside touch only for a page that is still in the table.
TypeOK ==
    /\ now \in Times
    /\ resident \subseteq Pages
    /\ last \in [Pages -> Stamps] /\ mark \in [Pages -> Stamps]
    /\ live \in 0 .. MaxSlots
    /\ blockDirty \in Stamps
    /\ shardDirty \in [1 .. MaxSlots -> Stamps]
    /\ \A s \in 1 .. MaxSlots : shardDirty[s] # Unknown => s = live
    /\ {revision, savedRevision, ck.revision} \subseteq 0 .. MaxRevision
    /\ \A r \in Readers :
        /\ reader[r].pc \in {"idle", "timed", "stamped", "notify", "queue"}
        /\ reader[r].pc # "idle" => reader[r].page \in resident
    /\ ck.pc \in CkPlaces
    /\ ck.ages \in Ages /\ ck.marks \in [Pages -> Stamps]
    /\ ck.held => ck.slot = live
    /\ base \in bases /\ log \in logs
    /\ bases \subseteq File /\ logs \subseteq Log

(***************************************************************************)
(* No touch is lost.  When no reader is inside touch, the checkpoint task  *)
(* is idle and checkpoint_start finds nothing to do, the files hold, on    *)
(* every disk a stop may leave, exactly the ages of the pages in the table:*)
(* none missed by a coalesced notification, none left of a deleted page or *)
(* of an earlier life of the block.                                        *)
(***************************************************************************)
Settled ==
    /\ ck.pc = "idle"
    /\ ~Due
    /\ \A r \in Readers : reader[r].pc = "idle"

NoTouchLost ==
    Settled => \A b \in bases, l \in logs : \A p \in Pages :
        Recovered(b, l)[p] = IF p \in resident /\ last[p] # Unknown
                             THEN last[p] ELSE 0

(***************************************************************************)
(* A stop never takes a resident page back behind the age of the last      *)
(* checkpoint that succeeded, whatever it interrupts: base and log are two *)
(* files, replaced one after the other, and the log of one base must not   *)
(* be replayed onto another.                                               *)
(***************************************************************************)
SavedAgesSurvive ==
    \A b \in bases, l \in logs : \A p \in resident :
        saved[p] <= Recovered(b, l)[p]

(***************************************************************************)
(* Every age reaches the disk, also after a checkpoint that failed: its    *)
(* rollback leaves the pages marked and the block queued, and the pass     *)
(* that finds them again saves them.  A page may leave the table first,    *)
(* and a stop of the process takes back an age that was not yet saved.     *)
(***************************************************************************)
TouchEventuallySaved ==
    \A p \in Pages : \A t \in Times :
        (p \in resident /\ last[p] = t)
            ~> \/ p \notin resident
               \/ Recovered(base, log)[p] >= t
               \/ last[p] \notin t .. MaxTime
=============================================================================
