----------------------- MODULE AccessCheckpointProofs -----------------------
(***************************************************************************)
(* No touch is lost and no stop takes a saved age back: the rest of the    *)
(* invariant that AccessCheckpointSteps states (why there is work to do,   *)
(* saved ages, the ages themselves) survives every action, and what        *)
(* follows from the whole of it.                                           *)
(***************************************************************************)
EXTENDS AccessCheckpointSteps

-----------------------------------------------------------------------------
(* Queued: every change is on the queue or held                            *)

\* BlockWork::dirty leaves the block queued when it was or had to be.
LEMMA DirtiedSlot ==
  ASSUME Typed, Stages, BlockQueued, NEW s \in 0 .. MaxSlots, NEW t \in Stamps, Dirty(s, t),
         s = live /\ t # Unknown => live # 0, live' = live, reader' = reader
  PROVE  /\ Pending => Pending'
         /\ BlockQueued'
         /\ s = live /\ t # Unknown => Pending'
  <1>1. /\ live # 0 /\ shardDirty[live] # Unknown => shardDirty'[live] # Unknown
        /\ (blockDirty' = blockDirty /\ shardDirty' = shardDirty)
            \/ (live # 0 /\ shardDirty'[live] # Unknown)
        /\ s = live /\ t # Unknown => (blockDirty # Unknown \/ shardDirty'[live] # Unknown)
    BY DirtyEffect
  <1>2. Pending => Pending' BY <1>1 DEF Pending
  <1>3. BlockQueued' BY <1>1 DEF BlockQueued, Queuing
  <1>4. s = live /\ t # Unknown => Pending'
    <2>1. blockDirty # Unknown => Pending BY DEF BlockQueued, Queuing, Pending
    <2> QED BY <1>1, <1>2, <2>1 DEF Pending
  <1> QED BY <1>2, <1>3, <1>4

\* A reader that is not notifying takes nothing off the queue.
LEMMA ReaderElsewhere ==
  ASSUME NEW r \in Readers, Others(r), reader[r].pc \notin {"notify", "queue"},
         live' = live, shardDirty' = shardDirty
  PROVE  (Pending => Pending') /\ (Queuing => Queuing')
  BY DEF Others, Pending, Queuing

\* A table without pages has no mark.
LEMMA NoMarks ==
  ASSUME Typed, Handles, resident = {}
  PROVE  \A p \in Pages : mark[p] = Unknown
  BY DEF Handles, MarkOwned

\* A block that was taken stays live until it is written.
LEMMA HeldSlot ==
  ASSUME Stages, ck.pc \in Holding, ck.slot # 0
  PROVE  ck.held /\ ck.slot = live /\ live # 0
  BY DEF Stages, TaskStages

\* A step that touches no mark, queue or revision keeps Queued.
LEMMA QueuedFrame ==
  ASSUME Queued,
         /\ blockDirty' = blockDirty /\ live' = live /\ shardDirty' = shardDirty
         /\ reader' = reader /\ ck'.pc = ck.pc /\ ck'.slot = ck.slot /\ ck'.since = ck.since
         /\ mark' = mark /\ ck'.todo = ck.todo /\ revision' = revision
         /\ savedRevision' = savedRevision /\ ck'.revision = ck.revision
         /\ reg'.dir = reg.dir
  PROVE  Queued'
  <1>1. BlockQueued' BY DEF Queued, BlockQueued, Queuing
  <1>2. MarksQueued' BY DEF Queued, MarksQueued, Pending, Held
  <1>3. ChangesQueued' BY DEF Queued, ChangesQueued, Pending, Held, Holding, Sampled, Writing
  <1>4. NewerQueued' BY DEF Queued, NewerQueued, Pending, Stages, TaskStages, Holding, Sampled, Writing
  <1>5. Unchanged' BY DEF Queued, Unchanged
  <1> QED BY <1>1, <1>2, <1>3, <1>4, <1>5 DEF Queued


\* A task that sampled and moves on keeps Queued.
LEMMA QueuedMove ==
  ASSUME Typed, Typed', Stages, Files, Handles, Lives, Queued,
         /\ ck.pc \in Sampled /\ ck'.pc \in Sampled /\ blockDirty' = blockDirty
         /\ live' = live /\ shardDirty' = shardDirty /\ reader' = reader
         /\ ck'.slot = ck.slot /\ ck'.since = ck.since /\ mark' = mark /\ ck'.todo = ck.todo
         /\ revision' = revision /\ savedRevision' = savedRevision
         /\ ck'.revision = ck.revision /\ reg'.dir = reg.dir
  PROVE  Queued'
  <1>1. BlockQueued' BY DEF Queued, BlockQueued, Queuing, Holding, Sampled, Writing
  <1>2. MarksQueued' BY DEF Queued, MarksQueued, Pending, Held, Holding, Sampled, Writing
  <1>3. ChangesQueued' BY DEF Queued, ChangesQueued, Pending, Held, Holding, Sampled, Writing
  <1>4. NewerQueued' BY DEF Queued, NewerQueued, Pending, Stages, TaskStages, Holding, Sampled, Writing
  <1>5. Unchanged' BY DEF Queued, Unchanged, Holding, Sampled, Writing
  <1> QED BY <1>1, <1>2, <1>3, <1>4, <1>5 DEF Queued


\* CkStart keeps Queued.
LEMMA Queued_CkStart ==
  ASSUME Typed, Typed', Stages, Files, Handles, Lives, Queued, CkStart
  PROVE  Queued'
  <1>1. BlockQueued'
    <2>1. blockDirty' = blockDirty /\ live' = live /\ shardDirty' = shardDirty /\ reader' = reader
        BY CkStartEffect
    <2> QED BY <2>1 DEF Queued, BlockQueued, Queuing
  <1>2. MarksQueued'
    <2>1. /\ ck.pc = "idle" /\ Due /\ ck'.pc = "journal" /\ ck'.slot = 0
          /\ ck'.since = Unknown /\ ck'.todo = {} /\ mark' = mark /\ live' = live
          /\ shardDirty' = shardDirty /\ reader' = reader
      BY CkStartEffect
    <2> QED BY <2>1, TaskFields DEF Queued, MarksQueued, Pending, Held
  <1>3. ChangesQueued'
    <2>1. /\ ck.pc = "idle" /\ Due /\ ck'.pc = "journal" /\ ck'.slot = 0
          /\ ck'.since = Unknown /\ live' = live /\ shardDirty' = shardDirty
          /\ revision' = revision /\ savedRevision' = savedRevision /\ reader' = reader
      BY CkStartEffect
    <2> QED BY <2>1, TaskFields DEF Queued, ChangesQueued, Pending, Held, Holding, Sampled, Writing
  <1>4. NewerQueued'
    <2>1. /\ ck.pc = "idle" /\ Due /\ ck'.pc = "journal" /\ ck'.slot = 0 /\ ck'.revision = 0
          /\ live' = live /\ shardDirty' = shardDirty /\ revision' = revision
          /\ reader' = reader
      BY CkStartEffect
    <2> QED BY <2>1, TaskFields
        DEF Queued, NewerQueued, Pending, Stages, TaskStages, Holding, Sampled, Writing
  <1>5. Unchanged'
    <2>1. revision' = revision /\ reg' = reg BY CkStartEffect
    <2> QED BY <2>1 DEF Queued, Unchanged
  <1> QED BY <1>1, <1>2, <1>3, <1>4, <1>5 DEF Queued

\* CkJournal keeps Queued.
LEMMA Queued_CkJournal ==
  ASSUME Typed, Typed', Stages, Files, Handles, Lives, Queued, CkJournal
  PROVE  Queued'
  <1>1. BlockQueued'
    <2>1. blockDirty' = blockDirty /\ live' = live /\ shardDirty' = shardDirty /\ reader' = reader
        BY CkJournalEffect
    <2> QED BY <2>1 DEF Queued, BlockQueued, Queuing
  <1>2. MarksQueued'
    <2>1. /\ ck.pc = "journal" /\ ck'.pc = "pick" /\ ck'.slot = ck.slot
          /\ ck'.since = ck.since /\ ck'.todo = ck.todo /\ mark' = mark /\ live' = live
          /\ shardDirty' = shardDirty /\ reader' = reader
      BY CkJournalEffect
    <2> QED BY <2>1, TaskFields DEF Queued, MarksQueued, Pending, Held
  <1>3. ChangesQueued'
    <2>1. /\ ck.pc = "journal" /\ ck'.pc = "pick" /\ ck'.slot = ck.slot
          /\ ck'.since = ck.since /\ live' = live /\ shardDirty' = shardDirty
          /\ revision' = revision /\ savedRevision' = savedRevision /\ reader' = reader
      BY CkJournalEffect
    <2> QED BY <2>1, TaskFields DEF Queued, ChangesQueued, Pending, Held, Holding, Sampled, Writing
  <1>4. NewerQueued'
    <2>1. /\ ck.pc = "journal" /\ ck'.pc = "pick" /\ ck'.slot = ck.slot
          /\ ck'.revision = ck.revision /\ live' = live /\ shardDirty' = shardDirty
          /\ revision' = revision /\ reader' = reader
      BY CkJournalEffect
    <2> QED BY <2>1, TaskFields
        DEF Queued, NewerQueued, Pending, Stages, TaskStages, Holding, Sampled, Writing
  <1>5. Unchanged'
    <2>1. reg'.dir = reg.dir /\ revision' = revision BY CkJournalEffect
    <2> QED BY <2>1 DEF Queued, Unchanged
  <1> QED BY <1>1, <1>2, <1>3, <1>4, <1>5 DEF Queued

\* CkPick keeps Queued.
LEMMA Queued_CkPick ==
  ASSUME Typed, Typed', Stages, Files, Handles, Lives, Queued, CkPick
  PROVE  Queued'
  <1>1. BlockQueued'
    <2>1. blockDirty' = blockDirty /\ live' = live /\ shardDirty' = shardDirty /\ reader' = reader
        BY CkPickEffect
    <2> QED BY <2>1 DEF Queued, BlockQueued, Queuing
  <1>2. MarksQueued'
    <2>1. /\ ck.pc = "pick"
          /\ ((Eligible /\ ck'.pc = "summary" /\ ck'.slot = live /\ ck'.held = TRUE)
              \/ (~Eligible /\ ck'.pc = "encode" /\ ck'.slot = ck.slot /\ ck'.held = ck.held))
          /\ ck'.since = ck.since /\ ck'.todo = ck.todo /\ mark' = mark /\ live' = live
          /\ shardDirty' = shardDirty /\ reader' = reader
      BY CkPickEffect
    <2> QED BY <2>1, TaskFields DEF Queued, MarksQueued, Pending, Held
  <1>3. ChangesQueued'
    <2>1. /\ ck.pc = "pick"
          /\ ((Eligible /\ ck'.pc = "summary" /\ ck'.slot = live /\ ck'.held = TRUE)
              \/ (~Eligible /\ ck'.pc = "encode" /\ ck'.slot = ck.slot /\ ck'.held = ck.held))
          /\ ck'.since = ck.since /\ live' = live /\ shardDirty' = shardDirty
          /\ revision' = revision /\ savedRevision' = savedRevision /\ reader' = reader
      BY CkPickEffect
    <2> QED BY <2>1, TaskFields DEF Queued, ChangesQueued, Pending, Held, Holding, Sampled, Writing
  <1>4. NewerQueued'
    <2>1. /\ ck.pc = "pick"
          /\ ((Eligible /\ ck'.pc = "summary" /\ ck'.slot = live /\ ck'.held = TRUE)
              \/ (~Eligible /\ ck'.pc = "encode" /\ ck'.slot = ck.slot /\ ck'.held = ck.held))
          /\ ck'.revision = ck.revision /\ live' = live /\ shardDirty' = shardDirty
          /\ revision' = revision /\ reader' = reader
      BY CkPickEffect
    <2> QED BY <2>1, TaskFields
        DEF Queued, NewerQueued, Pending, Stages, TaskStages, Holding, Sampled, Writing
  <1>5. Unchanged'
    <2>1. revision' = revision /\ reg' = reg BY CkPickEffect
    <2> QED BY <2>1 DEF Queued, Unchanged
  <1> QED BY <1>1, <1>2, <1>3, <1>4, <1>5 DEF Queued

\* CkSummary keeps Queued.
LEMMA Queued_CkSummary ==
  ASSUME Typed, Typed', Stages, Files, Handles, Lives, Queued, CkSummary
  PROVE  Queued'
  <1>1. /\ ck.pc = "summary" /\ shardDirty' = [shardDirty EXCEPT ![live] = Unknown]
        /\ blockDirty' = Unknown /\ ck'.pc = "consume" /\ ck'.slot = ck.slot
        /\ ck'.since = shardDirty[live] /\ ck'.revision = revision /\ ck'.todo = resident
        /\ mark' = mark /\ live' = live /\ revision' = revision
        /\ savedRevision' = savedRevision /\ reg' = reg /\ reader' = reader
    BY CkSummaryEffect
  <1>2. ck.slot = live /\ live # 0 BY <1>1 DEF Stages, TaskStages
  <1>3. Pending => Pending' \/ Held' BY <1>1, <1>2 DEF Pending, Held
  <1>4. BlockQueued' BY <1>1 DEF BlockQueued
  <1>5. MarksQueued'
    <2>1. \A p \in Pages : mark[p] # Unknown => p \in resident BY DEF Handles, MarkOwned
    <2> QED BY <1>1, <1>3, <2>1 DEF Queued, MarksQueued
  <1>6. ChangesQueued'
    <2>1. revision # savedRevision => Pending BY <1>1
        DEF Queued, ChangesQueued, Holding, Sampled, Writing
    <2> QED BY <1>1, <1>3, <2>1 DEF ChangesQueued, Holding
  <1>7. NewerQueued' BY <1>1 DEF NewerQueued
  <1>8. Unchanged' BY <1>1 DEF Queued, Unchanged
  <1> QED BY <1>4, <1>5, <1>6, <1>7, <1>8 DEF Queued

\* CkSample keeps Queued.
LEMMA Queued_CkSample ==
  ASSUME Typed, Typed', Stages, Files, Handles, Lives, Queued, CkSample
  PROVE  Queued'
  <1>1. BlockQueued'
    <2>1. blockDirty' = blockDirty /\ live' = live /\ shardDirty' = shardDirty /\ reader' = reader
        BY CkSampleEffect
    <2> QED BY <2>1 DEF Queued, BlockQueued, Queuing
  <1>2. MarksQueued'
    <2>1. /\ ck.pc = "sample" /\ ck'.pc = "consume" /\ ck'.slot = ck.slot
          /\ ck'.since = ck.since /\ ck'.todo = ck.todo /\ mark' = mark /\ live' = live
          /\ shardDirty' = shardDirty /\ reader' = reader
      BY CkSampleEffect
    <2> QED BY <2>1, TaskFields DEF Queued, MarksQueued, Pending, Held
  <1>3. ChangesQueued'
    <2>1. /\ ck.pc = "sample" /\ ck'.pc = "consume" /\ ck'.slot = ck.slot
          /\ ck'.since = ck.since /\ live' = live /\ shardDirty' = shardDirty
          /\ revision' = revision /\ savedRevision' = savedRevision /\ reader' = reader
      BY CkSampleEffect
    <2> QED BY <2>1, TaskFields DEF Queued, ChangesQueued, Pending, Held, Holding, Sampled, Writing
  <1>4. NewerQueued'
    <2>1. /\ ck.pc = "sample" /\ ck'.pc = "consume" /\ ck'.slot = ck.slot
          /\ ck'.revision = ck.revision /\ live' = live /\ shardDirty' = shardDirty
          /\ revision' = revision /\ reader' = reader
      BY CkSampleEffect
    <2> QED BY <2>1, TaskFields
        DEF Queued, NewerQueued, Pending, Stages, TaskStages, Holding, Sampled, Writing
  <1>5. Unchanged'
    <2>1. revision' = revision /\ reg' = reg BY CkSampleEffect
    <2> QED BY <2>1 DEF Queued, Unchanged
  <1> QED BY <1>1, <1>2, <1>3, <1>4, <1>5 DEF Queued

\* CkSampled keeps Queued.
LEMMA Queued_CkSampled ==
  ASSUME Typed, Typed', Stages, Files, Handles, Lives, Queued, CkSampled
  PROVE  Queued'
  <1>1. BlockQueued'
    <2>1. blockDirty' = blockDirty /\ live' = live /\ shardDirty' = shardDirty /\ reader' = reader
        BY CkSampledEffect
    <2> QED BY <2>1 DEF Queued, BlockQueued, Queuing
  <1>2. MarksQueued'
    <2>1. /\ ck.pc = "consume" /\ ck.todo = {} /\ ck'.pc = "encode" /\ ck'.slot = ck.slot
          /\ ck'.since = ck.since /\ ck'.todo = ck.todo /\ mark' = mark /\ live' = live
          /\ shardDirty' = shardDirty /\ reader' = reader
      BY CkSampledEffect
    <2> QED BY <2>1, TaskFields DEF Queued, MarksQueued, Pending, Held
  <1>3. ChangesQueued'
    <2>1. /\ ck.pc = "consume" /\ ck.todo = {} /\ ck'.pc = "encode" /\ ck'.slot = ck.slot
          /\ ck'.since = ck.since /\ live' = live /\ shardDirty' = shardDirty
          /\ revision' = revision /\ savedRevision' = savedRevision /\ reader' = reader
      BY CkSampledEffect
    <2> QED BY <2>1, TaskFields DEF Queued, ChangesQueued, Pending, Held, Holding, Sampled, Writing
  <1>4. NewerQueued'
    <2>1. /\ ck.pc = "consume" /\ ck.todo = {} /\ ck'.pc = "encode" /\ ck'.slot = ck.slot
          /\ ck'.revision = ck.revision /\ live' = live /\ shardDirty' = shardDirty
          /\ revision' = revision /\ reader' = reader
      BY CkSampledEffect
    <2> QED BY <2>1, TaskFields
        DEF Queued, NewerQueued, Pending, Stages, TaskStages, Holding, Sampled, Writing
  <1>5. Unchanged'
    <2>1. revision' = revision /\ reg' = reg BY CkSampledEffect
    <2> QED BY <2>1 DEF Queued, Unchanged
  <1> QED BY <1>1, <1>2, <1>3, <1>4, <1>5 DEF Queued

\* CkTooLarge keeps Queued.
LEMMA Queued_CkTooLarge ==
  ASSUME Typed, Typed', Stages, Files, Handles, Lives, Queued, CkTooLarge
  PROVE  Queued'
  <1>1. /\ Dirty(ck.slot, ck.since) /\ ck.pc \in {"consume", "drop"} /\ ck'.pc = "idle"
        /\ live' = live /\ reader' = reader /\ mark' = mark /\ revision' = revision
        /\ savedRevision' = savedRevision /\ reg' = reg
    BY CkTooLargeEffect
  <1>2. /\ ck.slot \in 0 .. MaxSlots /\ ck.since \in Stamps
        /\ ck.slot = live /\ ck.since # Unknown => live # 0
    BY TaskFields DEF Stages, TaskStages
  <1>3. (Pending => Pending') /\ BlockQueued' /\ (Held => Pending')
    BY <1>1, <1>2, DirtiedSlot DEF Queued, Held
  <1>4. MarksQueued' BY <1>1, <1>3 DEF Queued, MarksQueued
  <1>5. ChangesQueued' BY <1>1, <1>3 DEF Queued, ChangesQueued
  <1>6. NewerQueued' BY <1>1 DEF NewerQueued, Holding, Sampled, Writing
  <1>7. Unchanged' BY <1>1 DEF Queued, Unchanged
  <1> QED BY <1>3, <1>4, <1>5, <1>6, <1>7 DEF Queued

\* CkNoDirectory keeps Queued.
LEMMA Queued_CkNoDirectory ==
  ASSUME Typed, Typed', Stages, Files, Handles, Lives, Queued, CkNoDirectory
  PROVE  Queued'
  <1>1. BlockQueued'
    <2>1. blockDirty' = blockDirty /\ live' = live /\ shardDirty' = shardDirty /\ reader' = reader
        BY CkNoDirectoryEffect
    <2> QED BY <2>1 DEF Queued, BlockQueued, Queuing
  <1>2. MarksQueued'
    <2>1. ~reg.dir /\ mark' = mark BY CkNoDirectoryEffect
    <2>2. resident = {} BY <2>1 DEF Files, Retry
    <2> QED BY <2>1, <2>2, NoMarks DEF MarksQueued
  <1>3. ChangesQueued'
    <2>1. ~reg.dir /\ revision' = revision /\ savedRevision' = savedRevision BY CkNoDirectoryEffect
    <2>2. revision = 0 BY <2>1 DEF Queued, Unchanged
    <2>3. savedRevision = 0 BY <2>2, TaskFields, Bounds DEF Lives, Revisions
    <2> QED BY <2>1, <2>2, <2>3 DEF ChangesQueued
  <1>4. NewerQueued'
    <2>1. /\ ck.pc = "encode" /\ ~reg.dir /\ ck'.pc = "idle" /\ ck'.slot = 0
          /\ ck'.revision = 0 /\ live' = live /\ shardDirty' = shardDirty
          /\ revision' = revision /\ reader' = reader
      BY CkNoDirectoryEffect
    <2> QED BY <2>1, TaskFields
        DEF Queued, NewerQueued, Pending, Stages, TaskStages, Holding, Sampled, Writing
  <1>5. Unchanged'
    <2>1. reg'.dir = reg.dir /\ revision' = revision BY CkNoDirectoryEffect
    <2> QED BY <2>1 DEF Queued, Unchanged
  <1> QED BY <1>1, <1>2, <1>3, <1>4, <1>5 DEF Queued

\* CkEncode keeps Queued.
LEMMA Queued_CkEncode ==
  ASSUME Typed, Typed', Stages, Files, Handles, Lives, Queued, CkEncode
  PROVE  Queued'
  <1>1. /\ ck.pc \in Sampled /\ ck'.pc \in Sampled BY CkEncodeEffect DEF Sampled, Writing
  <1>2. /\ blockDirty' = blockDirty /\ live' = live /\ shardDirty' = shardDirty
        /\ reader' = reader /\ ck'.slot = ck.slot /\ ck'.since = ck.since /\ mark' = mark
        /\ ck'.todo = ck.todo /\ revision' = revision /\ savedRevision' = savedRevision
        /\ ck'.revision = ck.revision /\ reg' = reg
    BY CkEncodeEffect
  <1> QED BY <1>1, <1>2, QueuedMove

\* CkBase keeps Queued.
LEMMA Queued_CkBase ==
  ASSUME Typed, Typed', Stages, Files, Handles, Lives, Queued, CkBase
  PROVE  Queued'
  <1>1. /\ ck.pc \in Sampled /\ ck'.pc \in Sampled BY CkBaseEffect DEF Sampled, Writing
  <1>2. /\ blockDirty' = blockDirty /\ live' = live /\ shardDirty' = shardDirty
        /\ reader' = reader /\ ck'.slot = ck.slot /\ ck'.since = ck.since /\ mark' = mark
        /\ ck'.todo = ck.todo /\ revision' = revision /\ savedRevision' = savedRevision
        /\ ck'.revision = ck.revision /\ reg' = reg
    BY CkBaseEffect
  <1> QED BY <1>1, <1>2, QueuedMove

\* CkBaseSync keeps Queued.
LEMMA Queued_CkBaseSync ==
  ASSUME Typed, Typed', Stages, Files, Handles, Lives, Queued, CkBaseSync
  PROVE  Queued'
  <1>1. /\ ck.pc \in Sampled /\ ck'.pc \in Sampled BY CkBaseSyncEffect DEF Sampled, Writing
  <1>2. /\ blockDirty' = blockDirty /\ live' = live /\ shardDirty' = shardDirty
        /\ reader' = reader /\ ck'.slot = ck.slot /\ ck'.since = ck.since /\ mark' = mark
        /\ ck'.todo = ck.todo /\ revision' = revision /\ savedRevision' = savedRevision
        /\ ck'.revision = ck.revision /\ reg' = reg
    BY CkBaseSyncEffect
  <1> QED BY <1>1, <1>2, QueuedMove

\* CkLog keeps Queued.
LEMMA Queued_CkLog ==
  ASSUME Typed, Typed', Stages, Files, Handles, Lives, Queued, CkLog
  PROVE  Queued'
  <1>1. /\ ck.pc \in Sampled /\ ck'.pc \in Sampled BY CkLogEffect DEF Sampled, Writing
  <1>2. /\ blockDirty' = blockDirty /\ live' = live /\ shardDirty' = shardDirty
        /\ reader' = reader /\ ck'.slot = ck.slot /\ ck'.since = ck.since /\ mark' = mark
        /\ ck'.todo = ck.todo /\ revision' = revision /\ savedRevision' = savedRevision
        /\ ck'.revision = ck.revision /\ reg' = reg
    BY CkLogEffect
  <1> QED BY <1>1, <1>2, QueuedMove

\* CkLogSync keeps Queued.
LEMMA Queued_CkLogSync ==
  ASSUME Typed, Typed', Stages, Files, Handles, Lives, Queued, CkLogSync
  PROVE  Queued'
  <1>1. /\ ck.pc \in Sampled /\ ck'.pc \in Sampled BY CkLogSyncEffect DEF Sampled, Writing
  <1>2. /\ blockDirty' = blockDirty /\ live' = live /\ shardDirty' = shardDirty
        /\ reader' = reader /\ ck'.slot = ck.slot /\ ck'.since = ck.since /\ mark' = mark
        /\ ck'.todo = ck.todo /\ revision' = revision /\ savedRevision' = savedRevision
        /\ ck'.revision = ck.revision /\ reg' = reg
    BY CkLogSyncEffect
  <1> QED BY <1>1, <1>2, QueuedMove

\* CkAppend keeps Queued.
LEMMA Queued_CkAppend ==
  ASSUME Typed, Typed', Stages, Files, Handles, Lives, Queued, CkAppend
  PROVE  Queued'
  <1>1. /\ ck.pc \in Sampled /\ ck'.pc \in Sampled BY CkAppendEffect DEF Sampled, Writing
  <1>2. /\ blockDirty' = blockDirty /\ live' = live /\ shardDirty' = shardDirty
        /\ reader' = reader /\ ck'.slot = ck.slot /\ ck'.since = ck.since /\ mark' = mark
        /\ ck'.todo = ck.todo /\ revision' = revision /\ savedRevision' = savedRevision
        /\ ck'.revision = ck.revision /\ reg' = reg
    BY CkAppendEffect
  <1> QED BY <1>1, <1>2, QueuedMove

\* CkAppendSync keeps Queued.
LEMMA Queued_CkAppendSync ==
  ASSUME Typed, Typed', Stages, Files, Handles, Lives, Queued, CkAppendSync
  PROVE  Queued'
  <1>1. /\ ck.pc \in Sampled /\ ck'.pc \in Sampled BY CkAppendSyncEffect DEF Sampled, Writing
  <1>2. /\ blockDirty' = blockDirty /\ live' = live /\ shardDirty' = shardDirty
        /\ reader' = reader /\ ck'.slot = ck.slot /\ ck'.since = ck.since /\ mark' = mark
        /\ ck'.todo = ck.todo /\ revision' = revision /\ savedRevision' = savedRevision
        /\ ck'.revision = ck.revision /\ reg' = reg
    BY CkAppendSyncEffect
  <1> QED BY <1>1, <1>2, QueuedMove

\* CkSetJournal keeps Queued.
LEMMA Queued_CkSetJournal ==
  ASSUME Typed, Typed', Stages, Files, Handles, Lives, Queued, CkSetJournal
  PROVE  Queued'
  <1>1. /\ ck.pc \in Sampled /\ ck'.pc \in Sampled BY CkSetJournalEffect DEF Sampled, Writing
  <1>2. /\ blockDirty' = blockDirty /\ live' = live /\ shardDirty' = shardDirty
        /\ reader' = reader /\ ck'.slot = ck.slot /\ ck'.since = ck.since /\ mark' = mark
        /\ ck'.todo = ck.todo /\ revision' = revision /\ savedRevision' = savedRevision
        /\ ck'.revision = ck.revision /\ reg'.dir = reg.dir
    BY CkSetJournalEffect
  <1> QED BY <1>1, <1>2, QueuedMove

\* CkRevise keeps Queued.
LEMMA Queued_CkRevise ==
  ASSUME Typed, Typed', Stages, Files, Handles, Lives, Queued, CkRevise
  PROVE  Queued'
  <1>1. BlockQueued'
    <2>1. blockDirty' = blockDirty /\ live' = live /\ shardDirty' = shardDirty /\ reader' = reader
        BY CkReviseEffect
    <2> QED BY <2>1 DEF Queued, BlockQueued, Queuing
  <1>2. MarksQueued'
    <2>1. /\ ck.pc = "revise" /\ ck'.pc = "finish" /\ ck'.slot = ck.slot
          /\ ck'.since = ck.since /\ ck'.todo = ck.todo /\ mark' = mark /\ live' = live
          /\ shardDirty' = shardDirty /\ reader' = reader
      BY CkReviseEffect
    <2> QED BY <2>1, TaskFields DEF Queued, MarksQueued, Pending, Held
  <1>3. ChangesQueued'
    <2>1. /\ ck.pc = "revise" /\ reader' = reader /\ live' = live /\ shardDirty' = shardDirty
          /\ revision' = revision
          /\ savedRevision' = (IF ck.slot # 0 THEN ck.revision ELSE savedRevision)
      BY CkReviseEffect
    <2>2. Pending => Pending' BY <2>1 DEF Pending
    <2>3. CASE ck.slot # 0
      <3>1. revision # ck.revision => Pending
        BY <2>1, <2>3 DEF Queued, NewerQueued, Holding, Sampled
      <3> QED BY <2>1, <2>2, <2>3, <3>1 DEF ChangesQueued
    <2>4. CASE ck.slot = 0
      <3>1. revision # savedRevision => Pending BY <2>4 DEF Queued, ChangesQueued, Held
      <3> QED BY <2>1, <2>2, <2>4, <3>1 DEF ChangesQueued
    <2> QED BY <2>3, <2>4
  <1>4. NewerQueued'
    <2>1. /\ ck.pc = "revise" /\ ck'.pc = "finish" /\ ck'.slot = ck.slot
          /\ ck'.revision = ck.revision /\ live' = live /\ shardDirty' = shardDirty
          /\ revision' = revision /\ reader' = reader
      BY CkReviseEffect
    <2> QED BY <2>1, TaskFields
        DEF Queued, NewerQueued, Pending, Stages, TaskStages, Holding, Sampled, Writing
  <1>5. Unchanged'
    <2>1. revision' = revision /\ reg' = reg BY CkReviseEffect
    <2> QED BY <2>1 DEF Queued, Unchanged
  <1> QED BY <1>1, <1>2, <1>3, <1>4, <1>5 DEF Queued

\* CkFinish keeps Queued.
LEMMA Queued_CkFinish ==
  ASSUME Typed, Typed', Stages, Files, Handles, Lives, Queued, CkFinish
  PROVE  Queued'
  <1>1. BlockQueued'
    <2>1. blockDirty' = blockDirty /\ live' = live /\ shardDirty' = shardDirty /\ reader' = reader
        BY CkFinishEffect
    <2> QED BY <2>1 DEF Queued, BlockQueued, Queuing
  <1>2. MarksQueued'
    <2>1. /\ ck.pc = "finish" /\ ck'.pc = "idle" /\ ck'.slot = 0 /\ ck'.since = Unknown
          /\ ck'.todo = {} /\ mark' = mark /\ live' = live /\ shardDirty' = shardDirty
          /\ reader' = reader
      BY CkFinishEffect
    <2> QED BY <2>1, TaskFields DEF Queued, MarksQueued, Pending, Held
  <1>3. ChangesQueued'
    <2>1. /\ ck.pc = "finish" /\ ck'.pc = "idle" /\ ck'.slot = 0 /\ ck'.since = Unknown
          /\ live' = live /\ shardDirty' = shardDirty /\ revision' = revision
          /\ savedRevision' = savedRevision /\ reader' = reader
      BY CkFinishEffect
    <2> QED BY <2>1, TaskFields DEF Queued, ChangesQueued, Pending, Held, Holding, Sampled, Writing
  <1>4. NewerQueued'
    <2>1. /\ ck.pc = "finish" /\ ck'.pc = "idle" /\ ck'.slot = 0 /\ ck'.revision = 0
          /\ live' = live /\ shardDirty' = shardDirty /\ revision' = revision
          /\ reader' = reader
      BY CkFinishEffect
    <2> QED BY <2>1, TaskFields
        DEF Queued, NewerQueued, Pending, Stages, TaskStages, Holding, Sampled, Writing
  <1>5. Unchanged'
    <2>1. reg'.dir = reg.dir /\ revision' = revision BY CkFinishEffect
    <2> QED BY <2>1 DEF Queued, Unchanged
  <1> QED BY <1>1, <1>2, <1>3, <1>4, <1>5 DEF Queued

\* CkFail keeps Queued.
LEMMA Queued_CkFail ==
  ASSUME Typed, Typed', Stages, Files, Handles, Lives, Queued, CkFail
  PROVE  Queued'
  <1>1. BlockQueued'
    <2>1. blockDirty' = blockDirty /\ live' = live /\ shardDirty' = shardDirty /\ reader' = reader
        BY CkFailEffect
    <2> QED BY <2>1 DEF Queued, BlockQueued, Queuing
  <1>2. MarksQueued'
    <2>1. /\ ck.pc \in {"encode", "base", "baseSync", "log", "logSync", "append", "appendSync"}
          /\ ck'.pc = "drop" /\ ck'.slot = ck.slot /\ ck'.since = ck.since
          /\ ck'.todo = ck.todo /\ mark' = mark /\ live' = live /\ shardDirty' = shardDirty
          /\ reader' = reader
      BY CkFailEffect DEF Writing
    <2> QED BY <2>1, TaskFields DEF Queued, MarksQueued, Pending, Held
  <1>3. ChangesQueued'
    <2>1. /\ ck.pc \in {"encode", "base", "baseSync", "log", "logSync", "append", "appendSync"}
          /\ ck'.pc = "drop" /\ ck'.slot = ck.slot /\ ck'.since = ck.since /\ live' = live
          /\ shardDirty' = shardDirty /\ revision' = revision
          /\ savedRevision' = savedRevision /\ reader' = reader
      BY CkFailEffect DEF Writing
    <2> QED BY <2>1, TaskFields DEF Queued, ChangesQueued, Pending, Held, Holding, Sampled, Writing
  <1>4. NewerQueued'
    <2>1. /\ ck.pc \in {"encode", "base", "baseSync", "log", "logSync", "append", "appendSync"}
          /\ ck'.pc = "drop" /\ ck'.slot = ck.slot /\ ck'.revision = ck.revision
          /\ live' = live /\ shardDirty' = shardDirty /\ revision' = revision
          /\ reader' = reader
      BY CkFailEffect DEF Writing
    <2> QED BY <2>1, TaskFields
        DEF Queued, NewerQueued, Pending, Stages, TaskStages, Holding, Sampled, Writing
  <1>5. Unchanged'
    <2>1. revision' = revision /\ reg' = reg BY CkFailEffect
    <2> QED BY <2>1 DEF Queued, Unchanged
  <1> QED BY <1>1, <1>2, <1>3, <1>4, <1>5 DEF Queued

\* CkDropSummary keeps Queued.
LEMMA Queued_CkDropSummary ==
  ASSUME Typed, Typed', Stages, Files, Handles, Lives, Queued, CkDropSummary
  PROVE  Queued'
  <1>1. /\ Dirty(ck.slot, ck.since) /\ ck.pc \in {"consume", "drop"} /\ ck'.pc = "idle"
        /\ live' = live /\ reader' = reader /\ mark' = mark /\ revision' = revision
        /\ savedRevision' = savedRevision /\ reg' = reg
    BY CkDropSummaryEffect
  <1>2. /\ ck.slot \in 0 .. MaxSlots /\ ck.since \in Stamps
        /\ ck.slot = live /\ ck.since # Unknown => live # 0
    BY TaskFields DEF Stages, TaskStages
  <1>3. (Pending => Pending') /\ BlockQueued' /\ (Held => Pending')
    BY <1>1, <1>2, DirtiedSlot DEF Queued, Held
  <1>4. MarksQueued' BY <1>1, <1>3 DEF Queued, MarksQueued
  <1>5. ChangesQueued' BY <1>1, <1>3 DEF Queued, ChangesQueued
  <1>6. NewerQueued' BY <1>1 DEF NewerQueued, Holding, Sampled, Writing
  <1>7. Unchanged' BY <1>1 DEF Queued, Unchanged
  <1> QED BY <1>3, <1>4, <1>5, <1>6, <1>7 DEF Queued

\* CkConsume keeps Queued.
LEMMA Queued_CkConsume ==
  ASSUME Typed, Typed', Stages, Files, Handles, Lives, Queued, CkConsume
  PROVE  Queued'
  <1>0. PICK p \in ck.todo :
         /\ p \in Pages /\ ck.pc = "consume" /\ ck'.pc = "sample" /\ ck'.page = p
         /\ ck'.todo = ck.todo \ {p} /\ ck'.marks = [ck.marks EXCEPT ![p] = mark[p]]
         /\ mark' = [mark EXCEPT ![p] = Unknown]
         /\ ck'.ceiling = ck.ceiling /\ ck'.upto = ck.upto /\ ck'.journal = ck.journal
         /\ ck'.full = ck.full /\ ck'.gone = ck.gone /\ ck'.slot = ck.slot
         /\ ck'.held = ck.held /\ ck'.since = ck.since /\ ck'.replace = ck.replace
         /\ ck'.revision = ck.revision /\ ck'.ages = ck.ages /\ ck'.orphans = ck.orphans
         /\ reader' = reader
         /\ now' = now /\ resident' = resident /\ last' = last
         /\ live' = live /\ blockDirty' = blockDirty
         /\ shardDirty' = shardDirty /\ revision' = revision
         /\ savedRevision' = savedRevision /\ reg' = reg /\ base' = base
         /\ log' = log /\ bases' = bases /\ logs' = logs /\ saved' = saved
         /\ fails' = fails /\ crashes' = crashes
    BY CkConsumeEffect
  <1>1. BlockQueued'
    <2>1. blockDirty' = blockDirty /\ live' = live /\ shardDirty' = shardDirty /\ reader' = reader
        BY <1>0
    <2> QED BY <2>1 DEF Queued, BlockQueued, Queuing
  <1>2. MarksQueued'
    <2>1. /\ ck.pc = "consume" /\ ck'.pc = "sample" /\ ck'.todo = ck.todo \ {p}
          /\ mark' = [mark EXCEPT ![p] = Unknown] /\ ck'.slot = ck.slot /\ ck'.since = ck.since
          /\ live' = live /\ shardDirty' = shardDirty /\ reader' = reader
      BY <1>0
    <2>2. \A q \in Pages : mark'[q] # Unknown => q # p /\ mark[q] # Unknown BY <2>1, TaskFields
    <2> QED BY <2>1, <2>2 DEF Queued, MarksQueued, Pending, Held
  <1>3. ChangesQueued'
    <2>1. /\ p \in Pages /\ ck.pc = "consume" /\ ck'.pc = "sample" /\ ck'.slot = ck.slot
          /\ ck'.since = ck.since /\ reader' = reader /\ live' = live
          /\ shardDirty' = shardDirty /\ revision' = revision
          /\ savedRevision' = savedRevision
      BY <1>0
    <2> QED BY <2>1, TaskFields DEF Queued, ChangesQueued, Pending, Held, Holding, Sampled, Writing
  <1>4. NewerQueued'
    <2>1. /\ p \in Pages /\ ck.pc = "consume" /\ ck'.pc = "sample" /\ ck'.slot = ck.slot
          /\ ck'.revision = ck.revision /\ reader' = reader /\ live' = live
          /\ shardDirty' = shardDirty /\ revision' = revision
      BY <1>0
    <2> QED BY <2>1, TaskFields
        DEF Queued, NewerQueued, Pending, Stages, TaskStages, Holding, Sampled, Writing
  <1>5. Unchanged'
    <2>1. revision' = revision /\ reg' = reg BY <1>0
    <2> QED BY <2>1 DEF Queued, Unchanged
  <1> QED BY <1>1, <1>2, <1>3, <1>4, <1>5 DEF Queued

\* CkDropPage keeps Queued.
LEMMA Queued_CkDropPage ==
  ASSUME Typed, Typed', Stages, Files, Handles, Lives, Queued, CkDropPage
  PROVE  Queued'
  <1>0. PICK p \in Pages :
         /\ ck.pc = "drop" /\ ck.marks[p] # Unknown
         /\ \A q \in Pages : q # p => mark'[q] = mark[q]
         /\ p \in ck.orphans => mark' = mark
         /\ p \notin ck.orphans => mark'[p] # Unknown
         /\ Dirty(ck.slot, ck.marks[p])
         /\ ck'.marks = [ck.marks EXCEPT ![p] = Unknown]
         /\ ck'.pc = ck.pc /\ ck'.page = ck.page /\ ck'.todo = ck.todo
         /\ ck'.ceiling = ck.ceiling /\ ck'.upto = ck.upto /\ ck'.journal = ck.journal
         /\ ck'.full = ck.full /\ ck'.gone = ck.gone /\ ck'.slot = ck.slot
         /\ ck'.held = ck.held /\ ck'.since = ck.since /\ ck'.replace = ck.replace
         /\ ck'.revision = ck.revision /\ ck'.ages = ck.ages /\ ck'.orphans = ck.orphans
         /\ reader' = reader
         /\ now' = now /\ resident' = resident /\ last' = last
         /\ live' = live /\ revision' = revision
         /\ savedRevision' = savedRevision /\ reg' = reg /\ base' = base
         /\ log' = log /\ bases' = bases /\ logs' = logs /\ saved' = saved
         /\ fails' = fails /\ crashes' = crashes
    BY CkDropPageEffect
  <1>1. /\ ck.pc = "drop" /\ Dirty(ck.slot, ck.marks[p]) /\ ck.marks[p] # Unknown
        /\ ck'.pc = ck.pc /\ ck'.slot = ck.slot /\ ck'.since = ck.since /\ ck'.todo = ck.todo
        /\ live' = live /\ reader' = reader /\ revision' = revision
        /\ savedRevision' = savedRevision /\ reg' = reg
        /\ \A q \in Pages : q # p => mark'[q] = mark[q]
        /\ p \in ck.orphans => mark' = mark
    BY <1>0
  <1>2. /\ ck.slot \in 0 .. MaxSlots /\ ck.marks[p] \in Stamps
        /\ ck.slot = live /\ ck.marks[p] # Unknown => live # 0
    BY TaskFields DEF Stages, TaskStages, Clean
  <1>3. (Pending => Pending') /\ BlockQueued' /\ (ck.slot = live => Pending')
    BY <1>1, <1>2, DirtiedSlot DEF Queued
  <1>4. MarksQueued'
    <2>1. p \notin ck.orphans => ck.slot = live BY <1>1 DEF Handles, TaskOwned
    <2> QED BY <1>1, <1>3, <2>1 DEF Queued, MarksQueued
  <1>5. ChangesQueued' BY <1>1, <1>3 DEF Queued, ChangesQueued, Held
  <1>6. NewerQueued' BY <1>1 DEF NewerQueued, Holding, Sampled, Writing
  <1>7. Unchanged' BY <1>1 DEF Queued, Unchanged
  <1> QED BY <1>3, <1>4, <1>5, <1>6, <1>7 DEF Queued

\* Create keeps Queued.
LEMMA Queued_Create ==
  ASSUME Typed, Typed', Stages, Files, Handles, Lives, Queued, Create
  PROVE  Queued'
  <1>1. /\ live = 0 /\ blockDirty' = Unknown /\ mark' = mark /\ revision' = 0 /\ savedRevision' = 0
        /\ ck' = ck
    BY CreateEffect
  <1>2. resident = {} BY <1>1 DEF Stages, Slots
  <1>3. \A p \in Pages : mark[p] = Unknown BY <1>2, NoMarks
  <1>4. ~(ck.pc \in Holding /\ ck.slot # 0) BY <1>1, HeldSlot
  <1> QED BY <1>1, <1>3, <1>4 DEF Queued, BlockQueued, MarksQueued, ChangesQueued, NewerQueued, Unchanged

\* Retire keeps Queued.
LEMMA Queued_Retire ==
  ASSUME Typed, Typed', Stages, Files, Handles, Lives, Queued, Retire
  PROVE  Queued'
  <1>1. /\ resident = {} /\ ~(ck.held /\ ck.slot = live) /\ blockDirty' = Unknown /\ mark' = mark
        /\ revision' = 0 /\ savedRevision' = 0 /\ ck' = ck
    BY RetireEffect
  <1>3. \A p \in Pages : mark[p] = Unknown BY <1>1, NoMarks
  <1>4. ~(ck.pc \in Holding /\ ck.slot # 0) BY <1>1, HeldSlot
  <1> QED BY <1>1, <1>3, <1>4 DEF Queued, BlockQueued, MarksQueued, ChangesQueued, NewerQueued, Unchanged

\* Tick keeps Queued.
LEMMA Queued_Tick ==
  ASSUME Typed, Typed', Stages, Files, Handles, Lives, Queued, Tick
  PROVE  Queued'
  <1>1. /\ blockDirty' = blockDirty /\ live' = live /\ shardDirty' = shardDirty
        /\ reader' = reader /\ mark' = mark /\ revision' = revision
        /\ savedRevision' = savedRevision /\ ck' = ck /\ reg' = reg
    BY TickEffect
  <1> QED BY <1>1, QueuedFrame

\* ReadDone keeps Queued.
LEMMA Queued_ReadDone ==
  ASSUME Typed, Typed', Stages, Files, Handles, Lives, Queued, NEW r \in Readers, ReadDone(r)
  PROVE  Queued'
  <1>1. /\ Others(r) /\ reader[r].pc \notin {"notify", "queue"} /\ live' = live /\ shardDirty' = shardDirty
        /\ blockDirty' = blockDirty /\ mark' = mark /\ revision' = revision
        /\ savedRevision' = savedRevision /\ ck' = ck /\ reg' = reg
    BY ReadDoneEffect
  <1>2. (Pending => Pending') /\ (Queuing => Queuing') BY <1>1, ReaderElsewhere
  <1> QED BY <1>1, <1>2 DEF Queued, BlockQueued, MarksQueued, ChangesQueued, NewerQueued, Unchanged, Held

\* Stamp keeps Queued.
LEMMA Queued_Stamp ==
  ASSUME Typed, Typed', Stages, Files, Handles, Lives, Queued, NEW r \in Readers, Stamp(r)
  PROVE  Queued'
  <1>1. /\ Others(r) /\ reader[r].pc \notin {"notify", "queue"} /\ live' = live /\ shardDirty' = shardDirty
        /\ blockDirty' = blockDirty /\ mark' = mark /\ revision' = revision
        /\ savedRevision' = savedRevision /\ ck' = ck /\ reg' = reg
    BY StampEffect
  <1>2. (Pending => Pending') /\ (Queuing => Queuing') BY <1>1, ReaderElsewhere
  <1> QED BY <1>1, <1>2 DEF Queued, BlockQueued, MarksQueued, ChangesQueued, NewerQueued, Unchanged, Held

\* Mark keeps Queued.
LEMMA Queued_Mark ==
  ASSUME Typed, Typed', Stages, Files, Handles, Lives, Queued, NEW r \in Readers, Mark(r)
  PROVE  Queued'
  <1>1. /\ Others(r) /\ reader[r].pc \notin {"notify", "queue"} /\ live' = live /\ shardDirty' = shardDirty
        /\ blockDirty' = blockDirty /\ revision' = revision
        /\ savedRevision' = savedRevision /\ ck' = ck /\ reg' = reg
        /\ \A q \in Pages : q # reader[r].page => mark'[q] = mark[q]
        /\ mark[reader[r].page] # Unknown \/ reader'[r].pc = "notify"
    BY MarkEffect
  <1>2. (Pending => Pending') /\ (Queuing => Queuing') BY <1>1, ReaderElsewhere
  <1>3. mark[reader[r].page] # Unknown \/ Pending' BY <1>1 DEF Pending
  <1>4. MarksQueued' BY <1>1, <1>2, <1>3 DEF Queued, MarksQueued, Held
  <1> QED BY <1>1, <1>2, <1>4 DEF Queued, BlockQueued, ChangesQueued, NewerQueued, Unchanged, Held

\* Notify keeps Queued.
LEMMA Queued_Notify ==
  ASSUME Typed, Typed', Stages, Files, Handles, Lives, Queued, NEW r \in Readers, Notify(r)
  PROVE  Queued'
  <1>1. /\ reader[r].pc = "notify" /\ Others(r) /\ live # 0
        /\ reader'[r].pc = "queue" \/ blockDirty # Unknown
        /\ live' = live /\ shardDirty' = shardDirty
        /\ revision' = revision /\ ck' = ck /\ reg' = reg
    BY NotifyEffect
  <1>2. shardDirty'[live] # Unknown \/ Queuing' BY <1>1 DEF Queued, BlockQueued, Queuing, Others
  <1>3. Pending' /\ BlockQueued' BY <1>1, <1>2 DEF Pending, BlockQueued, Queuing
  <1> QED BY <1>1, <1>3 DEF Queued, MarksQueued, ChangesQueued, NewerQueued, Unchanged

\* Queue keeps Queued.
LEMMA Queued_Queue ==
  ASSUME Typed, Typed', Stages, Files, Handles, Lives, Queued, NEW r \in Readers, Queue(r)
  PROVE  Queued'
  <1>1. /\ live # 0 /\ shardDirty'[live] # Unknown /\ live' = live
        /\ revision' = revision /\ ck' = ck /\ reg' = reg
    BY QueueEffect
  <1>3. Pending' /\ BlockQueued' BY <1>1 DEF Pending, BlockQueued
  <1> QED BY <1>1, <1>3 DEF Queued, MarksQueued, ChangesQueued, NewerQueued, Unchanged

\* Register keeps Queued.
LEMMA Queued_Register ==
  ASSUME Typed, Typed', Stages, Files, Handles, Lives, Queued, NEW p \in Pages, Register(p)
  PROVE  Queued'
  <1>1. Dirty(live, now) /\ live' = live /\ reader' = reader /\ reg'.dir = TRUE BY RegisterEffect
  <1>2. live \in 0 .. MaxSlots /\ now \in Stamps /\ now # Unknown
      BY TaskFields, NowStamp, Bounds DEF Typed
  <1>3. live # 0 BY RegisterEffect DEF Stages, Slots
  <1>4. Pending' /\ BlockQueued' BY <1>1, <1>2, <1>3, DirtiedSlot DEF Queued
  <1>5. Unchanged' BY <1>1 DEF Unchanged, Files, Retry
  <1> QED BY <1>4, <1>5 DEF Queued, MarksQueued, ChangesQueued, NewerQueued

\* Delete keeps Queued.
LEMMA Queued_Delete ==
  ASSUME Typed, Typed', Stages, Files, Handles, Lives, Queued, NEW p \in Pages, Delete(p)
  PROVE  Queued'
  <1>1. Dirty(live, now) /\ live' = live /\ reader' = reader /\ p \in resident /\ reg' = reg
      BY DeleteEffect
  <1>2. live \in 0 .. MaxSlots /\ now \in Stamps /\ now # Unknown
      BY TaskFields, NowStamp, Bounds DEF Typed
  <1>3. live # 0 BY DeleteEffect DEF Stages, Slots
  <1>4. Pending' /\ BlockQueued' BY <1>1, <1>2, <1>3, DirtiedSlot DEF Queued
  <1>5. Unchanged' BY <1>1 DEF Unchanged, Files, Retry
  <1> QED BY <1>4, <1>5 DEF Queued, MarksQueued, ChangesQueued, NewerQueued

\* Restart keeps Queued.
LEMMA Queued_Restart ==
  ASSUME Typed, Typed', Stages, Files, Handles, Lives, Queued, Restart
  PROVE  Queued'
  <1>1. PICK b \in bases, l \in logs, found \in SUBSET resident :
           /\ b \in File /\ l \in Log /\ Recovered(b, l) \in Ages
           /\ base' = b /\ bases' = {b} /\ log' = l /\ logs' = {l}
           /\ resident' = found
           /\ last' = [p \in Pages |-> IF p \in found /\ Recovered(b, l)[p] # 0
                                       THEN Recovered(b, l)[p] ELSE Unknown]
           /\ live' = IF found = {} THEN 0 ELSE 1
           /\ reg' \in Registries
           /\ reg'.next = live' /\ reg'.saved = 0 /\ reg'.removed = {} /\ reg'.overflow = 0
           /\ reg'.membership = live' + (IF b.gen = 0 THEN 0 ELSE 1)
           /\ reg'.journal.gen = b.gen /\ reg'.journal.full = TRUE /\ reg'.dir = reg.dir
           /\ saved' = [p \in Pages |-> IF p \in found THEN saved[p] ELSE 0]
    BY RestartFacts
  <1>2. /\ ck' = Idle /\ mark' = Clean /\ blockDirty' = Unknown /\ revision' = 0 /\ savedRevision' = 0
        /\ shardDirty' = [s \in 1 .. MaxSlots |-> Unknown] /\ reader' = [r \in Readers |-> Resting]
    BY DEF Restart
  <1>3. BlockQueued' BY <1>2 DEF BlockQueued
  <1>4. MarksQueued' BY <1>2 DEF MarksQueued, Clean
  <1>5. ChangesQueued' BY <1>2 DEF ChangesQueued
  <1>6. NewerQueued' BY <1>2, IdleFields DEF NewerQueued, Holding, Sampled, Writing
  <1>7. Unchanged' BY <1>2 DEF Unchanged
  <1> QED BY <1>3, <1>4, <1>5, <1>6, <1>7 DEF Queued

\* Every step keeps Queued.
LEMMA QueuedStep ==
  ASSUME Typed, Typed', Stages, Files, Handles, Lives, Queued, [Next]_vars
  PROVE  Queued'
  <1>1. CASE UNCHANGED vars BY <1>1 DEF vars, memory, disk, ghost, Queued, BlockQueued,
      MarksQueued, ChangesQueued, NewerQueued, Unchanged, Pending, Held, Queuing
  <1>2. CASE Tick BY <1>2, Queued_Tick
  <1>3. ASSUME NEW r \in Readers, ReadDone(r) \/ Touch(r) PROVE Queued'
    BY <1>3, Queued_ReadDone, Queued_Stamp, Queued_Mark, Queued_Notify, Queued_Queue DEF Touch
  <1>4. ASSUME NEW p \in Pages, Register(p) \/ Delete(p) PROVE Queued'
    BY <1>4, Queued_Register, Queued_Delete
  <1>5. CASE Create \/ Retire \/ CkTooLarge \/ CkFail \/ Restart
    BY <1>5, Queued_Create, Queued_Retire, Queued_CkTooLarge, Queued_CkFail, Queued_Restart
  <1>6. CASE Checkpoint
    BY <1>6, Queued_CkStart, Queued_CkJournal, Queued_CkPick, Queued_CkSummary, Queued_CkSample,
        Queued_CkSampled, Queued_CkNoDirectory, Queued_CkEncode, Queued_CkBase,
        Queued_CkBaseSync, Queued_CkLog, Queued_CkLogSync, Queued_CkAppend, Queued_CkAppendSync,
        Queued_CkSetJournal, Queued_CkRevise, Queued_CkFinish, Queued_CkDropSummary,
        Queued_CkConsume, Queued_CkDropPage DEF Checkpoint
  <1> QED BY <1>1, <1>2, <1>3, <1>4, <1>5, <1>6 DEF Next

-----------------------------------------------------------------------------
(* Busy: unfinished work is found again                                    *)

\* Busy holds where there is work.
LEMMA Working ==
  ASSUME Work'
  PROVE  Busy'
  BY DEF Busy, Started, Underway, Unfinished

\* A step that touches no queue keeps Busy.
LEMMA BusyFrame ==
  ASSUME Busy,
         /\ reader' = reader /\ live' = live /\ shardDirty' = shardDirty
         /\ reg'.membership = reg.membership /\ reg'.saved = reg.saved /\ ck'.pc = ck.pc
         /\ ck'.slot = ck.slot /\ ck'.since = ck.since /\ reg'.journal = reg.journal
         /\ resident' = resident /\ bases' = bases
  PROVE  Busy'
  <1>1. Started' BY DEF Busy, Started, Work, Pending
  <1>2. Underway' BY DEF Busy, Underway, Work, Pending, Held, Writing
  <1>3. Unfinished' BY DEF Busy, Unfinished, Work, Pending
  <1> QED BY <1>1, <1>2, <1>3 DEF Busy


\* CkStart keeps Busy.
LEMMA Busy_CkStart ==
  ASSUME Typed, Typed', Stages, Files, Handles, Lives, Queued, Busy, CkStart
  PROVE  Busy'
  <1>1. Due /\ reg' = reg /\ live' = live /\ shardDirty' = shardDirty BY CkStartEffect
  <1>2. CASE reg.membership # reg.saved BY <1>1, <1>2, Working DEF Work
  <1>3. CASE ~NothingQueued
    <2>1. PICK s \in 1 .. MaxSlots : shardDirty[s] # Unknown BY <1>3, TaskFields DEF NothingQueued
    <2>2. s = live /\ live # 0 BY <2>1, Bounds DEF Stages, Slots
    <2> QED BY <1>1, <2>1, <2>2, Working DEF Work, Pending
  <1> QED BY <1>1, <1>2, <1>3 DEF Due

\* CkJournal keeps Busy.
LEMMA Busy_CkJournal ==
  ASSUME Typed, Typed', Stages, Files, Handles, Lives, Queued, Busy, CkJournal
  PROVE  Busy'
  <1>1. /\ ck.pc \in {"journal", "pick"} /\ live' = live /\ shardDirty' = shardDirty /\ reader' = reader
        /\ reg'.membership = reg.membership /\ reg'.saved = reg.saved
    BY CkJournalEffect
  <1>2. Work BY <1>1 DEF Busy, Started
  <1> QED BY <1>1, <1>2, Working DEF Work, Pending

\* CkPick keeps Busy.
LEMMA Busy_CkPick ==
  ASSUME Typed, Typed', Stages, Files, Handles, Lives, Queued, Busy, CkPick
  PROVE  Busy'
  <1>1. /\ ck.pc \in {"journal", "pick"} /\ live' = live /\ shardDirty' = shardDirty /\ reader' = reader
        /\ reg'.membership = reg.membership /\ reg'.saved = reg.saved
    BY CkPickEffect
  <1>2. Work BY <1>1 DEF Busy, Started
  <1> QED BY <1>1, <1>2, Working DEF Work, Pending

\* CkSummary keeps Busy.
LEMMA Busy_CkSummary ==
  ASSUME Typed, Typed', Stages, Files, Handles, Lives, Queued, Busy, CkSummary
  PROVE  Busy'
  <1>1. /\ ck.pc = "summary" /\ shardDirty' = [shardDirty EXCEPT ![live] = Unknown]
        /\ ck'.pc = "consume" /\ ck'.slot = ck.slot /\ ck'.since = shardDirty[live]
        /\ live' = live /\ reg' = reg /\ reader' = reader
    BY CkSummaryEffect
  <1>2. ck.slot = live /\ live # 0 BY <1>1 DEF Stages, TaskStages
  <1>3. Work' \/ Held' BY <1>1, <1>2 DEF Busy, Started, Work, Pending, Held
  <1> QED BY <1>1, <1>3 DEF Busy, Started, Underway, Unfinished

\* CkSample keeps Busy.
LEMMA Busy_CkSample ==
  ASSUME Typed, Typed', Stages, Files, Handles, Lives, Queued, Busy, CkSample
  PROVE  Busy'
  <1>1. Started'
    <2>1. /\ ck.pc = "sample" /\ ck'.pc = "consume" /\ live' = live
          /\ shardDirty' = shardDirty /\ reg' = reg /\ reader' = reader
      BY CkSampleEffect
    <2> QED BY <2>1, TaskFields DEF Busy, Started, Work, Pending
  <1>2. Underway'
    <2>1. /\ ck.pc = "sample" /\ ck'.pc = "consume" /\ ck'.slot = ck.slot
          /\ ck'.since = ck.since /\ live' = live /\ shardDirty' = shardDirty /\ reg' = reg
          /\ reader' = reader
      BY CkSampleEffect
    <2> QED BY <2>1, TaskFields DEF Busy, Underway, Work, Pending, Held, Writing
  <1>3. Unfinished'
    <2>1. /\ ck.pc = "sample" /\ ck'.pc = "consume" /\ resident' = resident /\ live' = live
          /\ shardDirty' = shardDirty /\ reg' = reg /\ reader' = reader /\ bases' = bases
      BY CkSampleEffect
    <2> QED BY <2>1, TaskFields DEF Busy, Unfinished, Work, Pending
  <1> QED BY <1>1, <1>2, <1>3 DEF Busy

\* CkSampled keeps Busy.
LEMMA Busy_CkSampled ==
  ASSUME Typed, Typed', Stages, Files, Handles, Lives, Queued, Busy, CkSampled
  PROVE  Busy'
  <1>1. Started'
    <2>1. /\ ck.pc = "consume" /\ ck.todo = {} /\ ck'.pc = "encode" /\ live' = live
          /\ shardDirty' = shardDirty /\ reg' = reg /\ reader' = reader
      BY CkSampledEffect
    <2> QED BY <2>1, TaskFields DEF Busy, Started, Work, Pending
  <1>2. Underway'
    <2>1. /\ ck.pc = "consume" /\ ck.todo = {} /\ ck'.pc = "encode" /\ ck'.slot = ck.slot
          /\ ck'.since = ck.since /\ live' = live /\ shardDirty' = shardDirty /\ reg' = reg
          /\ reader' = reader
      BY CkSampledEffect
    <2> QED BY <2>1, TaskFields DEF Busy, Underway, Work, Pending, Held, Writing
  <1>3. Unfinished'
    <2>1. /\ ck.pc = "consume" /\ ck.todo = {} /\ ck'.pc = "encode" /\ resident' = resident
          /\ live' = live /\ shardDirty' = shardDirty /\ reg' = reg /\ reader' = reader
          /\ bases' = bases
      BY CkSampledEffect
    <2> QED BY <2>1, TaskFields DEF Busy, Unfinished, Work, Pending
  <1> QED BY <1>1, <1>2, <1>3 DEF Busy

\* CkTooLarge keeps Busy.
LEMMA Busy_CkTooLarge ==
  ASSUME Typed, Typed', Stages, Files, Handles, Lives, Queued, Busy, CkTooLarge
  PROVE  Busy'
  <1>1. /\ Dirty(ck.slot, ck.since) /\ ck.pc \in {"consume", "drop"}
        /\ live' = live /\ reader' = reader /\ reg' = reg
    BY CkTooLargeEffect
  <1>2. /\ ck.slot \in 0 .. MaxSlots /\ ck.since \in Stamps
        /\ ck.slot = live /\ ck.since # Unknown => live # 0
    BY TaskFields DEF Stages, TaskStages
  <1>3. (Pending => Pending') /\ (Held => Pending')
    BY <1>1, <1>2, DirtiedSlot DEF Queued, Held
  <1>4. Work \/ Held BY <1>1 DEF Busy, Underway
  <1> QED BY <1>1, <1>3, <1>4, Working DEF Work

\* CkNoDirectory keeps Busy.
LEMMA Busy_CkNoDirectory ==
  ASSUME Typed, Typed', Stages, Files, Handles, Lives, Queued, Busy, CkNoDirectory
  PROVE  Busy'
  <1>1. ~reg.dir /\ ck'.pc = "idle" /\ resident' = resident /\ bases' = bases BY CkNoDirectoryEffect
  <1>2. resident = {} /\ bases = {NoFile} BY <1>1 DEF Files, Retry
  <1> QED BY <1>1, <1>2 DEF Busy, Started, Underway, Unfinished, Writing

\* CkEncode keeps Busy.
LEMMA Busy_CkEncode ==
  ASSUME Typed, Typed', Stages, Files, Handles, Lives, Queued, Busy, CkEncode
  PROVE  Busy'
  <1>1. Started'
    <2>1. /\ ck.pc = "encode" /\ reg.dir
          /\ ((ck.full /\ ck'.pc = "base")
              \/ (~ck.full /\ DeltaFrames = <<>> /\ ck'.pc = "written")
              \/ (~ck.full /\ DeltaFrames # <<>> /\ ck'.pc = "append"))
          /\ live' = live /\ shardDirty' = shardDirty /\ reg' = reg /\ reader' = reader
      BY CkEncodeEffect
    <2> QED BY <2>1, TaskFields DEF Busy, Started, Work, Pending
  <1>2. Underway'
    <2>1. /\ ck.pc = "encode" /\ reg.dir
          /\ ((ck.full /\ ck'.pc = "base")
              \/ (~ck.full /\ DeltaFrames = <<>> /\ ck'.pc = "written")
              \/ (~ck.full /\ DeltaFrames # <<>> /\ ck'.pc = "append"))
          /\ ck'.slot = ck.slot /\ ck'.since = ck.since /\ live' = live
          /\ shardDirty' = shardDirty /\ reg' = reg /\ reader' = reader
      BY CkEncodeEffect
    <2> QED BY <2>1, TaskFields DEF Busy, Underway, Work, Pending, Held, Writing
  <1>3. Unfinished'
    <2>1. /\ ck.pc = "encode" /\ reg.dir
          /\ ((ck.full /\ ck'.pc = "base")
              \/ (~ck.full /\ DeltaFrames = <<>> /\ ck'.pc = "written")
              \/ (~ck.full /\ DeltaFrames # <<>> /\ ck'.pc = "append"))
          /\ resident' = resident /\ live' = live /\ shardDirty' = shardDirty /\ reg' = reg
          /\ reader' = reader /\ bases' = bases
      BY CkEncodeEffect
    <2> QED BY <2>1, TaskFields DEF Busy, Unfinished, Work, Pending
  <1> QED BY <1>1, <1>2, <1>3 DEF Busy

\* CkBase keeps Busy.
LEMMA Busy_CkBase ==
  ASSUME Typed, Typed', Stages, Files, Handles, Lives, Queued, Busy, CkBase
  PROVE  Busy'
  <1>1. Started'
    <2>1. /\ ck.pc = "base" /\ ck'.pc = "baseSync" /\ live' = live
          /\ shardDirty' = shardDirty /\ reg' = reg /\ reader' = reader
      BY CkBaseEffect
    <2> QED BY <2>1, TaskFields DEF Busy, Started, Work, Pending
  <1>2. Underway'
    <2>1. /\ ck.pc = "base" /\ ck'.pc = "baseSync" /\ ck'.slot = ck.slot
          /\ ck'.since = ck.since /\ live' = live /\ shardDirty' = shardDirty /\ reg' = reg
          /\ reader' = reader
      BY CkBaseEffect
    <2> QED BY <2>1, TaskFields DEF Busy, Underway, Work, Pending, Held, Writing
  <1>3. Unfinished'
    <2>1. ck'.pc \in {"baseSync", "log"} BY CkBaseEffect
    <2> QED BY <2>1 DEF Unfinished
  <1> QED BY <1>1, <1>2, <1>3 DEF Busy

\* CkBaseSync keeps Busy.
LEMMA Busy_CkBaseSync ==
  ASSUME Typed, Typed', Stages, Files, Handles, Lives, Queued, Busy, CkBaseSync
  PROVE  Busy'
  <1>1. Started'
    <2>1. /\ ck.pc = "baseSync" /\ ck'.pc = "log" /\ live' = live
          /\ shardDirty' = shardDirty /\ reg' = reg /\ reader' = reader
      BY CkBaseSyncEffect
    <2> QED BY <2>1, TaskFields DEF Busy, Started, Work, Pending
  <1>2. Underway'
    <2>1. /\ ck.pc = "baseSync" /\ ck'.pc = "log" /\ ck'.slot = ck.slot
          /\ ck'.since = ck.since /\ live' = live /\ shardDirty' = shardDirty /\ reg' = reg
          /\ reader' = reader
      BY CkBaseSyncEffect
    <2> QED BY <2>1, TaskFields DEF Busy, Underway, Work, Pending, Held, Writing
  <1>3. Unfinished'
    <2>1. ck'.pc \in {"baseSync", "log"} BY CkBaseSyncEffect
    <2> QED BY <2>1 DEF Unfinished
  <1> QED BY <1>1, <1>2, <1>3 DEF Busy

\* CkLog keeps Busy.
LEMMA Busy_CkLog ==
  ASSUME Typed, Typed', Stages, Files, Handles, Lives, Queued, Busy, CkLog
  PROVE  Busy'
  <1>1. Started'
    <2>1. /\ ck.pc = "log" /\ ck'.pc = "logSync" /\ live' = live /\ shardDirty' = shardDirty
          /\ reg' = reg /\ reader' = reader
      BY CkLogEffect
    <2> QED BY <2>1, TaskFields DEF Busy, Started, Work, Pending
  <1>2. Underway'
    <2>1. /\ ck.pc = "log" /\ ck'.pc = "logSync" /\ ck'.slot = ck.slot
          /\ ck'.since = ck.since /\ live' = live /\ shardDirty' = shardDirty /\ reg' = reg
          /\ reader' = reader
      BY CkLogEffect
    <2> QED BY <2>1, TaskFields DEF Busy, Underway, Work, Pending, Held, Writing
  <1>3. Unfinished'
    <2>1. /\ ck.pc = "log" /\ ck'.pc = "logSync" /\ resident' = resident /\ live' = live
          /\ shardDirty' = shardDirty /\ reg' = reg /\ reader' = reader /\ bases' = bases
      BY CkLogEffect
    <2> QED BY <2>1, TaskFields DEF Busy, Unfinished, Work, Pending
  <1> QED BY <1>1, <1>2, <1>3 DEF Busy

\* CkLogSync keeps Busy.
LEMMA Busy_CkLogSync ==
  ASSUME Typed, Typed', Stages, Files, Handles, Lives, Queued, Busy, CkLogSync
  PROVE  Busy'
  <1>1. Started'
    <2>1. /\ ck.pc = "logSync" /\ ck'.pc = "written" /\ live' = live
          /\ shardDirty' = shardDirty /\ reg' = reg /\ reader' = reader
      BY CkLogSyncEffect
    <2> QED BY <2>1, TaskFields DEF Busy, Started, Work, Pending
  <1>2. Underway'
    <2>1. /\ ck.pc = "logSync" /\ ck'.pc = "written" /\ ck'.slot = ck.slot
          /\ ck'.since = ck.since /\ live' = live /\ shardDirty' = shardDirty /\ reg' = reg
          /\ reader' = reader
      BY CkLogSyncEffect
    <2> QED BY <2>1, TaskFields DEF Busy, Underway, Work, Pending, Held, Writing
  <1>3. Unfinished'
    <2>1. /\ ck.pc = "logSync" /\ ck'.pc = "written" /\ resident' = resident /\ live' = live
          /\ shardDirty' = shardDirty /\ reg' = reg /\ reader' = reader /\ bases' = bases
      BY CkLogSyncEffect
    <2> QED BY <2>1, TaskFields DEF Busy, Unfinished, Work, Pending
  <1> QED BY <1>1, <1>2, <1>3 DEF Busy

\* CkAppend keeps Busy.
LEMMA Busy_CkAppend ==
  ASSUME Typed, Typed', Stages, Files, Handles, Lives, Queued, Busy, CkAppend
  PROVE  Busy'
  <1>1. Started'
    <2>1. /\ ck.pc = "append" /\ ck'.pc = "appendSync" /\ live' = live
          /\ shardDirty' = shardDirty /\ reg' = reg /\ reader' = reader
      BY CkAppendEffect
    <2> QED BY <2>1, TaskFields DEF Busy, Started, Work, Pending
  <1>2. Underway'
    <2>1. /\ ck.pc = "append" /\ ck'.pc = "appendSync" /\ ck'.slot = ck.slot
          /\ ck'.since = ck.since /\ live' = live /\ shardDirty' = shardDirty /\ reg' = reg
          /\ reader' = reader
      BY CkAppendEffect
    <2> QED BY <2>1, TaskFields DEF Busy, Underway, Work, Pending, Held, Writing
  <1>3. Unfinished'
    <2>1. /\ ck.pc = "append" /\ ck'.pc = "appendSync" /\ resident' = resident
          /\ live' = live /\ shardDirty' = shardDirty /\ reg' = reg /\ reader' = reader
          /\ bases' = bases
      BY CkAppendEffect
    <2> QED BY <2>1, TaskFields DEF Busy, Unfinished, Work, Pending
  <1> QED BY <1>1, <1>2, <1>3 DEF Busy

\* CkAppendSync keeps Busy.
LEMMA Busy_CkAppendSync ==
  ASSUME Typed, Typed', Stages, Files, Handles, Lives, Queued, Busy, CkAppendSync
  PROVE  Busy'
  <1>1. Started'
    <2>1. /\ ck.pc = "appendSync" /\ ck'.pc = "written" /\ live' = live
          /\ shardDirty' = shardDirty /\ reg' = reg /\ reader' = reader
      BY CkAppendSyncEffect
    <2> QED BY <2>1, TaskFields DEF Busy, Started, Work, Pending
  <1>2. Underway'
    <2>1. /\ ck.pc = "appendSync" /\ ck'.pc = "written" /\ ck'.slot = ck.slot
          /\ ck'.since = ck.since /\ live' = live /\ shardDirty' = shardDirty /\ reg' = reg
          /\ reader' = reader
      BY CkAppendSyncEffect
    <2> QED BY <2>1, TaskFields DEF Busy, Underway, Work, Pending, Held, Writing
  <1>3. Unfinished'
    <2>1. /\ ck.pc = "appendSync" /\ ck'.pc = "written" /\ resident' = resident
          /\ live' = live /\ shardDirty' = shardDirty /\ reg' = reg /\ reader' = reader
          /\ bases' = bases
      BY CkAppendSyncEffect
    <2> QED BY <2>1, TaskFields DEF Busy, Unfinished, Work, Pending
  <1> QED BY <1>1, <1>2, <1>3 DEF Busy

\* CkSetJournal keeps Busy.
LEMMA Busy_CkSetJournal ==
  ASSUME Typed, Typed', Stages, Files, Handles, Lives, Queued, Busy, CkSetJournal
  PROVE  Busy'
  <1>1. Started'
    <2>1. /\ ck.pc = "written" /\ reg'.membership = reg.membership /\ reg'.saved = reg.saved
          /\ ck'.pc = "revise" /\ live' = live /\ shardDirty' = shardDirty
          /\ reader' = reader
      BY CkSetJournalEffect
    <2> QED BY <2>1, TaskFields DEF Busy, Started, Work, Pending
  <1>2. Underway'
    <2>1. /\ ck.pc = "written" /\ reg'.membership = reg.membership /\ reg'.saved = reg.saved
          /\ ck'.pc = "revise" /\ ck'.slot = ck.slot /\ ck'.since = ck.since /\ live' = live
          /\ shardDirty' = shardDirty /\ reader' = reader
      BY CkSetJournalEffect
    <2> QED BY <2>1, TaskFields DEF Busy, Underway, Work, Pending, Held, Writing
  <1>3. Unfinished'
    <2>1. /\ ck.pc = "written" /\ reg'.journal = ck.journal
          /\ reg'.membership = reg.membership /\ reg'.saved = reg.saved /\ ck'.pc = "revise"
          /\ resident' = resident /\ live' = live /\ shardDirty' = shardDirty
          /\ reader' = reader /\ bases' = bases
      BY CkSetJournalEffect
    <2> QED BY <2>1, TaskFields DEF Busy, Unfinished, Work, Pending
  <1> QED BY <1>1, <1>2, <1>3 DEF Busy

\* CkRevise keeps Busy.
LEMMA Busy_CkRevise ==
  ASSUME Typed, Typed', Stages, Files, Handles, Lives, Queued, Busy, CkRevise
  PROVE  Busy'
  <1>1. Started'
    <2>1. /\ ck.pc = "revise" /\ ck'.pc = "finish" /\ live' = live
          /\ shardDirty' = shardDirty /\ reg' = reg /\ reader' = reader
      BY CkReviseEffect
    <2> QED BY <2>1, TaskFields DEF Busy, Started, Work, Pending
  <1>2. Underway'
    <2>1. /\ ck.pc = "revise" /\ ck'.pc = "finish" /\ ck'.slot = ck.slot
          /\ ck'.since = ck.since /\ live' = live /\ shardDirty' = shardDirty /\ reg' = reg
          /\ reader' = reader
      BY CkReviseEffect
    <2> QED BY <2>1, TaskFields DEF Busy, Underway, Work, Pending, Held, Writing
  <1>3. Unfinished'
    <2>1. /\ ck.pc = "revise" /\ ck'.pc = "finish" /\ resident' = resident /\ live' = live
          /\ shardDirty' = shardDirty /\ reg' = reg /\ reader' = reader /\ bases' = bases
      BY CkReviseEffect
    <2> QED BY <2>1, TaskFields DEF Busy, Unfinished, Work, Pending
  <1> QED BY <1>1, <1>2, <1>3 DEF Busy

\* CkFinish keeps Busy.
LEMMA Busy_CkFinish ==
  ASSUME Typed, Typed', Stages, Files, Handles, Lives, Queued, Busy, CkFinish
  PROVE  Busy'
  <1>1. ck.pc = "finish" /\ ck'.pc = "idle" /\ reg'.journal = reg.journal BY CkFinishEffect
  <1>2. ~reg.journal.full BY <1>1 DEF Files, Retry
  <1> QED BY <1>1, <1>2 DEF Busy, Started, Underway, Unfinished, Writing

\* CkFail keeps Busy.
LEMMA Busy_CkFail ==
  ASSUME Typed, Typed', Stages, Files, Handles, Lives, Queued, Busy, CkFail
  PROVE  Busy'
  <1>1. Started'
    <2>1. /\ ck.pc \in {"encode", "base", "baseSync", "log", "logSync", "append", "appendSync"}
          /\ ck'.pc = "drop" /\ live' = live /\ shardDirty' = shardDirty /\ reg' = reg
          /\ reader' = reader
      BY CkFailEffect DEF Writing
    <2> QED BY <2>1, TaskFields DEF Busy, Started, Work, Pending
  <1>2. Underway'
    <2>1. /\ ck.pc \in {"encode", "base", "baseSync", "log", "logSync", "append", "appendSync"}
          /\ ck'.pc = "drop" /\ ck'.slot = ck.slot /\ ck'.since = ck.since /\ live' = live
          /\ shardDirty' = shardDirty /\ reg' = reg /\ reader' = reader
      BY CkFailEffect DEF Writing
    <2> QED BY <2>1, TaskFields DEF Busy, Underway, Work, Pending, Held, Writing
  <1>3. Unfinished'
    <2>1. /\ ck.pc \in {"encode", "base", "baseSync", "log", "logSync", "append", "appendSync"}
          /\ ck'.pc = "drop" /\ resident' = resident /\ live' = live
          /\ shardDirty' = shardDirty /\ reg' = reg /\ reader' = reader /\ bases' = bases
      BY CkFailEffect DEF Writing
    <2> QED BY <2>1, TaskFields DEF Busy, Unfinished, Work, Pending
  <1> QED BY <1>1, <1>2, <1>3 DEF Busy

\* CkDropSummary keeps Busy.
LEMMA Busy_CkDropSummary ==
  ASSUME Typed, Typed', Stages, Files, Handles, Lives, Queued, Busy, CkDropSummary
  PROVE  Busy'
  <1>1. /\ Dirty(ck.slot, ck.since) /\ ck.pc \in {"consume", "drop"}
        /\ live' = live /\ reader' = reader /\ reg' = reg
    BY CkDropSummaryEffect
  <1>2. /\ ck.slot \in 0 .. MaxSlots /\ ck.since \in Stamps
        /\ ck.slot = live /\ ck.since # Unknown => live # 0
    BY TaskFields DEF Stages, TaskStages
  <1>3. (Pending => Pending') /\ (Held => Pending')
    BY <1>1, <1>2, DirtiedSlot DEF Queued, Held
  <1>4. Work \/ Held BY <1>1 DEF Busy, Underway
  <1> QED BY <1>1, <1>3, <1>4, Working DEF Work

\* CkConsume keeps Busy.
LEMMA Busy_CkConsume ==
  ASSUME Typed, Typed', Stages, Files, Handles, Lives, Queued, Busy, CkConsume
  PROVE  Busy'
  <1>0. PICK p \in ck.todo :
         /\ p \in Pages /\ ck.pc = "consume" /\ ck'.pc = "sample" /\ ck'.page = p
         /\ ck'.todo = ck.todo \ {p} /\ ck'.marks = [ck.marks EXCEPT ![p] = mark[p]]
         /\ mark' = [mark EXCEPT ![p] = Unknown]
         /\ ck'.ceiling = ck.ceiling /\ ck'.upto = ck.upto /\ ck'.journal = ck.journal
         /\ ck'.full = ck.full /\ ck'.gone = ck.gone /\ ck'.slot = ck.slot
         /\ ck'.held = ck.held /\ ck'.since = ck.since /\ ck'.replace = ck.replace
         /\ ck'.revision = ck.revision /\ ck'.ages = ck.ages /\ ck'.orphans = ck.orphans
         /\ reader' = reader
         /\ now' = now /\ resident' = resident /\ last' = last
         /\ live' = live /\ blockDirty' = blockDirty
         /\ shardDirty' = shardDirty /\ revision' = revision
         /\ savedRevision' = savedRevision /\ reg' = reg /\ base' = base
         /\ log' = log /\ bases' = bases /\ logs' = logs /\ saved' = saved
         /\ fails' = fails /\ crashes' = crashes
    BY CkConsumeEffect
  <1>1. Started'
    <2>1. /\ p \in Pages /\ ck.pc = "consume" /\ ck'.pc = "sample" /\ reader' = reader
          /\ live' = live /\ shardDirty' = shardDirty /\ reg' = reg
      BY <1>0
    <2> QED BY <2>1, TaskFields DEF Busy, Started, Work, Pending
  <1>2. Underway'
    <2>1. /\ p \in Pages /\ ck.pc = "consume" /\ ck'.pc = "sample" /\ ck'.slot = ck.slot
          /\ ck'.since = ck.since /\ reader' = reader /\ live' = live
          /\ shardDirty' = shardDirty /\ reg' = reg
      BY <1>0
    <2> QED BY <2>1, TaskFields DEF Busy, Underway, Work, Pending, Held, Writing
  <1>3. Unfinished'
    <2>1. /\ p \in Pages /\ ck.pc = "consume" /\ ck'.pc = "sample" /\ reader' = reader
          /\ resident' = resident /\ live' = live /\ shardDirty' = shardDirty /\ reg' = reg
          /\ bases' = bases
      BY <1>0
    <2> QED BY <2>1, TaskFields DEF Busy, Unfinished, Work, Pending
  <1> QED BY <1>1, <1>2, <1>3 DEF Busy

\* CkDropPage keeps Busy.
LEMMA Busy_CkDropPage ==
  ASSUME Typed, Typed', Stages, Files, Handles, Lives, Queued, Busy, CkDropPage
  PROVE  Busy'
  <1>0. PICK p \in Pages :
         /\ ck.pc = "drop" /\ ck.marks[p] # Unknown
         /\ \A q \in Pages : q # p => mark'[q] = mark[q]
         /\ p \in ck.orphans => mark' = mark
         /\ p \notin ck.orphans => mark'[p] # Unknown
         /\ Dirty(ck.slot, ck.marks[p])
         /\ ck'.marks = [ck.marks EXCEPT ![p] = Unknown]
         /\ ck'.pc = ck.pc /\ ck'.page = ck.page /\ ck'.todo = ck.todo
         /\ ck'.ceiling = ck.ceiling /\ ck'.upto = ck.upto /\ ck'.journal = ck.journal
         /\ ck'.full = ck.full /\ ck'.gone = ck.gone /\ ck'.slot = ck.slot
         /\ ck'.held = ck.held /\ ck'.since = ck.since /\ ck'.replace = ck.replace
         /\ ck'.revision = ck.revision /\ ck'.ages = ck.ages /\ ck'.orphans = ck.orphans
         /\ reader' = reader
         /\ now' = now /\ resident' = resident /\ last' = last
         /\ live' = live /\ revision' = revision
         /\ savedRevision' = savedRevision /\ reg' = reg /\ base' = base
         /\ log' = log /\ bases' = bases /\ logs' = logs /\ saved' = saved
         /\ fails' = fails /\ crashes' = crashes
    BY CkDropPageEffect
  <1>1. /\ ck.pc = "drop" /\ Dirty(ck.slot, ck.marks[p]) /\ ck.marks[p] # Unknown
        /\ ck'.pc = ck.pc /\ ck'.slot = ck.slot /\ ck'.since = ck.since
        /\ live' = live /\ reader' = reader /\ reg' = reg
    BY <1>0
  <1>2. /\ ck.slot \in 0 .. MaxSlots /\ ck.marks[p] \in Stamps
        /\ ck.slot = live /\ ck.marks[p] # Unknown => live # 0
    BY TaskFields DEF Stages, TaskStages, Clean
  <1>3. Pending => Pending' BY <1>1, <1>2, DirtiedSlot DEF Queued
  <1>4. Work' \/ Held' BY <1>1, <1>3 DEF Busy, Underway, Work, Held
  <1> QED BY <1>1, <1>4 DEF Busy, Started, Underway, Unfinished

\* Create keeps Busy.
LEMMA Busy_Create ==
  ASSUME Typed, Typed', Stages, Files, Handles, Lives, Queued, Busy, Create
  PROVE  Busy'
  <1>1. reg'.membership = reg.membership + 1 /\ reg'.saved = reg.saved BY CreateEffect
  <1>2. reg'.membership # reg'.saved BY <1>1, TaskFields DEF Lives, Counters
  <1> QED BY <1>2, Working DEF Work

\* Retire keeps Busy.
LEMMA Busy_Retire ==
  ASSUME Typed, Typed', Stages, Files, Handles, Lives, Queued, Busy, Retire
  PROVE  Busy'
  <1>1. reg'.membership = reg.membership + 1 /\ reg'.saved = reg.saved BY RetireEffect
  <1>2. reg'.membership # reg'.saved BY <1>1, TaskFields DEF Lives, Counters
  <1> QED BY <1>2, Working DEF Work

\* Tick keeps Busy.
LEMMA Busy_Tick ==
  ASSUME Typed, Typed', Stages, Files, Handles, Lives, Queued, Busy, Tick
  PROVE  Busy'
  <1>1. /\ reader' = reader /\ live' = live /\ shardDirty' = shardDirty
        /\ resident' = resident /\ bases' = bases /\ ck' = ck /\ reg' = reg
    BY TickEffect
  <1> QED BY <1>1, BusyFrame

\* ReadDone keeps Busy.
LEMMA Busy_ReadDone ==
  ASSUME Typed, Typed', Stages, Files, Handles, Lives, Queued, Busy, NEW r \in Readers, ReadDone(r)
  PROVE  Busy'
  <1>1. /\ Others(r) /\ reader[r].pc \notin {"notify", "queue"} /\ live' = live /\ shardDirty' = shardDirty
        /\ ck' = ck /\ reg' = reg /\ resident' = resident /\ bases' = bases
    BY ReadDoneEffect
  <1>2. Work => Work' BY <1>1, ReaderElsewhere DEF Work
  <1> QED BY <1>1, <1>2 DEF Busy, Started, Underway, Unfinished, Held

\* Stamp keeps Busy.
LEMMA Busy_Stamp ==
  ASSUME Typed, Typed', Stages, Files, Handles, Lives, Queued, Busy, NEW r \in Readers, Stamp(r)
  PROVE  Busy'
  <1>1. /\ Others(r) /\ reader[r].pc \notin {"notify", "queue"} /\ live' = live /\ shardDirty' = shardDirty
        /\ ck' = ck /\ reg' = reg /\ resident' = resident /\ bases' = bases
    BY StampEffect
  <1>2. Work => Work' BY <1>1, ReaderElsewhere DEF Work
  <1> QED BY <1>1, <1>2 DEF Busy, Started, Underway, Unfinished, Held

\* Mark keeps Busy.
LEMMA Busy_Mark ==
  ASSUME Typed, Typed', Stages, Files, Handles, Lives, Queued, Busy, NEW r \in Readers, Mark(r)
  PROVE  Busy'
  <1>1. /\ Others(r) /\ reader[r].pc \notin {"notify", "queue"} /\ live' = live /\ shardDirty' = shardDirty
        /\ ck' = ck /\ reg' = reg /\ resident' = resident /\ bases' = bases
    BY MarkEffect
  <1>2. Work => Work' BY <1>1, ReaderElsewhere DEF Work
  <1> QED BY <1>1, <1>2 DEF Busy, Started, Underway, Unfinished, Held

\* Notify keeps Busy.
LEMMA Busy_Notify ==
  ASSUME Typed, Typed', Stages, Files, Handles, Lives, Queued, Busy, NEW r \in Readers, Notify(r)
  PROVE  Busy'
  <1>1. /\ reader[r].pc = "notify" /\ Others(r) /\ live # 0
        /\ reader'[r].pc = "queue" \/ blockDirty # Unknown
        /\ live' = live /\ shardDirty' = shardDirty
    BY NotifyEffect
  <1>2. shardDirty'[live] # Unknown \/ Queuing' BY <1>1 DEF Queued, BlockQueued, Queuing, Others
  <1> QED BY <1>1, <1>2, Working DEF Work, Pending, Queuing

\* Queue keeps Busy.
LEMMA Busy_Queue ==
  ASSUME Typed, Typed', Stages, Files, Handles, Lives, Queued, Busy, NEW r \in Readers, Queue(r)
  PROVE  Busy'
  <1>1. live # 0 /\ shardDirty'[live] # Unknown /\ live' = live BY QueueEffect
  <1> QED BY <1>1, Working DEF Work, Pending

\* Register keeps Busy.
LEMMA Busy_Register ==
  ASSUME Typed, Typed', Stages, Files, Handles, Lives, Queued, Busy, NEW p \in Pages, Register(p)
  PROVE  Busy'
  <1>1. Dirty(live, now) /\ live' = live /\ reader' = reader BY RegisterEffect
  <1>2. live \in 0 .. MaxSlots /\ now \in Stamps /\ now # Unknown
      BY TaskFields, NowStamp, Bounds DEF Typed
  <1>3. live # 0 BY RegisterEffect DEF Stages, Slots
  <1>4. Pending' BY <1>1, <1>2, <1>3, DirtiedSlot DEF Queued
  <1> QED BY <1>4, Working DEF Work

\* Delete keeps Busy.
LEMMA Busy_Delete ==
  ASSUME Typed, Typed', Stages, Files, Handles, Lives, Queued, Busy, NEW p \in Pages, Delete(p)
  PROVE  Busy'
  <1>1. Dirty(live, now) /\ live' = live /\ reader' = reader BY DeleteEffect
  <1>2. live \in 0 .. MaxSlots /\ now \in Stamps /\ now # Unknown
      BY TaskFields, NowStamp, Bounds DEF Typed
  <1>3. live # 0 BY DeleteEffect DEF Stages, Slots
  <1>4. Pending' BY <1>1, <1>2, <1>3, DirtiedSlot DEF Queued
  <1> QED BY <1>4, Working DEF Work

\* Restart keeps Busy.
LEMMA Busy_Restart ==
  ASSUME Typed, Typed', Stages, Files, Handles, Lives, Queued, Busy, Restart
  PROVE  Busy'
  <1>1. PICK b \in bases, l \in logs, found \in SUBSET resident :
           /\ b \in File /\ l \in Log /\ Recovered(b, l) \in Ages
           /\ base' = b /\ bases' = {b} /\ log' = l /\ logs' = {l}
           /\ resident' = found
           /\ last' = [p \in Pages |-> IF p \in found /\ Recovered(b, l)[p] # 0
                                       THEN Recovered(b, l)[p] ELSE Unknown]
           /\ live' = IF found = {} THEN 0 ELSE 1
           /\ reg' \in Registries
           /\ reg'.next = live' /\ reg'.saved = 0 /\ reg'.removed = {} /\ reg'.overflow = 0
           /\ reg'.membership = live' + (IF b.gen = 0 THEN 0 ELSE 1)
           /\ reg'.journal.gen = b.gen /\ reg'.journal.full = TRUE /\ reg'.dir = reg.dir
           /\ saved' = [p \in Pages |-> IF p \in found THEN saved[p] ELSE 0]
    BY RestartFacts
  <1>2. /\ ck' = Idle /\ mark' = Clean /\ blockDirty' = Unknown /\ revision' = 0 /\ savedRevision' = 0
        /\ shardDirty' = [s \in 1 .. MaxSlots |-> Unknown] /\ reader' = [r \in Readers |-> Resting]
    BY DEF Restart
  <1>3. ck'.pc = "idle" BY <1>2, IdleFields
  <1>4. CASE found # {} \/ b.gen # 0
    <2>1. reg'.membership # reg'.saved BY <1>1, <1>4
    <2> QED BY <2>1, Working DEF Work
  <1>5. CASE found = {} /\ b.gen = 0
    <2>1. b.ages = NoAges BY <1>5 DEF Files, Generations
    <2>2. b = NoFile BY <1>1, <1>5, <2>1 DEF File, NoFile
    <2> QED BY <1>1, <1>3, <1>5, <2>2 DEF Busy, Started, Underway, Unfinished, Writing
  <1> QED BY <1>4, <1>5

\* Every step keeps Busy.
LEMMA BusyStep ==
  ASSUME Typed, Typed', Stages, Files, Handles, Lives, Queued, Busy, [Next]_vars
  PROVE  Busy'
  <1>1. CASE UNCHANGED vars BY <1>1
      DEF vars, memory, disk, ghost, Busy, Started, Underway, Unfinished, Work, Pending, Held
  <1>2. CASE Tick BY <1>2, Busy_Tick
  <1>3. ASSUME NEW r \in Readers, ReadDone(r) \/ Touch(r) PROVE Busy'
    BY <1>3, Busy_ReadDone, Busy_Stamp, Busy_Mark, Busy_Notify, Busy_Queue DEF Touch
  <1>4. ASSUME NEW p \in Pages, Register(p) \/ Delete(p) PROVE Busy'
    BY <1>4, Busy_Register, Busy_Delete
  <1>5. CASE Create \/ Retire \/ CkTooLarge \/ CkFail \/ Restart
    BY <1>5, Busy_Create, Busy_Retire, Busy_CkTooLarge, Busy_CkFail, Busy_Restart
  <1>6. CASE Checkpoint
    BY <1>6, Busy_CkStart, Busy_CkJournal, Busy_CkPick, Busy_CkSummary, Busy_CkSample,
        Busy_CkSampled, Busy_CkNoDirectory, Busy_CkEncode, Busy_CkBase, Busy_CkBaseSync,
        Busy_CkLog, Busy_CkLogSync, Busy_CkAppend, Busy_CkAppendSync, Busy_CkSetJournal,
        Busy_CkRevise, Busy_CkFinish, Busy_CkDropSummary, Busy_CkConsume, Busy_CkDropPage
        DEF Checkpoint
  <1> QED BY <1>1, <1>2, <1>3, <1>4, <1>5, <1>6 DEF Next

-----------------------------------------------------------------------------
(* Durable: saved ages are never behind                                    *)

\* Ages are numbers,
LEMMA AgeTypes ==
  ASSUME Typed
  PROVE  \A p \in Pages :
           /\ saved[p] \in Nat /\ last[p] \in Nat /\ mark[p] \in Nat /\ ck.ages[p] \in Nat
           /\ Image[p] \in Nat /\ Under(p) \in Nat /\ Target(p) \in Nat
  <1>1. \A p \in Pages : saved[p] \in Nat /\ ck.ages[p] \in Nat BY TaskFields, Bounds DEF Ages
  <1>2. \A p \in Pages : last[p] \in Nat /\ mark[p] \in Nat BY TaskFields, Bounds
  <1>3. \A p \in Pages : Image[p] \in Nat BY ImageType
  <1>4. \A p \in Pages : Under(p) \in Nat BY <1>3 DEF Under
  <1>5. \A p \in Pages : Target(p) \in Nat BY <1>1, <1>4 DEF Target
  <1> QED BY <1>1, <1>2, <1>3, <1>4, <1>5

\* now
AgesTyped ==
    \A p \in Pages :
        /\ saved[p] \in Nat /\ last[p] \in Nat /\ ck.ages[p] \in Nat
        /\ Target(p) \in Nat

\* and so they are
LEMMA AgesTypedNow == Typed => AgesTyped
  BY AgeTypes DEF AgesTyped

\* after the step.
LEMMA AgesTypedThen == Typed' => AgesTyped'
  BY AgesTypedNow, PTL

\* The same, page by page.
LEMMA AgeTypesNext ==
  ASSUME Typed'
  PROVE  \A p \in Pages :
           saved'[p] \in Nat /\ last'[p] \in Nat /\ ck'.ages[p] \in Nat /\ Target(p)' \in Nat
  BY AgesTypedThen DEF AgesTyped

\* Where a tombstone is due nothing is saved: the block is a new life.
LEMMA GoneUnsaved ==
  ASSUME Typed, Lives, ck.pc \in {"pick"} \cup Holding, ck.gone
  PROVE  NewLife /\ \A p \in Pages : saved[p] = 0
  <1>1. PICK m \in reg.removed : m <= ck.upto BY DEF Lives, TombDue
  <1>2. m > 0 BY <1>1, TaskFields DEF Lives, Counters
  <1>3. Later(0) BY <1>2 DEF Later
  <1>4. ck.pc # "finish" BY DEF Holding, Sampled, Writing
  <1>5. NewLife BY <1>3, <1>4 DEF Lives, LaterLife
  <1> QED BY <1>5 DEF NewLife

\* The delta finds no page behind its saved age.
LEMMA UnderSaved ==
  ASSUME Typed, Lives, Durable, ck.pc \in {"pick"} \cup Holding
  PROVE  \A p \in Pages : saved[p] <= Under(p)
  <1>1. \A p \in Pages : saved[p] <= Image[p] BY DEF Durable, SavedOnDisk, Image, Typed
  <1>2. CASE ck.gone BY <1>2, GoneUnsaved, AgeTypes DEF Under
  <1>3. CASE ~ck.gone BY <1>1, <1>3 DEF Under
  <1> QED BY <1>2, <1>3

\* A step that touches neither ages nor files keeps Durable.
LEMMA DurableFrame ==
  ASSUME Durable,
         /\ saved' = saved /\ last' = last /\ ck'.pc = ck.pc /\ ck'.ages = ck.ages
         /\ ck'.orphans = ck.orphans /\ ck'.full = ck.full /\ ck'.slot = ck.slot
         /\ ck'.replace = ck.replace /\ ck'.gone = ck.gone /\ base' = base /\ log' = log
         /\ ck'.todo = ck.todo /\ ck'.page = ck.page /\ bases' = bases /\ logs' = logs
  PROVE  Durable'
  <1>1. SavedKnown' BY DEF Durable, SavedKnown
  <1>2. AgesKnown' BY DEF Durable, AgesKnown
  <1>3. OrphansUnsaved' BY DEF Durable, OrphansUnsaved
  <1>4. SavedTarget' BY DEF Durable, SavedTarget, Holding, Sampled, Writing, Target, Under, Image
  <1>5. SavedUnder' BY DEF Durable, SavedUnder, Under, Image
  <1>6. SavedSoFar' BY DEF Durable, SavedSoFar, Target, Under, Image
  <1>7. SavedOnDisk' BY DEF Durable, SavedOnDisk
  <1> QED BY <1>1, <1>2, <1>3, <1>4, <1>5, <1>6, <1>7 DEF Durable


\* A task that sampled and moves on keeps Durable.
LEMMA DurableMove ==
  ASSUME Typed, Typed', Stages, Files, Outcome, Handles, Lives, Durable,
         /\ ck.pc \in Sampled /\ ck'.pc \in Sampled /\ saved' = saved /\ last' = last
         /\ ck'.ages = ck.ages /\ ck'.orphans = ck.orphans /\ ck'.full = ck.full
         /\ ck'.slot = ck.slot /\ ck'.replace = ck.replace /\ ck'.gone = ck.gone
         /\ base' = base /\ log' = log /\ ck'.todo = ck.todo /\ ck'.page = ck.page
         /\ bases' = bases /\ logs' = logs
  PROVE  Durable'
  <1>1. SavedKnown' BY DEF Durable, SavedKnown, Holding, Sampled, Writing
  <1>2. AgesKnown' BY DEF Durable, AgesKnown, Holding, Sampled, Writing
  <1>3. OrphansUnsaved' BY DEF Durable, OrphansUnsaved, Holding, Sampled, Writing
  <1>4. SavedTarget' BY DEF Durable, SavedTarget, Holding, Sampled, Writing, Target, Under, Image
  <1>5. SavedUnder' BY DEF Durable, SavedUnder, Under, Image, Holding, Sampled, Writing
  <1>6. SavedSoFar' BY DEF Durable, SavedSoFar, Target, Under, Image, Holding, Sampled, Writing
  <1>7. SavedOnDisk' BY DEF Durable, SavedOnDisk, Holding, Sampled, Writing
  <1> QED BY <1>1, <1>2, <1>3, <1>4, <1>5, <1>6, <1>7 DEF Durable


\* CkStart keeps Durable.
LEMMA Durable_CkStart ==
  ASSUME Typed, Typed', Stages, Files, Outcome, Handles, Lives, Durable, CkStart
  PROVE  Durable'
  <1>1. SavedKnown'
    <2>1. saved' = saved /\ last' = last BY CkStartEffect
    <2> QED BY <2>1 DEF Durable, SavedKnown
  <1>2. AgesKnown'
    <2>1. ck'.ages = NoAges BY CkStartEffect
    <2> QED BY <2>1 DEF AgesKnown, NoAges
  <1>3. OrphansUnsaved'
    <2>1. /\ ck.pc = "idle" /\ Due /\ ck'.pc = "journal" /\ ck'.orphans = {}
          /\ saved' = saved
      BY CkStartEffect
    <2> QED BY <2>1, TaskFields DEF Durable, OrphansUnsaved
  <1>4. SavedTarget'
    <2>1. /\ ck.pc = "idle" /\ Due /\ ck'.pc = "journal" /\ ck'.full = FALSE
          /\ ck'.gone = FALSE /\ ck'.slot = 0 /\ ck'.replace = FALSE /\ ck'.ages = NoAges
          /\ base' = base /\ log' = log /\ saved' = saved
      BY CkStartEffect
    <2> QED BY <2>1 DEF Durable, SavedTarget, Holding, Sampled, Writing, Target, Under, Image
  <1>5. SavedUnder'
    <2>1. /\ ck.pc = "idle" /\ Due /\ ck'.pc = "journal" /\ ck'.gone = FALSE
          /\ ck'.replace = FALSE /\ base' = base /\ log' = log /\ saved' = saved
      BY CkStartEffect
    <2> QED BY <2>1 DEF Durable, SavedUnder, Under, Image
  <1>6. SavedSoFar'
    <2>1. /\ ck.pc = "idle" /\ Due /\ ck'.pc = "journal" /\ ck'.full = FALSE
          /\ ck'.gone = FALSE /\ ck'.slot = 0 /\ ck'.replace = FALSE /\ ck'.todo = {}
          /\ ck'.ages = NoAges /\ base' = base /\ log' = log /\ saved' = saved
      BY CkStartEffect
    <2> QED BY <2>1 DEF Durable, SavedSoFar, Target, Under, Image
  <1>7. SavedOnDisk'
    <2>1. saved' = saved /\ bases' = bases /\ logs' = logs BY CkStartEffect
    <2> QED BY <2>1 DEF Durable, SavedOnDisk
  <1> QED BY <1>1, <1>2, <1>3, <1>4, <1>5, <1>6, <1>7 DEF Durable

\* CkJournal keeps Durable.
LEMMA Durable_CkJournal ==
  ASSUME Typed, Typed', Stages, Files, Outcome, Handles, Lives, Durable, CkJournal
  PROVE  Durable'
  <1>1. SavedKnown'
    <2>1. saved' = saved /\ last' = last BY CkJournalEffect
    <2> QED BY <2>1 DEF Durable, SavedKnown
  <1>2. AgesKnown'
    <2>1. /\ ck.pc = "journal" /\ ck'.pc = "pick" /\ ck'.ages = ck.ages
          /\ ck'.orphans = ck.orphans /\ last' = last
      BY CkJournalEffect
    <2> QED BY <2>1, AgeTypes, AgeTypesNext DEF Durable, AgesKnown
  <1>3. OrphansUnsaved'
    <2>1. /\ ck.pc = "journal" /\ ck'.pc = "pick" /\ ck'.orphans = ck.orphans
          /\ saved' = saved
      BY CkJournalEffect
    <2> QED BY <2>1, TaskFields DEF Durable, OrphansUnsaved
  <1>4. SavedTarget'
    <2>1. /\ ck.pc = "journal"
          /\ (ck'.full = (reg.journal.full \/ reg.overflow # 0 \/ reg.journal.size >= CompactAt))
          /\ (ck'.gone = (\E m \in reg.removed : m <= ck.upto)) /\ ck'.pc = "pick"
          /\ ck'.slot = ck.slot /\ ck'.replace = ck.replace /\ ck'.ages = ck.ages
          /\ base' = base /\ log' = log /\ saved' = saved
      BY CkJournalEffect
    <2> QED BY <2>1 DEF Durable, SavedTarget, Holding, Sampled, Writing, Target, Under, Image
  <1>5. SavedUnder'
    <2>1. /\ ck.pc = "journal" /\ (ck'.gone = (\E m \in reg.removed : m <= ck.upto))
          /\ ck'.pc = "pick" /\ ck'.replace = ck.replace /\ base' = base /\ log' = log
          /\ saved' = saved
      BY CkJournalEffect
    <2> QED BY <2>1 DEF Durable, SavedUnder, Under, Image
  <1>6. SavedSoFar'
    <2>1. /\ ck.pc = "journal"
          /\ (ck'.full = (reg.journal.full \/ reg.overflow # 0 \/ reg.journal.size >= CompactAt))
          /\ (ck'.gone = (\E m \in reg.removed : m <= ck.upto)) /\ ck'.pc = "pick"
          /\ ck'.slot = ck.slot /\ ck'.replace = ck.replace /\ ck'.todo = ck.todo
          /\ ck'.page = ck.page /\ ck'.ages = ck.ages /\ base' = base /\ log' = log
          /\ saved' = saved
      BY CkJournalEffect
    <2> QED BY <2>1 DEF Durable, SavedSoFar, Target, Under, Image
  <1>7. SavedOnDisk'
    <2>1. saved' = saved /\ bases' = bases /\ logs' = logs BY CkJournalEffect
    <2> QED BY <2>1 DEF Durable, SavedOnDisk
  <1> QED BY <1>1, <1>2, <1>3, <1>4, <1>5, <1>6, <1>7 DEF Durable

\* CkPick keeps Durable.
LEMMA Durable_CkPick ==
  ASSUME Typed, Typed', Stages, Files, Outcome, Handles, Lives, Durable, CkPick
  PROVE  Durable'
  <1>1. SavedKnown'
    <2>1. saved' = saved /\ last' = last BY CkPickEffect
    <2> QED BY <2>1 DEF Durable, SavedKnown
  <1>2. AgesKnown'
    <2>1. /\ ck.pc = "pick"
          /\ ((Eligible /\ ck'.pc = "summary" /\ ck'.slot = live /\ ck'.held = TRUE)
              \/ (~Eligible /\ ck'.pc = "encode" /\ ck'.slot = ck.slot /\ ck'.held = ck.held))
          /\ ck'.ages = ck.ages /\ ck'.orphans = ck.orphans /\ last' = last
      BY CkPickEffect
    <2> QED BY <2>1, AgeTypes, AgeTypesNext DEF Durable, AgesKnown
  <1>3. OrphansUnsaved'
    <2>1. /\ ck.pc = "pick"
          /\ ((Eligible /\ ck'.pc = "summary" /\ ck'.slot = live /\ ck'.held = TRUE)
              \/ (~Eligible /\ ck'.pc = "encode" /\ ck'.slot = ck.slot /\ ck'.held = ck.held))
          /\ ck'.orphans = ck.orphans /\ saved' = saved
      BY CkPickEffect
    <2> QED BY <2>1, TaskFields DEF Durable, OrphansUnsaved
  <1>4. SavedTarget'
    <2>1. /\ ck.pc = "pick" /\ saved' = saved /\ ck'.full = ck.full /\ ck'.gone = ck.gone
          /\ ck'.ages = ck.ages /\ ck'.replace = ck.replace /\ base' = base /\ log' = log
          /\ ck'.pc = "summary" \/ (~Eligible /\ ck'.pc = "encode" /\ ck'.slot = ck.slot)
      BY CkPickEffect
    <2>2. ck.slot = 0 BY <2>1 DEF Stages, TaskStages
    <2>3. SUFFICES ASSUME ~Eligible, ck'.pc = "encode", ck'.slot = ck.slot
          PROVE  \A p \in Pages : saved[p] <= Target(p)
      BY <2>1, TargetFrame DEF SavedTarget, Sampled, Writing, TaskKept
    <2>4. CASE ck.full
      <3>1. live = 0 \/ live > ck.ceiling BY <2>3, <2>4, Numbers DEF Eligible
      <3>2. CASE live = 0
        <4>1. resident = {} BY <3>2 DEF Stages, Slots
        <4> QED BY <4>1, AgeTypes DEF Handles, Absent
      <3>3. CASE live > ck.ceiling BY <2>1, <3>3, AgeTypes DEF Lives, YoungLife, NewLife
      <3> QED BY <3>1, <3>2, <3>3
    <2>5. CASE ~ck.full BY <2>1, <2>2, <2>5, UnderSaved DEF Target
    <2> QED BY <2>4, <2>5
  <1>5. SavedUnder'
    <2>1. /\ ck.pc = "pick"
          /\ ((Eligible /\ ck'.pc = "summary" /\ ck'.slot = live /\ ck'.held = TRUE)
              \/ (~Eligible /\ ck'.pc = "encode" /\ ck'.slot = ck.slot /\ ck'.held = ck.held))
          /\ ck'.gone = ck.gone /\ ck'.replace = ck.replace /\ base' = base /\ log' = log
          /\ saved' = saved
      BY CkPickEffect
    <2> QED BY <2>1 DEF Durable, SavedUnder, Under, Image
  <1>6. SavedSoFar'
    <2>1. /\ ck.pc = "pick"
          /\ ((Eligible /\ ck'.pc = "summary" /\ ck'.slot = live /\ ck'.held = TRUE)
              \/ (~Eligible /\ ck'.pc = "encode" /\ ck'.slot = ck.slot /\ ck'.held = ck.held))
          /\ ck'.full = ck.full /\ ck'.gone = ck.gone /\ ck'.replace = ck.replace
          /\ ck'.todo = ck.todo /\ ck'.page = ck.page /\ ck'.ages = ck.ages /\ base' = base
          /\ log' = log /\ saved' = saved
      BY CkPickEffect
    <2> QED BY <2>1 DEF Durable, SavedSoFar, Target, Under, Image
  <1>7. SavedOnDisk'
    <2>1. saved' = saved /\ bases' = bases /\ logs' = logs BY CkPickEffect
    <2> QED BY <2>1 DEF Durable, SavedOnDisk
  <1> QED BY <1>1, <1>2, <1>3, <1>4, <1>5, <1>6, <1>7 DEF Durable

\* CkSummary keeps Durable.
LEMMA Durable_CkSummary ==
  ASSUME Typed, Typed', Stages, Files, Outcome, Handles, Lives, Durable, CkSummary
  PROVE  Durable'
  <1>1. SavedKnown'
    <2>1. saved' = saved /\ last' = last BY CkSummaryEffect
    <2> QED BY <2>1 DEF Durable, SavedKnown
  <1>2. AgesKnown'
    <2>1. ck.pc = "summary" /\ ck'.ages = ck.ages BY CkSummaryEffect
    <2>2. ck.ages = NoAges BY <2>1 DEF Stages, TaskStages
    <2> QED BY <2>1, <2>2 DEF AgesKnown, NoAges
  <1>3. OrphansUnsaved'
    <2>1. /\ ck.pc = "summary" /\ ck'.pc = "consume" /\ ck'.orphans = {} /\ saved' = saved
      BY CkSummaryEffect
    <2> QED BY <2>1, TaskFields DEF Durable, OrphansUnsaved
  <1>4. SavedTarget'
    <2>1. /\ ck.pc = "summary" /\ ck'.pc = "consume" /\ ck'.full = ck.full
          /\ ck'.gone = ck.gone /\ ck'.slot = ck.slot
          /\ (ck'.replace = (ck.full \/ revision # savedRevision)) /\ ck'.ages = ck.ages
          /\ base' = base /\ log' = log /\ saved' = saved
      BY CkSummaryEffect
    <2> QED BY <2>1 DEF Durable, SavedTarget, Holding, Sampled, Writing, Target, Under, Image
  <1>5. SavedUnder'
    <2>1. ck.pc = "summary" /\ saved' = saved /\ ck'.gone = ck.gone /\ base' = base /\ log' = log
      BY CkSummaryEffect
    <2>2. \A p \in Pages : saved[p] <= Under(p) BY <2>1, UnderSaved DEF Holding
    <2>3. \A p \in Pages : Under(p)' = Under(p) BY <2>1 DEF Under, Image
    <2> QED BY <2>1, <2>2, <2>3 DEF SavedUnder
  <1>6. SavedSoFar'
    <2>1. ck'.pc = "consume" /\ saved' = saved /\ ck'.todo = resident BY CkSummaryEffect
    <2>2. \A p \in Pages : p \notin resident => saved[p] = 0 BY DEF Handles, Absent
    <2>3. \A p \in Pages : Target(p)' \in Nat BY AgeTypesNext
    <2> QED BY <2>1, <2>2, <2>3 DEF SavedSoFar
  <1>7. SavedOnDisk'
    <2>1. saved' = saved /\ bases' = bases /\ logs' = logs BY CkSummaryEffect
    <2> QED BY <2>1 DEF Durable, SavedOnDisk
  <1> QED BY <1>1, <1>2, <1>3, <1>4, <1>5, <1>6, <1>7 DEF Durable

\* CkSample keeps Durable.
LEMMA Durable_CkSample ==
  ASSUME Typed, Typed', Stages, Files, Outcome, Handles, Lives, Durable, CkSample
  PROVE  Durable'
  <1>1. SavedKnown'
    <2>1. saved' = saved /\ last' = last BY CkSampleEffect
    <2> QED BY <2>1 DEF Durable, SavedKnown
  <1>2. AgesKnown'
    <2> DEFINE a == IF last[ck.page] # Unknown /\ (ck.replace \/ ck.marks[ck.page] # Unknown)
                    THEN last[ck.page] ELSE 0
    <2>1. /\ ck.pc = "sample" /\ ck'.pc = "consume" /\ ck'.todo = ck.todo /\ ck'.orphans = ck.orphans
          /\ ck'.full = ck.full /\ ck'.replace = ck.replace /\ ck'.slot = ck.slot /\ ck'.gone = ck.gone
          /\ last' = last /\ saved' = saved /\ base' = base /\ log' = log
          /\ ck'.ages = [ck.ages EXCEPT ![ck.page] = a]
      BY CkSampleEffect
    <2>2. /\ a # 0 => last[ck.page] # Unknown /\ a = last[ck.page]
          /\ ck.replace => a = IF last[ck.page] # Unknown THEN last[ck.page] ELSE 0
      OBVIOUS
    <2> HIDE DEF a
    <2>3. ck.page \in resident /\ ck.page \in Pages BY <2>1, TaskFields DEF Stages, TaskStages
    <2>4. \A q \in Pages : ck'.ages[q] = IF q = ck.page THEN a ELSE ck.ages[q]
      BY <2>1, TaskFields DEF Ages
    <2>5. last[ck.page] \in Nat BY <2>3, AgeTypes
    <2> QED BY <2>1, <2>2, <2>3, <2>4, <2>5 DEF Durable, AgesKnown
  <1>3. OrphansUnsaved'
    <2>1. /\ ck.pc = "sample" /\ ck'.pc = "consume" /\ ck'.orphans = ck.orphans
          /\ saved' = saved
      BY CkSampleEffect
    <2> QED BY <2>1, TaskFields DEF Durable, OrphansUnsaved
  <1>4. SavedTarget'
    <2>1. /\ ck.pc = "sample" /\ ck'.pc = "consume" /\ ck'.full = ck.full
          /\ ck'.gone = ck.gone /\ ck'.slot = ck.slot /\ ck'.replace = ck.replace
          /\ (ck'.ages = [ck.ages EXCEPT ![ck.page] =
              IF last[ck.page] # Unknown /\ (ck.replace \/ ck.marks[ck.page] # Unknown) THEN last[ck.page] ELSE 0])
          /\ base' = base /\ log' = log /\ saved' = saved
      BY CkSampleEffect
    <2> QED BY <2>1 DEF Durable, SavedTarget, Holding, Sampled, Writing, Target, Under, Image
  <1>5. SavedUnder'
    <2>1. /\ ck.pc = "sample" /\ ck'.pc = "consume" /\ ck'.gone = ck.gone
          /\ ck'.replace = ck.replace /\ base' = base /\ log' = log /\ saved' = saved
      BY CkSampleEffect
    <2> QED BY <2>1 DEF Durable, SavedUnder, Under, Image
  <1>6. SavedSoFar'
    <2> DEFINE a == IF last[ck.page] # Unknown /\ (ck.replace \/ ck.marks[ck.page] # Unknown)
                    THEN last[ck.page] ELSE 0
    <2>1. /\ ck.pc = "sample" /\ ck'.pc = "consume" /\ ck'.todo = ck.todo /\ ck'.orphans = ck.orphans
          /\ ck'.full = ck.full /\ ck'.replace = ck.replace /\ ck'.slot = ck.slot /\ ck'.gone = ck.gone
          /\ last' = last /\ saved' = saved /\ base' = base /\ log' = log
          /\ ck'.ages = [ck.ages EXCEPT ![ck.page] = a]
      BY CkSampleEffect
    <2>2. /\ a # 0 => last[ck.page] # Unknown /\ a = last[ck.page]
          /\ ck.replace => a = IF last[ck.page] # Unknown THEN last[ck.page] ELSE 0
      OBVIOUS
    <2> HIDE DEF a
    <2>3. ck.page \in resident /\ ck.page \in Pages BY <2>1, TaskFields DEF Stages, TaskStages
    <2>4. \A q \in Pages : ck'.ages[q] = IF q = ck.page THEN a ELSE ck.ages[q]
      BY <2>1, TaskFields DEF Ages
    <2>5. ck.slot # 0 /\ (ck.full => ck.replace)
      BY <2>1 DEF Stages, TaskStages, Outcome, Holding
    <2>6. Image' = Image BY <2>1 DEF Image
    <2>7. \A q \in Pages : q # ck.page => Target(q)' = Target(q)
      BY <2>1, <2>4, <2>6 DEF Target, Under
    <2>8. ASSUME NEW q \in Pages, q = ck.page PROVE saved[q] <= Target(q)'
      <3>0. /\ saved[q] \in Nat /\ last[q] \in Nat /\ Under(q) \in Nat
            /\ (saved[q] # 0 => last[q] # Unknown /\ saved[q] <= last[q])
        BY AgeTypes DEF Durable, SavedKnown
      <3>1. Target(q)' = IF ck.full \/ (ck.slot # 0 /\ (ck.replace \/ a # 0)) THEN a ELSE Under(q)
        <4>1. ck'.ages[q] = a BY <2>8, <2>4
        <4>2. Under(q)' = Under(q) BY <2>1, <2>6 DEF Under
        <4> QED BY <2>1, <4>1, <4>2 DEF Target
      <3>a. (a # 0 => last[q] # Unknown /\ a = last[q])
            /\ (ck.replace => a = IF last[q] # Unknown THEN last[q] ELSE 0)
        BY <2>2, <2>8
      <3>2. CASE ck.replace BY <3>0, <3>1, <3>2, <3>a, <2>5
      <3>3. CASE ~ck.replace /\ a # 0 BY <3>0, <3>1, <3>3, <3>a, <2>5
      <3>4. CASE ~ck.replace /\ a = 0
        <4>1. saved[q] <= Under(q) BY <2>1, <3>4 DEF Durable, SavedUnder
        <4> QED BY <3>1, <3>4, <2>5, <4>1
      <3> QED BY <3>2, <3>3, <3>4
    <2>9. ASSUME NEW q \in Pages, q \notin ck.todo PROVE saved[q] <= Target(q)'
      <3>1. CASE q = ck.page BY <2>8, <3>1
      <3>2. CASE q # ck.page BY <2>1, <2>7, <2>9, <3>2 DEF Durable, SavedSoFar
      <3> QED BY <3>1, <3>2
    <2> QED BY <2>1, <2>9 DEF SavedSoFar
  <1>7. SavedOnDisk'
    <2>1. saved' = saved /\ bases' = bases /\ logs' = logs BY CkSampleEffect
    <2> QED BY <2>1 DEF Durable, SavedOnDisk
  <1> QED BY <1>1, <1>2, <1>3, <1>4, <1>5, <1>6, <1>7 DEF Durable

\* CkSampled keeps Durable.
LEMMA Durable_CkSampled ==
  ASSUME Typed, Typed', Stages, Files, Outcome, Handles, Lives, Durable, CkSampled
  PROVE  Durable'
  <1>1. SavedKnown'
    <2>1. saved' = saved /\ last' = last BY CkSampledEffect
    <2> QED BY <2>1 DEF Durable, SavedKnown
  <1>2. AgesKnown'
    <2>1. /\ ck.pc = "consume" /\ ck.todo = {} /\ ck'.pc = "encode" /\ ck'.ages = ck.ages
          /\ ck'.orphans = ck.orphans /\ last' = last
      BY CkSampledEffect
    <2> QED BY <2>1, AgeTypes, AgeTypesNext DEF Durable, AgesKnown
  <1>3. OrphansUnsaved'
    <2>1. /\ ck.pc = "consume" /\ ck.todo = {} /\ ck'.pc = "encode"
          /\ ck'.orphans = ck.orphans /\ saved' = saved
      BY CkSampledEffect
    <2> QED BY <2>1, TaskFields DEF Durable, OrphansUnsaved
  <1>4. SavedTarget'
    <2>1. /\ ck.pc = "consume" /\ ck.todo = {} /\ saved' = saved /\ base' = base /\ log' = log /\ TaskKept
      BY CkSampledEffect DEF TaskKept
    <2>2. \A p \in Pages : Target(p)' = Target(p) BY <2>1, TargetFrame
    <2> QED BY <2>1, <2>2 DEF Durable, SavedSoFar, SavedTarget
  <1>5. SavedUnder'
    <2>1. /\ ck.pc = "consume" /\ ck.todo = {} /\ ck'.pc = "encode" /\ ck'.gone = ck.gone
          /\ ck'.replace = ck.replace /\ base' = base /\ log' = log /\ saved' = saved
      BY CkSampledEffect
    <2> QED BY <2>1 DEF Durable, SavedUnder, Under, Image
  <1>6. SavedSoFar'
    <2>1. /\ ck.pc = "consume" /\ ck.todo = {} /\ ck'.pc = "encode" /\ ck'.full = ck.full
          /\ ck'.gone = ck.gone /\ ck'.slot = ck.slot /\ ck'.replace = ck.replace
          /\ ck'.todo = ck.todo /\ ck'.page = ck.page /\ ck'.ages = ck.ages /\ base' = base
          /\ log' = log /\ saved' = saved
      BY CkSampledEffect
    <2> QED BY <2>1 DEF Durable, SavedSoFar, Target, Under, Image
  <1>7. SavedOnDisk'
    <2>1. saved' = saved /\ bases' = bases /\ logs' = logs BY CkSampledEffect
    <2> QED BY <2>1 DEF Durable, SavedOnDisk
  <1> QED BY <1>1, <1>2, <1>3, <1>4, <1>5, <1>6, <1>7 DEF Durable

\* CkTooLarge keeps Durable.
LEMMA Durable_CkTooLarge ==
  ASSUME Typed, Typed', Stages, Files, Outcome, Handles, Lives, Durable, CkTooLarge
  PROVE  Durable'
  <1>1. SavedKnown'
    <2>1. saved' = saved /\ last' = last BY CkTooLargeEffect
    <2> QED BY <2>1 DEF Durable, SavedKnown
  <1>2. AgesKnown'
    <2>1. ck'.ages = NoAges BY CkTooLargeEffect
    <2> QED BY <2>1 DEF AgesKnown, NoAges
  <1>3. OrphansUnsaved'
    <2>1. /\ ck.pc = "consume" /\ ck.todo = resident /\ ck'.pc = "idle" /\ ck'.orphans = {}
          /\ saved' = saved
      BY CkTooLargeEffect
    <2> QED BY <2>1, TaskFields DEF Durable, OrphansUnsaved
  <1>4. SavedTarget'
    <2>1. /\ ck.pc = "consume" /\ ck.todo = resident /\ ck'.pc = "idle" /\ ck'.full = FALSE
          /\ ck'.gone = FALSE /\ ck'.slot = 0 /\ ck'.replace = FALSE /\ ck'.ages = NoAges
          /\ base' = base /\ log' = log /\ saved' = saved
      BY CkTooLargeEffect
    <2> QED BY <2>1 DEF Durable, SavedTarget, Holding, Sampled, Writing, Target, Under, Image
  <1>5. SavedUnder'
    <2>1. /\ ck.pc = "consume" /\ ck.todo = resident /\ ck'.pc = "idle" /\ ck'.gone = FALSE
          /\ ck'.replace = FALSE /\ base' = base /\ log' = log /\ saved' = saved
      BY CkTooLargeEffect
    <2> QED BY <2>1 DEF Durable, SavedUnder, Under, Image
  <1>6. SavedSoFar'
    <2>1. /\ ck.pc = "consume" /\ ck.todo = resident /\ ck'.pc = "idle" /\ ck'.full = FALSE
          /\ ck'.gone = FALSE /\ ck'.slot = 0 /\ ck'.replace = FALSE /\ ck'.todo = {}
          /\ ck'.ages = NoAges /\ base' = base /\ log' = log /\ saved' = saved
      BY CkTooLargeEffect
    <2> QED BY <2>1 DEF Durable, SavedSoFar, Target, Under, Image
  <1>7. SavedOnDisk'
    <2>1. saved' = saved /\ bases' = bases /\ logs' = logs BY CkTooLargeEffect
    <2> QED BY <2>1 DEF Durable, SavedOnDisk
  <1> QED BY <1>1, <1>2, <1>3, <1>4, <1>5, <1>6, <1>7 DEF Durable

\* CkNoDirectory keeps Durable.
LEMMA Durable_CkNoDirectory ==
  ASSUME Typed, Typed', Stages, Files, Outcome, Handles, Lives, Durable, CkNoDirectory
  PROVE  Durable'
  <1>1. SavedKnown'
    <2>1. saved' = saved /\ last' = last BY CkNoDirectoryEffect
    <2> QED BY <2>1 DEF Durable, SavedKnown
  <1>2. AgesKnown'
    <2>1. ck'.ages = NoAges BY CkNoDirectoryEffect
    <2> QED BY <2>1 DEF AgesKnown, NoAges
  <1>3. OrphansUnsaved'
    <2>1. /\ ck.pc = "encode" /\ ~reg.dir /\ ck'.pc = "idle" /\ ck'.orphans = {}
          /\ saved' = saved
      BY CkNoDirectoryEffect
    <2> QED BY <2>1, TaskFields DEF Durable, OrphansUnsaved
  <1>4. SavedTarget'
    <2>1. /\ ck.pc = "encode" /\ ~reg.dir /\ ck'.pc = "idle" /\ ck'.full = FALSE
          /\ ck'.gone = FALSE /\ ck'.slot = 0 /\ ck'.replace = FALSE /\ ck'.ages = NoAges
          /\ base' = base /\ log' = log /\ saved' = saved
      BY CkNoDirectoryEffect
    <2> QED BY <2>1 DEF Durable, SavedTarget, Holding, Sampled, Writing, Target, Under, Image
  <1>5. SavedUnder'
    <2>1. /\ ck.pc = "encode" /\ ~reg.dir /\ ck'.pc = "idle" /\ ck'.gone = FALSE
          /\ ck'.replace = FALSE /\ base' = base /\ log' = log /\ saved' = saved
      BY CkNoDirectoryEffect
    <2> QED BY <2>1 DEF Durable, SavedUnder, Under, Image
  <1>6. SavedSoFar'
    <2>1. /\ ck.pc = "encode" /\ ~reg.dir /\ ck'.pc = "idle" /\ ck'.full = FALSE
          /\ ck'.gone = FALSE /\ ck'.slot = 0 /\ ck'.replace = FALSE /\ ck'.todo = {}
          /\ ck'.ages = NoAges /\ base' = base /\ log' = log /\ saved' = saved
      BY CkNoDirectoryEffect
    <2> QED BY <2>1 DEF Durable, SavedSoFar, Target, Under, Image
  <1>7. SavedOnDisk'
    <2>1. saved' = saved /\ bases' = bases /\ logs' = logs BY CkNoDirectoryEffect
    <2> QED BY <2>1 DEF Durable, SavedOnDisk
  <1> QED BY <1>1, <1>2, <1>3, <1>4, <1>5, <1>6, <1>7 DEF Durable

\* CkEncode keeps Durable.
LEMMA Durable_CkEncode ==
  ASSUME Typed, Typed', Stages, Files, Outcome, Handles, Lives, Durable, CkEncode
  PROVE  Durable'
  <1>1. /\ ck.pc \in Sampled /\ ck'.pc \in Sampled BY CkEncodeEffect DEF Sampled, Writing
  <1>2. /\ saved' = saved /\ last' = last /\ ck'.ages = ck.ages /\ ck'.orphans = ck.orphans
        /\ ck'.full = ck.full /\ ck'.slot = ck.slot /\ ck'.replace = ck.replace
        /\ ck'.gone = ck.gone /\ base' = base /\ log' = log /\ ck'.todo = ck.todo
        /\ ck'.page = ck.page /\ bases' = bases /\ logs' = logs
    BY CkEncodeEffect
  <1> QED BY <1>1, <1>2, DurableMove

\* CkBase keeps Durable.
LEMMA Durable_CkBase ==
  ASSUME Typed, Typed', Stages, Files, Outcome, Handles, Lives, Durable, CkBase
  PROVE  Durable'
  <1>1. SavedKnown'
    <2>1. saved' = saved /\ last' = last BY CkBaseEffect
    <2> QED BY <2>1 DEF Durable, SavedKnown
  <1>2. AgesKnown'
    <2>1. /\ ck.pc = "base" /\ ck'.pc = "baseSync" /\ ck'.ages = ck.ages
          /\ ck'.orphans = ck.orphans /\ last' = last
      BY CkBaseEffect
    <2> QED BY <2>1, AgeTypes, AgeTypesNext DEF Durable, AgesKnown
  <1>3. OrphansUnsaved'
    <2>1. /\ ck.pc = "base" /\ ck'.pc = "baseSync" /\ ck'.orphans = ck.orphans
          /\ saved' = saved
      BY CkBaseEffect
    <2> QED BY <2>1, TaskFields DEF Durable, OrphansUnsaved
  <1>4. SavedTarget'
    <2>1. ck.pc \in {"base", "log"} /\ saved' = saved /\ TaskKept BY CkBaseEffect DEF TaskKept
    <2>2. ck.full BY <2>1 DEF Files, Writes
    <2>3. \A p \in Pages : Target(p)' = Target(p) BY <2>1, <2>2 DEF Target, TaskKept
    <2> QED BY <2>1, <2>3 DEF Durable, SavedTarget, Sampled, Writing
  <1>5. SavedUnder'
    <2>1. /\ ck.pc = "base" /\ base' \in File /\ bases' = bases \cup {base'}
          /\ ck'.pc = "baseSync" /\ ck'.gone = ck.gone /\ ck'.replace = ck.replace
          /\ log' = log /\ saved' = saved
      BY CkBaseEffect
    <2> QED BY <2>1 DEF Durable, SavedUnder, Under, Image
  <1>6. SavedSoFar'
    <2>1. /\ ck.pc = "base" /\ base' \in File /\ bases' = bases \cup {base'}
          /\ ck'.pc = "baseSync" /\ ck'.full = ck.full /\ ck'.gone = ck.gone
          /\ ck'.slot = ck.slot /\ ck'.replace = ck.replace /\ ck'.todo = ck.todo
          /\ ck'.page = ck.page /\ ck'.ages = ck.ages /\ log' = log /\ saved' = saved
      BY CkBaseEffect
    <2> QED BY <2>1 DEF Durable, SavedSoFar, Target, Under, Image
  <1>7. SavedOnDisk'
    <2>1. /\ ck.pc = "base" /\ base' \in File /\ base'.gen = ck.journal.gen + 1 /\ base'.ages = ck.ages
          /\ bases' = bases \cup {base'} /\ logs' = logs /\ saved' = saved
      BY CkBaseEffect
    <2>2. ck.journal.gen = reg.journal.gen /\ ck.full BY <2>1 DEF Files, Retry, Writes, Writing
    <2>3. \A l \in logs : l \in Log /\ (l.gen = base'.gen => l.frames = <<>>)
      BY <2>1, <2>2 DEF Files, Generations, Typed
    <2>4. \A l \in logs : Recovered(base', l) = ck.ages BY <2>1, <2>3, RecoveredPlain
    <2>5. \A p \in Pages : saved[p] <= ck.ages[p]
      BY <2>1, <2>2 DEF Durable, SavedTarget, Sampled, Writing, Target
    <2> QED BY <2>1, <2>4, <2>5 DEF Durable, SavedOnDisk
  <1> QED BY <1>1, <1>2, <1>3, <1>4, <1>5, <1>6, <1>7 DEF Durable

\* CkBaseSync keeps Durable.
LEMMA Durable_CkBaseSync ==
  ASSUME Typed, Typed', Stages, Files, Outcome, Handles, Lives, Durable, CkBaseSync
  PROVE  Durable'
  <1>1. SavedKnown'
    <2>1. saved' = saved /\ last' = last BY CkBaseSyncEffect
    <2> QED BY <2>1 DEF Durable, SavedKnown
  <1>2. AgesKnown'
    <2>1. /\ ck.pc = "baseSync" /\ ck'.pc = "log" /\ ck'.ages = ck.ages
          /\ ck'.orphans = ck.orphans /\ last' = last
      BY CkBaseSyncEffect
    <2> QED BY <2>1, AgeTypes, AgeTypesNext DEF Durable, AgesKnown
  <1>3. OrphansUnsaved'
    <2>1. /\ ck.pc = "baseSync" /\ ck'.pc = "log" /\ ck'.orphans = ck.orphans
          /\ saved' = saved
      BY CkBaseSyncEffect
    <2> QED BY <2>1, TaskFields DEF Durable, OrphansUnsaved
  <1>4. SavedTarget'
    <2>1. /\ ck.pc = "baseSync" /\ ck'.pc = "log" /\ ck'.full = ck.full
          /\ ck'.gone = ck.gone /\ ck'.slot = ck.slot /\ ck'.replace = ck.replace
          /\ ck'.ages = ck.ages /\ base' = base /\ log' = log /\ saved' = saved
      BY CkBaseSyncEffect
    <2> QED BY <2>1 DEF Durable, SavedTarget, Holding, Sampled, Writing, Target, Under, Image
  <1>5. SavedUnder'
    <2>1. /\ ck.pc = "baseSync" /\ ck'.pc = "log" /\ ck'.gone = ck.gone
          /\ ck'.replace = ck.replace /\ base' = base /\ log' = log /\ saved' = saved
      BY CkBaseSyncEffect
    <2> QED BY <2>1 DEF Durable, SavedUnder, Under, Image
  <1>6. SavedSoFar'
    <2>1. /\ ck.pc = "baseSync" /\ ck'.pc = "log" /\ ck'.full = ck.full
          /\ ck'.gone = ck.gone /\ ck'.slot = ck.slot /\ ck'.replace = ck.replace
          /\ ck'.todo = ck.todo /\ ck'.page = ck.page /\ ck'.ages = ck.ages /\ base' = base
          /\ log' = log /\ saved' = saved
      BY CkBaseSyncEffect
    <2> QED BY <2>1 DEF Durable, SavedSoFar, Target, Under, Image
  <1>7. SavedOnDisk'
    <2>1. bases' = {base} /\ logs' = logs /\ saved' = saved BY CkBaseSyncEffect
    <2> QED BY <2>1 DEF Durable, SavedOnDisk, Typed
  <1> QED BY <1>1, <1>2, <1>3, <1>4, <1>5, <1>6, <1>7 DEF Durable

\* CkLog keeps Durable.
LEMMA Durable_CkLog ==
  ASSUME Typed, Typed', Stages, Files, Outcome, Handles, Lives, Durable, CkLog
  PROVE  Durable'
  <1>1. SavedKnown'
    <2>1. saved' = saved /\ last' = last BY CkLogEffect
    <2> QED BY <2>1 DEF Durable, SavedKnown
  <1>2. AgesKnown'
    <2>1. /\ ck.pc = "log" /\ ck'.pc = "logSync" /\ ck'.ages = ck.ages
          /\ ck'.orphans = ck.orphans /\ last' = last
      BY CkLogEffect
    <2> QED BY <2>1, AgeTypes, AgeTypesNext DEF Durable, AgesKnown
  <1>3. OrphansUnsaved'
    <2>1. /\ ck.pc = "log" /\ ck'.pc = "logSync" /\ ck'.orphans = ck.orphans
          /\ saved' = saved
      BY CkLogEffect
    <2> QED BY <2>1, TaskFields DEF Durable, OrphansUnsaved
  <1>4. SavedTarget'
    <2>1. ck.pc \in {"base", "log"} /\ saved' = saved /\ TaskKept BY CkLogEffect DEF TaskKept
    <2>2. ck.full BY <2>1 DEF Files, Writes
    <2>3. \A p \in Pages : Target(p)' = Target(p) BY <2>1, <2>2 DEF Target, TaskKept
    <2> QED BY <2>1, <2>3 DEF Durable, SavedTarget, Sampled, Writing
  <1>5. SavedUnder'
    <2>1. /\ ck.pc = "log" /\ log' \in Log /\ logs' = logs \cup {log'} /\ ck'.pc = "logSync"
          /\ ck'.gone = ck.gone /\ ck'.replace = ck.replace /\ base' = base
          /\ saved' = saved
      BY CkLogEffect
    <2> QED BY <2>1 DEF Durable, SavedUnder, Under, Image
  <1>6. SavedSoFar'
    <2>1. /\ ck.pc = "log" /\ log' \in Log /\ logs' = logs \cup {log'} /\ ck'.pc = "logSync"
          /\ ck'.full = ck.full /\ ck'.gone = ck.gone /\ ck'.slot = ck.slot
          /\ ck'.replace = ck.replace /\ ck'.todo = ck.todo /\ ck'.page = ck.page
          /\ ck'.ages = ck.ages /\ base' = base /\ saved' = saved
      BY CkLogEffect
    <2> QED BY <2>1 DEF Durable, SavedSoFar, Target, Under, Image
  <1>7. SavedOnDisk'
    <2>1. /\ ck.pc = "log" /\ log' \in Log /\ log'.frames = <<>>
          /\ logs' = logs \cup {log'} /\ bases' = bases /\ saved' = saved
      BY CkLogEffect
    <2>2. bases = {base} /\ base.ages = ck.ages /\ ck.full BY <2>1 DEF Files, Writes
    <2>3. base \in File BY DEF Typed
    <2>4. Recovered(base, log') = ck.ages BY <2>1, <2>2, <2>3, RecoveredPlain
    <2>5. \A p \in Pages : saved[p] <= ck.ages[p]
      BY <2>1, <2>2 DEF Durable, SavedTarget, Sampled, Writing, Target
    <2> QED BY <2>1, <2>2, <2>4, <2>5 DEF Durable, SavedOnDisk
  <1> QED BY <1>1, <1>2, <1>3, <1>4, <1>5, <1>6, <1>7 DEF Durable

\* CkLogSync keeps Durable.
LEMMA Durable_CkLogSync ==
  ASSUME Typed, Typed', Stages, Files, Outcome, Handles, Lives, Durable, CkLogSync
  PROVE  Durable'
  <1>1. SavedKnown'
    <2>1. saved' = saved /\ last' = last BY CkLogSyncEffect
    <2> QED BY <2>1 DEF Durable, SavedKnown
  <1>2. AgesKnown'
    <2>1. /\ ck.pc = "logSync" /\ ck'.pc = "written" /\ ck'.ages = ck.ages
          /\ ck'.orphans = ck.orphans /\ last' = last
      BY CkLogSyncEffect
    <2> QED BY <2>1, AgeTypes, AgeTypesNext DEF Durable, AgesKnown
  <1>3. OrphansUnsaved'
    <2>1. /\ ck.pc = "logSync" /\ ck'.pc = "written" /\ ck'.orphans = ck.orphans
          /\ saved' = saved
      BY CkLogSyncEffect
    <2> QED BY <2>1, TaskFields DEF Durable, OrphansUnsaved
  <1>4. SavedTarget'
    <2>1. /\ ck.pc = "logSync" /\ ck'.pc = "written" /\ ck'.full = ck.full
          /\ ck'.gone = ck.gone /\ ck'.slot = ck.slot /\ ck'.replace = ck.replace
          /\ ck'.ages = ck.ages /\ base' = base /\ log' = log /\ saved' = saved
      BY CkLogSyncEffect
    <2> QED BY <2>1 DEF Durable, SavedTarget, Holding, Sampled, Writing, Target, Under, Image
  <1>5. SavedUnder'
    <2>1. /\ ck.pc = "logSync" /\ ck'.pc = "written" /\ ck'.gone = ck.gone
          /\ ck'.replace = ck.replace /\ base' = base /\ log' = log /\ saved' = saved
      BY CkLogSyncEffect
    <2> QED BY <2>1 DEF Durable, SavedUnder, Under, Image
  <1>6. SavedSoFar'
    <2>1. /\ ck.pc = "logSync" /\ ck'.pc = "written" /\ ck'.full = ck.full
          /\ ck'.gone = ck.gone /\ ck'.slot = ck.slot /\ ck'.replace = ck.replace
          /\ ck'.todo = ck.todo /\ ck'.page = ck.page /\ ck'.ages = ck.ages /\ base' = base
          /\ log' = log /\ saved' = saved
      BY CkLogSyncEffect
    <2> QED BY <2>1 DEF Durable, SavedSoFar, Target, Under, Image
  <1>7. SavedOnDisk'
    <2>1. logs' = {log} /\ bases' = bases /\ saved' = saved BY CkLogSyncEffect
    <2> QED BY <2>1 DEF Durable, SavedOnDisk, Typed
  <1> QED BY <1>1, <1>2, <1>3, <1>4, <1>5, <1>6, <1>7 DEF Durable

\* CkAppend keeps Durable.
LEMMA Durable_CkAppend ==
  ASSUME Typed, Typed', Stages, Files, Outcome, Handles, Lives, Durable, CkAppend
  PROVE  Durable'
  <1>1. SavedKnown'
    <2>1. saved' = saved /\ last' = last BY CkAppendEffect
    <2> QED BY <2>1 DEF Durable, SavedKnown
  <1>2. AgesKnown'
    <2>1. /\ ck.pc = "append" /\ ck'.pc = "appendSync" /\ ck'.ages = ck.ages
          /\ ck'.orphans = ck.orphans /\ last' = last
      BY CkAppendEffect
    <2> QED BY <2>1, AgeTypes, AgeTypesNext DEF Durable, AgesKnown
  <1>3. OrphansUnsaved'
    <2>1. /\ ck.pc = "append" /\ ck'.pc = "appendSync" /\ ck'.orphans = ck.orphans
          /\ saved' = saved
      BY CkAppendEffect
    <2> QED BY <2>1, TaskFields DEF Durable, OrphansUnsaved
  <1>4. SavedTarget'
    <2>1. ck.pc = "append" /\ saved' = saved BY CkAppendEffect
    <2>2. \A p \in Pages : Target(p)' = Target(p) BY AppendTarget
    <2> QED BY <2>1, <2>2 DEF Durable, SavedTarget, Sampled, Writing
  <1>5. SavedUnder'
    <2>1. /\ ck.pc = "append" /\ ck'.pc = "appendSync" /\ ck'.gone = ck.gone
          /\ ck'.replace = ck.replace /\ base' = base /\ saved' = saved
      BY CkAppendEffect
    <2> QED BY <2>1 DEF Durable, SavedUnder, Under, Image
  <1>6. SavedSoFar'
    <2>1. /\ ck.pc = "append" /\ ck'.pc = "appendSync" /\ ck'.full = ck.full
          /\ ck'.gone = ck.gone /\ ck'.slot = ck.slot /\ ck'.replace = ck.replace
          /\ ck'.todo = ck.todo /\ ck'.page = ck.page /\ ck'.ages = ck.ages /\ base' = base
          /\ saved' = saved
      BY CkAppendEffect
    <2> QED BY <2>1 DEF Durable, SavedSoFar, Target, Under, Image
  <1>7. SavedOnDisk'
    <2>1. ck.pc = "append" /\ bases' = bases /\ saved' = saved BY CkAppendEffect
    <2>2. bases = {base} BY AppendFiles
    <2>3. \A p \in Pages : saved[p] <= Image[p] BY DEF Durable, SavedOnDisk, Image, Typed
    <2>4. \A p \in Pages : saved[p] <= Target(p) BY <2>1 DEF Durable, SavedTarget, Sampled, Writing
    <2>5. ck.gone => \A p \in Pages : saved[p] = 0 BY <2>1, GoneUnsaved DEF Holding, Sampled, Writing
    <2>6. ASSUME NEW l \in logs', NEW p \in Pages PROVE saved[p] <= Recovered(base, l)[p]
      <3>1. CASE Recovered(base, l)[p] = Image[p] BY <2>3, <3>1
      <3>2. CASE ck.gone /\ Recovered(base, l)[p] = 0 BY <2>5, <3>2
      <3>3. CASE Recovered(base, l)[p] = Target(p) BY <2>4, <3>3
      <3> QED BY <3>1, <3>2, <3>3, AppendImages
    <2> QED BY <2>1, <2>2, <2>6 DEF SavedOnDisk
  <1> QED BY <1>1, <1>2, <1>3, <1>4, <1>5, <1>6, <1>7 DEF Durable

\* CkAppendSync keeps Durable.
LEMMA Durable_CkAppendSync ==
  ASSUME Typed, Typed', Stages, Files, Outcome, Handles, Lives, Durable, CkAppendSync
  PROVE  Durable'
  <1>1. SavedKnown'
    <2>1. saved' = saved /\ last' = last BY CkAppendSyncEffect
    <2> QED BY <2>1 DEF Durable, SavedKnown
  <1>2. AgesKnown'
    <2>1. /\ ck.pc = "appendSync" /\ ck'.pc = "written" /\ ck'.ages = ck.ages
          /\ ck'.orphans = ck.orphans /\ last' = last
      BY CkAppendSyncEffect
    <2> QED BY <2>1, AgeTypes, AgeTypesNext DEF Durable, AgesKnown
  <1>3. OrphansUnsaved'
    <2>1. /\ ck.pc = "appendSync" /\ ck'.pc = "written" /\ ck'.orphans = ck.orphans
          /\ saved' = saved
      BY CkAppendSyncEffect
    <2> QED BY <2>1, TaskFields DEF Durable, OrphansUnsaved
  <1>4. SavedTarget'
    <2>1. /\ ck.pc = "appendSync" /\ ck'.pc = "written" /\ ck'.full = ck.full
          /\ ck'.gone = ck.gone /\ ck'.slot = ck.slot /\ ck'.replace = ck.replace
          /\ ck'.ages = ck.ages /\ base' = base /\ log' = log /\ saved' = saved
      BY CkAppendSyncEffect
    <2> QED BY <2>1 DEF Durable, SavedTarget, Holding, Sampled, Writing, Target, Under, Image
  <1>5. SavedUnder'
    <2>1. /\ ck.pc = "appendSync" /\ ck'.pc = "written" /\ ck'.gone = ck.gone
          /\ ck'.replace = ck.replace /\ base' = base /\ log' = log /\ saved' = saved
      BY CkAppendSyncEffect
    <2> QED BY <2>1 DEF Durable, SavedUnder, Under, Image
  <1>6. SavedSoFar'
    <2>1. /\ ck.pc = "appendSync" /\ ck'.pc = "written" /\ ck'.full = ck.full
          /\ ck'.gone = ck.gone /\ ck'.slot = ck.slot /\ ck'.replace = ck.replace
          /\ ck'.todo = ck.todo /\ ck'.page = ck.page /\ ck'.ages = ck.ages /\ base' = base
          /\ log' = log /\ saved' = saved
      BY CkAppendSyncEffect
    <2> QED BY <2>1 DEF Durable, SavedSoFar, Target, Under, Image
  <1>7. SavedOnDisk'
    <2>1. logs' = {log} /\ bases' = bases /\ saved' = saved BY CkAppendSyncEffect
    <2> QED BY <2>1 DEF Durable, SavedOnDisk, Typed
  <1> QED BY <1>1, <1>2, <1>3, <1>4, <1>5, <1>6, <1>7 DEF Durable

\* CkSetJournal keeps Durable.
LEMMA Durable_CkSetJournal ==
  ASSUME Typed, Typed', Stages, Files, Outcome, Handles, Lives, Durable, CkSetJournal
  PROVE  Durable'
  <1>1. /\ ck.pc \in Sampled /\ ck'.pc \in Sampled BY CkSetJournalEffect DEF Sampled, Writing
  <1>2. /\ saved' = saved /\ last' = last /\ ck'.ages = ck.ages /\ ck'.orphans = ck.orphans
        /\ ck'.full = ck.full /\ ck'.slot = ck.slot /\ ck'.replace = ck.replace
        /\ ck'.gone = ck.gone /\ base' = base /\ log' = log /\ ck'.todo = ck.todo
        /\ ck'.page = ck.page /\ bases' = bases /\ logs' = logs
    BY CkSetJournalEffect
  <1> QED BY <1>1, <1>2, DurableMove

\* CkRevise keeps Durable.
LEMMA Durable_CkRevise ==
  ASSUME Typed, Typed', Stages, Files, Outcome, Handles, Lives, Durable, CkRevise
  PROVE  Durable'
  <1>1. SavedKnown'
    <2>1. /\ ck.pc = "revise" /\ bases' = bases /\ logs' = logs /\ last' = last
          /\ \A p \in Pages : saved'[p] = (IF ck.ages[p] # 0 /\ p \notin ck.orphans THEN ck.ages[p] ELSE saved[p])
      BY CkReviseEffect
    <2> QED BY <2>1 DEF Durable, SavedKnown, AgesKnown
  <1>2. AgesKnown'
    <2>1. /\ ck.pc = "revise" /\ ck'.pc = "finish" /\ ck'.ages = ck.ages
          /\ ck'.orphans = ck.orphans /\ last' = last
      BY CkReviseEffect
    <2> QED BY <2>1, AgeTypes, AgeTypesNext DEF Durable, AgesKnown
  <1>3. OrphansUnsaved'
    <2>1. /\ ck.pc = "revise"
          /\ (\A p \in Pages : saved'[p] = (IF ck.ages[p] # 0 /\ p \notin ck.orphans THEN ck.ages[p] ELSE saved[p]))
          /\ ck'.pc = "finish" /\ ck'.orphans = ck.orphans
      BY CkReviseEffect
    <2> QED BY <2>1, TaskFields DEF Durable, OrphansUnsaved
  <1>4. SavedTarget'
    <2>1. /\ ck.pc = "revise"
          /\ (\A p \in Pages : saved'[p] = (IF ck.ages[p] # 0 /\ p \notin ck.orphans THEN ck.ages[p] ELSE saved[p]))
          /\ ck'.pc = "finish" /\ ck'.full = ck.full /\ ck'.gone = ck.gone
          /\ ck'.slot = ck.slot /\ ck'.replace = ck.replace /\ ck'.ages = ck.ages
          /\ base' = base /\ log' = log
      BY CkReviseEffect
    <2> QED BY <2>1 DEF Durable, SavedTarget, Holding, Sampled, Writing, Target, Under, Image
  <1>5. SavedUnder'
    <2>1. /\ ck.pc = "revise"
          /\ (\A p \in Pages : saved'[p] = (IF ck.ages[p] # 0 /\ p \notin ck.orphans THEN ck.ages[p] ELSE saved[p]))
          /\ ck'.pc = "finish" /\ ck'.gone = ck.gone /\ ck'.replace = ck.replace
          /\ base' = base /\ log' = log
      BY CkReviseEffect
    <2> QED BY <2>1 DEF Durable, SavedUnder, Under, Image
  <1>6. SavedSoFar'
    <2>1. /\ ck.pc = "revise"
          /\ (\A p \in Pages : saved'[p] = (IF ck.ages[p] # 0 /\ p \notin ck.orphans THEN ck.ages[p] ELSE saved[p]))
          /\ ck'.pc = "finish" /\ ck'.full = ck.full /\ ck'.gone = ck.gone
          /\ ck'.slot = ck.slot /\ ck'.replace = ck.replace /\ ck'.todo = ck.todo
          /\ ck'.page = ck.page /\ ck'.ages = ck.ages /\ base' = base /\ log' = log
      BY CkReviseEffect
    <2> QED BY <2>1 DEF Durable, SavedSoFar, Target, Under, Image
  <1>7. SavedOnDisk'
    <2>1. /\ ck.pc = "revise" /\ bases' = bases /\ logs' = logs /\ last' = last
          /\ \A p \in Pages : saved'[p] = (IF ck.ages[p] # 0 /\ p \notin ck.orphans THEN ck.ages[p] ELSE saved[p])
      BY CkReviseEffect
    <2>2. bases = {base} /\ logs = {log} BY <2>1 DEF Files, Retry, Single
    <2>3. \A p \in Pages : Image[p] = Target(p) BY <2>1 DEF Outcome
    <2>4. ASSUME NEW p \in Pages, ck.ages[p] # 0 PROVE Image[p] = ck.ages[p]
      <3>1. ck.slot # 0 BY <2>4 DEF Stages, TaskStages, NoAges
      <3> QED BY <2>3, <2>4, <3>1 DEF Target
    <2>5. \A p \in Pages : saved[p] <= Image[p] BY DEF Durable, SavedOnDisk, Image, Typed
    <2>6. \A p \in Pages : saved'[p] <= Image[p] BY <2>1, <2>4, <2>5, AgeTypes
    <2> QED BY <2>1, <2>2, <2>6 DEF SavedOnDisk, Image
  <1> QED BY <1>1, <1>2, <1>3, <1>4, <1>5, <1>6, <1>7 DEF Durable

\* CkFinish keeps Durable.
LEMMA Durable_CkFinish ==
  ASSUME Typed, Typed', Stages, Files, Outcome, Handles, Lives, Durable, CkFinish
  PROVE  Durable'
  <1>1. SavedKnown'
    <2>1. saved' = saved /\ last' = last BY CkFinishEffect
    <2> QED BY <2>1 DEF Durable, SavedKnown
  <1>2. AgesKnown'
    <2>1. ck'.ages = NoAges BY CkFinishEffect
    <2> QED BY <2>1 DEF AgesKnown, NoAges
  <1>3. OrphansUnsaved'
    <2>1. /\ ck.pc = "finish" /\ ck'.pc = "idle" /\ ck'.orphans = {} /\ saved' = saved
      BY CkFinishEffect
    <2> QED BY <2>1, TaskFields DEF Durable, OrphansUnsaved
  <1>4. SavedTarget'
    <2>1. /\ ck.pc = "finish" /\ ck'.pc = "idle" /\ ck'.full = FALSE /\ ck'.gone = FALSE
          /\ ck'.slot = 0 /\ ck'.replace = FALSE /\ ck'.ages = NoAges /\ base' = base
          /\ log' = log /\ saved' = saved
      BY CkFinishEffect
    <2> QED BY <2>1 DEF Durable, SavedTarget, Holding, Sampled, Writing, Target, Under, Image
  <1>5. SavedUnder'
    <2>1. /\ ck.pc = "finish" /\ ck'.pc = "idle" /\ ck'.gone = FALSE /\ ck'.replace = FALSE
          /\ base' = base /\ log' = log /\ saved' = saved
      BY CkFinishEffect
    <2> QED BY <2>1 DEF Durable, SavedUnder, Under, Image
  <1>6. SavedSoFar'
    <2>1. /\ ck.pc = "finish" /\ ck'.pc = "idle" /\ ck'.full = FALSE /\ ck'.gone = FALSE
          /\ ck'.slot = 0 /\ ck'.replace = FALSE /\ ck'.todo = {} /\ ck'.ages = NoAges
          /\ base' = base /\ log' = log /\ saved' = saved
      BY CkFinishEffect
    <2> QED BY <2>1 DEF Durable, SavedSoFar, Target, Under, Image
  <1>7. SavedOnDisk'
    <2>1. saved' = saved /\ bases' = bases /\ logs' = logs BY CkFinishEffect
    <2> QED BY <2>1 DEF Durable, SavedOnDisk
  <1> QED BY <1>1, <1>2, <1>3, <1>4, <1>5, <1>6, <1>7 DEF Durable

\* CkFail keeps Durable.
LEMMA Durable_CkFail ==
  ASSUME Typed, Typed', Stages, Files, Outcome, Handles, Lives, Durable, CkFail
  PROVE  Durable'
  <1>1. SavedKnown'
    <2>1. saved' = saved /\ last' = last BY CkFailEffect
    <2> QED BY <2>1 DEF Durable, SavedKnown
  <1>2. AgesKnown'
    <2>1. /\ ck.pc \in {"encode", "base", "baseSync", "log", "logSync", "append", "appendSync"}
          /\ ck'.pc = "drop" /\ ck'.ages = ck.ages /\ ck'.orphans = ck.orphans
          /\ last' = last
      BY CkFailEffect DEF Writing
    <2> QED BY <2>1, AgeTypes, AgeTypesNext DEF Durable, AgesKnown
  <1>3. OrphansUnsaved'
    <2>1. /\ ck.pc \in {"encode", "base", "baseSync", "log", "logSync", "append", "appendSync"}
          /\ ck'.pc = "drop" /\ ck'.orphans = ck.orphans /\ saved' = saved
      BY CkFailEffect DEF Writing
    <2> QED BY <2>1, TaskFields DEF Durable, OrphansUnsaved
  <1>4. SavedTarget'
    <2>1. /\ ck.pc \in {"encode", "base", "baseSync", "log", "logSync", "append", "appendSync"}
          /\ ck'.pc = "drop" /\ ck'.full = ck.full /\ ck'.gone = ck.gone
          /\ ck'.slot = ck.slot /\ ck'.replace = ck.replace /\ ck'.ages = ck.ages
          /\ base' = base /\ log' = log /\ saved' = saved
      BY CkFailEffect DEF Writing
    <2> QED BY <2>1 DEF Durable, SavedTarget, Holding, Sampled, Writing, Target, Under, Image
  <1>5. SavedUnder'
    <2>1. /\ ck.pc \in {"encode", "base", "baseSync", "log", "logSync", "append", "appendSync"}
          /\ ck'.pc = "drop" /\ ck'.gone = ck.gone /\ ck'.replace = ck.replace
          /\ base' = base /\ log' = log /\ saved' = saved
      BY CkFailEffect DEF Writing
    <2> QED BY <2>1 DEF Durable, SavedUnder, Under, Image
  <1>6. SavedSoFar'
    <2>1. /\ ck.pc \in {"encode", "base", "baseSync", "log", "logSync", "append", "appendSync"}
          /\ ck'.pc = "drop" /\ ck'.full = ck.full /\ ck'.gone = ck.gone
          /\ ck'.slot = ck.slot /\ ck'.replace = ck.replace /\ ck'.todo = ck.todo
          /\ ck'.page = ck.page /\ ck'.ages = ck.ages /\ base' = base /\ log' = log
          /\ saved' = saved
      BY CkFailEffect DEF Writing
    <2> QED BY <2>1 DEF Durable, SavedSoFar, Target, Under, Image
  <1>7. SavedOnDisk'
    <2>1. saved' = saved /\ bases' = bases /\ logs' = logs BY CkFailEffect
    <2> QED BY <2>1 DEF Durable, SavedOnDisk
  <1> QED BY <1>1, <1>2, <1>3, <1>4, <1>5, <1>6, <1>7 DEF Durable

\* CkDropSummary keeps Durable.
LEMMA Durable_CkDropSummary ==
  ASSUME Typed, Typed', Stages, Files, Outcome, Handles, Lives, Durable, CkDropSummary
  PROVE  Durable'
  <1>1. SavedKnown'
    <2>1. saved' = saved /\ last' = last BY CkDropSummaryEffect
    <2> QED BY <2>1 DEF Durable, SavedKnown
  <1>2. AgesKnown'
    <2>1. ck'.ages = NoAges BY CkDropSummaryEffect
    <2> QED BY <2>1 DEF AgesKnown, NoAges
  <1>3. OrphansUnsaved'
    <2>1. /\ ck.pc = "drop" /\ ck'.pc = "idle" /\ ck'.orphans = {} /\ saved' = saved
      BY CkDropSummaryEffect
    <2> QED BY <2>1, TaskFields DEF Durable, OrphansUnsaved
  <1>4. SavedTarget'
    <2>1. /\ ck.pc = "drop" /\ ck'.pc = "idle" /\ ck'.full = FALSE /\ ck'.gone = FALSE
          /\ ck'.slot = 0 /\ ck'.replace = FALSE /\ ck'.ages = NoAges /\ base' = base
          /\ log' = log /\ saved' = saved
      BY CkDropSummaryEffect
    <2> QED BY <2>1 DEF Durable, SavedTarget, Holding, Sampled, Writing, Target, Under, Image
  <1>5. SavedUnder'
    <2>1. /\ ck.pc = "drop" /\ ck'.pc = "idle" /\ ck'.gone = FALSE /\ ck'.replace = FALSE
          /\ base' = base /\ log' = log /\ saved' = saved
      BY CkDropSummaryEffect
    <2> QED BY <2>1 DEF Durable, SavedUnder, Under, Image
  <1>6. SavedSoFar'
    <2>1. /\ ck.pc = "drop" /\ ck'.pc = "idle" /\ ck'.full = FALSE /\ ck'.gone = FALSE
          /\ ck'.slot = 0 /\ ck'.replace = FALSE /\ ck'.todo = {} /\ ck'.ages = NoAges
          /\ base' = base /\ log' = log /\ saved' = saved
      BY CkDropSummaryEffect
    <2> QED BY <2>1 DEF Durable, SavedSoFar, Target, Under, Image
  <1>7. SavedOnDisk'
    <2>1. saved' = saved /\ bases' = bases /\ logs' = logs BY CkDropSummaryEffect
    <2> QED BY <2>1 DEF Durable, SavedOnDisk
  <1> QED BY <1>1, <1>2, <1>3, <1>4, <1>5, <1>6, <1>7 DEF Durable

\* CkConsume keeps Durable.
LEMMA Durable_CkConsume ==
  ASSUME Typed, Typed', Stages, Files, Outcome, Handles, Lives, Durable, CkConsume
  PROVE  Durable'
  <1>0. PICK p \in ck.todo :
         /\ p \in Pages /\ ck.pc = "consume" /\ ck'.pc = "sample" /\ ck'.page = p
         /\ ck'.todo = ck.todo \ {p} /\ ck'.marks = [ck.marks EXCEPT ![p] = mark[p]]
         /\ mark' = [mark EXCEPT ![p] = Unknown]
         /\ ck'.ceiling = ck.ceiling /\ ck'.upto = ck.upto /\ ck'.journal = ck.journal
         /\ ck'.full = ck.full /\ ck'.gone = ck.gone /\ ck'.slot = ck.slot
         /\ ck'.held = ck.held /\ ck'.since = ck.since /\ ck'.replace = ck.replace
         /\ ck'.revision = ck.revision /\ ck'.ages = ck.ages /\ ck'.orphans = ck.orphans
         /\ reader' = reader
         /\ now' = now /\ resident' = resident /\ last' = last
         /\ live' = live /\ blockDirty' = blockDirty
         /\ shardDirty' = shardDirty /\ revision' = revision
         /\ savedRevision' = savedRevision /\ reg' = reg /\ base' = base
         /\ log' = log /\ bases' = bases /\ logs' = logs /\ saved' = saved
         /\ fails' = fails /\ crashes' = crashes
    BY CkConsumeEffect
  <1>1. SavedKnown'
    <2>1. saved' = saved /\ last' = last BY <1>0
    <2> QED BY <2>1 DEF Durable, SavedKnown
  <1>2. AgesKnown'
    <2>1. /\ p \in Pages /\ ck.pc = "consume" /\ ck'.pc = "sample" /\ ck'.ages = ck.ages
          /\ ck'.orphans = ck.orphans /\ last' = last
      BY <1>0
    <2> QED BY <2>1, AgeTypes, AgeTypesNext DEF Durable, AgesKnown
  <1>3. OrphansUnsaved'
    <2>1. /\ p \in Pages /\ ck.pc = "consume" /\ ck'.pc = "sample"
          /\ ck'.orphans = ck.orphans /\ saved' = saved
      BY <1>0
    <2> QED BY <2>1, TaskFields DEF Durable, OrphansUnsaved
  <1>4. SavedTarget'
    <2>1. /\ p \in Pages /\ ck.pc = "consume" /\ ck'.pc = "sample" /\ ck'.full = ck.full
          /\ ck'.gone = ck.gone /\ ck'.slot = ck.slot /\ ck'.replace = ck.replace
          /\ ck'.ages = ck.ages /\ base' = base /\ log' = log /\ saved' = saved
      BY <1>0
    <2> QED BY <2>1 DEF Durable, SavedTarget, Holding, Sampled, Writing, Target, Under, Image
  <1>5. SavedUnder'
    <2>1. /\ p \in Pages /\ ck.pc = "consume" /\ ck'.pc = "sample" /\ ck'.gone = ck.gone
          /\ ck'.replace = ck.replace /\ base' = base /\ log' = log /\ saved' = saved
      BY <1>0
    <2> QED BY <2>1 DEF Durable, SavedUnder, Under, Image
  <1>6. SavedSoFar'
    <2>1. /\ p \in Pages /\ ck.pc = "consume" /\ ck'.pc = "sample" /\ ck'.page = p
          /\ ck'.todo = ck.todo \ {p} /\ ck'.full = ck.full /\ ck'.gone = ck.gone
          /\ ck'.slot = ck.slot /\ ck'.replace = ck.replace /\ ck'.ages = ck.ages
          /\ base' = base /\ log' = log /\ saved' = saved
      BY <1>0
    <2> QED BY <2>1 DEF Durable, SavedSoFar, Target, Under, Image
  <1>7. SavedOnDisk'
    <2>1. saved' = saved /\ bases' = bases /\ logs' = logs BY <1>0
    <2> QED BY <2>1 DEF Durable, SavedOnDisk
  <1> QED BY <1>1, <1>2, <1>3, <1>4, <1>5, <1>6, <1>7 DEF Durable

\* CkDropPage keeps Durable.
LEMMA Durable_CkDropPage ==
  ASSUME Typed, Typed', Stages, Files, Outcome, Handles, Lives, Durable, CkDropPage
  PROVE  Durable'
  <1>0. PICK p \in Pages :
         /\ ck.pc = "drop" /\ ck.marks[p] # Unknown
         /\ \A q \in Pages : q # p => mark'[q] = mark[q]
         /\ p \in ck.orphans => mark' = mark
         /\ p \notin ck.orphans => mark'[p] # Unknown
         /\ Dirty(ck.slot, ck.marks[p])
         /\ ck'.marks = [ck.marks EXCEPT ![p] = Unknown]
         /\ ck'.pc = ck.pc /\ ck'.page = ck.page /\ ck'.todo = ck.todo
         /\ ck'.ceiling = ck.ceiling /\ ck'.upto = ck.upto /\ ck'.journal = ck.journal
         /\ ck'.full = ck.full /\ ck'.gone = ck.gone /\ ck'.slot = ck.slot
         /\ ck'.held = ck.held /\ ck'.since = ck.since /\ ck'.replace = ck.replace
         /\ ck'.revision = ck.revision /\ ck'.ages = ck.ages /\ ck'.orphans = ck.orphans
         /\ reader' = reader
         /\ now' = now /\ resident' = resident /\ last' = last
         /\ live' = live /\ revision' = revision
         /\ savedRevision' = savedRevision /\ reg' = reg /\ base' = base
         /\ log' = log /\ bases' = bases /\ logs' = logs /\ saved' = saved
         /\ fails' = fails /\ crashes' = crashes
    BY CkDropPageEffect
  <1>1. /\ saved' = saved /\ last' = last /\ ck'.pc = ck.pc /\ ck'.ages = ck.ages
        /\ ck'.orphans = ck.orphans /\ ck'.full = ck.full /\ ck'.slot = ck.slot
        /\ ck'.replace = ck.replace /\ ck'.gone = ck.gone /\ base' = base /\ log' = log
        /\ ck'.todo = ck.todo /\ ck'.page = ck.page /\ bases' = bases /\ logs' = logs
    BY <1>0
  <1> QED BY <1>1, DurableFrame

\* Create keeps Durable.
LEMMA Durable_Create ==
  ASSUME Typed, Typed', Stages, Files, Outcome, Handles, Lives, Durable, Create
  PROVE  Durable'
  <1>1. /\ saved' = saved /\ last' = last /\ base' = base /\ log' = log /\ bases' = bases
        /\ logs' = logs /\ ck' = ck
    BY CreateEffect
  <1> QED BY <1>1, DurableFrame

\* Retire keeps Durable.
LEMMA Durable_Retire ==
  ASSUME Typed, Typed', Stages, Files, Outcome, Handles, Lives, Durable, Retire
  PROVE  Durable'
  <1>1. /\ saved' = saved /\ last' = last /\ base' = base /\ log' = log /\ bases' = bases
        /\ logs' = logs /\ ck' = ck
    BY RetireEffect
  <1> QED BY <1>1, DurableFrame

\* Tick keeps Durable.
LEMMA Durable_Tick ==
  ASSUME Typed, Typed', Stages, Files, Outcome, Handles, Lives, Durable, Tick
  PROVE  Durable'
  <1>1. /\ saved' = saved /\ last' = last /\ base' = base /\ log' = log /\ bases' = bases
        /\ logs' = logs /\ ck' = ck
    BY TickEffect
  <1> QED BY <1>1, DurableFrame

\* ReadDone keeps Durable.
LEMMA Durable_ReadDone ==
  ASSUME Typed, Typed', Stages, Files, Outcome, Handles, Lives, Durable, NEW r \in Readers, ReadDone(r)
  PROVE  Durable'
  <1>1. /\ saved' = saved /\ last' = last /\ base' = base /\ log' = log /\ bases' = bases
        /\ logs' = logs /\ ck' = ck
    BY ReadDoneEffect
  <1> QED BY <1>1, DurableFrame

\* Stamp keeps Durable.
LEMMA Durable_Stamp ==
  ASSUME Typed, Typed', Stages, Files, Outcome, Handles, Lives, Durable, NEW r \in Readers, Stamp(r)
  PROVE  Durable'
  <1>1. SavedKnown'
    <2>1. /\ reader[r].pc = "timed" /\ reader[r].page \in resident
          /\ reader[r].page \in Pages
          /\ (\A q \in Pages : q # reader[r].page => last'[q] = last[q])
          /\ (last[reader[r].page] # Unknown
              => last'[reader[r].page] # Unknown /\ last[reader[r].page] <= last'[reader[r].page])
          /\ ((reader'[r].pc = "stamped" /\ reader'[r].page = reader[r].page /\ reader'[r].at = reader[r].at /\ last'[reader[r].page] # Unknown)
              \/ (reader'[r].pc = "idle" /\ last' = last))
          /\ saved' = saved
      BY StampEffect
    <2> QED BY <2>1, AgeTypes, AgeTypesNext DEF Durable, SavedKnown
  <1>2. AgesKnown'
    <2>1. /\ reader[r].pc = "timed" /\ reader[r].page \in resident
          /\ reader[r].page \in Pages
          /\ (\A q \in Pages : q # reader[r].page => last'[q] = last[q])
          /\ (last[reader[r].page] # Unknown
              => last'[reader[r].page] # Unknown /\ last[reader[r].page] <= last'[reader[r].page])
          /\ ((reader'[r].pc = "stamped" /\ reader'[r].page = reader[r].page /\ reader'[r].at = reader[r].at /\ last'[reader[r].page] # Unknown)
              \/ (reader'[r].pc = "idle" /\ last' = last))
          /\ ck' = ck
      BY StampEffect
    <2> QED BY <2>1, AgeTypes, AgeTypesNext DEF Durable, AgesKnown
  <1>3. OrphansUnsaved'
    <2>1. saved' = saved /\ ck' = ck BY StampEffect
    <2> QED BY <2>1 DEF Durable, OrphansUnsaved
  <1>4. SavedTarget'
    <2>1. saved' = saved /\ base' = base /\ log' = log /\ ck' = ck BY StampEffect
    <2> QED BY <2>1 DEF Durable, SavedTarget, Holding, Sampled, Writing, Target, Under, Image
  <1>5. SavedUnder'
    <2>1. saved' = saved /\ base' = base /\ log' = log /\ ck' = ck BY StampEffect
    <2> QED BY <2>1 DEF Durable, SavedUnder, Under, Image
  <1>6. SavedSoFar'
    <2>1. saved' = saved /\ base' = base /\ log' = log /\ ck' = ck BY StampEffect
    <2> QED BY <2>1 DEF Durable, SavedSoFar, Target, Under, Image
  <1>7. SavedOnDisk'
    <2>1. saved' = saved /\ bases' = bases /\ logs' = logs BY StampEffect
    <2> QED BY <2>1 DEF Durable, SavedOnDisk
  <1> QED BY <1>1, <1>2, <1>3, <1>4, <1>5, <1>6, <1>7 DEF Durable

\* Mark keeps Durable.
LEMMA Durable_Mark ==
  ASSUME Typed, Typed', Stages, Files, Outcome, Handles, Lives, Durable, NEW r \in Readers, Mark(r)
  PROVE  Durable'
  <1>1. /\ saved' = saved /\ last' = last /\ base' = base /\ log' = log /\ bases' = bases
        /\ logs' = logs /\ ck' = ck
    BY MarkEffect
  <1> QED BY <1>1, DurableFrame

\* Notify keeps Durable.
LEMMA Durable_Notify ==
  ASSUME Typed, Typed', Stages, Files, Outcome, Handles, Lives, Durable, NEW r \in Readers, Notify(r)
  PROVE  Durable'
  <1>1. /\ saved' = saved /\ last' = last /\ base' = base /\ log' = log /\ bases' = bases
        /\ logs' = logs /\ ck' = ck
    BY NotifyEffect
  <1> QED BY <1>1, DurableFrame

\* Queue keeps Durable.
LEMMA Durable_Queue ==
  ASSUME Typed, Typed', Stages, Files, Outcome, Handles, Lives, Durable, NEW r \in Readers, Queue(r)
  PROVE  Durable'
  <1>1. /\ saved' = saved /\ last' = last /\ base' = base /\ log' = log /\ bases' = bases
        /\ logs' = logs /\ ck' = ck
    BY QueueEffect
  <1> QED BY <1>1, DurableFrame

\* Register keeps Durable.
LEMMA Durable_Register ==
  ASSUME Typed, Typed', Stages, Files, Outcome, Handles, Lives, Durable, NEW p \in Pages, Register(p)
  PROVE  Durable'
  <1>1. SavedKnown'
    <2>1. /\ live # 0 /\ ck.pc \notin {"consume", "sample"} /\ last' \in [Pages -> Stamps]
          /\ (\A q \in Pages : q # p => last'[q] = last[q] /\ mark'[q] = mark[q] /\ saved'[q] = saved[q])
          /\ last'[p] # Unknown /\ (p \notin resident => saved'[p] = 0)
          /\ (p \in resident => saved'[p] = saved[p] /\ (last[p] # Unknown => last[p] <= last'[p]))
      BY RegisterEffect
    <2> QED BY <2>1, AgeTypes, AgeTypesNext DEF Durable, SavedKnown
  <1>2. AgesKnown'
    <2>1. /\ ck' = ck /\ \A q \in Pages : q # p => last'[q] = last[q]
          /\ last'[p] # Unknown /\ (p \in resident => (last[p] # Unknown => last[p] <= last'[p]))
      BY RegisterEffect
    <2>2. ck.pc # "finish" /\ ck.ages[p] # 0 /\ p \notin ck.orphans => p \in resident
      BY DEF Handles, TaskOwned
    <2>3. last'[p] \in Nat /\ last[p] \in Nat /\ ck.ages[p] \in Nat BY AgeTypes, AgeTypesNext
    <2> QED BY <2>1, <2>2, <2>3 DEF Durable, AgesKnown
  <1>3. OrphansUnsaved'
    <2>0. \A q \in Pages : saved'[q] \in Nat /\ saved[q] \in Nat BY AgeTypes, AgeTypesNext
    <2>1. \A q \in Pages : saved'[q] = saved[q] \/ saved'[q] = 0 BY RegisterEffect
    <2>2. /\ ck'.pc = ck.pc /\ ck'.orphans \subseteq ck.orphans \cup {p} /\ ck.orphans \subseteq Pages
          /\ ck'.orphans = ck.orphans \/ saved'[p] = 0
      BY RegisterEffect, TaskFields
    <2> QED BY <2>1, <2>2 DEF Durable, OrphansUnsaved
  <1>4. SavedTarget'
    <2>0. \A q \in Pages : saved'[q] \in Nat /\ saved[q] \in Nat BY AgeTypes, AgeTypesNext
    <2>1. \A q \in Pages : saved'[q] = saved[q] \/ saved'[q] = 0 BY RegisterEffect
    <2>2. base' = base /\ log' = log /\ TaskKept /\ ck'.pc = ck.pc BY RegisterEffect DEF TaskKept
    <2>3. \A q \in Pages : Target(q)' = Target(q) /\ Target(q) \in Nat BY <2>2, TargetFrame, AgeTypes
    <2> QED BY <2>0, <2>1, <2>2, <2>3 DEF Durable, SavedTarget
  <1>5. SavedUnder'
    <2>1. ck'.pc \notin {"consume", "sample"} BY RegisterEffect
    <2> QED BY <2>1 DEF SavedUnder
  <1>6. SavedSoFar'
    <2>1. ck'.pc \notin {"consume", "sample"} BY RegisterEffect
    <2> QED BY <2>1 DEF SavedSoFar
  <1>7. SavedOnDisk'
    <2>0. \A q \in Pages : saved'[q] \in Nat /\ saved[q] \in Nat BY AgeTypes, AgeTypesNext
    <2>1. \A q \in Pages : saved'[q] = saved[q] \/ saved'[q] = 0 BY RegisterEffect
    <2>2. bases' = bases /\ logs' = logs BY RegisterEffect
    <2>3. \A b \in bases, l \in logs : \A q \in Pages : Recovered(b, l)[q] \in Nat
      BY RecoveredType, Bounds DEF Typed, Ages
    <2> QED BY <2>0, <2>1, <2>2, <2>3 DEF Durable, SavedOnDisk
  <1> QED BY <1>1, <1>2, <1>3, <1>4, <1>5, <1>6, <1>7 DEF Durable

\* Delete keeps Durable.
LEMMA Durable_Delete ==
  ASSUME Typed, Typed', Stages, Files, Outcome, Handles, Lives, Durable, NEW p \in Pages, Delete(p)
  PROVE  Durable'
  <1>1. SavedKnown'
    <2>1. /\ p \in resident /\ ck.pc \notin {"consume", "sample"}
          /\ (\A r \in Readers : reader[r].pc = "idle" \/ reader[r].page # p)
          /\ (\A q \in Pages : q # p => last'[q] = last[q] /\ mark'[q] = mark[q] /\ saved'[q] = saved[q])
          /\ last'[p] = Unknown /\ saved'[p] = 0
      BY DeleteEffect
    <2> QED BY <2>1, AgeTypes, AgeTypesNext DEF Durable, SavedKnown
  <1>2. AgesKnown'
    <2>1. /\ ck'.pc = ck.pc /\ ck'.ages = ck.ages /\ \A q \in Pages : q # p => last'[q] = last[q]
          /\ ck'.orphans = (IF ck.pc = "idle" THEN ck.orphans ELSE ck.orphans \cup {p})
      BY DeleteEffect
    <2>2. ck.pc = "idle" => ck.ages[p] = 0 BY DEF Stages, TaskStages, NoAges
    <2> QED BY <2>1, <2>2 DEF Durable, AgesKnown
  <1>3. OrphansUnsaved'
    <2>0. \A q \in Pages : saved'[q] \in Nat /\ saved[q] \in Nat BY AgeTypes, AgeTypesNext
    <2>1. \A q \in Pages : saved'[q] = saved[q] \/ saved'[q] = 0 BY DeleteEffect
    <2>2. /\ ck'.pc = ck.pc /\ ck'.orphans \subseteq ck.orphans \cup {p} /\ ck.orphans \subseteq Pages
          /\ ck'.orphans = ck.orphans \/ saved'[p] = 0
      BY DeleteEffect, TaskFields
    <2> QED BY <2>1, <2>2 DEF Durable, OrphansUnsaved
  <1>4. SavedTarget'
    <2>0. \A q \in Pages : saved'[q] \in Nat /\ saved[q] \in Nat BY AgeTypes, AgeTypesNext
    <2>1. \A q \in Pages : saved'[q] = saved[q] \/ saved'[q] = 0 BY DeleteEffect
    <2>2. base' = base /\ log' = log /\ TaskKept /\ ck'.pc = ck.pc BY DeleteEffect DEF TaskKept
    <2>3. \A q \in Pages : Target(q)' = Target(q) /\ Target(q) \in Nat BY <2>2, TargetFrame, AgeTypes
    <2> QED BY <2>0, <2>1, <2>2, <2>3 DEF Durable, SavedTarget
  <1>5. SavedUnder'
    <2>1. ck'.pc \notin {"consume", "sample"} BY DeleteEffect
    <2> QED BY <2>1 DEF SavedUnder
  <1>6. SavedSoFar'
    <2>1. ck'.pc \notin {"consume", "sample"} BY DeleteEffect
    <2> QED BY <2>1 DEF SavedSoFar
  <1>7. SavedOnDisk'
    <2>0. \A q \in Pages : saved'[q] \in Nat /\ saved[q] \in Nat BY AgeTypes, AgeTypesNext
    <2>1. \A q \in Pages : saved'[q] = saved[q] \/ saved'[q] = 0 BY DeleteEffect
    <2>2. bases' = bases /\ logs' = logs BY DeleteEffect
    <2>3. \A b \in bases, l \in logs : \A q \in Pages : Recovered(b, l)[q] \in Nat
      BY RecoveredType, Bounds DEF Typed, Ages
    <2> QED BY <2>0, <2>1, <2>2, <2>3 DEF Durable, SavedOnDisk
  <1> QED BY <1>1, <1>2, <1>3, <1>4, <1>5, <1>6, <1>7 DEF Durable

\* Restart keeps Durable.
LEMMA Durable_Restart ==
  ASSUME Typed, Typed', Stages, Files, Outcome, Handles, Lives, Durable, Restart
  PROVE  Durable'
  <1>1. PICK b \in bases, l \in logs, found \in SUBSET resident :
           /\ b \in File /\ l \in Log /\ Recovered(b, l) \in Ages
           /\ base' = b /\ bases' = {b} /\ log' = l /\ logs' = {l}
           /\ resident' = found
           /\ last' = [p \in Pages |-> IF p \in found /\ Recovered(b, l)[p] # 0
                                       THEN Recovered(b, l)[p] ELSE Unknown]
           /\ live' = IF found = {} THEN 0 ELSE 1
           /\ reg' \in Registries
           /\ reg'.next = live' /\ reg'.saved = 0 /\ reg'.removed = {} /\ reg'.overflow = 0
           /\ reg'.membership = live' + (IF b.gen = 0 THEN 0 ELSE 1)
           /\ reg'.journal.gen = b.gen /\ reg'.journal.full = TRUE /\ reg'.dir = reg.dir
           /\ saved' = [p \in Pages |-> IF p \in found THEN saved[p] ELSE 0]
    BY RestartFacts
  <1>2. /\ ck' = Idle /\ mark' = Clean /\ blockDirty' = Unknown /\ revision' = 0 /\ savedRevision' = 0
        /\ shardDirty' = [s \in 1 .. MaxSlots |-> Unknown] /\ reader' = [r \in Readers |-> Resting]
    BY DEF Restart
  <1>3. SavedKnown'
    <2>1. \A p \in Pages : saved[p] <= Recovered(b, l)[p] BY DEF Durable, SavedOnDisk
    <2>2. \A p \in Pages : saved[p] \in Nat /\ Recovered(b, l)[p] \in 0 .. MaxTime
        BY <1>1, AgeTypes DEF Ages
    <2>3. \A t \in 0 .. MaxTime : t # Unknown BY Bounds DEF Unknown
    <2> QED BY <1>1, <2>1, <2>2, <2>3, Bounds DEF SavedKnown
  <1>4. AgesKnown' BY <1>2, IdleFields DEF AgesKnown, NoAges
  <1>5. OrphansUnsaved' BY <1>2, IdleFields DEF OrphansUnsaved
  <1>6. SavedTarget' BY <1>2, IdleFields DEF SavedTarget, Sampled, Writing
  <1>7. SavedUnder' BY <1>2, IdleFields DEF SavedUnder
  <1>8. SavedSoFar' BY <1>2, IdleFields DEF SavedSoFar
  <1>9. SavedOnDisk'
    <2>1. \A p \in Pages : saved[p] <= Recovered(b, l)[p] BY DEF Durable, SavedOnDisk
    <2>2. \A p \in Pages : saved[p] \in Nat /\ Recovered(b, l)[p] \in 0 .. MaxTime
        BY <1>1, AgeTypes DEF Ages
    <2> QED BY <1>1, <2>1, <2>2, Bounds DEF SavedOnDisk
  <1> QED BY <1>3, <1>4, <1>5, <1>6, <1>7, <1>8, <1>9 DEF Durable

\* Every step keeps Durable.
LEMMA DurableStep ==
  ASSUME Typed, Typed', Stages, Files, Outcome, Handles, Lives, Durable, [Next]_vars
  PROVE  Durable'
  <1>1. CASE UNCHANGED vars BY <1>1 DEF vars, memory, disk, ghost, Durable, SavedKnown,
      AgesKnown, OrphansUnsaved, SavedTarget, SavedUnder, SavedSoFar, SavedOnDisk, Target,
      Under, Image
  <1>2. CASE Tick BY <1>2, Durable_Tick
  <1>3. ASSUME NEW r \in Readers, ReadDone(r) \/ Touch(r) PROVE Durable'
    BY <1>3, Durable_ReadDone, Durable_Stamp, Durable_Mark, Durable_Notify, Durable_Queue DEF Touch
  <1>4. ASSUME NEW p \in Pages, Register(p) \/ Delete(p) PROVE Durable'
    BY <1>4, Durable_Register, Durable_Delete
  <1>5. CASE Create \/ Retire \/ CkTooLarge \/ CkFail \/ Restart
    BY <1>5, Durable_Create, Durable_Retire, Durable_CkTooLarge, Durable_CkFail, Durable_Restart
  <1>6. CASE Checkpoint
    BY <1>6, Durable_CkStart, Durable_CkJournal, Durable_CkPick, Durable_CkSummary,
        Durable_CkSample, Durable_CkSampled, Durable_CkNoDirectory, Durable_CkEncode,
        Durable_CkBase, Durable_CkBaseSync, Durable_CkLog, Durable_CkLogSync, Durable_CkAppend,
        Durable_CkAppendSync, Durable_CkSetJournal, Durable_CkRevise, Durable_CkFinish,
        Durable_CkDropSummary, Durable_CkConsume, Durable_CkDropPage DEF Checkpoint
  <1> QED BY <1>1, <1>2, <1>3, <1>4, <1>5, <1>6 DEF Next

-----------------------------------------------------------------------------
(* Content: every page has the right age or an excuse                      *)

\* A reader changes an age only of a page that is then marked.
LEMMA ReaderContent ==
  ASSUME Typed, Content, reg' = reg, ck' = ck, base' = base, log' = log, resident' = resident,
         revision' = revision, savedRevision' = savedRevision,
         \A p \in Pages : Marked(p)' \/ (last'[p] = last[p] /\ (Marked(p) => Marked(p)'))
  PROVE  Content'
  <1>1. \A p \in Pages : Target(p)' = Target(p) /\ Under(p)' = Under(p) /\ Image'[p] = Image[p]
    BY TargetFrame DEF TaskKept
  <1>2. \A p \in Pages : Marked(p)' \/ (Want(p)' = Want(p) /\ (Marked(p) => Marked(p)'))
    BY DEF Want
  <1>3. \A u : Later(u)' = Later(u) BY DEF Later
  <1>4. AtRest' BY <1>1, <1>2, <1>3 DEF Content, AtRest, Comparable, Excused
  <1>5. AfterSampling' BY <1>1, <1>2, <1>3 DEF Content, AfterSampling, Excused
  <1>6. SameRevision' BY DEF Content, SameRevision
  <1>7. ToSample'
    <2>1. SUFFICES ASSUME ck.pc \in {"consume", "sample"}, ~ck.replace, NEW p \in ck.todo
          PROVE  Under(p)' = Want(p)' \/ Marked(p)'
      BY DEF ToSample
    <2>2. Under(p) = Want(p) \/ Marked(p) BY <2>1 DEF Content, ToSample
    <2>3. p \in Pages BY <2>1, TaskFields
    <2> QED BY <2>2, <2>3, <1>1, <1>2
  <1>8. Sampling' BY <1>1, <1>2 DEF Content, Sampling
  <1>9. DoneSampling' BY <1>1, <1>2 DEF Content, DoneSampling
  <1> QED BY <1>4, <1>5, <1>6, <1>7, <1>8, <1>9 DEF Content

\* Where no stage compares ages there is nothing to show.
LEMMA Elsewhere ==
  ASSUME ck'.pc \notin Sampled \cup {"consume", "sample"}, ~Comparable'
  PROVE  Content'
  BY DEF Content, AtRest, AfterSampling, SameRevision, ToSample, Sampling, DoneSampling

\* A task that sampled and moves on keeps its target, so Content.
LEMMA SampledContent ==
  ASSUME Content, ck.pc \in Sampled, ck'.pc \in Sampled, reg'.removed = reg.removed,
         reg'.overflow = reg.overflow, resident' = resident, last' = last, mark' = mark,
         reader' = reader, revision' = revision, savedRevision' = savedRevision,
         ck'.slot = ck.slot, ck'.revision = ck.revision, ck'.upto = ck.upto,
         \A p \in Pages : Target(p)' = Target(p)
  PROVE  Content'
  <1>1. AfterSampling' BY DEF Content, AfterSampling, Excused, Marked, Later, Want
  <1> QED BY <1>1 DEF Content, AtRest, Comparable, SameRevision, ToSample, Sampling,
      DoneSampling, Sampled, Writing

\* A new life has an unsaved change or wants nothing on disk.
LEMMA YoungWant ==
  ASSUME Typed, NewLife
  PROVE  revision # savedRevision \/ \A p \in Pages : Want(p) = 0
  BY DEF NewLife, Want

\* A deletion that no tombstone covers is after the checkpoint.
LEMMA NotGoneLater ==
  ASSUME Typed, Lives, ck.pc \in {"pick", "summary"}, ~ck.full, ~ck.gone, Later(0)
  PROVE  Later(ck.upto)
  <1>0. ck.pc \in {"pick"} \cup Holding BY DEF Holding
  <1>1. CASE \E m \in reg.removed : m > 0 BY <1>0, <1>1 DEF Lives, NoTombDue, Later
  <1>2. CASE reg.overflow > 0 BY <1>0, <1>2 DEF Lives, NoOverflow, Later
  <1> QED BY <1>1, <1>2 DEF Later

\* Without pages nothing is wanted on disk,
LEMMA EmptyWant ==
  ASSUME resident = {}
  PROVE  \A p \in Pages : Want(p) = 0
  BY DEF Want

\* and nothing is marked.
LEMMA EmptyUnmarked ==
  ASSUME Typed, Stages, Handles, resident = {}
  PROVE  \A p \in Pages : ~Marked(p)
  BY NoMarks DEF Marked, Stages, Inside

\* A change of the page table excuses every page.
LEMMA Stale ==
  ASSUME Typed, Stages, Lives, revision' = revision + 1, savedRevision' = savedRevision,
         ck'.pc = ck.pc, ck'.slot = ck.slot, ck'.revision = ck.revision,
         ck.pc \notin {"consume", "sample"}
  PROVE  Content'
  <1>1. revision' # savedRevision' BY TaskFields, Bounds DEF Lives, Revisions
  <1>2. ck.pc \in Sampled /\ ck.slot # 0 => revision' # ck'.revision
    <2>1. ck.pc \in Sampled => ck.pc \in Holding \ {"summary"} BY DEF Holding, Sampled, Writing
    <2> QED BY <2>1, Numbers DEF Lives, Revisions
  <1>3. AtRest' BY <1>1 DEF AtRest, Excused
  <1>4. AfterSampling' BY <1>1, <1>2 DEF AfterSampling, Excused
  <1> QED BY <1>3, <1>4 DEF Content, SameRevision, ToSample, Sampling, DoneSampling

\* CkStart keeps Content.
LEMMA Content_CkStart ==
  ASSUME Typed, Typed', Stages, Files, Outcome, Handles, Lives, Content, CkStart
  PROVE  Content'
  <1>1. /\ ck.pc = "idle" /\ ck'.pc = "journal" /\ reg' = reg /\ resident' = resident /\ last' = last
        /\ mark' = mark /\ reader' = reader /\ revision' = revision
        /\ savedRevision' = savedRevision /\ base' = base /\ log' = log
    BY CkStartEffect
  <1>2. AtRest' BY <1>1 DEF Content, AtRest, Comparable, Excused, Marked, Later, Want, Image
  <1> QED BY <1>1, <1>2 DEF Content, AfterSampling, SameRevision, ToSample, Sampling,
      DoneSampling, Sampled, Writing

\* CkJournal keeps Content.
LEMMA Content_CkJournal ==
  ASSUME Typed, Typed', Stages, Files, Outcome, Handles, Lives, Content, CkJournal
  PROVE  Content'
  <1>1. /\ ck.pc = "journal" /\ ck'.pc = "pick" /\ (~ck'.full => ~reg.journal.full)
        /\ reg'.removed = reg.removed /\ reg'.overflow = reg.overflow /\ resident' = resident
        /\ last' = last /\ mark' = mark /\ reader' = reader /\ revision' = revision
        /\ savedRevision' = savedRevision /\ base' = base /\ log' = log
    BY CkJournalEffect
  <1>2. AtRest' BY <1>1 DEF Content, AtRest, Comparable, Excused, Marked, Later, Want, Image
  <1> QED BY <1>1, <1>2 DEF Content, AfterSampling, SameRevision, ToSample, Sampling,
      DoneSampling, Sampled, Writing

\* CkPick keeps Content.
LEMMA Content_CkPick ==
  ASSUME Typed, Typed', Stages, Files, Outcome, Handles, Lives, Content, CkPick
  PROVE  Content'
  <1>1. /\ ck.pc = "pick" /\ reg' = reg /\ resident' = resident /\ last' = last
        /\ mark' = mark /\ reader' = reader /\ revision' = revision
        /\ savedRevision' = savedRevision /\ base' = base /\ log' = log
        /\ ck'.full = ck.full /\ ck'.gone = ck.gone /\ ck'.ages = ck.ages
        /\ ck'.replace = ck.replace /\ ck'.upto = ck.upto
        /\ ck'.pc = "summary" \/ (~Eligible /\ ck'.pc = "encode" /\ ck'.slot = ck.slot)
    BY CkPickEffect
  <1>2. CASE ck'.pc = "summary"
    <2>1. AtRest' BY <1>1, <1>2 DEF Content, AtRest, Comparable, Excused, Marked, Later, Want, Image
    <2> QED BY <1>2, <2>1 DEF Content, AfterSampling, SameRevision, ToSample, Sampling,
        DoneSampling, Sampled, Writing
  <1>3. CASE ~Eligible /\ ck'.pc = "encode" /\ ck'.slot = ck.slot
    <2>0. ck.slot = 0 /\ ck.ages = NoAges BY <1>1 DEF Stages, TaskStages
    <2>1. ASSUME NEW p \in Pages PROVE Target(p) = Want(p) \/ Excused(p, savedRevision, ck.upto)
      <3>1. CASE ck.full
        <4>1. Target(p) = 0 BY <2>0, <3>1 DEF Target, NoAges
        <4>2. live = 0 \/ live > ck.ceiling BY <1>3, <3>1, Numbers DEF Eligible
        <4>3. CASE live = 0
          <5>1. resident = {} BY <4>3 DEF Stages, Slots
          <5> QED BY <4>1, <5>1, EmptyWant
        <4>4. CASE live > ck.ceiling
          <5>1. NewLife BY <1>1, <4>4 DEF Lives, YoungLife
          <5> QED BY <4>1, <5>1, YoungWant DEF Excused
        <4> QED BY <4>2, <4>3, <4>4
      <3>2. CASE ~ck.full /\ ck.gone
        <4>1. Target(p) = 0 BY <2>0, <3>2 DEF Target, Under
        <4>2. NewLife BY <1>1, <3>2, GoneUnsaved
        <4> QED BY <4>1, <4>2, YoungWant DEF Excused
      <3>3. CASE ~ck.full /\ ~ck.gone
        <4>1. Target(p) = Image[p] BY <2>0, <3>3 DEF Target, Under
        <4>2. Image[p] = Want(p) \/ Excused(p, savedRevision, 0)
          BY <1>1, <3>3 DEF Content, AtRest, Comparable
        <4>3. Later(0) => Later(ck.upto) BY <1>1, <3>3, NotGoneLater
        <4> QED BY <4>1, <4>2, <4>3 DEF Excused
      <3> QED BY <3>1, <3>2, <3>3
    <2>2. \A p \in Pages : Target(p)' = Target(p) BY <1>1, <1>3, TargetFrame DEF TaskKept
    <2>3. \A p \in Pages : Want(p)' = Want(p) /\ Marked(p)' = Marked(p) BY <1>1 DEF Want, Marked
    <2>4. Later(ck.upto)' = Later(ck.upto) BY <1>1 DEF Later
    <2>5. AfterSampling'
      <3>1. ck'.slot = 0 BY <1>3, <2>0
      <3> QED BY <1>1, <2>1, <2>2, <2>3, <2>4, <3>1 DEF AfterSampling, Excused
    <2> QED BY <1>3, <2>5 DEF Content, AtRest, Comparable, SameRevision, ToSample, Sampling, DoneSampling
  <1> QED BY <1>1, <1>2, <1>3

\* CkSummary keeps Content.
LEMMA Content_CkSummary ==
  ASSUME Typed, Typed', Stages, Files, Outcome, Handles, Lives, Content, CkSummary
  PROVE  Content'
  <1>1. /\ ck.pc = "summary" /\ ck'.pc = "consume" /\ ck'.revision = revision /\ ck'.todo = resident
        /\ ck'.full = ck.full /\ ck'.gone = ck.gone /\ ck'.ages = ck.ages /\ ck'.slot = ck.slot
        /\ (ck'.replace = (ck.full \/ revision # savedRevision))
        /\ resident' = resident /\ last' = last /\ mark' = mark /\ reader' = reader
        /\ revision' = revision /\ base' = base /\ log' = log
    BY CkSummaryEffect
  <1>2. /\ ck.slot = live /\ live # 0 /\ ck.slot <= ck.ceiling /\ ck.ages = NoAges /\ ck.slot # 0
    BY <1>1 DEF Stages, TaskStages
  <1>3. ASSUME NEW p \in Pages, ~ck'.replace PROVE Under(p) = Want(p) \/ Marked(p)
    <2>1. ~ck.full /\ revision = savedRevision BY <1>1, <1>3
    <2>2. CASE ck.gone
      <3>1. NewLife BY <1>1, <2>2, GoneUnsaved DEF Holding
      <3> QED BY <2>1, <2>2, <3>1, YoungWant DEF Under
    <2>3. CASE ~ck.gone
      <3>1. Image[p] = Want(p) \/ Excused(p, savedRevision, 0)
        BY <1>1, <2>1 DEF Content, AtRest, Comparable
      <3>2. ~Later(0)
        <4>1. Later(0) => Later(ck.upto) BY <1>1, <2>1, <2>3, NotGoneLater
        <4> QED BY <1>1, <1>2, <4>1 DEF Lives, OldLife
      <3> QED BY <2>1, <2>3, <3>1, <3>2 DEF Under, Excused
    <2> QED BY <2>2, <2>3
  <1>4. \A p \in Pages : Under(p)' = Under(p) /\ Want(p)' = Want(p) /\ Marked(p)' = Marked(p)
    BY <1>1 DEF Under, Image, Want, Marked
  <1>5. ToSample' BY <1>1, <1>3, <1>4, TaskFields DEF ToSample
  <1>6. DoneSampling'
    <2>1. SUFFICES ASSUME NEW p \in Pages, p \notin resident PROVE Target(p)' = Want(p) \/ Marked(p)
      BY <1>1, <1>4 DEF DoneSampling
    <2>2. Want(p) = 0 /\ ck'.ages[p] = 0 BY <1>1, <1>2, <2>1 DEF Want, NoAges
    <2>3. CASE ck'.replace BY <1>1, <1>2, <2>2, <2>3 DEF Target
    <2>4. CASE ~ck'.replace
      <3>1. ~ck'.full BY <1>1, <2>4
      <3>2. Target(p)' = Under(p) BY <1>4, <2>2, <2>4, <3>1 DEF Target
      <3> QED BY <1>3, <2>4, <3>2
    <2> QED BY <2>3, <2>4
  <1>7. SameRevision' BY <1>1 DEF SameRevision
  <1> QED BY <1>1, <1>5, <1>6, <1>7
      DEF Content, AtRest, Comparable, AfterSampling, Sampling, Sampled, Writing

\* CkSample keeps Content.
LEMMA Content_CkSample ==
  ASSUME Typed, Typed', Stages, Files, Outcome, Handles, Lives, Content, CkSample
  PROVE  Content'
  <1> DEFINE a == IF last[ck.page] # Unknown /\ (ck.replace \/ ck.marks[ck.page] # Unknown)
                  THEN last[ck.page] ELSE 0
  <1>1. /\ ck.pc = "sample" /\ ck'.pc = "consume" /\ ck'.todo = ck.todo
        /\ ck'.full = ck.full /\ ck'.replace = ck.replace /\ ck'.slot = ck.slot /\ ck'.gone = ck.gone
        /\ ck'.revision = ck.revision /\ revision' = revision /\ resident' = resident
        /\ last' = last /\ mark' = mark /\ reader' = reader /\ base' = base /\ log' = log
        /\ ck'.ages = [ck.ages EXCEPT ![ck.page] = a]
    BY CkSampleEffect
  <1>2. \A q \in Pages : Want(q)' = Want(q) /\ Marked(q)' = Marked(q) /\ Under(q)' = Under(q)
    BY <1>1 DEF Want, Marked, Under, Image
  <1>3. /\ ck.page \in resident /\ ck.page \notin ck.todo /\ ck.slot # 0 /\ (ck.full => ck.replace)
    BY <1>1 DEF Stages, TaskStages, Outcome, Holding
  <1>4. \A q \in Pages : ck'.ages[q] = IF q = ck.page THEN a ELSE ck.ages[q]
    <2> HIDE DEF a
    <2> QED BY <1>1, TaskFields DEF Ages
  <1>5. ASSUME NEW q \in Pages, q = ck.page PROVE Target(q)' = Want(q) \/ Marked(q)
    <2>1. Target(q)' = IF ck.full \/ (ck.slot # 0 /\ (ck.replace \/ a # 0)) THEN a ELSE Under(q)
      <3> HIDE DEF a
      <3>1. ck'.ages[q] = a BY <1>5, <1>4
      <3> QED BY <1>1, <1>2, <3>1 DEF Target
    <2>2. CASE ck.replace BY <1>3, <1>5, <2>1, <2>2 DEF Want
    <2>3. CASE ~ck.replace /\ ck.marks[q] # Unknown
      <3>1. ck.orphans = {} BY <1>1 DEF Handles, NoOrphans
      <3>2. last[q] # Unknown BY <1>1, <2>3, <3>1 DEF Handles, TaskOwned
      <3>3. last[q] # 0 BY TaskFields, Bounds
      <3> QED BY <1>3, <1>5, <2>1, <2>3, <3>2, <3>3 DEF Want
    <2>4. CASE ~ck.replace /\ ck.marks[q] = Unknown
      <3>1. a = 0 BY <1>5, <2>4
      <3>2. Target(q)' = Under(q) BY <1>3, <2>1, <2>4, <3>1
      <3>3. Under(q) = Want(q) \/ Marked(q) BY <1>1, <1>5, <2>4 DEF Content, Sampling
      <3> QED BY <3>2, <3>3
    <2> QED BY <2>2, <2>3, <2>4
  <1> HIDE DEF a
  <1>6. ASSUME NEW q \in Pages, q # ck.page PROVE Target(q)' = Target(q)
    <2>1. ck'.ages[q] = ck.ages[q] BY <1>4, <1>6
    <2> QED BY <1>1, <1>2, <2>1 DEF Target
  <1>7. DoneSampling'
    <2>1. SUFFICES ASSUME NEW q \in Pages, q \notin ck.todo PROVE Target(q)' = Want(q) \/ Marked(q)
      BY <1>1, <1>2 DEF DoneSampling
    <2>2. CASE q = ck.page BY <1>5, <2>2
    <2>3. CASE q # ck.page
      <3>1. Target(q) = Want(q) \/ Marked(q) BY <1>1, <2>1, <2>3 DEF Content, DoneSampling
      <3> QED BY <1>6, <2>3, <3>1
    <2> QED BY <2>2, <2>3
  <1>8. ToSample'
    <2>1. \A q \in ck.todo : q \in Pages BY TaskFields
    <2> QED BY <1>1, <1>2, <2>1 DEF Content, ToSample
  <1>9. SameRevision' BY <1>1 DEF Content, SameRevision
  <1> QED BY <1>1, <1>7, <1>8, <1>9
      DEF Content, AtRest, Comparable, AfterSampling, Sampling, Sampled, Writing

\* CkSampled keeps Content.
LEMMA Content_CkSampled ==
  ASSUME Typed, Typed', Stages, Files, Outcome, Handles, Lives, Content, CkSampled
  PROVE  Content'
  <1>1. /\ ck.pc = "consume" /\ ck.todo = {} /\ ck'.pc = "encode" /\ base' = base /\ log' = log
        /\ TaskKept /\ resident' = resident /\ last' = last /\ mark' = mark /\ reader' = reader
    BY CkSampledEffect DEF TaskKept
  <1>2. \A p \in Pages : Target(p) = Want(p) \/ Marked(p) BY <1>1 DEF Content, DoneSampling
  <1>3. \A p \in Pages : Target(p)' = Target(p) BY <1>1, TargetFrame
  <1>4. \A p \in Pages : Want(p)' = Want(p) /\ Marked(p)' = Marked(p) BY <1>1 DEF Want, Marked
  <1>5. AfterSampling' BY <1>2, <1>3, <1>4 DEF AfterSampling, Excused
  <1> QED BY <1>1, <1>5 DEF Content, AtRest, Comparable, SameRevision, ToSample, Sampling, DoneSampling

\* CkTooLarge keeps Content.
LEMMA Content_CkTooLarge ==
  ASSUME Typed, Typed', Stages, Files, Outcome, Handles, Lives, Content, CkTooLarge
  PROVE  Content'
  <1>1. ck'.pc = "idle" /\ reg'.journal = reg.journal /\ ck.pc \in {"consume", "encode", "drop"}
    BY CkTooLargeEffect
  <1>2. reg.journal.full BY <1>1 DEF Files, Retry, Writing
  <1> QED BY <1>1, <1>2, Elsewhere DEF Comparable, Sampled, Writing

\* CkNoDirectory keeps Content.
LEMMA Content_CkNoDirectory ==
  ASSUME Typed, Typed', Stages, Files, Outcome, Handles, Lives, Content, CkNoDirectory
  PROVE  Content'
  <1>1. ck'.pc = "idle" /\ reg'.journal = reg.journal /\ ck.pc \in {"consume", "encode", "drop"}
    BY CkNoDirectoryEffect
  <1>2. reg.journal.full BY <1>1 DEF Files, Retry, Writing
  <1> QED BY <1>1, <1>2, Elsewhere DEF Comparable, Sampled, Writing

\* CkEncode keeps Content.
LEMMA Content_CkEncode ==
  ASSUME Typed, Typed', Stages, Files, Outcome, Handles, Lives, Content, CkEncode
  PROVE  Content'
  <1>1. ck.pc \in Sampled /\ ck'.pc \in Sampled BY CkEncodeEffect DEF Sampled, Writing
  <1>2. /\ reg'.removed = reg.removed /\ reg'.overflow = reg.overflow /\ resident' = resident
        /\ last' = last /\ mark' = mark /\ reader' = reader /\ revision' = revision
        /\ savedRevision' = savedRevision /\ ck'.slot = ck.slot /\ ck'.revision = ck.revision
        /\ ck'.upto = ck.upto
    BY CkEncodeEffect
  <1>3. \A p \in Pages : Target(p)' = Target(p)
    <2>1. base' = base /\ log' = log /\ TaskKept BY CkEncodeEffect DEF TaskKept
    <2> QED BY <2>1, TargetFrame
  <1> QED BY <1>1, <1>2, <1>3, SampledContent

\* CkBase keeps Content.
LEMMA Content_CkBase ==
  ASSUME Typed, Typed', Stages, Files, Outcome, Handles, Lives, Content, CkBase
  PROVE  Content'
  <1>1. ck.pc \in Sampled /\ ck'.pc \in Sampled BY CkBaseEffect DEF Sampled, Writing
  <1>2. /\ reg'.removed = reg.removed /\ reg'.overflow = reg.overflow /\ resident' = resident
        /\ last' = last /\ mark' = mark /\ reader' = reader /\ revision' = revision
        /\ savedRevision' = savedRevision /\ ck'.slot = ck.slot /\ ck'.revision = ck.revision
        /\ ck'.upto = ck.upto
    BY CkBaseEffect
  <1>3. \A p \in Pages : Target(p)' = Target(p)
    <2>1. ck.pc \in {"base", "log"} /\ TaskKept BY CkBaseEffect DEF TaskKept
    <2>2. ck.full BY <2>1 DEF Files, Writes
    <2> QED BY <2>1, <2>2 DEF Target, TaskKept
  <1> QED BY <1>1, <1>2, <1>3, SampledContent

\* CkBaseSync keeps Content.
LEMMA Content_CkBaseSync ==
  ASSUME Typed, Typed', Stages, Files, Outcome, Handles, Lives, Content, CkBaseSync
  PROVE  Content'
  <1>1. ck.pc \in Sampled /\ ck'.pc \in Sampled BY CkBaseSyncEffect DEF Sampled, Writing
  <1>2. /\ reg'.removed = reg.removed /\ reg'.overflow = reg.overflow /\ resident' = resident
        /\ last' = last /\ mark' = mark /\ reader' = reader /\ revision' = revision
        /\ savedRevision' = savedRevision /\ ck'.slot = ck.slot /\ ck'.revision = ck.revision
        /\ ck'.upto = ck.upto
    BY CkBaseSyncEffect
  <1>3. \A p \in Pages : Target(p)' = Target(p)
    <2>1. base' = base /\ log' = log /\ TaskKept BY CkBaseSyncEffect DEF TaskKept
    <2> QED BY <2>1, TargetFrame
  <1> QED BY <1>1, <1>2, <1>3, SampledContent

\* CkLog keeps Content.
LEMMA Content_CkLog ==
  ASSUME Typed, Typed', Stages, Files, Outcome, Handles, Lives, Content, CkLog
  PROVE  Content'
  <1>1. ck.pc \in Sampled /\ ck'.pc \in Sampled BY CkLogEffect DEF Sampled, Writing
  <1>2. /\ reg'.removed = reg.removed /\ reg'.overflow = reg.overflow /\ resident' = resident
        /\ last' = last /\ mark' = mark /\ reader' = reader /\ revision' = revision
        /\ savedRevision' = savedRevision /\ ck'.slot = ck.slot /\ ck'.revision = ck.revision
        /\ ck'.upto = ck.upto
    BY CkLogEffect
  <1>3. \A p \in Pages : Target(p)' = Target(p)
    <2>1. ck.pc \in {"base", "log"} /\ TaskKept BY CkLogEffect DEF TaskKept
    <2>2. ck.full BY <2>1 DEF Files, Writes
    <2> QED BY <2>1, <2>2 DEF Target, TaskKept
  <1> QED BY <1>1, <1>2, <1>3, SampledContent

\* CkLogSync keeps Content.
LEMMA Content_CkLogSync ==
  ASSUME Typed, Typed', Stages, Files, Outcome, Handles, Lives, Content, CkLogSync
  PROVE  Content'
  <1>1. ck.pc \in Sampled /\ ck'.pc \in Sampled BY CkLogSyncEffect DEF Sampled, Writing
  <1>2. /\ reg'.removed = reg.removed /\ reg'.overflow = reg.overflow /\ resident' = resident
        /\ last' = last /\ mark' = mark /\ reader' = reader /\ revision' = revision
        /\ savedRevision' = savedRevision /\ ck'.slot = ck.slot /\ ck'.revision = ck.revision
        /\ ck'.upto = ck.upto
    BY CkLogSyncEffect
  <1>3. \A p \in Pages : Target(p)' = Target(p)
    <2>1. base' = base /\ log' = log /\ TaskKept BY CkLogSyncEffect DEF TaskKept
    <2> QED BY <2>1, TargetFrame
  <1> QED BY <1>1, <1>2, <1>3, SampledContent

\* CkAppend keeps Content.
LEMMA Content_CkAppend ==
  ASSUME Typed, Typed', Stages, Files, Outcome, Handles, Lives, Content, CkAppend
  PROVE  Content'
  <1>1. ck.pc \in Sampled /\ ck'.pc \in Sampled BY CkAppendEffect DEF Sampled, Writing
  <1>2. /\ reg'.removed = reg.removed /\ reg'.overflow = reg.overflow /\ resident' = resident
        /\ last' = last /\ mark' = mark /\ reader' = reader /\ revision' = revision
        /\ savedRevision' = savedRevision /\ ck'.slot = ck.slot /\ ck'.revision = ck.revision
        /\ ck'.upto = ck.upto
    BY CkAppendEffect
  <1>3. \A p \in Pages : Target(p)' = Target(p) BY AppendTarget
  <1> QED BY <1>1, <1>2, <1>3, SampledContent

\* CkAppendSync keeps Content.
LEMMA Content_CkAppendSync ==
  ASSUME Typed, Typed', Stages, Files, Outcome, Handles, Lives, Content, CkAppendSync
  PROVE  Content'
  <1>1. ck.pc \in Sampled /\ ck'.pc \in Sampled BY CkAppendSyncEffect DEF Sampled, Writing
  <1>2. /\ reg'.removed = reg.removed /\ reg'.overflow = reg.overflow /\ resident' = resident
        /\ last' = last /\ mark' = mark /\ reader' = reader /\ revision' = revision
        /\ savedRevision' = savedRevision /\ ck'.slot = ck.slot /\ ck'.revision = ck.revision
        /\ ck'.upto = ck.upto
    BY CkAppendSyncEffect
  <1>3. \A p \in Pages : Target(p)' = Target(p)
    <2>1. base' = base /\ log' = log /\ TaskKept BY CkAppendSyncEffect DEF TaskKept
    <2> QED BY <2>1, TargetFrame
  <1> QED BY <1>1, <1>2, <1>3, SampledContent

\* CkSetJournal keeps Content.
LEMMA Content_CkSetJournal ==
  ASSUME Typed, Typed', Stages, Files, Outcome, Handles, Lives, Content, CkSetJournal
  PROVE  Content'
  <1>1. ck.pc \in Sampled /\ ck'.pc \in Sampled BY CkSetJournalEffect DEF Sampled, Writing
  <1>2. /\ reg'.removed = reg.removed /\ reg'.overflow = reg.overflow /\ resident' = resident
        /\ last' = last /\ mark' = mark /\ reader' = reader /\ revision' = revision
        /\ savedRevision' = savedRevision /\ ck'.slot = ck.slot /\ ck'.revision = ck.revision
        /\ ck'.upto = ck.upto
    BY CkSetJournalEffect
  <1>3. \A p \in Pages : Target(p)' = Target(p)
    <2>1. base' = base /\ log' = log /\ TaskKept BY CkSetJournalEffect DEF TaskKept
    <2> QED BY <2>1, TargetFrame
  <1> QED BY <1>1, <1>2, <1>3, SampledContent

\* CkRevise keeps Content.
LEMMA Content_CkRevise ==
  ASSUME Typed, Typed', Stages, Files, Outcome, Handles, Lives, Content, CkRevise
  PROVE  Content'
  <1>1. /\ ck.pc = "revise" /\ ck'.pc = "finish" /\ ck'.upto = ck.upto /\ reg' = reg
        /\ savedRevision' = (IF ck.slot # 0 THEN ck.revision ELSE savedRevision)
        /\ resident' = resident /\ last' = last /\ mark' = mark /\ reader' = reader
        /\ revision' = revision /\ base' = base /\ log' = log
    BY CkReviseEffect
  <1>2. \A p \in Pages : Image'[p] = Target(p) BY <1>1 DEF Outcome, Image
  <1>3. \A p \in Pages : Target(p) = Want(p) \/ Excused(p, savedRevision', ck.upto)
    BY <1>1 DEF Content, AfterSampling, Sampled
  <1>4. \A p \in Pages : Want(p)' = Want(p) /\ Marked(p)' = Marked(p) BY <1>1 DEF Want, Marked
  <1>5. Later(ck.upto)' = Later(ck.upto) BY <1>1 DEF Later
  <1>6. AtRest' BY <1>1, <1>2, <1>3, <1>4, <1>5 DEF AtRest, Excused
  <1> QED BY <1>1, <1>6 DEF Content, AfterSampling, SameRevision, ToSample, Sampling,
      DoneSampling, Sampled, Writing

\* CkFinish keeps Content.
LEMMA Content_CkFinish ==
  ASSUME Typed, Typed', Stages, Files, Outcome, Handles, Lives, Content, CkFinish
  PROVE  Content'
  <1>1. /\ ck.pc = "finish" /\ ck'.pc = "idle" /\ reg'.journal = reg.journal
        /\ reg'.removed = {m \in reg.removed : m > ck.upto}
        /\ reg'.overflow = (IF reg.overflow <= ck.upto THEN 0 ELSE reg.overflow)
        /\ resident' = resident /\ last' = last /\ mark' = mark /\ reader' = reader
        /\ revision' = revision /\ savedRevision' = savedRevision /\ base' = base /\ log' = log
    BY CkFinishEffect
  <1>2. Later(ck.upto) => Later(0)' BY <1>1, TaskFields DEF Later
  <1>3. \A p \in Pages : Want(p)' = Want(p) /\ Marked(p)' = Marked(p) /\ Image'[p] = Image[p]
    BY <1>1 DEF Want, Marked, Image
  <1>4. Comparable' => Comparable BY <1>1 DEF Comparable
  <1>5. AtRest' BY <1>1, <1>2, <1>3, <1>4 DEF Content, AtRest, Excused
  <1> QED BY <1>1, <1>5 DEF Content, AfterSampling, SameRevision, ToSample, Sampling,
      DoneSampling, Sampled, Writing

\* CkFail keeps Content.
LEMMA Content_CkFail ==
  ASSUME Typed, Typed', Stages, Files, Outcome, Handles, Lives, Content, CkFail
  PROVE  Content'
  <1>1. ck'.pc = "drop" BY CkFailEffect
  <1> QED BY <1>1, Elsewhere DEF Comparable, Sampled, Writing

\* CkDropSummary keeps Content.
LEMMA Content_CkDropSummary ==
  ASSUME Typed, Typed', Stages, Files, Outcome, Handles, Lives, Content, CkDropSummary
  PROVE  Content'
  <1>1. ck'.pc = "idle" /\ reg'.journal = reg.journal /\ ck.pc \in {"consume", "encode", "drop"}
    BY CkDropSummaryEffect
  <1>2. reg.journal.full BY <1>1 DEF Files, Retry, Writing
  <1> QED BY <1>1, <1>2, Elsewhere DEF Comparable, Sampled, Writing

\* CkConsume keeps Content.
LEMMA Content_CkConsume ==
  ASSUME Typed, Typed', Stages, Files, Outcome, Handles, Lives, Content, CkConsume
  PROVE  Content'
  <1>0. PICK p \in ck.todo :
         /\ p \in Pages /\ ck.pc = "consume" /\ ck'.pc = "sample" /\ ck'.page = p
         /\ ck'.todo = ck.todo \ {p} /\ ck'.marks = [ck.marks EXCEPT ![p] = mark[p]]
         /\ mark' = [mark EXCEPT ![p] = Unknown]
         /\ ck'.ceiling = ck.ceiling /\ ck'.upto = ck.upto /\ ck'.journal = ck.journal
         /\ ck'.full = ck.full /\ ck'.gone = ck.gone /\ ck'.slot = ck.slot
         /\ ck'.held = ck.held /\ ck'.since = ck.since /\ ck'.replace = ck.replace
         /\ ck'.revision = ck.revision /\ ck'.ages = ck.ages /\ ck'.orphans = ck.orphans
         /\ reader' = reader
         /\ now' = now /\ resident' = resident /\ last' = last
         /\ live' = live /\ blockDirty' = blockDirty
         /\ shardDirty' = shardDirty /\ revision' = revision
         /\ savedRevision' = savedRevision /\ reg' = reg /\ base' = base
         /\ log' = log /\ bases' = bases /\ logs' = logs /\ saved' = saved
         /\ fails' = fails /\ crashes' = crashes
    BY CkConsumeEffect
  <1>1. /\ p \in Pages /\ ck.pc = "consume" /\ ck'.pc = "sample" /\ ck'.page = p
        /\ ck'.todo = ck.todo \ {p} /\ ck'.marks = [ck.marks EXCEPT ![p] = mark[p]]
        /\ mark' = [mark EXCEPT ![p] = Unknown] /\ ck'.replace = ck.replace
        /\ ck'.revision = ck.revision /\ TaskKept
        /\ reader' = reader /\ resident' = resident /\ last' = last
        /\ revision' = revision /\ base' = base /\ log' = log
    BY <1>0 DEF TaskKept
  <1>2. \A q \in Pages : Target(q)' = Target(q) /\ Under(q)' = Under(q) BY <1>1, TargetFrame
  <1>3. \A q \in Pages : Want(q)' = Want(q) BY <1>1 DEF Want
  <1>4. \A q \in Pages : q # p => Marked(q)' = Marked(q)
    <2>1. \A q \in Pages : q # p => mark'[q] = mark[q] BY <1>1, TaskFields
    <2> QED BY <1>1, <2>1 DEF Marked
  <1>5. Marked(p) => Marked(p)' \/ ck'.marks[p] # Unknown
    <2>1. ck'.marks[p] = mark[p] BY <1>1, TaskFields
    <2> QED BY <1>1, <2>1 DEF Marked
  <1>6. ToSample'
    <2>1. \A q \in ck.todo : q \in Pages BY TaskFields
    <2> QED BY <1>1, <1>2, <1>3, <1>4, <2>1 DEF Content, ToSample
  <1>7. Sampling'
    <2>1. ~ck.replace => Under(p) = Want(p) \/ Marked(p) BY <1>1 DEF Content, ToSample
    <2> QED BY <1>1, <1>2, <1>3, <1>5, <2>1 DEF Sampling
  <1>8. DoneSampling' BY <1>1, <1>2, <1>3, <1>4 DEF Content, DoneSampling
  <1>9. SameRevision' BY <1>1 DEF Content, SameRevision
  <1> QED BY <1>1, <1>6, <1>7, <1>8, <1>9
      DEF Content, AtRest, Comparable, AfterSampling, Sampled, Writing

\* CkDropPage keeps Content.
LEMMA Content_CkDropPage ==
  ASSUME Typed, Typed', Stages, Files, Outcome, Handles, Lives, Content, CkDropPage
  PROVE  Content'
  <1>0. PICK p \in Pages :
         /\ ck.pc = "drop" /\ ck.marks[p] # Unknown
         /\ \A q \in Pages : q # p => mark'[q] = mark[q]
         /\ p \in ck.orphans => mark' = mark
         /\ p \notin ck.orphans => mark'[p] # Unknown
         /\ Dirty(ck.slot, ck.marks[p])
         /\ ck'.marks = [ck.marks EXCEPT ![p] = Unknown]
         /\ ck'.pc = ck.pc /\ ck'.page = ck.page /\ ck'.todo = ck.todo
         /\ ck'.ceiling = ck.ceiling /\ ck'.upto = ck.upto /\ ck'.journal = ck.journal
         /\ ck'.full = ck.full /\ ck'.gone = ck.gone /\ ck'.slot = ck.slot
         /\ ck'.held = ck.held /\ ck'.since = ck.since /\ ck'.replace = ck.replace
         /\ ck'.revision = ck.revision /\ ck'.ages = ck.ages /\ ck'.orphans = ck.orphans
         /\ reader' = reader
         /\ now' = now /\ resident' = resident /\ last' = last
         /\ live' = live /\ revision' = revision
         /\ savedRevision' = savedRevision /\ reg' = reg /\ base' = base
         /\ log' = log /\ bases' = bases /\ logs' = logs /\ saved' = saved
         /\ fails' = fails /\ crashes' = crashes
    BY CkDropPageEffect
  <1>1. ck'.pc = "drop" BY <1>0
  <1> QED BY <1>1, Elsewhere DEF Comparable, Sampled, Writing

\* Create keeps Content.
LEMMA Content_Create ==
  ASSUME Typed, Typed', Stages, Files, Outcome, Handles, Lives, Content, Create
  PROVE  Content'
  <1>1. /\ live = 0 /\ revision' = 0 /\ savedRevision' = 0 /\ reg'.removed = reg.removed
        /\ reg'.overflow = reg.overflow /\ reg'.journal = reg.journal /\ ck' = ck
        /\ resident' = resident /\ last' = last /\ mark' = mark /\ reader' = reader
        /\ base' = base /\ log' = log
    BY CreateEffect
  <1>2. revision = 0 /\ savedRevision = 0 BY <1>1 DEF Lives, Revisions
  <1>3. ~(ck.pc \in Holding /\ ck.slot # 0) BY <1>1, HeldSlot
  <1>4. ck.pc \notin {"consume", "sample"} BY <1>1 DEF Stages, TaskStages
  <1>5. \A p \in Pages : Target(p)' = Target(p) /\ Image'[p] = Image[p] BY <1>1, TargetFrame DEF TaskKept
  <1>6. AtRest' BY <1>1, <1>2, <1>5 DEF Content, AtRest, Comparable, Excused, Marked, Later, Want
  <1>7. AfterSampling'
    <2>1. ck.pc \in Sampled => ck.slot = 0 BY <1>3 DEF Holding
    <2> QED BY <1>1, <1>2, <1>5, <2>1 DEF Content, AfterSampling, Excused, Marked, Later, Want
  <1> QED BY <1>1, <1>4, <1>6, <1>7 DEF Content, SameRevision, ToSample, Sampling, DoneSampling

\* Retire keeps Content.
LEMMA Content_Retire ==
  ASSUME Typed, Typed', Stages, Files, Outcome, Handles, Lives, Content, Retire
  PROVE  Content'
  <1>1. /\ resident = {} /\ ~(ck.held /\ ck.slot = live) /\ ck' = ck /\ resident' = resident
        /\ base' = base /\ log' = log /\ reg'.journal = reg.journal
        /\ reg.journal.gen = 0 \/ reg.membership + 1 \in reg'.removed
           \/ reg'.overflow = reg.membership + 1
    BY RetireEffect
  <1>2. reg.journal.gen # 0 => Later(0)' /\ (ck.pc # "idle" => Later(ck.upto)')
    <2>1. ck.pc # "idle" => ck.upto <= reg.membership BY DEF Lives, Counters
    <2>2. ck'.upto = ck.upto BY <1>1
    <2> QED BY <1>1, <2>1, <2>2, Numbers DEF Later
  <1>3. ~(ck.pc \in Holding /\ ck.slot # 0) BY <1>1, HeldSlot
  <1>4. ck.pc \notin {"consume", "sample"} BY <1>3 DEF Stages, TaskStages, Holding
  <1>5. AtRest'
    <2>1. Comparable => reg.journal.gen # 0
      BY DEF Comparable, Files, Retry, Writes, Single, Unwritten, Writing
    <2>2. Comparable' => Comparable BY <1>1 DEF Comparable
    <2> QED BY <1>1, <1>2, <2>1, <2>2 DEF AtRest, Excused
  <1>6. AfterSampling'
    <2>1. SUFFICES ASSUME ck.pc \in Sampled, reg.journal.gen = 0
          PROVE  \A p \in Pages : Target(p)' = Want(p)'
      <3>1. ck.pc \in Sampled => ck.pc # "idle" BY DEF Sampled, Writing
      <3> QED BY <1>1, <1>2, <3>1 DEF AfterSampling, Excused
    <2>2. ck.slot = 0 /\ ck.ages = NoAges BY <1>3, <2>1 DEF Holding, Stages, TaskStages
    <2>3. ck.full
      <3>1. ck.pc = "revise" => reg.journal.gen # 0 BY DEF Files, Retry, Single
      <3>2. ck.pc = "written" /\ ~ck.full => reg.journal.gen # 0 BY DEF Files, Retry, Writes, Single
      <3>3. ck.pc \in {"encode", "append", "appendSync"} /\ ~ck.full => reg.journal.gen # 0
        BY DEF Files, Retry, Writes, Single, Unwritten, Writing
      <3>4. ck.pc \in {"base", "baseSync", "log", "logSync"} => ck.full BY DEF Files, Writes
      <3> QED BY <2>1, <3>1, <3>2, <3>3, <3>4 DEF Sampled, Writing
    <2>4. ck'.full /\ ck'.ages = NoAges BY <1>1, <2>2, <2>3
    <2> QED BY <1>1, <2>4 DEF Target, Want, NoAges
  <1> QED BY <1>1, <1>4, <1>5, <1>6 DEF Content, SameRevision, ToSample, Sampling, DoneSampling

\* Tick keeps Content.
LEMMA Content_Tick ==
  ASSUME Typed, Typed', Stages, Files, Outcome, Handles, Lives, Content, Tick
  PROVE  Content'
  <1>1. /\ reg' = reg /\ ck' = ck /\ base' = base /\ log' = log /\ resident' = resident
        /\ revision' = revision /\ savedRevision' = savedRevision
    BY TickEffect
  <1>2. \A p \in Pages : Marked(p)' \/ (last'[p] = last[p] /\ (Marked(p) => Marked(p)'))
    <2>1. mark' = mark /\ last' = last /\ reader' = reader BY TickEffect
    <2> QED BY <2>1 DEF Marked
  <1> QED BY <1>1, <1>2, ReaderContent

\* ReadDone keeps Content.
LEMMA Content_ReadDone ==
  ASSUME Typed, Typed', Stages, Files, Outcome, Handles, Lives, Content, NEW r \in Readers, ReadDone(r)
  PROVE  Content'
  <1>1. /\ reg' = reg /\ ck' = ck /\ base' = base /\ log' = log /\ resident' = resident
        /\ revision' = revision /\ savedRevision' = savedRevision
    BY ReadDoneEffect
  <1>2. \A p \in Pages : Marked(p)' \/ (last'[p] = last[p] /\ (Marked(p) => Marked(p)'))
    <2>1. Others(r) /\ reader[r].pc # "stamped" /\ mark' = mark /\ last' = last BY ReadDoneEffect
    <2> QED BY <2>1 DEF Marked, Others
  <1> QED BY <1>1, <1>2, ReaderContent

\* Stamp keeps Content.
LEMMA Content_Stamp ==
  ASSUME Typed, Typed', Stages, Files, Outcome, Handles, Lives, Content, NEW r \in Readers, Stamp(r)
  PROVE  Content'
  <1>1. /\ reg' = reg /\ ck' = ck /\ base' = base /\ log' = log /\ resident' = resident
        /\ revision' = revision /\ savedRevision' = savedRevision
    BY StampEffect
  <1>2. \A p \in Pages : Marked(p)' \/ (last'[p] = last[p] /\ (Marked(p) => Marked(p)'))
    <2>1. /\ Others(r) /\ reader[r].pc = "timed" /\ mark' = mark
          /\ \A q \in Pages : q # reader[r].page => last'[q] = last[q]
          /\ (reader'[r].pc = "stamped" /\ reader'[r].page = reader[r].page)
             \/ (reader'[r].pc = "idle" /\ last' = last)
      BY StampEffect
    <2>2. \A p \in Pages : Marked(p) => Marked(p)' BY <2>1 DEF Marked, Others
    <2>3. ASSUME NEW p \in Pages, last'[p] # last[p] PROVE Marked(p)'
      <3>1. p = reader[r].page /\ reader'[r].pc = "stamped" /\ reader'[r].page = p BY <2>1, <2>3
      <3> QED BY <3>1 DEF Marked
    <2> QED BY <2>2, <2>3
  <1> QED BY <1>1, <1>2, ReaderContent

\* Mark keeps Content.
LEMMA Content_Mark ==
  ASSUME Typed, Typed', Stages, Files, Outcome, Handles, Lives, Content, NEW r \in Readers, Mark(r)
  PROVE  Content'
  <1>1. /\ reg' = reg /\ ck' = ck /\ base' = base /\ log' = log /\ resident' = resident
        /\ revision' = revision /\ savedRevision' = savedRevision
    BY MarkEffect
  <1>2. \A p \in Pages : Marked(p)' \/ (last'[p] = last[p] /\ (Marked(p) => Marked(p)'))
    <2>1. /\ Others(r) /\ last' = last /\ mark'[reader[r].page] # Unknown
          /\ \A q \in Pages : q # reader[r].page => mark'[q] = mark[q]
      BY MarkEffect
    <2> QED BY <2>1 DEF Marked, Others
  <1> QED BY <1>1, <1>2, ReaderContent

\* Notify keeps Content.
LEMMA Content_Notify ==
  ASSUME Typed, Typed', Stages, Files, Outcome, Handles, Lives, Content, NEW r \in Readers, Notify(r)
  PROVE  Content'
  <1>1. /\ reg' = reg /\ ck' = ck /\ base' = base /\ log' = log /\ resident' = resident
        /\ revision' = revision /\ savedRevision' = savedRevision
    BY NotifyEffect
  <1>2. \A p \in Pages : Marked(p)' \/ (last'[p] = last[p] /\ (Marked(p) => Marked(p)'))
    <2>1. Others(r) /\ reader[r].pc # "stamped" /\ mark' = mark /\ last' = last BY NotifyEffect
    <2> QED BY <2>1 DEF Marked, Others
  <1> QED BY <1>1, <1>2, ReaderContent

\* Queue keeps Content.
LEMMA Content_Queue ==
  ASSUME Typed, Typed', Stages, Files, Outcome, Handles, Lives, Content, NEW r \in Readers, Queue(r)
  PROVE  Content'
  <1>1. /\ reg' = reg /\ ck' = ck /\ base' = base /\ log' = log /\ resident' = resident
        /\ revision' = revision /\ savedRevision' = savedRevision
    BY QueueEffect
  <1>2. \A p \in Pages : Marked(p)' \/ (last'[p] = last[p] /\ (Marked(p) => Marked(p)'))
    <2>1. Others(r) /\ reader[r].pc # "stamped" /\ mark' = mark /\ last' = last BY QueueEffect
    <2> QED BY <2>1 DEF Marked, Others
  <1> QED BY <1>1, <1>2, ReaderContent

\* Register keeps Content.
LEMMA Content_Register ==
  ASSUME Typed, Typed', Stages, Files, Outcome, Handles, Lives, Content, NEW p \in Pages, Register(p)
  PROVE  Content'
  <1>1. /\ revision' = revision + 1 /\ savedRevision' = savedRevision /\ ck'.pc = ck.pc
        /\ ck'.slot = ck.slot /\ ck'.revision = ck.revision /\ ck.pc \notin {"consume", "sample"}
    BY RegisterEffect
  <1> QED BY <1>1, Stale

\* Delete keeps Content.
LEMMA Content_Delete ==
  ASSUME Typed, Typed', Stages, Files, Outcome, Handles, Lives, Content, NEW p \in Pages, Delete(p)
  PROVE  Content'
  <1>1. /\ revision' = revision + 1 /\ savedRevision' = savedRevision /\ ck'.pc = ck.pc
        /\ ck'.slot = ck.slot /\ ck'.revision = ck.revision /\ ck.pc \notin {"consume", "sample"}
    BY DeleteEffect
  <1> QED BY <1>1, Stale

\* Restart keeps Content.
LEMMA Content_Restart ==
  ASSUME Typed, Typed', Stages, Files, Outcome, Handles, Lives, Content, Restart
  PROVE  Content'
  <1>1. PICK b \in bases, l \in logs, found \in SUBSET resident :
           /\ b \in File /\ l \in Log /\ Recovered(b, l) \in Ages
           /\ base' = b /\ bases' = {b} /\ log' = l /\ logs' = {l}
           /\ resident' = found
           /\ last' = [p \in Pages |-> IF p \in found /\ Recovered(b, l)[p] # 0
                                       THEN Recovered(b, l)[p] ELSE Unknown]
           /\ live' = IF found = {} THEN 0 ELSE 1
           /\ reg' \in Registries
           /\ reg'.next = live' /\ reg'.saved = 0 /\ reg'.removed = {} /\ reg'.overflow = 0
           /\ reg'.membership = live' + (IF b.gen = 0 THEN 0 ELSE 1)
           /\ reg'.journal.gen = b.gen /\ reg'.journal.full = TRUE /\ reg'.dir = reg.dir
           /\ saved' = [p \in Pages |-> IF p \in found THEN saved[p] ELSE 0]
    BY RestartFacts
  <1>2. /\ ck' = Idle /\ mark' = Clean /\ blockDirty' = Unknown /\ revision' = 0 /\ savedRevision' = 0
        /\ shardDirty' = [s \in 1 .. MaxSlots |-> Unknown] /\ reader' = [r \in Readers |-> Resting]
    BY DEF Restart
  <1>3. ck'.pc = "idle" /\ reg'.journal.full BY <1>1, <1>2, IdleFields
  <1> QED BY <1>3, Elsewhere DEF Comparable, Sampled, Writing

\* Every step keeps Content.
LEMMA ContentStep ==
  ASSUME Typed, Typed', Stages, Files, Outcome, Handles, Lives, Content, [Next]_vars
  PROVE  Content'
  <1>1. CASE UNCHANGED vars BY <1>1 DEF vars, memory, disk, ghost, Content, AtRest,
      AfterSampling, SameRevision, ToSample, Sampling, DoneSampling, Comparable, Excused,
      Marked, Want, Later, Target, Under, Image
  <1>2. CASE Tick BY <1>2, Content_Tick
  <1>3. ASSUME NEW r \in Readers, ReadDone(r) \/ Touch(r) PROVE Content'
    BY <1>3, Content_ReadDone, Content_Stamp, Content_Mark, Content_Notify, Content_Queue DEF Touch
  <1>4. ASSUME NEW p \in Pages, Register(p) \/ Delete(p) PROVE Content'
    BY <1>4, Content_Register, Content_Delete
  <1>5. CASE Create \/ Retire \/ CkTooLarge \/ CkFail \/ Restart
    BY <1>5, Content_Create, Content_Retire, Content_CkTooLarge, Content_CkFail, Content_Restart
  <1>6. CASE Checkpoint
    BY <1>6, Content_CkStart, Content_CkJournal, Content_CkPick, Content_CkSummary,
        Content_CkSample, Content_CkSampled, Content_CkNoDirectory, Content_CkEncode,
        Content_CkBase, Content_CkBaseSync, Content_CkLog, Content_CkLogSync, Content_CkAppend,
        Content_CkAppendSync, Content_CkSetJournal, Content_CkRevise, Content_CkFinish,
        Content_CkDropSummary, Content_CkConsume, Content_CkDropPage DEF Checkpoint
  <1> QED BY <1>1, <1>2, <1>3, <1>4, <1>5, <1>6 DEF Next

-----------------------------------------------------------------------------
(* The theorems                                                            *)

\* The invariant holds at the start,
LEMMA InvInit == Init => Inv
  <1> SUFFICES ASSUME Init PROVE Inv OBVIOUS
  <1>1. Typed BY TypedInit
  <1>2. /\ resident = {} /\ last = Clean /\ mark = Clean /\ live = 0 /\ blockDirty = Unknown
        /\ shardDirty = [s \in 1 .. MaxSlots |-> Unknown] /\ revision = 0 /\ savedRevision = 0
        /\ reader = [r \in Readers |-> Resting] /\ ck = Idle /\ saved = NoAges
        /\ base = NoFile /\ log = NoLog /\ bases = {NoFile} /\ logs = {NoLog}
    BY DEF Init
  <1>3. /\ reg.next = 0 /\ reg.membership = 0 /\ reg.saved = 0 /\ reg.removed = {}
        /\ reg.overflow = 0 /\ reg.journal = NewJournal /\ reg.dir = FALSE
    BY DEF Init
  <1>4. /\ NewJournal.gen = 0 /\ NewJournal.full = TRUE /\ NoFile.gen = 0 /\ NoFile.ages = NoAges
        /\ NoLog.gen = 0 /\ NoLog.frames = <<>>
    BY DEF NewJournal, NoFile, NoLog
  <1>5. \A p \in Pages : Clean[p] = Unknown /\ NoAges[p] = 0 BY DEF Clean, NoAges
  <1>6. \A r \in Readers : reader[r].pc = "idle" BY <1>2, RestingFields
  <1>7. "idle" \notin Holding \cup Sampled \cup Writing BY DEF Holding, Sampled, Writing
  <1>8. Stages
    <2>1. Slots BY <1>2, <1>3, IdleFields DEF Slots
    <2>2. Inside BY <1>6 DEF Inside
    <2>3. TaskStages BY <1>2, <1>7, IdleFields DEF TaskStages
    <2> QED BY <2>1, <2>2, <2>3 DEF Stages
  <1>9. Files
    <2>1. Generations BY <1>2, <1>3, <1>4 DEF Generations
    <2>2. Retry BY <1>2, <1>3, <1>4, <1>7, IdleFields DEF Retry
    <2>3. Writes BY <1>2, IdleFields DEF Writes, Unwritten
    <2> QED BY <2>1, <2>2, <2>3 DEF Files
  <1>10. Outcome BY <1>2, <1>7, IdleFields DEF Outcome
  <1>11. Handles
    BY <1>2, <1>5, <1>6, IdleFields DEF Handles, Absent, MarkOwned, StampOwned, TaskOwned, NoOrphans
  <1>12. Lives
    <2>1. Counters BY <1>2, <1>3, IdleFields DEF Counters
    <2>2. Revisions BY <1>2, <1>7, IdleFields DEF Revisions
    <2>3. OldLife /\ YoungLife BY <1>2, IdleFields DEF OldLife, YoungLife
    <2>4. LaterLife BY <1>2, <1>3, IdleFields DEF LaterLife, Later
    <2>5. TombDue /\ NoTombDue /\ NoOverflow /\ Skipped
      BY <1>2, <1>7, IdleFields DEF TombDue, NoTombDue, NoOverflow, Skipped
    <2> QED BY <2>1, <2>2, <2>3, <2>4, <2>5 DEF Lives
  <1>13. Queued
    BY <1>2, <1>5, <1>7, IdleFields
    DEF Queued, BlockQueued, MarksQueued, ChangesQueued, NewerQueued, Unchanged
  <1>14. Busy BY <1>2, <1>7, IdleFields DEF Busy, Started, Underway, Unfinished
  <1>15. Durable
    <2>1. SavedKnown /\ AgesKnown /\ OrphansUnsaved
      BY <1>2, <1>5, IdleFields DEF SavedKnown, AgesKnown, OrphansUnsaved
    <2>2. SavedTarget /\ SavedUnder /\ SavedSoFar
      BY <1>2, <1>7, IdleFields DEF SavedTarget, SavedUnder, SavedSoFar
    <2>3. SavedOnDisk
      <3>1. Recovered(NoFile, NoLog) = NoAges BY <1>4 DEF Recovered
      <3> QED BY <1>2, <1>5, <3>1 DEF SavedOnDisk
    <2> QED BY <2>1, <2>2, <2>3 DEF Durable
  <1>16. Content
    <2>1. ~Comparable BY <1>2, <1>3, <1>4, IdleFields DEF Comparable
    <2> QED BY <1>2, <1>7, <2>1, IdleFields
        DEF Content, AtRest, AfterSampling, SameRevision, ToSample, Sampling, DoneSampling
  <1> QED BY <1>1, <1>8, <1>9, <1>10, <1>11, <1>12, <1>13, <1>14, <1>15, <1>16 DEF Inv

\* and every step keeps it.
LEMMA InvNext == Inv /\ [Next]_vars => Inv'
  <1> SUFFICES ASSUME Inv, [Next]_vars PROVE Inv' OBVIOUS
  <1>1. /\ Typed /\ Stages /\ Files /\ Outcome /\ Handles /\ Lives
        /\ Queued /\ Busy /\ Durable /\ Content
    BY DEF Inv
  <1>2. Typed' BY <1>1, TypedStep
  <1>3. Stages' /\ Files' /\ Outcome' BY <1>1, <1>2, StagesStep, FilesStep, OutcomeStep
  <1>4. Handles' /\ Lives' BY <1>1, <1>2, HandlesStep, LivesStep
  <1>5. Queued' /\ Busy' BY <1>1, <1>2, QueuedStep, BusyStep
  <1>6. Durable' /\ Content' BY <1>1, <1>2, DurableStep, ContentStep
  <1> QED BY <1>2, <1>3, <1>4, <1>5, <1>6 DEF Inv

\* Every reachable state of readers, registry, checkpoint task and files
\* satisfies the whole invariant.
THEOREM Invariance == Spec => []Inv
  BY InvInit, InvNext, PTL DEF Spec

\* The invariant implies type correctness.
LEMMA InvTyped == Inv => TypeOK
  <1> SUFFICES ASSUME Inv PROVE TypeOK OBVIOUS
  <1>1. Typed /\ Stages BY DEF Inv
  <1>2. {revision, savedRevision, ck.revision} \subseteq 0 .. MaxRevision BY <1>1, TaskFields
  <1>3. \A r \in Readers :
          /\ reader[r].pc \in {"idle", "timed", "stamped", "notify", "queue"}
          /\ reader[r].pc # "idle" => reader[r].page \in resident
    <2>1. \A r \in Readers : reader[r].pc \in ReaderPlaces BY <1>1 DEF Typed, ReaderStates
    <2> QED BY <1>1, <2>1 DEF Stages, Inside, ReaderPlaces
  <1>4. ck.pc \in CkPlaces /\ ck.ages \in Ages /\ ck.marks \in [Pages -> Stamps] BY <1>1, TaskFields
  <1>5. /\ \A s \in 1 .. MaxSlots : shardDirty[s] # Unknown => s = live
        /\ ck.held => ck.slot = live
    BY <1>1 DEF Stages, Slots, TaskStages
  <1> QED BY <1>1, <1>2, <1>3, <1>4, <1>5 DEF TypeOK, Typed

\* Types are kept, a slot is queued only while its block is registered (the
\* rollback of a checkpoint never queues a retired one), and a reader inside
\* PageState::touch has a page of the table.
THEOREM TypeCorrect == Spec => []TypeOK
  BY Invariance, InvTyped, PTL

\* The invariant implies that saved ages survive.
LEMMA InvSaved == Inv => SavedAgesSurvive
  <1> SUFFICES ASSUME Inv PROVE SavedAgesSurvive OBVIOUS
  <1>1. SavedOnDisk /\ resident \subseteq Pages BY DEF Inv, Durable, Typed
  <1> QED BY <1>1 DEF SavedOnDisk, SavedAgesSurvive

\* Wherever checkpoint_shard and its flush are interrupted, load() gives every
\* resident page at least the age of the last checkpoint that succeeded.
THEOREM SavedAges == Spec => []SavedAgesSurvive
  BY Invariance, InvSaved, PTL

\* The invariant implies that no touch is lost: with an idle task and an empty
\* queue, nothing is marked, changed or deleted, so no page has an excuse.
LEMMA InvTouches == Inv => NoTouchLost
  <1> SUFFICES ASSUME Inv, Settled PROVE
        \A b \in bases, l \in logs : \A p \in Pages : Recovered(b, l)[p] = Want(p)
    BY DEF NoTouchLost, Want
  <1>1. /\ ck.pc = "idle" /\ reg.membership = reg.saved
        /\ \A s \in 1 .. MaxSlots : shardDirty[s] = Unknown
        /\ \A r \in Readers : reader[r].pc = "idle"
    BY TaskFields DEF Inv, Settled, Due, NothingQueued
  <1>2. ~Pending
    <2>1. live # 0 => live \in 1 .. MaxSlots BY TaskFields, Bounds DEF Inv
    <2> QED BY <1>1, <2>1 DEF Pending
  <1>3. CASE reg.journal.full
    <2>1. resident = {} /\ bases = {NoFile} BY <1>1, <1>2, <1>3 DEF Inv, Busy, Unfinished, Work
    <2>2. \A l \in logs : Recovered(NoFile, l) = NoAges BY DEF Recovered, NoFile
    <2> QED BY <2>1, <2>2, EmptyWant DEF NoAges
  <1>4. CASE ~reg.journal.full
    <2>1. bases = {base} /\ logs = {log} BY <1>4 DEF Inv, Files, Retry, Single
    <2>2. \A p \in Pages : ~Marked(p)
      <3>1. \A p \in Pages : mark[p] = Unknown BY <1>1, <1>2 DEF Inv, Queued, MarksQueued
      <3> QED BY <1>1, <3>1 DEF Marked
    <2>3. revision = savedRevision
      <3>1. "idle" \notin (Holding \ {"summary"}) \cup {"drop"} BY DEF Holding, Sampled, Writing
      <3> QED BY <1>1, <1>2, <3>1 DEF Inv, Queued, ChangesQueued
    <2>4. ~Later(0)
      <3>1. reg.removed = {} /\ reg.overflow = 0
        BY <1>1, Numbers DEF Inv, Lives, Counters
      <3> QED BY <3>1 DEF Later
    <2>5. \A p \in Pages : Image[p] = Want(p)
      BY <1>1, <1>4, <2>2, <2>3, <2>4 DEF Inv, Content, AtRest, Comparable, Excused
    <2> QED BY <2>1, <2>5 DEF Image
  <1> QED BY <1>3, <1>4

\* When no reader is inside PageState::touch and checkpoint_start finds nothing
\* to do, the files hold exactly the ages of the pages in the table.
THEOREM TouchesKept == Spec => []NoTouchLost
  BY Invariance, InvTouches, PTL
=============================================================================
