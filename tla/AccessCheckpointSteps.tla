----------------------- MODULE AccessCheckpointSteps ------------------------
(***************************************************************************)
(* No touch is lost and no stop takes a saved age back, for every block,   *)
(* every number of readers and every bound on time, slots, revisions,      *)
(* failures and stops.                                                     *)
(*                                                                         *)
(* The inductive invariant Inv has one part per idea, in the order of the  *)
(* sections below: Typed and Stages (where everybody is), Files (the two   *)
(* files and their generations), Outcome (what a flush leaves on disk),    *)
(* Handles (who owns a page's age and mark), Lives (a block retired and    *)
(* created again around a checkpoint), Queued and Busy (why there is still *)
(* work to do), Durable (saved ages) and Content (the ages themselves).    *)
(* Each part is shown to survive every action, given the parts before it:  *)
(* the parts up to Lives here, the others and the theorems themselves in   *)
(* AccessCheckpointProofs.                                                 *)
(***************************************************************************)
EXTENDS AccessCheckpoint, SequenceTheorems, FiniteSetTheorems, NaturalsInduction, WellFoundedInduction, TLAPS

-----------------------------------------------------------------------------
(* The parts of the invariant                                              *)

\* The page that a resting reader or an idle task names.
NoPage == CHOOSE p \in Pages : TRUE

\* What the registry, a reader and the checkpoint task hold.
Journals == [gen : Nat, full : BOOLEAN, size : Nat]
Registries == [next : 0 .. MaxSlots, membership : Nat, saved : Nat, removed : SUBSET Nat,
               overflow : Nat, journal : Journals, dir : BOOLEAN]
ReaderPlaces == {"idle", "timed", "stamped", "notify", "queue"}
ReaderStates == [pc : ReaderPlaces, page : Pages \cup {NoPage}, at : 0 .. MaxTime]
Tasks == [pc : CkPlaces, ceiling : 0 .. MaxSlots, upto : Nat, journal : Journals,
          full : BOOLEAN, gone : BOOLEAN, slot : 0 .. MaxSlots, held : BOOLEAN,
          since : Stamps, replace : BOOLEAN, revision : 0 .. MaxRevision,
          todo : SUBSET Pages, page : Pages \cup {NoPage},
          marks : [Pages -> Stamps], ages : Ages, orphans : SUBSET Pages]

\* Where the task may fail on I/O, where it has sampled, and where it holds
\* what it took from the queue.
Writing == {"encode", "base", "baseSync", "log", "logSync", "append", "appendSync"}
Sampled == Writing \cup {"written", "revise"}
Holding == Sampled \cup {"summary", "consume", "sample"}

Typed ==
    /\ now \in Times
    /\ resident \in SUBSET Pages
    /\ last \in [Pages -> Stamps]
    /\ mark \in [Pages -> Stamps]
    /\ live \in 0 .. MaxSlots
    /\ blockDirty \in Stamps
    /\ shardDirty \in [1 .. MaxSlots -> Stamps]
    /\ revision \in 0 .. MaxRevision
    /\ savedRevision \in 0 .. MaxRevision
    /\ reg \in Registries
    /\ reader \in [Readers -> ReaderStates]
    /\ ck \in Tasks
    /\ base \in bases /\ log \in logs
    /\ bases \in SUBSET File /\ logs \in SUBSET Log
    /\ saved \in Ages

\* Only the live block is queued; it was created before the next slot.
Slots ==
    /\ \A s \in 1 .. MaxSlots : shardDirty[s] # Unknown => s = live
    /\ resident # {} => live # 0
    /\ live <= reg.next
    /\ ck.ceiling <= reg.next

\* A reader inside touch has a page of the table and a time.
Inside ==
    \A r \in Readers : reader[r].pc # "idle" =>
        reader[r].page \in resident /\ reader[r].at \in Times

\* What the task holds at each stage.
TaskStages ==
    /\ ck.held => ck.slot = live /\ live # 0
    /\ ck.pc \in {"idle", "journal", "pick"} => ck.slot = 0 /\ ~ck.held
    /\ ck.pc = "summary" => ck.ages = NoAges /\ ck.marks = Clean /\ ck.since = Unknown
    /\ ck.pc \in {"summary", "consume", "sample"} => ck.held
    /\ ck.pc \in Holding => (ck.held <=> ck.slot # 0)
    /\ ck.slot = 0 => ck.ages = NoAges /\ ck.since = Unknown /\ ck.marks = Clean
    /\ ck.pc \in {"consume", "sample"} => ck.todo \subseteq resident
    /\ ck.pc = "sample" => ck.page \in resident /\ ck.page \notin ck.todo
    /\ ck.slot <= ck.ceiling

Stages == Slots /\ Inside /\ TaskStages

\* The age that page p should have on disk.
Want(p) == IF p \in resident /\ last[p] # Unknown THEN last[p] ELSE 0

\* What load() would make of the files as the process sees them.
Image == Recovered(base, log)

\* The files are synced and are exactly what journal j says.
Single(j) ==
    /\ bases = {base} /\ logs = {log}
    /\ base.gen = j.gen /\ log.gen = j.gen /\ j.gen # 0
    /\ Len(log.frames) = j.size

Unwritten == {"pick", "summary", "consume", "sample", "encode", "append"}

\* The base is at most one generation ahead of the registry and the log is
\* never ahead of the base: a log is replayed only onto the base it follows.
Generations ==
    /\ \A b \in bases : b.gen = 0 => b.ages = NoAges
    /\ \A b \in bases, l \in logs : l.gen <= b.gen
    /\ \A b \in bases : reg.journal.gen <= b.gen /\ b.gen <= reg.journal.gen + 1
    /\ \A l \in logs : l.gen = reg.journal.gen + 1 => l.frames = <<>>

\* Unless a full checkpoint is due, the files are as the registry's journal
\* says; it is due from the moment a checkpoint begins until its commit.
Retry ==
    /\ ~reg.journal.full => Single(reg.journal)
    /\ ck.pc \in Writing \cup {"pick", "summary", "consume", "sample"} =>
         ck.journal.gen = reg.journal.gen
    /\ ck.pc \in Writing \cup {"pick", "summary", "consume", "sample", "written", "drop"} =>
         reg.journal.full
    /\ ck.pc \in {"revise", "finish"} => ~reg.journal.full
    /\ ck.pc = "written" /\ ~ck.full => ck.journal.gen = reg.journal.gen
    /\ ~reg.dir => resident = {} /\ bases = {NoFile}

\* What each step of the flush has written and synced.
Writes ==
    /\ ck.pc \in Unwritten /\ ~ck.full => Single(ck.journal) /\ ~ck.journal.full
    /\ ck.pc \in {"base", "baseSync", "log", "logSync"} => ck.full /\ reg.dir
    /\ ck.pc \in {"append", "appendSync"} => ~ck.full
    /\ ck.pc \in {"baseSync", "log", "logSync"} =>
         base.gen = ck.journal.gen + 1 /\ base.ages = ck.ages
    /\ ck.pc \in {"log", "logSync", "appendSync"} => bases = {base}
    /\ ck.pc = "logSync" => log.gen = ck.journal.gen + 1 /\ log.frames = <<>>
    /\ ck.pc = "appendSync" =>
         /\ base.gen = ck.journal.gen /\ log.gen = ck.journal.gen /\ ck.journal.gen # 0
         /\ Len(log.frames) = ck.journal.size + Len(DeltaFrames)
         /\ ~ck.journal.full
    /\ ck.pc = "written" => Single(ck.journal) /\ ~ck.journal.full

Files == Generations /\ Retry /\ Writes

\* What a delta finds of p once its tombstone is applied, and what the
\* checkpoint leaves of p.
Under(p) == IF ck.gone THEN 0 ELSE Image[p]
Target(p) ==
    IF ck.full \/ (ck.slot # 0 /\ (ck.replace \/ ck.ages[p] # 0)) THEN ck.ages[p]
    ELSE Under(p)

\* A flush that was written left its target; a full one replaces the map.
Outcome ==
    /\ ck.pc \in {"appendSync", "written", "revise"} => \A p \in Pages : Image[p] = Target(p)
    /\ ck.pc \in Holding \ {"summary"} /\ ck.full /\ ck.slot # 0 => ck.replace

\* A deletion of the block is on record that a checkpoint up to u leaves out.
Later(u) == (\E m \in reg.removed : m > u) \/ reg.overflow > u

\* A life of the block that no checkpoint has saved.
NewLife ==
    /\ savedRevision = 0
    /\ revision = 0 => resident = {}
    /\ \A p \in Pages : saved[p] = 0

\* Ages, marks and what the task took belong to handles of pages in the
\* table; a handle the task holds after its page left is an orphan.
Absent == \A p \in Pages : p \notin resident => saved[p] = 0 /\ last[p] = Unknown
MarkOwned == \A p \in Pages : mark[p] # Unknown => p \in resident /\ last[p] # Unknown
StampOwned == \A r \in Readers : reader[r].pc = "stamped" => last[reader[r].page] # Unknown
TaskOwned ==
    \A p \in Pages : p \notin ck.orphans /\ (ck.marks[p] # Unknown \/ ck.ages[p] # 0) =>
        ck.pc = "finish" \/ (p \in resident /\ ck.slot = live /\ last[p] # Unknown)
NoOrphans == ck.pc \in {"consume", "sample"} => ck.orphans = {}
Handles == Absent /\ MarkOwned /\ StampOwned /\ TaskOwned /\ NoOrphans

\* Recorded deletions are numbered after the last finished checkpoint.
Counters ==
    /\ reg.saved <= reg.membership
    /\ \A m \in reg.removed : reg.saved < m /\ m <= reg.membership
    /\ reg.overflow # 0 => reg.saved < reg.overflow
    /\ reg.overflow <= reg.membership
    /\ ck.pc # "idle" => reg.saved <= ck.upto /\ ck.upto <= reg.membership

Revisions ==
    /\ live = 0 => revision = 0 /\ savedRevision = 0
    /\ savedRevision <= revision
    /\ ck.pc \in Holding \ {"summary"} /\ ck.slot # 0 => ck.revision <= revision

\* A block below the ceiling was not deleted since the checkpoint began, one
\* above it is a new life, and so is any block after a deletion on record.
OldLife == ck.pc # "idle" /\ live # 0 /\ live <= ck.ceiling => ~Later(ck.upto)
YoungLife == ck.pc # "idle" /\ live > ck.ceiling => NewLife
LaterLife == Later(IF ck.pc = "finish" THEN ck.upto ELSE 0) => NewLife

\* The task writes a tombstone exactly when a deletion on record is due, a
\* delta meets no overflow, and a full checkpoint skips a young block only.
TombDue == ck.pc \in {"pick"} \cup Holding /\ ck.gone => \E m \in reg.removed : m <= ck.upto
NoTombDue ==
    ck.pc \in {"pick"} \cup Holding /\ ~ck.full /\ ~ck.gone => \A m \in reg.removed : m > ck.upto
NoOverflow ==
    ck.pc \in {"pick"} \cup Holding /\ ~ck.full => reg.overflow = 0 \/ reg.overflow > ck.upto
Skipped == ck.pc \in Sampled /\ ck.full /\ ck.slot = 0 => live = 0 \/ live > ck.ceiling

Lives == /\ Counters /\ Revisions
         /\ OldLife /\ YoungLife /\ LaterLife
         /\ TombDue /\ NoTombDue /\ NoOverflow /\ Skipped

\* The live block is queued or a reader is about to queue it; or the task
\* holds the time since when it was dirty and puts it back on failure.
Pending == (live # 0 /\ shardDirty[live] # Unknown)
           \/ \E r \in Readers : reader[r].pc \in {"notify", "queue"}
Held == ck.slot # 0 /\ ck.slot = live /\ ck.since # Unknown
Queuing == \E r \in Readers : reader[r].pc = "queue"

\* A dirty block, a marked page and an unsaved change are each on the queue,
\* on their way to it, or in the hands of the task.
BlockQueued == blockDirty # Unknown => live # 0 /\ (shardDirty[live] # Unknown \/ Queuing)
MarksQueued ==
    \A p \in Pages : mark[p] # Unknown =>
        Pending \/ (ck.pc \in {"consume", "sample"} /\ p \in ck.todo /\ Held)
ChangesQueued ==
    revision # savedRevision =>
        Pending \/ (ck.pc \in (Holding \ {"summary"}) \cup {"drop"} /\ Held)
NewerQueued ==
    ck.pc \in Holding \ {"summary"} /\ ck.slot # 0 /\ revision # ck.revision => Pending
Unchanged == ~reg.dir => revision = 0
Queued == BlockQueued /\ MarksQueued /\ ChangesQueued /\ NewerQueued /\ Unchanged

\* While the files may be behind, checkpoint_start finds work or the task
\* holds it: a checkpoint that failed is tried again.
Work == reg.membership # reg.saved \/ Pending
Started == ck.pc \in {"journal", "pick", "summary"} => Work
Underway == ck.pc \in {"consume", "sample", "drop"} \cup Writing => Work \/ Held
Unfinished == ck.pc = "idle" /\ reg.journal.full => Work \/ (resident = {} /\ bases = {NoFile})
Busy == Started /\ Underway /\ Unfinished

\* No saved or sampled age is ahead of the page's own, and what is on disk,
\* what a stop may leave and what the flush is about to leave are not behind
\* the saved ages.
SavedKnown == \A p \in Pages : saved[p] # 0 => last[p] # Unknown /\ saved[p] <= last[p]
AgesKnown ==
    \A p \in Pages : ck.pc # "finish" /\ ck.ages[p] # 0 /\ p \notin ck.orphans =>
        last[p] # Unknown /\ ck.ages[p] <= last[p]
OrphansUnsaved == ck.pc # "finish" => \A p \in ck.orphans : saved[p] = 0
SavedTarget == ck.pc \in Sampled => \A p \in Pages : saved[p] <= Target(p)
SavedUnder ==
    ck.pc \in {"consume", "sample"} /\ ~ck.replace => \A p \in Pages : saved[p] <= Under(p)
SavedSoFar ==
    ck.pc \in {"consume", "sample"} =>
        \A p \in Pages : p \notin ck.todo /\ ~(ck.pc = "sample" /\ p = ck.page) => saved[p] <= Target(p)
SavedOnDisk == \A b \in bases, l \in logs : \A p \in Pages : saved[p] <= Recovered(b, l)[p]
Durable == /\ SavedKnown /\ AgesKnown /\ OrphansUnsaved
           /\ SavedTarget /\ SavedUnder /\ SavedSoFar /\ SavedOnDisk

\* Page p is marked or its reader is about to mark it; its age on disk may be
\* wrong then, or after a page table change r misses or a deletion after u.
Marked(p) == mark[p] # Unknown \/ \E r \in Readers : reader[r].pc = "stamped" /\ reader[r].page = p
Excused(p, r, u) == Marked(p) \/ revision # r \/ Later(u)

\* The files are those of a checkpoint that succeeded.
Comparable ==
    \/ ~reg.journal.full /\ ck.pc \in {"idle", "journal", "finish"}
    \/ ~ck.full /\ ck.pc \in {"pick", "summary"}

\* Every page has the right age or an excuse: on disk, in what a flush is
\* about to leave, and page by page while the task samples.
AtRest ==
    Comparable => \A p \in Pages :
        Image[p] = Want(p) \/ Excused(p, savedRevision, IF ck.pc = "finish" THEN ck.upto ELSE 0)
AfterSampling ==
    ck.pc \in Sampled => \A p \in Pages :
        Target(p) = Want(p) \/ Excused(p, IF ck.slot # 0 THEN ck.revision ELSE savedRevision, ck.upto)
SameRevision == ck.pc \in {"consume", "sample"} => revision = ck.revision
ToSample ==
    ck.pc \in {"consume", "sample"} /\ ~ck.replace =>
        \A p \in ck.todo : Under(p) = Want(p) \/ Marked(p)
Sampling ==
    ck.pc = "sample" /\ ~ck.replace =>
        \A p \in Pages : p = ck.page => Under(p) = Want(p) \/ Marked(p) \/ ck.marks[p] # Unknown
DoneSampling ==
    ck.pc \in {"consume", "sample"} => \A p \in Pages :
        p \notin ck.todo /\ ~(ck.pc = "sample" /\ p = ck.page) => Target(p) = Want(p) \/ Marked(p)
Content == AtRest /\ AfterSampling /\ SameRevision /\ ToSample /\ Sampling /\ DoneSampling

Inv == /\ Typed /\ Stages /\ Files /\ Outcome /\ Handles /\ Lives
       /\ Queued /\ Busy /\ Durable /\ Content

-----------------------------------------------------------------------------
(* Constants and empty values                                              *)

\* The bounds are positive numbers; Unknown is above every time, and 0 is none.
LEMMA Bounds ==
    /\ MaxTime \in Nat /\ MaxTime # 0
    /\ MaxSlots \in Nat /\ MaxSlots # 0
    /\ MaxRevision \in Nat
    /\ Unknown \in Nat
    /\ Times = 1 .. MaxTime
    /\ \A t \in Times : t \in Nat /\ 0 < t /\ t < Unknown /\ t # 0
    /\ Stamps \subseteq Nat
    /\ \A t \in Stamps : t <= Unknown /\ (t # Unknown <=> t \in Times) /\ t # 0
    /\ \A t \in 0 .. MaxTime : t # 0 => t \in Times
  <1>1. MaxTime \in Nat /\ MaxTime # 0 /\ MaxSlots \in Nat /\ MaxSlots # 0 /\ MaxRevision \in Nat
    BY BoundsAssumption
  <1> QED BY <1>1 DEF Unknown, Times, Stamps

\* fetch_min of two stamps is a stamp, and Unknown only when both are.
LEMMA EarlierFact ==
  ASSUME NEW a \in Stamps, NEW b \in Stamps
  PROVE  /\ Earlier(a, b) \in Stamps
         /\ Earlier(a, b) = Unknown <=> a = Unknown /\ b = Unknown
  BY Bounds DEF Earlier

\* The empty maps are maps.
LEMMA NoAgesType == NoAges \in Ages /\ Clean \in [Pages -> Stamps]
  BY Bounds DEF NoAges, Ages, Clean, Stamps

\* The initial task, reader and journal are well formed.
LEMMA IdleType ==
  /\ Idle \in Tasks
  /\ Resting \in ReaderStates
  /\ NewJournal \in Journals
  <1>1. NewJournal \in Journals BY DEF NewJournal, Journals
  <1>2. Unknown \in Stamps BY DEF Stamps
  <1>3. Resting \in ReaderStates BY Bounds DEF Resting, ReaderStates, ReaderPlaces, NoPage
  <1>4. Idle \in Tasks
    BY <1>1, <1>2, Bounds, NoAgesType DEF Idle, Tasks, NoPage, CkPlaces
  <1> QED BY <1>1, <1>3, <1>4

\* What an idle task holds: nothing.
LEMMA IdleFields ==
  /\ Idle.pc = "idle" /\ Idle.slot = 0 /\ Idle.held = FALSE /\ Idle.since = Unknown
  /\ Idle.marks = Clean /\ Idle.ages = NoAges /\ Idle.orphans = {} /\ Idle.ceiling = 0
  /\ Idle.upto = 0 /\ Idle.full = FALSE /\ Idle.gone = FALSE /\ Idle.todo = {}
  /\ Idle.replace = FALSE /\ Idle.revision = 0
  BY DEF Idle

\* A resting reader is outside touch.
LEMMA RestingFields == Resting.pc = "idle" /\ Resting.at = 0
  BY DEF Resting

\* The files that are not there are files.
LEMMA NoFileType == NoFile \in File /\ NoLog \in Log
  BY NoAgesType DEF NoFile, NoLog, File, Log

-----------------------------------------------------------------------------
(* What load() makes of the two files                                      *)

\* One record of the log.
Frame == [replace : BOOLEAN, ages : Ages]

\* What load() does with one frame: a replacing frame forgets the map it
\* finds, another one updates the pages it names.
Replay(ages, f) ==
    IF f.replace THEN f.ages
    ELSE [p \in Pages |-> IF f.ages[p] = 0 THEN ages[p] ELSE f.ages[p]]

\* A set of naturals that has an element has a least one.
LEMMA LeastOf ==
  ASSUME NEW S, S \subseteq Nat, S # {}
  PROVE  \E u \in S : \A v \in S : u <= v
<1> DEFINE R == {p \in Nat \X Nat : p[1] < p[2]}
<1>1. R = OpToRel(<, Nat)
  BY Zenon DEF OpToRel
<1>2. IsWellFoundedOn(R, Nat)
  BY <1>1, NatLessThanWellFounded, Zenon
<1>3. PICK u \in S : \A v \in S : ~(<<v, u>> \in R)
  <2> HIDE DEF R
  <2> QED BY <1>2, WFMin, Zenon
<1>4. \A v \in S : v < u => <<v, u>> \in R
  OBVIOUS
<1>5. \A v \in S : ~(v < u)
  <2> HIDE DEF R
  <2> QED BY <1>3, <1>4, Zenon
<1>6. \A v \in S : u <= v
  BY <1>5
<1> QED BY <1>6

\* A bounded one has a greatest.
LEMMA GreatestOf ==
  ASSUME NEW S, NEW n \in Nat, S \subseteq 0..n, S # {}
  PROVE  \E u \in S : \A v \in S : v <= u
<1> DEFINE M == {k \in 0..n : n - k \in S}
<1>1. M \subseteq Nat
  OBVIOUS
<1>2. M # {}
  <2>1. PICK v \in S : TRUE
    OBVIOUS
  <2>2. n - v \in 0..n /\ n - (n - v) = v
    BY <2>1
  <2> QED BY <2>1, <2>2
<1>3. PICK k \in M : \A j \in M : k <= j
  <2> HIDE DEF M
  <2> QED BY <1>1, <1>2, LeastOf
<1>4. n - k \in S /\ k \in 0..n
  BY <1>3
<1>5. ASSUME NEW v \in S PROVE v <= n - k
  <2>1. v \in 0..n /\ n - v \in 0..n /\ n - (n - v) = v
    OBVIOUS
  <2>2. n - v \in M
    BY <2>1
  <2>3. k <= n - v
    BY <1>3, <2>2
  <2> QED BY <2>1, <2>3, <1>4
<1> QED BY <1>4, <1>5

\* The fields of a log.
LEMMA LogType ==
  ASSUME NEW l \in Log
  PROVE  /\ l.gen \in Nat /\ l.frames \in Seq(Frame)
         /\ Len(l.frames) \in Nat
  BY DEF Log, Frame

\* Max picks the greatest index.
LEMMA MaxOf ==
  ASSUME NEW n \in Nat, NEW S, S \subseteq 1 .. n, S # {}
  PROVE  Max(S) \in S /\ \A y \in S : Max(S) >= y
  <1>1. \E x \in S : \A y \in S : x >= y
    <2>1. S \subseteq 0 .. n OBVIOUS
    <2>2. \E x \in S : \A y \in S : y <= x BY <2>1, GreatestOf
    <2> QED BY <2>2
  <1> QED BY <1>1 DEF Max

\* Replaying frames onto a map of ages gives one.
LEMMA ReplayedType ==
  ASSUME NEW a \in Ages, NEW s \in Seq(Frame)
  PROVE  Replayed(a, s) \in Ages
  <1>1. ASSUME NEW p \in Pages
        PROVE  (IF Deciding(s, p) = {} THEN a[p]
                ELSE s[Max(Deciding(s, p))].ages[p]) \in 0 .. MaxTime
    <2>1. CASE Deciding(s, p) = {} BY <2>1 DEF Ages
    <2>2. CASE Deciding(s, p) # {}
      <3>1. Deciding(s, p) \subseteq 1 .. Len(s) BY DEF Deciding
      <3>2. Max(Deciding(s, p)) \in 1 .. Len(s) BY <2>2, <3>1, MaxOf
      <3>3. s[Max(Deciding(s, p))] \in Frame BY <3>2
      <3>4. s[Max(Deciding(s, p))].ages \in Ages BY <3>3 DEF Frame
      <3> QED BY <3>4, <2>2 DEF Ages
    <2> QED BY <2>1, <2>2
  <1> QED BY <1>1 DEF Replayed, Ages

\* So does load().
LEMMA RecoveredType ==
  ASSUME NEW b \in File, NEW l \in Log
  PROVE  Recovered(b, l) \in Ages
  BY ReplayedType, LogType DEF Recovered, File

\* No frames leave the map as it is.
LEMMA ReplayedNothing ==
  ASSUME NEW a \in Ages
  PROVE  Replayed(a, <<>>) = a
  BY DEF Replayed, Deciding, Ages

\* A log of another generation, or an empty one, leaves the base.
LEMMA RecoveredPlain ==
  ASSUME NEW b \in File, NEW l \in Log,
         b.gen = 0 \/ l.gen # b.gen \/ l.frames = <<>>
  PROVE  Recovered(b, l) = b.ages
  BY ReplayedNothing DEF Recovered, File

\* Replayed is the journal replay: one more frame is one more Replay on top
\* of what the frames before it gave.
LEMMA ReplayedOneMore ==
  ASSUME NEW a \in Ages, NEW s \in Seq(Frame), NEW f \in Frame
  PROVE  Replayed(a, s \o <<f>>) = Replay(Replayed(a, s), f)
  <1> DEFINE t == s \o <<f>>
             n == Len(s)
  <1>1. /\ t \in Seq(Frame) /\ Len(t) = n + 1 /\ DOMAIN t = 1 .. n + 1
        /\ DOMAIN s = 1 .. n /\ n \in Nat
        /\ t[n + 1] = f /\ \A i \in 1 .. n : t[i] = s[i]
    <2>1. <<f>> \in Seq(Frame) /\ Len(<<f>>) = 1 /\ <<f>>[1] = f OBVIOUS
    <2> QED BY <2>1, ConcatProperties
  <1>2. f.ages \in Ages /\ f.replace \in BOOLEAN BY DEF Frame
  <1> HIDE DEF t, n
  <1>3. ASSUME NEW p \in Pages
        PROVE  Replayed(a, t)[p] = Replay(Replayed(a, s), f)[p]
    <2> DEFINE S == Deciding(s, p)
               U == Deciding(t, p)
    <2>1. S \subseteq 1 .. n BY <1>1 DEF Deciding
    <2>2. Replayed(a, t)[p] = IF U = {} THEN a[p] ELSE t[Max(U)].ages[p]
      BY DEF Replayed
    <2>3. Replayed(a, s)[p] = IF S = {} THEN a[p] ELSE s[Max(S)].ages[p]
      BY DEF Replayed
    <2>4. CASE f.replace \/ f.ages[p] # 0
      <3>1. U = S \cup {n + 1}
        <4>1. ASSUME NEW i \in U PROVE i \in S \cup {n + 1}
          <5>1. i \in 1 .. n + 1 /\ (t[i].replace \/ t[i].ages[p] # 0)
            BY <1>1 DEF Deciding
          <5>2. CASE i = n + 1 BY <5>2
          <5>3. CASE i \in 1 .. n BY <5>1, <5>3, <1>1 DEF Deciding
          <5> QED BY <5>1, <5>2, <5>3, <1>1
        <4>2. ASSUME NEW i \in S PROVE i \in U
          <5>1. i \in 1 .. n /\ (s[i].replace \/ s[i].ages[p] # 0)
            BY <1>1 DEF Deciding
          <5>2. i \in 1 .. n + 1 /\ t[i] = s[i] BY <5>1, <1>1
          <5> QED BY <5>1, <5>2, <1>1 DEF Deciding
        <4>3. n + 1 \in U
          <5>1. n + 1 \in 1 .. n + 1 BY <1>1
          <5> QED BY <5>1, <1>1, <2>4 DEF Deciding
        <4> QED BY <4>1, <4>2, <4>3
      <3>2. U # {} /\ U \subseteq 1 .. n + 1 BY <3>1, <2>1, <1>1
      <3> HIDE DEF U
      <3>3. Max(U) \in U /\ \A y \in U : Max(U) >= y
        <4>1. n + 1 \in Nat BY <1>1
        <4> QED BY <3>2, <4>1, MaxOf
      <3>4. Max(U) = n + 1
        <4>1. n + 1 \in U BY <3>1
        <4>2. Max(U) >= n + 1 BY <4>1, <3>3
        <4>3. Max(U) \in 1 .. n + 1 BY <3>3, <3>2
        <4> QED BY <4>2, <4>3, <1>1
      <3>5. Replayed(a, t)[p] = f.ages[p] BY <2>2, <3>2, <3>4, <1>1
      <3> QED BY <3>5, <2>4 DEF Replay
    <2>5. CASE ~f.replace /\ f.ages[p] = 0
      <3>1. U = S
        <4>1. ASSUME NEW i \in U PROVE i \in S
          <5>1. i \in 1 .. n + 1 /\ (t[i].replace \/ t[i].ages[p] # 0)
            BY <1>1 DEF Deciding
          <5>2. i # n + 1 BY <5>1, <2>5, <1>1
          <5>3. i \in 1 .. n BY <5>1, <5>2, <1>1
          <5> QED BY <5>1, <5>3, <1>1 DEF Deciding
        <4>2. ASSUME NEW i \in S PROVE i \in U
          <5>1. i \in 1 .. n /\ (s[i].replace \/ s[i].ages[p] # 0)
            BY <1>1 DEF Deciding
          <5>2. i \in 1 .. n + 1 /\ t[i] = s[i] BY <5>1, <1>1
          <5> QED BY <5>1, <5>2, <1>1 DEF Deciding
        <4> QED BY <4>1, <4>2
      <3> HIDE DEF S, U
      <3>2. CASE S = {} BY <3>1, <3>2, <2>2, <2>3, <2>5 DEF Replay
      <3>3. CASE S # {}
        <4>1. Max(S) \in 1 .. n BY <3>3, <2>1, MaxOf, <1>1
        <4>2. t[Max(S)] = s[Max(S)] BY <4>1, <1>1
        <4> QED BY <3>1, <3>3, <2>2, <2>3, <2>5, <4>2 DEF Replay
      <3> QED BY <3>2, <3>3
    <2> QED BY <2>4, <2>5, <1>2
  <1>4. Replayed(a, t) \in Ages /\ Replayed(a, s) \in Ages BY <1>1, ReplayedType
  <1>5. Replay(Replayed(a, s), f) \in Ages
    BY <1>2, <1>4 DEF Replay, Ages
  <1>6. Replayed(a, t) = Replay(Replayed(a, s), f)
    BY <1>3, <1>4, <1>5 DEF Ages
  <1> QED BY <1>6 DEF t

-----------------------------------------------------------------------------
(* Types: readers and registry                                             *)

\* The frames a delta writes, case by case: tombstone first, then the block.
LEMMA DeltaCases ==
  ASSUME Typed
  PROVE  LET t == [replace |-> TRUE, ages |-> NoAges]
             f == [replace |-> ck.replace, ages |-> ck.ages]
         IN  /\ t \in Frame /\ f \in Frame
             /\ ck.gone /\ ck.slot # 0 => DeltaFrames = <<t, f>>
             /\ ck.gone /\ ck.slot = 0 => DeltaFrames = <<t>>
             /\ ~ck.gone /\ ck.slot # 0 => DeltaFrames = <<f>>
             /\ ~ck.gone /\ ck.slot = 0 => DeltaFrames = <<>>
  <1> DEFINE t == [replace |-> TRUE, ages |-> NoAges]
             f == [replace |-> ck.replace, ages |-> ck.ages]
  <1>1. t \in Frame BY NoAgesType DEF Frame
  <1>2. f \in Frame BY DEF Typed, Tasks, Frame
  <1> HIDE DEF t, f
  <1>3. DeltaFrames = (IF ck.gone THEN <<t>> ELSE <<>>) \o (IF ck.slot # 0 THEN <<f>> ELSE <<>>)
    BY DEF DeltaFrames, t, f
  <1>5. <<t>> \in Seq(Frame) /\ <<f>> \in Seq(Frame) /\ <<>> \in Seq(Frame) BY <1>1, <1>2
  <1>4. <<t>> \o <<f>> = <<t, f>>
    <2> DEFINE u == <<t>> \o <<f>>
    <2>1. u \in Seq(Frame) /\ Len(u) = 2 /\ u[1] = t /\ u[2] = f
      <3>1. Len(<<t>>) = 1 /\ Len(<<f>>) = 1 /\ <<t>>[1] = t /\ <<f>>[1] = f OBVIOUS
      <3> QED BY <1>5, <3>1, ConcatProperties
    <2>2. <<t, f>> \in Seq(Frame) /\ Len(<<t, f>>) = 2 /\ <<t, f>>[1] = t /\ <<t, f>>[2] = f
      BY <1>1, <1>2
    <2> HIDE DEF u
    <2>3. \A i \in 1 .. Len(u) : u[i] = <<t, f>>[i] BY <2>1, <2>2
    <2>4. u = <<t, f>> BY <2>1, <2>2, <2>3, SeqEqual
    <2> QED BY <2>4 DEF u
  <1>6. <<>> \o <<f>> = <<f>> /\ <<t>> \o <<>> = <<t>> /\ <<>> \o <<>> = <<>>
    BY <1>5, ConcatEmptySeq, Zenon
  <1>7. t \in Frame /\ f \in Frame
             /\ (ck.gone /\ ck.slot # 0 => DeltaFrames = <<t, f>>)
             /\ (ck.gone /\ ck.slot = 0 => DeltaFrames = <<t>>)
             /\ (~ck.gone /\ ck.slot # 0 => DeltaFrames = <<f>>)
             /\ (~ck.gone /\ ck.slot = 0 => DeltaFrames = <<>>)
    BY <1>1, <1>2, <1>3, <1>4, <1>6, Zenon
  <1> QED BY <1>7 DEF t, f

\* They are frames.
LEMMA DeltaType ==
  ASSUME Typed
  PROVE  DeltaFrames \in Seq(Frame) /\ Len(DeltaFrames) \in Nat
  <1> DEFINE t == [replace |-> TRUE, ages |-> NoAges]
             f == [replace |-> ck.replace, ages |-> ck.ages]
  <1>2. t \in Frame /\ f \in Frame
        /\ DeltaFrames \in {<<t, f>>, <<t>>, <<f>>, <<>>}
    BY DeltaCases, Zenon
  <1> HIDE DEF t, f
  <1>3. <<t, f>> \in Seq(Frame) /\ <<t>> \in Seq(Frame) /\ <<f>> \in Seq(Frame) /\ <<>> \in Seq(Frame)
    BY <1>2
  <1>1. DeltaFrames \in Seq(Frame) BY <1>2, <1>3, Zenon
  <1> QED BY <1>1

\* BlockWork::dirty keeps the stamps stamps.
LEMMA DirtyType ==
  ASSUME Typed, NEW s \in 0 .. MaxSlots, NEW t \in Stamps, Dirty(s, t),
         s = live /\ t # Unknown => live # 0
  PROVE  blockDirty' \in Stamps /\ shardDirty' \in [1 .. MaxSlots -> Stamps]
  <1>1. CASE s = live /\ t < blockDirty
    <2>0. t # Unknown BY <1>1, Bounds DEF Typed
    <2>1. s \in 1 .. MaxSlots BY <1>1, <2>0, Bounds DEF Typed
    <2>2. Earlier(shardDirty[s], t) \in Stamps BY <2>1, EarlierFact DEF Typed
    <2> QED BY <1>1, <2>1, <2>2 DEF Dirty, Typed
  <1>2. CASE ~(s = live /\ t < blockDirty) BY <1>2 DEF Dirty, Typed
  <1> QED BY <1>1, <1>2

\* The clock shows a time.
LEMMA NowStamp == ASSUME Typed PROVE now \in Stamps /\ now \in 0 .. MaxTime
  BY Bounds DEF Typed, Stamps

\* The initial state is well typed.
LEMMA TypedInit == Init => Typed
  <1> SUFFICES ASSUME Init PROVE Typed OBVIOUS
  <1>1. Unknown \in Stamps /\ 1 \in Times BY Bounds DEF Stamps
  <1>2. reg \in Registries
    BY IdleType, Bounds DEF Init, Registries
  <1>3. shardDirty \in [1 .. MaxSlots -> Stamps] BY <1>1 DEF Init
  <1> QED BY <1>1, <1>2, <1>3, IdleType, NoFileType, NoAgesType, Bounds DEF Init, Typed

\* A reader's steps keep the types.
LEMMA ReaderSteps ==
  ASSUME Typed, Stages, NEW r \in Readers, ReadDone(r) \/ Touch(r)
  PROVE  Typed'
  <1>1. reader[r] \in ReaderStates BY DEF Typed
  <1>2. reader[r].pc # "idle" => reader[r].at \in Times /\ reader[r].page \in Pages /\ live \in 1 .. MaxSlots
    BY Bounds DEF Stages, Slots, Inside, TaskStages, Typed
  <1>3. Times \subseteq Stamps /\ Unknown \in Stamps BY DEF Stamps
  <1>a. CASE ReadDone(r)
    <2>1. PICK p \in resident : reader' = [reader EXCEPT ![r] = [pc |-> "timed", page |-> p, at |-> now]]
      BY <1>a DEF ReadDone
    <2>2. [pc |-> "timed", page |-> p, at |-> now] \in ReaderStates
      BY NowStamp DEF Typed, ReaderStates, ReaderPlaces
    <2>3. reader' \in [Readers -> ReaderStates] BY <2>1, <2>2 DEF Typed
    <2> QED BY <1>a, <2>3 DEF ReadDone, Typed, disk, ghost
  <1>b. CASE Stamp(r)
    <2>1. reader' \in [Readers -> ReaderStates]
      <3>1. [reader[r] EXCEPT !.pc = "stamped"] \in ReaderStates
        BY <1>1 DEF ReaderStates, ReaderPlaces
      <3> QED BY <1>b, <3>1, IdleType DEF Stamp, Typed
    <2>2. last' \in [Pages -> Stamps]
      BY <1>b, <1>2, <1>3 DEF Stamp, Typed
    <2> QED BY <1>b, <2>1, <2>2 DEF Stamp, Typed, disk, ghost
  <1>c. CASE Mark(r)
    <2>1. reader' \in [Readers -> ReaderStates]
      BY <1>c, <1>1, IdleType DEF Mark, Typed, ReaderStates, ReaderPlaces
    <2>2. mark' \in [Pages -> Stamps]
      <3>1. reader[r].page \in Pages /\ reader[r].at \in Stamps BY <1>c, <1>2, <1>3 DEF Mark
      <3>2. Earlier(mark[reader[r].page], reader[r].at) \in Stamps BY <3>1, EarlierFact DEF Typed
      <3> QED BY <1>c, <3>1, <3>2 DEF Mark, Typed
    <2> QED BY <1>c, <2>1, <2>2 DEF Mark, Typed, disk, ghost
  <1>d. CASE Notify(r)
    <2>1. reader' \in [Readers -> ReaderStates]
      BY <1>d, <1>1, IdleType DEF Notify, Typed, ReaderStates, ReaderPlaces
    <2>2. blockDirty' \in Stamps
      BY <1>d, <1>2, <1>3, EarlierFact DEF Notify, Typed
    <2> QED BY <1>d, <2>1, <2>2 DEF Notify, Typed, disk, ghost
  <1>e. CASE Queue(r)
    <2>1. reader' \in [Readers -> ReaderStates]
      BY <1>e, <1>1, IdleType DEF Queue, Typed
    <2>2. shardDirty' \in [1 .. MaxSlots -> Stamps]
      <3>1. live \in 1 .. MaxSlots /\ reader[r].at \in Stamps BY <1>e, <1>2, <1>3 DEF Queue
      <3>2. Earlier(shardDirty[live], reader[r].at) \in Stamps BY <3>1, EarlierFact DEF Typed
      <3> QED BY <1>e, <3>1, <3>2 DEF Queue, Typed
    <2> QED BY <1>e, <2>1, <2>2 DEF Queue, Typed, disk, ghost
  <1> QED BY <1>a, <1>b, <1>c, <1>d, <1>e DEF Touch

\* So do the clock and the steps of the registry,
LEMMA RegistrySteps ==
  ASSUME Typed, Stages,
         Tick \/ Create \/ Retire \/ \E p \in Pages : Register(p) \/ Delete(p)
  PROVE  Typed'
  <1>3. Times \subseteq Stamps /\ Unknown \in Stamps BY DEF Stamps
  <1>a. CASE Tick
    BY <1>a, Bounds DEF Tick, Typed, disk, ghost, Times
  <1>b. CASE Create
    <2>1. reg' \in Registries /\ live' \in 0 .. MaxSlots
      <3>1. reg.next \in 0 .. MaxSlots /\ reg.membership \in Nat BY DEF Typed, Registries
      <3>2. reg.next + 1 \in 0 .. MaxSlots /\ reg.membership + 1 \in Nat
        BY <1>b, <3>1, Bounds DEF Create
      <3>3. reg' = [reg EXCEPT !.next = reg.next + 1, !.membership = reg.membership + 1]
            /\ live' = reg.next + 1
        BY <1>b DEF Create
      <3> QED BY <3>2, <3>3 DEF Typed, Registries
    <2> QED BY <1>b, <2>1, <1>3, Bounds DEF Create, Typed, disk, ghost
  <1>c. CASE Retire
    <2>1. reg' \in Registries
      <3> DEFINE m == reg.membership + 1
      <3>1. m \in Nat /\ reg.removed \in SUBSET Nat BY DEF Typed, Registries
      <3>2. reg' \in {[reg EXCEPT !.membership = m],
                      [reg EXCEPT !.membership = m, !.overflow = m],
                      [reg EXCEPT !.membership = m, !.removed = reg.removed \cup {m}]}
        BY <1>c DEF Retire, Tombstone, Typed, Registries
      <3>3. reg.removed \cup {m} \in SUBSET Nat BY <3>1
      <3> HIDE DEF m
      <3> QED BY <3>1, <3>2, <3>3 DEF Typed, Registries
    <2>2. shardDirty' \in [1 .. MaxSlots -> Stamps]
      BY <1>c, <1>3 DEF Retire, Typed
    <2> QED BY <1>c, <2>1, <2>2, <1>3, Bounds DEF Retire, Typed, disk, ghost
  <1>d. ASSUME NEW p \in Pages, Register(p) PROVE Typed'
    <2>1. Dirty(live, now) /\ live # 0 BY <1>d DEF Register
    <2>2. blockDirty' \in Stamps /\ shardDirty' \in [1 .. MaxSlots -> Stamps]
      BY <2>1, DirtyType, NowStamp DEF Typed
    <2>3. reg' \in Registries BY <1>d DEF Register, Typed, Registries
    <2>4. last' \in [Pages -> Stamps] BY <1>d, NowStamp DEF Register, Typed
    <2>5. mark' \in [Pages -> Stamps]
      <3>1. Earlier(mark[p], now) \in Stamps BY NowStamp, EarlierFact DEF Typed
      <3> QED BY <1>d, <3>1, NowStamp DEF Register, Typed
    <2>6. saved' \in Ages BY <1>d, Bounds DEF Register, Typed, Ages
    <2>7. revision' \in 0 .. MaxRevision BY <1>d, Bounds DEF Register, Typed
    <2>8. resident' \in SUBSET Pages BY <1>d DEF Register, Typed
    <2> QED BY <1>d, <2>2, <2>3, <2>4, <2>5, <2>6, <2>7, <2>8 DEF Register, Typed, disk
  <1>e. ASSUME NEW p \in Pages, Delete(p) PROVE Typed'
    <2>0. live # 0 BY <1>e DEF Delete, Stages, Slots, Inside, TaskStages
    <2>1. Dirty(live, now) BY <1>e DEF Delete
    <2>2. blockDirty' \in Stamps /\ shardDirty' \in [1 .. MaxSlots -> Stamps]
      BY <2>0, <2>1, DirtyType, NowStamp DEF Typed
    <2>3. ck' \in Tasks BY <1>e DEF Delete, Typed, Tasks
    <2>4. last' \in [Pages -> Stamps] /\ mark' \in [Pages -> Stamps] BY <1>e, <1>3 DEF Delete, Typed
    <2>6. saved' \in Ages BY <1>e, Bounds DEF Delete, Typed, Ages
    <2>7. revision' \in 0 .. MaxRevision BY <1>e, Bounds DEF Delete, Typed
    <2>8. resident' \in SUBSET Pages BY <1>e DEF Delete, Typed
    <2> QED BY <1>e, <2>2, <2>3, <2>4, <2>6, <2>7, <2>8 DEF Delete, Typed, disk
  <1> QED BY <1>a, <1>b, <1>c, <1>d, <1>e

-----------------------------------------------------------------------------
(* Types: the checkpoint task and restart                                  *)

\* The fields of the task and of the registry, one by one.
LEMMA TaskFields ==
  ASSUME Typed
  PROVE  /\ ck.pc \in CkPlaces /\ ck.ceiling \in 0 .. MaxSlots /\ ck.upto \in Nat
         /\ ck.journal \in Journals /\ ck.full \in BOOLEAN /\ ck.gone \in BOOLEAN
         /\ ck.slot \in 0 .. MaxSlots /\ ck.held \in BOOLEAN /\ ck.since \in Stamps
         /\ ck.replace \in BOOLEAN /\ ck.revision \in 0 .. MaxRevision
         /\ ck.todo \in SUBSET Pages /\ ck.marks \in [Pages -> Stamps]
         /\ ck.ages \in Ages /\ ck.orphans \in SUBSET Pages
         /\ ck.journal.gen \in Nat /\ ck.journal.size \in Nat /\ ck.journal.full \in BOOLEAN
         /\ reg.journal \in Journals /\ reg.journal.gen \in Nat /\ reg.journal.size \in Nat
         /\ reg.journal.full \in BOOLEAN
         /\ reg.next \in 0 .. MaxSlots /\ reg.membership \in Nat /\ reg.saved \in Nat
         /\ reg.removed \in SUBSET Nat /\ reg.overflow \in Nat /\ reg.dir \in BOOLEAN
         /\ live \in 0 .. MaxSlots /\ shardDirty \in [1 .. MaxSlots -> Stamps]
         /\ revision \in 0 .. MaxRevision /\ savedRevision \in 0 .. MaxRevision
         /\ last \in [Pages -> Stamps] /\ mark \in [Pages -> Stamps] /\ saved \in Ages
         /\ resident \in SUBSET Pages
  BY DEF Typed, Tasks, Registries, Journals

\* The numbers among them.
LEMMA Numbers ==
  ASSUME Typed
  PROVE  /\ ck.ceiling \in Nat /\ ck.upto \in Nat /\ ck.slot \in Nat /\ ck.revision \in Nat
         /\ ck.journal.gen \in Nat /\ ck.journal.size \in Nat
         /\ reg.next \in Nat /\ reg.membership \in Nat /\ reg.saved \in Nat
         /\ reg.overflow \in Nat /\ reg.removed \subseteq Nat /\ reg.journal.gen \in Nat
         /\ live \in Nat /\ revision \in Nat /\ savedRevision \in Nat
  <1>1. 0 .. MaxSlots \subseteq Nat /\ 0 .. MaxRevision \subseteq Nat BY Bounds
  <1>2. /\ {ck.ceiling, ck.slot, reg.next, live} \subseteq 0 .. MaxSlots
        /\ {ck.revision, revision, savedRevision} \subseteq 0 .. MaxRevision
    BY TaskFields
  <1>3. /\ ck.upto \in Nat /\ ck.journal.gen \in Nat /\ ck.journal.size \in Nat
        /\ reg.membership \in Nat /\ reg.saved \in Nat /\ reg.overflow \in Nat
        /\ reg.removed \subseteq Nat /\ reg.journal.gen \in Nat
    BY TaskFields
  <1> QED BY <1>1, <1>2, <1>3

\* A task that only moves on is still a task.
LEMMA PlaceSteps ==
  ASSUME Typed, NEW x \in CkPlaces
  PROVE  [ck EXCEPT !.pc = x] \in Tasks
  BY DEF Typed, Tasks

\* checkpoint_finished leaves a registry.
LEMMA FinishedType ==
  ASSUME Typed, NEW u \in Nat
  PROVE  Finished(u) \in Registries
  <1>1. {m \in reg.removed : m > u} \in SUBSET Nat BY DEF Typed, Registries
  <1>2. (IF reg.overflow <= u THEN 0 ELSE reg.overflow) \in Nat BY DEF Typed, Registries
  <1>3. Finished(u) = [reg EXCEPT !.saved = u, !.removed = {m \in reg.removed : m > u},
                       !.overflow = IF reg.overflow <= u THEN 0 ELSE reg.overflow]
    BY DEF Finished
  <1> QED BY <1>1, <1>2, <1>3 DEF Typed, Registries

\* the steps of prepare and of the sampling,
LEMMA SampleSteps ==
  ASSUME Typed, Stages,
         CkStart \/ CkJournal \/ CkPick \/ CkSummary \/ CkConsume \/ CkSample
         \/ CkSampled \/ CkTooLarge
  PROVE  Typed'
  <1>3. Times \subseteq Stamps /\ Unknown \in Stamps BY DEF Stamps
  <1>a. CASE CkStart
    <2>1. ck' \in Tasks BY <1>a, IdleType, TaskFields DEF CkStart, Tasks, CkPlaces
    <2> QED BY <1>a, <2>1 DEF CkStart, Typed, memory, disk, ghost
  <1>b. CASE CkJournal
    <2> DEFINE old == [reg.journal EXCEPT !.full = @ \/ reg.overflow # 0]
               full == old.full \/ old.size >= CompactAt
               gone == \E m \in reg.removed : m <= ck.upto
    <2>1. old \in Journals /\ [old EXCEPT !.full = TRUE] \in Journals
      BY TaskFields DEF Journals
    <2>2. full \in BOOLEAN /\ gone \in BOOLEAN /\ "pick" \in CkPlaces BY <2>1 DEF Journals, CkPlaces
    <2>3. ck' = [ck EXCEPT !.pc = "pick", !.journal = old, !.full = full, !.gone = gone]
          /\ reg' = [reg EXCEPT !.journal = [old EXCEPT !.full = TRUE]]
      BY <1>b DEF CkJournal
    <2> HIDE DEF old, full, gone
    <2>4. ck' \in Tasks BY <2>1, <2>2, <2>3 DEF Typed, Tasks
    <2>5. reg' \in Registries BY <2>1, <2>3 DEF Typed, Registries
    <2> QED BY <1>b, <2>4, <2>5 DEF CkJournal, Typed, disk, ghost
  <1>c. CASE CkPick
    <2>1. ck' \in Tasks BY <1>c DEF CkPick, Tasks, CkPlaces, Typed
    <2> QED BY <1>c, <2>1 DEF CkPick, Typed, memory, disk, ghost
  <1>d. CASE CkSummary
    <2>0. live \in 1 .. MaxSlots BY <1>d, Bounds DEF CkSummary, Stages, Slots, Inside, TaskStages, Typed
    <2>1. ck' \in Tasks
      <3>1. shardDirty[live] \in Stamps /\ (ck.full \/ revision # savedRevision) \in BOOLEAN
            /\ "consume" \in CkPlaces
        BY <2>0 DEF Typed, CkPlaces
      <3> QED BY <1>d, <3>1 DEF CkSummary, Tasks, Typed
    <2>2. shardDirty' \in [1 .. MaxSlots -> Stamps] BY <1>d, <1>3 DEF CkSummary, Typed
    <2> QED BY <1>d, <2>1, <2>2, <1>3 DEF CkSummary, Typed, disk, ghost
  <1>e. CASE CkConsume
    <2>1. PICK p \in ck.todo :
            /\ ck' = [ck EXCEPT !.pc = "sample", !.page = p, !.todo = @ \ {p}, !.marks[p] = mark[p]]
            /\ mark' = [mark EXCEPT ![p] = Unknown]
      BY <1>e DEF CkConsume
    <2>2. p \in Pages /\ mark[p] \in Stamps BY TaskFields DEF Typed
    <2>3. [ck.marks EXCEPT ![p] = mark[p]] \in [Pages -> Stamps] BY <2>2, TaskFields
    <2>4. ck' \in Tasks
      <3>1. ck' = [ck EXCEPT !.pc = "sample", !.page = p, !.todo = ck.todo \ {p},
                      !.marks = [ck.marks EXCEPT ![p] = mark[p]]]
        BY <2>1 DEF Typed, Tasks
      <3> QED BY <3>1, <2>2, <2>3, TaskFields DEF Typed, Tasks, CkPlaces
    <2>5. mark' \in [Pages -> Stamps] BY <2>1, <1>3 DEF Typed
    <2> QED BY <1>e, <2>4, <2>5 DEF CkConsume, Typed, disk, ghost
  <1>f. CASE CkSample
    <2> DEFINE v == IF last[ck.page] # Unknown /\ (ck.replace \/ ck.marks[ck.page] # Unknown)
                    THEN last[ck.page] ELSE 0
    <2>1. ck.page \in Pages BY <1>f DEF CkSample, Stages, Slots, Inside, TaskStages, Typed
    <2>2. v \in 0 .. MaxTime
      <3>1. last[ck.page] \in Stamps BY <2>1 DEF Typed
      <3>2. last[ck.page] # Unknown => last[ck.page] \in 0 .. MaxTime
        <4>1. Times \subseteq 0 .. MaxTime BY Bounds
        <4> QED BY <4>1, <3>1 DEF Stamps
      <3>3. 0 \in 0 .. MaxTime BY Bounds
      <3> QED BY <3>2, <3>3
    <2>3. ck' = [ck EXCEPT !.pc = "consume", !.ages[ck.page] = v] BY <1>f DEF CkSample
    <2> HIDE DEF v
    <2>4. [ck.ages EXCEPT ![ck.page] = v] \in Ages BY <2>1, <2>2, TaskFields DEF Ages
    <2>5. ck' = [ck EXCEPT !.pc = "consume", !.ages = [ck.ages EXCEPT ![ck.page] = v]]
      BY <2>3 DEF Typed, Tasks
    <2>6. ck' \in Tasks BY <2>4, <2>5, TaskFields DEF Typed, Tasks, CkPlaces
    <2> QED BY <1>f, <2>6 DEF CkSample, Typed, memory, disk, ghost
  <1>g. CASE CkSampled
    <2>1. ck' \in Tasks BY <1>g, PlaceSteps DEF CkSampled, CkPlaces
    <2> QED BY <1>g, <2>1 DEF CkSampled, Typed, memory, disk, ghost
  <1>h. CASE CkTooLarge
    <2>0. live # 0 BY <1>h DEF CkTooLarge, Stages, Slots, Inside, TaskStages
    <2>1. Dirty(ck.slot, ck.since) BY <1>h DEF CkTooLarge
    <2>2. blockDirty' \in Stamps /\ shardDirty' \in [1 .. MaxSlots -> Stamps]
      BY <2>0, <2>1, DirtyType, TaskFields
    <2> QED BY <1>h, <2>2, IdleType DEF CkTooLarge, Typed, disk
  <1> QED BY <1>a, <1>b, <1>c, <1>d, <1>e, <1>f, <1>g, <1>h

\* What is left of frames cut at k.
LEMMA Prefixes ==
  ASSUME NEW s \in Seq(Frame), NEW k \in 0 .. Len(s)
  PROVE  /\ SubSeq(s, 1, k) \in Seq(Frame)
         /\ k = 0 => SubSeq(s, 1, k) = <<>>
         /\ k = Len(s) => SubSeq(s, 1, k) = s
         /\ k = 1 => SubSeq(s, 1, k) = <<s[1]>>
  <1>1. k = 0 => SubSeq(s, 1, k) = <<>> BY SubSeqEmpty
  <1>2. k = Len(s) => SubSeq(s, 1, k) = s BY SubSeqFull
  <1>3. /\ SubSeq(s, 1, k) \in Seq(Frame)
        /\ Len(SubSeq(s, 1, k)) = IF 1 <= k THEN k ELSE 0
        /\ \A i \in 1 .. k : SubSeq(s, 1, k)[i] = s[i]
    <2>1. \A i \in 1 .. k : s[i] \in Frame OBVIOUS
    <2> QED BY <2>1, SubSeqProperties
  <1>4. ASSUME k = 1 PROVE SubSeq(s, 1, k) = <<s[1]>>
    <2>1. s[1] \in Frame BY <1>4
    <2>2. <<s[1]>> \in Seq(Frame) /\ Len(<<s[1]>>) = 1 /\ <<s[1]>>[1] = s[1] BY <2>1
    <2>3. Len(SubSeq(s, 1, k)) = 1 /\ SubSeq(s, 1, k)[1] = s[1] BY <1>3, <1>4
    <2>4. \A i \in 1 .. Len(<<s[1]>>) : SubSeq(s, 1, k)[i] = <<s[1]>>[i] BY <2>2, <2>3
    <2> QED BY <1>3, <2>2, <2>3, <2>4, SeqEqual
  <1> QED BY <1>1, <1>2, <1>3, <1>4

\* The log with more frames at its end.
With(frames) == [log EXCEPT !.frames = log.frames \o frames]

\* What write_at leaves, synced or not: the log and a prefix of the delta.
LEMMA AppendFiles ==
  ASSUME Typed, Files, CkAppend
  PROVE  /\ bases = {base} /\ logs = {log}
         /\ base.gen = log.gen /\ base.gen # 0 /\ base.gen = ck.journal.gen
         /\ ~ck.full /\ ~ck.journal.full
         /\ Len(log.frames) = ck.journal.size
         /\ log' = With(DeltaFrames)
         /\ \A l \in logs' : l = log \/ \E k \in 0 .. Len(DeltaFrames) : l = With(SubSeq(DeltaFrames, 1, k))
         /\ log' \in logs' /\ logs' \in SUBSET Log
         /\ \A l \in logs' : l.gen = log.gen
         /\ Len(log'.frames) = Len(log.frames) + Len(DeltaFrames)
  <1>1. ck.pc = "append" BY DEF CkAppend
  <1>2. ~ck.full /\ Single(ck.journal) /\ ~ck.journal.full BY <1>1 DEF Files, Writes, Unwritten
  <1>3. log \in Log /\ log.frames \in Seq(Frame) BY LogType DEF Typed
  <1>4. SubSeq(log.frames, 1, ck.journal.size) = log.frames
    BY <1>2, <1>3, SubSeqFull DEF Single
  <1>5. /\ log' = With(SubSeq(DeltaFrames, 1, Len(DeltaFrames)))
        /\ logs' = logs \cup {With(SubSeq(DeltaFrames, 1, k)) : k \in 0 .. Len(DeltaFrames)}
    BY <1>4 DEF CkAppend, With
  <1>6. ASSUME NEW s \in Seq(Frame)
        PROVE  /\ With(s) \in Log /\ With(s).gen = log.gen /\ With(s).frames = log.frames \o s
               /\ Len(With(s).frames) = Len(log.frames) + Len(s)
    <2>1. log.frames \o s \in Seq(Frame) /\ Len(log.frames \o s) = Len(log.frames) + Len(s)
      BY <1>3, ConcatProperties
    <2> QED BY <2>1, <1>3 DEF With, Log, Frame
  <1>7. DeltaFrames \in Seq(Frame) /\ Len(DeltaFrames) \in Nat BY DeltaType
  <1>8. SubSeq(DeltaFrames, 1, Len(DeltaFrames)) = DeltaFrames BY <1>7, SubSeqFull
  <1>9. \A k \in 0 .. Len(DeltaFrames) : SubSeq(DeltaFrames, 1, k) \in Seq(Frame)
    BY <1>7, Prefixes
  <1>10. \A l \in logs' : l \in Log /\ l.gen = log.gen
    <2>1. logs \subseteq Log /\ \A l \in logs : l.gen = log.gen BY <1>2 DEF Typed, Single
    <2> QED BY <1>5, <1>6, <1>9, <2>1
  <1>11. log' \in logs'
    <2>1. Len(DeltaFrames) \in 0 .. Len(DeltaFrames) BY <1>7
    <2> QED BY <2>1, <1>5
  <1>12. Len(log'.frames) = Len(log.frames) + Len(DeltaFrames) BY <1>5, <1>6, <1>7, <1>8
  <1>13. \A l \in logs' : l = log \/ \E k \in 0 .. Len(DeltaFrames) : l = With(SubSeq(DeltaFrames, 1, k))
    BY <1>2, <1>5 DEF Single
  <1> QED BY <1>2, <1>5, <1>8, <1>10, <1>11, <1>12, <1>13 DEF Single

\* the steps of the flush and of the commit,
LEMMA WriteSteps ==
  ASSUME Typed, Stages, Files,
         CkNoDirectory \/ CkEncode \/ CkBase \/ CkBaseSync \/ CkLog \/ CkLogSync \/ CkAppend
         \/ CkAppendSync \/ CkSetJournal \/ CkRevise \/ CkFinish \/ CkFail
  PROVE  Typed'
  <1>a. CASE CkNoDirectory
    <2>1. reg' \in Registries BY <1>a, FinishedType, TaskFields DEF CkNoDirectory
    <2> QED BY <1>a, <2>1, IdleType DEF CkNoDirectory, Typed, disk, ghost
  <1>b. CASE CkEncode
    <2>1. ck' \in {[ck EXCEPT !.pc = "base"], [ck EXCEPT !.pc = "written"], [ck EXCEPT !.pc = "append"]}
      BY <1>b DEF CkEncode
    <2>2. ck' \in Tasks BY <2>1, PlaceSteps DEF CkPlaces
    <2> QED BY <1>b, <2>2 DEF CkEncode, Typed, memory, disk, ghost
  <1>c. CASE CkBase
    <2>1. ck' \in Tasks BY <1>c, PlaceSteps DEF CkBase, CkPlaces
    <2>2. base' \in File
      <3>1. ck.journal.gen + 1 \in Nat BY Numbers
      <3> QED BY <1>c, <3>1, TaskFields DEF CkBase, NextGen, File
    <2>3. bases' \in SUBSET File /\ base' \in bases' BY <1>c, <2>2 DEF CkBase, Typed
    <2> QED BY <1>c, <2>1, <2>3 DEF CkBase, Typed, memory, ghost
  <1>d. CASE CkBaseSync
    <2>1. ck' \in Tasks BY <1>d, PlaceSteps DEF CkBaseSync, CkPlaces
    <2> QED BY <1>d, <2>1 DEF CkBaseSync, Typed, memory, ghost
  <1>e. CASE CkLog
    <2>1. ck' \in Tasks BY <1>e, PlaceSteps DEF CkLog, CkPlaces
    <2>2. log' \in Log
      <3>1. ck.journal.gen + 1 \in Nat BY Numbers
      <3> QED BY <1>e, <3>1 DEF CkLog, NextGen, Log
    <2>3. logs' \in SUBSET Log /\ log' \in logs' BY <1>e, <2>2 DEF CkLog, Typed
    <2> QED BY <1>e, <2>1, <2>3 DEF CkLog, Typed, memory, ghost
  <1>f. CASE CkLogSync
    <2>1. ck' \in Tasks
      <3>1. [gen |-> ck.journal.gen + 1, full |-> FALSE, size |-> 0] \in Journals
        BY Numbers DEF Journals
      <3> QED BY <1>f, <3>1 DEF CkLogSync, NextGen, Typed, Tasks, CkPlaces
    <2> QED BY <1>f, <2>1 DEF CkLogSync, Typed, memory, ghost
  <1>g. CASE CkAppend
    <2>1. ck' \in Tasks BY <1>g, PlaceSteps DEF CkAppend, CkPlaces
    <2>3. log' \in logs' /\ logs' \in SUBSET Log BY <1>g, AppendFiles
    <2> QED BY <1>g, <2>1, <2>3 DEF CkAppend, Typed, memory, ghost
  <1>h. CASE CkAppendSync
    <2>1. ck' \in Tasks
      <3>0. ck.journal.size \in Nat /\ Len(DeltaFrames) \in Nat BY TaskFields, DeltaType
      <3>1. ck.journal.size + Len(DeltaFrames) \in Nat BY <3>0
      <3>2. [ck.journal EXCEPT !.size = ck.journal.size + Len(DeltaFrames)] \in Journals
        BY <3>1, TaskFields DEF Journals
      <3>3. ck' = [ck EXCEPT !.pc = "written",
                            !.journal = [ck.journal EXCEPT !.size = ck.journal.size + Len(DeltaFrames)]]
        BY <1>h DEF CkAppendSync, Typed, Tasks, Journals
      <3> QED BY <3>2, <3>3 DEF Typed, Tasks, CkPlaces
    <2> QED BY <1>h, <2>1 DEF CkAppendSync, Typed, memory, ghost
  <1>i. CASE CkSetJournal
    <2>1. ck' \in Tasks BY <1>i, PlaceSteps DEF CkSetJournal, CkPlaces
    <2>2. reg' \in Registries BY <1>i, TaskFields DEF CkSetJournal, Registries, Typed
    <2> QED BY <1>i, <2>1, <2>2 DEF CkSetJournal, Typed, disk, ghost
  <1>j. CASE CkRevise
    <2>1. ck' \in Tasks BY <1>j DEF CkRevise, Typed, Tasks, CkPlaces
    <2>2. savedRevision' \in 0 .. MaxRevision BY <1>j, TaskFields DEF CkRevise, Typed
    <2>3. saved' \in Ages BY <1>j, TaskFields DEF CkRevise, Typed, Ages
    <2> QED BY <1>j, <2>1, <2>2, <2>3 DEF CkRevise, Typed, disk
  <1>k. CASE CkFinish
    <2>1. reg' \in Registries BY <1>k, FinishedType, TaskFields DEF CkFinish
    <2> QED BY <1>k, <2>1, IdleType DEF CkFinish, Typed, disk, ghost
  <1>l. CASE CkFail
    <2>1. ck' \in Tasks BY <1>l DEF CkFail, Typed, Tasks, CkPlaces
    <2> QED BY <1>l, <2>1 DEF CkFail, Typed, memory, disk
  <1> QED BY <1>a, <1>b, <1>c, <1>d, <1>e, <1>f, <1>g, <1>h, <1>i, <1>j, <1>k, <1>l

\* the rollback,
LEMMA DropSteps ==
  ASSUME Typed, Stages, CkDropPage \/ CkDropSummary
  PROVE  Typed'
  <1>1. ck.pc = "drop" BY DEF CkDropPage, CkDropSummary
  <1>a. CASE CkDropPage
    <2>1. PICK p \in Pages :
        /\ ck.marks[p] # Unknown
        /\ mark' = IF p \in ck.orphans THEN mark
                   ELSE [mark EXCEPT ![p] = Earlier(@, ck.marks[p])]
        /\ Dirty(ck.slot, ck.marks[p])
        /\ ck' = [ck EXCEPT !.marks[p] = Unknown]
      BY <1>a DEF CkDropPage
    <2>2. ck.marks[p] \in Stamps /\ Unknown \in Stamps BY TaskFields DEF Stamps
    <2>3. blockDirty' \in Stamps /\ shardDirty' \in [1 .. MaxSlots -> Stamps]
      <3>1. ck.slot = live => live # 0 BY <2>1 DEF Stages, Slots, Inside, TaskStages, Clean
      <3> QED BY <2>1, <2>2, <3>1, DirtyType, TaskFields
    <2>4. mark' \in [Pages -> Stamps]
      <3>1. Earlier(mark[p], ck.marks[p]) \in Stamps BY <2>2, EarlierFact DEF Typed
      <3> QED BY <2>1, <3>1 DEF Typed
    <2>5. ck' \in Tasks
      <3>1. [ck.marks EXCEPT ![p] = Unknown] \in [Pages -> Stamps] BY <2>2, TaskFields
      <3>2. ck' = [ck EXCEPT !.marks = [ck.marks EXCEPT ![p] = Unknown]] BY <2>1 DEF Typed, Tasks
      <3> QED BY <3>1, <3>2 DEF Typed, Tasks
    <2> QED BY <1>a, <2>3, <2>4, <2>5 DEF CkDropPage, Typed, disk, ghost
  <1>b. CASE CkDropSummary
    <2>1. Dirty(ck.slot, ck.since) BY <1>b DEF CkDropSummary
    <2>3. blockDirty' \in Stamps /\ shardDirty' \in [1 .. MaxSlots -> Stamps]
      <3>1. ck.slot = live /\ ck.since # Unknown => live # 0 BY <2>1
          DEF Stages, Slots, Inside, TaskStages, Clean
      <3> QED BY <2>1, <3>1, DirtyType, TaskFields
    <2> QED BY <1>b, <2>3, IdleType DEF CkDropSummary, Typed, disk, ghost
  <1> QED BY <1>a, <1>b

\* What a restart leaves: one base, one log, the ages load() gives.
LEMMA RestartFacts ==
  ASSUME Typed, Restart
  PROVE  \E b \in bases, l \in logs, found \in SUBSET resident :
           /\ b \in File /\ l \in Log /\ Recovered(b, l) \in Ages
           /\ base' = b /\ bases' = {b} /\ log' = l /\ logs' = {l}
           /\ resident' = found
           /\ last' = [p \in Pages |-> IF p \in found /\ Recovered(b, l)[p] # 0
                                       THEN Recovered(b, l)[p] ELSE Unknown]
           /\ live' = IF found = {} THEN 0 ELSE 1
           /\ reg' \in Registries
           /\ reg'.next = live' /\ reg'.saved = 0 /\ reg'.removed = {} /\ reg'.overflow = 0
           /\ reg'.membership = live' + (IF b.gen = 0 THEN 0 ELSE 1)
           /\ reg'.journal.gen = b.gen /\ reg'.journal.full = TRUE /\ reg'.dir = reg.dir
           /\ saved' = [p \in Pages |-> IF p \in found THEN saved[p] ELSE 0]
  <1>1. PICK b \in bases, l \in logs, found \in SUBSET resident :
        LET slot == IF found = {} THEN 0 ELSE 1
            ages == Recovered(b, l)
        IN  /\ base' = b /\ bases' = {b}
            /\ log' = l /\ logs' = {l}
            /\ resident' = found
            /\ last' = [p \in Pages |-> IF p \in found /\ ages[p] # 0
                                        THEN ages[p] ELSE Unknown]
            /\ live' = slot
            /\ reg' = [next |-> slot, saved |-> 0, removed |-> {}, overflow |-> 0,
                       membership |-> slot + (IF b.gen = 0 THEN 0 ELSE 1),
                       journal |-> [NewJournal EXCEPT !.gen = b.gen],
                       dir |-> reg.dir]
            /\ saved' = [p \in Pages |-> IF p \in found THEN saved[p] ELSE 0]
    BY DEF Restart
  <1>2. b \in File /\ l \in Log BY DEF Typed
  <1>3. Recovered(b, l) \in Ages BY <1>2, RecoveredType
  <1> DEFINE j == [NewJournal EXCEPT !.gen = b.gen]
             slot == IF found = {} THEN 0 ELSE 1
             mem == slot + (IF b.gen = 0 THEN 0 ELSE 1)
  <1>4. j \in Journals /\ j.gen = b.gen /\ j.full = TRUE
    <2>1. b.gen \in Nat BY <1>2 DEF File
    <2> QED BY <2>1 DEF NewJournal, Journals
  <1>5. slot \in 0 .. MaxSlots /\ mem \in Nat /\ live' = slot
    BY <1>1, Bounds
  <1>6. reg' = [next |-> slot, saved |-> 0, removed |-> {}, overflow |-> 0,
                membership |-> mem, journal |-> j, dir |-> reg.dir]
    BY <1>1
  <1>7. live' + (IF b.gen = 0 THEN 0 ELSE 1) = mem BY <1>5
  <1> HIDE DEF j, mem, slot
  <1>8. /\ reg' \in Registries
        /\ reg'.next = slot /\ reg'.saved = 0 /\ reg'.removed = {} /\ reg'.overflow = 0
        /\ reg'.membership = mem
        /\ reg'.journal.gen = b.gen /\ reg'.journal.full = TRUE /\ reg'.dir = reg.dir
    BY <1>4, <1>5, <1>6, TaskFields DEF Registries
  <1>9. live' = IF found = {} THEN 0 ELSE 1 BY <1>5 DEF slot
  <1> QED BY <1>1, <1>2, <1>3, <1>5, <1>7, <1>8, <1>9

\* and the restart.
LEMMA RestartSteps ==
  ASSUME Typed, Stages, Restart
  PROVE  Typed'
  <1>1. PICK b \in bases, l \in logs, found \in SUBSET resident :
           /\ b \in File /\ l \in Log /\ Recovered(b, l) \in Ages
           /\ base' = b /\ bases' = {b} /\ log' = l /\ logs' = {l}
           /\ resident' = found
           /\ last' = [p \in Pages |-> IF p \in found /\ Recovered(b, l)[p] # 0
                                       THEN Recovered(b, l)[p] ELSE Unknown]
           /\ live' = IF found = {} THEN 0 ELSE 1
           /\ reg' \in Registries
           /\ reg'.next = live' /\ reg'.saved = 0 /\ reg'.removed = {} /\ reg'.overflow = 0
           /\ reg'.membership = live' + (IF b.gen = 0 THEN 0 ELSE 1)
           /\ reg'.journal.gen = b.gen /\ reg'.journal.full = TRUE /\ reg'.dir = reg.dir
           /\ saved' = [p \in Pages |-> IF p \in found THEN saved[p] ELSE 0]
    BY RestartFacts
  <1>2. Unknown \in Stamps /\ Times \subseteq Stamps BY DEF Stamps
  <1>3. last' \in [Pages -> Stamps]
    <2>1. \A p \in Pages : Recovered(b, l)[p] # 0 => Recovered(b, l)[p] \in Stamps
      BY <1>1, <1>2, Bounds DEF Ages
    <2> QED BY <1>1, <1>2, <2>1
  <1>4. live' \in 0 .. MaxSlots BY <1>1, Bounds
  <1>5. reg' \in Registries BY <1>1
  <1>6. saved' \in Ages BY <1>1, Bounds DEF Typed, Ages
  <1>7. resident' \in SUBSET Pages BY <1>1 DEF Typed
  <1>8. 0 \in 0 .. MaxRevision BY Bounds
  <1>9. shardDirty' \in [1 .. MaxSlots -> Stamps] /\ mark' \in [Pages -> Stamps]
        /\ blockDirty' \in Stamps
    BY <1>2, NoAgesType DEF Restart
  <1>10. reader' \in [Readers -> ReaderStates] /\ ck' \in Tasks
    BY IdleType DEF Restart
  <1>11. base' \in bases' /\ log' \in logs' /\ bases' \in SUBSET File /\ logs' \in SUBSET Log
    BY <1>1
  <1> QED BY <1>3, <1>4, <1>5, <1>6, <1>7, <1>8, <1>9, <1>10, <1>11 DEF Restart, Typed

\* Every step keeps the types.
LEMMA TypedStep ==
  ASSUME Typed, Stages, Files, [Next]_vars
  PROVE  Typed'
  <1>1. CASE Next
    BY <1>1, ReaderSteps, RegistrySteps, SampleSteps, WriteSteps, DropSteps, RestartSteps
    DEF Next, Checkpoint
  <1>2. CASE UNCHANGED vars
    BY <1>2 DEF vars, memory, disk, ghost, Typed
  <1> QED BY <1>1, <1>2

-----------------------------------------------------------------------------
(* What each action changes: checkpoint and registry                       *)

\* What CkStart changes.
LEMMA CkStartEffect ==
  ASSUME Typed, CkStart
  PROVE  /\ ck.pc = "idle" /\ Due /\ ck'.pc = "journal"
         /\ ck'.ceiling = reg.next /\ ck'.upto = reg.membership
         /\ ck'.full = FALSE /\ ck'.gone = FALSE /\ ck'.slot = 0
         /\ ck'.held = FALSE /\ ck'.since = Unknown /\ ck'.replace = FALSE
         /\ ck'.revision = 0 /\ ck'.todo = {} /\ ck'.marks = Clean
         /\ ck'.ages = NoAges /\ ck'.orphans = {} /\ now' = now
         /\ resident' = resident /\ last' = last /\ mark' = mark
         /\ live' = live /\ blockDirty' = blockDirty
         /\ shardDirty' = shardDirty /\ revision' = revision
         /\ savedRevision' = savedRevision /\ reg' = reg /\ reader' = reader
         /\ base' = base /\ log' = log /\ bases' = bases /\ logs' = logs
         /\ saved' = saved /\ fails' = fails /\ crashes' = crashes
  BY IdleFields, IdleType, TaskFields DEF CkStart, Typed, Tasks, Registries, Journals, memory,
      disk, ghost, NextGen, Finished, Writing, BlockUnlocked

\* What CkJournal changes.
LEMMA CkJournalEffect ==
  ASSUME Typed, CkJournal
  PROVE  /\ ck.pc = "journal" /\ reg'.journal.gen = reg.journal.gen
         /\ reg'.journal.full = TRUE /\ ck'.journal.gen = reg.journal.gen
         /\ ck'.journal.size = reg.journal.size
         /\ (ck'.journal.full = (reg.journal.full \/ reg.overflow # 0))
         /\ (ck'.full = (reg.journal.full \/ reg.overflow # 0 \/ reg.journal.size >= CompactAt))
         /\ (ck'.gone = (\E m \in reg.removed : m <= ck.upto))
         /\ reg'.next = reg.next /\ reg'.membership = reg.membership
         /\ reg'.saved = reg.saved /\ reg'.removed = reg.removed
         /\ reg'.overflow = reg.overflow /\ reg'.dir = reg.dir
         /\ ck'.pc = "pick" /\ ck'.ceiling = ck.ceiling /\ ck'.upto = ck.upto
         /\ ck'.slot = ck.slot /\ ck'.held = ck.held /\ ck'.since = ck.since
         /\ ck'.replace = ck.replace /\ ck'.revision = ck.revision
         /\ ck'.todo = ck.todo /\ ck'.page = ck.page /\ ck'.marks = ck.marks
         /\ ck'.ages = ck.ages /\ ck'.orphans = ck.orphans /\ now' = now
         /\ resident' = resident /\ last' = last /\ mark' = mark
         /\ live' = live /\ blockDirty' = blockDirty
         /\ shardDirty' = shardDirty /\ revision' = revision
         /\ savedRevision' = savedRevision /\ reader' = reader
         /\ base' = base /\ log' = log /\ bases' = bases /\ logs' = logs
         /\ saved' = saved /\ fails' = fails /\ crashes' = crashes
  BY IdleFields, IdleType, TaskFields DEF CkJournal, Typed, Tasks, Registries, Journals, memory,
      disk, ghost, NextGen, Finished, Writing, BlockUnlocked

\* What CkPick changes.
LEMMA CkPickEffect ==
  ASSUME Typed, CkPick
  PROVE  /\ ck.pc = "pick"
         /\ (Eligible /\ ck'.pc = "summary" /\ ck'.slot = live /\ ck'.held = TRUE)
             \/ (~Eligible /\ ck'.pc = "encode" /\ ck'.slot = ck.slot /\ ck'.held = ck.held)
         /\ ck'.ceiling = ck.ceiling /\ ck'.upto = ck.upto
         /\ ck'.journal = ck.journal /\ ck'.full = ck.full
         /\ ck'.gone = ck.gone /\ ck'.since = ck.since
         /\ ck'.replace = ck.replace /\ ck'.revision = ck.revision
         /\ ck'.todo = ck.todo /\ ck'.page = ck.page /\ ck'.marks = ck.marks
         /\ ck'.ages = ck.ages /\ ck'.orphans = ck.orphans /\ now' = now
         /\ resident' = resident /\ last' = last /\ mark' = mark
         /\ live' = live /\ blockDirty' = blockDirty
         /\ shardDirty' = shardDirty /\ revision' = revision
         /\ savedRevision' = savedRevision /\ reg' = reg /\ reader' = reader
         /\ base' = base /\ log' = log /\ bases' = bases /\ logs' = logs
         /\ saved' = saved /\ fails' = fails /\ crashes' = crashes
  BY IdleFields, IdleType, TaskFields DEF CkPick, Typed, Tasks, Registries, Journals, memory,
      disk, ghost, NextGen, Finished, Writing, BlockUnlocked

\* What CkSummary changes.
LEMMA CkSummaryEffect ==
  ASSUME Typed, CkSummary
  PROVE  /\ ck.pc = "summary"
         /\ shardDirty' = [shardDirty EXCEPT ![live] = Unknown]
         /\ blockDirty' = Unknown /\ ck'.pc = "consume"
         /\ ck'.ceiling = ck.ceiling /\ ck'.upto = ck.upto
         /\ ck'.journal = ck.journal /\ ck'.full = ck.full
         /\ ck'.gone = ck.gone /\ ck'.slot = ck.slot /\ ck'.held = ck.held
         /\ ck'.since = shardDirty[live]
         /\ (ck'.replace = (ck.full \/ revision # savedRevision))
         /\ ck'.revision = revision /\ ck'.todo = resident
         /\ ck'.page = ck.page /\ ck'.marks = ck.marks /\ ck'.ages = ck.ages
         /\ ck'.orphans = {} /\ now' = now /\ resident' = resident
         /\ last' = last /\ mark' = mark /\ live' = live
         /\ revision' = revision /\ savedRevision' = savedRevision
         /\ reg' = reg /\ reader' = reader /\ base' = base /\ log' = log
         /\ bases' = bases /\ logs' = logs /\ saved' = saved
         /\ fails' = fails /\ crashes' = crashes
  BY IdleFields, IdleType, TaskFields DEF CkSummary, Typed, Tasks, Registries, Journals, memory,
      disk, ghost, NextGen, Finished, Writing, BlockUnlocked

\* What CkSample changes.
LEMMA CkSampleEffect ==
  ASSUME Typed, CkSample
  PROVE  /\ ck.pc = "sample" /\ ck'.pc = "consume"
         /\ ck'.ceiling = ck.ceiling /\ ck'.upto = ck.upto
         /\ ck'.journal = ck.journal /\ ck'.full = ck.full
         /\ ck'.gone = ck.gone /\ ck'.slot = ck.slot /\ ck'.held = ck.held
         /\ ck'.since = ck.since /\ ck'.replace = ck.replace
         /\ ck'.revision = ck.revision /\ ck'.todo = ck.todo
         /\ ck'.page = ck.page /\ ck'.marks = ck.marks
         /\ ck'.ages = [ck.ages EXCEPT ![ck.page] =
            IF last[ck.page] # Unknown /\ (ck.replace \/ ck.marks[ck.page] # Unknown)
            THEN last[ck.page] ELSE 0]
         /\ ck'.orphans = ck.orphans /\ now' = now /\ resident' = resident
         /\ last' = last /\ mark' = mark /\ live' = live
         /\ blockDirty' = blockDirty /\ shardDirty' = shardDirty
         /\ revision' = revision /\ savedRevision' = savedRevision
         /\ reg' = reg /\ reader' = reader /\ base' = base /\ log' = log
         /\ bases' = bases /\ logs' = logs /\ saved' = saved
         /\ fails' = fails /\ crashes' = crashes
  BY IdleFields, IdleType, TaskFields DEF CkSample, Typed, Tasks, Registries, Journals, memory,
      disk, ghost, NextGen, Finished, Writing, BlockUnlocked

\* What CkSampled changes.
LEMMA CkSampledEffect ==
  ASSUME Typed, CkSampled
  PROVE  /\ ck.pc = "consume" /\ ck.todo = {} /\ ck'.pc = "encode"
         /\ ck'.ceiling = ck.ceiling /\ ck'.upto = ck.upto
         /\ ck'.journal = ck.journal /\ ck'.full = ck.full
         /\ ck'.gone = ck.gone /\ ck'.slot = ck.slot /\ ck'.held = ck.held
         /\ ck'.since = ck.since /\ ck'.replace = ck.replace
         /\ ck'.revision = ck.revision /\ ck'.todo = ck.todo
         /\ ck'.page = ck.page /\ ck'.marks = ck.marks /\ ck'.ages = ck.ages
         /\ ck'.orphans = ck.orphans /\ now' = now /\ resident' = resident
         /\ last' = last /\ mark' = mark /\ live' = live
         /\ blockDirty' = blockDirty /\ shardDirty' = shardDirty
         /\ revision' = revision /\ savedRevision' = savedRevision
         /\ reg' = reg /\ reader' = reader /\ base' = base /\ log' = log
         /\ bases' = bases /\ logs' = logs /\ saved' = saved
         /\ fails' = fails /\ crashes' = crashes
  BY IdleFields, IdleType, TaskFields DEF CkSampled, Typed, Tasks, Registries, Journals, memory,
      disk, ghost, NextGen, Finished, Writing, BlockUnlocked

\* What CkTooLarge changes.
LEMMA CkTooLargeEffect ==
  ASSUME Typed, CkTooLarge
  PROVE  /\ ck' = Idle /\ ck.pc = "consume" /\ ck.todo = resident
         /\ Dirty(ck.slot, ck.since) /\ ck'.pc = "idle" /\ ck'.ceiling = 0
         /\ ck'.upto = 0 /\ ck'.full = FALSE /\ ck'.gone = FALSE
         /\ ck'.slot = 0 /\ ck'.held = FALSE /\ ck'.since = Unknown
         /\ ck'.replace = FALSE /\ ck'.revision = 0 /\ ck'.todo = {}
         /\ ck'.marks = Clean /\ ck'.ages = NoAges /\ ck'.orphans = {}
         /\ now' = now /\ resident' = resident /\ last' = last
         /\ mark' = mark /\ live' = live /\ revision' = revision
         /\ savedRevision' = savedRevision /\ reg' = reg /\ reader' = reader
         /\ base' = base /\ log' = log /\ bases' = bases /\ logs' = logs
         /\ saved' = saved /\ crashes' = crashes
  BY IdleFields, IdleType, TaskFields DEF CkTooLarge, Typed, Tasks, Registries, Journals,
      memory, disk, ghost, NextGen, Finished, Writing, BlockUnlocked

\* What CkNoDirectory changes.
LEMMA CkNoDirectoryEffect ==
  ASSUME Typed, CkNoDirectory
  PROVE  /\ ck' = Idle /\ ck.pc = "encode" /\ ~reg.dir
         /\ reg'.next = reg.next /\ reg'.membership = reg.membership
         /\ reg'.saved = ck.upto
         /\ reg'.removed = {m \in reg.removed : m > ck.upto}
         /\ reg'.overflow = (IF reg.overflow <= ck.upto THEN 0 ELSE reg.overflow)
         /\ reg'.journal = reg.journal /\ reg'.dir = reg.dir
         /\ ck'.pc = "idle" /\ ck'.ceiling = 0 /\ ck'.upto = 0
         /\ ck'.full = FALSE /\ ck'.gone = FALSE /\ ck'.slot = 0
         /\ ck'.held = FALSE /\ ck'.since = Unknown /\ ck'.replace = FALSE
         /\ ck'.revision = 0 /\ ck'.todo = {} /\ ck'.marks = Clean
         /\ ck'.ages = NoAges /\ ck'.orphans = {} /\ now' = now
         /\ resident' = resident /\ last' = last /\ mark' = mark
         /\ live' = live /\ blockDirty' = blockDirty
         /\ shardDirty' = shardDirty /\ revision' = revision
         /\ savedRevision' = savedRevision /\ reader' = reader
         /\ base' = base /\ log' = log /\ bases' = bases /\ logs' = logs
         /\ saved' = saved /\ fails' = fails /\ crashes' = crashes
  BY IdleFields, IdleType, TaskFields DEF CkNoDirectory, Typed, Tasks, Registries, Journals,
      memory, disk, ghost, NextGen, Finished, Writing, BlockUnlocked

\* What CkEncode changes.
LEMMA CkEncodeEffect ==
  ASSUME Typed, CkEncode
  PROVE  /\ ck.pc = "encode" /\ reg.dir
         /\ (ck.full /\ ck'.pc = "base")
             \/ (~ck.full /\ DeltaFrames = <<>> /\ ck'.pc = "written")
             \/ (~ck.full /\ DeltaFrames # <<>> /\ ck'.pc = "append")
         /\ ck'.ceiling = ck.ceiling /\ ck'.upto = ck.upto
         /\ ck'.journal = ck.journal /\ ck'.full = ck.full
         /\ ck'.gone = ck.gone /\ ck'.slot = ck.slot /\ ck'.held = ck.held
         /\ ck'.since = ck.since /\ ck'.replace = ck.replace
         /\ ck'.revision = ck.revision /\ ck'.todo = ck.todo
         /\ ck'.page = ck.page /\ ck'.marks = ck.marks /\ ck'.ages = ck.ages
         /\ ck'.orphans = ck.orphans /\ now' = now /\ resident' = resident
         /\ last' = last /\ mark' = mark /\ live' = live
         /\ blockDirty' = blockDirty /\ shardDirty' = shardDirty
         /\ revision' = revision /\ savedRevision' = savedRevision
         /\ reg' = reg /\ reader' = reader /\ base' = base /\ log' = log
         /\ bases' = bases /\ logs' = logs /\ saved' = saved
         /\ fails' = fails /\ crashes' = crashes
  BY IdleFields, IdleType, TaskFields DEF CkEncode, Typed, Tasks, Registries, Journals, memory,
      disk, ghost, NextGen, Finished, Writing, BlockUnlocked

\* What CkBase changes.
LEMMA CkBaseEffect ==
  ASSUME Typed, CkBase
  PROVE  /\ ck.pc = "base" /\ base' \in File
         /\ base'.gen = ck.journal.gen + 1 /\ base'.ages = ck.ages
         /\ bases' = bases \cup {base'} /\ ck'.pc = "baseSync"
         /\ ck'.ceiling = ck.ceiling /\ ck'.upto = ck.upto
         /\ ck'.journal = ck.journal /\ ck'.full = ck.full
         /\ ck'.gone = ck.gone /\ ck'.slot = ck.slot /\ ck'.held = ck.held
         /\ ck'.since = ck.since /\ ck'.replace = ck.replace
         /\ ck'.revision = ck.revision /\ ck'.todo = ck.todo
         /\ ck'.page = ck.page /\ ck'.marks = ck.marks /\ ck'.ages = ck.ages
         /\ ck'.orphans = ck.orphans /\ now' = now /\ resident' = resident
         /\ last' = last /\ mark' = mark /\ live' = live
         /\ blockDirty' = blockDirty /\ shardDirty' = shardDirty
         /\ revision' = revision /\ savedRevision' = savedRevision
         /\ reg' = reg /\ reader' = reader /\ log' = log /\ logs' = logs
         /\ saved' = saved /\ fails' = fails /\ crashes' = crashes
  <1>1. ck.journal.gen + 1 \in Nat BY Numbers
  <1>2. [gen |-> ck.journal.gen + 1, ages |-> ck.ages] \in File BY <1>1, TaskFields DEF File
  <1>3. base' = [gen |-> ck.journal.gen + 1, ages |-> ck.ages] BY DEF CkBase, NextGen
  <1>4. base' \in File /\ base'.gen = ck.journal.gen + 1 /\ base'.ages = ck.ages BY <1>2, <1>3
  <1> QED BY <1>4 DEF CkBase, Typed, Tasks, memory, ghost

\* What CkBaseSync changes.
LEMMA CkBaseSyncEffect ==
  ASSUME Typed, CkBaseSync
  PROVE  /\ ck.pc = "baseSync" /\ bases' = {base} /\ ck'.pc = "log"
         /\ ck'.ceiling = ck.ceiling /\ ck'.upto = ck.upto
         /\ ck'.journal = ck.journal /\ ck'.full = ck.full
         /\ ck'.gone = ck.gone /\ ck'.slot = ck.slot /\ ck'.held = ck.held
         /\ ck'.since = ck.since /\ ck'.replace = ck.replace
         /\ ck'.revision = ck.revision /\ ck'.todo = ck.todo
         /\ ck'.page = ck.page /\ ck'.marks = ck.marks /\ ck'.ages = ck.ages
         /\ ck'.orphans = ck.orphans /\ now' = now /\ resident' = resident
         /\ last' = last /\ mark' = mark /\ live' = live
         /\ blockDirty' = blockDirty /\ shardDirty' = shardDirty
         /\ revision' = revision /\ savedRevision' = savedRevision
         /\ reg' = reg /\ reader' = reader /\ base' = base /\ log' = log
         /\ logs' = logs /\ saved' = saved /\ fails' = fails
         /\ crashes' = crashes
  BY IdleFields, IdleType, TaskFields DEF CkBaseSync, Typed, Tasks, Registries, Journals,
      memory, disk, ghost, NextGen, Finished, Writing, BlockUnlocked

\* What CkLog changes.
LEMMA CkLogEffect ==
  ASSUME Typed, CkLog
  PROVE  /\ ck.pc = "log" /\ log' \in Log /\ log'.gen = ck.journal.gen + 1
         /\ log'.frames = <<>> /\ logs' = logs \cup {log'}
         /\ ck'.pc = "logSync" /\ ck'.ceiling = ck.ceiling
         /\ ck'.upto = ck.upto /\ ck'.journal = ck.journal
         /\ ck'.full = ck.full /\ ck'.gone = ck.gone /\ ck'.slot = ck.slot
         /\ ck'.held = ck.held /\ ck'.since = ck.since
         /\ ck'.replace = ck.replace /\ ck'.revision = ck.revision
         /\ ck'.todo = ck.todo /\ ck'.page = ck.page /\ ck'.marks = ck.marks
         /\ ck'.ages = ck.ages /\ ck'.orphans = ck.orphans /\ now' = now
         /\ resident' = resident /\ last' = last /\ mark' = mark
         /\ live' = live /\ blockDirty' = blockDirty
         /\ shardDirty' = shardDirty /\ revision' = revision
         /\ savedRevision' = savedRevision /\ reg' = reg /\ reader' = reader
         /\ base' = base /\ bases' = bases /\ saved' = saved
         /\ fails' = fails /\ crashes' = crashes
  <1>1. ck.journal.gen + 1 \in Nat BY Numbers
  <1>2. [gen |-> ck.journal.gen + 1, frames |-> <<>>] \in Log BY <1>1 DEF Log
  <1>3. log' = [gen |-> ck.journal.gen + 1, frames |-> <<>>] BY DEF CkLog, NextGen
  <1>4. log' \in Log /\ log'.gen = ck.journal.gen + 1 /\ log'.frames = <<>> BY <1>2, <1>3
  <1> QED BY <1>4 DEF CkLog, Typed, Tasks, memory, ghost

\* What CkLogSync changes.
LEMMA CkLogSyncEffect ==
  ASSUME Typed, CkLogSync
  PROVE  /\ ck.pc = "logSync" /\ logs' = {log}
         /\ ck'.journal.gen = ck.journal.gen + 1 /\ ck'.journal.full = FALSE
         /\ ck'.journal.size = 0 /\ ck'.pc = "written"
         /\ ck'.ceiling = ck.ceiling /\ ck'.upto = ck.upto
         /\ ck'.full = ck.full /\ ck'.gone = ck.gone /\ ck'.slot = ck.slot
         /\ ck'.held = ck.held /\ ck'.since = ck.since
         /\ ck'.replace = ck.replace /\ ck'.revision = ck.revision
         /\ ck'.todo = ck.todo /\ ck'.page = ck.page /\ ck'.marks = ck.marks
         /\ ck'.ages = ck.ages /\ ck'.orphans = ck.orphans /\ now' = now
         /\ resident' = resident /\ last' = last /\ mark' = mark
         /\ live' = live /\ blockDirty' = blockDirty
         /\ shardDirty' = shardDirty /\ revision' = revision
         /\ savedRevision' = savedRevision /\ reg' = reg /\ reader' = reader
         /\ base' = base /\ log' = log /\ bases' = bases /\ saved' = saved
         /\ fails' = fails /\ crashes' = crashes
  BY IdleFields, IdleType, TaskFields DEF CkLogSync, Typed, Tasks, Registries, Journals, memory,
      disk, ghost, NextGen, Finished, Writing, BlockUnlocked

\* What CkAppend changes.
LEMMA CkAppendEffect ==
  ASSUME Typed, CkAppend
  PROVE  /\ ck.pc = "append" /\ ck'.pc = "appendSync"
         /\ ck'.ceiling = ck.ceiling /\ ck'.upto = ck.upto
         /\ ck'.journal = ck.journal /\ ck'.full = ck.full
         /\ ck'.gone = ck.gone /\ ck'.slot = ck.slot /\ ck'.held = ck.held
         /\ ck'.since = ck.since /\ ck'.replace = ck.replace
         /\ ck'.revision = ck.revision /\ ck'.todo = ck.todo
         /\ ck'.page = ck.page /\ ck'.marks = ck.marks /\ ck'.ages = ck.ages
         /\ ck'.orphans = ck.orphans /\ now' = now /\ resident' = resident
         /\ last' = last /\ mark' = mark /\ live' = live
         /\ blockDirty' = blockDirty /\ shardDirty' = shardDirty
         /\ revision' = revision /\ savedRevision' = savedRevision
         /\ reg' = reg /\ reader' = reader /\ base' = base /\ bases' = bases
         /\ saved' = saved /\ fails' = fails /\ crashes' = crashes
  BY IdleFields, IdleType, TaskFields DEF CkAppend, Typed, Tasks, Registries, Journals, memory,
      disk, ghost, NextGen, Finished, Writing, BlockUnlocked

\* What CkAppendSync changes.
LEMMA CkAppendSyncEffect ==
  ASSUME Typed, CkAppendSync
  PROVE  /\ ck.pc = "appendSync" /\ logs' = {log}
         /\ ck'.journal.gen = ck.journal.gen
         /\ ck'.journal.full = ck.journal.full
         /\ ck'.journal.size = ck.journal.size + Len(DeltaFrames)
         /\ ck'.pc = "written" /\ ck'.ceiling = ck.ceiling
         /\ ck'.upto = ck.upto /\ ck'.full = ck.full /\ ck'.gone = ck.gone
         /\ ck'.slot = ck.slot /\ ck'.held = ck.held /\ ck'.since = ck.since
         /\ ck'.replace = ck.replace /\ ck'.revision = ck.revision
         /\ ck'.todo = ck.todo /\ ck'.page = ck.page /\ ck'.marks = ck.marks
         /\ ck'.ages = ck.ages /\ ck'.orphans = ck.orphans /\ now' = now
         /\ resident' = resident /\ last' = last /\ mark' = mark
         /\ live' = live /\ blockDirty' = blockDirty
         /\ shardDirty' = shardDirty /\ revision' = revision
         /\ savedRevision' = savedRevision /\ reg' = reg /\ reader' = reader
         /\ base' = base /\ log' = log /\ bases' = bases /\ saved' = saved
         /\ fails' = fails /\ crashes' = crashes
  BY IdleFields, IdleType, TaskFields DEF CkAppendSync, Typed, Tasks, Registries, Journals,
      memory, disk, ghost, NextGen, Finished, Writing, BlockUnlocked

\* What CkSetJournal changes.
LEMMA CkSetJournalEffect ==
  ASSUME Typed, CkSetJournal
  PROVE  /\ ck.pc = "written" /\ reg'.journal = ck.journal
         /\ reg'.next = reg.next /\ reg'.membership = reg.membership
         /\ reg'.saved = reg.saved /\ reg'.removed = reg.removed
         /\ reg'.overflow = reg.overflow /\ reg'.dir = reg.dir
         /\ ck'.pc = "revise" /\ ck'.ceiling = ck.ceiling
         /\ ck'.upto = ck.upto /\ ck'.journal = ck.journal
         /\ ck'.full = ck.full /\ ck'.gone = ck.gone /\ ck'.slot = ck.slot
         /\ ck'.held = ck.held /\ ck'.since = ck.since
         /\ ck'.replace = ck.replace /\ ck'.revision = ck.revision
         /\ ck'.todo = ck.todo /\ ck'.page = ck.page /\ ck'.marks = ck.marks
         /\ ck'.ages = ck.ages /\ ck'.orphans = ck.orphans /\ now' = now
         /\ resident' = resident /\ last' = last /\ mark' = mark
         /\ live' = live /\ blockDirty' = blockDirty
         /\ shardDirty' = shardDirty /\ revision' = revision
         /\ savedRevision' = savedRevision /\ reader' = reader
         /\ base' = base /\ log' = log /\ bases' = bases /\ logs' = logs
         /\ saved' = saved /\ fails' = fails /\ crashes' = crashes
  BY IdleFields, IdleType, TaskFields DEF CkSetJournal, Typed, Tasks, Registries, Journals,
      memory, disk, ghost, NextGen, Finished, Writing, BlockUnlocked

\* What CkRevise changes.
LEMMA CkReviseEffect ==
  ASSUME Typed, CkRevise
  PROVE  /\ ck.pc = "revise"
         /\ savedRevision' = (IF ck.slot # 0 THEN ck.revision ELSE savedRevision)
         /\ (\A p \in Pages : saved'[p] = (IF ck.ages[p] # 0 /\ p \notin ck.orphans THEN ck.ages[p] ELSE saved[p]))
         /\ ck'.pc = "finish" /\ ck'.ceiling = ck.ceiling
         /\ ck'.upto = ck.upto /\ ck'.journal = ck.journal
         /\ ck'.full = ck.full /\ ck'.gone = ck.gone /\ ck'.slot = ck.slot
         /\ ck'.held = FALSE /\ ck'.since = ck.since
         /\ ck'.replace = ck.replace /\ ck'.revision = ck.revision
         /\ ck'.todo = ck.todo /\ ck'.page = ck.page /\ ck'.marks = ck.marks
         /\ ck'.ages = ck.ages /\ ck'.orphans = ck.orphans /\ now' = now
         /\ resident' = resident /\ last' = last /\ mark' = mark
         /\ live' = live /\ blockDirty' = blockDirty
         /\ shardDirty' = shardDirty /\ revision' = revision /\ reg' = reg
         /\ reader' = reader /\ base' = base /\ log' = log /\ bases' = bases
         /\ logs' = logs /\ fails' = fails /\ crashes' = crashes
  BY IdleFields, IdleType, TaskFields DEF CkRevise, Typed, Tasks, Registries, Journals, memory,
      disk, ghost, NextGen, Finished, Writing, BlockUnlocked

\* What CkFinish changes.
LEMMA CkFinishEffect ==
  ASSUME Typed, CkFinish
  PROVE  /\ ck' = Idle /\ ck.pc = "finish" /\ reg'.next = reg.next
         /\ reg'.membership = reg.membership /\ reg'.saved = ck.upto
         /\ reg'.removed = {m \in reg.removed : m > ck.upto}
         /\ reg'.overflow = (IF reg.overflow <= ck.upto THEN 0 ELSE reg.overflow)
         /\ reg'.journal = reg.journal /\ reg'.dir = reg.dir
         /\ ck'.pc = "idle" /\ ck'.ceiling = 0 /\ ck'.upto = 0
         /\ ck'.full = FALSE /\ ck'.gone = FALSE /\ ck'.slot = 0
         /\ ck'.held = FALSE /\ ck'.since = Unknown /\ ck'.replace = FALSE
         /\ ck'.revision = 0 /\ ck'.todo = {} /\ ck'.marks = Clean
         /\ ck'.ages = NoAges /\ ck'.orphans = {} /\ now' = now
         /\ resident' = resident /\ last' = last /\ mark' = mark
         /\ live' = live /\ blockDirty' = blockDirty
         /\ shardDirty' = shardDirty /\ revision' = revision
         /\ savedRevision' = savedRevision /\ reader' = reader
         /\ base' = base /\ log' = log /\ bases' = bases /\ logs' = logs
         /\ saved' = saved /\ fails' = fails /\ crashes' = crashes
  BY IdleFields, IdleType, TaskFields DEF CkFinish, Typed, Tasks, Registries, Journals, memory,
      disk, ghost, NextGen, Finished, Writing, BlockUnlocked

\* What CkFail changes.
LEMMA CkFailEffect ==
  ASSUME Typed, CkFail
  PROVE  /\ ck.pc \in Writing /\ ck'.pc = "drop" /\ ck'.ceiling = ck.ceiling
         /\ ck'.upto = ck.upto /\ ck'.journal = ck.journal
         /\ ck'.full = ck.full /\ ck'.gone = ck.gone /\ ck'.slot = ck.slot
         /\ ck'.held = FALSE /\ ck'.since = ck.since
         /\ ck'.replace = ck.replace /\ ck'.revision = ck.revision
         /\ ck'.todo = ck.todo /\ ck'.page = ck.page /\ ck'.marks = ck.marks
         /\ ck'.ages = ck.ages /\ ck'.orphans = ck.orphans /\ now' = now
         /\ resident' = resident /\ last' = last /\ mark' = mark
         /\ live' = live /\ blockDirty' = blockDirty
         /\ shardDirty' = shardDirty /\ revision' = revision
         /\ savedRevision' = savedRevision /\ reg' = reg /\ reader' = reader
         /\ base' = base /\ log' = log /\ bases' = bases /\ logs' = logs
         /\ saved' = saved /\ crashes' = crashes
  BY IdleFields, IdleType, TaskFields DEF CkFail, Typed, Tasks, Registries, Journals, memory,
      disk, ghost, NextGen, Finished, Writing, BlockUnlocked

\* What CkDropSummary changes.
LEMMA CkDropSummaryEffect ==
  ASSUME Typed, CkDropSummary
  PROVE  /\ ck' = Idle /\ ck.pc = "drop" /\ Dirty(ck.slot, ck.since)
         /\ ck'.pc = "idle" /\ ck'.ceiling = 0 /\ ck'.upto = 0
         /\ ck'.full = FALSE /\ ck'.gone = FALSE /\ ck'.slot = 0
         /\ ck'.held = FALSE /\ ck'.since = Unknown /\ ck'.replace = FALSE
         /\ ck'.revision = 0 /\ ck'.todo = {} /\ ck'.marks = Clean
         /\ ck'.ages = NoAges /\ ck'.orphans = {} /\ now' = now
         /\ resident' = resident /\ last' = last /\ mark' = mark
         /\ live' = live /\ revision' = revision
         /\ savedRevision' = savedRevision /\ reg' = reg /\ reader' = reader
         /\ base' = base /\ log' = log /\ bases' = bases /\ logs' = logs
         /\ saved' = saved /\ fails' = fails /\ crashes' = crashes
  BY IdleFields, IdleType, TaskFields DEF CkDropSummary, Typed, Tasks, Registries, Journals,
      memory, disk, ghost, NextGen, Finished, Writing, BlockUnlocked

\* What Create changes.
LEMMA CreateEffect ==
  ASSUME Typed, Create
  PROVE  /\ live = 0 /\ live' = reg.next + 1 /\ blockDirty' = Unknown
         /\ revision' = 0 /\ savedRevision' = 0 /\ reg'.next = reg.next + 1
         /\ reg'.membership = reg.membership + 1 /\ reg'.saved = reg.saved
         /\ reg'.removed = reg.removed /\ reg'.overflow = reg.overflow
         /\ reg'.dir = reg.dir /\ reg'.journal = reg.journal /\ now' = now
         /\ resident' = resident /\ last' = last /\ mark' = mark
         /\ shardDirty' = shardDirty /\ reader' = reader /\ ck' = ck
         /\ base' = base /\ log' = log /\ bases' = bases /\ logs' = logs
         /\ saved' = saved /\ fails' = fails /\ crashes' = crashes
  BY IdleFields, IdleType, TaskFields DEF Create, Typed, Tasks, Registries, Journals, memory,
      disk, ghost, NextGen, Finished, Writing, BlockUnlocked

\* What Retire changes.
LEMMA RetireEffect ==
  ASSUME Typed, Retire
  PROVE  /\ live # 0 /\ resident = {} /\ ~(ck.held /\ ck.slot = live)
         /\ shardDirty' = [shardDirty EXCEPT ![live] = Unknown] /\ live' = 0
         /\ blockDirty' = Unknown /\ revision' = 0 /\ savedRevision' = 0
         /\ reg'.next = reg.next /\ reg'.membership = reg.membership + 1
         /\ reg'.saved = reg.saved /\ reg'.dir = reg.dir
         /\ reg'.journal = reg.journal
         /\ ((reg.journal.gen = 0 /\ reg'.removed = reg.removed /\ reg'.overflow = reg.overflow)
          \/ (reg'.removed = reg.removed \cup {reg.membership + 1} /\ reg'.overflow = reg.overflow)
          \/ (reg'.removed = reg.removed /\ reg'.overflow = reg.membership + 1))
         /\ now' = now /\ resident' = resident /\ last' = last
         /\ mark' = mark /\ reader' = reader /\ ck' = ck /\ base' = base
         /\ log' = log /\ bases' = bases /\ logs' = logs /\ saved' = saved
         /\ fails' = fails /\ crashes' = crashes
  <1> DEFINE m == reg.membership + 1
  <1>1. reg \in Registries BY DEF Typed
  <1>2. reg' = IF reg.journal.gen = 0 THEN [reg EXCEPT !.membership = m]
               ELSE IF Cardinality(reg.removed) >= MaxTombstones
               THEN [[reg EXCEPT !.membership = m] EXCEPT !.overflow = m]
               ELSE [[reg EXCEPT !.membership = m] EXCEPT !.removed = @ \cup {m}]
    BY DEF Retire, Tombstone
  <1> HIDE DEF m
  <1>3. /\ reg'.next = reg.next /\ reg'.membership = m /\ reg'.saved = reg.saved
        /\ reg'.dir = reg.dir /\ reg'.journal = reg.journal
        /\ \/ (reg.journal.gen = 0 /\ reg'.removed = reg.removed /\ reg'.overflow = reg.overflow)
           \/ (reg'.removed = reg.removed \cup {m} /\ reg'.overflow = reg.overflow)
           \/ (reg'.removed = reg.removed /\ reg'.overflow = m)
    <2>1. CASE reg.journal.gen = 0 BY <2>1, <1>1, <1>2 DEF Registries
    <2>2. CASE reg.journal.gen # 0 /\ Cardinality(reg.removed) >= MaxTombstones
      BY <2>2, <1>1, <1>2 DEF Registries
    <2>3. CASE reg.journal.gen # 0 /\ ~(Cardinality(reg.removed) >= MaxTombstones)
      BY <2>3, <1>1, <1>2 DEF Registries
    <2> QED BY <2>1, <2>2, <2>3
  <1> QED BY <1>3 DEF Retire, disk, ghost, m

\* What Register changes.
LEMMA RegisterEffect ==
  ASSUME Typed, NEW p \in Pages, Register(p)
  PROVE  /\ live # 0 /\ ck.pc \notin {"consume", "sample"}
         /\ resident' = resident \cup {p} /\ last' \in [Pages -> Stamps]
         /\ (\A q \in Pages : q # p => last'[q] = last[q] /\ mark'[q] = mark[q] /\ saved'[q] = saved[q])
         /\ last'[p] # Unknown /\ (p \notin resident => saved'[p] = 0)
         /\ (p \in resident => saved'[p] = saved[p] /\ (last[p] # Unknown => last[p] <= last'[p]))
         /\ revision' = revision + 1 /\ Dirty(live, now)
         /\ reg'.next = reg.next /\ reg'.membership = reg.membership
         /\ reg'.saved = reg.saved /\ reg'.removed = reg.removed
         /\ reg'.overflow = reg.overflow /\ reg'.dir = TRUE
         /\ reg'.journal = reg.journal /\ now' = now /\ live' = live
         /\ savedRevision' = savedRevision /\ reader' = reader /\ ck' = ck
         /\ base' = base /\ log' = log /\ bases' = bases /\ logs' = logs
         /\ fails' = fails /\ crashes' = crashes
  <1>1. /\ last \in [Pages -> Stamps] /\ mark \in [Pages -> Stamps] /\ saved \in Ages
        /\ now \in Times /\ now \in Stamps /\ now # Unknown /\ reg \in Registries
    BY NowStamp, Bounds DEF Typed
  <1>2. last' = IF p \notin resident \/ Newer(now, last[p]) THEN [last EXCEPT ![p] = now] ELSE last
    BY DEF Register
  <1>3. last'[p] # Unknown /\ (last[p] # Unknown /\ p \in resident => last[p] <= last'[p])
    <2>0. last[p] \in Stamps /\ last[p] \in Nat /\ now \in Nat BY <1>1, Bounds
    <2>1. CASE p \notin resident \/ Newer(now, last[p])
      BY <2>0, <2>1, <1>1, <1>2 DEF Newer
    <2>2. CASE ~(p \notin resident \/ Newer(now, last[p]))
      BY <2>0, <2>2, <1>1, <1>2 DEF Newer
    <2> QED BY <2>1, <2>2
  <1>4. \A q \in Pages : q # p => last'[q] = last[q] /\ mark'[q] = mark[q]
    BY <1>1 DEF Register
  <1>5. /\ \A q \in Pages : q # p => saved'[q] = saved[q]
        /\ p \notin resident => saved'[p] = 0
        /\ p \in resident => saved'[p] = saved[p]
    BY <1>1 DEF Register, Ages
  <1>6. /\ reg'.next = reg.next /\ reg'.membership = reg.membership /\ reg'.saved = reg.saved
        /\ reg'.removed = reg.removed /\ reg'.overflow = reg.overflow /\ reg'.dir = TRUE
        /\ reg'.journal = reg.journal
    BY <1>1 DEF Register, Registries
  <1>7. last' \in [Pages -> Stamps] BY <1>1, <1>2
  <1> QED BY <1>3, <1>4, <1>5, <1>6, <1>7 DEF Register, BlockUnlocked, disk

\* What Delete changes.
LEMMA DeleteEffect ==
  ASSUME Typed, NEW p \in Pages, Delete(p)
  PROVE  /\ p \in resident /\ ck.pc \notin {"consume", "sample"}
         /\ (\A r \in Readers : reader[r].pc = "idle" \/ reader[r].page # p)
         /\ resident' = resident \ {p}
         /\ (\A q \in Pages : q # p => last'[q] = last[q] /\ mark'[q] = mark[q] /\ saved'[q] = saved[q])
         /\ last'[p] = Unknown /\ mark'[p] = Unknown /\ saved'[p] = 0
         /\ revision' = revision + 1 /\ Dirty(live, now)
         /\ ck'.orphans = (IF ck.pc = "idle" THEN ck.orphans ELSE ck.orphans \cup {p})
         /\ ck'.pc = ck.pc /\ ck'.ceiling = ck.ceiling /\ ck'.upto = ck.upto
         /\ ck'.journal = ck.journal /\ ck'.full = ck.full
         /\ ck'.gone = ck.gone /\ ck'.slot = ck.slot /\ ck'.held = ck.held
         /\ ck'.since = ck.since /\ ck'.replace = ck.replace
         /\ ck'.revision = ck.revision /\ ck'.todo = ck.todo
         /\ ck'.page = ck.page /\ ck'.marks = ck.marks /\ ck'.ages = ck.ages
         /\ now' = now /\ live' = live /\ savedRevision' = savedRevision
         /\ reg' = reg /\ reader' = reader /\ base' = base /\ log' = log
         /\ bases' = bases /\ logs' = logs /\ fails' = fails
         /\ crashes' = crashes
  <1>1. /\ last \in [Pages -> Stamps] /\ mark \in [Pages -> Stamps] /\ saved \in Ages
    BY DEF Typed
  <1>2. /\ \A q \in Pages : q # p => last'[q] = last[q] /\ mark'[q] = mark[q] /\ saved'[q] = saved[q]
        /\ last'[p] = Unknown /\ mark'[p] = Unknown /\ saved'[p] = 0
    BY <1>1 DEF Delete, Ages
  <1>3. ck' = IF ck.pc = "idle" THEN ck ELSE [ck EXCEPT !.orphans = ck.orphans \cup {p}]
    BY DEF Delete
  <1>4. ck \in Tasks BY DEF Typed
  <1>5. CASE ck.pc = "idle" BY <1>2, <1>3, <1>5 DEF Delete, BlockUnlocked, disk
  <1>6. CASE ck.pc # "idle"
    <2>1. ck' = [ck EXCEPT !.orphans = ck.orphans \cup {p}] BY <1>3, <1>6
    <2> QED BY <1>2, <1>4, <1>6, <2>1 DEF Delete, BlockUnlocked, disk, Tasks
  <1> QED BY <1>5, <1>6

-----------------------------------------------------------------------------
(* What each action changes: readers and rollback                          *)

\* Only reader r moves.
Others(r) == \A q \in Readers : q # r => reader'[q] = reader[q]

\* What ReadDone changes.
LEMMA ReadDoneEffect ==
  ASSUME Typed, NEW r \in Readers, ReadDone(r)
  PROVE  /\ reader[r].pc = "idle" /\ reader'[r].pc = "timed"
         /\ reader'[r].page \in resident /\ reader'[r].at \in Times /\ Others(r)
         /\ now' = now /\ resident' = resident /\ last' = last
         /\ mark' = mark /\ live' = live /\ blockDirty' = blockDirty
         /\ shardDirty' = shardDirty /\ revision' = revision
         /\ savedRevision' = savedRevision /\ reg' = reg /\ ck' = ck
         /\ base' = base /\ log' = log /\ bases' = bases /\ logs' = logs
         /\ saved' = saved /\ fails' = fails /\ crashes' = crashes
  BY DEF ReadDone, Typed, Others, disk, ghost

\* What Stamp changes.
LEMMA StampEffect ==
  ASSUME Typed, Stages, NEW r \in Readers, Stamp(r)
  PROVE  /\ reader[r].pc = "timed" /\ Others(r)
         /\ reader[r].page \in resident /\ reader[r].page \in Pages
         /\ \A q \in Pages : q # reader[r].page => last'[q] = last[q]
         /\ (last[reader[r].page] # Unknown =>
               last'[reader[r].page] # Unknown /\ last[reader[r].page] <= last'[reader[r].page])
         /\ (reader'[r].pc = "stamped" /\ reader'[r].page = reader[r].page
                /\ reader'[r].at = reader[r].at /\ last'[reader[r].page] # Unknown)
            \/ (reader'[r].pc = "idle" /\ last' = last)
         /\ now' = now /\ resident' = resident /\ mark' = mark
         /\ live' = live /\ blockDirty' = blockDirty
         /\ shardDirty' = shardDirty /\ revision' = revision
         /\ savedRevision' = savedRevision /\ reg' = reg /\ ck' = ck
         /\ base' = base /\ log' = log /\ bases' = bases /\ logs' = logs
         /\ saved' = saved /\ fails' = fails /\ crashes' = crashes
  <1> DEFINE p == reader[r].page
             t == reader[r].at
  <1>1. reader[r].pc = "timed" BY DEF Stamp
  <1>2. p \in resident /\ p \in Pages /\ t \in Times /\ t \in Nat /\ t # Unknown
    BY <1>1, Bounds DEF Stages, Slots, Inside, TaskStages, Typed
  <1>3. last \in [Pages -> Stamps] /\ last[p] \in Nat /\ reader \in [Readers -> ReaderStates]
    BY <1>2, Bounds DEF Typed
  <1>4. CASE Newer(t, last[p])
    <2>1. last' = [last EXCEPT ![p] = t] /\ reader' = [reader EXCEPT ![r].pc = "stamped"]
      BY <1>4 DEF Stamp
    <2>2. Others(r) /\ reader'[r].pc = "stamped" /\ reader'[r].page = p /\ reader'[r].at = t
      BY <2>1, <1>3 DEF Others, ReaderStates
    <2>3. \A q \in Pages : q # p => last'[q] = last[q] BY <2>1, <1>3
    <2>4. last'[p] = t BY <2>1, <1>2, <1>3
    <2>5. last[p] # Unknown => last[p] <= t BY <1>2, <1>3, <1>4 DEF Newer
    <2> QED BY <1>1, <1>2, <2>2, <2>3, <2>4, <2>5 DEF Stamp, disk, ghost
  <1>5. CASE ~Newer(t, last[p])
    <2>1. last' = last /\ reader' = [reader EXCEPT ![r] = Resting]
      BY <1>5 DEF Stamp
    <2>2. Others(r) /\ reader'[r].pc = "idle"
      BY <2>1, <1>3, RestingFields DEF Others
    <2> QED BY <1>1, <1>2, <1>3, <2>1, <2>2 DEF Stamp, disk, ghost
  <1> QED BY <1>4, <1>5

\* What Mark changes.
LEMMA MarkEffect ==
  ASSUME Typed, Stages, NEW r \in Readers, Mark(r)
  PROVE  /\ reader[r].pc = "stamped" /\ Others(r)
         /\ reader[r].page \in resident /\ reader[r].page \in Pages
         /\ \A q \in Pages : q # reader[r].page => mark'[q] = mark[q]
         /\ mark'[reader[r].page] # Unknown
         /\ (mark[reader[r].page] = Unknown /\ reader'[r].pc = "notify"
                /\ reader'[r].page = reader[r].page /\ reader'[r].at = reader[r].at)
            \/ (mark[reader[r].page] # Unknown /\ reader'[r].pc = "idle")
         /\ now' = now /\ resident' = resident /\ last' = last
         /\ live' = live /\ blockDirty' = blockDirty
         /\ shardDirty' = shardDirty /\ revision' = revision
         /\ savedRevision' = savedRevision /\ reg' = reg /\ ck' = ck
         /\ base' = base /\ log' = log /\ bases' = bases /\ logs' = logs
         /\ saved' = saved /\ fails' = fails /\ crashes' = crashes
  <1> DEFINE p == reader[r].page
             t == reader[r].at
  <1>1. reader[r].pc = "stamped" BY DEF Mark
  <1>2. p \in resident /\ p \in Pages /\ t \in Times /\ t # Unknown /\ t \in Stamps
    BY <1>1, Bounds DEF Stages, Slots, Inside, TaskStages, Typed, Stamps
  <1>3. mark \in [Pages -> Stamps] /\ mark[p] \in Stamps /\ reader \in [Readers -> ReaderStates]
    BY <1>2 DEF Typed
  <1>4. Earlier(mark[p], t) # Unknown BY <1>2, <1>3, EarlierFact
  <1>5. mark' = [mark EXCEPT ![p] = Earlier(mark[p], t)] BY DEF Mark
  <1>6. mark'[p] # Unknown /\ \A q \in Pages : q # p => mark'[q] = mark[q]
    BY <1>3, <1>4, <1>5, <1>2
  <1>7. CASE mark[p] = Unknown
    <2>1. reader' = [reader EXCEPT ![r].pc = "notify"] BY <1>7 DEF Mark
    <2>2. Others(r) /\ reader'[r].pc = "notify" /\ reader'[r].page = p /\ reader'[r].at = t
      BY <2>1, <1>3 DEF Others, ReaderStates
    <2> QED BY <1>1, <1>2, <1>6, <1>7, <2>2 DEF Mark, disk, ghost
  <1>8. CASE mark[p] # Unknown
    <2>1. reader' = [reader EXCEPT ![r] = Resting] BY <1>8 DEF Mark
    <2>2. Others(r) /\ reader'[r].pc = "idle" BY <2>1, <1>3, RestingFields DEF Others
    <2> QED BY <1>1, <1>2, <1>6, <1>8, <2>2 DEF Mark, disk, ghost
  <1> QED BY <1>7, <1>8

\* What Notify changes.
LEMMA NotifyEffect ==
  ASSUME Typed, Stages, NEW r \in Readers, Notify(r)
  PROVE  /\ reader[r].pc = "notify" /\ Others(r) /\ live # 0
         /\ blockDirty' # Unknown
         /\ (reader'[r].pc = "queue" /\ reader'[r].page = reader[r].page
                /\ reader'[r].at = reader[r].at)
            \/ (reader'[r].pc = "idle" /\ blockDirty # Unknown)
         /\ now' = now /\ resident' = resident /\ last' = last
         /\ mark' = mark /\ live' = live /\ shardDirty' = shardDirty
         /\ revision' = revision /\ savedRevision' = savedRevision
         /\ reg' = reg /\ ck' = ck /\ base' = base /\ log' = log
         /\ bases' = bases /\ logs' = logs /\ saved' = saved
         /\ fails' = fails /\ crashes' = crashes
  <1> DEFINE t == reader[r].at
  <1>1. reader[r].pc = "notify" BY DEF Notify
  <1>2. live # 0 /\ t \in Times /\ t # Unknown /\ t \in Stamps /\ t \in Nat
    BY <1>1, Bounds DEF Stages, Slots, Inside, TaskStages, Typed, Stamps
  <1>3. blockDirty \in Stamps /\ blockDirty \in Nat /\ reader \in [Readers -> ReaderStates]
    BY Bounds DEF Typed
  <1>4. blockDirty' # Unknown BY <1>2, <1>3, EarlierFact DEF Notify
  <1>7. CASE ~(blockDirty <= t)
    <2>1. reader' = [reader EXCEPT ![r].pc = "queue"] BY <1>7 DEF Notify
    <2>2. Others(r) /\ reader'[r].pc = "queue" /\ reader'[r].page = reader[r].page /\ reader'[r].at = t
      BY <2>1, <1>3 DEF Others, ReaderStates
    <2> QED BY <1>1, <1>2, <1>4, <2>2 DEF Notify, disk, ghost
  <1>8. CASE blockDirty <= t
    <2>1. reader' = [reader EXCEPT ![r] = Resting] BY <1>8 DEF Notify
    <2>2. Others(r) /\ reader'[r].pc = "idle" BY <2>1, <1>3, RestingFields DEF Others
    <2>3. blockDirty # Unknown BY <1>8, <1>2, <1>3, Bounds
    <2> QED BY <1>1, <1>2, <1>4, <2>2, <2>3 DEF Notify, disk, ghost
  <1> QED BY <1>7, <1>8

\* What Queue changes.
LEMMA QueueEffect ==
  ASSUME Typed, Stages, NEW r \in Readers, Queue(r)
  PROVE  /\ reader[r].pc = "queue" /\ reader'[r].pc = "idle" /\ Others(r) /\ live # 0
         /\ shardDirty'[live] # Unknown
         /\ \A s \in 1 .. MaxSlots : s # live => shardDirty'[s] = shardDirty[s]
         /\ now' = now /\ resident' = resident /\ last' = last
         /\ mark' = mark /\ live' = live /\ blockDirty' = blockDirty
         /\ revision' = revision /\ savedRevision' = savedRevision
         /\ reg' = reg /\ ck' = ck /\ base' = base /\ log' = log
         /\ bases' = bases /\ logs' = logs /\ saved' = saved
         /\ fails' = fails /\ crashes' = crashes
  <1> DEFINE t == reader[r].at
  <1>1. reader[r].pc = "queue" BY DEF Queue
  <1>2. live # 0 /\ t \in Times /\ t # Unknown /\ t \in Stamps
    BY <1>1, Bounds DEF Stages, Slots, Inside, TaskStages, Typed, Stamps
  <1>3. live \in 1 .. MaxSlots /\ shardDirty \in [1 .. MaxSlots -> Stamps]
        /\ reader \in [Readers -> ReaderStates]
    BY <1>2, Bounds DEF Typed
  <1>4. Earlier(shardDirty[live], t) # Unknown BY <1>2, <1>3, EarlierFact
  <1>5. shardDirty' = [shardDirty EXCEPT ![live] = Earlier(shardDirty[live], t)]
        /\ reader' = [reader EXCEPT ![r] = Resting]
    BY DEF Queue
  <1>6. shardDirty'[live] # Unknown /\ \A s \in 1 .. MaxSlots : s # live => shardDirty'[s] = shardDirty[s]
    BY <1>3, <1>4, <1>5
  <1>7. Others(r) /\ reader'[r].pc = "idle" BY <1>3, <1>5, RestingFields DEF Others
  <1> QED BY <1>1, <1>2, <1>6, <1>7 DEF Queue, disk, ghost

\* What Tick changes.
LEMMA TickEffect ==
  ASSUME Tick
  PROVE  reader' = reader
         /\ resident' = resident /\ last' = last /\ mark' = mark
         /\ live' = live /\ blockDirty' = blockDirty
         /\ shardDirty' = shardDirty /\ revision' = revision
         /\ savedRevision' = savedRevision /\ reg' = reg /\ ck' = ck
         /\ base' = base /\ log' = log /\ bases' = bases /\ logs' = logs
         /\ saved' = saved /\ fails' = fails /\ crashes' = crashes
  BY DEF Tick, disk, ghost

\* BlockWork::dirty queues the live slot or leaves it; a block that was
\* clean is queued.
LEMMA DirtyEffect ==
  ASSUME Typed, Stages, NEW s \in 0 .. MaxSlots, NEW t \in Stamps, Dirty(s, t),
         s = live /\ t # Unknown => live # 0
  PROVE  /\ \A i \in 1 .. MaxSlots : shardDirty'[i] # shardDirty[i] => i = live
         /\ live # 0 /\ shardDirty[live] # Unknown => shardDirty'[live] # Unknown
         /\ (blockDirty' = blockDirty /\ shardDirty' = shardDirty)
            \/ (live # 0 /\ shardDirty'[live] # Unknown)
         /\ s = live /\ t # Unknown => (blockDirty # Unknown \/ shardDirty'[live] # Unknown)
  <1>1. CASE s = live /\ t < blockDirty
    <2>0. t # Unknown BY <1>1, Bounds DEF Typed
    <2>1. s \in 1 .. MaxSlots /\ shardDirty \in [1 .. MaxSlots -> Stamps] BY <1>1, <2>0, Bounds DEF Typed
    <2>2. Earlier(shardDirty[s], t) # Unknown BY <2>0, <2>1, EarlierFact
    <2>3. shardDirty' = [shardDirty EXCEPT ![s] = Earlier(shardDirty[s], t)] BY <1>1 DEF Dirty
    <2> QED BY <1>1, <2>0, <2>1, <2>2, <2>3
  <1>2. CASE ~(s = live /\ t < blockDirty)
    <2>1. blockDirty' = blockDirty /\ shardDirty' = shardDirty BY <1>2 DEF Dirty
    <2>2. s = live /\ t # Unknown => blockDirty # Unknown
      BY <1>2, Bounds DEF Typed
    <2> QED BY <2>1, <2>2
  <1> QED BY <1>1, <1>2

\* What CkConsume changes.
LEMMA CkConsumeEffect ==
  ASSUME Typed, CkConsume
  PROVE  \E p \in ck.todo :
         /\ p \in Pages /\ ck.pc = "consume" /\ ck'.pc = "sample" /\ ck'.page = p
         /\ ck'.todo = ck.todo \ {p} /\ ck'.marks = [ck.marks EXCEPT ![p] = mark[p]]
         /\ mark' = [mark EXCEPT ![p] = Unknown]
         /\ ck'.ceiling = ck.ceiling /\ ck'.upto = ck.upto /\ ck'.journal = ck.journal
         /\ ck'.full = ck.full /\ ck'.gone = ck.gone /\ ck'.slot = ck.slot
         /\ ck'.held = ck.held /\ ck'.since = ck.since /\ ck'.replace = ck.replace
         /\ ck'.revision = ck.revision /\ ck'.ages = ck.ages /\ ck'.orphans = ck.orphans
         /\ reader' = reader
         /\ now' = now /\ resident' = resident /\ last' = last
         /\ live' = live /\ blockDirty' = blockDirty
         /\ shardDirty' = shardDirty /\ revision' = revision
         /\ savedRevision' = savedRevision /\ reg' = reg /\ base' = base
         /\ log' = log /\ bases' = bases /\ logs' = logs /\ saved' = saved
         /\ fails' = fails /\ crashes' = crashes
  <1>1. PICK p \in ck.todo :
          /\ ck' = [ck EXCEPT !.pc = "sample", !.page = p, !.todo = @ \ {p}, !.marks[p] = mark[p]]
          /\ mark' = [mark EXCEPT ![p] = Unknown]
    BY DEF CkConsume
  <1>2. p \in Pages /\ ck \in Tasks BY TaskFields DEF Typed
  <1> QED BY <1>1, <1>2 DEF CkConsume, Tasks, disk, ghost

\* What CkDropPage changes.
LEMMA CkDropPageEffect ==
  ASSUME Typed, CkDropPage
  PROVE  \E p \in Pages :
         /\ ck.pc = "drop" /\ ck.marks[p] # Unknown
         /\ \A q \in Pages : q # p => mark'[q] = mark[q]
         /\ p \in ck.orphans => mark' = mark
         /\ p \notin ck.orphans => mark'[p] # Unknown
         /\ Dirty(ck.slot, ck.marks[p])
         /\ ck'.marks = [ck.marks EXCEPT ![p] = Unknown]
         /\ ck'.pc = ck.pc /\ ck'.page = ck.page /\ ck'.todo = ck.todo
         /\ ck'.ceiling = ck.ceiling /\ ck'.upto = ck.upto /\ ck'.journal = ck.journal
         /\ ck'.full = ck.full /\ ck'.gone = ck.gone /\ ck'.slot = ck.slot
         /\ ck'.held = ck.held /\ ck'.since = ck.since /\ ck'.replace = ck.replace
         /\ ck'.revision = ck.revision /\ ck'.ages = ck.ages /\ ck'.orphans = ck.orphans
         /\ reader' = reader
         /\ now' = now /\ resident' = resident /\ last' = last
         /\ live' = live /\ revision' = revision
         /\ savedRevision' = savedRevision /\ reg' = reg /\ base' = base
         /\ log' = log /\ bases' = bases /\ logs' = logs /\ saved' = saved
         /\ fails' = fails /\ crashes' = crashes
  <1>1. PICK p \in Pages :
        /\ ck.marks[p] # Unknown
        /\ mark' = IF p \in ck.orphans THEN mark
                   ELSE [mark EXCEPT ![p] = Earlier(@, ck.marks[p])]
        /\ Dirty(ck.slot, ck.marks[p])
        /\ ck' = [ck EXCEPT !.marks[p] = Unknown]
    BY DEF CkDropPage
  <1>2. ck \in Tasks /\ mark \in [Pages -> Stamps] /\ ck.marks[p] \in Stamps /\ mark[p] \in Stamps
    BY TaskFields DEF Typed
  <1>3. Earlier(mark[p], ck.marks[p]) # Unknown BY <1>1, <1>2, EarlierFact
  <1>4. /\ \A q \in Pages : q # p => mark'[q] = mark[q]
        /\ p \in ck.orphans => mark' = mark
        /\ p \notin ck.orphans => mark'[p] # Unknown
    BY <1>1, <1>2, <1>3
  <1>5. /\ ck'.marks = [ck.marks EXCEPT ![p] = Unknown]
        /\ ck'.pc = ck.pc /\ ck'.page = ck.page /\ ck'.todo = ck.todo
        /\ ck'.ceiling = ck.ceiling /\ ck'.upto = ck.upto /\ ck'.journal = ck.journal
        /\ ck'.full = ck.full /\ ck'.gone = ck.gone /\ ck'.slot = ck.slot
        /\ ck'.held = ck.held /\ ck'.since = ck.since /\ ck'.replace = ck.replace
        /\ ck'.revision = ck.revision /\ ck'.ages = ck.ages /\ ck'.orphans = ck.orphans
    BY <1>1, <1>2 DEF Tasks
  <1> QED BY <1>1, <1>4, <1>5 DEF CkDropPage, disk, ghost

-----------------------------------------------------------------------------
(* Stages: who holds what                                                  *)

\* An idle task is at a stage.
LEMMA IdleStages ==
  ASSUME ck' = Idle
  PROVE  TaskStages'
  BY IdleFields DEF TaskStages, Holding, Sampled, Writing

\* CkStart keeps Stages.
LEMMA Stages_CkStart ==
  ASSUME Typed, Typed', Stages, CkStart
  PROVE  Stages'
  <1>1. Slots' BY CkStartEffect, Numbers DEF Stages, Slots
  <1>2. Inside' BY CkStartEffect, TaskFields DEF Stages, Inside, Others
  <1>3. TaskStages'
    <2>1. /\ ck'.pc = "journal" /\ ck'.slot = 0 /\ ck'.held = FALSE /\ ck'.ages = NoAges
          /\ ck'.since = Unknown /\ ck'.marks = Clean /\ ck'.ceiling = reg.next
      BY CkStartEffect
    <2>2. 0 <= reg.next BY TaskFields, Bounds
    <2> QED BY <2>1, <2>2 DEF TaskStages, Holding, Sampled, Writing
  <1> QED BY <1>1, <1>2, <1>3 DEF Stages

\* CkJournal keeps Stages.
LEMMA Stages_CkJournal ==
  ASSUME Typed, Typed', Stages, CkJournal
  PROVE  Stages'
  <1>1. Slots' BY CkJournalEffect, Numbers DEF Stages, Slots
  <1>2. Inside' BY CkJournalEffect, TaskFields DEF Stages, Inside, Others
  <1>3. TaskStages' BY CkJournalEffect, TaskFields, Bounds
      DEF Stages, TaskStages, Slots, Holding, Sampled, Writing
  <1> QED BY <1>1, <1>2, <1>3 DEF Stages

\* CkPick keeps Stages.
LEMMA Stages_CkPick ==
  ASSUME Typed, Typed', Stages, CkPick
  PROVE  Stages'
  <1>1. Slots' BY CkPickEffect, TaskFields, Bounds DEF Stages, Slots
  <1>2. Inside' BY CkPickEffect, TaskFields DEF Stages, Inside, Others
  <1>3. TaskStages'
    <2>0. /\ ck.pc = "pick" /\ ck.slot = 0 /\ ~ck.held /\ ck.ages = NoAges
          /\ ck.since = Unknown /\ ck.marks = Clean /\ ck.slot <= ck.ceiling
      BY CkPickEffect DEF Stages, TaskStages
    <2>1. /\ ck'.ages = ck.ages /\ ck'.since = ck.since /\ ck'.marks = ck.marks
          /\ ck'.ceiling = ck.ceiling /\ live' = live
      BY CkPickEffect
    <2>2. CASE Eligible /\ ck'.pc = "summary" /\ ck'.slot = live /\ ck'.held = TRUE
      BY <2>0, <2>1, <2>2 DEF TaskStages, Holding, Sampled, Writing, Eligible
    <2>3. CASE ck'.pc = "encode" /\ ck'.slot = ck.slot /\ ck'.held = ck.held
      BY <2>0, <2>1, <2>3 DEF TaskStages, Holding, Sampled, Writing
    <2> QED BY <2>2, <2>3, CkPickEffect
  <1> QED BY <1>1, <1>2, <1>3 DEF Stages

\* CkSummary keeps Stages.
LEMMA Stages_CkSummary ==
  ASSUME Typed, Typed', Stages, CkSummary
  PROVE  Stages'
  <1>1. Slots' BY CkSummaryEffect, TaskFields, Bounds DEF Stages, Slots
  <1>2. Inside' BY CkSummaryEffect, TaskFields DEF Stages, Inside, Others
  <1>3. TaskStages' BY CkSummaryEffect, TaskFields, Bounds
      DEF Stages, TaskStages, Slots, Holding, Sampled, Writing
  <1> QED BY <1>1, <1>2, <1>3 DEF Stages

\* CkSample keeps Stages.
LEMMA Stages_CkSample ==
  ASSUME Typed, Typed', Stages, CkSample
  PROVE  Stages'
  <1>1. Slots' BY CkSampleEffect, TaskFields, Bounds DEF Stages, Slots
  <1>2. Inside' BY CkSampleEffect, TaskFields DEF Stages, Inside, Others
  <1>3. TaskStages' BY CkSampleEffect, TaskFields, Bounds
      DEF Stages, TaskStages, Slots, Holding, Sampled, Writing
  <1> QED BY <1>1, <1>2, <1>3 DEF Stages

\* CkSampled keeps Stages.
LEMMA Stages_CkSampled ==
  ASSUME Typed, Typed', Stages, CkSampled
  PROVE  Stages'
  <1>1. Slots' BY CkSampledEffect, TaskFields, Bounds DEF Stages, Slots
  <1>2. Inside' BY CkSampledEffect, TaskFields DEF Stages, Inside, Others
  <1>3. TaskStages' BY CkSampledEffect, TaskFields, Bounds
      DEF Stages, TaskStages, Slots, Holding, Sampled, Writing
  <1> QED BY <1>1, <1>2, <1>3 DEF Stages

\* CkTooLarge keeps Stages.
LEMMA Stages_CkTooLarge ==
  ASSUME Typed, Typed', Stages, CkTooLarge
  PROVE  Stages'
  <1>1. Slots'
    <2>1. Dirty(ck.slot, ck.since) BY CkTooLargeEffect
    <2>2. ck.slot \in 0 .. MaxSlots /\ ck.since \in Stamps BY TaskFields, NowStamp DEF Typed
    <2>3. ck.slot = live /\ ck.since # Unknown => live # 0 BY CkTooLargeEffect
        DEF Stages, Slots, TaskStages, Clean
    <2>4. \A i \in 1 .. MaxSlots : shardDirty'[i] # shardDirty[i] => i = live
      BY <2>1, <2>2, <2>3, DirtyEffect
    <2>5. live' = live /\ reg' = reg /\ resident' = resident /\ ck'.ceiling = 0 BY CkTooLargeEffect
    <2>6. reg.next \in Nat BY TaskFields, Bounds
    <2>7. Slots BY DEF Stages
    <2> QED BY <2>4, <2>5, <2>6, <2>7 DEF Slots
  <1>2. Inside' BY CkTooLargeEffect, TaskFields DEF Stages, Inside, Others
  <1>3. TaskStages'
    <2>1. ck' = Idle BY CkTooLargeEffect
    <2> QED BY <2>1, IdleStages
  <1> QED BY <1>1, <1>2, <1>3 DEF Stages

\* CkNoDirectory keeps Stages.
LEMMA Stages_CkNoDirectory ==
  ASSUME Typed, Typed', Stages, CkNoDirectory
  PROVE  Stages'
  <1>1. Slots' BY CkNoDirectoryEffect, Numbers DEF Stages, Slots
  <1>2. Inside' BY CkNoDirectoryEffect, TaskFields DEF Stages, Inside, Others
  <1>3. TaskStages'
    <2>1. ck' = Idle BY CkNoDirectoryEffect
    <2> QED BY <2>1, IdleStages
  <1> QED BY <1>1, <1>2, <1>3 DEF Stages

\* CkEncode keeps Stages.
LEMMA Stages_CkEncode ==
  ASSUME Typed, Typed', Stages, CkEncode
  PROVE  Stages'
  <1>1. Slots' BY CkEncodeEffect, TaskFields, Bounds DEF Stages, Slots
  <1>2. Inside' BY CkEncodeEffect, TaskFields DEF Stages, Inside, Others
  <1>3. TaskStages' BY CkEncodeEffect, TaskFields, Bounds
      DEF Stages, TaskStages, Slots, Holding, Sampled, Writing
  <1> QED BY <1>1, <1>2, <1>3 DEF Stages

\* CkBase keeps Stages.
LEMMA Stages_CkBase ==
  ASSUME Typed, Typed', Stages, CkBase
  PROVE  Stages'
  <1>1. Slots' BY CkBaseEffect, TaskFields, Bounds DEF Stages, Slots
  <1>2. Inside' BY CkBaseEffect, TaskFields DEF Stages, Inside, Others
  <1>3. TaskStages' BY CkBaseEffect, TaskFields, Bounds
      DEF Stages, TaskStages, Slots, Holding, Sampled, Writing
  <1> QED BY <1>1, <1>2, <1>3 DEF Stages

\* CkBaseSync keeps Stages.
LEMMA Stages_CkBaseSync ==
  ASSUME Typed, Typed', Stages, CkBaseSync
  PROVE  Stages'
  <1>1. Slots' BY CkBaseSyncEffect, TaskFields, Bounds DEF Stages, Slots
  <1>2. Inside' BY CkBaseSyncEffect, TaskFields DEF Stages, Inside, Others
  <1>3. TaskStages' BY CkBaseSyncEffect, TaskFields, Bounds
      DEF Stages, TaskStages, Slots, Holding, Sampled, Writing
  <1> QED BY <1>1, <1>2, <1>3 DEF Stages

\* CkLog keeps Stages.
LEMMA Stages_CkLog ==
  ASSUME Typed, Typed', Stages, CkLog
  PROVE  Stages'
  <1>1. Slots' BY CkLogEffect, TaskFields, Bounds DEF Stages, Slots
  <1>2. Inside' BY CkLogEffect, TaskFields DEF Stages, Inside, Others
  <1>3. TaskStages' BY CkLogEffect, TaskFields, Bounds
      DEF Stages, TaskStages, Slots, Holding, Sampled, Writing
  <1> QED BY <1>1, <1>2, <1>3 DEF Stages

\* CkLogSync keeps Stages.
LEMMA Stages_CkLogSync ==
  ASSUME Typed, Typed', Stages, CkLogSync
  PROVE  Stages'
  <1>1. Slots' BY CkLogSyncEffect, TaskFields, Bounds DEF Stages, Slots
  <1>2. Inside' BY CkLogSyncEffect, TaskFields DEF Stages, Inside, Others
  <1>3. TaskStages' BY CkLogSyncEffect, TaskFields, Bounds
      DEF Stages, TaskStages, Slots, Holding, Sampled, Writing
  <1> QED BY <1>1, <1>2, <1>3 DEF Stages

\* CkAppend keeps Stages.
LEMMA Stages_CkAppend ==
  ASSUME Typed, Typed', Stages, CkAppend
  PROVE  Stages'
  <1>1. Slots' BY CkAppendEffect, TaskFields, Bounds DEF Stages, Slots
  <1>2. Inside' BY CkAppendEffect, TaskFields DEF Stages, Inside, Others
  <1>3. TaskStages' BY CkAppendEffect, TaskFields, Bounds
      DEF Stages, TaskStages, Slots, Holding, Sampled, Writing
  <1> QED BY <1>1, <1>2, <1>3 DEF Stages

\* CkAppendSync keeps Stages.
LEMMA Stages_CkAppendSync ==
  ASSUME Typed, Typed', Stages, CkAppendSync
  PROVE  Stages'
  <1>1. Slots' BY CkAppendSyncEffect, TaskFields, Bounds DEF Stages, Slots
  <1>2. Inside' BY CkAppendSyncEffect, TaskFields DEF Stages, Inside, Others
  <1>3. TaskStages' BY CkAppendSyncEffect, TaskFields, Bounds
      DEF Stages, TaskStages, Slots, Holding, Sampled, Writing
  <1> QED BY <1>1, <1>2, <1>3 DEF Stages

\* CkSetJournal keeps Stages.
LEMMA Stages_CkSetJournal ==
  ASSUME Typed, Typed', Stages, CkSetJournal
  PROVE  Stages'
  <1>1. Slots' BY CkSetJournalEffect, TaskFields, Bounds DEF Stages, Slots
  <1>2. Inside' BY CkSetJournalEffect, TaskFields DEF Stages, Inside, Others
  <1>3. TaskStages' BY CkSetJournalEffect, TaskFields, Bounds
      DEF Stages, TaskStages, Slots, Holding, Sampled, Writing
  <1> QED BY <1>1, <1>2, <1>3 DEF Stages

\* CkRevise keeps Stages.
LEMMA Stages_CkRevise ==
  ASSUME Typed, Typed', Stages, CkRevise
  PROVE  Stages'
  <1>1. Slots' BY CkReviseEffect, TaskFields, Bounds DEF Stages, Slots
  <1>2. Inside' BY CkReviseEffect, TaskFields DEF Stages, Inside, Others
  <1>3. TaskStages' BY CkReviseEffect, TaskFields, Bounds
      DEF Stages, TaskStages, Slots, Holding, Sampled, Writing
  <1> QED BY <1>1, <1>2, <1>3 DEF Stages

\* CkFinish keeps Stages.
LEMMA Stages_CkFinish ==
  ASSUME Typed, Typed', Stages, CkFinish
  PROVE  Stages'
  <1>1. Slots' BY CkFinishEffect, Numbers DEF Stages, Slots
  <1>2. Inside' BY CkFinishEffect, TaskFields DEF Stages, Inside, Others
  <1>3. TaskStages'
    <2>1. ck' = Idle BY CkFinishEffect
    <2> QED BY <2>1, IdleStages
  <1> QED BY <1>1, <1>2, <1>3 DEF Stages

\* CkFail keeps Stages.
LEMMA Stages_CkFail ==
  ASSUME Typed, Typed', Stages, CkFail
  PROVE  Stages'
  <1>1. Slots' BY CkFailEffect, TaskFields, Bounds DEF Stages, Slots
  <1>2. Inside' BY CkFailEffect, TaskFields DEF Stages, Inside, Others
  <1>3. TaskStages' BY CkFailEffect, TaskFields, Bounds
      DEF Stages, TaskStages, Slots, Holding, Sampled, Writing
  <1> QED BY <1>1, <1>2, <1>3 DEF Stages

\* CkDropSummary keeps Stages.
LEMMA Stages_CkDropSummary ==
  ASSUME Typed, Typed', Stages, CkDropSummary
  PROVE  Stages'
  <1>1. Slots'
    <2>1. Dirty(ck.slot, ck.since) BY CkDropSummaryEffect
    <2>2. ck.slot \in 0 .. MaxSlots /\ ck.since \in Stamps BY TaskFields, NowStamp DEF Typed
    <2>3. ck.slot = live /\ ck.since # Unknown => live # 0 BY CkDropSummaryEffect
        DEF Stages, Slots, TaskStages, Clean
    <2>4. \A i \in 1 .. MaxSlots : shardDirty'[i] # shardDirty[i] => i = live
      BY <2>1, <2>2, <2>3, DirtyEffect
    <2>5. live' = live /\ reg' = reg /\ resident' = resident /\ ck'.ceiling = 0 BY CkDropSummaryEffect
    <2>6. reg.next \in Nat BY TaskFields, Bounds
    <2>7. Slots BY DEF Stages
    <2> QED BY <2>4, <2>5, <2>6, <2>7 DEF Slots
  <1>2. Inside' BY CkDropSummaryEffect, TaskFields DEF Stages, Inside, Others
  <1>3. TaskStages'
    <2>1. ck' = Idle BY CkDropSummaryEffect
    <2> QED BY <2>1, IdleStages
  <1> QED BY <1>1, <1>2, <1>3 DEF Stages

\* CkConsume keeps Stages.
LEMMA Stages_CkConsume ==
  ASSUME Typed, Typed', Stages, CkConsume
  PROVE  Stages'
  <1>0. PICK p \in ck.todo :
         /\ p \in Pages /\ ck.pc = "consume" /\ ck'.pc = "sample" /\ ck'.page = p
         /\ ck'.todo = ck.todo \ {p} /\ ck'.marks = [ck.marks EXCEPT ![p] = mark[p]]
         /\ mark' = [mark EXCEPT ![p] = Unknown]
         /\ ck'.ceiling = ck.ceiling /\ ck'.upto = ck.upto /\ ck'.journal = ck.journal
         /\ ck'.full = ck.full /\ ck'.gone = ck.gone /\ ck'.slot = ck.slot
         /\ ck'.held = ck.held /\ ck'.since = ck.since /\ ck'.replace = ck.replace
         /\ ck'.revision = ck.revision /\ ck'.ages = ck.ages /\ ck'.orphans = ck.orphans
         /\ reader' = reader
         /\ now' = now /\ resident' = resident /\ last' = last
         /\ live' = live /\ blockDirty' = blockDirty
         /\ shardDirty' = shardDirty /\ revision' = revision
         /\ savedRevision' = savedRevision /\ reg' = reg /\ base' = base
         /\ log' = log /\ bases' = bases /\ logs' = logs /\ saved' = saved
         /\ fails' = fails /\ crashes' = crashes
    BY CkConsumeEffect
  <1>1. Slots' BY <1>0, TaskFields, Bounds DEF Stages, Slots
  <1>2. Inside' BY <1>0 DEF Stages, Inside
  <1>3. TaskStages' BY <1>0, TaskFields, Bounds DEF Stages, TaskStages, Slots, Holding, Sampled, Writing
  <1> QED BY <1>1, <1>2, <1>3 DEF Stages

\* CkDropPage keeps Stages.
LEMMA Stages_CkDropPage ==
  ASSUME Typed, Typed', Stages, CkDropPage
  PROVE  Stages'
  <1>0. PICK p \in Pages :
         /\ ck.pc = "drop" /\ ck.marks[p] # Unknown
         /\ \A q \in Pages : q # p => mark'[q] = mark[q]
         /\ p \in ck.orphans => mark' = mark
         /\ p \notin ck.orphans => mark'[p] # Unknown
         /\ Dirty(ck.slot, ck.marks[p])
         /\ ck'.marks = [ck.marks EXCEPT ![p] = Unknown]
         /\ ck'.pc = ck.pc /\ ck'.page = ck.page /\ ck'.todo = ck.todo
         /\ ck'.ceiling = ck.ceiling /\ ck'.upto = ck.upto /\ ck'.journal = ck.journal
         /\ ck'.full = ck.full /\ ck'.gone = ck.gone /\ ck'.slot = ck.slot
         /\ ck'.held = ck.held /\ ck'.since = ck.since /\ ck'.replace = ck.replace
         /\ ck'.revision = ck.revision /\ ck'.ages = ck.ages /\ ck'.orphans = ck.orphans
         /\ reader' = reader
         /\ now' = now /\ resident' = resident /\ last' = last
         /\ live' = live /\ revision' = revision
         /\ savedRevision' = savedRevision /\ reg' = reg /\ base' = base
         /\ log' = log /\ bases' = bases /\ logs' = logs /\ saved' = saved
         /\ fails' = fails /\ crashes' = crashes
    BY CkDropPageEffect
  <1>a. ck.slot # 0 BY <1>0 DEF Stages, TaskStages, Clean
  <1>b. \A i \in 1 .. MaxSlots : shardDirty'[i] # shardDirty[i] => i = live
    BY <1>0, <1>a, TaskFields, DirtyEffect
  <1>1. Slots' BY <1>0, <1>b, TaskFields, Bounds DEF Stages, Slots
  <1>2. Inside' BY <1>0 DEF Stages, Inside
  <1>3. TaskStages' BY <1>0, <1>a, TaskFields, Bounds
      DEF Stages, TaskStages, Slots, Holding, Sampled, Writing
  <1> QED BY <1>1, <1>2, <1>3 DEF Stages

\* Create keeps Stages.
LEMMA Stages_Create ==
  ASSUME Typed, Typed', Stages, Create
  PROVE  Stages'
  <1>1. Slots'
    <2>1. /\ live = 0 /\ live' = reg.next + 1 /\ reg'.next = reg.next + 1 /\ ck' = ck
          /\ shardDirty' = shardDirty /\ resident' = resident
      BY CreateEffect
    <2>2. reg.next \in Nat /\ ck.ceiling \in Nat BY Numbers
    <2>3. \A s \in 1 .. MaxSlots : shardDirty[s] = Unknown BY <2>1, Bounds DEF Stages, Slots
    <2>4. resident = {} /\ ck.ceiling <= reg.next BY <2>1 DEF Stages, Slots
    <2> QED BY <2>1, <2>2, <2>3, <2>4 DEF Slots
  <1>2. Inside' BY CreateEffect, TaskFields DEF Stages, Inside, Others
  <1>3. TaskStages' BY CreateEffect, TaskFields, Bounds
      DEF Stages, TaskStages, Slots, Holding, Sampled, Writing
  <1> QED BY <1>1, <1>2, <1>3 DEF Stages

\* Retire keeps Stages.
LEMMA Stages_Retire ==
  ASSUME Typed, Typed', Stages, Retire
  PROVE  Stages'
  <1>1. Slots'
    <2>1. /\ live # 0 /\ live' = 0 /\ reg'.next = reg.next /\ ck' = ck /\ resident = {}
          /\ shardDirty' = [shardDirty EXCEPT ![live] = Unknown] /\ resident' = resident
      BY RetireEffect
    <2>2. reg.next \in Nat /\ shardDirty \in [1 .. MaxSlots -> Stamps] BY TaskFields, Bounds
    <2>3. \A s \in 1 .. MaxSlots : shardDirty'[s] = Unknown BY <2>1, <2>2 DEF Stages, Slots
    <2>4. ck.ceiling <= reg.next BY DEF Stages, Slots
    <2> QED BY <2>1, <2>2, <2>3, <2>4 DEF Slots
  <1>2. Inside' BY RetireEffect, TaskFields DEF Stages, Inside, Others
  <1>3. TaskStages' BY RetireEffect, TaskFields, Bounds
      DEF Stages, TaskStages, Slots, Holding, Sampled, Writing
  <1> QED BY <1>1, <1>2, <1>3 DEF Stages

\* Tick keeps Stages.
LEMMA Stages_Tick ==
  ASSUME Typed, Typed', Stages, Tick
  PROVE  Stages'
  <1>1. Slots' BY TickEffect, TaskFields, Bounds DEF Stages, Slots
  <1>2. Inside' BY TickEffect, TaskFields DEF Stages, Inside, Others
  <1>3. TaskStages'
    <2>1. ck' = ck /\ live' = live /\ resident' = resident BY TickEffect
    <2> QED BY <2>1 DEF Stages, TaskStages
  <1> QED BY <1>1, <1>2, <1>3 DEF Stages

\* ReadDone keeps Stages.
LEMMA Stages_ReadDone ==
  ASSUME Typed, Typed', Stages, NEW r \in Readers, ReadDone(r)
  PROVE  Stages'
  <1>1. Slots' BY ReadDoneEffect, TaskFields, Bounds DEF Stages, Slots
  <1>2. Inside' BY ReadDoneEffect, TaskFields DEF Stages, Inside, Others
  <1>3. TaskStages'
    <2>1. ck' = ck /\ live' = live /\ resident' = resident BY ReadDoneEffect
    <2> QED BY <2>1 DEF Stages, TaskStages
  <1> QED BY <1>1, <1>2, <1>3 DEF Stages

\* Stamp keeps Stages.
LEMMA Stages_Stamp ==
  ASSUME Typed, Typed', Stages, NEW r \in Readers, Stamp(r)
  PROVE  Stages'
  <1>1. Slots' BY StampEffect, TaskFields, Bounds DEF Stages, Slots
  <1>2. Inside' BY StampEffect, TaskFields DEF Stages, Inside, Others
  <1>3. TaskStages'
    <2>1. ck' = ck /\ live' = live /\ resident' = resident BY StampEffect
    <2> QED BY <2>1 DEF Stages, TaskStages
  <1> QED BY <1>1, <1>2, <1>3 DEF Stages

\* Mark keeps Stages.
LEMMA Stages_Mark ==
  ASSUME Typed, Typed', Stages, NEW r \in Readers, Mark(r)
  PROVE  Stages'
  <1>1. Slots' BY MarkEffect, TaskFields, Bounds DEF Stages, Slots
  <1>2. Inside' BY MarkEffect, TaskFields DEF Stages, Inside, Others
  <1>3. TaskStages'
    <2>1. ck' = ck /\ live' = live /\ resident' = resident BY MarkEffect
    <2> QED BY <2>1 DEF Stages, TaskStages
  <1> QED BY <1>1, <1>2, <1>3 DEF Stages

\* Notify keeps Stages.
LEMMA Stages_Notify ==
  ASSUME Typed, Typed', Stages, NEW r \in Readers, Notify(r)
  PROVE  Stages'
  <1>1. Slots' BY NotifyEffect, TaskFields, Bounds DEF Stages, Slots
  <1>2. Inside' BY NotifyEffect, TaskFields DEF Stages, Inside, Others
  <1>3. TaskStages'
    <2>1. ck' = ck /\ live' = live /\ resident' = resident BY NotifyEffect
    <2> QED BY <2>1 DEF Stages, TaskStages
  <1> QED BY <1>1, <1>2, <1>3 DEF Stages

\* Queue keeps Stages.
LEMMA Stages_Queue ==
  ASSUME Typed, Typed', Stages, NEW r \in Readers, Queue(r)
  PROVE  Stages'
  <1>1. Slots' BY QueueEffect, TaskFields, Bounds DEF Stages, Slots
  <1>2. Inside' BY QueueEffect, TaskFields DEF Stages, Inside, Others
  <1>3. TaskStages'
    <2>1. ck' = ck /\ live' = live /\ resident' = resident BY QueueEffect
    <2> QED BY <2>1 DEF Stages, TaskStages
  <1> QED BY <1>1, <1>2, <1>3 DEF Stages

\* Register keeps Stages.
LEMMA Stages_Register ==
  ASSUME Typed, Typed', Stages, NEW p \in Pages, Register(p)
  PROVE  Stages'
  <1>1. Slots'
    <2>1. Dirty(live, now) BY RegisterEffect
    <2>2. live \in 0 .. MaxSlots /\ now \in Stamps BY TaskFields, NowStamp DEF Typed
    <2>3. live = live /\ now # Unknown => live # 0 BY RegisterEffect DEF Stages, Slots, TaskStages, Clean
    <2>4. \A i \in 1 .. MaxSlots : shardDirty'[i] # shardDirty[i] => i = live
      BY <2>1, <2>2, <2>3, DirtyEffect
    <2> QED BY <2>4, RegisterEffect, TaskFields, Bounds DEF Stages, Slots
  <1>2. Inside' BY RegisterEffect, TaskFields DEF Stages, Inside, Others
  <1>3. TaskStages' BY RegisterEffect, TaskFields, Bounds
      DEF Stages, TaskStages, Slots, Holding, Sampled, Writing
  <1> QED BY <1>1, <1>2, <1>3 DEF Stages

\* Delete keeps Stages.
LEMMA Stages_Delete ==
  ASSUME Typed, Typed', Stages, NEW p \in Pages, Delete(p)
  PROVE  Stages'
  <1>1. Slots'
    <2>1. Dirty(live, now) BY DeleteEffect
    <2>2. live \in 0 .. MaxSlots /\ now \in Stamps BY TaskFields, NowStamp DEF Typed
    <2>3. live = live /\ now # Unknown => live # 0 BY DeleteEffect DEF Stages, Slots, TaskStages, Clean
    <2>4. \A i \in 1 .. MaxSlots : shardDirty'[i] # shardDirty[i] => i = live
      BY <2>1, <2>2, <2>3, DirtyEffect
    <2> QED BY <2>4, DeleteEffect, TaskFields, Bounds DEF Stages, Slots
  <1>2. Inside'
    <2>1. /\ reader' = reader /\ resident' = resident \ {p}
          /\ \A r \in Readers : reader[r].pc = "idle" \/ reader[r].page # p
      BY DeleteEffect
    <2> QED BY <2>1 DEF Stages, Inside
  <1>3. TaskStages' BY DeleteEffect, TaskFields, Bounds
      DEF Stages, TaskStages, Slots, Holding, Sampled, Writing
  <1> QED BY <1>1, <1>2, <1>3 DEF Stages

\* Restart keeps Stages.
LEMMA Stages_Restart ==
  ASSUME Typed, Typed', Stages, Restart
  PROVE  Stages'
  <1>1. PICK b \in bases, l \in logs, found \in SUBSET resident :
           /\ b \in File /\ l \in Log /\ Recovered(b, l) \in Ages
           /\ base' = b /\ bases' = {b} /\ log' = l /\ logs' = {l}
           /\ resident' = found
           /\ last' = [p \in Pages |-> IF p \in found /\ Recovered(b, l)[p] # 0
                                       THEN Recovered(b, l)[p] ELSE Unknown]
           /\ live' = IF found = {} THEN 0 ELSE 1
           /\ reg' \in Registries
           /\ reg'.next = live' /\ reg'.saved = 0 /\ reg'.removed = {} /\ reg'.overflow = 0
           /\ reg'.membership = live' + (IF b.gen = 0 THEN 0 ELSE 1)
           /\ reg'.journal.gen = b.gen /\ reg'.journal.full = TRUE /\ reg'.dir = reg.dir
           /\ saved' = [p \in Pages |-> IF p \in found THEN saved[p] ELSE 0]
    BY RestartFacts
  <1>2. /\ ck' = Idle /\ mark' = Clean /\ blockDirty' = Unknown /\ revision' = 0 /\ savedRevision' = 0
        /\ shardDirty' = [s \in 1 .. MaxSlots |-> Unknown] /\ reader' = [r \in Readers |-> Resting]
    BY DEF Restart
  <1>3. Slots' BY <1>1, <1>2, IdleFields DEF Slots
  <1>4. Inside' BY <1>2, RestingFields DEF Inside
  <1>5. TaskStages' BY <1>2, IdleFields DEF TaskStages, Holding, Sampled, Writing
  <1> QED BY <1>3, <1>4, <1>5 DEF Stages

\* Every step keeps Stages.
LEMMA StagesStep ==
  ASSUME Typed, Typed', Stages, [Next]_vars
  PROVE  Stages'
  <1>1. CASE UNCHANGED vars BY <1>1 DEF vars, memory, disk, ghost, Others, Stages, Slots,
      Inside, TaskStages, Holding, Sampled, Writing
  <1>2. CASE Tick BY <1>2, Stages_Tick
  <1>3. ASSUME NEW r \in Readers, ReadDone(r) \/ Touch(r) PROVE Stages'
    BY <1>3, Stages_ReadDone, Stages_Stamp, Stages_Mark, Stages_Notify, Stages_Queue DEF Touch
  <1>4. ASSUME NEW p \in Pages, Register(p) \/ Delete(p) PROVE Stages'
    BY <1>4, Stages_Register, Stages_Delete
  <1>5. CASE Create \/ Retire \/ CkTooLarge \/ CkFail \/ Restart
    BY <1>5, Stages_Create, Stages_Retire, Stages_CkTooLarge, Stages_CkFail, Stages_Restart
  <1>6. CASE Checkpoint
    BY <1>6, Stages_CkStart, Stages_CkJournal, Stages_CkPick, Stages_CkSummary, Stages_CkSample,
        Stages_CkSampled, Stages_CkNoDirectory, Stages_CkEncode, Stages_CkBase,
        Stages_CkBaseSync, Stages_CkLog, Stages_CkLogSync, Stages_CkAppend, Stages_CkAppendSync,
        Stages_CkSetJournal, Stages_CkRevise, Stages_CkFinish, Stages_CkDropSummary,
        Stages_CkConsume, Stages_CkDropPage DEF Checkpoint
  <1> QED BY <1>1, <1>2, <1>3, <1>4, <1>5, <1>6 DEF Next

-----------------------------------------------------------------------------
(* Files: generations, and what each write leaves                          *)

\* A step that touches neither the files nor what says what is in them
\* keeps Files.
LEMMA FilesFrame ==
  ASSUME Files,
         bases' = bases /\ logs' = logs /\ base' = base /\ log' = log
         /\ reg'.journal = reg.journal /\ ck'.pc = ck.pc /\ ck'.full = ck.full
         /\ ck'.journal = ck.journal /\ ck'.ages = ck.ages /\ ck'.gone = ck.gone
         /\ ck'.slot = ck.slot /\ ck'.replace = ck.replace
         /\ (~reg'.dir => ~reg.dir) /\ (reg.dir => reg'.dir) /\ (resident = {} /\ ~reg'.dir => resident' = {})
  PROVE  Files'
  <1>1. Generations' BY DEF Files, Generations
  <1>2. Retry' BY DEF Files, Retry, Single
  <1>3. DeltaFrames' = DeltaFrames BY DEF DeltaFrames
  <1>4. Writes' BY <1>3 DEF Files, Writes, Single, Unwritten
  <1> QED BY <1>1, <1>2, <1>4 DEF Files

\* The files, one by one.
LEMMA FileFields ==
  ASSUME Typed
  PROVE  /\ \A b \in bases : b \in File /\ b.gen \in Nat /\ b.ages \in Ages
         /\ \A l \in logs : l \in Log /\ l.gen \in Nat /\ l.frames \in Seq(Frame)
         /\ base \in bases /\ log \in logs
  BY LogType DEF Typed, File

\* CkStart keeps Files.
LEMMA Files_CkStart ==
  ASSUME Typed, Typed', Stages, Files, CkStart
  PROVE  Files'
  <1>1. /\ bases' = bases /\ logs' = logs /\ base' = base /\ log' = log
        /\ reg'.journal = reg.journal /\ reg'.dir = reg.dir /\ resident' = resident
    BY CkStartEffect
  <1>2. Generations' BY <1>1 DEF Files, Generations
  <1>3. Retry' BY <1>1, CkStartEffect DEF Files, Retry, Single, Writing
  <1>4. Writes' BY <1>1, CkStartEffect, DeltaCases DEF Files, Writes, Single, Unwritten, Retry, Writing
  <1> QED BY <1>2, <1>3, <1>4 DEF Files

\* CkJournal keeps Files.
LEMMA Files_CkJournal ==
  ASSUME Typed, Typed', Stages, Files, CkJournal
  PROVE  Files'
  <1>1. Generations' BY CkJournalEffect, FileFields, Numbers
      DEF Files, Generations, Retry, Writes, Single, Writing, Unwritten
  <1>2. Retry' BY CkJournalEffect, FileFields, TaskFields
      DEF Files, Retry, Writes, Single, Writing, Unwritten
  <1>3. Writes' BY CkJournalEffect, FileFields, TaskFields
      DEF Files, Retry, Writes, Single, Writing, Unwritten
  <1> QED BY <1>1, <1>2, <1>3 DEF Files

\* CkPick keeps Files.
LEMMA Files_CkPick ==
  ASSUME Typed, Typed', Stages, Files, CkPick
  PROVE  Files'
  <1>1. /\ bases' = bases /\ logs' = logs /\ base' = base /\ log' = log
        /\ reg'.journal = reg.journal /\ reg'.dir = reg.dir /\ resident' = resident
    BY CkPickEffect
  <1>2. Generations' BY <1>1 DEF Files, Generations
  <1>3. Retry' BY <1>1, CkPickEffect DEF Files, Retry, Single, Writing
  <1>4. Writes' BY <1>1, CkPickEffect, DeltaCases DEF Files, Writes, Single, Unwritten, Retry, Writing
  <1> QED BY <1>2, <1>3, <1>4 DEF Files

\* CkSummary keeps Files.
LEMMA Files_CkSummary ==
  ASSUME Typed, Typed', Stages, Files, CkSummary
  PROVE  Files'
  <1>1. /\ bases' = bases /\ logs' = logs /\ base' = base /\ log' = log
        /\ reg'.journal = reg.journal /\ reg'.dir = reg.dir /\ resident' = resident
    BY CkSummaryEffect
  <1>2. Generations' BY <1>1 DEF Files, Generations
  <1>3. Retry' BY <1>1, CkSummaryEffect DEF Files, Retry, Single, Writing
  <1>4. Writes' BY <1>1, CkSummaryEffect, DeltaCases DEF Files, Writes, Single, Unwritten, Retry, Writing
  <1> QED BY <1>2, <1>3, <1>4 DEF Files

\* CkSample keeps Files.
LEMMA Files_CkSample ==
  ASSUME Typed, Typed', Stages, Files, CkSample
  PROVE  Files'
  <1>1. /\ bases' = bases /\ logs' = logs /\ base' = base /\ log' = log
        /\ reg'.journal = reg.journal /\ reg'.dir = reg.dir /\ resident' = resident
    BY CkSampleEffect
  <1>2. Generations' BY <1>1 DEF Files, Generations
  <1>3. Retry' BY <1>1, CkSampleEffect DEF Files, Retry, Single, Writing
  <1>4. Writes' BY <1>1, CkSampleEffect, DeltaCases DEF Files, Writes, Single, Unwritten, Retry, Writing
  <1> QED BY <1>2, <1>3, <1>4 DEF Files

\* CkSampled keeps Files.
LEMMA Files_CkSampled ==
  ASSUME Typed, Typed', Stages, Files, CkSampled
  PROVE  Files'
  <1>1. /\ bases' = bases /\ logs' = logs /\ base' = base /\ log' = log
        /\ reg'.journal = reg.journal /\ reg'.dir = reg.dir /\ resident' = resident
    BY CkSampledEffect
  <1>2. Generations' BY <1>1 DEF Files, Generations
  <1>3. Retry' BY <1>1, CkSampledEffect DEF Files, Retry, Single, Writing
  <1>4. Writes' BY <1>1, CkSampledEffect, DeltaCases DEF Files, Writes, Single, Unwritten, Retry, Writing
  <1> QED BY <1>2, <1>3, <1>4 DEF Files

\* CkTooLarge keeps Files.
LEMMA Files_CkTooLarge ==
  ASSUME Typed, Typed', Stages, Files, CkTooLarge
  PROVE  Files'
  <1>1. /\ bases' = bases /\ logs' = logs /\ base' = base /\ log' = log
        /\ reg'.journal = reg.journal /\ reg'.dir = reg.dir /\ resident' = resident
    BY CkTooLargeEffect
  <1>2. Generations' BY <1>1 DEF Files, Generations
  <1>3. Retry' BY <1>1, CkTooLargeEffect DEF Files, Retry, Single, Writing
  <1>4. Writes' BY <1>1, CkTooLargeEffect, DeltaCases
      DEF Files, Writes, Single, Unwritten, Retry, Writing
  <1> QED BY <1>2, <1>3, <1>4 DEF Files

\* CkNoDirectory keeps Files.
LEMMA Files_CkNoDirectory ==
  ASSUME Typed, Typed', Stages, Files, CkNoDirectory
  PROVE  Files'
  <1>1. /\ bases' = bases /\ logs' = logs /\ base' = base /\ log' = log
        /\ reg'.journal = reg.journal /\ reg'.dir = reg.dir /\ resident' = resident
    BY CkNoDirectoryEffect
  <1>2. Generations' BY <1>1 DEF Files, Generations
  <1>3. Retry' BY <1>1, CkNoDirectoryEffect DEF Files, Retry, Single, Writing
  <1>4. Writes' BY <1>1, CkNoDirectoryEffect, DeltaCases
      DEF Files, Writes, Single, Unwritten, Retry, Writing
  <1> QED BY <1>2, <1>3, <1>4 DEF Files

\* CkEncode keeps Files.
LEMMA Files_CkEncode ==
  ASSUME Typed, Typed', Stages, Files, CkEncode
  PROVE  Files'
  <1>1. /\ bases' = bases /\ logs' = logs /\ base' = base /\ log' = log
        /\ reg'.journal = reg.journal /\ reg'.dir = reg.dir /\ resident' = resident
    BY CkEncodeEffect
  <1>2. Generations' BY <1>1 DEF Files, Generations
  <1>3. Retry' BY <1>1, CkEncodeEffect DEF Files, Retry, Single, Writing
  <1>4. Writes' BY <1>1, CkEncodeEffect, DeltaCases DEF Files, Writes, Single, Unwritten, Retry, Writing
  <1> QED BY <1>2, <1>3, <1>4 DEF Files

\* CkBase keeps Files.
LEMMA Files_CkBase ==
  ASSUME Typed, Typed', Stages, Files, CkBase
  PROVE  Files'
  <1>1. Generations'
    <2>1. /\ ck.pc = "base" /\ base'.gen = ck.journal.gen + 1 /\ bases' = bases \cup {base'}
          /\ logs' = logs /\ reg' = reg
      BY CkBaseEffect
    <2>2. ck.journal.gen = reg.journal.gen /\ reg.journal.gen \in Nat
      BY <2>1, TaskFields DEF Files, Retry, Writing
    <2>3. \A l \in logs : l.gen <= reg.journal.gen + 1
      BY FileFields, <2>2 DEF Files, Generations
    <2> QED BY <2>1, <2>2, <2>3 DEF Files, Generations
  <1>2. Retry' BY CkBaseEffect, FileFields, TaskFields
      DEF Files, Retry, Writes, Single, Writing, Unwritten
  <1>3. Writes' BY CkBaseEffect, FileFields, TaskFields
      DEF Files, Retry, Writes, Single, Writing, Unwritten
  <1> QED BY <1>1, <1>2, <1>3 DEF Files

\* CkBaseSync keeps Files.
LEMMA Files_CkBaseSync ==
  ASSUME Typed, Typed', Stages, Files, CkBaseSync
  PROVE  Files'
  <1>1. Generations' BY CkBaseSyncEffect, FileFields, TaskFields
      DEF Files, Generations, Retry, Writes, Single, Writing, Unwritten
  <1>2. Retry' BY CkBaseSyncEffect, FileFields, TaskFields
      DEF Files, Retry, Writes, Single, Writing, Unwritten
  <1>3. Writes' BY CkBaseSyncEffect, FileFields, TaskFields
      DEF Files, Retry, Writes, Single, Writing, Unwritten
  <1> QED BY <1>1, <1>2, <1>3 DEF Files

\* CkLog keeps Files.
LEMMA Files_CkLog ==
  ASSUME Typed, Typed', Stages, Files, CkLog
  PROVE  Files'
  <1>1. Generations'
    <2>1. /\ bases' = bases /\ bases = {base} /\ reg' = reg /\ logs' = logs \cup {log'}
          /\ log'.gen = base.gen /\ log'.frames = <<>>
      BY CkLogEffect DEF Files, Writes
    <2>2. Generations BY DEF Files
    <2>3. base.gen \in Nat BY FileFields
    <2> QED BY <2>1, <2>2, <2>3 DEF Generations
  <1>2. Retry' BY CkLogEffect, FileFields, TaskFields
      DEF Files, Retry, Writes, Single, Writing, Unwritten
  <1>3. Writes' BY CkLogEffect, FileFields, TaskFields
      DEF Files, Retry, Writes, Single, Writing, Unwritten
  <1> QED BY <1>1, <1>2, <1>3 DEF Files

\* CkLogSync keeps Files.
LEMMA Files_CkLogSync ==
  ASSUME Typed, Typed', Stages, Files, CkLogSync
  PROVE  Files'
  <1>1. Generations' BY CkLogSyncEffect, FileFields, TaskFields
      DEF Files, Generations, Retry, Writes, Single, Writing, Unwritten
  <1>2. Retry' BY CkLogSyncEffect, FileFields, TaskFields
      DEF Files, Retry, Writes, Single, Writing, Unwritten
  <1>3. Writes'
    <2>1. /\ ck.pc = "logSync" /\ logs' = {log} /\ ck'.journal.gen = ck.journal.gen + 1
          /\ ck'.journal.full = FALSE /\ ck'.journal.size = 0 /\ ck'.pc = "written"
          /\ bases' = bases /\ base' = base /\ log' = log
      BY CkLogSyncEffect
    <2>2. /\ bases = {base} /\ base.gen = ck.journal.gen + 1
          /\ log.gen = ck.journal.gen + 1 /\ log.frames = <<>> /\ ck.journal.gen \in Nat
      BY <2>1, TaskFields DEF Files, Writes
    <2>3. Len(log.frames) = 0 BY <2>2
    <2>4. Single(ck.journal)' BY <2>1, <2>2, <2>3 DEF Single
    <2> QED BY <2>1, <2>4 DEF Writes, Unwritten
  <1> QED BY <1>1, <1>2, <1>3 DEF Files

\* CkAppend keeps Files.
LEMMA Files_CkAppend ==
  ASSUME Typed, Typed', Stages, Files, CkAppend
  PROVE  Files'
  <1>1. /\ bases = {base} /\ logs = {log}
        /\ base.gen = log.gen /\ base.gen # 0 /\ base.gen = ck.journal.gen
        /\ ~ck.full /\ ~ck.journal.full
        /\ Len(log.frames) = ck.journal.size
        /\ log' \in logs' /\ \A l \in logs' : l.gen = log.gen
        /\ Len(log'.frames) = Len(log.frames) + Len(DeltaFrames)
    BY AppendFiles
  <1>2. /\ ck.pc = "append" /\ ck'.pc = "appendSync" /\ ck'.journal = ck.journal
        /\ bases' = bases /\ base' = base /\ reg' = reg /\ resident' = resident
        /\ ck'.full = ck.full /\ ck'.ages = ck.ages /\ ck'.gone = ck.gone
        /\ ck'.slot = ck.slot /\ ck'.replace = ck.replace
    BY CkAppendEffect
  <1>3. ck.journal.gen = reg.journal.gen /\ reg.journal.gen \in Nat /\ base.gen \in Nat
    BY <1>2, FileFields, TaskFields DEF Files, Retry, Writing
  <1>4. Generations' BY <1>1, <1>2, <1>3 DEF Files, Generations
  <1>5. Retry' BY <1>2 DEF Files, Retry, Writing
  <1>6. DeltaFrames' = DeltaFrames BY <1>2 DEF DeltaFrames
  <1>7. log'.gen = log.gen BY <1>1
  <1>8. Writes' BY <1>1, <1>2, <1>6, <1>7 DEF Writes, Unwritten
  <1> QED BY <1>4, <1>5, <1>8 DEF Files

\* CkAppendSync keeps Files.
LEMMA Files_CkAppendSync ==
  ASSUME Typed, Typed', Stages, Files, CkAppendSync
  PROVE  Files'
  <1>1. Generations' BY CkAppendSyncEffect, FileFields, TaskFields
      DEF Files, Generations, Retry, Writes, Single, Writing, Unwritten
  <1>2. Retry' BY CkAppendSyncEffect, FileFields, TaskFields
      DEF Files, Retry, Writes, Single, Writing, Unwritten
  <1>3. Writes' BY CkAppendSyncEffect, FileFields, TaskFields
      DEF Files, Retry, Writes, Single, Writing, Unwritten
  <1> QED BY <1>1, <1>2, <1>3 DEF Files

\* CkSetJournal keeps Files.
LEMMA Files_CkSetJournal ==
  ASSUME Typed, Typed', Stages, Files, CkSetJournal
  PROVE  Files'
  <1>1. Generations'
    <2>1. Single(ck.journal) BY CkSetJournalEffect DEF Files, Writes
    <2>2. bases' = {base} /\ logs' = {log} /\ reg'.journal.gen = base.gen /\ log.gen = base.gen
      BY <2>1, CkSetJournalEffect DEF Single
    <2>3. base.gen = 0 => base.ages = NoAges BY FileFields DEF Files, Generations
    <2>4. base.gen \in Nat /\ base.gen # base.gen + 1 BY FileFields
    <2> QED BY <2>2, <2>3, <2>4 DEF Generations
  <1>2. Retry' BY CkSetJournalEffect, FileFields, TaskFields
      DEF Files, Retry, Writes, Single, Writing, Unwritten
  <1>3. Writes' BY CkSetJournalEffect, FileFields, TaskFields
      DEF Files, Retry, Writes, Single, Writing, Unwritten
  <1> QED BY <1>1, <1>2, <1>3 DEF Files

\* CkRevise keeps Files.
LEMMA Files_CkRevise ==
  ASSUME Typed, Typed', Stages, Files, CkRevise
  PROVE  Files'
  <1>1. /\ bases' = bases /\ logs' = logs /\ base' = base /\ log' = log
        /\ reg'.journal = reg.journal /\ reg'.dir = reg.dir /\ resident' = resident
    BY CkReviseEffect
  <1>2. Generations' BY <1>1 DEF Files, Generations
  <1>3. Retry' BY <1>1, CkReviseEffect DEF Files, Retry, Single, Writing
  <1>4. Writes' BY <1>1, CkReviseEffect, DeltaCases DEF Files, Writes, Single, Unwritten, Retry, Writing
  <1> QED BY <1>2, <1>3, <1>4 DEF Files

\* CkFinish keeps Files.
LEMMA Files_CkFinish ==
  ASSUME Typed, Typed', Stages, Files, CkFinish
  PROVE  Files'
  <1>1. /\ bases' = bases /\ logs' = logs /\ base' = base /\ log' = log
        /\ reg'.journal = reg.journal /\ reg'.dir = reg.dir /\ resident' = resident
    BY CkFinishEffect
  <1>2. Generations' BY <1>1 DEF Files, Generations
  <1>3. Retry' BY <1>1, CkFinishEffect DEF Files, Retry, Single, Writing
  <1>4. Writes' BY <1>1, CkFinishEffect, DeltaCases DEF Files, Writes, Single, Unwritten, Retry, Writing
  <1> QED BY <1>2, <1>3, <1>4 DEF Files

\* CkFail keeps Files.
LEMMA Files_CkFail ==
  ASSUME Typed, Typed', Stages, Files, CkFail
  PROVE  Files'
  <1>1. /\ bases' = bases /\ logs' = logs /\ base' = base /\ log' = log
        /\ reg'.journal = reg.journal /\ reg'.dir = reg.dir /\ resident' = resident
    BY CkFailEffect
  <1>2. Generations' BY <1>1 DEF Files, Generations
  <1>3. Retry' BY <1>1, CkFailEffect DEF Files, Retry, Single, Writing
  <1>4. Writes' BY <1>1, CkFailEffect, DeltaCases DEF Files, Writes, Single, Unwritten, Retry, Writing
  <1> QED BY <1>2, <1>3, <1>4 DEF Files

\* CkDropSummary keeps Files.
LEMMA Files_CkDropSummary ==
  ASSUME Typed, Typed', Stages, Files, CkDropSummary
  PROVE  Files'
  <1>1. /\ bases' = bases /\ logs' = logs /\ base' = base /\ log' = log
        /\ reg'.journal = reg.journal /\ reg'.dir = reg.dir /\ resident' = resident
    BY CkDropSummaryEffect
  <1>2. Generations' BY <1>1 DEF Files, Generations
  <1>3. Retry' BY <1>1, CkDropSummaryEffect DEF Files, Retry, Single, Writing
  <1>4. Writes' BY <1>1, CkDropSummaryEffect, DeltaCases
      DEF Files, Writes, Single, Unwritten, Retry, Writing
  <1> QED BY <1>2, <1>3, <1>4 DEF Files

\* CkConsume keeps Files.
LEMMA Files_CkConsume ==
  ASSUME Typed, Typed', Stages, Files, CkConsume
  PROVE  Files'
  <1>0. PICK p \in ck.todo :
         /\ p \in Pages /\ ck.pc = "consume" /\ ck'.pc = "sample" /\ ck'.page = p
         /\ ck'.todo = ck.todo \ {p} /\ ck'.marks = [ck.marks EXCEPT ![p] = mark[p]]
         /\ mark' = [mark EXCEPT ![p] = Unknown]
         /\ ck'.ceiling = ck.ceiling /\ ck'.upto = ck.upto /\ ck'.journal = ck.journal
         /\ ck'.full = ck.full /\ ck'.gone = ck.gone /\ ck'.slot = ck.slot
         /\ ck'.held = ck.held /\ ck'.since = ck.since /\ ck'.replace = ck.replace
         /\ ck'.revision = ck.revision /\ ck'.ages = ck.ages /\ ck'.orphans = ck.orphans
         /\ reader' = reader
         /\ now' = now /\ resident' = resident /\ last' = last
         /\ live' = live /\ blockDirty' = blockDirty
         /\ shardDirty' = shardDirty /\ revision' = revision
         /\ savedRevision' = savedRevision /\ reg' = reg /\ base' = base
         /\ log' = log /\ bases' = bases /\ logs' = logs /\ saved' = saved
         /\ fails' = fails /\ crashes' = crashes
    BY CkConsumeEffect
  <1>1. /\ bases' = bases /\ logs' = logs /\ base' = base /\ log' = log
        /\ reg'.journal = reg.journal /\ reg'.dir = reg.dir /\ resident' = resident
    BY <1>0
  <1>2. Generations' BY <1>1 DEF Files, Generations
  <1>3. Retry' BY <1>1, <1>0 DEF Files, Retry, Single, Writing
  <1>4. Writes' BY <1>1, <1>0, DeltaCases DEF Files, Writes, Single, Unwritten, Retry, Writing
  <1> QED BY <1>2, <1>3, <1>4 DEF Files

\* CkDropPage keeps Files.
LEMMA Files_CkDropPage ==
  ASSUME Typed, Typed', Stages, Files, CkDropPage
  PROVE  Files'
  <1>0. PICK p \in Pages :
         /\ ck.pc = "drop" /\ ck.marks[p] # Unknown
         /\ \A q \in Pages : q # p => mark'[q] = mark[q]
         /\ p \in ck.orphans => mark' = mark
         /\ p \notin ck.orphans => mark'[p] # Unknown
         /\ Dirty(ck.slot, ck.marks[p])
         /\ ck'.marks = [ck.marks EXCEPT ![p] = Unknown]
         /\ ck'.pc = ck.pc /\ ck'.page = ck.page /\ ck'.todo = ck.todo
         /\ ck'.ceiling = ck.ceiling /\ ck'.upto = ck.upto /\ ck'.journal = ck.journal
         /\ ck'.full = ck.full /\ ck'.gone = ck.gone /\ ck'.slot = ck.slot
         /\ ck'.held = ck.held /\ ck'.since = ck.since /\ ck'.replace = ck.replace
         /\ ck'.revision = ck.revision /\ ck'.ages = ck.ages /\ ck'.orphans = ck.orphans
         /\ reader' = reader
         /\ now' = now /\ resident' = resident /\ last' = last
         /\ live' = live /\ revision' = revision
         /\ savedRevision' = savedRevision /\ reg' = reg /\ base' = base
         /\ log' = log /\ bases' = bases /\ logs' = logs /\ saved' = saved
         /\ fails' = fails /\ crashes' = crashes
    BY CkDropPageEffect
  <1>1. /\ bases' = bases /\ logs' = logs /\ base' = base /\ log' = log
        /\ reg'.journal = reg.journal /\ ck'.pc = ck.pc /\ ck'.full = ck.full
        /\ ck'.journal = ck.journal /\ ck'.ages = ck.ages /\ ck'.gone = ck.gone
        /\ ck'.slot = ck.slot /\ ck'.replace = ck.replace
        /\ (~reg'.dir => ~reg.dir) /\ (reg.dir => reg'.dir) /\ (resident = {} /\ ~reg'.dir => resident' = {})
    BY <1>0
  <1> QED BY <1>1, FilesFrame

\* Create keeps Files.
LEMMA Files_Create ==
  ASSUME Typed, Typed', Stages, Files, Create
  PROVE  Files'
  <1>1. /\ bases' = bases /\ logs' = logs /\ base' = base /\ log' = log
        /\ reg'.journal = reg.journal /\ ck'.pc = ck.pc /\ ck'.full = ck.full
        /\ ck'.journal = ck.journal /\ ck'.ages = ck.ages /\ ck'.gone = ck.gone
        /\ ck'.slot = ck.slot /\ ck'.replace = ck.replace
        /\ (~reg'.dir => ~reg.dir) /\ (reg.dir => reg'.dir) /\ (resident = {} /\ ~reg'.dir => resident' = {})
    BY CreateEffect
  <1> QED BY <1>1, FilesFrame

\* Retire keeps Files.
LEMMA Files_Retire ==
  ASSUME Typed, Typed', Stages, Files, Retire
  PROVE  Files'
  <1>1. /\ bases' = bases /\ logs' = logs /\ base' = base /\ log' = log
        /\ reg'.journal = reg.journal /\ ck'.pc = ck.pc /\ ck'.full = ck.full
        /\ ck'.journal = ck.journal /\ ck'.ages = ck.ages /\ ck'.gone = ck.gone
        /\ ck'.slot = ck.slot /\ ck'.replace = ck.replace
        /\ (~reg'.dir => ~reg.dir) /\ (reg.dir => reg'.dir) /\ (resident = {} /\ ~reg'.dir => resident' = {})
    BY RetireEffect
  <1> QED BY <1>1, FilesFrame

\* Tick keeps Files.
LEMMA Files_Tick ==
  ASSUME Typed, Typed', Stages, Files, Tick
  PROVE  Files'
  <1>1. /\ bases' = bases /\ logs' = logs /\ base' = base /\ log' = log
        /\ reg'.journal = reg.journal /\ ck'.pc = ck.pc /\ ck'.full = ck.full
        /\ ck'.journal = ck.journal /\ ck'.ages = ck.ages /\ ck'.gone = ck.gone
        /\ ck'.slot = ck.slot /\ ck'.replace = ck.replace
        /\ (~reg'.dir => ~reg.dir) /\ (reg.dir => reg'.dir) /\ (resident = {} /\ ~reg'.dir => resident' = {})
    BY TickEffect
  <1> QED BY <1>1, FilesFrame

\* ReadDone keeps Files.
LEMMA Files_ReadDone ==
  ASSUME Typed, Typed', Stages, Files, NEW r \in Readers, ReadDone(r)
  PROVE  Files'
  <1>1. /\ bases' = bases /\ logs' = logs /\ base' = base /\ log' = log
        /\ reg'.journal = reg.journal /\ ck'.pc = ck.pc /\ ck'.full = ck.full
        /\ ck'.journal = ck.journal /\ ck'.ages = ck.ages /\ ck'.gone = ck.gone
        /\ ck'.slot = ck.slot /\ ck'.replace = ck.replace
        /\ (~reg'.dir => ~reg.dir) /\ (reg.dir => reg'.dir) /\ (resident = {} /\ ~reg'.dir => resident' = {})
    BY ReadDoneEffect
  <1> QED BY <1>1, FilesFrame

\* Stamp keeps Files.
LEMMA Files_Stamp ==
  ASSUME Typed, Typed', Stages, Files, NEW r \in Readers, Stamp(r)
  PROVE  Files'
  <1>1. /\ bases' = bases /\ logs' = logs /\ base' = base /\ log' = log
        /\ reg'.journal = reg.journal /\ ck'.pc = ck.pc /\ ck'.full = ck.full
        /\ ck'.journal = ck.journal /\ ck'.ages = ck.ages /\ ck'.gone = ck.gone
        /\ ck'.slot = ck.slot /\ ck'.replace = ck.replace
        /\ (~reg'.dir => ~reg.dir) /\ (reg.dir => reg'.dir) /\ (resident = {} /\ ~reg'.dir => resident' = {})
    BY StampEffect
  <1> QED BY <1>1, FilesFrame

\* Mark keeps Files.
LEMMA Files_Mark ==
  ASSUME Typed, Typed', Stages, Files, NEW r \in Readers, Mark(r)
  PROVE  Files'
  <1>1. /\ bases' = bases /\ logs' = logs /\ base' = base /\ log' = log
        /\ reg'.journal = reg.journal /\ ck'.pc = ck.pc /\ ck'.full = ck.full
        /\ ck'.journal = ck.journal /\ ck'.ages = ck.ages /\ ck'.gone = ck.gone
        /\ ck'.slot = ck.slot /\ ck'.replace = ck.replace
        /\ (~reg'.dir => ~reg.dir) /\ (reg.dir => reg'.dir) /\ (resident = {} /\ ~reg'.dir => resident' = {})
    BY MarkEffect
  <1> QED BY <1>1, FilesFrame

\* Notify keeps Files.
LEMMA Files_Notify ==
  ASSUME Typed, Typed', Stages, Files, NEW r \in Readers, Notify(r)
  PROVE  Files'
  <1>1. /\ bases' = bases /\ logs' = logs /\ base' = base /\ log' = log
        /\ reg'.journal = reg.journal /\ ck'.pc = ck.pc /\ ck'.full = ck.full
        /\ ck'.journal = ck.journal /\ ck'.ages = ck.ages /\ ck'.gone = ck.gone
        /\ ck'.slot = ck.slot /\ ck'.replace = ck.replace
        /\ (~reg'.dir => ~reg.dir) /\ (reg.dir => reg'.dir) /\ (resident = {} /\ ~reg'.dir => resident' = {})
    BY NotifyEffect
  <1> QED BY <1>1, FilesFrame

\* Queue keeps Files.
LEMMA Files_Queue ==
  ASSUME Typed, Typed', Stages, Files, NEW r \in Readers, Queue(r)
  PROVE  Files'
  <1>1. /\ bases' = bases /\ logs' = logs /\ base' = base /\ log' = log
        /\ reg'.journal = reg.journal /\ ck'.pc = ck.pc /\ ck'.full = ck.full
        /\ ck'.journal = ck.journal /\ ck'.ages = ck.ages /\ ck'.gone = ck.gone
        /\ ck'.slot = ck.slot /\ ck'.replace = ck.replace
        /\ (~reg'.dir => ~reg.dir) /\ (reg.dir => reg'.dir) /\ (resident = {} /\ ~reg'.dir => resident' = {})
    BY QueueEffect
  <1> QED BY <1>1, FilesFrame

\* Register keeps Files.
LEMMA Files_Register ==
  ASSUME Typed, Typed', Stages, Files, NEW p \in Pages, Register(p)
  PROVE  Files'
  <1>1. /\ bases' = bases /\ logs' = logs /\ base' = base /\ log' = log
        /\ reg'.journal = reg.journal /\ ck'.pc = ck.pc /\ ck'.full = ck.full
        /\ ck'.journal = ck.journal /\ ck'.ages = ck.ages /\ ck'.gone = ck.gone
        /\ ck'.slot = ck.slot /\ ck'.replace = ck.replace
        /\ (~reg'.dir => ~reg.dir) /\ (reg.dir => reg'.dir) /\ (resident = {} /\ ~reg'.dir => resident' = {})
    BY RegisterEffect
  <1> QED BY <1>1, FilesFrame

\* Delete keeps Files.
LEMMA Files_Delete ==
  ASSUME Typed, Typed', Stages, Files, NEW p \in Pages, Delete(p)
  PROVE  Files'
  <1>1. /\ bases' = bases /\ logs' = logs /\ base' = base /\ log' = log
        /\ reg'.journal = reg.journal /\ ck'.pc = ck.pc /\ ck'.full = ck.full
        /\ ck'.journal = ck.journal /\ ck'.ages = ck.ages /\ ck'.gone = ck.gone
        /\ ck'.slot = ck.slot /\ ck'.replace = ck.replace
        /\ (~reg'.dir => ~reg.dir) /\ (reg.dir => reg'.dir) /\ (resident = {} /\ ~reg'.dir => resident' = {})
    BY DeleteEffect
  <1> QED BY <1>1, FilesFrame

\* Restart keeps Files.
LEMMA Files_Restart ==
  ASSUME Typed, Typed', Stages, Files, Restart
  PROVE  Files'
  <1>1. PICK b \in bases, l \in logs, found \in SUBSET resident :
           /\ b \in File /\ l \in Log /\ Recovered(b, l) \in Ages
           /\ base' = b /\ bases' = {b} /\ log' = l /\ logs' = {l}
           /\ resident' = found
           /\ last' = [p \in Pages |-> IF p \in found /\ Recovered(b, l)[p] # 0
                                       THEN Recovered(b, l)[p] ELSE Unknown]
           /\ live' = IF found = {} THEN 0 ELSE 1
           /\ reg' \in Registries
           /\ reg'.next = live' /\ reg'.saved = 0 /\ reg'.removed = {} /\ reg'.overflow = 0
           /\ reg'.membership = live' + (IF b.gen = 0 THEN 0 ELSE 1)
           /\ reg'.journal.gen = b.gen /\ reg'.journal.full = TRUE /\ reg'.dir = reg.dir
           /\ saved' = [p \in Pages |-> IF p \in found THEN saved[p] ELSE 0]
    BY RestartFacts
  <1>2. /\ ck' = Idle /\ mark' = Clean /\ blockDirty' = Unknown /\ revision' = 0 /\ savedRevision' = 0
        /\ shardDirty' = [s \in 1 .. MaxSlots |-> Unknown] /\ reader' = [r \in Readers |-> Resting]
    BY DEF Restart
  <1>3. Generations'
    <2>1. l.gen <= b.gen /\ b.gen \in Nat /\ l.gen \in Nat /\ (b.gen = 0 => b.ages = NoAges)
      BY FileFields DEF Files, Generations
    <2> QED BY <1>1, <2>1 DEF Generations
  <1>4. Retry'
    <2>1. ~reg.dir => b = NoFile /\ found = {} BY DEF Files, Retry
    <2>2. ck'.pc = "idle" BY <1>2, IdleFields
    <2> QED BY <1>1, <2>1, <2>2 DEF Retry, Writing
  <1>5. Writes'
    <2>2. ck'.pc = "idle" BY <1>2, IdleFields
    <2> QED BY <2>2 DEF Writes, Unwritten
  <1> QED BY <1>3, <1>4, <1>5 DEF Files

\* Every step keeps Files.
LEMMA FilesStep ==
  ASSUME Typed, Typed', Stages, Files, [Next]_vars
  PROVE  Files'
  <1>1. CASE UNCHANGED vars BY <1>1 DEF vars, memory, disk, ghost, Files, Generations, Retry,
      Writes, Single, Unwritten, Writing, DeltaFrames
  <1>2. CASE Tick BY <1>2, Files_Tick
  <1>3. ASSUME NEW r \in Readers, ReadDone(r) \/ Touch(r) PROVE Files'
    BY <1>3, Files_ReadDone, Files_Stamp, Files_Mark, Files_Notify, Files_Queue DEF Touch
  <1>4. ASSUME NEW p \in Pages, Register(p) \/ Delete(p) PROVE Files'
    BY <1>4, Files_Register, Files_Delete
  <1>5. CASE Create \/ Retire \/ CkTooLarge \/ CkFail \/ Restart
    BY <1>5, Files_Create, Files_Retire, Files_CkTooLarge, Files_CkFail, Files_Restart
  <1>6. CASE Checkpoint
    BY <1>6, Files_CkStart, Files_CkJournal, Files_CkPick, Files_CkSummary, Files_CkSample,
        Files_CkSampled, Files_CkNoDirectory, Files_CkEncode, Files_CkBase, Files_CkBaseSync,
        Files_CkLog, Files_CkLogSync, Files_CkAppend, Files_CkAppendSync, Files_CkSetJournal,
        Files_CkRevise, Files_CkFinish, Files_CkDropSummary, Files_CkConsume, Files_CkDropPage
        DEF Checkpoint
  <1> QED BY <1>1, <1>2, <1>3, <1>4, <1>5, <1>6 DEF Next

-----------------------------------------------------------------------------
(* Outcome: a flush leaves its target                                      *)

\* Two frames one after the other.
LEMMA Pair ==
  ASSUME NEW t \in Frame, NEW f \in Frame
  PROVE  <<t>> \o <<f>> = <<t, f>>
  <1> DEFINE u == <<t>> \o <<f>>
  <1>0. <<t>> \in Seq(Frame) /\ <<f>> \in Seq(Frame) OBVIOUS
  <1>1. u \in Seq(Frame) /\ Len(u) = 2 /\ u[1] = t /\ u[2] = f
    <2>1. Len(<<t>>) = 1 /\ Len(<<f>>) = 1 /\ <<t>>[1] = t /\ <<f>>[1] = f OBVIOUS
    <2> QED BY <1>0, <2>1, ConcatProperties
  <1>2. <<t, f>> \in Seq(Frame) /\ Len(<<t, f>>) = 2 /\ <<t, f>>[1] = t /\ <<t, f>>[2] = f
    OBVIOUS
  <1> HIDE DEF u
  <1>3. \A i \in 1 .. Len(u) : u[i] = <<t, f>>[i] BY <1>1, <1>2
  <1>4. u = <<t, f>> BY <1>1, <1>2, <1>3, SeqEqual
  <1> QED BY <1>4 DEF u

\* What load() makes of a log with no, one or two more frames.
LEMMA RecoveredMore ==
  ASSUME NEW b \in File, NEW l \in Log, b.gen = l.gen, b.gen # 0,
         NEW t \in Frame, NEW f \in Frame
  PROVE  /\ Recovered(b, [l EXCEPT !.frames = l.frames \o <<>>]) = Recovered(b, l)
         /\ Recovered(b, [l EXCEPT !.frames = l.frames \o <<f>>]) = Replay(Recovered(b, l), f)
         /\ Recovered(b, [l EXCEPT !.frames = l.frames \o <<t, f>>])
              = Replay(Replay(Recovered(b, l), t), f)
  <1>1. l.frames \in Seq(Frame) /\ b.ages \in Ages BY LogType DEF File
  <1>2. ASSUME NEW s \in Seq(Frame)
        PROVE  Recovered(b, [l EXCEPT !.frames = l.frames \o s]) = Replayed(b.ages, l.frames \o s)
    BY DEF Recovered, Log
  <1>3. Recovered(b, l) = Replayed(b.ages, l.frames) BY DEF Recovered
  <1>4. <<>> \in Seq(Frame) /\ <<f>> \in Seq(Frame) /\ <<t>> \in Seq(Frame) /\ <<t, f>> \in Seq(Frame)
    OBVIOUS
  <1>5. l.frames \o <<>> = l.frames BY <1>1, ConcatEmptySeq
  <1>6. l.frames \o <<t>> \in Seq(Frame) BY <1>1, <1>4, ConcatProperties
  <1>7. (l.frames \o <<t>>) \o <<f>> = l.frames \o <<t, f>>
    <2>1. (l.frames \o <<t>>) \o <<f>> = l.frames \o (<<t>> \o <<f>>)
      BY <1>1, <1>4, ConcatAssociative
    <2> QED BY <2>1, Pair
  <1>8. Replayed(b.ages, l.frames \o <<f>>) = Replay(Replayed(b.ages, l.frames), f)
    BY <1>1, ReplayedOneMore
  <1>9. Replayed(b.ages, l.frames \o <<t, f>>) = Replay(Replay(Replayed(b.ages, l.frames), t), f)
    <2>1. Replayed(b.ages, (l.frames \o <<t>>) \o <<f>>) = Replay(Replayed(b.ages, l.frames \o <<t>>), f)
      BY <1>1, <1>6, ReplayedOneMore
    <2>2. Replayed(b.ages, l.frames \o <<t>>) = Replay(Replayed(b.ages, l.frames), t)
      BY <1>1, ReplayedOneMore
    <2> QED BY <2>1, <2>2, <1>7
  <1>a. Recovered(b, [l EXCEPT !.frames = l.frames \o <<>>]) = Recovered(b, l)
    BY <1>2, <1>3, <1>4, <1>5
  <1>b. Recovered(b, [l EXCEPT !.frames = l.frames \o <<f>>]) = Replay(Recovered(b, l), f)
    BY <1>2, <1>3, <1>4, <1>8
  <1>c. Recovered(b, [l EXCEPT !.frames = l.frames \o <<t, f>>])
              = Replay(Replay(Recovered(b, l), t), f)
    BY <1>2, <1>3, <1>4, <1>9
  <1> QED BY <1>a, <1>b, <1>c

\* What load() would make of the files is a map of ages.
LEMMA ImageType ==
  ASSUME Typed
  PROVE  Image \in Ages /\ \A p \in Pages : Image[p] \in Nat
  <1>1. base \in File /\ log \in Log BY DEF Typed
  <1>2. Image \in Ages BY <1>1, RecoveredType DEF Image
  <1>3. \A p \in Pages : Image[p] \in 0 .. MaxTime BY <1>2 DEF Ages
  <1> QED BY <1>2, <1>3, Bounds

\* What a stop in the middle of an append leaves of each page: the old age,
\* none after a tombstone, or the target.
LEMMA AppendImages ==
  ASSUME Typed, Stages, Files, CkAppend
  PROVE  /\ \A p \in Pages : Recovered(base, log')[p] = Target(p)
         /\ \A l \in logs' : \A p \in Pages :
              \/ Recovered(base, l)[p] = Image[p]
              \/ ck.gone /\ Recovered(base, l)[p] = 0
              \/ Recovered(base, l)[p] = Target(p)
  <1> DEFINE t == [replace |-> TRUE, ages |-> NoAges]
             f == [replace |-> ck.replace, ages |-> ck.ages]
             R(s) == Recovered(base, With(s))
  <1>1. /\ t \in Frame /\ f \in Frame
        /\ ck.gone /\ ck.slot # 0 => DeltaFrames = <<t, f>>
        /\ ck.gone /\ ck.slot = 0 => DeltaFrames = <<t>>
        /\ ~ck.gone /\ ck.slot # 0 => DeltaFrames = <<f>>
        /\ ~ck.gone /\ ck.slot = 0 => DeltaFrames = <<>>
    BY DeltaCases
  <1>2. base.gen = log.gen /\ base.gen # 0 /\ ~ck.full /\ log' = With(DeltaFrames)
    BY AppendFiles
  <1>3. base \in File /\ log \in Log BY DEF Typed
  <1>4. /\ R(<<>>) = Image /\ R(<<f>>) = Replay(Image, f) /\ R(<<t>>) = Replay(Image, t)
        /\ R(<<t, f>>) = Replay(Replay(Image, t), f)
    <2> HIDE DEF t, f
    <2> QED BY <1>1, <1>2, <1>3, RecoveredMore DEF With, Image
  <1>5. Image \in Ages BY ImageType
  <1>6. Replay(Image, t) = NoAges BY DEF Replay
  <1>7. ASSUME NEW p \in Pages
        PROVE  /\ Replay(Image, f)[p] = IF ck.replace \/ ck.ages[p] # 0 THEN ck.ages[p] ELSE Image[p]
               /\ Replay(NoAges, f)[p] = IF ck.replace \/ ck.ages[p] # 0 THEN ck.ages[p] ELSE 0
               /\ NoAges[p] = 0
    <2>1. ck.ages \in Ages /\ ck.replace \in BOOLEAN BY TaskFields
    <2> QED BY <2>1 DEF Replay, NoAges
  <1> HIDE DEF t, f, R
  <1>8. \A p \in Pages : R(DeltaFrames)[p] = Target(p)
    <2>1. CASE ck.gone /\ ck.slot # 0
      BY <2>1, <1>1, <1>2, <1>4, <1>6, <1>7 DEF Target, Under
    <2>2. CASE ck.gone /\ ck.slot = 0
      BY <2>2, <1>1, <1>2, <1>4, <1>6, <1>7 DEF Target, Under
    <2>3. CASE ~ck.gone /\ ck.slot # 0
      BY <2>3, <1>1, <1>2, <1>4, <1>7 DEF Target, Under
    <2>4. CASE ~ck.gone /\ ck.slot = 0
      BY <2>4, <1>1, <1>2, <1>4 DEF Target, Under
    <2> QED BY <2>1, <2>2, <2>3, <2>4
  <1>9. ASSUME NEW l \in logs', NEW p \in Pages
        PROVE  \/ Recovered(base, l)[p] = Image[p]
               \/ ck.gone /\ Recovered(base, l)[p] = 0
               \/ Recovered(base, l)[p] = Target(p)
    <2>1. CASE l = log BY <2>1 DEF Image
    <2>2. ASSUME NEW k \in 0 .. Len(DeltaFrames), l = With(SubSeq(DeltaFrames, 1, k))
          PROVE  \/ Recovered(base, l)[p] = Image[p]
                 \/ ck.gone /\ Recovered(base, l)[p] = 0
                 \/ Recovered(base, l)[p] = Target(p)
      <3>1. DeltaFrames \in Seq(Frame) BY DeltaType
      <3>2. Recovered(base, l) = R(SubSeq(DeltaFrames, 1, k)) BY <2>2 DEF R
      <3>3. CASE k = 0
        <4>1. SubSeq(DeltaFrames, 1, k) = <<>> BY <3>1, <3>3, Prefixes
        <4> QED BY <4>1, <3>2, <1>4
      <3>4. CASE k = Len(DeltaFrames)
        <4>1. SubSeq(DeltaFrames, 1, k) = DeltaFrames BY <3>1, <3>4, Prefixes
        <4> QED BY <4>1, <3>2, <1>8
      <3>5. CASE k # 0 /\ k # Len(DeltaFrames)
        <4>1. ck.gone /\ ck.slot # 0 /\ DeltaFrames = <<t, f>>
          <5>1. Len(DeltaFrames) > 1 BY <3>1, <3>5
          <5>2. Len(<<t>>) = 1 /\ Len(<<f>>) = 1 /\ Len(<<>>) = 0 OBVIOUS
          <5>3. CASE ck.gone /\ ck.slot = 0
            <6>1. DeltaFrames = <<t>> BY <5>3, <1>1
            <6>2. Len(DeltaFrames) = 1 BY <6>1
            <6> QED BY <6>2, <5>1
          <5>4. CASE ~ck.gone /\ ck.slot # 0
            <6>1. DeltaFrames = <<f>> BY <5>4, <1>1
            <6>2. Len(DeltaFrames) = 1 BY <6>1
            <6> QED BY <6>2, <5>1
          <5>5. CASE ~ck.gone /\ ck.slot = 0 BY <5>1, <5>2, <5>5, <1>1
          <5> QED BY <5>3, <5>4, <5>5, <1>1
        <4>2. Len(DeltaFrames) = 2 /\ DeltaFrames[1] = t BY <4>1
        <4>3. k = 1 BY <4>2, <3>5
        <4>4. SubSeq(DeltaFrames, 1, k) = <<t>> BY <3>1, <4>2, <4>3, Prefixes
        <4> QED BY <4>1, <4>4, <3>2, <1>4, <1>6, <1>7
      <3> QED BY <3>3, <3>4, <3>5
    <2> QED BY <2>1, <2>2, AppendFiles
  <1>10. \A p \in Pages : Recovered(base, log')[p] = Target(p)
    BY <1>2, <1>8 DEF R
  <1> QED BY <1>9, <1>10

\* The task keeps what decides the target.
TaskKept ==
    /\ ck'.full = ck.full /\ ck'.gone = ck.gone /\ ck'.slot = ck.slot
    /\ ck'.replace = ck.replace /\ ck'.ages = ck.ages

\* Then the target stays what it was.
LEMMA TargetFrame ==
  ASSUME base' = base, log' = log, TaskKept
  PROVE  /\ Image' = Image
         /\ \A p \in Pages : Target(p)' = Target(p) /\ Under(p)' = Under(p)
  <1>1. Image' = Image BY DEF Image
  <1>2. ASSUME NEW p \in Pages PROVE Target(p)' = Target(p) /\ Under(p)' = Under(p)
    BY <1>1 DEF Target, Under, TaskKept
  <1> QED BY <1>1, <1>2

\* An append leaves its target and does not move it.
LEMMA AppendTarget ==
  ASSUME Typed, Stages, Files, CkAppend
  PROVE  \A p \in Pages : Target(p)' = Target(p) /\ Image'[p] = Target(p)
  <1>1. base' = base /\ TaskKept BY CkAppendEffect DEF TaskKept
  <1>2. Image' = Recovered(base, log') BY <1>1 DEF Image
  <1>3. \A p \in Pages : Image'[p] = Target(p) BY <1>2, AppendImages
  <1>4. ASSUME NEW p \in Pages PROVE Target(p)' = Target(p)
    <2>1. Target(p)' = IF ck.full \/ (ck.slot # 0 /\ (ck.replace \/ ck.ages[p] # 0)) THEN ck.ages[p]
                       ELSE IF ck.gone THEN 0 ELSE Image'[p]
      BY <1>1 DEF Target, Under, TaskKept
    <2> QED BY <2>1, <1>3 DEF Target, Under
  <1> QED BY <1>3, <1>4

\* CkStart keeps Outcome.
LEMMA Outcome_CkStart ==
  ASSUME Typed, Typed', Stages, Files, Outcome, CkStart
  PROVE  Outcome'
  <1>1. ck'.pc \in {"finish", "drop", "idle", "journal", "pick"} BY CkStartEffect
  <1> QED BY <1>1 DEF Outcome, Holding, Sampled, Writing

\* CkJournal keeps Outcome.
LEMMA Outcome_CkJournal ==
  ASSUME Typed, Typed', Stages, Files, Outcome, CkJournal
  PROVE  Outcome'
  <1>1. ck'.pc \in {"finish", "drop", "idle", "journal", "pick"} BY CkJournalEffect
  <1> QED BY <1>1 DEF Outcome, Holding, Sampled, Writing

\* CkPick keeps Outcome.
LEMMA Outcome_CkPick ==
  ASSUME Typed, Typed', Stages, Files, Outcome, CkPick
  PROVE  Outcome'
  <1>1. (ck'.pc = "summary") \/ (ck'.pc = "encode" /\ ck'.slot = ck.slot /\ ck.pc = "pick")
      BY CkPickEffect
  <1>2. ck.pc = "pick" => ck.slot = 0 BY DEF Stages, TaskStages
  <1> QED BY <1>1, <1>2 DEF Outcome, Holding, Sampled, Writing

\* CkSummary keeps Outcome.
LEMMA Outcome_CkSummary ==
  ASSUME Typed, Typed', Stages, Files, Outcome, CkSummary
  PROVE  Outcome'
  <1>1. ck'.pc = "consume" /\ ck'.full = ck.full /\ ck'.replace = (ck.full \/ revision # savedRevision)
    BY CkSummaryEffect
  <1> QED BY <1>1 DEF Outcome

\* CkSample keeps Outcome.
LEMMA Outcome_CkSample ==
  ASSUME Typed, Typed', Stages, Files, Outcome, CkSample
  PROVE  Outcome'
  <1>1. /\ ck.pc = "sample" /\ ck'.pc = "consume" /\ ck'.full = ck.full
        /\ ck'.replace = ck.replace /\ ck'.slot = ck.slot
    BY CkSampleEffect
  <1> QED BY <1>1 DEF Outcome, Holding

\* CkSampled keeps Outcome.
LEMMA Outcome_CkSampled ==
  ASSUME Typed, Typed', Stages, Files, Outcome, CkSampled
  PROVE  Outcome'
  <1>1. /\ TaskKept /\ ck.pc \in {"base", "baseSync", "log", "consume"}
        /\ ck'.pc \in {"baseSync", "log", "logSync", "encode"}
    BY CkSampledEffect DEF TaskKept
  <1> QED BY <1>1 DEF Outcome, TaskKept, Holding, Sampled, Writing

\* CkTooLarge keeps Outcome.
LEMMA Outcome_CkTooLarge ==
  ASSUME Typed, Typed', Stages, Files, Outcome, CkTooLarge
  PROVE  Outcome'
  <1>1. ck'.pc \in {"finish", "drop", "idle", "journal", "pick"} BY CkTooLargeEffect
  <1> QED BY <1>1 DEF Outcome, Holding, Sampled, Writing

\* CkNoDirectory keeps Outcome.
LEMMA Outcome_CkNoDirectory ==
  ASSUME Typed, Typed', Stages, Files, Outcome, CkNoDirectory
  PROVE  Outcome'
  <1>1. ck'.pc \in {"finish", "drop", "idle", "journal", "pick"} BY CkNoDirectoryEffect
  <1> QED BY <1>1 DEF Outcome, Holding, Sampled, Writing

\* CkEncode keeps Outcome.
LEMMA Outcome_CkEncode ==
  ASSUME Typed, Typed', Stages, Files, Outcome, CkEncode
  PROVE  Outcome'
  <1>1. base' = base /\ log' = log /\ TaskKept /\ ck.pc = "encode" BY CkEncodeEffect DEF TaskKept
  <1>2. ck'.pc = "written" => ~ck.full /\ DeltaFrames = <<>> BY CkEncodeEffect
  <1>3. DeltaFrames = <<>> => ck.slot = 0 /\ ~ck.gone
    <2>1. \A x, y : <<x>> # <<>> /\ <<x, y>> # <<>> OBVIOUS
    <2> QED BY <2>1, DeltaCases
  <1>4. ck'.pc = "written" => \A p \in Pages : Image[p] = Target(p) BY <1>2, <1>3 DEF Target, Under
  <1>5. ck'.pc \in {"base", "written", "append"} BY CkEncodeEffect
  <1> QED BY <1>1, <1>4, <1>5, TargetFrame DEF Outcome, TaskKept, Holding, Sampled, Writing

\* CkBase keeps Outcome.
LEMMA Outcome_CkBase ==
  ASSUME Typed, Typed', Stages, Files, Outcome, CkBase
  PROVE  Outcome'
  <1>1. /\ TaskKept /\ ck.pc \in {"base", "baseSync", "log", "consume"}
        /\ ck'.pc \in {"baseSync", "log", "logSync", "encode"}
    BY CkBaseEffect DEF TaskKept
  <1> QED BY <1>1 DEF Outcome, TaskKept, Holding, Sampled, Writing

\* CkBaseSync keeps Outcome.
LEMMA Outcome_CkBaseSync ==
  ASSUME Typed, Typed', Stages, Files, Outcome, CkBaseSync
  PROVE  Outcome'
  <1>1. /\ TaskKept /\ ck.pc \in {"base", "baseSync", "log", "consume"}
        /\ ck'.pc \in {"baseSync", "log", "logSync", "encode"}
    BY CkBaseSyncEffect DEF TaskKept
  <1> QED BY <1>1 DEF Outcome, TaskKept, Holding, Sampled, Writing

\* CkLog keeps Outcome.
LEMMA Outcome_CkLog ==
  ASSUME Typed, Typed', Stages, Files, Outcome, CkLog
  PROVE  Outcome'
  <1>1. /\ TaskKept /\ ck.pc \in {"base", "baseSync", "log", "consume"}
        /\ ck'.pc \in {"baseSync", "log", "logSync", "encode"}
    BY CkLogEffect DEF TaskKept
  <1> QED BY <1>1 DEF Outcome, TaskKept, Holding, Sampled, Writing

\* CkLogSync keeps Outcome.
LEMMA Outcome_CkLogSync ==
  ASSUME Typed, Typed', Stages, Files, Outcome, CkLogSync
  PROVE  Outcome'
  <1>1. base' = base /\ log' = log /\ TaskKept /\ ck.pc = "logSync" /\ ck'.pc = "written"
    BY CkLogSyncEffect DEF TaskKept
  <1>2. ck.full /\ base.ages = ck.ages /\ log.frames = <<>> BY <1>1 DEF Files, Writes
  <1>3. base \in File /\ log \in Log BY DEF Typed
  <1>4. Image = ck.ages BY <1>2, <1>3, RecoveredPlain DEF Image
  <1>5. \A p \in Pages : Image[p] = Target(p) BY <1>2, <1>4 DEF Target
  <1> QED BY <1>1, <1>5, TargetFrame DEF Outcome, TaskKept, Holding, Sampled, Writing

\* CkAppend keeps Outcome.
LEMMA Outcome_CkAppend ==
  ASSUME Typed, Typed', Stages, Files, Outcome, CkAppend
  PROVE  Outcome'
  <1>1. TaskKept /\ ck.pc = "append" /\ ck'.pc = "appendSync" BY CkAppendEffect DEF TaskKept
  <1>2. \A p \in Pages : Image'[p] = Target(p)' BY AppendTarget
  <1> QED BY <1>1, <1>2 DEF Outcome, TaskKept, Holding, Sampled, Writing

\* CkAppendSync keeps Outcome.
LEMMA Outcome_CkAppendSync ==
  ASSUME Typed, Typed', Stages, Files, Outcome, CkAppendSync
  PROVE  Outcome'
  <1>1. base' = base /\ log' = log /\ TaskKept BY CkAppendSyncEffect DEF TaskKept
  <1>2. ck.pc \in {"appendSync", "written"} /\ ck'.pc \in {"written", "revise"} BY CkAppendSyncEffect
  <1> QED BY <1>1, <1>2, TargetFrame DEF Outcome, TaskKept, Holding, Sampled, Writing

\* CkSetJournal keeps Outcome.
LEMMA Outcome_CkSetJournal ==
  ASSUME Typed, Typed', Stages, Files, Outcome, CkSetJournal
  PROVE  Outcome'
  <1>1. base' = base /\ log' = log /\ TaskKept BY CkSetJournalEffect DEF TaskKept
  <1>2. ck.pc \in {"appendSync", "written"} /\ ck'.pc \in {"written", "revise"} BY CkSetJournalEffect
  <1> QED BY <1>1, <1>2, TargetFrame DEF Outcome, TaskKept, Holding, Sampled, Writing

\* CkRevise keeps Outcome.
LEMMA Outcome_CkRevise ==
  ASSUME Typed, Typed', Stages, Files, Outcome, CkRevise
  PROVE  Outcome'
  <1>1. ck'.pc \in {"finish", "drop", "idle", "journal", "pick"} BY CkReviseEffect
  <1> QED BY <1>1 DEF Outcome, Holding, Sampled, Writing

\* CkFinish keeps Outcome.
LEMMA Outcome_CkFinish ==
  ASSUME Typed, Typed', Stages, Files, Outcome, CkFinish
  PROVE  Outcome'
  <1>1. ck'.pc \in {"finish", "drop", "idle", "journal", "pick"} BY CkFinishEffect
  <1> QED BY <1>1 DEF Outcome, Holding, Sampled, Writing

\* CkFail keeps Outcome.
LEMMA Outcome_CkFail ==
  ASSUME Typed, Typed', Stages, Files, Outcome, CkFail
  PROVE  Outcome'
  <1>1. ck'.pc \in {"finish", "drop", "idle", "journal", "pick"} BY CkFailEffect
  <1> QED BY <1>1 DEF Outcome, Holding, Sampled, Writing

\* CkDropSummary keeps Outcome.
LEMMA Outcome_CkDropSummary ==
  ASSUME Typed, Typed', Stages, Files, Outcome, CkDropSummary
  PROVE  Outcome'
  <1>1. ck'.pc \in {"finish", "drop", "idle", "journal", "pick"} BY CkDropSummaryEffect
  <1> QED BY <1>1 DEF Outcome, Holding, Sampled, Writing

\* CkConsume keeps Outcome.
LEMMA Outcome_CkConsume ==
  ASSUME Typed, Typed', Stages, Files, Outcome, CkConsume
  PROVE  Outcome'
  <1>0. PICK p \in ck.todo :
         /\ p \in Pages /\ ck.pc = "consume" /\ ck'.pc = "sample" /\ ck'.page = p
         /\ ck'.todo = ck.todo \ {p} /\ ck'.marks = [ck.marks EXCEPT ![p] = mark[p]]
         /\ mark' = [mark EXCEPT ![p] = Unknown]
         /\ ck'.ceiling = ck.ceiling /\ ck'.upto = ck.upto /\ ck'.journal = ck.journal
         /\ ck'.full = ck.full /\ ck'.gone = ck.gone /\ ck'.slot = ck.slot
         /\ ck'.held = ck.held /\ ck'.since = ck.since /\ ck'.replace = ck.replace
         /\ ck'.revision = ck.revision /\ ck'.ages = ck.ages /\ ck'.orphans = ck.orphans
         /\ reader' = reader
         /\ now' = now /\ resident' = resident /\ last' = last
         /\ live' = live /\ blockDirty' = blockDirty
         /\ shardDirty' = shardDirty /\ revision' = revision
         /\ savedRevision' = savedRevision /\ reg' = reg /\ base' = base
         /\ log' = log /\ bases' = bases /\ logs' = logs /\ saved' = saved
         /\ fails' = fails /\ crashes' = crashes
    BY CkConsumeEffect
  <1>1. base' = base /\ log' = log /\ TaskKept BY <1>0 DEF TaskKept
  <1>2. (ck.pc = "drop" /\ ck'.pc = "drop") \/ (ck.pc = "consume" /\ ck'.pc = "sample") BY <1>0
  <1> QED BY <1>1, <1>2 DEF Outcome, TaskKept, Holding, Sampled, Writing

\* CkDropPage keeps Outcome.
LEMMA Outcome_CkDropPage ==
  ASSUME Typed, Typed', Stages, Files, Outcome, CkDropPage
  PROVE  Outcome'
  <1>0. PICK p \in Pages :
         /\ ck.pc = "drop" /\ ck.marks[p] # Unknown
         /\ \A q \in Pages : q # p => mark'[q] = mark[q]
         /\ p \in ck.orphans => mark' = mark
         /\ p \notin ck.orphans => mark'[p] # Unknown
         /\ Dirty(ck.slot, ck.marks[p])
         /\ ck'.marks = [ck.marks EXCEPT ![p] = Unknown]
         /\ ck'.pc = ck.pc /\ ck'.page = ck.page /\ ck'.todo = ck.todo
         /\ ck'.ceiling = ck.ceiling /\ ck'.upto = ck.upto /\ ck'.journal = ck.journal
         /\ ck'.full = ck.full /\ ck'.gone = ck.gone /\ ck'.slot = ck.slot
         /\ ck'.held = ck.held /\ ck'.since = ck.since /\ ck'.replace = ck.replace
         /\ ck'.revision = ck.revision /\ ck'.ages = ck.ages /\ ck'.orphans = ck.orphans
         /\ reader' = reader
         /\ now' = now /\ resident' = resident /\ last' = last
         /\ live' = live /\ revision' = revision
         /\ savedRevision' = savedRevision /\ reg' = reg /\ base' = base
         /\ log' = log /\ bases' = bases /\ logs' = logs /\ saved' = saved
         /\ fails' = fails /\ crashes' = crashes
    BY CkDropPageEffect
  <1>1. base' = base /\ log' = log /\ TaskKept BY <1>0 DEF TaskKept
  <1>2. (ck.pc = "drop" /\ ck'.pc = "drop") \/ (ck.pc = "consume" /\ ck'.pc = "sample") BY <1>0
  <1> QED BY <1>1, <1>2 DEF Outcome, TaskKept, Holding, Sampled, Writing

\* Create keeps Outcome.
LEMMA Outcome_Create ==
  ASSUME Typed, Typed', Stages, Files, Outcome, Create
  PROVE  Outcome'
  <1>1. base' = base /\ log' = log /\ TaskKept /\ ck'.pc = ck.pc BY CreateEffect DEF TaskKept
  <1> QED BY <1>1, TargetFrame DEF Outcome, TaskKept

\* Retire keeps Outcome.
LEMMA Outcome_Retire ==
  ASSUME Typed, Typed', Stages, Files, Outcome, Retire
  PROVE  Outcome'
  <1>1. base' = base /\ log' = log /\ TaskKept /\ ck'.pc = ck.pc BY RetireEffect DEF TaskKept
  <1> QED BY <1>1, TargetFrame DEF Outcome, TaskKept

\* Tick keeps Outcome.
LEMMA Outcome_Tick ==
  ASSUME Typed, Typed', Stages, Files, Outcome, Tick
  PROVE  Outcome'
  <1>1. base' = base /\ log' = log /\ TaskKept /\ ck'.pc = ck.pc BY TickEffect DEF TaskKept
  <1> QED BY <1>1, TargetFrame DEF Outcome, TaskKept

\* ReadDone keeps Outcome.
LEMMA Outcome_ReadDone ==
  ASSUME Typed, Typed', Stages, Files, Outcome, NEW r \in Readers, ReadDone(r)
  PROVE  Outcome'
  <1>1. base' = base /\ log' = log /\ TaskKept /\ ck'.pc = ck.pc BY ReadDoneEffect DEF TaskKept
  <1> QED BY <1>1, TargetFrame DEF Outcome, TaskKept

\* Stamp keeps Outcome.
LEMMA Outcome_Stamp ==
  ASSUME Typed, Typed', Stages, Files, Outcome, NEW r \in Readers, Stamp(r)
  PROVE  Outcome'
  <1>1. base' = base /\ log' = log /\ TaskKept /\ ck'.pc = ck.pc BY StampEffect DEF TaskKept
  <1> QED BY <1>1, TargetFrame DEF Outcome, TaskKept

\* Mark keeps Outcome.
LEMMA Outcome_Mark ==
  ASSUME Typed, Typed', Stages, Files, Outcome, NEW r \in Readers, Mark(r)
  PROVE  Outcome'
  <1>1. base' = base /\ log' = log /\ TaskKept /\ ck'.pc = ck.pc BY MarkEffect DEF TaskKept
  <1> QED BY <1>1, TargetFrame DEF Outcome, TaskKept

\* Notify keeps Outcome.
LEMMA Outcome_Notify ==
  ASSUME Typed, Typed', Stages, Files, Outcome, NEW r \in Readers, Notify(r)
  PROVE  Outcome'
  <1>1. base' = base /\ log' = log /\ TaskKept /\ ck'.pc = ck.pc BY NotifyEffect DEF TaskKept
  <1> QED BY <1>1, TargetFrame DEF Outcome, TaskKept

\* Queue keeps Outcome.
LEMMA Outcome_Queue ==
  ASSUME Typed, Typed', Stages, Files, Outcome, NEW r \in Readers, Queue(r)
  PROVE  Outcome'
  <1>1. base' = base /\ log' = log /\ TaskKept /\ ck'.pc = ck.pc BY QueueEffect DEF TaskKept
  <1> QED BY <1>1, TargetFrame DEF Outcome, TaskKept

\* Register keeps Outcome.
LEMMA Outcome_Register ==
  ASSUME Typed, Typed', Stages, Files, Outcome, NEW p \in Pages, Register(p)
  PROVE  Outcome'
  <1>1. base' = base /\ log' = log /\ TaskKept /\ ck'.pc = ck.pc BY RegisterEffect DEF TaskKept
  <1> QED BY <1>1, TargetFrame DEF Outcome, TaskKept

\* Delete keeps Outcome.
LEMMA Outcome_Delete ==
  ASSUME Typed, Typed', Stages, Files, Outcome, NEW p \in Pages, Delete(p)
  PROVE  Outcome'
  <1>1. base' = base /\ log' = log /\ TaskKept /\ ck'.pc = ck.pc BY DeleteEffect DEF TaskKept
  <1> QED BY <1>1, TargetFrame DEF Outcome, TaskKept

\* Restart keeps Outcome.
LEMMA Outcome_Restart ==
  ASSUME Typed, Typed', Stages, Files, Outcome, Restart
  PROVE  Outcome'
  <1>1. PICK b \in bases, l \in logs, found \in SUBSET resident :
           /\ b \in File /\ l \in Log /\ Recovered(b, l) \in Ages
           /\ base' = b /\ bases' = {b} /\ log' = l /\ logs' = {l}
           /\ resident' = found
           /\ last' = [p \in Pages |-> IF p \in found /\ Recovered(b, l)[p] # 0
                                       THEN Recovered(b, l)[p] ELSE Unknown]
           /\ live' = IF found = {} THEN 0 ELSE 1
           /\ reg' \in Registries
           /\ reg'.next = live' /\ reg'.saved = 0 /\ reg'.removed = {} /\ reg'.overflow = 0
           /\ reg'.membership = live' + (IF b.gen = 0 THEN 0 ELSE 1)
           /\ reg'.journal.gen = b.gen /\ reg'.journal.full = TRUE /\ reg'.dir = reg.dir
           /\ saved' = [p \in Pages |-> IF p \in found THEN saved[p] ELSE 0]
    BY RestartFacts
  <1>2. /\ ck' = Idle /\ mark' = Clean /\ blockDirty' = Unknown /\ revision' = 0 /\ savedRevision' = 0
        /\ shardDirty' = [s \in 1 .. MaxSlots |-> Unknown] /\ reader' = [r \in Readers |-> Resting]
    BY DEF Restart
  <1>3. ck'.pc = "idle" BY <1>2, IdleFields
  <1> QED BY <1>3 DEF Outcome, Holding, Sampled, Writing

\* Every step keeps Outcome.
LEMMA OutcomeStep ==
  ASSUME Typed, Typed', Stages, Files, Outcome, [Next]_vars
  PROVE  Outcome'
  <1>1. CASE UNCHANGED vars BY <1>1 DEF vars, memory, disk, ghost, Outcome, Target, Under, Image
  <1>2. CASE Tick BY <1>2, Outcome_Tick
  <1>3. ASSUME NEW r \in Readers, ReadDone(r) \/ Touch(r) PROVE Outcome'
    BY <1>3, Outcome_ReadDone, Outcome_Stamp, Outcome_Mark, Outcome_Notify, Outcome_Queue DEF Touch
  <1>4. ASSUME NEW p \in Pages, Register(p) \/ Delete(p) PROVE Outcome'
    BY <1>4, Outcome_Register, Outcome_Delete
  <1>5. CASE Create \/ Retire \/ CkTooLarge \/ CkFail \/ Restart
    BY <1>5, Outcome_Create, Outcome_Retire, Outcome_CkTooLarge, Outcome_CkFail, Outcome_Restart
  <1>6. CASE Checkpoint
    BY <1>6, Outcome_CkStart, Outcome_CkJournal, Outcome_CkPick, Outcome_CkSummary,
        Outcome_CkSample, Outcome_CkSampled, Outcome_CkNoDirectory, Outcome_CkEncode,
        Outcome_CkBase, Outcome_CkBaseSync, Outcome_CkLog, Outcome_CkLogSync, Outcome_CkAppend,
        Outcome_CkAppendSync, Outcome_CkSetJournal, Outcome_CkRevise, Outcome_CkFinish,
        Outcome_CkDropSummary, Outcome_CkConsume, Outcome_CkDropPage DEF Checkpoint
  <1> QED BY <1>1, <1>2, <1>3, <1>4, <1>5, <1>6 DEF Next

-----------------------------------------------------------------------------
(* Handles: who owns ages and marks                                        *)

\* A step that moves no handle keeps Handles.
LEMMA HandlesFrame ==
  ASSUME Handles,
         /\ resident' = resident /\ saved' = saved /\ last' = last /\ mark' = mark
         /\ reader' = reader /\ ck'.orphans = ck.orphans /\ ck'.marks = ck.marks
         /\ ck'.ages = ck.ages /\ ck'.pc = ck.pc /\ ck'.slot = ck.slot /\ live' = live
  PROVE  Handles'
  <1>1. Absent' BY DEF Handles, Absent
  <1>2. MarkOwned' BY DEF Handles, MarkOwned
  <1>3. StampOwned' BY DEF Handles, StampOwned
  <1>4. TaskOwned' BY DEF Handles, TaskOwned
  <1>5. NoOrphans' BY DEF Handles, NoOrphans
  <1> QED BY <1>1, <1>2, <1>3, <1>4, <1>5 DEF Handles


\* A task that sampled and moves on keeps Handles.
LEMMA HandlesMove ==
  ASSUME Typed, Typed', Stages, Handles,
         /\ ck.pc \in Sampled /\ ck'.pc \in Sampled /\ resident' = resident
         /\ saved' = saved /\ last' = last /\ mark' = mark /\ reader' = reader
         /\ ck'.orphans = ck.orphans /\ ck'.marks = ck.marks /\ ck'.ages = ck.ages
         /\ ck'.slot = ck.slot /\ live' = live
  PROVE  Handles'
  <1>1. Absent' BY DEF Handles, Absent, Holding, Sampled, Writing
  <1>2. MarkOwned' BY DEF Handles, MarkOwned, Holding, Sampled, Writing
  <1>3. StampOwned' BY DEF Handles, StampOwned, Holding, Sampled, Writing
  <1>4. TaskOwned' BY DEF Handles, TaskOwned, Holding, Sampled, Writing
  <1>5. NoOrphans' BY DEF Handles, NoOrphans, Holding, Sampled, Writing
  <1> QED BY <1>1, <1>2, <1>3, <1>4, <1>5 DEF Handles


\* CkStart keeps Handles.
LEMMA Handles_CkStart ==
  ASSUME Typed, Typed', Stages, Handles, CkStart
  PROVE  Handles'
  <1>1. Absent'
    <2>1. resident' = resident /\ saved' = saved /\ last' = last BY CkStartEffect
    <2> QED BY <2>1 DEF Handles, Absent
  <1>2. MarkOwned'
    <2>1. mark' = mark /\ resident' = resident /\ last' = last BY CkStartEffect
    <2> QED BY <2>1 DEF Handles, MarkOwned
  <1>3. StampOwned'
    <2>1. reader' = reader /\ last' = last BY CkStartEffect
    <2> QED BY <2>1 DEF Handles, StampOwned
  <1>4. TaskOwned'
    <2>1. ck'.marks = Clean /\ ck'.ages = NoAges BY CkStartEffect
    <2> QED BY <2>1 DEF TaskOwned, Clean, NoAges
  <1>5. NoOrphans'
    <2>1. /\ ck.pc = "idle" /\ Due /\ ck'.pc = "journal" /\ ck'.orphans = {}
      BY CkStartEffect
    <2> QED BY <2>1, TaskFields DEF Handles, NoOrphans
  <1> QED BY <1>1, <1>2, <1>3, <1>4, <1>5 DEF Handles

\* CkJournal keeps Handles.
LEMMA Handles_CkJournal ==
  ASSUME Typed, Typed', Stages, Handles, CkJournal
  PROVE  Handles'
  <1>1. Absent'
    <2>1. resident' = resident /\ saved' = saved /\ last' = last BY CkJournalEffect
    <2> QED BY <2>1 DEF Handles, Absent
  <1>2. MarkOwned'
    <2>1. mark' = mark /\ resident' = resident /\ last' = last BY CkJournalEffect
    <2> QED BY <2>1 DEF Handles, MarkOwned
  <1>3. StampOwned'
    <2>1. reader' = reader /\ last' = last BY CkJournalEffect
    <2> QED BY <2>1 DEF Handles, StampOwned
  <1>4. TaskOwned'
    <2>1. /\ ck.pc = "journal" /\ ck'.pc = "pick" /\ ck'.slot = ck.slot
          /\ ck'.marks = ck.marks /\ ck'.ages = ck.ages /\ ck'.orphans = ck.orphans
          /\ resident' = resident /\ last' = last /\ live' = live
      BY CkJournalEffect
    <2> QED BY <2>1, TaskFields DEF Handles, TaskOwned
  <1>5. NoOrphans'
    <2>1. /\ ck.pc = "journal" /\ ck'.pc = "pick" /\ ck'.orphans = ck.orphans
      BY CkJournalEffect
    <2> QED BY <2>1, TaskFields DEF Handles, NoOrphans
  <1> QED BY <1>1, <1>2, <1>3, <1>4, <1>5 DEF Handles

\* CkPick keeps Handles.
LEMMA Handles_CkPick ==
  ASSUME Typed, Typed', Stages, Handles, CkPick
  PROVE  Handles'
  <1>1. Absent'
    <2>1. resident' = resident /\ saved' = saved /\ last' = last BY CkPickEffect
    <2> QED BY <2>1 DEF Handles, Absent
  <1>2. MarkOwned'
    <2>1. mark' = mark /\ resident' = resident /\ last' = last BY CkPickEffect
    <2> QED BY <2>1 DEF Handles, MarkOwned
  <1>3. StampOwned'
    <2>1. reader' = reader /\ last' = last BY CkPickEffect
    <2> QED BY <2>1 DEF Handles, StampOwned
  <1>4. TaskOwned'
    <2>1. /\ ck.pc = "pick"
          /\ ((Eligible /\ ck'.pc = "summary" /\ ck'.slot = live /\ ck'.held = TRUE)
              \/ (~Eligible /\ ck'.pc = "encode" /\ ck'.slot = ck.slot /\ ck'.held = ck.held))
          /\ ck'.marks = ck.marks /\ ck'.ages = ck.ages /\ ck'.orphans = ck.orphans
          /\ resident' = resident /\ last' = last /\ live' = live
      BY CkPickEffect
    <2> QED BY <2>1, TaskFields DEF Handles, TaskOwned
  <1>5. NoOrphans'
    <2>1. /\ ck.pc = "pick"
          /\ ((Eligible /\ ck'.pc = "summary" /\ ck'.slot = live /\ ck'.held = TRUE)
              \/ (~Eligible /\ ck'.pc = "encode" /\ ck'.slot = ck.slot /\ ck'.held = ck.held))
          /\ ck'.orphans = ck.orphans
      BY CkPickEffect
    <2> QED BY <2>1, TaskFields DEF Handles, NoOrphans
  <1> QED BY <1>1, <1>2, <1>3, <1>4, <1>5 DEF Handles

\* CkSummary keeps Handles.
LEMMA Handles_CkSummary ==
  ASSUME Typed, Typed', Stages, Handles, CkSummary
  PROVE  Handles'
  <1>1. Absent'
    <2>1. resident' = resident /\ saved' = saved /\ last' = last BY CkSummaryEffect
    <2> QED BY <2>1 DEF Handles, Absent
  <1>2. MarkOwned'
    <2>1. mark' = mark /\ resident' = resident /\ last' = last BY CkSummaryEffect
    <2> QED BY <2>1 DEF Handles, MarkOwned
  <1>3. StampOwned'
    <2>1. reader' = reader /\ last' = last BY CkSummaryEffect
    <2> QED BY <2>1 DEF Handles, StampOwned
  <1>4. TaskOwned'
    <2>1. ck.pc = "summary" /\ ck'.marks = ck.marks /\ ck'.ages = ck.ages BY CkSummaryEffect
    <2>2. ck.marks = Clean /\ ck.ages = NoAges BY <2>1 DEF Stages, TaskStages
    <2> QED BY <2>1, <2>2 DEF TaskOwned, Clean, NoAges
  <1>5. NoOrphans'
    <2>1. /\ ck.pc = "summary" /\ ck'.pc = "consume" /\ ck'.orphans = {}
      BY CkSummaryEffect
    <2> QED BY <2>1, TaskFields DEF Handles, NoOrphans
  <1> QED BY <1>1, <1>2, <1>3, <1>4, <1>5 DEF Handles

\* CkSample keeps Handles.
LEMMA Handles_CkSample ==
  ASSUME Typed, Typed', Stages, Handles, CkSample
  PROVE  Handles'
  <1>1. Absent'
    <2>1. resident' = resident /\ saved' = saved /\ last' = last BY CkSampleEffect
    <2> QED BY <2>1 DEF Handles, Absent
  <1>2. MarkOwned'
    <2>1. mark' = mark /\ resident' = resident /\ last' = last BY CkSampleEffect
    <2> QED BY <2>1 DEF Handles, MarkOwned
  <1>3. StampOwned'
    <2>1. reader' = reader /\ last' = last BY CkSampleEffect
    <2> QED BY <2>1 DEF Handles, StampOwned
  <1>4. TaskOwned'
    <2> DEFINE a == IF last[ck.page] # Unknown /\ (ck.replace \/ ck.marks[ck.page] # Unknown)
                    THEN last[ck.page] ELSE 0
    <2>1. /\ ck.pc = "sample" /\ ck'.pc = "consume"
          /\ ck'.marks = ck.marks /\ ck'.orphans = ck.orphans /\ ck'.slot = ck.slot
          /\ resident' = resident /\ last' = last /\ live' = live
          /\ ck'.ages = [ck.ages EXCEPT ![ck.page] = a]
      BY CkSampleEffect
    <2>2. ck.slot = live /\ ck.page \in resident BY <2>1 DEF Stages, TaskStages
    <2>3. a # 0 => last[ck.page] # Unknown OBVIOUS
    <2> HIDE DEF a
    <2>4. \A q \in Pages : ck'.ages[q] = IF q = ck.page THEN a ELSE ck.ages[q]
      BY <2>1, TaskFields DEF Ages
    <2> QED BY <2>1, <2>2, <2>3, <2>4 DEF Handles, TaskOwned
  <1>5. NoOrphans'
    <2>1. /\ ck.pc = "sample" /\ ck'.pc = "consume" /\ ck'.orphans = ck.orphans
      BY CkSampleEffect
    <2> QED BY <2>1, TaskFields DEF Handles, NoOrphans
  <1> QED BY <1>1, <1>2, <1>3, <1>4, <1>5 DEF Handles

\* CkSampled keeps Handles.
LEMMA Handles_CkSampled ==
  ASSUME Typed, Typed', Stages, Handles, CkSampled
  PROVE  Handles'
  <1>1. Absent'
    <2>1. resident' = resident /\ saved' = saved /\ last' = last BY CkSampledEffect
    <2> QED BY <2>1 DEF Handles, Absent
  <1>2. MarkOwned'
    <2>1. mark' = mark /\ resident' = resident /\ last' = last BY CkSampledEffect
    <2> QED BY <2>1 DEF Handles, MarkOwned
  <1>3. StampOwned'
    <2>1. reader' = reader /\ last' = last BY CkSampledEffect
    <2> QED BY <2>1 DEF Handles, StampOwned
  <1>4. TaskOwned'
    <2>1. /\ ck.pc = "consume" /\ ck.todo = {} /\ ck'.pc = "encode" /\ ck'.slot = ck.slot
          /\ ck'.marks = ck.marks /\ ck'.ages = ck.ages /\ ck'.orphans = ck.orphans
          /\ resident' = resident /\ last' = last /\ live' = live
      BY CkSampledEffect
    <2> QED BY <2>1, TaskFields DEF Handles, TaskOwned
  <1>5. NoOrphans'
    <2>1. /\ ck.pc = "consume" /\ ck.todo = {} /\ ck'.pc = "encode"
          /\ ck'.orphans = ck.orphans
      BY CkSampledEffect
    <2> QED BY <2>1, TaskFields DEF Handles, NoOrphans
  <1> QED BY <1>1, <1>2, <1>3, <1>4, <1>5 DEF Handles

\* CkTooLarge keeps Handles.
LEMMA Handles_CkTooLarge ==
  ASSUME Typed, Typed', Stages, Handles, CkTooLarge
  PROVE  Handles'
  <1>1. Absent'
    <2>1. resident' = resident /\ saved' = saved /\ last' = last BY CkTooLargeEffect
    <2> QED BY <2>1 DEF Handles, Absent
  <1>2. MarkOwned'
    <2>1. mark' = mark /\ resident' = resident /\ last' = last BY CkTooLargeEffect
    <2> QED BY <2>1 DEF Handles, MarkOwned
  <1>3. StampOwned'
    <2>1. reader' = reader /\ last' = last BY CkTooLargeEffect
    <2> QED BY <2>1 DEF Handles, StampOwned
  <1>4. TaskOwned'
    <2>1. ck'.marks = Clean /\ ck'.ages = NoAges BY CkTooLargeEffect
    <2> QED BY <2>1 DEF TaskOwned, Clean, NoAges
  <1>5. NoOrphans'
    <2>1. /\ ck.pc = "consume" /\ ck.todo = resident /\ ck'.pc = "idle" /\ ck'.orphans = {}
      BY CkTooLargeEffect
    <2> QED BY <2>1, TaskFields DEF Handles, NoOrphans
  <1> QED BY <1>1, <1>2, <1>3, <1>4, <1>5 DEF Handles

\* CkNoDirectory keeps Handles.
LEMMA Handles_CkNoDirectory ==
  ASSUME Typed, Typed', Stages, Handles, CkNoDirectory
  PROVE  Handles'
  <1>1. Absent'
    <2>1. resident' = resident /\ saved' = saved /\ last' = last BY CkNoDirectoryEffect
    <2> QED BY <2>1 DEF Handles, Absent
  <1>2. MarkOwned'
    <2>1. mark' = mark /\ resident' = resident /\ last' = last BY CkNoDirectoryEffect
    <2> QED BY <2>1 DEF Handles, MarkOwned
  <1>3. StampOwned'
    <2>1. reader' = reader /\ last' = last BY CkNoDirectoryEffect
    <2> QED BY <2>1 DEF Handles, StampOwned
  <1>4. TaskOwned'
    <2>1. ck'.marks = Clean /\ ck'.ages = NoAges BY CkNoDirectoryEffect
    <2> QED BY <2>1 DEF TaskOwned, Clean, NoAges
  <1>5. NoOrphans'
    <2>1. /\ ck.pc = "encode" /\ ~reg.dir /\ ck'.pc = "idle" /\ ck'.orphans = {}
      BY CkNoDirectoryEffect
    <2> QED BY <2>1, TaskFields DEF Handles, NoOrphans
  <1> QED BY <1>1, <1>2, <1>3, <1>4, <1>5 DEF Handles

\* CkEncode keeps Handles.
LEMMA Handles_CkEncode ==
  ASSUME Typed, Typed', Stages, Handles, CkEncode
  PROVE  Handles'
  <1>1. /\ ck.pc \in Sampled /\ ck'.pc \in Sampled BY CkEncodeEffect DEF Sampled, Writing
  <1>2. /\ resident' = resident /\ saved' = saved /\ last' = last /\ mark' = mark
        /\ reader' = reader /\ ck'.orphans = ck.orphans /\ ck'.marks = ck.marks
        /\ ck'.ages = ck.ages /\ ck'.slot = ck.slot /\ live' = live
    BY CkEncodeEffect
  <1> QED BY <1>1, <1>2, HandlesMove

\* CkBase keeps Handles.
LEMMA Handles_CkBase ==
  ASSUME Typed, Typed', Stages, Handles, CkBase
  PROVE  Handles'
  <1>1. /\ ck.pc \in Sampled /\ ck'.pc \in Sampled BY CkBaseEffect DEF Sampled, Writing
  <1>2. /\ resident' = resident /\ saved' = saved /\ last' = last /\ mark' = mark
        /\ reader' = reader /\ ck'.orphans = ck.orphans /\ ck'.marks = ck.marks
        /\ ck'.ages = ck.ages /\ ck'.slot = ck.slot /\ live' = live
    BY CkBaseEffect
  <1> QED BY <1>1, <1>2, HandlesMove

\* CkBaseSync keeps Handles.
LEMMA Handles_CkBaseSync ==
  ASSUME Typed, Typed', Stages, Handles, CkBaseSync
  PROVE  Handles'
  <1>1. /\ ck.pc \in Sampled /\ ck'.pc \in Sampled BY CkBaseSyncEffect DEF Sampled, Writing
  <1>2. /\ resident' = resident /\ saved' = saved /\ last' = last /\ mark' = mark
        /\ reader' = reader /\ ck'.orphans = ck.orphans /\ ck'.marks = ck.marks
        /\ ck'.ages = ck.ages /\ ck'.slot = ck.slot /\ live' = live
    BY CkBaseSyncEffect
  <1> QED BY <1>1, <1>2, HandlesMove

\* CkLog keeps Handles.
LEMMA Handles_CkLog ==
  ASSUME Typed, Typed', Stages, Handles, CkLog
  PROVE  Handles'
  <1>1. /\ ck.pc \in Sampled /\ ck'.pc \in Sampled BY CkLogEffect DEF Sampled, Writing
  <1>2. /\ resident' = resident /\ saved' = saved /\ last' = last /\ mark' = mark
        /\ reader' = reader /\ ck'.orphans = ck.orphans /\ ck'.marks = ck.marks
        /\ ck'.ages = ck.ages /\ ck'.slot = ck.slot /\ live' = live
    BY CkLogEffect
  <1> QED BY <1>1, <1>2, HandlesMove

\* CkLogSync keeps Handles.
LEMMA Handles_CkLogSync ==
  ASSUME Typed, Typed', Stages, Handles, CkLogSync
  PROVE  Handles'
  <1>1. /\ ck.pc \in Sampled /\ ck'.pc \in Sampled BY CkLogSyncEffect DEF Sampled, Writing
  <1>2. /\ resident' = resident /\ saved' = saved /\ last' = last /\ mark' = mark
        /\ reader' = reader /\ ck'.orphans = ck.orphans /\ ck'.marks = ck.marks
        /\ ck'.ages = ck.ages /\ ck'.slot = ck.slot /\ live' = live
    BY CkLogSyncEffect
  <1> QED BY <1>1, <1>2, HandlesMove

\* CkAppend keeps Handles.
LEMMA Handles_CkAppend ==
  ASSUME Typed, Typed', Stages, Handles, CkAppend
  PROVE  Handles'
  <1>1. /\ ck.pc \in Sampled /\ ck'.pc \in Sampled BY CkAppendEffect DEF Sampled, Writing
  <1>2. /\ resident' = resident /\ saved' = saved /\ last' = last /\ mark' = mark
        /\ reader' = reader /\ ck'.orphans = ck.orphans /\ ck'.marks = ck.marks
        /\ ck'.ages = ck.ages /\ ck'.slot = ck.slot /\ live' = live
    BY CkAppendEffect
  <1> QED BY <1>1, <1>2, HandlesMove

\* CkAppendSync keeps Handles.
LEMMA Handles_CkAppendSync ==
  ASSUME Typed, Typed', Stages, Handles, CkAppendSync
  PROVE  Handles'
  <1>1. /\ ck.pc \in Sampled /\ ck'.pc \in Sampled BY CkAppendSyncEffect DEF Sampled, Writing
  <1>2. /\ resident' = resident /\ saved' = saved /\ last' = last /\ mark' = mark
        /\ reader' = reader /\ ck'.orphans = ck.orphans /\ ck'.marks = ck.marks
        /\ ck'.ages = ck.ages /\ ck'.slot = ck.slot /\ live' = live
    BY CkAppendSyncEffect
  <1> QED BY <1>1, <1>2, HandlesMove

\* CkSetJournal keeps Handles.
LEMMA Handles_CkSetJournal ==
  ASSUME Typed, Typed', Stages, Handles, CkSetJournal
  PROVE  Handles'
  <1>1. /\ ck.pc \in Sampled /\ ck'.pc \in Sampled BY CkSetJournalEffect DEF Sampled, Writing
  <1>2. /\ resident' = resident /\ saved' = saved /\ last' = last /\ mark' = mark
        /\ reader' = reader /\ ck'.orphans = ck.orphans /\ ck'.marks = ck.marks
        /\ ck'.ages = ck.ages /\ ck'.slot = ck.slot /\ live' = live
    BY CkSetJournalEffect
  <1> QED BY <1>1, <1>2, HandlesMove

\* CkRevise keeps Handles.
LEMMA Handles_CkRevise ==
  ASSUME Typed, Typed', Stages, Handles, CkRevise
  PROVE  Handles'
  <1>1. Absent'
    <2>1. /\ ck.pc = "revise" /\ resident' = resident /\ last' = last
          /\ \A q \in Pages : saved'[q] = (IF ck.ages[q] # 0 /\ q \notin ck.orphans
                                           THEN ck.ages[q] ELSE saved[q])
      BY CkReviseEffect
    <2>2. \A q \in Pages : ck.ages[q] # 0 /\ q \notin ck.orphans => q \in resident
      BY <2>1 DEF Handles, TaskOwned
    <2> QED BY <2>1, <2>2 DEF Handles, Absent
  <1>2. MarkOwned'
    <2>1. mark' = mark /\ resident' = resident /\ last' = last BY CkReviseEffect
    <2> QED BY <2>1 DEF Handles, MarkOwned
  <1>3. StampOwned'
    <2>1. reader' = reader /\ last' = last BY CkReviseEffect
    <2> QED BY <2>1 DEF Handles, StampOwned
  <1>4. TaskOwned'
    <2>1. /\ ck.pc = "revise" /\ ck'.pc = "finish" /\ ck'.slot = ck.slot
          /\ ck'.marks = ck.marks /\ ck'.ages = ck.ages /\ ck'.orphans = ck.orphans
          /\ resident' = resident /\ last' = last /\ live' = live
      BY CkReviseEffect
    <2> QED BY <2>1, TaskFields DEF Handles, TaskOwned
  <1>5. NoOrphans'
    <2>1. /\ ck.pc = "revise" /\ ck'.pc = "finish" /\ ck'.orphans = ck.orphans
      BY CkReviseEffect
    <2> QED BY <2>1, TaskFields DEF Handles, NoOrphans
  <1> QED BY <1>1, <1>2, <1>3, <1>4, <1>5 DEF Handles

\* CkFinish keeps Handles.
LEMMA Handles_CkFinish ==
  ASSUME Typed, Typed', Stages, Handles, CkFinish
  PROVE  Handles'
  <1>1. Absent'
    <2>1. resident' = resident /\ saved' = saved /\ last' = last BY CkFinishEffect
    <2> QED BY <2>1 DEF Handles, Absent
  <1>2. MarkOwned'
    <2>1. mark' = mark /\ resident' = resident /\ last' = last BY CkFinishEffect
    <2> QED BY <2>1 DEF Handles, MarkOwned
  <1>3. StampOwned'
    <2>1. reader' = reader /\ last' = last BY CkFinishEffect
    <2> QED BY <2>1 DEF Handles, StampOwned
  <1>4. TaskOwned'
    <2>1. ck'.marks = Clean /\ ck'.ages = NoAges BY CkFinishEffect
    <2> QED BY <2>1 DEF TaskOwned, Clean, NoAges
  <1>5. NoOrphans'
    <2>1. /\ ck.pc = "finish" /\ ck'.pc = "idle" /\ ck'.orphans = {}
      BY CkFinishEffect
    <2> QED BY <2>1, TaskFields DEF Handles, NoOrphans
  <1> QED BY <1>1, <1>2, <1>3, <1>4, <1>5 DEF Handles

\* CkFail keeps Handles.
LEMMA Handles_CkFail ==
  ASSUME Typed, Typed', Stages, Handles, CkFail
  PROVE  Handles'
  <1>1. Absent'
    <2>1. resident' = resident /\ saved' = saved /\ last' = last BY CkFailEffect
    <2> QED BY <2>1 DEF Handles, Absent
  <1>2. MarkOwned'
    <2>1. mark' = mark /\ resident' = resident /\ last' = last BY CkFailEffect
    <2> QED BY <2>1 DEF Handles, MarkOwned
  <1>3. StampOwned'
    <2>1. reader' = reader /\ last' = last BY CkFailEffect
    <2> QED BY <2>1 DEF Handles, StampOwned
  <1>4. TaskOwned'
    <2>1. /\ ck.pc # "finish"
          /\ ck'.marks = ck.marks /\ ck'.orphans = ck.orphans /\ ck'.slot = ck.slot
          /\ ck'.ages = ck.ages /\ resident' = resident /\ last' = last /\ live' = live
      BY CkFailEffect DEF Writing
    <2> QED BY <2>1 DEF Handles, TaskOwned
  <1>5. NoOrphans'
    <2>1. /\ ck.pc \in {"encode", "base", "baseSync", "log", "logSync", "append", "appendSync"}
          /\ ck'.pc = "drop" /\ ck'.orphans = ck.orphans
      BY CkFailEffect DEF Writing
    <2> QED BY <2>1, TaskFields DEF Handles, NoOrphans
  <1> QED BY <1>1, <1>2, <1>3, <1>4, <1>5 DEF Handles

\* CkDropSummary keeps Handles.
LEMMA Handles_CkDropSummary ==
  ASSUME Typed, Typed', Stages, Handles, CkDropSummary
  PROVE  Handles'
  <1>1. Absent'
    <2>1. resident' = resident /\ saved' = saved /\ last' = last BY CkDropSummaryEffect
    <2> QED BY <2>1 DEF Handles, Absent
  <1>2. MarkOwned'
    <2>1. mark' = mark /\ resident' = resident /\ last' = last BY CkDropSummaryEffect
    <2> QED BY <2>1 DEF Handles, MarkOwned
  <1>3. StampOwned'
    <2>1. reader' = reader /\ last' = last BY CkDropSummaryEffect
    <2> QED BY <2>1 DEF Handles, StampOwned
  <1>4. TaskOwned'
    <2>1. ck'.marks = Clean /\ ck'.ages = NoAges BY CkDropSummaryEffect
    <2> QED BY <2>1 DEF TaskOwned, Clean, NoAges
  <1>5. NoOrphans'
    <2>1. /\ ck.pc = "drop" /\ ck'.pc = "idle" /\ ck'.orphans = {}
      BY CkDropSummaryEffect
    <2> QED BY <2>1, TaskFields DEF Handles, NoOrphans
  <1> QED BY <1>1, <1>2, <1>3, <1>4, <1>5 DEF Handles

\* CkConsume keeps Handles.
LEMMA Handles_CkConsume ==
  ASSUME Typed, Typed', Stages, Handles, CkConsume
  PROVE  Handles'
  <1>0. PICK p \in ck.todo :
         /\ p \in Pages /\ ck.pc = "consume" /\ ck'.pc = "sample" /\ ck'.page = p
         /\ ck'.todo = ck.todo \ {p} /\ ck'.marks = [ck.marks EXCEPT ![p] = mark[p]]
         /\ mark' = [mark EXCEPT ![p] = Unknown]
         /\ ck'.ceiling = ck.ceiling /\ ck'.upto = ck.upto /\ ck'.journal = ck.journal
         /\ ck'.full = ck.full /\ ck'.gone = ck.gone /\ ck'.slot = ck.slot
         /\ ck'.held = ck.held /\ ck'.since = ck.since /\ ck'.replace = ck.replace
         /\ ck'.revision = ck.revision /\ ck'.ages = ck.ages /\ ck'.orphans = ck.orphans
         /\ reader' = reader
         /\ now' = now /\ resident' = resident /\ last' = last
         /\ live' = live /\ blockDirty' = blockDirty
         /\ shardDirty' = shardDirty /\ revision' = revision
         /\ savedRevision' = savedRevision /\ reg' = reg /\ base' = base
         /\ log' = log /\ bases' = bases /\ logs' = logs /\ saved' = saved
         /\ fails' = fails /\ crashes' = crashes
    BY CkConsumeEffect
  <1>1. Absent'
    <2>1. resident' = resident /\ saved' = saved /\ last' = last BY <1>0
    <2> QED BY <2>1 DEF Handles, Absent
  <1>2. MarkOwned'
    <2>1. /\ p \in Pages /\ ck.pc = "consume" /\ mark' = [mark EXCEPT ![p] = Unknown]
          /\ resident' = resident /\ last' = last
      BY <1>0
    <2> QED BY <2>1, TaskFields DEF Handles, MarkOwned
  <1>3. StampOwned'
    <2>1. reader' = reader /\ last' = last BY <1>0
    <2> QED BY <2>1 DEF Handles, StampOwned
  <1>4. TaskOwned'
    <2>1. /\ p \in ck.todo /\ p \in Pages /\ ck.pc = "consume" /\ ck'.pc = "sample"
          /\ ck'.ages = ck.ages /\ ck'.orphans = ck.orphans /\ ck'.slot = ck.slot
          /\ resident' = resident /\ last' = last /\ live' = live
          /\ ck'.marks = [ck.marks EXCEPT ![p] = mark[p]] /\ ck.marks \in [Pages -> Stamps]
      BY <1>0, TaskFields
    <2>2. ck.slot = live /\ p \in resident BY <2>1 DEF Stages, TaskStages
    <2>3. mark[p] # Unknown => last[p] # Unknown BY <2>1 DEF Handles, MarkOwned
    <2>4. \A q \in Pages : ck'.marks[q] = IF q = p THEN mark[p] ELSE ck.marks[q] BY <2>1
    <2> QED BY <2>1, <2>2, <2>3, <2>4 DEF Handles, TaskOwned
  <1>5. NoOrphans'
    <2>1. /\ p \in Pages /\ ck.pc = "consume" /\ ck'.pc = "sample"
          /\ ck'.orphans = ck.orphans
      BY <1>0
    <2> QED BY <2>1, TaskFields DEF Handles, NoOrphans
  <1> QED BY <1>1, <1>2, <1>3, <1>4, <1>5 DEF Handles

\* CkDropPage keeps Handles.
LEMMA Handles_CkDropPage ==
  ASSUME Typed, Typed', Stages, Handles, CkDropPage
  PROVE  Handles'
  <1>0. PICK p \in Pages :
         /\ ck.pc = "drop" /\ ck.marks[p] # Unknown
         /\ \A q \in Pages : q # p => mark'[q] = mark[q]
         /\ p \in ck.orphans => mark' = mark
         /\ p \notin ck.orphans => mark'[p] # Unknown
         /\ Dirty(ck.slot, ck.marks[p])
         /\ ck'.marks = [ck.marks EXCEPT ![p] = Unknown]
         /\ ck'.pc = ck.pc /\ ck'.page = ck.page /\ ck'.todo = ck.todo
         /\ ck'.ceiling = ck.ceiling /\ ck'.upto = ck.upto /\ ck'.journal = ck.journal
         /\ ck'.full = ck.full /\ ck'.gone = ck.gone /\ ck'.slot = ck.slot
         /\ ck'.held = ck.held /\ ck'.since = ck.since /\ ck'.replace = ck.replace
         /\ ck'.revision = ck.revision /\ ck'.ages = ck.ages /\ ck'.orphans = ck.orphans
         /\ reader' = reader
         /\ now' = now /\ resident' = resident /\ last' = last
         /\ live' = live /\ revision' = revision
         /\ savedRevision' = savedRevision /\ reg' = reg /\ base' = base
         /\ log' = log /\ bases' = bases /\ logs' = logs /\ saved' = saved
         /\ fails' = fails /\ crashes' = crashes
    BY CkDropPageEffect
  <1>1. Absent'
    <2>1. resident' = resident /\ saved' = saved /\ last' = last BY <1>0
    <2> QED BY <2>1 DEF Handles, Absent
  <1>2. MarkOwned'
    <2>1. /\ ck.pc = "drop" /\ ck.marks[p] # Unknown /\ resident' = resident /\ last' = last
          /\ \A q \in Pages : q # p => mark'[q] = mark[q]
          /\ p \in ck.orphans => mark' = mark
      BY <1>0
    <2>2. p \notin ck.orphans => p \in resident /\ last[p] # Unknown
      BY <2>1 DEF Handles, TaskOwned
    <2> QED BY <2>1, <2>2 DEF Handles, MarkOwned
  <1>3. StampOwned'
    <2>1. reader' = reader /\ last' = last BY <1>0
    <2> QED BY <2>1 DEF Handles, StampOwned
  <1>4. TaskOwned'
    <2>1. /\ ck.pc = "drop" /\ ck.marks[p] # Unknown
          /\ ck'.marks = [ck.marks EXCEPT ![p] = Unknown] /\ ck'.pc = ck.pc
          /\ ck'.slot = ck.slot /\ ck'.ages = ck.ages /\ ck'.orphans = ck.orphans
          /\ resident' = resident /\ last' = last /\ live' = live
      BY <1>0
    <2> QED BY <2>1, TaskFields DEF Handles, TaskOwned
  <1>5. NoOrphans'
    <2>1. ck'.pc = ck.pc /\ ck'.orphans = ck.orphans BY <1>0
    <2> QED BY <2>1 DEF Handles, NoOrphans
  <1> QED BY <1>1, <1>2, <1>3, <1>4, <1>5 DEF Handles

\* Create keeps Handles.
LEMMA Handles_Create ==
  ASSUME Typed, Typed', Stages, Handles, Create
  PROVE  Handles'
  <1>1. Absent'
    <2>1. resident' = resident /\ saved' = saved /\ last' = last BY CreateEffect
    <2> QED BY <2>1 DEF Handles, Absent
  <1>2. MarkOwned'
    <2>1. mark' = mark /\ resident' = resident /\ last' = last BY CreateEffect
    <2> QED BY <2>1 DEF Handles, MarkOwned
  <1>3. StampOwned'
    <2>1. reader' = reader /\ last' = last BY CreateEffect
    <2> QED BY <2>1 DEF Handles, StampOwned
  <1>4. TaskOwned'
    <2>1. ck' = ck /\ resident' = resident /\ last' = last /\ live = 0 BY CreateEffect
    <2>2. resident = {} BY <2>1 DEF Stages, Slots
    <2> QED BY <2>1, <2>2 DEF Handles, TaskOwned
  <1>5. NoOrphans'
    <2>1. ck' = ck BY CreateEffect
    <2> QED BY <2>1 DEF Handles, NoOrphans
  <1> QED BY <1>1, <1>2, <1>3, <1>4, <1>5 DEF Handles

\* Retire keeps Handles.
LEMMA Handles_Retire ==
  ASSUME Typed, Typed', Stages, Handles, Retire
  PROVE  Handles'
  <1>1. Absent'
    <2>1. resident' = resident /\ saved' = saved /\ last' = last BY RetireEffect
    <2> QED BY <2>1 DEF Handles, Absent
  <1>2. MarkOwned'
    <2>1. mark' = mark /\ resident' = resident /\ last' = last BY RetireEffect
    <2> QED BY <2>1 DEF Handles, MarkOwned
  <1>3. StampOwned'
    <2>1. reader' = reader /\ last' = last BY RetireEffect
    <2> QED BY <2>1 DEF Handles, StampOwned
  <1>4. TaskOwned'
    <2>1. /\ live # 0 /\ resident = {} /\ ~(ck.held /\ ck.slot = live) /\ live' = 0
          /\ resident' = resident /\ last' = last /\ ck' = ck
      BY RetireEffect
    <2> QED BY <2>1, TaskFields DEF Handles, TaskOwned
  <1>5. NoOrphans'
    <2>1. ck' = ck BY RetireEffect
    <2> QED BY <2>1 DEF Handles, NoOrphans
  <1> QED BY <1>1, <1>2, <1>3, <1>4, <1>5 DEF Handles

\* Tick keeps Handles.
LEMMA Handles_Tick ==
  ASSUME Typed, Typed', Stages, Handles, Tick
  PROVE  Handles'
  <1>1. /\ resident' = resident /\ saved' = saved /\ last' = last /\ mark' = mark
        /\ reader' = reader /\ live' = live /\ ck' = ck
    BY TickEffect
  <1> QED BY <1>1, HandlesFrame

\* ReadDone keeps Handles.
LEMMA Handles_ReadDone ==
  ASSUME Typed, Typed', Stages, Handles, NEW r \in Readers, ReadDone(r)
  PROVE  Handles'
  <1>1. Absent'
    <2>1. resident' = resident /\ saved' = saved /\ last' = last BY ReadDoneEffect
    <2> QED BY <2>1 DEF Handles, Absent
  <1>2. MarkOwned'
    <2>1. mark' = mark /\ resident' = resident /\ last' = last BY ReadDoneEffect
    <2> QED BY <2>1 DEF Handles, MarkOwned
  <1>3. StampOwned'
    <2>1. Others(r) /\ last' = last /\ reader'[r].pc # "stamped" BY ReadDoneEffect
    <2> QED BY <2>1 DEF Handles, StampOwned, Others
  <1>4. TaskOwned'
    <2>1. resident' = resident /\ live' = live /\ last' = last /\ ck' = ck BY ReadDoneEffect
    <2> QED BY <2>1 DEF Handles, TaskOwned
  <1>5. NoOrphans'
    <2>1. ck' = ck BY ReadDoneEffect
    <2> QED BY <2>1 DEF Handles, NoOrphans
  <1> QED BY <1>1, <1>2, <1>3, <1>4, <1>5 DEF Handles

\* Stamp keeps Handles.
LEMMA Handles_Stamp ==
  ASSUME Typed, Typed', Stages, Handles, NEW r \in Readers, Stamp(r)
  PROVE  Handles'
  <1>1. Absent'
    <2>1. /\ reader[r].pc = "timed" /\ reader[r].page \in resident
          /\ reader[r].page \in Pages
          /\ (\A q \in Pages : q # reader[r].page => last'[q] = last[q])
          /\ (last[reader[r].page] # Unknown
              => last'[reader[r].page] # Unknown /\ last[reader[r].page] <= last'[reader[r].page])
          /\ ((reader'[r].pc = "stamped" /\ reader'[r].page = reader[r].page /\ reader'[r].at = reader[r].at /\ last'[reader[r].page] # Unknown)
              \/ (reader'[r].pc = "idle" /\ last' = last))
          /\ resident' = resident /\ saved' = saved
      BY StampEffect
    <2> QED BY <2>1, TaskFields DEF Handles, Absent
  <1>2. MarkOwned'
    <2>1. /\ reader[r].pc = "timed" /\ reader[r].page \in resident
          /\ reader[r].page \in Pages
          /\ (\A q \in Pages : q # reader[r].page => last'[q] = last[q])
          /\ (last[reader[r].page] # Unknown
              => last'[reader[r].page] # Unknown /\ last[reader[r].page] <= last'[reader[r].page])
          /\ ((reader'[r].pc = "stamped" /\ reader'[r].page = reader[r].page /\ reader'[r].at = reader[r].at /\ last'[reader[r].page] # Unknown)
              \/ (reader'[r].pc = "idle" /\ last' = last))
          /\ resident' = resident /\ mark' = mark
      BY StampEffect
    <2> QED BY <2>1, TaskFields DEF Handles, MarkOwned
  <1>3. StampOwned'
    <2>1. /\ Others(r) /\ reader[r].page \in Pages
          /\ \A q \in Pages : q # reader[r].page => last'[q] = last[q]
          /\ (last[reader[r].page] # Unknown => last'[reader[r].page] # Unknown)
          /\ (reader'[r].pc = "stamped" /\ reader'[r].page = reader[r].page
                /\ last'[reader[r].page] # Unknown)
             \/ reader'[r].pc = "idle"
      BY StampEffect
    <2>2. \A q \in Readers : reader[q].pc = "stamped" => reader[q].page \in Pages
      BY TaskFields DEF Stages, Inside
    <2> QED BY <2>1, <2>2 DEF Handles, StampOwned, Others
  <1>4. TaskOwned'
    <2>1. /\ reader[r].pc = "timed" /\ reader[r].page \in resident
          /\ reader[r].page \in Pages
          /\ (\A q \in Pages : q # reader[r].page => last'[q] = last[q])
          /\ (last[reader[r].page] # Unknown
              => last'[reader[r].page] # Unknown /\ last[reader[r].page] <= last'[reader[r].page])
          /\ ((reader'[r].pc = "stamped" /\ reader'[r].page = reader[r].page /\ reader'[r].at = reader[r].at /\ last'[reader[r].page] # Unknown)
              \/ (reader'[r].pc = "idle" /\ last' = last))
          /\ resident' = resident /\ live' = live /\ ck' = ck
      BY StampEffect
    <2> QED BY <2>1, TaskFields DEF Handles, TaskOwned
  <1>5. NoOrphans'
    <2>1. ck' = ck BY StampEffect
    <2> QED BY <2>1 DEF Handles, NoOrphans
  <1> QED BY <1>1, <1>2, <1>3, <1>4, <1>5 DEF Handles

\* Mark keeps Handles.
LEMMA Handles_Mark ==
  ASSUME Typed, Typed', Stages, Handles, NEW r \in Readers, Mark(r)
  PROVE  Handles'
  <1>1. Absent'
    <2>1. resident' = resident /\ saved' = saved /\ last' = last BY MarkEffect
    <2> QED BY <2>1 DEF Handles, Absent
  <1>2. MarkOwned'
    <2>1. /\ reader[r].page \in resident /\ reader[r].pc = "stamped" /\ last' = last
          /\ resident' = resident
          /\ \A q \in Pages : q # reader[r].page => mark'[q] = mark[q]
      BY MarkEffect
    <2>2. last[reader[r].page] # Unknown BY <2>1 DEF Handles, StampOwned
    <2> QED BY <2>1, <2>2 DEF Handles, MarkOwned
  <1>3. StampOwned'
    <2>1. Others(r) /\ last' = last /\ reader'[r].pc # "stamped" BY MarkEffect
    <2> QED BY <2>1 DEF Handles, StampOwned, Others
  <1>4. TaskOwned'
    <2>1. resident' = resident /\ live' = live /\ last' = last /\ ck' = ck BY MarkEffect
    <2> QED BY <2>1 DEF Handles, TaskOwned
  <1>5. NoOrphans'
    <2>1. ck' = ck BY MarkEffect
    <2> QED BY <2>1 DEF Handles, NoOrphans
  <1> QED BY <1>1, <1>2, <1>3, <1>4, <1>5 DEF Handles

\* Notify keeps Handles.
LEMMA Handles_Notify ==
  ASSUME Typed, Typed', Stages, Handles, NEW r \in Readers, Notify(r)
  PROVE  Handles'
  <1>1. Absent'
    <2>1. resident' = resident /\ saved' = saved /\ last' = last BY NotifyEffect
    <2> QED BY <2>1 DEF Handles, Absent
  <1>2. MarkOwned'
    <2>1. mark' = mark /\ resident' = resident /\ last' = last BY NotifyEffect
    <2> QED BY <2>1 DEF Handles, MarkOwned
  <1>3. StampOwned'
    <2>1. Others(r) /\ last' = last /\ reader'[r].pc # "stamped" BY NotifyEffect
    <2> QED BY <2>1 DEF Handles, StampOwned, Others
  <1>4. TaskOwned'
    <2>1. resident' = resident /\ live' = live /\ last' = last /\ ck' = ck BY NotifyEffect
    <2> QED BY <2>1 DEF Handles, TaskOwned
  <1>5. NoOrphans'
    <2>1. ck' = ck BY NotifyEffect
    <2> QED BY <2>1 DEF Handles, NoOrphans
  <1> QED BY <1>1, <1>2, <1>3, <1>4, <1>5 DEF Handles

\* Queue keeps Handles.
LEMMA Handles_Queue ==
  ASSUME Typed, Typed', Stages, Handles, NEW r \in Readers, Queue(r)
  PROVE  Handles'
  <1>1. Absent'
    <2>1. resident' = resident /\ saved' = saved /\ last' = last BY QueueEffect
    <2> QED BY <2>1 DEF Handles, Absent
  <1>2. MarkOwned'
    <2>1. mark' = mark /\ resident' = resident /\ last' = last BY QueueEffect
    <2> QED BY <2>1 DEF Handles, MarkOwned
  <1>3. StampOwned'
    <2>1. Others(r) /\ last' = last /\ reader'[r].pc # "stamped" BY QueueEffect
    <2> QED BY <2>1 DEF Handles, StampOwned, Others
  <1>4. TaskOwned'
    <2>1. resident' = resident /\ live' = live /\ last' = last /\ ck' = ck BY QueueEffect
    <2> QED BY <2>1 DEF Handles, TaskOwned
  <1>5. NoOrphans'
    <2>1. ck' = ck BY QueueEffect
    <2> QED BY <2>1 DEF Handles, NoOrphans
  <1> QED BY <1>1, <1>2, <1>3, <1>4, <1>5 DEF Handles

\* Register keeps Handles.
LEMMA Handles_Register ==
  ASSUME Typed, Typed', Stages, Handles, NEW p \in Pages, Register(p)
  PROVE  Handles'
  <1>1. Absent'
    <2>1. /\ live # 0 /\ ck.pc \notin {"consume", "sample"} /\ resident' = resident \cup {p}
          /\ last' \in [Pages -> Stamps]
          /\ (\A q \in Pages : q # p => last'[q] = last[q] /\ mark'[q] = mark[q] /\ saved'[q] = saved[q])
          /\ last'[p] # Unknown /\ (p \notin resident => saved'[p] = 0)
          /\ (p \in resident => saved'[p] = saved[p] /\ (last[p] # Unknown => last[p] <= last'[p]))
      BY RegisterEffect
    <2> QED BY <2>1, TaskFields DEF Handles, Absent
  <1>2. MarkOwned'
    <2>1. /\ live # 0 /\ ck.pc \notin {"consume", "sample"} /\ resident' = resident \cup {p}
          /\ last' \in [Pages -> Stamps]
          /\ (\A q \in Pages : q # p => last'[q] = last[q] /\ mark'[q] = mark[q] /\ saved'[q] = saved[q])
          /\ last'[p] # Unknown
          /\ (p \in resident => saved'[p] = saved[p] /\ (last[p] # Unknown => last[p] <= last'[p]))
      BY RegisterEffect
    <2> QED BY <2>1, TaskFields DEF Handles, MarkOwned
  <1>3. StampOwned'
    <2>1. /\ reader' = reader /\ last'[p] # Unknown
          /\ \A q \in Pages : q # p => last'[q] = last[q]
      BY RegisterEffect
    <2>2. \A r \in Readers : reader[r].pc = "stamped" => reader[r].page \in Pages
      BY TaskFields DEF Stages, Inside
    <2> QED BY <2>1, <2>2 DEF Handles, StampOwned
  <1>4. TaskOwned'
    <2>1. /\ live # 0 /\ ck.pc \notin {"consume", "sample"} /\ resident' = resident \cup {p}
          /\ last' \in [Pages -> Stamps]
          /\ (\A q \in Pages : q # p => last'[q] = last[q] /\ mark'[q] = mark[q] /\ saved'[q] = saved[q])
          /\ last'[p] # Unknown
          /\ (p \in resident => saved'[p] = saved[p] /\ (last[p] # Unknown => last[p] <= last'[p]))
          /\ live' = live /\ ck' = ck
      BY RegisterEffect
    <2> QED BY <2>1, TaskFields DEF Handles, TaskOwned
  <1>5. NoOrphans'
    <2>1. ck' = ck BY RegisterEffect
    <2> QED BY <2>1 DEF Handles, NoOrphans
  <1> QED BY <1>1, <1>2, <1>3, <1>4, <1>5 DEF Handles

\* Delete keeps Handles.
LEMMA Handles_Delete ==
  ASSUME Typed, Typed', Stages, Handles, NEW p \in Pages, Delete(p)
  PROVE  Handles'
  <1>1. Absent'
    <2>1. /\ p \in resident /\ ck.pc \notin {"consume", "sample"}
          /\ (\A r \in Readers : reader[r].pc = "idle" \/ reader[r].page # p)
          /\ resident' = resident \ {p}
          /\ (\A q \in Pages : q # p => last'[q] = last[q] /\ mark'[q] = mark[q] /\ saved'[q] = saved[q])
          /\ last'[p] = Unknown /\ saved'[p] = 0
      BY DeleteEffect
    <2> QED BY <2>1, TaskFields DEF Handles, Absent
  <1>2. MarkOwned'
    <2>1. /\ p \in resident /\ ck.pc \notin {"consume", "sample"}
          /\ (\A r \in Readers : reader[r].pc = "idle" \/ reader[r].page # p)
          /\ resident' = resident \ {p}
          /\ (\A q \in Pages : q # p => last'[q] = last[q] /\ mark'[q] = mark[q] /\ saved'[q] = saved[q])
          /\ last'[p] = Unknown /\ mark'[p] = Unknown
      BY DeleteEffect
    <2> QED BY <2>1, TaskFields DEF Handles, MarkOwned
  <1>3. StampOwned'
    <2>1. /\ reader' = reader /\ \A q \in Pages : q # p => last'[q] = last[q]
          /\ \A r \in Readers : reader[r].pc = "idle" \/ reader[r].page # p
      BY DeleteEffect
    <2>2. \A r \in Readers : reader[r].pc = "stamped" => reader[r].page \in Pages
      BY TaskFields DEF Stages, Inside
    <2> QED BY <2>1, <2>2 DEF Handles, StampOwned
  <1>4. TaskOwned'
    <2>1. /\ ck'.pc = ck.pc /\ ck'.marks = ck.marks /\ ck'.ages = ck.ages /\ ck'.slot = ck.slot
          /\ live' = live /\ resident' = resident \ {p}
          /\ \A q \in Pages : q # p => last'[q] = last[q]
          /\ ck.pc = "idle" \/ ck'.orphans = ck.orphans \cup {p}
      BY DeleteEffect
    <2>2. CASE ck.pc = "idle"
      <3>1. ck.marks = Clean /\ ck.ages = NoAges BY <2>2 DEF Stages, TaskStages
      <3> QED BY <2>1, <3>1 DEF TaskOwned, Clean, NoAges
    <2>3. CASE ck'.orphans = ck.orphans \cup {p}
      BY <2>1, <2>3 DEF Handles, TaskOwned
    <2> QED BY <2>1, <2>2, <2>3
  <1>5. NoOrphans'
    <2>1. /\ p \in resident /\ ck.pc \notin {"consume", "sample"}
          /\ (\A r \in Readers : reader[r].pc = "idle" \/ reader[r].page # p)
          /\ (ck'.orphans = (IF ck.pc = "idle" THEN ck.orphans ELSE ck.orphans \cup {p}))
          /\ ck'.pc = ck.pc
      BY DeleteEffect
    <2> QED BY <2>1, TaskFields DEF Handles, NoOrphans
  <1> QED BY <1>1, <1>2, <1>3, <1>4, <1>5 DEF Handles

\* Restart keeps Handles.
LEMMA Handles_Restart ==
  ASSUME Typed, Typed', Stages, Handles, Restart
  PROVE  Handles'
  <1>1. PICK b \in bases, l \in logs, found \in SUBSET resident :
           /\ b \in File /\ l \in Log /\ Recovered(b, l) \in Ages
           /\ base' = b /\ bases' = {b} /\ log' = l /\ logs' = {l}
           /\ resident' = found
           /\ last' = [p \in Pages |-> IF p \in found /\ Recovered(b, l)[p] # 0
                                       THEN Recovered(b, l)[p] ELSE Unknown]
           /\ live' = IF found = {} THEN 0 ELSE 1
           /\ reg' \in Registries
           /\ reg'.next = live' /\ reg'.saved = 0 /\ reg'.removed = {} /\ reg'.overflow = 0
           /\ reg'.membership = live' + (IF b.gen = 0 THEN 0 ELSE 1)
           /\ reg'.journal.gen = b.gen /\ reg'.journal.full = TRUE /\ reg'.dir = reg.dir
           /\ saved' = [p \in Pages |-> IF p \in found THEN saved[p] ELSE 0]
    BY RestartFacts
  <1>2. /\ ck' = Idle /\ mark' = Clean /\ blockDirty' = Unknown /\ revision' = 0 /\ savedRevision' = 0
        /\ shardDirty' = [s \in 1 .. MaxSlots |-> Unknown] /\ reader' = [r \in Readers |-> Resting]
    BY DEF Restart
  <1>0. Unknown \in Stamps BY DEF Stamps
  <1>3. Absent' BY <1>1 DEF Absent
  <1>4. MarkOwned' BY <1>2 DEF MarkOwned, Clean
  <1>5. StampOwned' BY <1>2, RestingFields DEF StampOwned
  <1>6. TaskOwned' BY <1>2, IdleFields DEF TaskOwned, Clean, NoAges
  <1>7. NoOrphans' BY <1>2, IdleFields DEF NoOrphans
  <1> QED BY <1>3, <1>4, <1>5, <1>6, <1>7 DEF Handles

\* Every step keeps Handles.
LEMMA HandlesStep ==
  ASSUME Typed, Typed', Stages, Handles, [Next]_vars
  PROVE  Handles'
  <1>1. CASE UNCHANGED vars BY <1>1 DEF vars, memory, disk, ghost, Handles, Absent, MarkOwned,
      StampOwned, TaskOwned, NoOrphans
  <1>2. CASE Tick BY <1>2, Handles_Tick
  <1>3. ASSUME NEW r \in Readers, ReadDone(r) \/ Touch(r) PROVE Handles'
    BY <1>3, Handles_ReadDone, Handles_Stamp, Handles_Mark, Handles_Notify, Handles_Queue DEF Touch
  <1>4. ASSUME NEW p \in Pages, Register(p) \/ Delete(p) PROVE Handles'
    BY <1>4, Handles_Register, Handles_Delete
  <1>5. CASE Create \/ Retire \/ CkTooLarge \/ CkFail \/ Restart
    BY <1>5, Handles_Create, Handles_Retire, Handles_CkTooLarge, Handles_CkFail, Handles_Restart
  <1>6. CASE Checkpoint
    BY <1>6, Handles_CkStart, Handles_CkJournal, Handles_CkPick, Handles_CkSummary,
        Handles_CkSample, Handles_CkSampled, Handles_CkNoDirectory, Handles_CkEncode,
        Handles_CkBase, Handles_CkBaseSync, Handles_CkLog, Handles_CkLogSync, Handles_CkAppend,
        Handles_CkAppendSync, Handles_CkSetJournal, Handles_CkRevise, Handles_CkFinish,
        Handles_CkDropSummary, Handles_CkConsume, Handles_CkDropPage DEF Checkpoint
  <1> QED BY <1>1, <1>2, <1>3, <1>4, <1>5, <1>6 DEF Next

-----------------------------------------------------------------------------
(* Lives: the block retired and created again                              *)

\* A step that touches no counter keeps Lives.
LEMMA LivesFrame ==
  ASSUME Lives,
         /\ reg'.saved = reg.saved /\ reg'.membership = reg.membership
         /\ reg'.removed = reg.removed /\ reg'.overflow = reg.overflow /\ ck'.pc = ck.pc
         /\ ck'.upto = ck.upto /\ live' = live /\ revision' = revision
         /\ savedRevision' = savedRevision /\ ck'.slot = ck.slot
         /\ ck'.revision = ck.revision /\ ck'.ceiling = ck.ceiling /\ resident' = resident
         /\ saved' = saved /\ ck'.gone = ck.gone /\ ck'.full = ck.full
  PROVE  Lives'
  <1>1. Counters' BY DEF Lives, Counters
  <1>2. Revisions' BY DEF Lives, Revisions, Holding, Sampled, Writing, Stages, TaskStages
  <1>3. OldLife' BY DEF Lives, OldLife, Later
  <1>4. YoungLife' BY DEF Lives, YoungLife, NewLife
  <1>5. LaterLife' BY DEF Lives, LaterLife, Later, NewLife
  <1>6. TombDue' BY DEF Lives, TombDue, Holding, Sampled, Writing
  <1>7. NoTombDue' BY DEF Lives, NoTombDue, Holding, Sampled, Writing, Counters
  <1>8. NoOverflow' BY DEF Lives, NoOverflow, Holding, Sampled, Writing, Counters
  <1>9. Skipped' BY DEF Lives, Skipped, Holding, Sampled, Writing, Stages, TaskStages, Slots, Eligible
  <1> QED BY <1>1, <1>2, <1>3, <1>4, <1>5, <1>6, <1>7, <1>8, <1>9 DEF Lives


\* A task that sampled and moves on keeps Lives.
LEMMA LivesMove ==
  ASSUME Typed, Typed', Stages, Handles, Lives,
         /\ ck.pc \in Sampled /\ ck'.pc \in Sampled /\ reg'.saved = reg.saved
         /\ reg'.membership = reg.membership /\ reg'.removed = reg.removed
         /\ reg'.overflow = reg.overflow /\ ck'.upto = ck.upto /\ live' = live
         /\ revision' = revision /\ savedRevision' = savedRevision /\ ck'.slot = ck.slot
         /\ ck'.revision = ck.revision /\ ck'.ceiling = ck.ceiling /\ resident' = resident
         /\ saved' = saved /\ ck'.gone = ck.gone /\ ck'.full = ck.full
  PROVE  Lives'
  <1>1. Counters' BY DEF Lives, Counters, Holding, Sampled, Writing
  <1>2. Revisions' BY DEF Lives, Revisions, Holding, Sampled, Writing, Stages, TaskStages
  <1>3. OldLife' BY DEF Lives, OldLife, Later, Holding, Sampled, Writing
  <1>4. YoungLife' BY DEF Lives, YoungLife, NewLife, Holding, Sampled, Writing
  <1>5. LaterLife' BY DEF Lives, LaterLife, Later, NewLife, Holding, Sampled, Writing
  <1>6. TombDue' BY DEF Lives, TombDue, Holding, Sampled, Writing
  <1>7. NoTombDue' BY DEF Lives, NoTombDue, Holding, Sampled, Writing, Counters
  <1>8. NoOverflow' BY DEF Lives, NoOverflow, Holding, Sampled, Writing, Counters
  <1>9. Skipped' BY DEF Lives, Skipped, Holding, Sampled, Writing, Stages, TaskStages, Slots, Eligible
  <1> QED BY <1>1, <1>2, <1>3, <1>4, <1>5, <1>6, <1>7, <1>8, <1>9 DEF Lives


\* CkStart keeps Lives.
LEMMA Lives_CkStart ==
  ASSUME Typed, Typed', Stages, Handles, Lives, CkStart
  PROVE  Lives'
  <1>1. Counters'
    <2>1. /\ ck.pc = "idle" /\ Due /\ ck'.pc = "journal" /\ ck'.upto = reg.membership
          /\ reg' = reg
      BY CkStartEffect
    <2> QED BY <2>1, TaskFields DEF Lives, Counters
  <1>2. Revisions'
    <2>1. /\ ck.pc = "idle" /\ Due /\ ck'.pc = "journal" /\ ck'.slot = 0 /\ ck'.revision = 0
          /\ live' = live /\ revision' = revision /\ savedRevision' = savedRevision
      BY CkStartEffect
    <2> QED BY <2>1, TaskFields, Bounds
        DEF Lives, Revisions, Holding, Sampled, Writing, Stages, TaskStages
  <1>3. OldLife'
    <2>1. ck'.upto = reg.membership /\ reg' = reg BY CkStartEffect
    <2>2. ~Later(reg.membership) BY Numbers DEF Later, Lives, Counters
    <2> QED BY <2>1, <2>2 DEF OldLife, Later
  <1>4. YoungLife'
    <2>1. live' = live /\ ck'.ceiling = reg.next BY CkStartEffect
    <2>2. live <= reg.next BY DEF Stages, Slots
    <2> QED BY <2>1, <2>2, TaskFields, Bounds DEF YoungLife
  <1>5. LaterLife'
    <2>1. /\ ck.pc = "idle" /\ Due /\ ck'.pc = "journal" /\ ck'.upto = reg.membership
          /\ resident' = resident /\ revision' = revision /\ savedRevision' = savedRevision
          /\ reg' = reg /\ saved' = saved
      BY CkStartEffect
    <2> QED BY <2>1, TaskFields, Bounds DEF Lives, LaterLife, Later, NewLife
  <1>6. TombDue'
    <2>1. /\ ck.pc = "idle" /\ Due /\ ck'.pc = "journal" /\ ck'.upto = reg.membership
          /\ ck'.gone = FALSE /\ reg' = reg
      BY CkStartEffect
    <2> QED BY <2>1, TaskFields DEF Lives, TombDue, Holding, Sampled, Writing
  <1>7. NoTombDue'
    <2>1. /\ ck.pc = "idle" /\ Due /\ ck'.pc = "journal" /\ ck'.upto = reg.membership
          /\ ck'.full = FALSE /\ ck'.gone = FALSE /\ reg' = reg
      BY CkStartEffect
    <2> QED BY <2>1, TaskFields DEF Lives, NoTombDue, Holding, Sampled, Writing, Counters
  <1>8. NoOverflow'
    <2>1. /\ ck.pc = "idle" /\ Due /\ ck'.pc = "journal" /\ ck'.upto = reg.membership
          /\ ck'.full = FALSE /\ reg' = reg
      BY CkStartEffect
    <2> QED BY <2>1, TaskFields DEF Lives, NoOverflow, Holding, Sampled, Writing, Counters
  <1>9. Skipped'
    <2>1. /\ ck.pc = "idle" /\ Due /\ ck'.pc = "journal" /\ ck'.ceiling = reg.next
          /\ ck'.full = FALSE /\ ck'.slot = 0 /\ live' = live
      BY CkStartEffect
    <2> QED BY <2>1, TaskFields, Bounds
        DEF Lives, Skipped, Holding, Sampled, Writing, Stages, TaskStages, Slots, Eligible
  <1> QED BY <1>1, <1>2, <1>3, <1>4, <1>5, <1>6, <1>7, <1>8, <1>9 DEF Lives

\* CkJournal keeps Lives.
LEMMA Lives_CkJournal ==
  ASSUME Typed, Typed', Stages, Handles, Lives, CkJournal
  PROVE  Lives'
  <1>1. Counters'
    <2>1. /\ ck.pc = "journal" /\ reg'.membership = reg.membership /\ reg'.saved = reg.saved
          /\ reg'.removed = reg.removed /\ reg'.overflow = reg.overflow /\ ck'.pc = "pick"
          /\ ck'.upto = ck.upto
      BY CkJournalEffect
    <2> QED BY <2>1, TaskFields DEF Lives, Counters
  <1>2. Revisions'
    <2>1. /\ ck.pc = "journal" /\ ck'.pc = "pick" /\ ck'.slot = ck.slot
          /\ ck'.revision = ck.revision /\ live' = live /\ revision' = revision
          /\ savedRevision' = savedRevision
      BY CkJournalEffect
    <2> QED BY <2>1, TaskFields, Bounds
        DEF Lives, Revisions, Holding, Sampled, Writing, Stages, TaskStages
  <1>3. OldLife'
    <2>1. /\ ck.pc = "journal" /\ reg'.removed = reg.removed /\ reg'.overflow = reg.overflow
          /\ ck'.pc = "pick" /\ ck'.ceiling = ck.ceiling /\ ck'.upto = ck.upto
          /\ live' = live
      BY CkJournalEffect
    <2> QED BY <2>1, TaskFields, Bounds DEF Lives, OldLife, Later
  <1>4. YoungLife'
    <2>1. /\ ck.pc = "journal" /\ ck'.pc = "pick" /\ ck'.ceiling = ck.ceiling
          /\ resident' = resident /\ live' = live /\ revision' = revision
          /\ savedRevision' = savedRevision /\ saved' = saved
      BY CkJournalEffect
    <2> QED BY <2>1, Numbers DEF Lives, YoungLife, NewLife
  <1>5. LaterLife'
    <2>1. /\ ck.pc = "journal" /\ reg'.removed = reg.removed /\ reg'.overflow = reg.overflow
          /\ ck'.pc = "pick" /\ ck'.upto = ck.upto /\ resident' = resident
          /\ revision' = revision /\ savedRevision' = savedRevision /\ saved' = saved
      BY CkJournalEffect
    <2> QED BY <2>1, TaskFields, Bounds DEF Lives, LaterLife, Later, NewLife
  <1>6. TombDue'
    <2>1. /\ ck.pc = "journal" /\ (ck'.gone = (\E m \in reg.removed : m <= ck.upto))
          /\ reg'.removed = reg.removed /\ ck'.pc = "pick" /\ ck'.upto = ck.upto
      BY CkJournalEffect
    <2> QED BY <2>1, TaskFields DEF Lives, TombDue, Holding, Sampled, Writing
  <1>7. NoTombDue'
    <2>1. /\ ck.pc = "journal"
          /\ (ck'.full = (reg.journal.full \/ reg.overflow # 0 \/ reg.journal.size >= CompactAt))
          /\ (ck'.gone = (\E m \in reg.removed : m <= ck.upto))
          /\ reg'.removed = reg.removed /\ ck'.pc = "pick" /\ ck'.upto = ck.upto
      BY CkJournalEffect
    <2> QED BY <2>1, TaskFields DEF Lives, NoTombDue, Holding, Sampled, Writing, Counters
  <1>8. NoOverflow'
    <2>1. /\ ck.pc = "journal"
          /\ (ck'.full = (reg.journal.full \/ reg.overflow # 0 \/ reg.journal.size >= CompactAt))
          /\ reg'.overflow = reg.overflow /\ ck'.pc = "pick" /\ ck'.upto = ck.upto
      BY CkJournalEffect
    <2> QED BY <2>1, TaskFields DEF Lives, NoOverflow, Holding, Sampled, Writing, Counters
  <1>9. Skipped'
    <2>1. /\ ck.pc = "journal"
          /\ (ck'.full = (reg.journal.full \/ reg.overflow # 0 \/ reg.journal.size >= CompactAt))
          /\ ck'.pc = "pick" /\ ck'.ceiling = ck.ceiling /\ ck'.slot = ck.slot
          /\ live' = live
      BY CkJournalEffect
    <2> QED BY <2>1, TaskFields, Bounds
        DEF Lives, Skipped, Holding, Sampled, Writing, Stages, TaskStages, Slots, Eligible
  <1> QED BY <1>1, <1>2, <1>3, <1>4, <1>5, <1>6, <1>7, <1>8, <1>9 DEF Lives

\* CkPick keeps Lives.
LEMMA Lives_CkPick ==
  ASSUME Typed, Typed', Stages, Handles, Lives, CkPick
  PROVE  Lives'
  <1>1. Counters'
    <2>1. /\ ck.pc = "pick"
          /\ ((Eligible /\ ck'.pc = "summary" /\ ck'.slot = live /\ ck'.held = TRUE)
              \/ (~Eligible /\ ck'.pc = "encode" /\ ck'.slot = ck.slot /\ ck'.held = ck.held))
          /\ ck'.upto = ck.upto /\ reg' = reg
      BY CkPickEffect
    <2> QED BY <2>1, TaskFields DEF Lives, Counters
  <1>2. Revisions'
    <2>1. /\ ck.pc = "pick"
          /\ ((Eligible /\ ck'.pc = "summary" /\ ck'.slot = live /\ ck'.held = TRUE)
              \/ (~Eligible /\ ck'.pc = "encode" /\ ck'.slot = ck.slot /\ ck'.held = ck.held))
          /\ ck'.revision = ck.revision /\ live' = live /\ revision' = revision
          /\ savedRevision' = savedRevision
      BY CkPickEffect
    <2> QED BY <2>1, TaskFields, Bounds
        DEF Lives, Revisions, Holding, Sampled, Writing, Stages, TaskStages
  <1>3. OldLife'
    <2>1. /\ ck.pc = "pick"
          /\ ((Eligible /\ ck'.pc = "summary" /\ ck'.slot = live /\ ck'.held = TRUE)
              \/ (~Eligible /\ ck'.pc = "encode" /\ ck'.slot = ck.slot /\ ck'.held = ck.held))
          /\ ck'.ceiling = ck.ceiling /\ ck'.upto = ck.upto /\ live' = live /\ reg' = reg
      BY CkPickEffect
    <2> QED BY <2>1, TaskFields, Bounds DEF Lives, OldLife, Later
  <1>4. YoungLife'
    <2>1. /\ ck.pc = "pick"
          /\ ((Eligible /\ ck'.pc = "summary" /\ ck'.slot = live /\ ck'.held = TRUE)
              \/ (~Eligible /\ ck'.pc = "encode" /\ ck'.slot = ck.slot /\ ck'.held = ck.held))
          /\ ck'.ceiling = ck.ceiling /\ resident' = resident /\ live' = live
          /\ revision' = revision /\ savedRevision' = savedRevision /\ saved' = saved
      BY CkPickEffect
    <2> QED BY <2>1, Numbers DEF Lives, YoungLife, NewLife
  <1>5. LaterLife'
    <2>1. /\ ck.pc = "pick"
          /\ ((Eligible /\ ck'.pc = "summary" /\ ck'.slot = live /\ ck'.held = TRUE)
              \/ (~Eligible /\ ck'.pc = "encode" /\ ck'.slot = ck.slot /\ ck'.held = ck.held))
          /\ ck'.upto = ck.upto /\ resident' = resident /\ revision' = revision
          /\ savedRevision' = savedRevision /\ reg' = reg /\ saved' = saved
      BY CkPickEffect
    <2> QED BY <2>1, TaskFields, Bounds DEF Lives, LaterLife, Later, NewLife
  <1>6. TombDue'
    <2>1. /\ ck.pc = "pick"
          /\ ((Eligible /\ ck'.pc = "summary" /\ ck'.slot = live /\ ck'.held = TRUE)
              \/ (~Eligible /\ ck'.pc = "encode" /\ ck'.slot = ck.slot /\ ck'.held = ck.held))
          /\ ck'.upto = ck.upto /\ ck'.gone = ck.gone /\ reg' = reg
      BY CkPickEffect
    <2> QED BY <2>1, TaskFields DEF Lives, TombDue, Holding, Sampled, Writing
  <1>7. NoTombDue'
    <2>1. /\ ck.pc = "pick"
          /\ ((Eligible /\ ck'.pc = "summary" /\ ck'.slot = live /\ ck'.held = TRUE)
              \/ (~Eligible /\ ck'.pc = "encode" /\ ck'.slot = ck.slot /\ ck'.held = ck.held))
          /\ ck'.upto = ck.upto /\ ck'.full = ck.full /\ ck'.gone = ck.gone /\ reg' = reg
      BY CkPickEffect
    <2> QED BY <2>1, TaskFields DEF Lives, NoTombDue, Holding, Sampled, Writing, Counters
  <1>8. NoOverflow'
    <2>1. /\ ck.pc = "pick"
          /\ ((Eligible /\ ck'.pc = "summary" /\ ck'.slot = live /\ ck'.held = TRUE)
              \/ (~Eligible /\ ck'.pc = "encode" /\ ck'.slot = ck.slot /\ ck'.held = ck.held))
          /\ ck'.upto = ck.upto /\ ck'.full = ck.full /\ reg' = reg
      BY CkPickEffect
    <2> QED BY <2>1, TaskFields DEF Lives, NoOverflow, Holding, Sampled, Writing, Counters
  <1>9. Skipped'
    <2>1. /\ ck.pc = "pick"
          /\ ((Eligible /\ ck'.pc = "summary" /\ ck'.slot = live /\ ck'.held = TRUE)
              \/ (~Eligible /\ ck'.pc = "encode" /\ ck'.slot = ck.slot /\ ck'.held = ck.held))
          /\ ck'.ceiling = ck.ceiling /\ ck'.full = ck.full /\ live' = live
      BY CkPickEffect
    <2> QED BY <2>1, Numbers
        DEF Lives, Skipped, Holding, Sampled, Writing, Stages, TaskStages, Slots, Eligible
  <1> QED BY <1>1, <1>2, <1>3, <1>4, <1>5, <1>6, <1>7, <1>8, <1>9 DEF Lives

\* CkSummary keeps Lives.
LEMMA Lives_CkSummary ==
  ASSUME Typed, Typed', Stages, Handles, Lives, CkSummary
  PROVE  Lives'
  <1>1. Counters'
    <2>1. /\ ck.pc = "summary" /\ ck'.pc = "consume" /\ ck'.upto = ck.upto /\ reg' = reg
      BY CkSummaryEffect
    <2> QED BY <2>1, TaskFields DEF Lives, Counters
  <1>2. Revisions'
    <2>1. /\ ck.pc = "summary" /\ ck'.pc = "consume" /\ ck'.slot = ck.slot
          /\ ck'.revision = revision /\ live' = live /\ revision' = revision
          /\ savedRevision' = savedRevision
      BY CkSummaryEffect
    <2> QED BY <2>1, TaskFields, Bounds
        DEF Lives, Revisions, Holding, Sampled, Writing, Stages, TaskStages
  <1>3. OldLife'
    <2>1. /\ ck.pc = "summary" /\ ck'.pc = "consume" /\ ck'.ceiling = ck.ceiling
          /\ ck'.upto = ck.upto /\ live' = live /\ reg' = reg
      BY CkSummaryEffect
    <2> QED BY <2>1, TaskFields, Bounds DEF Lives, OldLife, Later
  <1>4. YoungLife'
    <2>1. /\ ck.pc = "summary" /\ ck'.pc = "consume" /\ ck'.ceiling = ck.ceiling
          /\ resident' = resident /\ live' = live /\ revision' = revision
          /\ savedRevision' = savedRevision /\ saved' = saved
      BY CkSummaryEffect
    <2> QED BY <2>1, Numbers DEF Lives, YoungLife, NewLife
  <1>5. LaterLife'
    <2>1. /\ ck.pc = "summary" /\ ck'.pc = "consume" /\ ck'.upto = ck.upto
          /\ resident' = resident /\ revision' = revision /\ savedRevision' = savedRevision
          /\ reg' = reg /\ saved' = saved
      BY CkSummaryEffect
    <2> QED BY <2>1, TaskFields, Bounds DEF Lives, LaterLife, Later, NewLife
  <1>6. TombDue'
    <2>1. /\ ck.pc = "summary" /\ ck'.pc = "consume" /\ ck'.upto = ck.upto
          /\ ck'.gone = ck.gone /\ reg' = reg
      BY CkSummaryEffect
    <2> QED BY <2>1, TaskFields DEF Lives, TombDue, Holding, Sampled, Writing
  <1>7. NoTombDue'
    <2>1. /\ ck.pc = "summary" /\ ck'.pc = "consume" /\ ck'.upto = ck.upto
          /\ ck'.full = ck.full /\ ck'.gone = ck.gone /\ reg' = reg
      BY CkSummaryEffect
    <2> QED BY <2>1, TaskFields DEF Lives, NoTombDue, Holding, Sampled, Writing, Counters
  <1>8. NoOverflow'
    <2>1. /\ ck.pc = "summary" /\ ck'.pc = "consume" /\ ck'.upto = ck.upto
          /\ ck'.full = ck.full /\ reg' = reg
      BY CkSummaryEffect
    <2> QED BY <2>1, TaskFields DEF Lives, NoOverflow, Holding, Sampled, Writing, Counters
  <1>9. Skipped'
    <2>1. /\ ck.pc = "summary" /\ ck'.pc = "consume" /\ ck'.ceiling = ck.ceiling
          /\ ck'.full = ck.full /\ ck'.slot = ck.slot /\ live' = live
      BY CkSummaryEffect
    <2> QED BY <2>1, TaskFields, Bounds
        DEF Lives, Skipped, Holding, Sampled, Writing, Stages, TaskStages, Slots, Eligible
  <1> QED BY <1>1, <1>2, <1>3, <1>4, <1>5, <1>6, <1>7, <1>8, <1>9 DEF Lives

\* CkSample keeps Lives.
LEMMA Lives_CkSample ==
  ASSUME Typed, Typed', Stages, Handles, Lives, CkSample
  PROVE  Lives'
  <1>1. Counters'
    <2>1. /\ ck.pc = "sample" /\ ck'.pc = "consume" /\ ck'.upto = ck.upto /\ reg' = reg
      BY CkSampleEffect
    <2> QED BY <2>1, TaskFields DEF Lives, Counters
  <1>2. Revisions'
    <2>1. /\ ck.pc = "sample" /\ ck'.pc = "consume" /\ ck'.slot = ck.slot
          /\ ck'.revision = ck.revision /\ live' = live /\ revision' = revision
          /\ savedRevision' = savedRevision
      BY CkSampleEffect
    <2> QED BY <2>1, TaskFields, Bounds
        DEF Lives, Revisions, Holding, Sampled, Writing, Stages, TaskStages
  <1>3. OldLife'
    <2>1. /\ ck.pc = "sample" /\ ck'.pc = "consume" /\ ck'.ceiling = ck.ceiling
          /\ ck'.upto = ck.upto /\ live' = live /\ reg' = reg
      BY CkSampleEffect
    <2> QED BY <2>1, TaskFields, Bounds DEF Lives, OldLife, Later
  <1>4. YoungLife'
    <2>1. /\ ck.pc = "sample" /\ ck'.pc = "consume" /\ ck'.ceiling = ck.ceiling
          /\ resident' = resident /\ live' = live /\ revision' = revision
          /\ savedRevision' = savedRevision /\ saved' = saved
      BY CkSampleEffect
    <2> QED BY <2>1, Numbers DEF Lives, YoungLife, NewLife
  <1>5. LaterLife'
    <2>1. /\ ck.pc = "sample" /\ ck'.pc = "consume" /\ ck'.upto = ck.upto
          /\ resident' = resident /\ revision' = revision /\ savedRevision' = savedRevision
          /\ reg' = reg /\ saved' = saved
      BY CkSampleEffect
    <2> QED BY <2>1, TaskFields, Bounds DEF Lives, LaterLife, Later, NewLife
  <1>6. TombDue'
    <2>1. /\ ck.pc = "sample" /\ ck'.pc = "consume" /\ ck'.upto = ck.upto
          /\ ck'.gone = ck.gone /\ reg' = reg
      BY CkSampleEffect
    <2> QED BY <2>1, TaskFields DEF Lives, TombDue, Holding, Sampled, Writing
  <1>7. NoTombDue'
    <2>1. /\ ck.pc = "sample" /\ ck'.pc = "consume" /\ ck'.upto = ck.upto
          /\ ck'.full = ck.full /\ ck'.gone = ck.gone /\ reg' = reg
      BY CkSampleEffect
    <2> QED BY <2>1, TaskFields DEF Lives, NoTombDue, Holding, Sampled, Writing, Counters
  <1>8. NoOverflow'
    <2>1. /\ ck.pc = "sample" /\ ck'.pc = "consume" /\ ck'.upto = ck.upto
          /\ ck'.full = ck.full /\ reg' = reg
      BY CkSampleEffect
    <2> QED BY <2>1, TaskFields DEF Lives, NoOverflow, Holding, Sampled, Writing, Counters
  <1>9. Skipped'
    <2>1. /\ ck.pc = "sample" /\ ck'.pc = "consume" /\ ck'.ceiling = ck.ceiling
          /\ ck'.full = ck.full /\ ck'.slot = ck.slot /\ live' = live
      BY CkSampleEffect
    <2> QED BY <2>1, TaskFields, Bounds
        DEF Lives, Skipped, Holding, Sampled, Writing, Stages, TaskStages, Slots, Eligible
  <1> QED BY <1>1, <1>2, <1>3, <1>4, <1>5, <1>6, <1>7, <1>8, <1>9 DEF Lives

\* CkSampled keeps Lives.
LEMMA Lives_CkSampled ==
  ASSUME Typed, Typed', Stages, Handles, Lives, CkSampled
  PROVE  Lives'
  <1>1. Counters'
    <2>1. /\ ck.pc = "consume" /\ ck.todo = {} /\ ck'.pc = "encode" /\ ck'.upto = ck.upto
          /\ reg' = reg
      BY CkSampledEffect
    <2> QED BY <2>1, TaskFields DEF Lives, Counters
  <1>2. Revisions'
    <2>1. /\ ck.pc = "consume" /\ ck.todo = {} /\ ck'.pc = "encode" /\ ck'.slot = ck.slot
          /\ ck'.revision = ck.revision /\ live' = live /\ revision' = revision
          /\ savedRevision' = savedRevision
      BY CkSampledEffect
    <2> QED BY <2>1, TaskFields, Bounds
        DEF Lives, Revisions, Holding, Sampled, Writing, Stages, TaskStages
  <1>3. OldLife'
    <2>1. /\ ck.pc = "consume" /\ ck.todo = {} /\ ck'.pc = "encode"
          /\ ck'.ceiling = ck.ceiling /\ ck'.upto = ck.upto /\ live' = live /\ reg' = reg
      BY CkSampledEffect
    <2> QED BY <2>1, TaskFields, Bounds DEF Lives, OldLife, Later
  <1>4. YoungLife'
    <2>1. /\ ck.pc = "consume" /\ ck.todo = {} /\ ck'.pc = "encode"
          /\ ck'.ceiling = ck.ceiling /\ resident' = resident /\ live' = live
          /\ revision' = revision /\ savedRevision' = savedRevision /\ saved' = saved
      BY CkSampledEffect
    <2> QED BY <2>1, Numbers DEF Lives, YoungLife, NewLife
  <1>5. LaterLife'
    <2>1. /\ ck.pc = "consume" /\ ck.todo = {} /\ ck'.pc = "encode" /\ ck'.upto = ck.upto
          /\ resident' = resident /\ revision' = revision /\ savedRevision' = savedRevision
          /\ reg' = reg /\ saved' = saved
      BY CkSampledEffect
    <2> QED BY <2>1, TaskFields, Bounds DEF Lives, LaterLife, Later, NewLife
  <1>6. TombDue'
    <2>1. /\ ck.pc = "consume" /\ ck.todo = {} /\ ck'.pc = "encode" /\ ck'.upto = ck.upto
          /\ ck'.gone = ck.gone /\ reg' = reg
      BY CkSampledEffect
    <2> QED BY <2>1, TaskFields DEF Lives, TombDue, Holding, Sampled, Writing
  <1>7. NoTombDue'
    <2>1. /\ ck.pc = "consume" /\ ck.todo = {} /\ ck'.pc = "encode" /\ ck'.upto = ck.upto
          /\ ck'.full = ck.full /\ ck'.gone = ck.gone /\ reg' = reg
      BY CkSampledEffect
    <2> QED BY <2>1, TaskFields DEF Lives, NoTombDue, Holding, Sampled, Writing, Counters
  <1>8. NoOverflow'
    <2>1. /\ ck.pc = "consume" /\ ck.todo = {} /\ ck'.pc = "encode" /\ ck'.upto = ck.upto
          /\ ck'.full = ck.full /\ reg' = reg
      BY CkSampledEffect
    <2> QED BY <2>1, TaskFields DEF Lives, NoOverflow, Holding, Sampled, Writing, Counters
  <1>9. Skipped'
    <2>1. /\ ck.pc = "consume" /\ ck.todo = {} /\ ck'.pc = "encode"
          /\ ck'.ceiling = ck.ceiling /\ ck'.full = ck.full /\ ck'.slot = ck.slot
          /\ live' = live
      BY CkSampledEffect
    <2> QED BY <2>1, TaskFields, Bounds
        DEF Lives, Skipped, Holding, Sampled, Writing, Stages, TaskStages, Slots, Eligible
  <1> QED BY <1>1, <1>2, <1>3, <1>4, <1>5, <1>6, <1>7, <1>8, <1>9 DEF Lives

\* CkTooLarge keeps Lives.
LEMMA Lives_CkTooLarge ==
  ASSUME Typed, Typed', Stages, Handles, Lives, CkTooLarge
  PROVE  Lives'
  <1>1. Counters'
    <2>1. /\ ck.pc = "consume" /\ ck.todo = resident /\ ck'.pc = "idle" /\ ck'.upto = 0
          /\ reg' = reg
      BY CkTooLargeEffect
    <2> QED BY <2>1, TaskFields DEF Lives, Counters
  <1>2. Revisions'
    <2>1. /\ ck.pc = "consume" /\ ck.todo = resident /\ ck'.pc = "idle" /\ ck'.slot = 0
          /\ ck'.revision = 0 /\ live' = live /\ revision' = revision
          /\ savedRevision' = savedRevision
      BY CkTooLargeEffect
    <2> QED BY <2>1, TaskFields, Bounds
        DEF Lives, Revisions, Holding, Sampled, Writing, Stages, TaskStages
  <1>3. OldLife'
    <2>1. /\ ck.pc = "consume" /\ ck.todo = resident /\ ck'.pc = "idle" /\ ck'.ceiling = 0
          /\ ck'.upto = 0 /\ live' = live /\ reg' = reg
      BY CkTooLargeEffect
    <2> QED BY <2>1, TaskFields, Bounds DEF Lives, OldLife, Later
  <1>4. YoungLife'
    <2>1. /\ ck.pc = "consume" /\ ck.todo = resident /\ ck'.pc = "idle" /\ ck'.ceiling = 0
          /\ resident' = resident /\ live' = live /\ revision' = revision
          /\ savedRevision' = savedRevision /\ saved' = saved
      BY CkTooLargeEffect
    <2> QED BY <2>1, Numbers DEF Lives, YoungLife, NewLife
  <1>5. LaterLife'
    <2>1. /\ ck.pc = "consume" /\ ck.todo = resident /\ ck'.pc = "idle" /\ ck'.upto = 0
          /\ resident' = resident /\ revision' = revision /\ savedRevision' = savedRevision
          /\ reg' = reg /\ saved' = saved
      BY CkTooLargeEffect
    <2> QED BY <2>1, TaskFields, Bounds DEF Lives, LaterLife, Later, NewLife
  <1>6. TombDue'
    <2>1. /\ ck.pc = "consume" /\ ck.todo = resident /\ ck'.pc = "idle" /\ ck'.upto = 0
          /\ ck'.gone = FALSE /\ reg' = reg
      BY CkTooLargeEffect
    <2> QED BY <2>1, TaskFields DEF Lives, TombDue, Holding, Sampled, Writing
  <1>7. NoTombDue'
    <2>1. /\ ck.pc = "consume" /\ ck.todo = resident /\ ck'.pc = "idle" /\ ck'.upto = 0
          /\ ck'.full = FALSE /\ ck'.gone = FALSE /\ reg' = reg
      BY CkTooLargeEffect
    <2> QED BY <2>1, TaskFields DEF Lives, NoTombDue, Holding, Sampled, Writing, Counters
  <1>8. NoOverflow'
    <2>1. /\ ck.pc = "consume" /\ ck.todo = resident /\ ck'.pc = "idle" /\ ck'.upto = 0
          /\ ck'.full = FALSE /\ reg' = reg
      BY CkTooLargeEffect
    <2> QED BY <2>1, TaskFields DEF Lives, NoOverflow, Holding, Sampled, Writing, Counters
  <1>9. Skipped'
    <2>1. /\ ck.pc = "consume" /\ ck.todo = resident /\ ck'.pc = "idle" /\ ck'.ceiling = 0
          /\ ck'.full = FALSE /\ ck'.slot = 0 /\ live' = live
      BY CkTooLargeEffect
    <2> QED BY <2>1, TaskFields, Bounds
        DEF Lives, Skipped, Holding, Sampled, Writing, Stages, TaskStages, Slots, Eligible
  <1> QED BY <1>1, <1>2, <1>3, <1>4, <1>5, <1>6, <1>7, <1>8, <1>9 DEF Lives

\* CkNoDirectory keeps Lives.
LEMMA Lives_CkNoDirectory ==
  ASSUME Typed, Typed', Stages, Handles, Lives, CkNoDirectory
  PROVE  Lives'
  <1>1. Counters'
    <2>1. /\ ck.pc = "encode" /\ ~reg.dir /\ reg'.membership = reg.membership
          /\ reg'.saved = ck.upto /\ reg'.removed = {m \in reg.removed : m > ck.upto}
          /\ (reg'.overflow = (IF reg.overflow <= ck.upto THEN 0 ELSE reg.overflow))
          /\ ck'.pc = "idle" /\ ck'.upto = 0
      BY CkNoDirectoryEffect
    <2> QED BY <2>1, Numbers DEF Lives, Counters
  <1>2. Revisions'
    <2>1. /\ ck.pc = "encode" /\ ~reg.dir /\ ck'.pc = "idle" /\ ck'.slot = 0
          /\ ck'.revision = 0 /\ live' = live /\ revision' = revision
          /\ savedRevision' = savedRevision
      BY CkNoDirectoryEffect
    <2> QED BY <2>1, TaskFields, Bounds
        DEF Lives, Revisions, Holding, Sampled, Writing, Stages, TaskStages
  <1>3. OldLife'
    <2>1. /\ ck.pc = "encode" /\ ~reg.dir
          /\ reg'.removed = {m \in reg.removed : m > ck.upto}
          /\ (reg'.overflow = (IF reg.overflow <= ck.upto THEN 0 ELSE reg.overflow))
          /\ ck'.pc = "idle" /\ ck'.ceiling = 0 /\ ck'.upto = 0 /\ live' = live
      BY CkNoDirectoryEffect
    <2> QED BY <2>1, TaskFields, Bounds DEF Lives, OldLife, Later
  <1>4. YoungLife'
    <2>1. /\ ck.pc = "encode" /\ ~reg.dir /\ ck'.pc = "idle" /\ ck'.ceiling = 0
          /\ resident' = resident /\ live' = live /\ revision' = revision
          /\ savedRevision' = savedRevision /\ saved' = saved
      BY CkNoDirectoryEffect
    <2> QED BY <2>1, Numbers DEF Lives, YoungLife, NewLife
  <1>5. LaterLife'
    <2>1. /\ ck.pc \in {"finish", "encode"} /\ ck'.pc = "idle"
          /\ reg'.removed = {m \in reg.removed : m > ck.upto}
          /\ reg'.overflow = (IF reg.overflow <= ck.upto THEN 0 ELSE reg.overflow)
          /\ savedRevision' = savedRevision /\ revision' = revision /\ resident' = resident /\ saved' = saved
      BY CkNoDirectoryEffect
    <2>2. SUFFICES ASSUME Later(0)' PROVE NewLife' BY <2>1 DEF LaterLife
    <2>3. Later(ck.upto) BY <2>1, <2>2, Numbers DEF Later
    <2>4. Later(0) BY <2>3, Numbers DEF Later
    <2>5. NewLife BY <2>1, <2>3, <2>4 DEF Lives, LaterLife
    <2> QED BY <2>1, <2>5 DEF NewLife
  <1>6. TombDue'
    <2>1. /\ ck.pc = "encode" /\ ~reg.dir
          /\ reg'.removed = {m \in reg.removed : m > ck.upto} /\ ck'.pc = "idle"
          /\ ck'.upto = 0 /\ ck'.gone = FALSE
      BY CkNoDirectoryEffect
    <2> QED BY <2>1, TaskFields DEF Lives, TombDue, Holding, Sampled, Writing
  <1>7. NoTombDue'
    <2>1. /\ ck.pc = "encode" /\ ~reg.dir
          /\ reg'.removed = {m \in reg.removed : m > ck.upto} /\ ck'.pc = "idle"
          /\ ck'.upto = 0 /\ ck'.full = FALSE /\ ck'.gone = FALSE
      BY CkNoDirectoryEffect
    <2> QED BY <2>1, TaskFields DEF Lives, NoTombDue, Holding, Sampled, Writing, Counters
  <1>8. NoOverflow'
    <2>1. /\ ck.pc = "encode" /\ ~reg.dir
          /\ (reg'.overflow = (IF reg.overflow <= ck.upto THEN 0 ELSE reg.overflow))
          /\ ck'.pc = "idle" /\ ck'.upto = 0 /\ ck'.full = FALSE
      BY CkNoDirectoryEffect
    <2> QED BY <2>1, TaskFields DEF Lives, NoOverflow, Holding, Sampled, Writing, Counters
  <1>9. Skipped'
    <2>1. /\ ck.pc = "encode" /\ ~reg.dir /\ ck'.pc = "idle" /\ ck'.ceiling = 0
          /\ ck'.full = FALSE /\ ck'.slot = 0 /\ live' = live
      BY CkNoDirectoryEffect
    <2> QED BY <2>1, TaskFields, Bounds
        DEF Lives, Skipped, Holding, Sampled, Writing, Stages, TaskStages, Slots, Eligible
  <1> QED BY <1>1, <1>2, <1>3, <1>4, <1>5, <1>6, <1>7, <1>8, <1>9 DEF Lives

\* CkEncode keeps Lives.
LEMMA Lives_CkEncode ==
  ASSUME Typed, Typed', Stages, Handles, Lives, CkEncode
  PROVE  Lives'
  <1>1. /\ ck.pc \in Sampled /\ ck'.pc \in Sampled BY CkEncodeEffect DEF Sampled, Writing
  <1>2. /\ ck'.upto = ck.upto /\ live' = live /\ revision' = revision
        /\ savedRevision' = savedRevision /\ ck'.slot = ck.slot
        /\ ck'.revision = ck.revision /\ ck'.ceiling = ck.ceiling /\ resident' = resident
        /\ saved' = saved /\ ck'.gone = ck.gone /\ ck'.full = ck.full /\ reg' = reg
    BY CkEncodeEffect
  <1> QED BY <1>1, <1>2, LivesMove

\* CkBase keeps Lives.
LEMMA Lives_CkBase ==
  ASSUME Typed, Typed', Stages, Handles, Lives, CkBase
  PROVE  Lives'
  <1>1. /\ ck.pc \in Sampled /\ ck'.pc \in Sampled BY CkBaseEffect DEF Sampled, Writing
  <1>2. /\ ck'.upto = ck.upto /\ live' = live /\ revision' = revision
        /\ savedRevision' = savedRevision /\ ck'.slot = ck.slot
        /\ ck'.revision = ck.revision /\ ck'.ceiling = ck.ceiling /\ resident' = resident
        /\ saved' = saved /\ ck'.gone = ck.gone /\ ck'.full = ck.full /\ reg' = reg
    BY CkBaseEffect
  <1> QED BY <1>1, <1>2, LivesMove

\* CkBaseSync keeps Lives.
LEMMA Lives_CkBaseSync ==
  ASSUME Typed, Typed', Stages, Handles, Lives, CkBaseSync
  PROVE  Lives'
  <1>1. /\ ck.pc \in Sampled /\ ck'.pc \in Sampled BY CkBaseSyncEffect DEF Sampled, Writing
  <1>2. /\ ck'.upto = ck.upto /\ live' = live /\ revision' = revision
        /\ savedRevision' = savedRevision /\ ck'.slot = ck.slot
        /\ ck'.revision = ck.revision /\ ck'.ceiling = ck.ceiling /\ resident' = resident
        /\ saved' = saved /\ ck'.gone = ck.gone /\ ck'.full = ck.full /\ reg' = reg
    BY CkBaseSyncEffect
  <1> QED BY <1>1, <1>2, LivesMove

\* CkLog keeps Lives.
LEMMA Lives_CkLog ==
  ASSUME Typed, Typed', Stages, Handles, Lives, CkLog
  PROVE  Lives'
  <1>1. /\ ck.pc \in Sampled /\ ck'.pc \in Sampled BY CkLogEffect DEF Sampled, Writing
  <1>2. /\ ck'.upto = ck.upto /\ live' = live /\ revision' = revision
        /\ savedRevision' = savedRevision /\ ck'.slot = ck.slot
        /\ ck'.revision = ck.revision /\ ck'.ceiling = ck.ceiling /\ resident' = resident
        /\ saved' = saved /\ ck'.gone = ck.gone /\ ck'.full = ck.full /\ reg' = reg
    BY CkLogEffect
  <1> QED BY <1>1, <1>2, LivesMove

\* CkLogSync keeps Lives.
LEMMA Lives_CkLogSync ==
  ASSUME Typed, Typed', Stages, Handles, Lives, CkLogSync
  PROVE  Lives'
  <1>1. /\ ck.pc \in Sampled /\ ck'.pc \in Sampled BY CkLogSyncEffect DEF Sampled, Writing
  <1>2. /\ ck'.upto = ck.upto /\ live' = live /\ revision' = revision
        /\ savedRevision' = savedRevision /\ ck'.slot = ck.slot
        /\ ck'.revision = ck.revision /\ ck'.ceiling = ck.ceiling /\ resident' = resident
        /\ saved' = saved /\ ck'.gone = ck.gone /\ ck'.full = ck.full /\ reg' = reg
    BY CkLogSyncEffect
  <1> QED BY <1>1, <1>2, LivesMove

\* CkAppend keeps Lives.
LEMMA Lives_CkAppend ==
  ASSUME Typed, Typed', Stages, Handles, Lives, CkAppend
  PROVE  Lives'
  <1>1. /\ ck.pc \in Sampled /\ ck'.pc \in Sampled BY CkAppendEffect DEF Sampled, Writing
  <1>2. /\ ck'.upto = ck.upto /\ live' = live /\ revision' = revision
        /\ savedRevision' = savedRevision /\ ck'.slot = ck.slot
        /\ ck'.revision = ck.revision /\ ck'.ceiling = ck.ceiling /\ resident' = resident
        /\ saved' = saved /\ ck'.gone = ck.gone /\ ck'.full = ck.full /\ reg' = reg
    BY CkAppendEffect
  <1> QED BY <1>1, <1>2, LivesMove

\* CkAppendSync keeps Lives.
LEMMA Lives_CkAppendSync ==
  ASSUME Typed, Typed', Stages, Handles, Lives, CkAppendSync
  PROVE  Lives'
  <1>1. /\ ck.pc \in Sampled /\ ck'.pc \in Sampled BY CkAppendSyncEffect DEF Sampled, Writing
  <1>2. /\ ck'.upto = ck.upto /\ live' = live /\ revision' = revision
        /\ savedRevision' = savedRevision /\ ck'.slot = ck.slot
        /\ ck'.revision = ck.revision /\ ck'.ceiling = ck.ceiling /\ resident' = resident
        /\ saved' = saved /\ ck'.gone = ck.gone /\ ck'.full = ck.full /\ reg' = reg
    BY CkAppendSyncEffect
  <1> QED BY <1>1, <1>2, LivesMove

\* CkSetJournal keeps Lives.
LEMMA Lives_CkSetJournal ==
  ASSUME Typed, Typed', Stages, Handles, Lives, CkSetJournal
  PROVE  Lives'
  <1>1. /\ ck.pc \in Sampled /\ ck'.pc \in Sampled BY CkSetJournalEffect DEF Sampled, Writing
  <1>2. /\ reg'.saved = reg.saved /\ reg'.membership = reg.membership
        /\ reg'.removed = reg.removed /\ reg'.overflow = reg.overflow /\ ck'.upto = ck.upto
        /\ live' = live /\ revision' = revision /\ savedRevision' = savedRevision
        /\ ck'.slot = ck.slot /\ ck'.revision = ck.revision /\ ck'.ceiling = ck.ceiling
        /\ resident' = resident /\ saved' = saved /\ ck'.gone = ck.gone
        /\ ck'.full = ck.full
    BY CkSetJournalEffect
  <1> QED BY <1>1, <1>2, LivesMove

\* CkRevise keeps Lives.
LEMMA Lives_CkRevise ==
  ASSUME Typed, Typed', Stages, Handles, Lives, CkRevise
  PROVE  Lives'
  <1>1. Counters'
    <2>1. /\ ck.pc = "revise" /\ ck'.pc = "finish" /\ ck'.upto = ck.upto /\ reg' = reg
      BY CkReviseEffect
    <2> QED BY <2>1, TaskFields DEF Lives, Counters
  <1>2. Revisions'
    <2>1. /\ ck.pc = "revise"
          /\ (savedRevision' = (IF ck.slot # 0 THEN ck.revision ELSE savedRevision))
          /\ ck'.pc = "finish" /\ ck'.slot = ck.slot /\ ck'.revision = ck.revision
          /\ live' = live /\ revision' = revision
      BY CkReviseEffect
    <2> QED BY <2>1, TaskFields, Bounds
        DEF Lives, Revisions, Holding, Sampled, Writing, Stages, TaskStages
  <1>3. OldLife'
    <2>1. /\ ck.pc = "revise" /\ ck'.pc = "finish" /\ ck'.ceiling = ck.ceiling
          /\ ck'.upto = ck.upto /\ live' = live /\ reg' = reg
      BY CkReviseEffect
    <2> QED BY <2>1, TaskFields, Bounds DEF Lives, OldLife, Later
  <1>4. YoungLife'
    <2>1. /\ ck.pc = "revise" /\ ck'.ceiling = ck.ceiling /\ live' = live /\ revision' = revision
          /\ resident' = resident
          /\ savedRevision' = (IF ck.slot # 0 THEN ck.revision ELSE savedRevision)
          /\ (\A p \in Pages : saved'[p] = (IF ck.ages[p] # 0 /\ p \notin ck.orphans THEN ck.ages[p] ELSE saved[p]))
      BY CkReviseEffect
    <2>2. SUFFICES ASSUME live > ck.ceiling PROVE NewLife' BY <2>1 DEF YoungLife
    <2>3. NewLife BY <2>1, <2>2 DEF Lives, YoungLife
    <2>4. ck.slot <= ck.ceiling /\ (ck.slot # 0 => ck.slot = live) /\ (ck.slot = 0 => ck.ages = NoAges)
      BY <2>1 DEF Stages, TaskStages, Holding, Sampled
    <2>5. ck.slot = 0 BY <2>2, <2>4, Numbers
    <2> QED BY <2>1, <2>3, <2>4, <2>5 DEF NewLife, NoAges
  <1>5. LaterLife'
    <2>1. /\ ck.pc = "revise" /\ ck'.pc = "finish" /\ ck'.upto = ck.upto /\ reg' = reg
          /\ revision' = revision /\ resident' = resident
          /\ savedRevision' = (IF ck.slot # 0 THEN ck.revision ELSE savedRevision)
          /\ (\A p \in Pages : saved'[p] = (IF ck.ages[p] # 0 /\ p \notin ck.orphans THEN ck.ages[p] ELSE saved[p]))
      BY CkReviseEffect
    <2>2. SUFFICES ASSUME Later(ck.upto) PROVE NewLife' BY <2>1 DEF LaterLife, Later
    <2>3. Later(0) BY <2>2, TaskFields DEF Later
    <2>4. NewLife BY <2>1, <2>3 DEF Lives, LaterLife
    <2>5. /\ ck.slot <= ck.ceiling /\ (ck.slot # 0 => ck.slot = live /\ live # 0)
          /\ (ck.slot = 0 => ck.ages = NoAges)
      BY <2>1 DEF Stages, TaskStages, Holding, Sampled
    <2>6. ck.slot = 0 BY <2>1, <2>2, <2>5 DEF Lives, OldLife
    <2> QED BY <2>1, <2>4, <2>5, <2>6 DEF NewLife, NoAges
  <1>6. TombDue'
    <2>1. /\ ck.pc = "revise" /\ ck'.pc = "finish" /\ ck'.upto = ck.upto
          /\ ck'.gone = ck.gone /\ reg' = reg
      BY CkReviseEffect
    <2> QED BY <2>1, TaskFields DEF Lives, TombDue, Holding, Sampled, Writing
  <1>7. NoTombDue'
    <2>1. /\ ck.pc = "revise" /\ ck'.pc = "finish" /\ ck'.upto = ck.upto
          /\ ck'.full = ck.full /\ ck'.gone = ck.gone /\ reg' = reg
      BY CkReviseEffect
    <2> QED BY <2>1, TaskFields DEF Lives, NoTombDue, Holding, Sampled, Writing, Counters
  <1>8. NoOverflow'
    <2>1. /\ ck.pc = "revise" /\ ck'.pc = "finish" /\ ck'.upto = ck.upto
          /\ ck'.full = ck.full /\ reg' = reg
      BY CkReviseEffect
    <2> QED BY <2>1, TaskFields DEF Lives, NoOverflow, Holding, Sampled, Writing, Counters
  <1>9. Skipped'
    <2>1. /\ ck.pc = "revise" /\ ck'.pc = "finish" /\ ck'.ceiling = ck.ceiling
          /\ ck'.full = ck.full /\ ck'.slot = ck.slot /\ live' = live
      BY CkReviseEffect
    <2> QED BY <2>1, TaskFields, Bounds
        DEF Lives, Skipped, Holding, Sampled, Writing, Stages, TaskStages, Slots, Eligible
  <1> QED BY <1>1, <1>2, <1>3, <1>4, <1>5, <1>6, <1>7, <1>8, <1>9 DEF Lives

\* CkFinish keeps Lives.
LEMMA Lives_CkFinish ==
  ASSUME Typed, Typed', Stages, Handles, Lives, CkFinish
  PROVE  Lives'
  <1>1. Counters'
    <2>1. /\ ck.pc = "finish" /\ reg'.membership = reg.membership /\ reg'.saved = ck.upto
          /\ reg'.removed = {m \in reg.removed : m > ck.upto}
          /\ (reg'.overflow = (IF reg.overflow <= ck.upto THEN 0 ELSE reg.overflow))
          /\ ck'.pc = "idle" /\ ck'.upto = 0
      BY CkFinishEffect
    <2> QED BY <2>1, Numbers DEF Lives, Counters
  <1>2. Revisions'
    <2>1. /\ ck.pc = "finish" /\ ck'.pc = "idle" /\ ck'.slot = 0 /\ ck'.revision = 0
          /\ live' = live /\ revision' = revision /\ savedRevision' = savedRevision
      BY CkFinishEffect
    <2> QED BY <2>1, TaskFields, Bounds
        DEF Lives, Revisions, Holding, Sampled, Writing, Stages, TaskStages
  <1>3. OldLife'
    <2>1. /\ ck.pc = "finish" /\ reg'.removed = {m \in reg.removed : m > ck.upto}
          /\ (reg'.overflow = (IF reg.overflow <= ck.upto THEN 0 ELSE reg.overflow))
          /\ ck'.pc = "idle" /\ ck'.ceiling = 0 /\ ck'.upto = 0 /\ live' = live
      BY CkFinishEffect
    <2> QED BY <2>1, TaskFields, Bounds DEF Lives, OldLife, Later
  <1>4. YoungLife'
    <2>1. /\ ck.pc = "finish" /\ ck'.pc = "idle" /\ ck'.ceiling = 0 /\ resident' = resident
          /\ live' = live /\ revision' = revision /\ savedRevision' = savedRevision
          /\ saved' = saved
      BY CkFinishEffect
    <2> QED BY <2>1, Numbers DEF Lives, YoungLife, NewLife
  <1>5. LaterLife'
    <2>1. /\ ck.pc \in {"finish", "encode"} /\ ck'.pc = "idle"
          /\ reg'.removed = {m \in reg.removed : m > ck.upto}
          /\ reg'.overflow = (IF reg.overflow <= ck.upto THEN 0 ELSE reg.overflow)
          /\ savedRevision' = savedRevision /\ revision' = revision /\ resident' = resident /\ saved' = saved
      BY CkFinishEffect
    <2>2. SUFFICES ASSUME Later(0)' PROVE NewLife' BY <2>1 DEF LaterLife
    <2>3. Later(ck.upto) BY <2>1, <2>2, Numbers DEF Later
    <2>4. Later(0) BY <2>3, Numbers DEF Later
    <2>5. NewLife BY <2>1, <2>3, <2>4 DEF Lives, LaterLife
    <2> QED BY <2>1, <2>5 DEF NewLife
  <1>6. TombDue'
    <2>1. /\ ck.pc = "finish" /\ reg'.removed = {m \in reg.removed : m > ck.upto}
          /\ ck'.pc = "idle" /\ ck'.upto = 0 /\ ck'.gone = FALSE
      BY CkFinishEffect
    <2> QED BY <2>1, TaskFields DEF Lives, TombDue, Holding, Sampled, Writing
  <1>7. NoTombDue'
    <2>1. /\ ck.pc = "finish" /\ reg'.removed = {m \in reg.removed : m > ck.upto}
          /\ ck'.pc = "idle" /\ ck'.upto = 0 /\ ck'.full = FALSE /\ ck'.gone = FALSE
      BY CkFinishEffect
    <2> QED BY <2>1, TaskFields DEF Lives, NoTombDue, Holding, Sampled, Writing, Counters
  <1>8. NoOverflow'
    <2>1. /\ ck.pc = "finish"
          /\ (reg'.overflow = (IF reg.overflow <= ck.upto THEN 0 ELSE reg.overflow))
          /\ ck'.pc = "idle" /\ ck'.upto = 0 /\ ck'.full = FALSE
      BY CkFinishEffect
    <2> QED BY <2>1, TaskFields DEF Lives, NoOverflow, Holding, Sampled, Writing, Counters
  <1>9. Skipped'
    <2>1. /\ ck.pc = "finish" /\ ck'.pc = "idle" /\ ck'.ceiling = 0 /\ ck'.full = FALSE
          /\ ck'.slot = 0 /\ live' = live
      BY CkFinishEffect
    <2> QED BY <2>1, TaskFields, Bounds
        DEF Lives, Skipped, Holding, Sampled, Writing, Stages, TaskStages, Slots, Eligible
  <1> QED BY <1>1, <1>2, <1>3, <1>4, <1>5, <1>6, <1>7, <1>8, <1>9 DEF Lives

\* CkFail keeps Lives.
LEMMA Lives_CkFail ==
  ASSUME Typed, Typed', Stages, Handles, Lives, CkFail
  PROVE  Lives'
  <1>1. Counters'
    <2>1. /\ ck.pc \in {"encode", "base", "baseSync", "log", "logSync", "append", "appendSync"}
          /\ ck'.pc = "drop" /\ ck'.upto = ck.upto /\ reg' = reg
      BY CkFailEffect DEF Writing
    <2> QED BY <2>1, TaskFields DEF Lives, Counters
  <1>2. Revisions'
    <2>1. /\ ck.pc \in {"encode", "base", "baseSync", "log", "logSync", "append", "appendSync"}
          /\ ck'.pc = "drop" /\ ck'.slot = ck.slot /\ ck'.revision = ck.revision
          /\ live' = live /\ revision' = revision /\ savedRevision' = savedRevision
      BY CkFailEffect DEF Writing
    <2> QED BY <2>1, TaskFields, Bounds
        DEF Lives, Revisions, Holding, Sampled, Writing, Stages, TaskStages
  <1>3. OldLife'
    <2>1. /\ ck.pc \in {"encode", "base", "baseSync", "log", "logSync", "append", "appendSync"}
          /\ ck'.pc = "drop" /\ ck'.ceiling = ck.ceiling /\ ck'.upto = ck.upto
          /\ live' = live /\ reg' = reg
      BY CkFailEffect DEF Writing
    <2> QED BY <2>1, TaskFields, Bounds DEF Lives, OldLife, Later
  <1>4. YoungLife'
    <2>1. /\ ck.pc \in {"encode", "base", "baseSync", "log", "logSync", "append", "appendSync"}
          /\ ck'.pc = "drop" /\ ck'.ceiling = ck.ceiling /\ resident' = resident
          /\ live' = live /\ revision' = revision /\ savedRevision' = savedRevision
          /\ saved' = saved
      BY CkFailEffect DEF Writing
    <2> QED BY <2>1, Numbers DEF Lives, YoungLife, NewLife
  <1>5. LaterLife'
    <2>1. /\ ck.pc \in {"encode", "base", "baseSync", "log", "logSync", "append", "appendSync"}
          /\ ck'.pc = "drop" /\ ck'.upto = ck.upto /\ resident' = resident
          /\ revision' = revision /\ savedRevision' = savedRevision /\ reg' = reg
          /\ saved' = saved
      BY CkFailEffect DEF Writing
    <2> QED BY <2>1, TaskFields, Bounds DEF Lives, LaterLife, Later, NewLife
  <1>6. TombDue'
    <2>1. /\ ck.pc \in {"encode", "base", "baseSync", "log", "logSync", "append", "appendSync"}
          /\ ck'.pc = "drop" /\ ck'.upto = ck.upto /\ ck'.gone = ck.gone /\ reg' = reg
      BY CkFailEffect DEF Writing
    <2> QED BY <2>1, TaskFields DEF Lives, TombDue, Holding, Sampled, Writing
  <1>7. NoTombDue'
    <2>1. /\ ck.pc \in {"encode", "base", "baseSync", "log", "logSync", "append", "appendSync"}
          /\ ck'.pc = "drop" /\ ck'.upto = ck.upto /\ ck'.full = ck.full
          /\ ck'.gone = ck.gone /\ reg' = reg
      BY CkFailEffect DEF Writing
    <2> QED BY <2>1, TaskFields DEF Lives, NoTombDue, Holding, Sampled, Writing, Counters
  <1>8. NoOverflow'
    <2>1. /\ ck.pc \in {"encode", "base", "baseSync", "log", "logSync", "append", "appendSync"}
          /\ ck'.pc = "drop" /\ ck'.upto = ck.upto /\ ck'.full = ck.full /\ reg' = reg
      BY CkFailEffect DEF Writing
    <2> QED BY <2>1, TaskFields DEF Lives, NoOverflow, Holding, Sampled, Writing, Counters
  <1>9. Skipped'
    <2>1. /\ ck.pc \in {"encode", "base", "baseSync", "log", "logSync", "append", "appendSync"}
          /\ ck'.pc = "drop" /\ ck'.ceiling = ck.ceiling /\ ck'.full = ck.full
          /\ ck'.slot = ck.slot /\ live' = live
      BY CkFailEffect DEF Writing
    <2> QED BY <2>1, TaskFields, Bounds
        DEF Lives, Skipped, Holding, Sampled, Writing, Stages, TaskStages, Slots, Eligible
  <1> QED BY <1>1, <1>2, <1>3, <1>4, <1>5, <1>6, <1>7, <1>8, <1>9 DEF Lives

\* CkDropSummary keeps Lives.
LEMMA Lives_CkDropSummary ==
  ASSUME Typed, Typed', Stages, Handles, Lives, CkDropSummary
  PROVE  Lives'
  <1>1. Counters'
    <2>1. /\ ck.pc = "drop" /\ ck'.pc = "idle" /\ ck'.upto = 0 /\ reg' = reg
      BY CkDropSummaryEffect
    <2> QED BY <2>1, TaskFields DEF Lives, Counters
  <1>2. Revisions'
    <2>1. /\ ck.pc = "drop" /\ ck'.pc = "idle" /\ ck'.slot = 0 /\ ck'.revision = 0
          /\ live' = live /\ revision' = revision /\ savedRevision' = savedRevision
      BY CkDropSummaryEffect
    <2> QED BY <2>1, TaskFields, Bounds
        DEF Lives, Revisions, Holding, Sampled, Writing, Stages, TaskStages
  <1>3. OldLife'
    <2>1. /\ ck.pc = "drop" /\ ck'.pc = "idle" /\ ck'.ceiling = 0 /\ ck'.upto = 0
          /\ live' = live /\ reg' = reg
      BY CkDropSummaryEffect
    <2> QED BY <2>1, TaskFields, Bounds DEF Lives, OldLife, Later
  <1>4. YoungLife'
    <2>1. /\ ck.pc = "drop" /\ ck'.pc = "idle" /\ ck'.ceiling = 0 /\ resident' = resident
          /\ live' = live /\ revision' = revision /\ savedRevision' = savedRevision
          /\ saved' = saved
      BY CkDropSummaryEffect
    <2> QED BY <2>1, Numbers DEF Lives, YoungLife, NewLife
  <1>5. LaterLife'
    <2>1. /\ ck.pc = "drop" /\ ck'.pc = "idle" /\ ck'.upto = 0 /\ resident' = resident
          /\ revision' = revision /\ savedRevision' = savedRevision /\ reg' = reg
          /\ saved' = saved
      BY CkDropSummaryEffect
    <2> QED BY <2>1, TaskFields, Bounds DEF Lives, LaterLife, Later, NewLife
  <1>6. TombDue'
    <2>1. /\ ck.pc = "drop" /\ ck'.pc = "idle" /\ ck'.upto = 0 /\ ck'.gone = FALSE
          /\ reg' = reg
      BY CkDropSummaryEffect
    <2> QED BY <2>1, TaskFields DEF Lives, TombDue, Holding, Sampled, Writing
  <1>7. NoTombDue'
    <2>1. /\ ck.pc = "drop" /\ ck'.pc = "idle" /\ ck'.upto = 0 /\ ck'.full = FALSE
          /\ ck'.gone = FALSE /\ reg' = reg
      BY CkDropSummaryEffect
    <2> QED BY <2>1, TaskFields DEF Lives, NoTombDue, Holding, Sampled, Writing, Counters
  <1>8. NoOverflow'
    <2>1. /\ ck.pc = "drop" /\ ck'.pc = "idle" /\ ck'.upto = 0 /\ ck'.full = FALSE
          /\ reg' = reg
      BY CkDropSummaryEffect
    <2> QED BY <2>1, TaskFields DEF Lives, NoOverflow, Holding, Sampled, Writing, Counters
  <1>9. Skipped'
    <2>1. /\ ck.pc = "drop" /\ ck'.pc = "idle" /\ ck'.ceiling = 0 /\ ck'.full = FALSE
          /\ ck'.slot = 0 /\ live' = live
      BY CkDropSummaryEffect
    <2> QED BY <2>1, TaskFields, Bounds
        DEF Lives, Skipped, Holding, Sampled, Writing, Stages, TaskStages, Slots, Eligible
  <1> QED BY <1>1, <1>2, <1>3, <1>4, <1>5, <1>6, <1>7, <1>8, <1>9 DEF Lives

\* CkConsume keeps Lives.
LEMMA Lives_CkConsume ==
  ASSUME Typed, Typed', Stages, Handles, Lives, CkConsume
  PROVE  Lives'
  <1>0. PICK p \in ck.todo :
         /\ p \in Pages /\ ck.pc = "consume" /\ ck'.pc = "sample" /\ ck'.page = p
         /\ ck'.todo = ck.todo \ {p} /\ ck'.marks = [ck.marks EXCEPT ![p] = mark[p]]
         /\ mark' = [mark EXCEPT ![p] = Unknown]
         /\ ck'.ceiling = ck.ceiling /\ ck'.upto = ck.upto /\ ck'.journal = ck.journal
         /\ ck'.full = ck.full /\ ck'.gone = ck.gone /\ ck'.slot = ck.slot
         /\ ck'.held = ck.held /\ ck'.since = ck.since /\ ck'.replace = ck.replace
         /\ ck'.revision = ck.revision /\ ck'.ages = ck.ages /\ ck'.orphans = ck.orphans
         /\ reader' = reader
         /\ now' = now /\ resident' = resident /\ last' = last
         /\ live' = live /\ blockDirty' = blockDirty
         /\ shardDirty' = shardDirty /\ revision' = revision
         /\ savedRevision' = savedRevision /\ reg' = reg /\ base' = base
         /\ log' = log /\ bases' = bases /\ logs' = logs /\ saved' = saved
         /\ fails' = fails /\ crashes' = crashes
    BY CkConsumeEffect
  <1>1. Counters'
    <2>1. /\ p \in Pages /\ ck.pc = "consume" /\ ck'.pc = "sample" /\ ck'.upto = ck.upto
          /\ reg' = reg
      BY <1>0
    <2> QED BY <2>1, TaskFields DEF Lives, Counters
  <1>2. Revisions'
    <2>1. /\ p \in Pages /\ ck.pc = "consume" /\ ck'.pc = "sample" /\ ck'.slot = ck.slot
          /\ ck'.revision = ck.revision /\ live' = live /\ revision' = revision
          /\ savedRevision' = savedRevision
      BY <1>0
    <2> QED BY <2>1, TaskFields, Bounds
        DEF Lives, Revisions, Holding, Sampled, Writing, Stages, TaskStages
  <1>3. OldLife'
    <2>1. /\ p \in Pages /\ ck.pc = "consume" /\ ck'.pc = "sample"
          /\ ck'.ceiling = ck.ceiling /\ ck'.upto = ck.upto /\ live' = live /\ reg' = reg
      BY <1>0
    <2> QED BY <2>1, TaskFields, Bounds DEF Lives, OldLife, Later
  <1>4. YoungLife'
    <2>1. /\ p \in Pages /\ ck.pc = "consume" /\ ck'.pc = "sample"
          /\ ck'.ceiling = ck.ceiling /\ resident' = resident /\ live' = live
          /\ revision' = revision /\ savedRevision' = savedRevision /\ saved' = saved
      BY <1>0
    <2> QED BY <2>1, Numbers DEF Lives, YoungLife, NewLife
  <1>5. LaterLife'
    <2>1. /\ p \in Pages /\ ck.pc = "consume" /\ ck'.pc = "sample" /\ ck'.upto = ck.upto
          /\ resident' = resident /\ revision' = revision /\ savedRevision' = savedRevision
          /\ reg' = reg /\ saved' = saved
      BY <1>0
    <2> QED BY <2>1, TaskFields, Bounds DEF Lives, LaterLife, Later, NewLife
  <1>6. TombDue'
    <2>1. /\ p \in Pages /\ ck.pc = "consume" /\ ck'.pc = "sample" /\ ck'.upto = ck.upto
          /\ ck'.gone = ck.gone /\ reg' = reg
      BY <1>0
    <2> QED BY <2>1, TaskFields DEF Lives, TombDue, Holding, Sampled, Writing
  <1>7. NoTombDue'
    <2>1. /\ p \in Pages /\ ck.pc = "consume" /\ ck'.pc = "sample" /\ ck'.upto = ck.upto
          /\ ck'.full = ck.full /\ ck'.gone = ck.gone /\ reg' = reg
      BY <1>0
    <2> QED BY <2>1, TaskFields DEF Lives, NoTombDue, Holding, Sampled, Writing, Counters
  <1>8. NoOverflow'
    <2>1. /\ p \in Pages /\ ck.pc = "consume" /\ ck'.pc = "sample" /\ ck'.upto = ck.upto
          /\ ck'.full = ck.full /\ reg' = reg
      BY <1>0
    <2> QED BY <2>1, TaskFields DEF Lives, NoOverflow, Holding, Sampled, Writing, Counters
  <1>9. Skipped'
    <2>1. /\ p \in Pages /\ ck.pc = "consume" /\ ck'.pc = "sample"
          /\ ck'.ceiling = ck.ceiling /\ ck'.full = ck.full /\ ck'.slot = ck.slot
          /\ live' = live
      BY <1>0
    <2> QED BY <2>1, TaskFields, Bounds
        DEF Lives, Skipped, Holding, Sampled, Writing, Stages, TaskStages, Slots, Eligible
  <1> QED BY <1>1, <1>2, <1>3, <1>4, <1>5, <1>6, <1>7, <1>8, <1>9 DEF Lives

\* CkDropPage keeps Lives.
LEMMA Lives_CkDropPage ==
  ASSUME Typed, Typed', Stages, Handles, Lives, CkDropPage
  PROVE  Lives'
  <1>0. PICK p \in Pages :
         /\ ck.pc = "drop" /\ ck.marks[p] # Unknown
         /\ \A q \in Pages : q # p => mark'[q] = mark[q]
         /\ p \in ck.orphans => mark' = mark
         /\ p \notin ck.orphans => mark'[p] # Unknown
         /\ Dirty(ck.slot, ck.marks[p])
         /\ ck'.marks = [ck.marks EXCEPT ![p] = Unknown]
         /\ ck'.pc = ck.pc /\ ck'.page = ck.page /\ ck'.todo = ck.todo
         /\ ck'.ceiling = ck.ceiling /\ ck'.upto = ck.upto /\ ck'.journal = ck.journal
         /\ ck'.full = ck.full /\ ck'.gone = ck.gone /\ ck'.slot = ck.slot
         /\ ck'.held = ck.held /\ ck'.since = ck.since /\ ck'.replace = ck.replace
         /\ ck'.revision = ck.revision /\ ck'.ages = ck.ages /\ ck'.orphans = ck.orphans
         /\ reader' = reader
         /\ now' = now /\ resident' = resident /\ last' = last
         /\ live' = live /\ revision' = revision
         /\ savedRevision' = savedRevision /\ reg' = reg /\ base' = base
         /\ log' = log /\ bases' = bases /\ logs' = logs /\ saved' = saved
         /\ fails' = fails /\ crashes' = crashes
    BY CkDropPageEffect
  <1>1. /\ ck'.pc = ck.pc /\ ck'.upto = ck.upto /\ live' = live /\ revision' = revision
        /\ savedRevision' = savedRevision /\ ck'.slot = ck.slot
        /\ ck'.revision = ck.revision /\ ck'.ceiling = ck.ceiling /\ resident' = resident
        /\ saved' = saved /\ ck'.gone = ck.gone /\ ck'.full = ck.full /\ reg' = reg
    BY <1>0
  <1> QED BY <1>1, LivesFrame

\* Create keeps Lives.
LEMMA Lives_Create ==
  ASSUME Typed, Typed', Stages, Handles, Lives, Create
  PROVE  Lives'
  <1>1. Counters'
    <2>1. /\ live = 0 /\ reg'.membership = reg.membership + 1 /\ reg'.saved = reg.saved
          /\ reg'.removed = reg.removed /\ reg'.overflow = reg.overflow /\ ck' = ck
      BY CreateEffect
    <2> QED BY <2>1, Numbers DEF Lives, Counters
  <1>2. Revisions'
    <2>1. live = 0 /\ revision' = 0 /\ savedRevision' = 0 /\ ck' = ck BY CreateEffect
    <2>2. ck.pc \in Holding /\ ck.slot # 0 => live # 0 BY DEF Stages, TaskStages
    <2> QED BY <2>1, <2>2, Bounds DEF Revisions
  <1>3. OldLife'
    <2>1. ck' = ck /\ live' = reg.next + 1 BY CreateEffect
    <2>2. ck.ceiling <= reg.next BY DEF Stages, Slots
    <2> QED BY <2>1, <2>2, Numbers DEF OldLife
  <1>4. YoungLife'
    <2>1. live = 0 /\ resident' = resident /\ saved' = saved /\ savedRevision' = 0 BY CreateEffect
    <2>2. resident = {} BY <2>1 DEF Stages, Slots
    <2>3. NewLife' BY <2>1, <2>2 DEF NewLife, Handles, Absent
    <2> QED BY <2>3 DEF YoungLife
  <1>5. LaterLife'
    <2>1. live = 0 /\ resident' = resident /\ saved' = saved /\ savedRevision' = 0 BY CreateEffect
    <2>2. resident = {} BY <2>1 DEF Stages, Slots
    <2>3. NewLife' BY <2>1, <2>2 DEF NewLife, Handles, Absent
    <2> QED BY <2>3 DEF LaterLife
  <1>6. TombDue'
    <2>1. reg'.removed = reg.removed /\ ck' = ck BY CreateEffect
    <2> QED BY <2>1 DEF Lives, TombDue, Holding, Sampled, Writing
  <1>7. NoTombDue'
    <2>1. reg'.removed = reg.removed /\ ck' = ck BY CreateEffect
    <2> QED BY <2>1 DEF Lives, NoTombDue, Holding, Sampled, Writing, Counters
  <1>8. NoOverflow'
    <2>1. reg'.overflow = reg.overflow /\ ck' = ck BY CreateEffect
    <2> QED BY <2>1 DEF Lives, NoOverflow, Holding, Sampled, Writing, Counters
  <1>9. Skipped'
    <2>1. /\ live = 0 /\ live' = reg.next + 1 /\ ck' = ck
      BY CreateEffect
    <2> QED BY <2>1, Numbers
        DEF Lives, Skipped, Holding, Sampled, Writing, Stages, TaskStages, Slots, Eligible
  <1> QED BY <1>1, <1>2, <1>3, <1>4, <1>5, <1>6, <1>7, <1>8, <1>9 DEF Lives

\* Retire keeps Lives.
LEMMA Lives_Retire ==
  ASSUME Typed, Typed', Stages, Handles, Lives, Retire
  PROVE  Lives'
  <1>1. Counters'
    <2>1. /\ live # 0 /\ resident = {} /\ ~(ck.held /\ ck.slot = live)
          /\ reg'.membership = reg.membership + 1 /\ reg'.saved = reg.saved
          /\ ((reg.journal.gen = 0 /\ reg'.removed = reg.removed /\ reg'.overflow = reg.overflow)
              \/ (reg'.removed = reg.removed \cup {reg.membership + 1} /\ reg'.overflow = reg.overflow)
              \/ (reg'.removed = reg.removed /\ reg'.overflow = reg.membership + 1))
          /\ ck' = ck
      BY RetireEffect
    <2> QED BY <2>1, Numbers DEF Lives, Counters
  <1>2. Revisions'
    <2>1. live' = 0 /\ revision' = 0 /\ savedRevision' = 0 /\ ck' = ck /\ ~(ck.held /\ ck.slot = live)
      BY RetireEffect
    <2>2. ck.pc \in Holding /\ ck.slot # 0 => ck.held /\ ck.slot = live BY DEF Stages, TaskStages
    <2> QED BY <2>1, <2>2, Bounds DEF Revisions
  <1>3. OldLife'
    <2>1. /\ live # 0 /\ resident = {} /\ ~(ck.held /\ ck.slot = live) /\ live' = 0
          /\ ((reg.journal.gen = 0 /\ reg'.removed = reg.removed /\ reg'.overflow = reg.overflow)
              \/ (reg'.removed = reg.removed \cup {reg.membership + 1} /\ reg'.overflow = reg.overflow)
              \/ (reg'.removed = reg.removed /\ reg'.overflow = reg.membership + 1))
          /\ ck' = ck
      BY RetireEffect
    <2> QED BY <2>1, TaskFields, Bounds DEF Lives, OldLife, Later
  <1>4. YoungLife'
    <2>1. live' = 0 /\ ck' = ck BY RetireEffect
    <2> QED BY <2>1, TaskFields, Bounds DEF YoungLife
  <1>5. LaterLife'
    <2>1. resident = {} /\ resident' = resident /\ saved' = saved /\ savedRevision' = 0 BY RetireEffect
    <2>3. NewLife' BY <2>1 DEF NewLife, Handles, Absent
    <2> QED BY <2>3 DEF LaterLife
  <1>6. TombDue'
    <2>1. /\ ck' = ck /\ reg'.removed \subseteq reg.removed \cup {reg.membership + 1}
          /\ reg.removed \subseteq reg'.removed
          /\ reg'.overflow = reg.overflow \/ reg'.overflow = reg.membership + 1
      BY RetireEffect
    <2>2. ck.pc # "idle" => ck.upto <= reg.membership BY DEF Lives, Counters
    <2>3. "idle" \notin {"pick"} \cup Holding BY DEF Holding, Sampled, Writing
    <2> QED BY <2>1, <2>2, <2>3, TaskFields DEF Lives, TombDue
  <1>7. NoTombDue'
    <2>1. /\ ck' = ck /\ reg'.removed \subseteq reg.removed \cup {reg.membership + 1}
          /\ reg.removed \subseteq reg'.removed
          /\ reg'.overflow = reg.overflow \/ reg'.overflow = reg.membership + 1
      BY RetireEffect
    <2>2. ck.pc # "idle" => ck.upto <= reg.membership BY DEF Lives, Counters
    <2>3. "idle" \notin {"pick"} \cup Holding BY DEF Holding, Sampled, Writing
    <2> QED BY <2>1, <2>2, <2>3, Numbers DEF Lives, NoTombDue
  <1>8. NoOverflow'
    <2>1. /\ ck' = ck /\ reg'.removed \subseteq reg.removed \cup {reg.membership + 1}
          /\ reg.removed \subseteq reg'.removed
          /\ reg'.overflow = reg.overflow \/ reg'.overflow = reg.membership + 1
      BY RetireEffect
    <2>2. ck.pc # "idle" => ck.upto <= reg.membership BY DEF Lives, Counters
    <2>3. "idle" \notin {"pick"} \cup Holding BY DEF Holding, Sampled, Writing
    <2> QED BY <2>1, <2>2, <2>3, Numbers DEF Lives, NoOverflow
  <1>9. Skipped'
    <2>1. /\ live # 0 /\ resident = {} /\ ~(ck.held /\ ck.slot = live) /\ live' = 0
          /\ ck' = ck
      BY RetireEffect
    <2> QED BY <2>1, TaskFields, Bounds
        DEF Lives, Skipped, Holding, Sampled, Writing, Stages, TaskStages, Slots, Eligible
  <1> QED BY <1>1, <1>2, <1>3, <1>4, <1>5, <1>6, <1>7, <1>8, <1>9 DEF Lives

\* Tick keeps Lives.
LEMMA Lives_Tick ==
  ASSUME Typed, Typed', Stages, Handles, Lives, Tick
  PROVE  Lives'
  <1>1. /\ live' = live /\ revision' = revision /\ savedRevision' = savedRevision
        /\ resident' = resident /\ saved' = saved /\ ck' = ck /\ reg' = reg
    BY TickEffect
  <1> QED BY <1>1, LivesFrame

\* ReadDone keeps Lives.
LEMMA Lives_ReadDone ==
  ASSUME Typed, Typed', Stages, Handles, Lives, NEW r \in Readers, ReadDone(r)
  PROVE  Lives'
  <1>1. /\ live' = live /\ revision' = revision /\ savedRevision' = savedRevision
        /\ resident' = resident /\ saved' = saved /\ ck' = ck /\ reg' = reg
    BY ReadDoneEffect
  <1> QED BY <1>1, LivesFrame

\* Stamp keeps Lives.
LEMMA Lives_Stamp ==
  ASSUME Typed, Typed', Stages, Handles, Lives, NEW r \in Readers, Stamp(r)
  PROVE  Lives'
  <1>1. /\ live' = live /\ revision' = revision /\ savedRevision' = savedRevision
        /\ resident' = resident /\ saved' = saved /\ ck' = ck /\ reg' = reg
    BY StampEffect
  <1> QED BY <1>1, LivesFrame

\* Mark keeps Lives.
LEMMA Lives_Mark ==
  ASSUME Typed, Typed', Stages, Handles, Lives, NEW r \in Readers, Mark(r)
  PROVE  Lives'
  <1>1. /\ live' = live /\ revision' = revision /\ savedRevision' = savedRevision
        /\ resident' = resident /\ saved' = saved /\ ck' = ck /\ reg' = reg
    BY MarkEffect
  <1> QED BY <1>1, LivesFrame

\* Notify keeps Lives.
LEMMA Lives_Notify ==
  ASSUME Typed, Typed', Stages, Handles, Lives, NEW r \in Readers, Notify(r)
  PROVE  Lives'
  <1>1. /\ live' = live /\ revision' = revision /\ savedRevision' = savedRevision
        /\ resident' = resident /\ saved' = saved /\ ck' = ck /\ reg' = reg
    BY NotifyEffect
  <1> QED BY <1>1, LivesFrame

\* Queue keeps Lives.
LEMMA Lives_Queue ==
  ASSUME Typed, Typed', Stages, Handles, Lives, NEW r \in Readers, Queue(r)
  PROVE  Lives'
  <1>1. /\ live' = live /\ revision' = revision /\ savedRevision' = savedRevision
        /\ resident' = resident /\ saved' = saved /\ ck' = ck /\ reg' = reg
    BY QueueEffect
  <1> QED BY <1>1, LivesFrame

\* Register keeps Lives.
LEMMA Lives_Register ==
  ASSUME Typed, Typed', Stages, Handles, Lives, NEW p \in Pages, Register(p)
  PROVE  Lives'
  <1>1. Counters'
    <2>1. reg'.saved = reg.saved /\ reg'.membership = reg.membership
          /\ reg'.removed = reg.removed /\ reg'.overflow = reg.overflow /\ ck' = ck
        BY RegisterEffect
    <2> QED BY <2>1 DEF Lives, Counters
  <1>2. Revisions'
    <2>1. /\ live # 0 /\ ck.pc \notin {"consume", "sample"} /\ revision' = revision + 1
          /\ live' = live /\ savedRevision' = savedRevision /\ ck' = ck
      BY RegisterEffect
    <2> QED BY <2>1, Numbers
        DEF Lives, Revisions, Holding, Sampled, Writing, Stages, TaskStages
  <1>3. OldLife'
    <2>1. live' = live /\ reg'.removed = reg.removed /\ reg'.overflow = reg.overflow /\ ck' = ck
        BY RegisterEffect
    <2> QED BY <2>1 DEF Lives, OldLife, Later
  <1>4. YoungLife'
    <2>1. /\ savedRevision' = savedRevision /\ revision' = revision + 1
          /\ \A q \in Pages : q # p => saved'[q] = saved[q]
          /\ saved'[p] = 0 \/ saved'[p] = saved[p]
      BY RegisterEffect
    <2>2. revision' # 0 BY <2>1, TaskFields, Bounds
    <2>3. NewLife => NewLife' BY <2>1, <2>2 DEF NewLife
    <2>4. ck'.pc = ck.pc /\ live' = live /\ ck'.ceiling = ck.ceiling BY RegisterEffect
    <2> QED BY <2>3, <2>4 DEF Lives, YoungLife
  <1>5. LaterLife'
    <2>1. /\ savedRevision' = savedRevision /\ revision' = revision + 1
          /\ \A q \in Pages : q # p => saved'[q] = saved[q]
          /\ saved'[p] = 0 \/ saved'[p] = saved[p]
      BY RegisterEffect
    <2>2. revision' # 0 BY <2>1, TaskFields, Bounds
    <2>3. NewLife => NewLife' BY <2>1, <2>2 DEF NewLife
    <2>4. ck'.pc = ck.pc /\ ck'.upto = ck.upto /\ reg'.removed = reg.removed /\ reg'.overflow = reg.overflow
        BY RegisterEffect
    <2> QED BY <2>3, <2>4 DEF Lives, LaterLife, Later
  <1>6. TombDue'
    <2>1. reg'.removed = reg.removed /\ ck' = ck BY RegisterEffect
    <2> QED BY <2>1 DEF Lives, TombDue, Holding, Sampled, Writing
  <1>7. NoTombDue'
    <2>1. reg'.removed = reg.removed /\ ck' = ck BY RegisterEffect
    <2> QED BY <2>1 DEF Lives, NoTombDue, Holding, Sampled, Writing, Counters
  <1>8. NoOverflow'
    <2>1. reg'.overflow = reg.overflow /\ ck' = ck BY RegisterEffect
    <2> QED BY <2>1 DEF Lives, NoOverflow, Holding, Sampled, Writing, Counters
  <1>9. Skipped'
    <2>1. live' = live /\ ck' = ck BY RegisterEffect
    <2> QED BY <2>1 DEF Lives, Skipped, Holding, Sampled, Writing, Stages, TaskStages, Slots, Eligible
  <1> QED BY <1>1, <1>2, <1>3, <1>4, <1>5, <1>6, <1>7, <1>8, <1>9 DEF Lives

\* Delete keeps Lives.
LEMMA Lives_Delete ==
  ASSUME Typed, Typed', Stages, Handles, Lives, NEW p \in Pages, Delete(p)
  PROVE  Lives'
  <1>1. Counters'
    <2>1. ck'.pc = ck.pc /\ ck'.upto = ck.upto /\ reg' = reg BY DeleteEffect
    <2> QED BY <2>1 DEF Lives, Counters
  <1>2. Revisions'
    <2>1. /\ p \in resident /\ revision' = revision + 1 /\ savedRevision' = savedRevision
          /\ live' = live /\ ck'.pc = ck.pc /\ ck'.slot = ck.slot /\ ck'.revision = ck.revision
      BY DeleteEffect
    <2>2. live # 0 BY <2>1 DEF Stages, Slots
    <2> QED BY <2>1, <2>2, Numbers DEF Lives, Revisions
  <1>3. OldLife'
    <2>1. ck'.pc = ck.pc /\ live' = live /\ ck'.ceiling = ck.ceiling /\ ck'.upto = ck.upto /\ reg' = reg
        BY DeleteEffect
    <2> QED BY <2>1 DEF Lives, OldLife, Later
  <1>4. YoungLife'
    <2>1. /\ savedRevision' = savedRevision /\ revision' = revision + 1
          /\ \A q \in Pages : q # p => saved'[q] = saved[q]
          /\ saved'[p] = 0 \/ saved'[p] = saved[p]
      BY DeleteEffect
    <2>2. revision' # 0 BY <2>1, TaskFields, Bounds
    <2>3. NewLife => NewLife' BY <2>1, <2>2 DEF NewLife
    <2>4. ck'.pc = ck.pc /\ live' = live /\ ck'.ceiling = ck.ceiling BY DeleteEffect
    <2> QED BY <2>3, <2>4 DEF Lives, YoungLife
  <1>5. LaterLife'
    <2>1. /\ savedRevision' = savedRevision /\ revision' = revision + 1
          /\ \A q \in Pages : q # p => saved'[q] = saved[q]
          /\ saved'[p] = 0 \/ saved'[p] = saved[p]
      BY DeleteEffect
    <2>2. revision' # 0 BY <2>1, TaskFields, Bounds
    <2>3. NewLife => NewLife' BY <2>1, <2>2 DEF NewLife
    <2>4. ck'.pc = ck.pc /\ ck'.upto = ck.upto /\ reg'.removed = reg.removed /\ reg'.overflow = reg.overflow
        BY DeleteEffect
    <2> QED BY <2>3, <2>4 DEF Lives, LaterLife, Later
  <1>6. TombDue'
    <2>1. ck'.pc = ck.pc /\ ck'.gone = ck.gone /\ ck'.upto = ck.upto /\ reg' = reg BY DeleteEffect
    <2> QED BY <2>1 DEF Lives, TombDue, Holding, Sampled, Writing
  <1>7. NoTombDue'
    <2>1. ck'.pc = ck.pc /\ ck'.gone = ck.gone /\ ck'.full = ck.full /\ ck'.upto = ck.upto /\ reg' = reg
        BY DeleteEffect
    <2> QED BY <2>1 DEF Lives, NoTombDue, Holding, Sampled, Writing, Counters
  <1>8. NoOverflow'
    <2>1. ck'.pc = ck.pc /\ ck'.full = ck.full /\ ck'.upto = ck.upto /\ reg' = reg BY DeleteEffect
    <2> QED BY <2>1 DEF Lives, NoOverflow, Holding, Sampled, Writing, Counters
  <1>9. Skipped'
    <2>1. ck'.pc = ck.pc /\ ck'.full = ck.full /\ ck'.slot = ck.slot /\ live' = live /\ ck'.ceiling = ck.ceiling
        BY DeleteEffect
    <2> QED BY <2>1 DEF Lives, Skipped, Holding, Sampled, Writing, Stages, TaskStages, Slots, Eligible
  <1> QED BY <1>1, <1>2, <1>3, <1>4, <1>5, <1>6, <1>7, <1>8, <1>9 DEF Lives

\* Restart keeps Lives.
LEMMA Lives_Restart ==
  ASSUME Typed, Typed', Stages, Handles, Lives, Restart
  PROVE  Lives'
  <1>1. PICK b \in bases, l \in logs, found \in SUBSET resident :
           /\ b \in File /\ l \in Log /\ Recovered(b, l) \in Ages
           /\ base' = b /\ bases' = {b} /\ log' = l /\ logs' = {l}
           /\ resident' = found
           /\ last' = [p \in Pages |-> IF p \in found /\ Recovered(b, l)[p] # 0
                                       THEN Recovered(b, l)[p] ELSE Unknown]
           /\ live' = IF found = {} THEN 0 ELSE 1
           /\ reg' \in Registries
           /\ reg'.next = live' /\ reg'.saved = 0 /\ reg'.removed = {} /\ reg'.overflow = 0
           /\ reg'.membership = live' + (IF b.gen = 0 THEN 0 ELSE 1)
           /\ reg'.journal.gen = b.gen /\ reg'.journal.full = TRUE /\ reg'.dir = reg.dir
           /\ saved' = [p \in Pages |-> IF p \in found THEN saved[p] ELSE 0]
    BY RestartFacts
  <1>2. /\ ck' = Idle /\ mark' = Clean /\ blockDirty' = Unknown /\ revision' = 0 /\ savedRevision' = 0
        /\ shardDirty' = [s \in 1 .. MaxSlots |-> Unknown] /\ reader' = [r \in Readers |-> Resting]
    BY DEF Restart
  <1>3. Counters' BY <1>1, <1>2, IdleFields DEF Counters
  <1>4. Revisions' BY <1>1, <1>2, IdleFields, Bounds DEF Revisions, Holding, Sampled, Writing
  <1>5. OldLife' BY <1>2, IdleFields DEF OldLife
  <1>6. YoungLife' BY <1>2, IdleFields DEF YoungLife
  <1>7. LaterLife' BY <1>1, <1>2, IdleFields DEF LaterLife, Later
  <1>8. TombDue' BY <1>2, IdleFields DEF TombDue, Holding, Sampled, Writing
  <1>9. NoTombDue' BY <1>2, IdleFields DEF NoTombDue, Holding, Sampled, Writing
  <1>10. NoOverflow' BY <1>2, IdleFields DEF NoOverflow, Holding, Sampled, Writing
  <1>11. Skipped' BY <1>2, IdleFields DEF Skipped, Holding, Sampled, Writing
  <1> QED BY <1>3, <1>4, <1>5, <1>6, <1>7, <1>8, <1>9, <1>10, <1>11 DEF Lives

\* Every step keeps Lives.
LEMMA LivesStep ==
  ASSUME Typed, Typed', Stages, Handles, Lives, [Next]_vars
  PROVE  Lives'
  <1>1. CASE UNCHANGED vars BY <1>1 DEF vars, memory, disk, ghost, Lives, Counters, Revisions,
      OldLife, YoungLife, LaterLife, TombDue, NoTombDue, NoOverflow, Skipped, Later, NewLife
  <1>2. CASE Tick BY <1>2, Lives_Tick
  <1>3. ASSUME NEW r \in Readers, ReadDone(r) \/ Touch(r) PROVE Lives'
    BY <1>3, Lives_ReadDone, Lives_Stamp, Lives_Mark, Lives_Notify, Lives_Queue DEF Touch
  <1>4. ASSUME NEW p \in Pages, Register(p) \/ Delete(p) PROVE Lives'
    BY <1>4, Lives_Register, Lives_Delete
  <1>5. CASE Create \/ Retire \/ CkTooLarge \/ CkFail \/ Restart
    BY <1>5, Lives_Create, Lives_Retire, Lives_CkTooLarge, Lives_CkFail, Lives_Restart
  <1>6. CASE Checkpoint
    BY <1>6, Lives_CkStart, Lives_CkJournal, Lives_CkPick, Lives_CkSummary, Lives_CkSample,
        Lives_CkSampled, Lives_CkNoDirectory, Lives_CkEncode, Lives_CkBase, Lives_CkBaseSync,
        Lives_CkLog, Lives_CkLogSync, Lives_CkAppend, Lives_CkAppendSync, Lives_CkSetJournal,
        Lives_CkRevise, Lives_CkFinish, Lives_CkDropSummary, Lives_CkConsume, Lives_CkDropPage
        DEF Checkpoint
  <1> QED BY <1>1, <1>2, <1>3, <1>4, <1>5, <1>6 DEF Next
=============================================================================
