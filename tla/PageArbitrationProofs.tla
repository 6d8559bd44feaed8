----------------------- MODULE PageArbitrationProofs -----------------------
(***************************************************************************)
(* The safety of the page lifecycle, for every number of pages, readers,   *)
(* collectors and fills, with and without TTI.                             *)
(***************************************************************************)
EXTENDS PageArbitration, Integers, FiniteSetTheorems, TLAPS

(* The stages of a job, and those at which it holds the mutation gate.     *)
CollectorAt == {"idle", "picked", "gated", "claimed", "unlinked", "cleared",
                "finished", "sweep", "sweeping"}
EvictorAt   == {"idle", "chosen", "waiting", "claiming", "claimed", "deleted"}
FillerAt    == {"idle", "waiting", "writing", "written", "registered",
                "marked", "guarding"}
Stages      == CollectorAt \cup EvictorAt \cup FillerAt
InGate      == {"gated", "claimed", "unlinked", "cleared", "finished",
                "sweeping", "claiming", "deleted", "writing", "written",
                "registered", "marked"}

Word    == [readers : Int, retry : Nat, closed : BOOLEAN, accessed : BOOLEAN]
ReadRec == [at : {"idle", "acquired", "reading", "touched"}, page : Pages,
            handle : 0..MaxHandles]
JobRec  == [at : Stages, page : Pages, handle : 0..MaxHandles, sel : Nat,
            reason : Nat, life : 0..MaxLives, claimed : SUBSET Handles,
            quiet : BOOLEAN, used : BOOLEAN]

JobsTyped ==
  /\ job \in [Procs -> JobRec]
  /\ \A c \in Collectors : job[c].at \in CollectorAt
  /\ job[Evictor].at \in EvictorAt
  /\ \A f \in Fillers : job[f].at \in FillerAt
  /\ \A c \in Collectors : job[c].at \notin {"idle", "sweep", "sweeping"} =>
       job[c].handle \in 1..handles

RestTyped ==
  /\ idle \in [Handles -> BOOLEAN]
  /\ handles \in 0..MaxHandles
  /\ entry \in [Pages -> 0..handles]
  /\ selection \in [Pages -> Nat]
  /\ resident \subseteq Pages /\ file \subseteq Pages /\ torn \subseteq Pages
  /\ retries \subseteq Resident
  /\ cleanup \in BOOLEAN /\ queued \in BOOLEAN
  /\ lives \in 0..MaxLives
  /\ life \in 0..lives
  /\ gate \in [Lives -> SUBSET Procs]
  /\ rd \in [Readers -> ReadRec]

StoreTyped == word \in [Handles -> Word] /\ RestTyped

Typed == StoreTyped /\ JobsTyped

(* A job is in the gate of its record exactly at the stages of InGate; a   *)
(* job that was given a record was given the one in the registry; and two  *)
(* jobs in one gate are warm fills, of different pages.                    *)
GateInv ==
  /\ \A x \in Procs, l \in Lives :
       x \in gate[l] <=> job[x].at \in InGate /\ job[x].life = l
  /\ \A x \in Procs : job[x].at \notin {"idle", "chosen"} =>
       job[x].life = life /\ life # 0
  /\ \A l \in Lives : \A x, y \in gate[l] :
       x # y => x \in WarmFillers /\ y \in WarmFillers
  /\ \A f, g \in Fillers :
       f # g /\ job[f].at # "idle" /\ job[g].at # "idle" =>
         job[f].page # job[g].page

(* The readers of a handle: read requests and the fills that make room.    *)
Holders(h) ==
  {r \in Readers : rd[r].at # "idle" /\ rd[r].handle = h}
    \cup {f \in Fillers : job[f].at = "guarding" /\ job[f].handle = h}

(* The collectors that have closed a page, and whether it is closed by one *)
(* of them or by the eviction of the block.                                *)
Closers == {c \in Collectors : job[c].at \in {"claimed", "unlinked", "cleared"}}

TableInv ==
  /\ \A p, q \in Pages : entry[p] = entry[q] /\ entry[p] # 0 => p = q
  /\ \A h \in Handles : h > handles => ~word[h].closed /\ word[h].retry = 0
  /\ \A h \in Handles : word[h].readers = Cardinality(Holders(h))
  /\ \A r \in Readers : rd[r].at # "idle" =>
       entry[rd[r].page] = rd[r].handle /\ rd[r].handle # 0
  /\ \A f \in Fillers : job[f].at = "guarding" =>
       entry[job[f].page] = job[f].handle
  /\ \A f \in Fillers : job[f].at \in {"registered", "marked", "guarding"} =>
       entry[job[f].page] # 0

ClaimInv ==
  /\ \A h \in Handles : word[h].closed => Holders(h) = {}
  /\ \A c \in Closers : Current(c) /\ word[job[c].handle].closed
  /\ \A h \in E0.claimed : word[h].closed /\ \E p \in Pages : entry[p] = h
  /\ E0.claimed # {} => E0.at \in {"claiming", "claimed", "deleted"}
  /\ E0.at \in {"claimed", "deleted"} => E0.claimed = {entry[p] : p \in Resident}
  /\ \A p \in Resident : word[entry[p]].closed =>
       entry[p] \in E0.claimed \/ \E c \in Closers : job[c].page = p
  /\ \A h \in 1..handles : (\A p \in Pages : entry[p] # h) => word[h].closed

FileInv ==
  /\ \A p \in resident : entry[p] # 0 =>
       \/ p \in file \cup torn
       \/ E0.at = "deleted"
       \/ \E c \in Collectors : job[c].at = "unlinked" /\ job[c].page = p
  /\ \A f \in Fillers : job[f].at \in {"written", "registered", "marked"} =>
       job[f].page \in file

(* A candidate whose page was used after its selection is stale, or the    *)
(* access bit shows the use.                                               *)
CandidateInv ==
  /\ \A c \in Collectors : job[c].at \in {"picked", "gated"} =>
       /\ job[c].handle = entry[job[c].page] => job[c].sel <= selection[job[c].page]
       /\ Current(c) /\ job[c].used => word[job[c].handle].accessed
  /\ \A c \in Collectors : job[c].at = "claimed" => ~job[c].used

(* A use of the block that the policy has not seen is by a reader or a     *)
(* fill that still protects a page from the claim.                         *)
StaleBlockInv ==
  /\ E0.used /\ E0.quiet =>
       \/ \E r \in Readers : rd[r].at = "acquired"
       \/ \E f \in Fillers : job[f].at = "registered"
  /\ E0.at = "idle" => ~E0.used
  /\ E0.at = "claimed" => ~E0.used

ArbitrationInv ==
  Typed /\ GateInv /\ TableInv /\ ClaimInv /\ FileInv
    /\ CandidateInv /\ StaleBlockInv /\ DeferredWorkQueued

-----------------------------------------------------------------------------
(* What a step of one job does to the records.                             *)

(* The three kinds of processes are processes, and no process is of two    *)
(* kinds.                                                                  *)
LEMMA Members ==
  /\ Evictor \in Procs
  /\ \A c \in Collectors : c \in Procs /\ c \notin Fillers /\ c # Evictor
  /\ \A f \in Fillers : f \in Procs /\ f \notin Collectors /\ f # Evictor
  /\ \A x \in Procs : x \in Collectors \/ x = Evictor \/ x \in Fillers
BY ConstantsAssumption DEF Procs

(* The records of an idle process and of an idle reader are well typed.    *)
LEMMA NothingTyped == NoJob \in JobRec /\ NoRead \in ReadRec
<1>1. (CHOOSE p \in Pages : TRUE) \in Pages
  BY ConstantsAssumption
<1> QED
  BY <1>1, ConstantsAssumption
  DEF NoJob, JobRec, NoRead, ReadRec, Stages, CollectorAt

(* Updates of one field of a job and of a word.                            *)
SameTarget(j, k) ==
  /\ k.page = j.page /\ k.handle = j.handle /\ k.sel = j.sel
  /\ k.reason = j.reason /\ k.life = j.life /\ k.claimed = j.claimed

(* Moving a job to a stage leaves the rest of it.                          *)
LEMMA SetAt ==
  ASSUME NEW j \in JobRec, NEW v \in Stages
  PROVE  LET k == [j EXCEPT !.at = v]
         IN  /\ k \in JobRec /\ k.at = v /\ SameTarget(j, k)
             /\ k.quiet = j.quiet /\ k.used = j.used
BY DEF JobRec, SameTarget

(* Telling a job that its page was used leaves the rest of it.             *)
LEMMA SetUsed ==
  ASSUME NEW j \in JobRec
  PROVE  LET k == [j EXCEPT !.used = TRUE]
         IN  /\ k \in JobRec /\ k.at = j.at /\ SameTarget(j, k)
             /\ k.quiet = j.quiet /\ k.used = TRUE
BY DEF JobRec, SameTarget

(* Changing whether a job saw no use leaves the rest of it.                *)
LEMMA SetQuiet ==
  ASSUME NEW j \in JobRec, NEW v \in BOOLEAN
  PROVE  LET k == [j EXCEPT !.quiet = v]
         IN  /\ k \in JobRec /\ k.at = j.at /\ SameTarget(j, k)
             /\ k.quiet = v /\ k.used = j.used
BY DEF JobRec, SameTarget

(* Giving a job the life of a block leaves the rest of it.                 *)
LEMMA SetLife ==
  ASSUME NEW j \in JobRec, NEW l \in 0..MaxLives
  PROVE  LET k == [j EXCEPT !.life = l]
         IN  /\ k \in JobRec /\ k.at = j.at /\ k.life = l
             /\ k.quiet = j.quiet /\ k.used = j.used
             /\ k.page = j.page /\ k.handle = j.handle /\ k.claimed = j.claimed
BY DEF JobRec

(* Changing the handles a job has claimed leaves the rest of it.           *)
LEMMA SetClaimed ==
  ASSUME NEW j \in JobRec, NEW s \in SUBSET Handles
  PROVE  LET k == [j EXCEPT !.claimed = s]
         IN  /\ k \in JobRec /\ k.at = j.at /\ k.life = j.life
             /\ k.quiet = j.quiet /\ k.used = j.used
             /\ k.page = j.page /\ k.handle = j.handle /\ k.claimed = s
BY DEF JobRec

(* Giving a job a handle leaves the rest of it.                            *)
LEMMA SetHandle ==
  ASSUME NEW j \in JobRec, NEW h \in 0..MaxHandles
  PROVE  LET k == [j EXCEPT !.handle = h]
         IN  /\ k \in JobRec /\ k.at = j.at /\ k.life = j.life
             /\ k.page = j.page /\ k.handle = h /\ k.claimed = j.claimed
BY DEF JobRec

(* Changing the reader count of a page word leaves its flags.              *)
LEMMA SetReaders ==
  ASSUME NEW w \in Word, NEW n \in Int
  PROVE  LET v == [w EXCEPT !.readers = n]
         IN  /\ v \in Word /\ v.readers = n /\ v.retry = w.retry
             /\ v.closed = w.closed /\ v.accessed = w.accessed
BY DEF Word

(* Changing the retry of a page word leaves the rest of it.                *)
LEMMA SetRetry ==
  ASSUME NEW w \in Word, NEW n \in Nat
  PROVE  LET v == [w EXCEPT !.retry = n]
         IN  /\ v \in Word /\ v.readers = w.readers /\ v.retry = n
             /\ v.closed = w.closed /\ v.accessed = w.accessed
BY DEF Word

(* Closing or opening a page word leaves the rest of it.                   *)
LEMMA SetClosed ==
  ASSUME NEW w \in Word, NEW b \in BOOLEAN
  PROVE  LET v == [w EXCEPT !.closed = b]
         IN  /\ v \in Word /\ v.readers = w.readers /\ v.retry = w.retry
             /\ v.closed = b /\ v.accessed = w.accessed
BY DEF Word

(* Changing the access mark of a page word leaves the rest of it.          *)
LEMMA SetAccessed ==
  ASSUME NEW w \in Word, NEW b \in BOOLEAN
  PROVE  LET v == [w EXCEPT !.accessed = b]
         IN  /\ v \in Word /\ v.readers = w.readers /\ v.retry = w.retry
             /\ v.closed = w.closed /\ v.accessed = b
BY DEF Word

(* The four ways in which a step changes the jobs: one job moves to        *)
(* another stage, ends or starts, or jobs are told of a use.               *)
OnlyJob(x) ==
  /\ job' \in [Procs -> JobRec]
  /\ \A y \in Procs : y # x => job'[y] = job[y]

Moves(x, v) ==
  /\ OnlyJob(x)
  /\ job'[x].at = v /\ SameTarget(job[x], job'[x])
  /\ job'[x].quiet = job[x].quiet /\ job'[x].used = job[x].used

Ends(x) == OnlyJob(x) /\ job'[x] = NoJob

Told ==
  /\ job' \in [Procs -> JobRec]
  /\ \A x \in Procs : job'[x].at = job[x].at /\ SameTarget(job[x], job'[x])

(* An update of one job's stage moves that job and no other.               *)
LEMMA JobMoves ==
  ASSUME JobsTyped, NEW x \in Procs, NEW v \in Stages,
         job' = [job EXCEPT ![x].at = v]
  PROVE  Moves(x, v)
<1>1. job[x] \in JobRec
  BY DEF JobsTyped
<1> QED BY <1>1, SetAt DEF JobsTyped, Moves, OnlyJob

(* An update of one job to NoJob ends that job and no other.               *)
LEMMA JobEnds ==
  ASSUME JobsTyped, NEW x \in Procs, job' = [job EXCEPT ![x] = NoJob]
  PROVE  Ends(x)
BY NothingTyped DEF JobsTyped, Ends, OnlyJob

(* An update of one job is the only change to the jobs.                    *)
LEMMA JobStarts ==
  ASSUME JobsTyped, NEW x \in Procs, NEW j \in JobRec,
         job' = [job EXCEPT ![x] = j]
  PROVE  OnlyJob(x) /\ job'[x] = j
BY DEF JobsTyped, OnlyJob

(* Use(D) tells the jobs in D, and only those, that their page was used.   *)
LEMMA JobsUsed ==
  ASSUME JobsTyped, NEW D, job' = Use(D)
  PROVE  /\ Told
         /\ \A x \in Procs : job'[x].quiet = job[x].quiet
         /\ \A x \in Procs : x \in D => job'[x].used
         /\ \A x \in Procs : x \notin D => job'[x] = job[x]
<1>1. \A x \in Procs : job[x] \in JobRec
  BY DEF JobsTyped
<1>2. \A x \in Procs : job'[x] = IF x \in D THEN [job[x] EXCEPT !.used = TRUE] ELSE job[x]
  BY DEF Use
<1>3. \A x \in Procs : SameTarget(job[x], job[x])
  BY DEF SameTarget
<1>4. job' = [x \in Procs |-> IF x \in D THEN [job[x] EXCEPT !.used = TRUE] ELSE job[x]]
  BY DEF Use
<1>5. job' \in [Procs -> JobRec]
  BY <1>1, <1>4, SetUsed
<1> QED BY <1>1, <1>2, <1>3, <1>5, SetUsed DEF Told

(* A use of the block tells the evictor and changes no other job.          *)
LEMMA EvictorDisturbed ==
  ASSUME JobsTyped, job' = [job EXCEPT ![Evictor].quiet = FALSE]
  PROVE  /\ Told
         /\ ~job'[Evictor].quiet
         /\ \A x \in Procs : job'[x].used = job[x].used
         /\ OnlyJob(Evictor)
<1>1. job[Evictor] \in JobRec /\ Evictor \in Procs
  BY Members DEF JobsTyped
<1>2. \A x \in Procs : SameTarget(job[x], job[x])
  BY DEF SameTarget
<1>3. FALSE \in BOOLEAN
  OBVIOUS
<1> QED BY <1>1, <1>2, <1>3, SetQuiet DEF JobsTyped, Told, OnlyJob

(* The record of the idle job.                                             *)
LEMMA NoJobFields ==
  /\ NoJob.at = "idle" /\ NoJob.handle = 0 /\ NoJob.sel = 0 /\ NoJob.life = 0
  /\ NoJob.claimed = {} /\ ~NoJob.quiet /\ ~NoJob.used
  /\ NoRead.at = "idle"
BY DEF NoJob, NoRead

(* The evictor's choice of the block changes no other job.                 *)
LEMMA EvictorChooses ==
  ASSUME JobsTyped,
         job' = [job EXCEPT ![Evictor].at = "chosen", ![Evictor].quiet = TRUE]
  PROVE  /\ OnlyJob(Evictor)
         /\ E0'.at = "chosen" /\ SameTarget(E0, E0') /\ E0'.used = E0.used
<1>1. E0 \in JobRec /\ Evictor \in Procs /\ "chosen" \in Stages
  BY Members DEF JobsTyped, E0, Stages, EvictorAt
<1> DEFINE k == [E0 EXCEPT !.at = "chosen"]
<1>2. k \in JobRec /\ k.at = "chosen" /\ SameTarget(E0, k) /\ k.used = E0.used
  BY <1>1, SetAt
<1> DEFINE m == [k EXCEPT !.quiet = TRUE]
<1>3. job' = [job EXCEPT ![Evictor] = m]
  BY <1>1 DEF JobsTyped, E0
<1>4. TRUE \in BOOLEAN
  OBVIOUS
<1> HIDE DEF k
<1>5. m \in JobRec /\ m.at = k.at /\ SameTarget(k, m) /\ m.used = k.used
  BY <1>2, <1>4, SetQuiet
<1> HIDE DEF m
<1>6. OnlyJob(Evictor) /\ E0' = m
  BY <1>1, <1>3, <1>5, JobStarts DEF E0
<1> QED BY <1>2, <1>5, <1>6 DEF SameTarget

(* The evictor obtains the block it chose, in its present life.            *)
LEMMA EvictorObtains ==
  ASSUME JobsTyped, NEW l \in 0..MaxLives,
         job' = [job EXCEPT ![Evictor].at = "waiting", ![Evictor].life = l]
  PROVE  /\ OnlyJob(Evictor)
         /\ E0'.at = "waiting" /\ E0'.life = l /\ E0'.claimed = E0.claimed
         /\ E0'.quiet = E0.quiet /\ E0'.used = E0.used
<1>1. E0 \in JobRec /\ Evictor \in Procs /\ "waiting" \in Stages
  BY Members DEF JobsTyped, E0, Stages, EvictorAt
<1> DEFINE k == [E0 EXCEPT !.at = "waiting"]
<1>2. k \in JobRec /\ k.at = "waiting" /\ SameTarget(E0, k)
      /\ k.quiet = E0.quiet /\ k.used = E0.used
  BY <1>1, SetAt
<1> DEFINE m == [k EXCEPT !.life = l]
<1>3. job' = [job EXCEPT ![Evictor] = m]
  BY <1>1 DEF JobsTyped, E0
<1> HIDE DEF k
<1>4. /\ m \in JobRec /\ m.at = k.at /\ m.life = l /\ m.claimed = k.claimed
      /\ m.quiet = k.quiet /\ m.used = k.used
  BY <1>2, SetLife
<1> HIDE DEF m
<1>5. OnlyJob(Evictor) /\ E0' = m
  BY <1>1, <1>3, <1>4, JobStarts DEF E0
<1> QED BY <1>2, <1>4, <1>5 DEF SameTarget

(* The evictor claims one more handle.                                     *)
LEMMA EvictorClaims ==
  ASSUME JobsTyped, NEW h \in Handles,
         job' = [job EXCEPT ![Evictor].claimed = @ \cup {h}]
  PROVE  /\ OnlyJob(Evictor)
         /\ E0'.at = E0.at /\ E0'.life = E0.life
         /\ E0'.claimed = E0.claimed \cup {h}
         /\ E0'.quiet = E0.quiet /\ E0'.used = E0.used
<1>1. E0 \in JobRec /\ Evictor \in Procs
  BY Members DEF JobsTyped, E0
<1>2. E0.claimed \cup {h} \in SUBSET Handles
  BY <1>1 DEF JobRec
<1>3. job' = [job EXCEPT ![Evictor] = [E0 EXCEPT !.claimed = E0.claimed \cup {h}]]
  BY DEF E0
<1> QED BY <1>1, <1>2, <1>3, SetClaimed DEF JobsTyped, OnlyJob, E0

(* A fill that marks its block also tells the evictor.                     *)
LEMMA FillMarks ==
  ASSUME JobsTyped, NEW f \in Fillers,
         job' = [job EXCEPT ![f].at = "marked", ![Evictor].quiet = FALSE]
  PROVE  /\ job' \in [Procs -> JobRec]
         /\ job'[f].at = "marked" /\ SameTarget(job[f], job'[f])
         /\ \A x \in Procs : x # f =>
              /\ job'[x].at = job[x].at /\ SameTarget(job[x], job'[x])
              /\ job'[x].used = job[x].used
         /\ ~E0'.quiet
<1>1. job[f] \in JobRec /\ E0 \in JobRec /\ f \in Procs /\ Evictor \in Procs
      /\ f # Evictor /\ "marked" \in Stages
  BY Members DEF JobsTyped, E0, Stages, FillerAt
<1>2. /\ job' \in [Procs -> JobRec]
      /\ job'[f] = [job[f] EXCEPT !.at = "marked"]
      /\ E0' = [E0 EXCEPT !.quiet = FALSE]
      /\ \A x \in Procs : x # f /\ x # Evictor => job'[x] = job[x]
  <2>1. FALSE \in BOOLEAN
    OBVIOUS
  <2>2. [job[f] EXCEPT !.at = "marked"] \in JobRec
    BY <1>1, SetAt
  <2>3. [E0 EXCEPT !.quiet = FALSE] \in JobRec
    BY <1>1, <2>1, SetQuiet
  <2> QED BY <1>1, <2>2, <2>3 DEF JobsTyped, E0
<1>3. \A x \in Procs : SameTarget(job[x], job[x])
  BY DEF SameTarget
<1>4. job'[f].at = "marked" /\ SameTarget(job[f], job'[f])
  BY <1>1, <1>2, SetAt
<1>5. /\ E0'.at = E0.at /\ SameTarget(E0, E0') /\ E0'.used = E0.used
      /\ ~E0'.quiet
  <2>1. FALSE \in BOOLEAN
    OBVIOUS
  <2> QED BY <1>1, <1>2, <2>1, SetQuiet
<1> QED BY <1>2, <1>3, <1>4, <1>5 DEF E0

(* A fill takes a guard on the handle it found.                            *)
LEMMA FillProtects ==
  ASSUME JobsTyped, NEW f \in Fillers, NEW h \in 0..MaxHandles,
         job' = [job EXCEPT ![f].at = "guarding", ![f].handle = h]
  PROVE  /\ OnlyJob(f)
         /\ job'[f].at = "guarding" /\ job'[f].handle = h
         /\ job'[f].page = job[f].page /\ job'[f].life = job[f].life
<1>1. job[f] \in JobRec /\ f \in Procs /\ "guarding" \in Stages
  BY Members DEF JobsTyped, Stages, FillerAt
<1> DEFINE k == [job[f] EXCEPT !.at = "guarding"]
<1>2. k \in JobRec /\ k.at = "guarding" /\ SameTarget(job[f], k)
  BY <1>1, SetAt
<1> DEFINE m == [k EXCEPT !.handle = h]
<1>3. job' = [job EXCEPT ![f] = m]
  BY <1>1 DEF JobsTyped
<1> HIDE DEF k
<1>4. /\ m \in JobRec /\ m.at = k.at /\ m.life = k.life /\ m.page = k.page
      /\ m.handle = h
  BY <1>2, SetHandle
<1> HIDE DEF m
<1>5. OnlyJob(f) /\ job'[f] = m
  BY <1>1, <1>3, <1>4, JobStarts
<1> QED BY <1>2, <1>4, <1>5 DEF SameTarget

(* A fill that registers its page tells those who chose the page.          *)
LEMMA FillRegisters ==
  ASSUME JobsTyped, NEW f \in Fillers, NEW D, f \notin D,
         job' = [Use(D) EXCEPT ![f].at = "registered"]
  PROVE  /\ job' \in [Procs -> JobRec]
         /\ job'[f].at = "registered"
         /\ \A x \in Procs :
              /\ SameTarget(job[x], job'[x]) /\ job'[x].quiet = job[x].quiet
              /\ x # f => job'[x].at = job[x].at
              /\ x \in D => job'[x].used
              /\ x \notin D => job'[x].used = job[x].used
<1>1. f \in Procs /\ "registered" \in Stages /\ \A x \in Procs : job[x] \in JobRec
  BY Members DEF JobsTyped, Stages, FillerAt
<1> DEFINE J == Use(D)
<1>2. /\ J \in [Procs -> JobRec]
      /\ \A x \in Procs : x \notin D => J[x] = job[x]
      /\ \A x \in Procs : /\ J[x].at = job[x].at /\ SameTarget(job[x], J[x])
                          /\ J[x].quiet = job[x].quiet
                          /\ x \in D => J[x].used
  <2>1. J = [x \in Procs |-> IF x \in D THEN [job[x] EXCEPT !.used = TRUE]
                                        ELSE job[x]]
    BY DEF Use
  <2>2. \A x \in Procs : SameTarget(job[x], job[x])
    BY DEF SameTarget
  <2> HIDE DEF J
  <2> QED BY <1>1, <2>1, <2>2, SetUsed
<1> DEFINE m == [job[f] EXCEPT !.at = "registered"]
<1>3. job' = [J EXCEPT ![f] = m]
  BY <1>1, <1>2
<1>4. /\ m \in JobRec /\ m.at = "registered" /\ SameTarget(job[f], m)
      /\ m.quiet = job[f].quiet /\ m.used = job[f].used
  BY <1>1, SetAt
<1> HIDE DEF J, m
<1>5. /\ job' \in [Procs -> JobRec] /\ job'[f] = m
      /\ \A x \in Procs : x # f => job'[x] = J[x]
  BY <1>1, <1>2, <1>3, <1>4
<1> QED BY <1>2, <1>4, <1>5

(* What each action does to the jobs.                                      *)
LEMMA ReaderViews ==
  ASSUME JobsTyped, NEW r \in Readers
  PROVE  /\ \A p \in Pages : Acquire(r, p) => Told
         /\ TouchPolicy(r) => Told
         /\ Release(r) => Told
<1>1. ASSUME NEW p \in Pages, Acquire(r, p) PROVE Told
  BY <1>1, JobsUsed DEF Acquire
<1>2. ASSUME TouchPolicy(r) PROVE Told
  BY <1>2, EvictorDisturbed DEF TouchPolicy
<1>3. ASSUME Release(r) PROVE Told
  BY <1>3, JobsUsed DEF Release
<1> QED BY <1>1, <1>2, <1>3

(* How each step of a collector moves its own job.                         *)
LEMMA CollectorViews ==
  ASSUME JobsTyped, NEW c \in Collectors
  PROVE  /\ LockPage(c) => Moves(c, "gated")
         /\ Claim(c) => Moves(c, "claimed")
         /\ Unlink(c) => Moves(c, "unlinked")
         /\ ClearPage(c) => Moves(c, "cleared")
         /\ Finish(c) => Moves(c, "finished")
         /\ LockSweep(c) => Moves(c, "sweeping")
         /\ GiveUp(c) \/ UnlinkFails(c) => Ends(c)
         /\ Sweep(c) \/ SweepFails(c) \/ SkipSweep(c) => Ends(c)
<1>1. c \in Procs
  BY Members
<1>2. {"gated", "claimed", "unlinked", "cleared", "finished", "sweeping"}
        \subseteq Stages
  BY DEF Stages, CollectorAt
<1>3. LockPage(c) => Moves(c, "gated")
  BY <1>1, <1>2, JobMoves DEF LockPage, Lock
<1>4. Claim(c) => Moves(c, "claimed")
  BY <1>1, <1>2, JobMoves DEF Claim
<1>5. Unlink(c) => Moves(c, "unlinked")
  BY <1>1, <1>2, JobMoves DEF Unlink
<1>6. ClearPage(c) => Moves(c, "cleared")
  BY <1>1, <1>2, JobMoves DEF ClearPage
<1>7. Finish(c) => Moves(c, "finished")
  BY <1>1, <1>2, JobMoves DEF Finish
<1>8. LockSweep(c) => Moves(c, "sweeping")
  BY <1>1, <1>2, JobMoves DEF LockSweep, Lock
<1>9. GiveUp(c) \/ UnlinkFails(c) => Ends(c)
  BY <1>1, JobEnds DEF GiveUp, UnlinkFails, Leave
<1>10. Sweep(c) \/ SweepFails(c) \/ SkipSweep(c) => Ends(c)
  BY <1>1, JobEnds DEF Sweep, SweepFails, SkipSweep, Leave
<1> QED BY <1>3, <1>4, <1>5, <1>6, <1>7, <1>8, <1>9, <1>10

(* How each step of the evictor moves its own job.                         *)
LEMMA EvictorViews ==
  ASSUME JobsTyped
  PROVE  /\ LockBlock => Moves(Evictor, "claiming")
         /\ ClaimedAll => Moves(Evictor, "claimed")
         /\ DeleteBlock => Moves(Evictor, "deleted")
         /\ DropClaim \/ DeleteFails \/ FinishBlock => Ends(Evictor)
<1>1. Evictor \in Procs
  BY Members
<1>2. {"claiming", "claimed", "deleted"} \subseteq Stages
  BY DEF Stages, EvictorAt
<1>3. LockBlock => Moves(Evictor, "claiming")
  BY <1>1, <1>2, JobMoves DEF LockBlock, Lock
<1>4. ClaimedAll => Moves(Evictor, "claimed")
  BY <1>1, <1>2, JobMoves DEF ClaimedAll
<1>5. DeleteBlock => Moves(Evictor, "deleted")
  BY <1>1, <1>2, JobMoves DEF DeleteBlock
<1>6. DropClaim \/ DeleteFails \/ FinishBlock => Ends(Evictor)
  BY <1>1, JobEnds DEF DropClaim, DeleteFails, FinishBlock, Leave
<1> QED BY <1>3, <1>4, <1>5, <1>6

(* How each step of a fill moves its own job.                              *)
LEMMA FillerViews ==
  ASSUME JobsTyped, NEW f \in Fillers
  PROVE  /\ LockFill(f) => Moves(f, "writing")
         /\ WriteFile(f) => Moves(f, "written")
         /\ WriteFails(f) \/ EndFill(f) => Ends(f)
<1>1. f \in Procs
  BY Members
<1>2. {"writing", "written"} \subseteq Stages
  BY DEF Stages, FillerAt
<1>3. LockFill(f) => Moves(f, "writing")
  BY <1>1, <1>2, JobMoves DEF LockFill
<1>4. WriteFile(f) => Moves(f, "written")
  BY <1>1, <1>2, JobMoves DEF WriteFile
<1>5. WriteFails(f) \/ EndFill(f) => Ends(f)
  BY <1>1, JobEnds DEF WriteFails, EndFill, Leave
<1> QED BY <1>3, <1>4, <1>5

(* The record that a step obtains.                                         *)
LEMMA Obtained ==
  ASSUME StoreTyped, Obtain
  PROVE  /\ lives' \in 0..MaxLives /\ life' \in 1..lives'
         /\ life # 0 => life' = life
         /\ retries' \subseteq Resident
         /\ cleanup' \in BOOLEAN /\ queued' \in BOOLEAN
<1> USE DEF StoreTyped, RestTyped
<1>1. CASE life # 0
  <2>1. UNCHANGED <<life, lives, queued, cleanup, retries>>
    BY <1>1 DEF Obtain
  <2> QED BY <1>1, <2>1
<1>2. CASE life = 0
  <2>1. /\ lives < MaxLives /\ lives' = lives + 1 /\ life' = lives + 1
        /\ queued' = TRUE /\ cleanup' = FALSE /\ retries' = {}
    BY <1>2 DEF Obtain
  <2>2. cleanup' \in BOOLEAN /\ queued' \in BOOLEAN
    BY <2>1, Zenon
  <2>3. lives' \in 0..MaxLives /\ life' \in 1..lives'
    BY <2>1, ConstantsAssumption
  <2> QED BY <1>2, <2>1, <2>2, <2>3
<1> QED BY <1>1, <1>2

(* What the actions that start a job, or change more of it, do.            *)
Selects(c, p) ==
  /\ OnlyJob(c) /\ job[c].at = "idle"
  /\ job'[c].at = "picked" /\ job'[c].page = p
  /\ job'[c].handle = entry[p] /\ job'[c].sel = selection[p] + 1
  /\ job'[c].life = life' /\ job'[c].claimed = {} /\ ~job'[c].used

(* A collector that selects a page starts a job about its present handle.  *)
LEMMA SelectView ==
  ASSUME Typed, NEW c \in Collectors, NEW p \in Pages, NEW n \in Nat,
         life' \in 0..MaxLives, Select(c, p, n, life')
  PROVE  Selects(c, p)
<1>1. c \in Procs /\ "picked" \in Stages
  BY Members DEF Stages, CollectorAt
<1>2. entry[p] \in 0..MaxHandles /\ selection[p] + 1 \in Nat
  BY ConstantsAssumption DEF Typed, StoreTyped, RestTyped
<1>3. PICK l \in 0..MaxLives : l = life'
  OBVIOUS
<1> DEFINE j == [NoJob EXCEPT !.at = "picked", !.page = p, !.handle = entry[p],
                   !.sel = selection[p] + 1, !.reason = n, !.life = l]
<1>4. /\ j \in JobRec
      /\ j.at = "picked" /\ j.page = p /\ j.handle = entry[p]
      /\ j.sel = selection[p] + 1 /\ j.life = l /\ j.claimed = {} /\ ~j.used
  BY <1>1, <1>2, NothingTyped DEF NoJob, JobRec
<1>5. job' = [job EXCEPT ![c] = j] /\ job[c].at = "idle"
  BY <1>3 DEF Select
<1> HIDE DEF j
<1>6. OnlyJob(c) /\ job'[c] = j
  BY <1>1, <1>4, <1>5, JobStarts DEF Typed
<1> QED BY <1>3, <1>4, <1>5, <1>6 DEF Selects

(* A scan visits pages that are in the table.                              *)
LEMMA VisitedResident == Typed => Visited \subseteq Resident
BY DEF Typed, StoreTyped, RestTyped, Visited

(* The handle in a table entry was handed out.                             *)
LEMMA EntryHandle ==
  ASSUME Typed, NEW p \in Pages
  PROVE  /\ entry[p] \in 0..handles /\ entry[p] \in 0..MaxHandles
         /\ entry[p] # 0 => /\ entry[p] \in Handles /\ entry[p] \in 1..handles
                            /\ word[entry[p]] \in Word
BY ConstantsAssumption DEF Typed, StoreTyped, RestTyped, Handles

(* A candidate of the policy is a resident page of a live block.           *)
LEMMA CandidateView ==
  ASSUME Typed, NEW c \in Collectors, NEW p \in Pages, Candidate(c, p)
  PROVE  Selects(c, p) /\ entry[p] # 0 /\ life' \in 1..MaxLives
<1>1. life' \in 0..MaxLives /\ life' \in 1..MaxLives
  BY Obtained, ConstantsAssumption DEF Typed, Candidate
<1>2. entry[p] # 0 /\ Select(c, p, 1, life')
  BY DEF Candidate
<1> QED BY <1>1, <1>2, SelectView

(* A candidate of the scan is a resident page of a live block.             *)
LEMMA ScanView ==
  ASSUME Typed, NEW c \in Collectors, NEW p \in Pages, Scan(c, p)
  PROVE  Selects(c, p) /\ entry[p] # 0 /\ life' \in 1..MaxLives
<1>1. life' = life /\ life \in 1..MaxLives
  BY ConstantsAssumption DEF Typed, StoreTyped, RestTyped, Scan
<1>2. entry[p] # 0
  BY VisitedResident DEF Scan, Resident
<1> DEFINE n == IF Expired(entry[p]) THEN 0 ELSE word[entry[p]].retry - 1
<1>3. n \in Nat
  <2>1. word[entry[p]].retry \in Nat
    BY <1>2, EntryHandle DEF Word
  <2>2. Expired(entry[p]) \/ Retryable(entry[p])
    BY DEF Scan, Selectable
  <2> QED BY <2>1, <2>2 DEF Retryable
<1>4. Select(c, p, n, life')
  BY <1>1 DEF Scan
<1> HIDE DEF n
<1> QED BY <1>1, <1>2, <1>3, <1>4, SelectView

(* A scan that finds an empty block starts to sweep it.                    *)
LEMMA ScanEmptyView ==
  ASSUME Typed, NEW c \in Collectors, ScanEmpty(c)
  PROVE  /\ OnlyJob(c) /\ job[c].at = "idle"
         /\ job'[c].at = "sweep" /\ job'[c].life = life /\ ~job'[c].used
         /\ life' = life /\ life # 0
<1>1. c \in Procs /\ life \in 0..MaxLives
  BY Members, ConstantsAssumption DEF Typed, StoreTyped, RestTyped
<1> DEFINE j == [NoJob EXCEPT !.at = "sweep", !.life = life]
<1>2. j \in JobRec /\ j.at = "sweep" /\ j.life = life /\ ~j.used
  BY <1>1, NothingTyped DEF NoJob, JobRec, Stages, CollectorAt
<1>3. job' = [job EXCEPT ![c] = j] /\ job[c].at = "idle" /\ life' = life /\ life # 0
  BY DEF ScanEmpty, lifeVars
<1> HIDE DEF j
<1>4. OnlyJob(c) /\ job'[c] = j
  BY <1>1, <1>2, <1>3, JobStarts DEF Typed
<1> QED BY <1>2, <1>3, <1>4

(* A fill starts with a job that waits for its block.                      *)
LEMMA StartFillView ==
  ASSUME Typed, NEW f \in Fillers, NEW p \in Pages, StartFill(f, p)
  PROVE  /\ OnlyJob(f) /\ job[f].at = "idle"
         /\ job'[f].at = "waiting" /\ job'[f].page = p /\ job'[f].life = life'
         /\ life' \in 1..MaxLives
<1>1. f \in Procs /\ life' \in 0..MaxLives /\ life' \in 1..MaxLives
  BY Members, Obtained, ConstantsAssumption DEF Typed, StartFill
<1>2. PICK l \in 0..MaxLives : l = life'
  BY <1>1
<1> DEFINE j == [NoJob EXCEPT !.at = "waiting", !.page = p, !.life = l]
<1>3. j \in JobRec /\ j.at = "waiting" /\ j.page = p /\ j.life = l
  BY <1>2, NothingTyped DEF NoJob, JobRec, Stages, FillerAt
<1>4. job' = [job EXCEPT ![f] = j] /\ job[f].at = "idle"
  BY <1>2 DEF StartFill
<1> HIDE DEF j
<1>5. OnlyJob(f) /\ job'[f] = j
  BY <1>1, <1>3, <1>4, JobStarts DEF Typed
<1> QED BY <1>1, <1>2, <1>3, <1>4, <1>5

(* The evictor waits for the gate of the block it obtained.                *)
LEMMA ObtainBlockView ==
  ASSUME Typed, ObtainBlock
  PROVE  /\ OnlyJob(Evictor)
         /\ E0'.at = "waiting" /\ E0'.life = life' /\ E0'.claimed = E0.claimed
         /\ E0'.quiet = E0.quiet /\ E0'.used = E0.used
         /\ life' \in 1..MaxLives
<1>1. life' \in 0..MaxLives /\ life' \in 1..MaxLives
  BY Obtained, ConstantsAssumption DEF Typed, ObtainBlock
<1>2. PICK l \in 0..MaxLives : l = life'
  BY <1>1
<1>3. job' = [job EXCEPT ![Evictor].at = "waiting", ![Evictor].life = l]
  BY <1>2 DEF ObtainBlock
<1> QED BY <1>1, <1>2, <1>3, EvictorObtains DEF Typed

(* The evictor's next claim adds the page's handle to its own.             *)
LEMMA ClaimNextView ==
  ASSUME Typed, NEW p \in Pages, ClaimNext(p)
  PROVE  /\ OnlyJob(Evictor)
         /\ E0'.at = E0.at /\ E0'.life = E0.life
         /\ E0'.claimed = E0.claimed \cup {entry[p]}
         /\ E0'.quiet = E0.quiet /\ E0'.used = E0.used
<1>1. entry[p] \in Handles
  BY EntryHandle DEF ClaimNext, Resident
<1> QED BY <1>1, EvictorClaims DEF Typed, ClaimNext

(* A fill that finds its page resident guards the handle in the table.     *)
LEMMA ProtectView ==
  ASSUME Typed, NEW f \in Fillers, ProtectPage(f)
  PROVE  /\ OnlyJob(f)
         /\ job'[f].at = "guarding" /\ job'[f].handle = entry[job[f].page]
         /\ job'[f].page = job[f].page /\ job'[f].life = job[f].life
<1>1. job[f].page \in Pages
  BY Members DEF Typed, JobsTyped, JobRec
<1>2. entry[job[f].page] \in 0..MaxHandles
  BY <1>1, EntryHandle
<1> QED BY <1>2, FillProtects DEF Typed, ProtectPage

(* A fill that registers tells every job that chose its page.              *)
LEMMA RegisterView ==
  ASSUME Typed, NEW f \in Fillers, Register(f)
  PROVE  /\ job' \in [Procs -> JobRec]
         /\ job'[f].at = "registered"
         /\ \A x \in Procs :
              /\ SameTarget(job[x], job'[x]) /\ job'[x].quiet = job[x].quiet
              /\ x # f => job'[x].at = job[x].at
              /\ x \in Collecting(job[f].page) \cup Evicting => job'[x].used
              /\ x \notin Collecting(job[f].page) \cup Evicting =>
                   job'[x].used = job[x].used
<1>1. f \notin Collecting(job[f].page) \cup Evicting
  BY Members DEF Collecting, Evicting
<1> QED BY <1>1, FillRegisters DEF Typed, Register

-----------------------------------------------------------------------------
(* Types.                                                                  *)

(* A process that keeps to its own stages keeps the jobs well typed.       *)
LEMMA StageKept ==
  ASSUME JobsTyped, NEW x \in Procs, OnlyJob(x), handles' = handles,
         x \in Collectors =>
           /\ job'[x].at \in CollectorAt
           /\ job'[x].at \notin {"idle", "sweep", "sweeping"} =>
                job'[x].handle \in 1..handles,
         x = Evictor => job'[x].at \in EvictorAt,
         x \in Fillers => job'[x].at \in FillerAt
  PROVE  JobsTyped'
BY Members DEF JobsTyped, OnlyJob

(* Telling jobs of a use keeps them well typed.                            *)
LEMMA ToldKept ==
  ASSUME JobsTyped, Told, handles' = handles
  PROVE  JobsTyped'
BY Members DEF JobsTyped, Told, SameTarget

(* Ending a job keeps the jobs well typed.                                 *)
LEMMA EndKept ==
  ASSUME JobsTyped, NEW x \in Procs, Ends(x), handles' = handles
  PROVE  JobsTyped'
BY StageKept, NoJobFields DEF Ends, CollectorAt, EvictorAt, FillerAt

(* Moving a job to a stage of its kind keeps the jobs well typed.          *)
LEMMA MoveKept ==
  ASSUME JobsTyped, NEW x \in Procs, NEW v \in Stages, Moves(x, v),
         handles' = handles,
         x \in Collectors =>
           /\ v \in CollectorAt
           /\ v # "sweeping" => job[x].at \notin {"idle", "sweep", "sweeping"},
         x = Evictor => v \in EvictorAt,
         x \in Fillers => v \in FillerAt
  PROVE  JobsTyped'
BY StageKept DEF Moves, SameTarget, JobsTyped

(* Every step keeps the jobs well typed.                                   *)
LEMMA JobsTypedStep == Typed /\ [Next]_vars => JobsTyped'
<1> SUFFICES ASSUME Typed, [Next]_vars PROVE JobsTyped'
  OBVIOUS
<1>0. JobsTyped
  BY DEF Typed
<1> USE DEF tableVars, lifeVars
<1>1. ASSUME NEW r \in Readers, Reader(r) PROVE JobsTyped'
  <2>1. ASSUME NEW p \in Pages, Acquire(r, p) PROVE JobsTyped'
    BY <2>1, <1>0, ToldKept, ReaderViews DEF Acquire
  <2>2. CASE TouchPolicy(r)
    BY <2>2, <1>0, ToldKept, ReaderViews DEF TouchPolicy
  <2>3. CASE Release(r)
    BY <2>3, <1>0, ToldKept, ReaderViews DEF Release
  <2>4. CASE Touch(r) \/ Abandon(r)
    BY <2>4, <1>0 DEF Touch, Abandon, JobsTyped
  <2> QED BY <1>1, <2>1, <2>2, <2>3, <2>4 DEF Reader
<1>2. ASSUME NEW c \in Collectors, Collector(c) PROVE JobsTyped'
  <2>0. c \in Procs /\ c # Evictor /\ c \notin Fillers
    BY Members
  <2>1. ASSUME NEW p \in Pages, Candidate(c, p) \/ Scan(c, p) PROVE JobsTyped'
    <3>1. Selects(c, p) /\ entry[p] \in 1..handles
      BY <2>1, CandidateView, ScanView, EntryHandle
    <3>2. handles' = handles
      BY <2>1 DEF Candidate, Scan
    <3> QED BY <3>1, <3>2, <2>0, <1>0, StageKept DEF Selects, CollectorAt
  <2>2. CASE ScanEmpty(c)
    <3>1. handles' = handles
      BY <2>2 DEF ScanEmpty
    <3> QED BY <2>0, <2>2, <3>1, <1>0, StageKept, ScanEmptyView DEF CollectorAt
  <2>3. CASE LockPage(c)
    <3>1. handles' = handles /\ job[c].at = "picked"
      BY <2>3 DEF LockPage, Lock
    <3> QED BY <2>0, <2>3, <3>1, <1>0, MoveKept, CollectorViews
            DEF Stages, CollectorAt
  <2>4. CASE Claim(c)
    <3>1. handles' = handles /\ job[c].at = "gated"
      BY <2>4 DEF Claim
    <3> QED BY <2>0, <2>4, <3>1, <1>0, MoveKept, CollectorViews
            DEF Stages, CollectorAt
  <2>5. CASE Unlink(c)
    <3>1. handles' = handles /\ job[c].at = "claimed"
      BY <2>5 DEF Unlink
    <3> QED BY <2>0, <2>5, <3>1, <1>0, MoveKept, CollectorViews
            DEF Stages, CollectorAt
  <2>6. CASE ClearPage(c)
    <3>1. handles' = handles /\ job[c].at = "unlinked"
      BY <2>6 DEF ClearPage
    <3> QED BY <2>0, <2>6, <3>1, <1>0, MoveKept, CollectorViews
            DEF Stages, CollectorAt
  <2>7. CASE Finish(c)
    <3>1. handles' = handles /\ job[c].at = "cleared"
      BY <2>7 DEF Finish
    <3> QED BY <2>0, <2>7, <3>1, <1>0, MoveKept, CollectorViews
            DEF Stages, CollectorAt
  <2>8. CASE LockSweep(c)
    <3>1. handles' = handles
      BY <2>8 DEF LockSweep, Lock
    <3> QED BY <2>0, <2>8, <3>1, <1>0, MoveKept, CollectorViews
            DEF Stages, CollectorAt
  <2>9. CASE GiveUp(c) \/ UnlinkFails(c) \/ Sweep(c) \/ SweepFails(c) \/ SkipSweep(c)
    <3>1. handles' = handles
      BY <2>9 DEF GiveUp, UnlinkFails, Sweep, SweepFails, SkipSweep
    <3> QED BY <2>0, <2>9, <3>1, <1>0, EndKept, CollectorViews
  <2> QED BY <1>2, <2>1, <2>2, <2>3, <2>4, <2>5, <2>6, <2>7, <2>8, <2>9
          DEF Collector
<1>3. CASE BlockEvictor
  <2>0. Evictor \in Procs /\ Evictor \notin Collectors /\ Evictor \notin Fillers
    BY Members, ConstantsAssumption
  <2>1. CASE ChooseBlock
    <3>1. handles' = handles
      BY <2>1 DEF ChooseBlock
    <3>2. OnlyJob(Evictor) /\ job'[Evictor].at = "chosen"
      BY <2>1, <1>0, EvictorChooses DEF ChooseBlock, E0
    <3> QED BY <2>0, <3>1, <3>2, <1>0, StageKept DEF EvictorAt
  <2>2. CASE ObtainBlock
    <3>1. handles' = handles
      BY <2>2 DEF ObtainBlock
    <3>2. OnlyJob(Evictor) /\ job'[Evictor].at = "waiting"
      BY <2>2, ObtainBlockView DEF E0
    <3> QED BY <2>0, <3>1, <3>2, <1>0, StageKept DEF EvictorAt
  <2>3. CASE LockBlock \/ ClaimedAll \/ DeleteBlock
    <3>1. handles' = handles
      BY <2>3 DEF LockBlock, Lock, ClaimedAll, DeleteBlock
    <3> QED BY <2>0, <2>3, <3>1, <1>0, MoveKept, EvictorViews DEF Stages, EvictorAt
  <2>4. ASSUME NEW p \in Pages, ClaimNext(p) PROVE JobsTyped'
    <3>1. handles' = handles
      BY <2>4 DEF ClaimNext
    <3>2. OnlyJob(Evictor) /\ job'[Evictor].at = job[Evictor].at
      BY <2>4, ClaimNextView DEF E0
    <3> QED BY <2>0, <3>1, <3>2, <1>0, StageKept DEF JobsTyped
  <2>5. CASE DropClaim \/ DeleteFails \/ FinishBlock
    <3>1. handles' = handles
      BY <2>5 DEF DropClaim, DeleteFails, FinishBlock
    <3> QED BY <2>0, <2>5, <3>1, <1>0, EndKept, EvictorViews
  <2> QED BY <1>3, <2>1, <2>2, <2>3, <2>4, <2>5 DEF BlockEvictor
<1>4. ASSUME NEW f \in Fillers, Filler(f) PROVE JobsTyped'
  <2>0. f \in Procs /\ f # Evictor /\ f \notin Collectors
    BY Members
  <2>1. ASSUME NEW p \in Pages, StartFill(f, p) PROVE JobsTyped'
    <3>1. handles' = handles
      BY <2>1 DEF StartFill
    <3> QED BY <2>0, <2>1, <3>1, <1>0, StageKept, StartFillView DEF FillerAt
  <2>2. CASE LockFill(f) \/ WriteFile(f)
    <3>1. handles' = handles
      BY <2>2 DEF LockFill, WriteFile
    <3> QED BY <2>0, <2>2, <3>1, <1>0, MoveKept, FillerViews DEF Stages, FillerAt
  <2>3. CASE WriteFails(f) \/ EndFill(f)
    <3>1. handles' = handles
      BY <2>3 DEF WriteFails, EndFill
    <3> QED BY <2>0, <2>3, <3>1, <1>0, EndKept, FillerViews
  <2>4. CASE Register(f)
    <3>1. handles \in Nat /\ handles' \in Nat /\ handles' >= handles
      <4>1. handles \in Nat
        BY ConstantsAssumption DEF Typed, StoreTyped, RestTyped
      <4>2. handles' = handles \/ handles' = handles + 1
        BY <2>4 DEF Register
      <4> QED BY <4>1, <4>2
    <3>2. \A h \in 1..handles : h \in 1..handles'
      BY <3>1
    <3>3. /\ job' \in [Procs -> JobRec] /\ job'[f].at = "registered"
          /\ \A x \in Procs : x # f => job'[x].at = job[x].at
          /\ \A x \in Procs : job'[x].handle = job[x].handle
      BY <2>4, RegisterView DEF SameTarget
    <3> QED BY <2>0, <3>2, <3>3, <1>0, Members DEF JobsTyped, FillerAt
  <2>5. CASE MarkPage(f)
    <3>1. handles' = handles
      BY <2>5 DEF MarkPage
    <3>2. /\ job' \in [Procs -> JobRec] /\ job'[f].at = "marked"
          /\ \A x \in Procs : x # f => job'[x].at = job[x].at
          /\ \A x \in Procs : job'[x].handle = job[x].handle
      BY <2>5, <1>0, FillMarks DEF MarkPage, SameTarget
    <3> QED BY <2>0, <3>1, <3>2, <1>0, Members DEF JobsTyped, FillerAt
  <2>6. CASE ProtectPage(f)
    <3>1. handles' = handles
      BY <2>6 DEF ProtectPage
    <3> QED BY <2>0, <2>6, <3>1, <1>0, StageKept, ProtectView DEF FillerAt
  <2> QED BY <1>4, <2>1, <2>2, <2>3, <2>4, <2>5, <2>6 DEF Filler
<1>5. CASE \/ \E p \in Pages : ScanPast(p)
           \/ \E h \in Handles : Age(h)
           \/ Retire
           \/ UNCHANGED vars
  BY <1>5, <1>0 DEF ScanPast, Age, Retire, vars, JobsTyped
<1> QED BY <1>1, <1>2, <1>3, <1>4, <1>5 DEF Next

(* Only the word of the handle changes, and it becomes the given one.      *)
WordIs(h, n, t, b, a) ==
  /\ h \in Handles
  /\ word' \in [Handles -> Word]
  /\ \A g \in Handles : g # h => word'[g] = word[g]
  /\ word'[h].readers = n /\ word'[h].retry = t
  /\ word'[h].closed = b /\ word'[h].accessed = a

(* An update of one page word changes that word alone.                     *)
LEMMA WordBecomes ==
  ASSUME word \in [Handles -> Word], NEW h \in Handles, NEW v \in Word,
         word' = [word EXCEPT ![h] = v]
  PROVE  WordIs(h, v.readers, v.retry, v.closed, v.accessed)
BY DEF WordIs

(* A change of one reader count changes nothing else.                      *)
LEMMA CountReader ==
  ASSUME word \in [Handles -> Word], NEW h \in Handles, NEW d \in Int,
         word' = [word EXCEPT ![h].readers = @ + d]
  PROVE  WordIs(h, word[h].readers + d, word[h].retry, word[h].closed,
                word[h].accessed)
<1>1. word[h] \in Word /\ word[h].readers + d \in Int
  BY DEF Word
<1> DEFINE v == [word[h] EXCEPT !.readers = word[h].readers + d]
<1>2. /\ v \in Word /\ v.readers = word[h].readers + d /\ v.retry = word[h].retry
      /\ v.closed = word[h].closed /\ v.accessed = word[h].accessed
  BY <1>1, SetReaders
<1>3. word' = [word EXCEPT ![h] = v]
  OBVIOUS
<1> HIDE DEF v
<1> QED BY <1>2, <1>3, WordBecomes

(* The end of one read changes nothing but the reader count.               *)
LEMMA DropReader ==
  ASSUME word \in [Handles -> Word], NEW h \in Handles,
         word' = [word EXCEPT ![h].readers = @ - 1]
  PROVE  WordIs(h, word[h].readers - 1, word[h].retry, word[h].closed,
                word[h].accessed)
<1>1. word[h] \in Word /\ word[h].readers - 1 \in Int
  BY DEF Word
<1> DEFINE v == [word[h] EXCEPT !.readers = word[h].readers - 1]
<1>2. /\ v \in Word /\ v.readers = word[h].readers - 1 /\ v.retry = word[h].retry
      /\ v.closed = word[h].closed /\ v.accessed = word[h].accessed
  BY <1>1, SetReaders
<1>3. word' = [word EXCEPT ![h] = v]
  OBVIOUS
<1> HIDE DEF v
<1> QED BY <1>2, <1>3, WordBecomes

(* Closing one word changes nothing else.                                  *)
LEMMA MarkClosed ==
  ASSUME word \in [Handles -> Word], NEW h \in Handles,
         word' = [word EXCEPT ![h].closed = TRUE]
  PROVE  WordIs(h, word[h].readers, word[h].retry, TRUE, word[h].accessed)
<1>1. word[h] \in Word /\ TRUE \in BOOLEAN
  OBVIOUS
<1> DEFINE v == [word[h] EXCEPT !.closed = TRUE]
<1>2. /\ v \in Word /\ v.readers = word[h].readers /\ v.retry = word[h].retry
      /\ v.closed = TRUE /\ v.accessed = word[h].accessed
  BY <1>1, SetClosed
<1>3. word' = [word EXCEPT ![h] = v]
  OBVIOUS
<1> HIDE DEF v
<1> QED BY <1>2, <1>3, WordBecomes

(* Marking one word as accessed changes nothing else.                      *)
LEMMA MarkAccessed ==
  ASSUME word \in [Handles -> Word], NEW h \in Handles, NEW b \in BOOLEAN,
         word' = [word EXCEPT ![h].accessed = b]
  PROVE  WordIs(h, word[h].readers, word[h].retry, word[h].closed, b)
<1>1. word[h] \in Word
  OBVIOUS
<1> DEFINE v == [word[h] EXCEPT !.accessed = b]
<1>2. /\ v \in Word /\ v.readers = word[h].readers /\ v.retry = word[h].retry
      /\ v.closed = word[h].closed /\ v.accessed = b
  BY <1>1, SetAccessed
<1>3. word' = [word EXCEPT ![h] = v]
  OBVIOUS
<1> HIDE DEF v
<1> QED BY <1>2, <1>3, WordBecomes

(* What PageGuard's release does to the word.                              *)
LEMMA ReleaseWord ==
  ASSUME word \in [Handles -> Word], NEW h \in Handles,
         word' = [word EXCEPT ![h].readers = @ - 1, ![h].retry = 0,
                              ![h].accessed = TRUE]
  PROVE  WordIs(h, word[h].readers - 1, 0, word[h].closed, TRUE)
<1>1. word[h] \in Word /\ word[h].readers - 1 \in Int /\ 0 \in Nat /\ TRUE \in BOOLEAN
  BY DEF Word
<1> DEFINE u == [word[h] EXCEPT !.readers = word[h].readers - 1]
           v == [u EXCEPT !.retry = 0]
           w == [v EXCEPT !.accessed = TRUE]
<1>2. word' = [word EXCEPT ![h] = w]
  OBVIOUS
<1>3. u \in Word /\ u.readers = word[h].readers - 1 /\ u.closed = word[h].closed
  BY <1>1, SetReaders
<1> HIDE DEF u
<1>4. v \in Word /\ v.readers = u.readers /\ v.retry = 0 /\ v.closed = u.closed
  BY <1>1, <1>3, SetRetry
<1> HIDE DEF v
<1>5. /\ w \in Word /\ w.readers = v.readers /\ w.retry = v.retry
      /\ w.closed = v.closed /\ w.accessed = TRUE
  BY <1>1, <1>4, SetAccessed
<1> HIDE DEF w
<1>6. WordIs(h, w.readers, w.retry, w.closed, w.accessed)
  BY <1>2, <1>5, WordBecomes
<1> QED BY <1>3, <1>4, <1>5, <1>6

(* What an aborted deletion does to the word.                              *)
LEMMA AbortWord ==
  ASSUME word \in [Handles -> Word], NEW h \in Handles, NEW n \in Nat,
         word' = [word EXCEPT ![h].closed = FALSE, ![h].retry = n]
  PROVE  WordIs(h, word[h].readers, n, FALSE, word[h].accessed)
<1>1. word[h] \in Word /\ FALSE \in BOOLEAN
  OBVIOUS
<1> DEFINE u == [word[h] EXCEPT !.closed = FALSE]
           v == [u EXCEPT !.retry = n]
<1>2. word' = [word EXCEPT ![h] = v]
  OBVIOUS
<1>3. /\ u \in Word /\ u.readers = word[h].readers /\ u.closed = FALSE
      /\ u.accessed = word[h].accessed
  BY <1>1, SetClosed
<1> HIDE DEF u
<1>4. /\ v \in Word /\ v.readers = u.readers /\ v.retry = n
      /\ v.closed = u.closed /\ v.accessed = u.accessed
  BY <1>3, SetRetry
<1> HIDE DEF v
<1>5. WordIs(h, v.readers, v.retry, v.closed, v.accessed)
  BY <1>2, <1>4, WordBecomes
<1> QED BY <1>3, <1>4, <1>5

(* Drop of BlockPageClaim.                                                 *)
LEMMA ReopenWords ==
  ASSUME word \in [Handles -> Word], Reopen
  PROVE  /\ word' \in [Handles -> Word]
         /\ \A h \in Handles :
              /\ word'[h].readers = word[h].readers
              /\ word'[h].retry = word[h].retry
              /\ word'[h].accessed = word[h].accessed
              /\ h \in E0.claimed => word'[h].closed = FALSE
              /\ h \notin E0.claimed => word'[h] = word[h]
<1>1. FALSE \in BOOLEAN /\ \A h \in Handles : word[h] \in Word
  OBVIOUS
<1>2. word' = [h \in Handles |-> IF h \in E0.claimed
                                 THEN [word[h] EXCEPT !.closed = FALSE]
                                 ELSE word[h]]
  BY DEF Reopen
<1> QED BY <1>1, <1>2, SetClosed

(* What each action does to the words.                                     *)
LEMMA ReaderWords ==
  ASSUME Typed, TableInv, NEW r \in Readers
  PROVE  /\ \A p \in Pages : Acquire(r, p) =>
              LET w == word[entry[p]]
              IN  WordIs(entry[p], w.readers + 1, w.retry, w.closed, w.accessed)
         /\ Release(r) =>
              LET w == word[rd[r].handle]
              IN  WordIs(rd[r].handle, w.readers - 1, 0, w.closed, TRUE)
         /\ Abandon(r) =>
              LET w == word[rd[r].handle]
              IN  WordIs(rd[r].handle, w.readers - 1, w.retry, w.closed,
                         w.accessed)
<1>1. word \in [Handles -> Word] /\ 1 \in Int
  BY DEF Typed, StoreTyped, RestTyped
<1>2. rd[r].at # "idle" => rd[r].handle \in Handles
  BY EntryHandle DEF TableInv, Typed, StoreTyped, RestTyped, ReadRec
<1>3. ASSUME NEW p \in Pages, Acquire(r, p)
      PROVE  WordIs(entry[p], word[entry[p]].readers + 1, word[entry[p]].retry,
                    word[entry[p]].closed, word[entry[p]].accessed)
  BY <1>1, <1>3, EntryHandle, CountReader DEF Acquire
<1>4. ASSUME Release(r)
      PROVE  WordIs(rd[r].handle, word[rd[r].handle].readers - 1, 0,
                    word[rd[r].handle].closed, TRUE)
  BY <1>1, <1>2, <1>4, ReleaseWord DEF Release
<1>5. ASSUME Abandon(r)
      PROVE  WordIs(rd[r].handle, word[rd[r].handle].readers - 1,
                    word[rd[r].handle].retry, word[rd[r].handle].closed,
                    word[rd[r].handle].accessed)
  BY <1>1, <1>2, <1>5, DropReader DEF Abandon
<1> QED BY <1>3, <1>4, <1>5

(* What each step of a collector does to the page's word.                  *)
LEMMA CollectorWords ==
  ASSUME Typed, NEW c \in Collectors
  PROVE  /\ \A p \in Pages : Candidate(c, p) \/ Scan(c, p) =>
              LET w == word[entry[p]]
              IN  WordIs(entry[p], w.readers, w.retry, w.closed, FALSE)
         /\ Claim(c) =>
              LET w == word[job[c].handle]
              IN  WordIs(job[c].handle, w.readers, w.retry, TRUE, w.accessed)
         /\ UnlinkFails(c) /\ Current(c) =>
              LET w == word[job[c].handle]
              IN  WordIs(job[c].handle, w.readers, job[c].reason + 1, FALSE,
                         w.accessed)
<1>1. word \in [Handles -> Word] /\ FALSE \in BOOLEAN
  BY DEF Typed, StoreTyped, RestTyped
<1>2. job[c].at \in {"gated", "claimed"} => job[c].handle \in Handles
  <2>1. job[c].at \in {"gated", "claimed"} => job[c].handle \in 1..handles
    BY DEF Typed, JobsTyped
  <2>2. handles \in 0..MaxHandles
    BY DEF Typed, StoreTyped, RestTyped
  <2> QED BY <2>1, <2>2, ConstantsAssumption DEF Handles
<1>3. job[c].reason + 1 \in Nat
  BY Members DEF Typed, JobsTyped, JobRec
<1>4. ASSUME NEW p \in Pages, Candidate(c, p) \/ Scan(c, p)
      PROVE  WordIs(entry[p], word[entry[p]].readers, word[entry[p]].retry,
                    word[entry[p]].closed, FALSE)
  <2>1. entry[p] \in Handles
    BY <1>4, EntryHandle, CandidateView, ScanView
  <2>2. word' = [word EXCEPT ![entry[p]].accessed = FALSE]
    BY <1>4 DEF Candidate, Scan, Select
  <2> QED BY <1>1, <2>1, <2>2, MarkAccessed
<1>5. ASSUME Claim(c)
      PROVE  WordIs(job[c].handle, word[job[c].handle].readers,
                    word[job[c].handle].retry, TRUE, word[job[c].handle].accessed)
  BY <1>1, <1>2, <1>5, MarkClosed DEF Claim
<1>6. ASSUME UnlinkFails(c), Current(c)
      PROVE  WordIs(job[c].handle, word[job[c].handle].readers,
                    job[c].reason + 1, FALSE, word[job[c].handle].accessed)
  <2>1. job[c].at = "claimed"
    BY <1>6 DEF UnlinkFails
  <2>2. word' = [word EXCEPT ![job[c].handle].closed = FALSE,
                             ![job[c].handle].retry = job[c].reason + 1]
    BY <1>6 DEF UnlinkFails
  <2> QED BY <1>1, <1>2, <1>3, <2>1, <2>2, AbortWord
<1> QED BY <1>4, <1>5, <1>6

(* The evictor's claim closes the page's word and nothing else.            *)
LEMMA ClaimNextWord ==
  ASSUME Typed, NEW p \in Pages, ClaimNext(p)
  PROVE  LET w == word[entry[p]]
         IN  WordIs(entry[p], w.readers, w.retry, TRUE, w.accessed)
<1>1. entry[p] \in Handles /\ word \in [Handles -> Word]
  BY EntryHandle DEF ClaimNext, Resident, Typed, StoreTyped, RestTyped
<1> QED BY <1>1, MarkClosed DEF ClaimNext

(* The handle that a fill registers.                                       *)
Registered(f) == IF entry[job[f].page] = 0 THEN handles + 1
                                           ELSE entry[job[f].page]

(* What each step of a fill does to the page's word.                       *)
LEMMA FillerWords ==
  ASSUME Typed, TableInv, NEW f \in Fillers
  PROVE  /\ Register(f) =>
              LET h == Registered(f)
                  w == word[h]
              IN  WordIs(h, w.readers, w.retry, w.closed, TRUE)
         /\ ProtectPage(f) =>
              LET h == entry[job[f].page]
                  w == word[h]
              IN  WordIs(h, w.readers + 1, w.retry, w.closed, w.accessed)
         /\ EndFill(f) =>
              LET h == job[f].handle
                  w == word[h]
              IN  WordIs(h, w.readers - 1, w.retry, w.closed, w.accessed)
<1>1. word \in [Handles -> Word] /\ 1 \in Int /\ TRUE \in BOOLEAN
  BY DEF Typed, StoreTyped, RestTyped
<1>2. job[f].page \in Pages
  BY Members DEF Typed, JobsTyped, JobRec
<1>3. ASSUME Register(f)
      PROVE  WordIs(Registered(f), word[Registered(f)].readers,
                    word[Registered(f)].retry, word[Registered(f)].closed, TRUE)
  <2>1. /\ Registered(f) \in Handles
        /\ word' = [word EXCEPT ![Registered(f)].accessed = TRUE]
    BY <1>3 DEF Register, Registered
  <2> QED BY <1>1, <2>1, MarkAccessed
<1>4. ASSUME ProtectPage(f)
      PROVE  WordIs(entry[job[f].page], word[entry[job[f].page]].readers + 1,
                    word[entry[job[f].page]].retry, word[entry[job[f].page]].closed,
                    word[entry[job[f].page]].accessed)
  <2>1. entry[job[f].page] \in Handles
    BY <1>2, <1>4, EntryHandle DEF ProtectPage, TableInv
  <2> QED BY <1>1, <1>4, <2>1, CountReader DEF ProtectPage
<1>5. ASSUME EndFill(f)
      PROVE  WordIs(job[f].handle, word[job[f].handle].readers - 1,
                    word[job[f].handle].retry, word[job[f].handle].closed,
                    word[job[f].handle].accessed)
  <2>1. job[f].handle \in Handles
    BY <1>2, <1>5, EntryHandle DEF EndFill, TableInv
  <2> QED BY <1>1, <1>5, <2>1, DropReader DEF EndFill
<1> QED BY <1>3, <1>4, <1>5

(* Every step keeps the page words well typed.                             *)
LEMMA WordTypedStep ==
  Typed /\ TableInv /\ [Next]_vars => word' \in [Handles -> Word]
<1> SUFFICES ASSUME Typed, TableInv, [Next]_vars
             PROVE  word' \in [Handles -> Word]
  OBVIOUS
<1> USE DEF WordIs
<1>0. word \in [Handles -> Word]
  BY DEF Typed, StoreTyped, RestTyped
<1>1. ASSUME NEW r \in Readers, Reader(r) PROVE word' \in [Handles -> Word]
  <2>1. CASE \/ \E p \in Pages : Acquire(r, p)
             \/ Release(r) \/ Abandon(r)
    BY <2>1, ReaderWords
  <2>2. CASE TouchPolicy(r) \/ Touch(r)
    BY <1>0, <2>2 DEF TouchPolicy, Touch
  <2> QED BY <1>1, <2>1, <2>2 DEF Reader
<1>2. ASSUME NEW c \in Collectors, Collector(c) PROVE word' \in [Handles -> Word]
  <2>1. CASE \/ \E p \in Pages : Candidate(c, p) \/ Scan(c, p)
             \/ Claim(c)
    BY <2>1, CollectorWords
  <2>2. CASE UnlinkFails(c)
    BY <1>0, <2>2, CollectorWords DEF UnlinkFails
  <2>3. CASE \/ ScanEmpty(c) \/ LockPage(c) \/ GiveUp(c) \/ Unlink(c)
             \/ ClearPage(c) \/ Finish(c) \/ LockSweep(c) \/ Sweep(c)
             \/ SweepFails(c) \/ SkipSweep(c)
    BY <1>0, <2>3 DEF ScanEmpty, LockPage, Lock, GiveUp, Unlink, ClearPage,
         Finish, LockSweep, Sweep, SweepFails, SkipSweep
  <2> QED BY <1>2, <2>1, <2>2, <2>3 DEF Collector
<1>3. CASE BlockEvictor
  <2>1. CASE \E p \in Pages : ClaimNext(p)
    BY <2>1, ClaimNextWord
  <2>2. CASE DropClaim \/ DeleteFails
    BY <1>0, <2>2, ReopenWords DEF DropClaim, DeleteFails
  <2>3. CASE ChooseBlock \/ ObtainBlock \/ LockBlock \/ ClaimedAll
             \/ DeleteBlock \/ FinishBlock
    BY <1>0, <2>3 DEF ChooseBlock, ObtainBlock, LockBlock, Lock, ClaimedAll,
         DeleteBlock, FinishBlock
  <2> QED BY <1>3, <2>1, <2>2, <2>3 DEF BlockEvictor
<1>4. ASSUME NEW f \in Fillers, Filler(f) PROVE word' \in [Handles -> Word]
  <2>1. CASE Register(f) \/ ProtectPage(f) \/ EndFill(f)
    BY <2>1, FillerWords
  <2>2. CASE \/ \E p \in Pages : StartFill(f, p)
             \/ LockFill(f) \/ WriteFile(f) \/ WriteFails(f) \/ MarkPage(f)
    BY <1>0, <2>2 DEF StartFill, LockFill, WriteFile, WriteFails, MarkPage
  <2> QED BY <1>4, <2>1, <2>2 DEF Filler
<1>5. CASE \/ \E p \in Pages : ScanPast(p)
           \/ \E h \in Handles : Age(h)
           \/ Retire
           \/ UNCHANGED vars
  BY <1>0, <1>5 DEF ScanPast, Age, Retire, vars
<1> QED BY <1>1, <1>2, <1>3, <1>4, <1>5 DEF Next

(* Leaving the gate, or the record, keeps the gates typed.                 *)
LEMMA GateTyped ==
  ASSUME gate \in [Lives -> SUBSET Procs], NEW x \in Procs, NEW l
  PROVE  /\ [gate EXCEPT ![l] = @ \ {x}] \in [Lives -> SUBSET Procs]
         /\ [gate EXCEPT ![l] = {x}] \in [Lives -> SUBSET Procs]
         /\ [gate EXCEPT ![l] = @ \cup {x}] \in [Lives -> SUBSET Procs]
OBVIOUS

(* Every step keeps the other variables well typed.                        *)
LEMMA RestTypedStep == Typed /\ TableInv /\ [Next]_vars => RestTyped'
<1> SUFFICES ASSUME Typed, TableInv, [Next]_vars PROVE RestTyped'
  OBVIOUS
<1>0. RestTyped
  BY DEF Typed, StoreTyped, RestTyped
<1> USE DEF RestTyped, tableVars, lifeVars, Resident
<1>1. ASSUME NEW r \in Readers, Reader(r) PROVE RestTyped'
  <2>0. /\ \A v \in {"acquired", "reading", "touched"} :
            [rd EXCEPT ![r].at = v] \in [Readers -> ReadRec]
        /\ [rd EXCEPT ![r] = NoRead] \in [Readers -> ReadRec]
    BY <1>0, NothingTyped DEF ReadRec
  <2>1. ASSUME NEW p \in Pages, Acquire(r, p) PROVE RestTyped'
    <3>1. [at |-> "acquired", page |-> p, handle |-> entry[p]] \in ReadRec
      BY EntryHandle DEF ReadRec
    <3> QED BY <1>0, <2>1, <3>1 DEF Acquire
  <2>2. CASE TouchPolicy(r)
    BY <1>0, <2>0, <2>2 DEF TouchPolicy
  <2>3. CASE Touch(r)
    <3>1. idle' \in [Handles -> BOOLEAN]
      BY <1>0, <2>3 DEF Touch
    <3> QED BY <1>0, <2>0, <2>3, <3>1 DEF Touch
  <2>4. CASE Release(r)
    BY <1>0, <2>0, <2>4 DEF Release
  <2>5. CASE Abandon(r)
    BY <1>0, <2>0, <2>5 DEF Abandon
  <2> QED BY <1>1, <2>1, <2>2, <2>3, <2>4, <2>5 DEF Reader
<1>2. ASSUME NEW c \in Collectors, Collector(c) PROVE RestTyped'
  <2>0. c \in Procs /\ job[c].page \in Pages
    BY Members DEF Typed, JobsTyped, JobRec
  <2>1. ASSUME NEW p \in Pages, Candidate(c, p) PROVE RestTyped'
    <3>1. /\ lives' \in 0..MaxLives /\ life' \in 0..lives'
          /\ retries' \subseteq Resident
          /\ cleanup' \in BOOLEAN /\ queued' \in BOOLEAN
      BY <2>1, Obtained DEF Typed, Candidate
    <3>2. /\ selection' \in [Pages -> Nat]
          /\ UNCHANGED <<entry, resident, idle, file, gate, rd, handles, torn>>
      BY <1>0, <2>1 DEF Candidate, Select
    <3> QED BY <1>0, <3>1, <3>2
  <2>2. ASSUME NEW p \in Pages, Scan(c, p) PROVE RestTyped'
    <3>1. retries' \subseteq Resident /\ queued' \in BOOLEAN
      BY <1>0, <2>2 DEF Scan, Settle
    <3>2. /\ selection' \in [Pages -> Nat]
          /\ UNCHANGED <<entry, resident, idle, file, gate, rd, handles, torn,
                         cleanup, life, lives>>
      BY <1>0, <2>2 DEF Scan, Select
    <3> QED BY <1>0, <3>1, <3>2
  <2>3. CASE ScanEmpty(c)
    BY <1>0, <2>3 DEF ScanEmpty
  <2>4. CASE LockPage(c)
    BY <1>0, <2>0, <2>4, GateTyped DEF LockPage, Lock
  <2>5. CASE Claim(c)
    BY <1>0, <2>5 DEF Claim
  <2>6. CASE GiveUp(c)
    BY <1>0, <2>0, <2>6, GateTyped DEF GiveUp, Leave
  <2>7. CASE Unlink(c)
    BY <1>0, <2>7 DEF Unlink
  <2>8. CASE UnlinkFails(c)
    <3>1. job[c].handle # 0
      BY <2>8 DEF UnlinkFails, Typed, JobsTyped
    <3>2. retries' \subseteq Resident /\ queued' \in BOOLEAN
      BY <1>0, <2>0, <2>8, <3>1 DEF UnlinkFails, Current
    <3>3. /\ gate' \in [Lives -> SUBSET Procs]
          /\ UNCHANGED <<idle, entry, selection, resident, file, cleanup, life,
                         lives, rd, handles, torn>>
      BY <1>0, <2>0, <2>8, GateTyped DEF UnlinkFails, Leave
    <3> QED BY <1>0, <3>2, <3>3
  <2>9. CASE ClearPage(c)
    BY <1>0, <2>9 DEF ClearPage
  <2>10. CASE Finish(c)
    <3>1. CASE Current(c) /\ word[job[c].handle].closed
      <4>1. /\ entry' = [entry EXCEPT ![job[c].page] = 0]
            /\ selection' = [selection EXCEPT ![job[c].page] = 0]
            /\ retries' = retries \ {job[c].page}
            /\ UNCHANGED <<idle, resident, file, life, lives, gate, rd,
                           handles, torn>>
        BY <2>10, <3>1 DEF Finish
      <4>2. cleanup' \in BOOLEAN /\ queued' \in BOOLEAN
        BY <1>0, <2>10, <3>1 DEF Finish
      <4>3. entry' \in [Pages -> 0..handles] /\ selection' \in [Pages -> Nat]
        BY <1>0, <2>0, <4>1
      <4>4. \A p \in Pages : p # job[c].page => entry'[p] = entry[p]
        BY <1>0, <2>0, <4>1
      <4> QED BY <1>0, <4>1, <4>2, <4>3, <4>4
    <3>2. CASE ~(Current(c) /\ word[job[c].handle].closed)
      BY <1>0, <2>10, <3>2 DEF Finish
    <3> QED BY <3>1, <3>2
  <2>11. CASE LockSweep(c)
    BY <1>0, <2>0, <2>11, GateTyped DEF LockSweep, Lock
  <2>12. CASE Sweep(c)
    <3>1. cleanup' \in BOOLEAN
      BY <2>12, Zenon DEF Sweep
    <3> QED BY <1>0, <2>0, <2>12, <3>1, GateTyped DEF Sweep, Leave, DropFiles
  <2>13. CASE SweepFails(c)
    BY <1>0, <2>0, <2>13, GateTyped DEF SweepFails, Leave, DropSome
  <2>14. CASE SkipSweep(c)
    BY <1>0, <2>0, <2>14, GateTyped DEF SkipSweep, Leave
  <2> QED BY <1>2, <2>1, <2>2, <2>3, <2>4, <2>5, <2>6, <2>7, <2>8, <2>9,
             <2>10, <2>11, <2>12, <2>13, <2>14 DEF Collector
<1>3. CASE BlockEvictor
  <2>0. Evictor \in Procs
    BY Members
  <2>1. CASE ChooseBlock
    BY <1>0, <2>1 DEF ChooseBlock
  <2>2. CASE ObtainBlock
    <3>1. /\ lives' \in 0..MaxLives /\ life' \in 0..lives'
          /\ retries' \subseteq Resident
          /\ cleanup' \in BOOLEAN /\ queued' \in BOOLEAN
      BY <2>2, Obtained DEF Typed, ObtainBlock
    <3>2. UNCHANGED <<idle, entry, selection, resident, file, gate, rd,
                      handles, torn>>
      BY <2>2 DEF ObtainBlock
    <3> QED BY <1>0, <3>1, <3>2
  <2>3. CASE LockBlock
    BY <1>0, <2>0, <2>3, GateTyped DEF LockBlock, Lock
  <2>4. CASE (\E p \in Pages : ClaimNext(p)) \/ ClaimedAll
    BY <1>0, <2>4 DEF ClaimNext, ClaimedAll
  <2>5. CASE DropClaim
    BY <1>0, <2>0, <2>5, GateTyped DEF DropClaim, Leave
  <2>6. CASE DeleteFails
    BY <1>0, <2>0, <2>6, GateTyped DEF DeleteFails, Leave, DropSome
  <2>7. CASE DeleteBlock
    BY <1>0, <2>7 DEF DeleteBlock, DropFiles
  <2>8. CASE FinishBlock
    <3>1. cleanup' \in BOOLEAN /\ queued' \in BOOLEAN
      BY <2>8, Zenon DEF FinishBlock
    <3>2. /\ gate' \in [Lives -> SUBSET Procs]
          /\ entry' = [p \in Pages |-> 0] /\ selection' = [p \in Pages |-> 0]
          /\ resident' = {} /\ retries' = {}
          /\ UNCHANGED <<idle, file, life, lives, rd, handles, torn>>
      BY <1>0, <2>0, <2>8, GateTyped DEF FinishBlock, Leave
    <3> QED BY <1>0, <3>1, <3>2, ConstantsAssumption
  <2> QED BY <1>3, <2>1, <2>2, <2>3, <2>4, <2>5, <2>6, <2>7, <2>8
          DEF BlockEvictor
<1>4. ASSUME NEW f \in Fillers, Filler(f) PROVE RestTyped'
  <2>0. f \in Procs /\ job[f].page \in Pages
    BY Members DEF Typed, JobsTyped, JobRec
  <2>1. ASSUME NEW p \in Pages, StartFill(f, p) PROVE RestTyped'
    <3>1. /\ lives' \in 0..MaxLives /\ life' \in 0..lives'
          /\ retries' \subseteq Resident
          /\ cleanup' \in BOOLEAN /\ queued' \in BOOLEAN
      BY <2>1, Obtained DEF Typed, StartFill
    <3>2. UNCHANGED <<idle, entry, selection, resident, file, gate, rd,
                      handles, torn>>
      BY <2>1 DEF StartFill
    <3> QED BY <1>0, <3>1, <3>2
  <2>2. CASE LockFill(f)
    BY <1>0, <2>0, <2>2, GateTyped DEF LockFill
  <2>3. CASE WriteFile(f)
    BY <1>0, <2>0, <2>3 DEF WriteFile
  <2>4. CASE WriteFails(f)
    BY <1>0, <2>0, <2>4, GateTyped DEF WriteFails, Leave
  <2>5. CASE Register(f)
    <3>1. /\ Registered(f) \in Handles
          /\ entry' = [entry EXCEPT ![job[f].page] = Registered(f)]
          /\ handles' = IF entry[job[f].page] = 0 THEN Registered(f) ELSE handles
          /\ UNCHANGED <<selection, resident, file, retries, queued, life,
                         lives, gate, rd, torn>>
      BY <2>5 DEF Register, Registered
    <3>2. idle' \in [Handles -> BOOLEAN]
      BY <1>0, <2>5 DEF Register
    <3>3. cleanup' \in BOOLEAN
      BY <2>5, Zenon DEF Register
    <3>4. Registered(f) # 0 /\ handles' \in 0..MaxHandles
          /\ Registered(f) \in 0..handles' /\ 0..handles \subseteq 0..handles'
      BY <1>0, <2>0, <3>1, EntryHandle, ConstantsAssumption
      DEF Registered, Handles
    <3>5. entry' \in [Pages -> 0..handles']
      BY <1>0, <2>0, <3>1, <3>4
    <3>6. \A p \in Pages : entry[p] # 0 => entry'[p] # 0
      BY <1>0, <2>0, <3>1, <3>4
    <3> QED BY <1>0, <3>1, <3>2, <3>3, <3>4, <3>5, <3>6
  <2>6. CASE MarkPage(f)
    BY <1>0, <2>0, <2>6 DEF MarkPage
  <2>7. CASE ProtectPage(f)
    BY <1>0, <2>0, <2>7, GateTyped DEF ProtectPage
  <2>8. CASE EndFill(f)
    BY <1>0, <2>8 DEF EndFill
  <2> QED BY <1>4, <2>1, <2>2, <2>3, <2>4, <2>5, <2>6, <2>7, <2>8 DEF Filler
<1>5. ASSUME NEW p \in Pages, ScanPast(p) PROVE RestTyped'
  <2>1. retries' \subseteq Resident /\ queued' \in BOOLEAN
    BY <1>0, <1>5 DEF ScanPast, Settle
  <2> QED BY <1>0, <1>5, <2>1 DEF ScanPast
<1>6. ASSUME NEW h \in Handles, Age(h) PROVE RestTyped'
  BY <1>0, <1>6 DEF Age
<1>7. CASE Retire
  <2>1. queued' \in BOOLEAN
    BY <1>7, Zenon DEF Retire
  <2> QED BY <1>0, <1>7, <2>1, ConstantsAssumption DEF Retire
<1>8. CASE UNCHANGED vars
  BY <1>0, <1>8 DEF vars
<1> QED BY <1>1, <1>2, <1>3, <1>4, <1>5, <1>6, <1>7, <1>8 DEF Next

(* Every step keeps all variables well typed.                              *)
LEMMA TypedStep == Typed /\ TableInv /\ [Next]_vars => Typed'
BY JobsTypedStep, WordTypedStep, RestTypedStep
DEF Typed, StoreTyped, RestTyped, Resident

-----------------------------------------------------------------------------
(* The mutation gate.                                                      *)

(* No job enters or leaves the gate, starts or ends.                       *)
LEMMA GateFrame ==
  ASSUME GateInv, gate' = gate, life' = life,
         \A x \in Procs :
           /\ job'[x].life = job[x].life /\ job'[x].page = job[x].page
           /\ job'[x].at \in InGate <=> job[x].at \in InGate
           /\ job'[x].at \in {"idle", "chosen"} <=> job[x].at \in {"idle", "chosen"}
           /\ job'[x].at = "idle" <=> job[x].at = "idle"
  PROVE  GateInv'
BY Members DEF GateInv

(* A holder of the gate that goes on inside it keeps GateInv.              *)
LEMMA GateMove ==
  ASSUME GateInv, gate' = gate, life' = life, NEW x \in Procs, NEW v,
         Moves(x, v), v \in InGate, job[x].at \in InGate
  PROVE  GateInv'
BY GateFrame DEF Moves, OnlyJob, SameTarget, InGate

(* Telling jobs of a use keeps GateInv.                                    *)
LEMMA GateTold ==
  ASSUME GateInv, gate' = gate, life' = life, Told
  PROVE  GateInv'
BY GateFrame DEF Told, SameTarget

(* A job that was given a record enters its gate.                          *)
LEMMA GateEnter ==
  ASSUME Typed, GateInv, life' = life, NEW x \in Procs, NEW v \in InGate,
         Moves(x, v), job[x].at \notin InGate \cup {"idle", "chosen"},
         NEW held, held = gate[job[x].life],
         gate' = [gate EXCEPT ![job[x].life] = held \cup {x}],
         held # {} => x \in WarmFillers /\ held \subseteq WarmFillers
  PROVE  GateInv'
<1>1. gate \in [Lives -> SUBSET Procs] /\ job[x].life = life /\ life # 0
  BY DEF Typed, StoreTyped, RestTyped, GateInv
<1>2. life \in Lives
  BY <1>1, ConstantsAssumption DEF Typed, StoreTyped, RestTyped, Lives
<1>3. /\ gate'[life] = gate[life] \cup {x}
      /\ \A l \in Lives : l # life => gate'[l] = gate[l]
  BY <1>1, <1>2
<1>4. /\ job'[x].at = v /\ job'[x].life = life /\ job'[x].page = job[x].page
      /\ \A y \in Procs : y # x => job'[y] = job[y]
  BY <1>1 DEF Moves, OnlyJob, SameTarget
<1>5. v \notin {"idle", "chosen"}
  BY DEF InGate
<1>6. \A y \in Procs, l \in Lives :
        y \in gate'[l] <=> job'[y].at \in InGate /\ job'[y].life = l
  BY <1>1, <1>2, <1>3, <1>4 DEF GateInv
<1>7. \A y \in Procs : job'[y].at \notin {"idle", "chosen"} =>
        job'[y].life = life' /\ life' # 0
  BY <1>1, <1>4 DEF GateInv
<1>8. \A l \in Lives : \A y, z \in gate'[l] :
        y # z => y \in WarmFillers /\ z \in WarmFillers
  BY <1>1, <1>2, <1>3 DEF GateInv
<1>9. \A f, g \in Fillers :
        f # g /\ job'[f].at # "idle" /\ job'[g].at # "idle" =>
          job'[f].page # job'[g].page
  BY <1>4, <1>5, Members DEF GateInv
<1> QED BY <1>6, <1>7, <1>8, <1>9 DEF GateInv

(* A job leaves the gate of its record, at its end or before.              *)
LEMMA GateLeave ==
  ASSUME Typed, GateInv, life' = life, NEW x \in Procs, OnlyJob(x),
         job[x].at \in InGate,
         gate' = [gate EXCEPT ![job[x].life] = @ \ {x}],
         job'[x].at \notin InGate,
         \/ job'[x].at = "idle"
         \/ job'[x].life = job[x].life /\ job'[x].page = job[x].page
  PROVE  GateInv'
<1>1. gate \in [Lives -> SUBSET Procs] /\ job[x].life = life /\ life # 0
  BY DEF Typed, StoreTyped, RestTyped, GateInv, InGate
<1>2. life \in Lives
  BY <1>1, ConstantsAssumption DEF Typed, StoreTyped, RestTyped, Lives
<1>3. /\ gate'[life] = gate[life] \ {x}
      /\ \A l \in Lives : l # life => gate'[l] = gate[l]
  BY <1>1, <1>2
<1>4. \A y \in Procs : y # x => job'[y] = job[y]
  BY DEF OnlyJob
<1>5. \A y \in Procs, l \in Lives :
        y \in gate'[l] <=> job'[y].at \in InGate /\ job'[y].life = l
  BY <1>1, <1>2, <1>3, <1>4 DEF GateInv
<1>6. \A y \in Procs : job'[y].at \notin {"idle", "chosen"} =>
        job'[y].life = life' /\ life' # 0
  BY <1>1, <1>4 DEF GateInv
<1>7. \A l \in Lives : \A y, z \in gate'[l] :
        y # z => y \in WarmFillers /\ z \in WarmFillers
  BY <1>1, <1>2, <1>3 DEF GateInv
<1>8. \A f, g \in Fillers :
        f # g /\ job'[f].at # "idle" /\ job'[g].at # "idle" =>
          job'[f].page # job'[g].page
  BY <1>4, Members DEF GateInv, InGate
<1> QED BY <1>5, <1>6, <1>7, <1>8 DEF GateInv

(* A job outside the gate ends, or starts with the record in the registry: *)
(* a new record is created only when no job has one.                       *)
LEMMA GateStart ==
  ASSUME Typed, GateInv, NEW x \in Procs, OnlyJob(x), gate' = gate,
         job[x].at \notin InGate, job'[x].at \notin InGate,
         life # 0 => life' = life,
         job'[x].at \notin {"idle", "chosen"} => job'[x].life = life' /\ life' # 0,
         x \in Fillers /\ job'[x].at # "idle" =>
           \A g \in Fillers : job[g].at # "idle" => job[g].page # job'[x].page
  PROVE  GateInv'
<1>1. gate \in [Lives -> SUBSET Procs]
  BY DEF Typed, StoreTyped, RestTyped
<1>2. \A y \in Procs : y # x => job'[y] = job[y]
  BY DEF OnlyJob
<1>3. \A y \in Procs, l \in Lives :
        y \in gate'[l] <=> job'[y].at \in InGate /\ job'[y].life = l
  BY <1>1, <1>2 DEF GateInv
<1>4. \A y \in Procs : job'[y].at \notin {"idle", "chosen"} =>
        job'[y].life = life' /\ life' # 0
  BY <1>2 DEF GateInv
<1>5. \A l \in Lives : \A y, z \in gate'[l] :
        y # z => y \in WarmFillers /\ z \in WarmFillers
  BY DEF GateInv
<1>6. \A f, g \in Fillers :
        f # g /\ job'[f].at # "idle" /\ job'[g].at # "idle" =>
          job'[f].page # job'[g].page
  BY <1>2, Members DEF GateInv
<1> QED BY <1>3, <1>4, <1>5, <1>6 DEF GateInv

(* Every step keeps GateInv: who is in a gate excludes all but warm fills  *)
(* of other pages.                                                         *)
LEMMA GateStep == Typed /\ GateInv /\ [Next]_vars => GateInv'
<1> SUFFICES ASSUME Typed, GateInv, [Next]_vars PROVE GateInv'
  OBVIOUS
<1>0. JobsTyped
  BY DEF Typed
<1> USE DEF tableVars, lifeVars
<1>1. ASSUME NEW r \in Readers, Reader(r) PROVE GateInv'
  <2>1. gate' = gate /\ life' = life
    BY <1>1 DEF Reader, Acquire, TouchPolicy, Touch, Release, Abandon
  <2>2. Told \/ job' = job
    BY <1>0, <1>1, ReaderViews DEF Reader, Touch, Abandon
  <2> QED BY <2>1, <2>2, GateTold, GateFrame
<1>2. ASSUME NEW c \in Collectors, Collector(c) PROVE GateInv'
  <2>0. c \in Procs /\ c \notin Fillers
    BY Members
  <2>1. ASSUME NEW p \in Pages, Candidate(c, p) \/ Scan(c, p) PROVE GateInv'
    <3>1. Selects(c, p) /\ life' # 0
      BY <2>1, CandidateView, ScanView
    <3>2. gate' = gate /\ (life # 0 => life' = life)
      BY <2>1 DEF Candidate, Scan, Obtain
    <3> QED BY <2>0, <3>1, <3>2, GateStart DEF Selects, InGate
  <2>2. CASE ScanEmpty(c)
    <3>1. gate' = gate /\ life' = life
      BY <2>2 DEF ScanEmpty
    <3> QED BY <2>0, <2>2, <3>1, ScanEmptyView, GateStart DEF InGate
  <2>3. CASE LockPage(c) \/ LockSweep(c)
    <3>1. /\ life' = life /\ job[c].at \in {"picked", "sweep"}
          /\ gate[job[c].life] = {}
          /\ gate' = [gate EXCEPT ![job[c].life] = {} \cup {c}]
      BY <2>3 DEF LockPage, LockSweep, Lock
    <3>2. Moves(c, "gated") \/ Moves(c, "sweeping")
      BY <1>0, <2>3, CollectorViews
    <3> QED BY <2>0, <3>1, <3>2, GateEnter DEF InGate
  <2>4. CASE Claim(c) \/ Unlink(c) \/ ClearPage(c) \/ Finish(c)
    <3>1. /\ life' = life /\ gate' = gate
          /\ job[c].at \in {"gated", "claimed", "unlinked", "cleared"}
      BY <2>4 DEF Claim, Unlink, ClearPage, Finish
    <3>2. \/ Moves(c, "claimed") \/ Moves(c, "unlinked")
          \/ Moves(c, "cleared") \/ Moves(c, "finished")
      BY <1>0, <2>4, CollectorViews
    <3> QED BY <2>0, <3>1, <3>2, GateMove DEF InGate
  <2>5. CASE GiveUp(c) \/ UnlinkFails(c) \/ Sweep(c) \/ SweepFails(c) \/ SkipSweep(c)
    <3>1. /\ life' = life /\ gate' = [gate EXCEPT ![job[c].life] = @ \ {c}]
          /\ job[c].at \in {"gated", "claimed", "finished", "sweeping"}
      BY <2>5 DEF GiveUp, UnlinkFails, Sweep, SweepFails, SkipSweep, SweepAt, Leave
    <3>2. OnlyJob(c) /\ job'[c].at = "idle"
      BY <1>0, <2>5, CollectorViews, NoJobFields DEF Ends
    <3> QED BY <2>0, <3>1, <3>2, GateLeave DEF InGate
  <2> QED BY <1>2, <2>1, <2>2, <2>3, <2>4, <2>5 DEF Collector
<1>3. CASE BlockEvictor
  <2>0. Evictor \in Procs /\ Evictor \notin Fillers
    BY Members, ConstantsAssumption
  <2> USE DEF E0
  <2>1. CASE ChooseBlock
    <3>1. gate' = gate /\ life' = life /\ job[Evictor].at = "idle"
      BY <2>1 DEF ChooseBlock
    <3>2. OnlyJob(Evictor) /\ job'[Evictor].at = "chosen"
      BY <1>0, <2>1, EvictorChooses DEF ChooseBlock
    <3> QED BY <2>0, <3>1, <3>2, GateStart DEF InGate
  <2>2. CASE ObtainBlock
    <3>1. gate' = gate /\ (life # 0 => life' = life) /\ job[Evictor].at = "chosen"
      BY <2>2 DEF ObtainBlock, Obtain
    <3> QED BY <2>0, <2>2, <3>1, ObtainBlockView, GateStart DEF InGate
  <2>3. CASE LockBlock
    <3>1. /\ life' = life /\ job[Evictor].at = "waiting"
          /\ gate[job[Evictor].life] = {}
          /\ gate' = [gate EXCEPT ![job[Evictor].life] = {} \cup {Evictor}]
      BY <2>3 DEF LockBlock, Lock
    <3> QED BY <1>0, <2>0, <2>3, <3>1, EvictorViews, GateEnter DEF InGate
  <2>4. ASSUME NEW p \in Pages, ClaimNext(p) PROVE GateInv'
    <3>1. gate' = gate /\ life' = life /\ job[Evictor].at = "claiming"
      BY <2>4 DEF ClaimNext
    <3>2. /\ OnlyJob(Evictor) /\ job'[Evictor].at = "claiming"
          /\ job'[Evictor].life = job[Evictor].life
      BY <2>4, <3>1, ClaimNextView
    <3>3. \A x \in Procs : job'[x].at = job[x].at /\ job'[x].life = job[x].life
      BY <3>1, <3>2 DEF OnlyJob
    <3>4. \A g \in Fillers : job'[g] = job[g]
      BY <2>0, <3>2, Members DEF OnlyJob
    <3> QED BY <3>1, <3>3, <3>4 DEF GateInv
  <2>5. CASE ClaimedAll \/ DeleteBlock
    <3>1. /\ life' = life /\ gate' = gate
          /\ job[Evictor].at \in {"claiming", "claimed"}
      BY <2>5 DEF ClaimedAll, DeleteBlock
    <3> QED BY <1>0, <2>0, <2>5, <3>1, EvictorViews, GateMove DEF InGate
  <2>6. CASE DropClaim \/ DeleteFails \/ FinishBlock
    <3>1. /\ life' = life
          /\ gate' = [gate EXCEPT ![job[Evictor].life] = @ \ {Evictor}]
          /\ job[Evictor].at \in {"claiming", "claimed", "deleted"}
      BY <2>6 DEF DropClaim, DeleteFails, FinishBlock, Leave
    <3>2. OnlyJob(Evictor) /\ job'[Evictor].at = "idle"
      BY <1>0, <2>6, EvictorViews, NoJobFields DEF Ends
    <3> QED BY <2>0, <3>1, <3>2, GateLeave DEF InGate
  <2> QED BY <1>3, <2>1, <2>2, <2>3, <2>4, <2>5, <2>6 DEF BlockEvictor
<1>4. ASSUME NEW f \in Fillers, Filler(f) PROVE GateInv'
  <2>0. f \in Procs
    BY Members
  <2>1. ASSUME NEW p \in Pages, StartFill(f, p) PROVE GateInv'
    <3>1. /\ gate' = gate /\ (life # 0 => life' = life)
          /\ \A g \in Fillers : job[g].at # "idle" => job[g].page # p
      BY <2>1 DEF StartFill, Obtain
    <3> QED BY <2>0, <2>1, <3>1, StartFillView, GateStart DEF InGate
  <2>2. CASE LockFill(f)
    <3>1. /\ life' = life /\ job[f].at = "waiting"
          /\ gate' = [gate EXCEPT ![job[f].life] = @ \cup {f}]
          /\ gate[job[f].life] \subseteq IF f \in WarmFillers THEN WarmFillers ELSE {}
      BY <2>2 DEF LockFill
    <3>2. PICK held : held = gate[job[f].life]
      OBVIOUS
    <3>3. /\ gate' = [gate EXCEPT ![job[f].life] = held \cup {f}]
          /\ held # {} => f \in WarmFillers /\ held \subseteq WarmFillers
      BY <3>1, <3>2
    <3>4. Moves(f, "writing") /\ "writing" \in InGate
          /\ "waiting" \notin InGate \cup {"idle", "chosen"}
      BY <1>0, <2>2, FillerViews DEF InGate
    <3> QED BY <2>0, <3>1, <3>2, <3>3, <3>4, GateEnter
  <2>3. CASE WriteFile(f)
    <3>1. life' = life /\ gate' = gate /\ job[f].at = "writing"
      BY <2>3 DEF WriteFile
    <3> QED BY <1>0, <2>0, <2>3, <3>1, FillerViews, GateMove DEF InGate
  <2>4. CASE WriteFails(f)
    <3>1. /\ life' = life /\ job[f].at = "writing"
          /\ gate' = [gate EXCEPT ![job[f].life] = @ \ {f}]
      BY <2>4 DEF WriteFails, Leave
    <3>2. OnlyJob(f) /\ job'[f].at = "idle"
      BY <1>0, <2>4, FillerViews, NoJobFields DEF Ends
    <3> QED BY <2>0, <3>1, <3>2, GateLeave DEF InGate
  <2>5. CASE Register(f)
    <3>1. life' = life /\ gate' = gate /\ job[f].at = "written"
      BY <2>5 DEF Register
    <3>2. /\ job'[f].at = "registered"
          /\ \A x \in Procs : /\ SameTarget(job[x], job'[x])
                              /\ x # f => job'[x].at = job[x].at
      BY <2>5, RegisterView
    <3> QED BY <3>1, <3>2, GateFrame DEF InGate, SameTarget
  <2>6. CASE MarkPage(f)
    <3>1. life' = life /\ gate' = gate /\ job[f].at = "registered"
      BY <2>6 DEF MarkPage
    <3>2. /\ job'[f].at = "marked"
          /\ \A x \in Procs : /\ SameTarget(job[x], job'[x])
                              /\ x # f => job'[x].at = job[x].at
      BY <1>0, <2>6, FillMarks DEF MarkPage
    <3> QED BY <3>1, <3>2, GateFrame DEF InGate, SameTarget
  <2>7. CASE ProtectPage(f)
    <3>1. /\ life' = life /\ job[f].at = "marked"
          /\ gate' = [gate EXCEPT ![job[f].life] = @ \ {f}]
      BY <2>7 DEF ProtectPage
    <3> QED BY <2>0, <2>7, <3>1, ProtectView, GateLeave DEF InGate
  <2>8. CASE EndFill(f)
    <3>1. life' = life /\ gate' = gate /\ job[f].at = "guarding"
      BY <2>8 DEF EndFill
    <3>2. OnlyJob(f) /\ job'[f].at = "idle"
      BY <1>0, <2>8, FillerViews, NoJobFields DEF Ends
    <3> QED BY <2>0, <3>1, <3>2, GateStart DEF InGate
  <2> QED BY <1>4, <2>1, <2>2, <2>3, <2>4, <2>5, <2>6, <2>7, <2>8 DEF Filler
<1>5. CASE \/ \E p \in Pages : ScanPast(p)
           \/ \E h \in Handles : Age(h)
           \/ UNCHANGED vars
  <2>1. gate' = gate /\ life' = life /\ job' = job
    BY <1>5 DEF ScanPast, Age, vars
  <2> QED BY <2>1, GateFrame
<1>6. CASE Retire
  <2>1. /\ gate' = gate /\ job' = job
        /\ \A x \in Procs : job[x].at # "idle" => job[x].life # life
    BY <1>6 DEF Retire, Retirable, Owners
  <2>2. \A x \in Procs : job[x].at \in {"idle", "chosen"}
    BY <2>1 DEF GateInv
  <2> QED BY <2>1, <2>2 DEF GateInv
<1> QED BY <1>1, <1>2, <1>3, <1>4, <1>5, <1>6 DEF Next

-----------------------------------------------------------------------------
(* The page table and the reader counts.                                   *)

(* Two jobs in the gate are warm fills of different pages.                 *)
LEMMA TogetherInGate ==
  ASSUME Typed, GateInv, NEW x \in Procs, NEW y \in Procs, x # y,
         job[x].at \in InGate, job[y].at \in InGate
  PROVE  /\ x \in WarmFillers /\ y \in WarmFillers
         /\ x \in Fillers /\ y \in Fillers /\ job[x].page # job[y].page
<1>1. job[x].life = life /\ job[y].life = life /\ life # 0
  BY DEF GateInv, InGate
<1>2. life \in Lives
  BY <1>1, ConstantsAssumption DEF Typed, StoreTyped, RestTyped, Lives
<1>3. x \in gate[life] /\ y \in gate[life]
  BY <1>1, <1>2 DEF GateInv
<1>4. x \in WarmFillers /\ y \in WarmFillers
  BY <1>2, <1>3 DEF GateInv
<1>5. x \in Fillers /\ y \in Fillers
  BY <1>4, ConstantsAssumption
<1> QED BY <1>4, <1>5 DEF GateInv, InGate

(* A deletion in the gate is alone there.                                  *)
LEMMA AloneInGate ==
  ASSUME Typed, GateInv, NEW x \in Procs, x \notin Fillers, job[x].at \in InGate
  PROVE  /\ \A y \in Procs : y # x => job[y].at \notin InGate
         /\ \A y \in Fillers : job[y].at \notin InGate
         /\ \A y \in Collectors : y # x => job[y].at \notin InGate
<1>1. \A y \in Procs : y # x => job[y].at \notin InGate
  BY TogetherInGate
<1> QED BY <1>1, Members

(* A fill in the gate keeps the deletions out.                             *)
LEMMA FillInGate ==
  ASSUME Typed, GateInv, NEW f \in Fillers, job[f].at \in InGate
  PROVE  /\ \A c \in Collectors : job[c].at \notin InGate
         /\ job[Evictor].at \notin InGate
         /\ \A g \in Fillers : g # f /\ job[g].at \in InGate =>
              job[g].page # job[f].page
BY TogetherInGate, Members

(* Which handles the requests and the fills hold.                          *)
LEMMA HoldersFinite ==
  ASSUME NEW h
  PROVE  /\ IsFiniteSet(Holders(h)) /\ IsFiniteSet(Holders(h)')
         /\ Cardinality(Holders(h)) \in Nat /\ Cardinality(Holders(h)') \in Nat
         /\ Cardinality(Holders(h)) = 0 <=> Holders(h) = {}
<1>1. IsFiniteSet(Readers \cup Fillers)
  BY ConstantsAssumption, FS_Union
<1>2. Holders(h) \subseteq Readers \cup Fillers /\ Holders(h)' \subseteq Readers \cup Fillers
  BY DEF Holders
<1>3. IsFiniteSet(Holders(h)) /\ IsFiniteSet(Holders(h)')
  BY <1>1, <1>2, FS_Subset
<1> QED BY <1>3, FS_CardinalityType, FS_EmptySet

(* A new holder of a handle adds one to their number.                      *)
LEMMA HolderAdded ==
  ASSUME NEW h, NEW x, x \notin Holders(h), Holders(h)' = Holders(h) \cup {x}
  PROVE  Cardinality(Holders(h)') = Cardinality(Holders(h)) + 1
BY HoldersFinite, FS_AddElement

(* A holder that leaves takes one off their number.                        *)
LEMMA HolderRemoved ==
  ASSUME NEW h, NEW x, x \in Holders(h), Holders(h)' = Holders(h) \ {x}
  PROVE  Cardinality(Holders(h)') = Cardinality(Holders(h)) - 1
BY HoldersFinite, FS_RemoveElement

(* Stages of a fill that rest on the entry of its page.                    *)
Placed == {"registered", "marked", "guarding"}

(* Steps that neither take nor drop a guard leave the holders.             *)
LEMMA HoldersSame ==
  ASSUME \A r \in Readers : /\ rd'[r].at = "idle" <=> rd[r].at = "idle"
                            /\ rd'[r].handle = rd[r].handle,
         \A f \in Fillers : /\ job'[f].at = "guarding" <=> job[f].at = "guarding"
                            /\ job[f].at = "guarding" => job'[f].handle = job[f].handle,
         NEW h
  PROVE  Holders(h)' = Holders(h)
BY DEF Holders

(* A step that leaves the table, the counts and the holders keeps          *)
(* TableInv.                                                               *)
LEMMA TableFrame ==
  ASSUME TableInv, entry' = entry, handles' = handles,
         \A h \in Handles :
           /\ word'[h].readers = word[h].readers
           /\ h > handles => /\ word'[h].closed = word[h].closed
                             /\ word'[h].retry = word[h].retry,
         \A r \in Readers : /\ rd'[r].at = "idle" <=> rd[r].at = "idle"
                            /\ rd'[r].handle = rd[r].handle
                            /\ rd'[r].page = rd[r].page,
         \A f \in Fillers :
           /\ job'[f].at = "guarding" <=> job[f].at = "guarding"
           /\ job'[f].at \in Placed => /\ job[f].at \in Placed
                                       /\ job'[f].handle = job[f].handle
                                       /\ job'[f].page = job[f].page
  PROVE  TableInv'
<1>1. \A f \in Fillers :
        job[f].at = "guarding" => job'[f].handle = job[f].handle
  BY DEF Placed
<1>2. \A h : Holders(h)' = Holders(h)
  BY <1>1, HoldersSame
<1>3. \A h \in Handles : h > handles' => ~word'[h].closed /\ word'[h].retry = 0
  BY DEF TableInv
<1>4. \A h \in Handles : word'[h].readers = Cardinality(Holders(h)')
  BY <1>2 DEF TableInv
<1>5. \A f \in Fillers : job'[f].at = "guarding" =>
        entry'[job'[f].page] = job'[f].handle
  BY DEF TableInv, Placed
<1>6. \A f \in Fillers : job'[f].at \in Placed => entry'[job'[f].page] # 0
  BY DEF TableInv, Placed
<1> QED BY <1>3, <1>4, <1>5, <1>6 DEF TableInv, Placed

(* A request that holds a handle, and a fill that does.                    *)
LEMMA HeldEntry ==
  ASSUME Typed, TableInv
  PROVE  /\ \A r \in Readers : rd[r].at # "idle" =>
              /\ rd[r].page \in Pages /\ entry[rd[r].page] = rd[r].handle
              /\ rd[r].handle \in Handles /\ rd[r].handle \in 1..handles
              /\ r \in Holders(rd[r].handle)
         /\ \A f \in Fillers : job[f].at = "guarding" =>
              /\ job[f].page \in Pages /\ entry[job[f].page] = job[f].handle
              /\ job[f].handle \in Handles /\ job[f].handle \in 1..handles
              /\ f \in Holders(job[f].handle)
<1>1. \A r \in Readers : rd[r].page \in Pages
  BY DEF Typed, StoreTyped, RestTyped, ReadRec
<1>2. \A f \in Fillers : job[f].page \in Pages
  BY Members DEF Typed, JobsTyped, JobRec
<1> QED BY <1>1, <1>2, EntryHandle DEF TableInv, Holders

(* A read request begins to hold a handle, or lets it go.                  *)
LEMMA TableAcquire ==
  ASSUME Typed, TableInv, NEW r \in Readers, NEW p \in Pages, Acquire(r, p)
  PROVE  TableInv'
<1> DEFINE e == entry[p]
<1>1. PICK k : k = e
  OBVIOUS
<1>2. /\ WordIs(k, word[k].readers + 1, word[k].retry, word[k].closed,
                word[k].accessed)
      /\ k # 0 /\ k \in 1..handles
  BY <1>1, ReaderWords, EntryHandle DEF Acquire
<1>3. /\ entry' = entry /\ handles' = handles /\ rd[r].at = "idle"
      /\ rd'[r] = [at |-> "acquired", page |-> p, handle |-> k]
      /\ \A q \in Readers : q # r => rd'[q] = rd[q]
  BY <1>1 DEF Acquire, tableVars, Typed, StoreTyped, RestTyped
<1>4. \A f \in Fillers : /\ job'[f].at = job[f].at /\ job'[f].page = job[f].page
                         /\ job'[f].handle = job[f].handle
  BY ReaderViews, Members DEF Typed, Told, SameTarget
<1>5. r \notin Holders(k)
  BY <1>3, ConstantsAssumption DEF Holders
<1>6. Holders(k)' = Holders(k) \cup {r}
  BY <1>3, <1>4, ConstantsAssumption DEF Holders
<1>7. \A h : h # k => Holders(h)' = Holders(h)
  BY <1>3, <1>4, ConstantsAssumption DEF Holders
<1>8. \A h \in Handles : word'[h].readers = Cardinality(Holders(h)')
  BY <1>2, <1>5, <1>6, <1>7, HolderAdded DEF WordIs, TableInv
<1>9. \A h \in Handles : h > handles' => ~word'[h].closed /\ word'[h].retry = 0
  BY <1>2, <1>3 DEF WordIs, TableInv
<1>10. \A q \in Readers : rd'[q].at # "idle" =>
         entry'[rd'[q].page] = rd'[q].handle /\ rd'[q].handle # 0
  BY <1>1, <1>2, <1>3 DEF TableInv
<1> QED BY <1>3, <1>4, <1>8, <1>9, <1>10 DEF TableInv

(* The end of a read keeps the count of the word equal to its holders.     *)
LEMMA TableRelease ==
  ASSUME Typed, TableInv, NEW r \in Readers, Release(r) \/ Abandon(r)
  PROVE  TableInv'
<1>1. PICK k : k = rd[r].handle
  OBVIOUS
<1>2. rd[r].at # "idle" /\ k \in Handles /\ k \in 1..handles /\ r \in Holders(k)
  BY <1>1, HeldEntry DEF Release, Abandon
<1>3. /\ word'[k].readers = word[k].readers - 1
      /\ \A h \in Handles : h # k => word'[h] = word[h]
  BY <1>1, ReaderWords DEF WordIs
<1>4. /\ entry' = entry /\ handles' = handles
      /\ rd'[r].at = "idle"
      /\ \A q \in Readers : q # r => rd'[q] = rd[q]
  BY NoJobFields DEF Release, Abandon, tableVars, Typed, StoreTyped, RestTyped
<1>5. \A f \in Fillers : /\ job'[f].at = job[f].at /\ job'[f].page = job[f].page
                         /\ job'[f].handle = job[f].handle
  <2>1. Told \/ job' = job
    BY ReaderViews DEF Typed, Abandon
  <2> QED BY <2>1, Members DEF Told, SameTarget
<1>6. Holders(k)' = Holders(k) \ {r}
  BY <1>1, <1>4, <1>5, ConstantsAssumption DEF Holders
<1>7. \A h : h # k => Holders(h)' = Holders(h)
  BY <1>1, <1>4, <1>5, ConstantsAssumption DEF Holders
<1>8. \A h \in Handles : word'[h].readers = Cardinality(Holders(h)')
  BY <1>2, <1>3, <1>6, <1>7, HolderRemoved DEF TableInv
<1>9. \A h \in Handles : h > handles' => ~word'[h].closed /\ word'[h].retry = 0
  <2>1. handles \in Nat
    BY ConstantsAssumption DEF Typed, StoreTyped, RestTyped
  <2>2. \A h \in Handles : h > handles => h # k
    BY <1>2, <2>1
  <2> QED BY <1>3, <1>4, <2>2 DEF TableInv
<1> QED BY <1>4, <1>5, <1>8, <1>9 DEF TableInv

(* A fill protects its page, and ends.                                     *)
LEMMA TableProtect ==
  ASSUME Typed, TableInv, NEW f \in Fillers, ProtectPage(f)
  PROVE  TableInv'
<1>1. PICK k : k = entry[job[f].page]
  OBVIOUS
<1>2. /\ WordIs(k, word[k].readers + 1, word[k].retry, word[k].closed,
                word[k].accessed)
      /\ k # 0 /\ k \in 1..handles
  <2>1. job[f].page \in Pages
    BY Members DEF Typed, JobsTyped, JobRec
  <2>2. k # 0
    BY <1>1 DEF ProtectPage, TableInv
  <2> QED BY <1>1, <2>1, <2>2, FillerWords, EntryHandle
<1>3. /\ entry' = entry /\ handles' = handles /\ rd' = rd
      /\ job[f].at = "marked"
      /\ job'[f].at = "guarding" /\ job'[f].handle = k
      /\ job'[f].page = job[f].page
      /\ \A g \in Fillers : g # f => job'[g] = job[g]
  BY <1>1, ProtectView, Members DEF ProtectPage, tableVars, OnlyJob
<1>4. f \notin Holders(k)
  BY <1>3, ConstantsAssumption DEF Holders
<1>5. Holders(k)' = Holders(k) \cup {f}
  BY <1>3, ConstantsAssumption DEF Holders
<1>6. \A h : h # k => Holders(h)' = Holders(h)
  BY <1>3, ConstantsAssumption DEF Holders
<1>7. \A h \in Handles : word'[h].readers = Cardinality(Holders(h)')
  BY <1>2, <1>4, <1>5, <1>6, HolderAdded DEF WordIs, TableInv
<1>8. \A h \in Handles : h > handles' => ~word'[h].closed /\ word'[h].retry = 0
  BY <1>2, <1>3 DEF WordIs, TableInv
<1>9. \A g \in Fillers : /\ job'[g].at = "guarding" =>
                              entry'[job'[g].page] = job'[g].handle
                         /\ job'[g].at \in {"registered", "marked", "guarding"} =>
                              entry'[job'[g].page] # 0
  BY <1>1, <1>2, <1>3 DEF TableInv
<1> QED BY <1>3, <1>7, <1>8, <1>9 DEF TableInv

(* The end of a fill's guard keeps the count equal to the holders.         *)
LEMMA TableEndFill ==
  ASSUME Typed, TableInv, NEW f \in Fillers, EndFill(f)
  PROVE  TableInv'
<1>1. PICK k : k = job[f].handle
  OBVIOUS
<1>2. job[f].at = "guarding" /\ k \in Handles /\ k \in 1..handles /\ f \in Holders(k)
  BY <1>1, HeldEntry DEF EndFill
<1>3. WordIs(k, word[k].readers - 1, word[k].retry, word[k].closed, word[k].accessed)
  BY <1>1, FillerWords
<1>4. /\ entry' = entry /\ handles' = handles /\ rd' = rd
      /\ job'[f].at = "idle"
      /\ \A g \in Fillers : g # f => job'[g] = job[g]
  BY FillerViews, NoJobFields, Members
  DEF EndFill, tableVars, Typed, Ends, OnlyJob
<1>5. Holders(k)' = Holders(k) \ {f}
  BY <1>1, <1>4, ConstantsAssumption DEF Holders
<1>6. \A h : h # k => Holders(h)' = Holders(h)
  BY <1>1, <1>4, ConstantsAssumption DEF Holders
<1>7. \A h \in Handles : word'[h].readers = Cardinality(Holders(h)')
  BY <1>2, <1>3, <1>5, <1>6, HolderRemoved DEF WordIs, TableInv
<1>8. \A h \in Handles : h > handles' => ~word'[h].closed /\ word'[h].retry = 0
  BY <1>2, <1>3, <1>4 DEF WordIs, TableInv
<1>9. \A g \in Fillers : /\ job'[g].at = "guarding" =>
                              entry'[job'[g].page] = job'[g].handle
                         /\ job'[g].at \in {"registered", "marked", "guarding"} =>
                              entry'[job'[g].page] # 0
  BY <1>4 DEF TableInv
<1> QED BY <1>4, <1>7, <1>8, <1>9 DEF TableInv

(* A fill enters its page into the table.                                  *)
LEMMA TableRegister ==
  ASSUME Typed, TableInv, NEW f \in Fillers, Register(f)
  PROVE  TableInv'
<1> DEFINE p == job[f].page
<1>1. PICK k : k = Registered(f)
  OBVIOUS
<1>2. p \in Pages /\ entry \in [Pages -> 0..handles] /\ handles \in Nat
  BY Members, ConstantsAssumption DEF Typed, JobsTyped, JobRec, StoreTyped, RestTyped
<1>3. /\ k \in Handles
      /\ entry' = [entry EXCEPT ![p] = k] /\ rd' = rd /\ job[f].at = "written"
      /\ handles' = IF entry[p] = 0 THEN k ELSE handles
      /\ k = IF entry[p] = 0 THEN handles + 1 ELSE entry[p]
  BY <1>1 DEF Register, Registered
<1>4. WordIs(k, word[k].readers, word[k].retry, word[k].closed, TRUE)
  BY <1>1, FillerWords
<1>5. /\ k # 0 /\ entry'[p] = k
      /\ \A q \in Pages : q # p => entry'[q] = entry[q]
      /\ \A q \in Pages : entry[q] # 0 => entry'[q] = entry[q]
  BY <1>2, <1>3
<1>6. /\ job'[f].at = "registered" /\ job'[f].page = p
      /\ \A g \in Fillers : /\ job'[g].page = job[g].page
                            /\ job'[g].handle = job[g].handle
                            /\ g # f => job'[g].at = job[g].at
  BY RegisterView, Members DEF SameTarget
<1>7. \A h : Holders(h)' = Holders(h)
  BY <1>3, <1>6, HoldersSame
<1>8. \A q, s \in Pages : entry'[q] = entry'[s] /\ entry'[q] # 0 => q = s
  <2>1. CASE entry[p] = 0
    <3>1. \A q \in Pages : entry[q] # k
      BY <1>2, <1>3, <2>1
    <3> QED BY <1>2, <1>5, <3>1 DEF TableInv
  <2>2. CASE entry[p] # 0
    BY <1>2, <1>3, <1>5, <2>2 DEF TableInv
  <2> QED BY <2>1, <2>2
<1>9. \A h \in Handles : h > handles' => ~word'[h].closed /\ word'[h].retry = 0
  <2>1. \A h \in Handles : h > handles' => h > handles /\ h # k
    BY <1>2, <1>3 DEF Handles
  <2> QED BY <1>4, <2>1 DEF WordIs, TableInv
<1>10. \A h \in Handles : word'[h].readers = Cardinality(Holders(h)')
  BY <1>4, <1>7 DEF WordIs, TableInv
<1>11. \A r \in Readers : rd'[r].at # "idle" =>
         entry'[rd'[r].page] = rd'[r].handle /\ rd'[r].handle # 0
  BY <1>3, <1>5, HeldEntry DEF TableInv
<1>12. \A g \in Fillers : job[g].page \in Pages
  BY Members DEF Typed, JobsTyped, JobRec
<1>13. \A g \in Fillers : job'[g].at = "guarding" =>
         entry'[job'[g].page] = job'[g].handle
  BY <1>5, <1>6, <1>12 DEF TableInv
<1>14. \A g \in Fillers : job'[g].at \in {"registered", "marked", "guarding"} =>
         entry'[job'[g].page] # 0
  BY <1>5, <1>6, <1>12 DEF TableInv
<1> QED BY <1>8, <1>9, <1>10, <1>11, <1>13, <1>14 DEF TableInv

(* Pages leave the table.  Their handles are closed, so nobody holds them, *)
(* and no fill is in the gate.                                             *)
LEMMA TableRemove ==
  ASSUME Typed, TableInv, ClaimInv, NEW gone \in SUBSET Pages,
         \A p \in Pages : entry'[p] = IF p \in gone THEN 0 ELSE entry[p],
         \A p \in gone : entry[p] # 0 => word[entry[p]].closed,
         \A f \in Fillers : job'[f] = job[f] /\ job[f].at \notin InGate,
         word' = word, handles' = handles, rd' = rd
  PROVE  TableInv'
<1>1. \A h : Holders(h)' = Holders(h)
  BY HoldersSame
<1>2. \A r \in Readers : rd[r].at # "idle" => rd[r].page \notin gone
  BY HeldEntry DEF ClaimInv, TableInv
<1>3. \A f \in Fillers : job[f].at = "guarding" => job[f].page \notin gone
  BY HeldEntry DEF ClaimInv, TableInv
<1>4. \A p, q \in Pages : entry'[p] = entry'[q] /\ entry'[p] # 0 => p = q
  BY DEF TableInv
<1>5. \A h \in Handles : word'[h].readers = Cardinality(Holders(h)')
  BY <1>1 DEF TableInv
<1>6. \A r \in Readers : rd'[r].at # "idle" =>
        entry'[rd'[r].page] = rd'[r].handle /\ rd'[r].handle # 0
  BY <1>2, HeldEntry DEF TableInv
<1>7. \A f \in Fillers : /\ job'[f].at = "guarding" =>
                              entry'[job'[f].page] = job'[f].handle
                         /\ job'[f].at \in {"registered", "marked", "guarding"} =>
                              entry'[job'[f].page] # 0
  BY <1>3, HeldEntry DEF TableInv, InGate
<1>8. \A h \in Handles : h > handles' => ~word'[h].closed /\ word'[h].retry = 0
  BY DEF TableInv
<1> QED BY <1>4, <1>5, <1>6, <1>7, <1>8 DEF TableInv

(* A step of a deletion that keeps the entries.                            *)
LEMMA TableKept ==
  ASSUME Typed, TableInv, NEW x \in Procs, x \notin Fillers, OnlyJob(x),
         entry' = entry, handles' = handles, rd' = rd,
         \A h \in Handles :
           /\ word'[h].readers = word[h].readers
           /\ h > handles => /\ word'[h].closed = word[h].closed
                             /\ word'[h].retry = word[h].retry
  PROVE  TableInv'
<1>1. \A f \in Fillers : job'[f] = job[f]
  BY Members DEF OnlyJob
<1> QED BY <1>1, TableFrame

(* A word of the table may change, but for its readers.                    *)
LEMMA ListedWord ==
  ASSUME Typed, NEW h, NEW t, NEW b, NEW a, h \in 1..handles,
         WordIs(h, word[h].readers, t, b, a)
  PROVE  \A g \in Handles :
           /\ word'[g].readers = word[g].readers
           /\ g > handles => /\ word'[g].closed = word[g].closed
                             /\ word'[g].retry = word[g].retry
<1>1. handles \in Nat
  BY ConstantsAssumption DEF Typed, StoreTyped, RestTyped
<1>2. \A g \in Handles : g > handles => g # h
  BY <1>1
<1> QED BY <1>2 DEF WordIs

(* Every step keeps TableInv: the word counts exactly those who hold it.   *)
LEMMA TableStep ==
  Typed /\ GateInv /\ TableInv /\ ClaimInv /\ [Next]_vars => TableInv'
<1> SUFFICES ASSUME Typed, GateInv, TableInv, ClaimInv, [Next]_vars
             PROVE  TableInv'
  OBVIOUS
<1>0. JobsTyped
  BY DEF Typed
<1> USE DEF tableVars
<1>1. ASSUME NEW r \in Readers, Reader(r) PROVE TableInv'
  <2>1. CASE TouchPolicy(r) \/ Touch(r)
    <3>1. /\ entry' = entry /\ handles' = handles /\ word' = word
          /\ \A q \in Readers : /\ rd'[q].at = "idle" <=> rd[q].at = "idle"
                                /\ rd'[q].handle = rd[q].handle
                                /\ rd'[q].page = rd[q].page
      BY <2>1 DEF TouchPolicy, Touch, Typed, StoreTyped, RestTyped, ReadRec
    <3>2. Told \/ job' = job
      BY <1>0, <2>1, ReaderViews DEF Touch
    <3>3. \A f \in Fillers : /\ job'[f].at = job[f].at /\ job'[f].page = job[f].page
                             /\ job'[f].handle = job[f].handle
      BY <3>2, Members DEF Told, SameTarget
    <3> QED BY <3>1, <3>3, TableFrame
  <2> QED BY <1>1, <2>1, TableAcquire, TableRelease DEF Reader
<1>2. ASSUME NEW c \in Collectors, Collector(c) PROVE TableInv'
  <2>0. c \in Procs /\ c \notin Fillers
    BY Members
  <2>1. ASSUME NEW p \in Pages, Candidate(c, p) \/ Scan(c, p) PROVE TableInv'
    <3>1. OnlyJob(c) /\ entry[p] \in 1..handles
      BY <2>1, CandidateView, ScanView, EntryHandle DEF Selects
    <3>2. entry' = entry /\ handles' = handles /\ rd' = rd
      BY <2>1 DEF Candidate, Scan, Select
    <3> QED BY <2>0, <2>1, <3>1, <3>2, CollectorWords, ListedWord, TableKept
  <2>2. CASE ScanEmpty(c)
    <3>1. entry' = entry /\ handles' = handles /\ rd' = rd /\ word' = word
      BY <2>2 DEF ScanEmpty
    <3> QED BY <2>0, <2>2, <3>1, ScanEmptyView, TableKept
  <2>3. CASE LockPage(c) \/ LockSweep(c) \/ Unlink(c) \/ ClearPage(c)
    <3>1. entry' = entry /\ handles' = handles /\ rd' = rd /\ word' = word
      BY <2>3 DEF LockPage, LockSweep, Lock, Unlink, ClearPage
    <3>2. OnlyJob(c)
      BY <1>0, <2>3, CollectorViews DEF Moves
    <3> QED BY <2>0, <3>1, <3>2, TableKept
  <2>4. CASE Claim(c)
    <3>1. /\ entry' = entry /\ handles' = handles /\ rd' = rd
          /\ job[c].handle \in 1..handles
      BY <1>0, <2>4 DEF Claim, JobsTyped
    <3>2. OnlyJob(c)
      BY <1>0, <2>4, CollectorViews DEF Moves
    <3> QED BY <2>0, <2>4, <3>1, <3>2, CollectorWords, ListedWord, TableKept
  <2>5. CASE UnlinkFails(c)
    <3>1. /\ entry' = entry /\ handles' = handles /\ rd' = rd
          /\ job[c].handle \in 1..handles
          /\ Current(c) \/ word' = word
      BY <1>0, <2>5 DEF UnlinkFails, JobsTyped
    <3>2. OnlyJob(c)
      BY <1>0, <2>5, CollectorViews DEF Ends
    <3>3. CASE Current(c)
      BY <2>0, <2>5, <3>1, <3>2, <3>3, CollectorWords, ListedWord, TableKept
    <3>4. CASE word' = word
      BY <2>0, <3>1, <3>2, <3>4, TableKept
    <3> QED BY <3>1, <3>3, <3>4
  <2>6. CASE GiveUp(c) \/ Sweep(c) \/ SweepFails(c) \/ SkipSweep(c)
    <3>1. entry' = entry /\ handles' = handles /\ rd' = rd /\ word' = word
      BY <2>6 DEF GiveUp, Sweep, SweepFails, SkipSweep
    <3>2. OnlyJob(c)
      BY <1>0, <2>6, CollectorViews DEF Ends
    <3> QED BY <2>0, <3>1, <3>2, TableKept
  <2>7. CASE Finish(c)
    <3>1. /\ handles' = handles /\ rd' = rd /\ word' = word /\ job[c].at = "cleared"
      BY <2>7 DEF Finish
    <3>2. OnlyJob(c) /\ job[c].page \in Pages
      BY <1>0, <2>0, <2>7, CollectorViews DEF Moves, JobsTyped, JobRec
    <3>3. Current(c) /\ word[job[c].handle].closed
      BY <3>1 DEF ClaimInv, Closers
    <3>4. entry' = [entry EXCEPT ![job[c].page] = 0]
      BY <2>7, <3>3 DEF Finish
    <3>5. \A p \in Pages : entry'[p] = IF p \in {job[c].page} THEN 0 ELSE entry[p]
      BY <3>2, <3>4 DEF Typed, StoreTyped, RestTyped
    <3>6. \A f \in Fillers : job'[f] = job[f] /\ job[f].at \notin InGate
      <4>1. job[c].at \in InGate
        BY <3>1 DEF InGate
      <4> QED BY <2>0, <3>2, <4>1, AloneInGate, Members DEF OnlyJob
    <3> QED BY <3>1, <3>2, <3>3, <3>5, <3>6, TableRemove DEF Current
  <2> QED BY <1>2, <2>1, <2>2, <2>3, <2>4, <2>5, <2>6, <2>7 DEF Collector
<1>3. CASE BlockEvictor
  <2>0. Evictor \in Procs /\ Evictor \notin Fillers
    BY Members, ConstantsAssumption
  <2>1. CASE ChooseBlock \/ ObtainBlock \/ LockBlock \/ ClaimedAll \/ DeleteBlock
    <3>1. entry' = entry /\ handles' = handles /\ rd' = rd /\ word' = word
      BY <2>1 DEF ChooseBlock, ObtainBlock, LockBlock, Lock, ClaimedAll, DeleteBlock
    <3>2. OnlyJob(Evictor)
      <4>1. CASE ChooseBlock
        BY <1>0, <4>1, EvictorChooses DEF ChooseBlock
      <4> QED BY <1>0, <2>1, <4>1, EvictorViews, ObtainBlockView DEF Moves
    <3> QED BY <2>0, <3>1, <3>2, TableKept
  <2>2. ASSUME NEW p \in Pages, ClaimNext(p) PROVE TableInv'
    <3>1. /\ entry' = entry /\ handles' = handles /\ rd' = rd
          /\ entry[p] \in 1..handles
      BY <2>2, EntryHandle DEF ClaimNext, Resident
    <3> QED BY <2>0, <2>2, <3>1, ClaimNextView, ClaimNextWord, ListedWord, TableKept
  <2>3. CASE DropClaim \/ DeleteFails
    <3>1. entry' = entry /\ handles' = handles /\ rd' = rd /\ Reopen
      BY <2>3 DEF DropClaim, DeleteFails
    <3>2. OnlyJob(Evictor)
      BY <1>0, <2>3, EvictorViews DEF Ends
    <3>3. \A h \in E0.claimed : h \in 1..handles
      <4>1. E0.claimed \subseteq Handles
        BY <1>0, Members DEF E0, JobsTyped, JobRec
      <4>2. \A h \in Handles : h # 0
        BY DEF Handles
      <4> QED BY <4>1, <4>2, EntryHandle DEF ClaimInv
    <3>4. \A h \in E0.claimed : ~(h > handles)
      BY <3>3, ConstantsAssumption DEF Typed, StoreTyped, RestTyped
    <3>5. \A h \in Handles :
            /\ word'[h].readers = word[h].readers
            /\ h > handles => /\ word'[h].closed = word[h].closed
                              /\ word'[h].retry = word[h].retry
      BY <3>1, <3>4, ReopenWords DEF Typed, StoreTyped
    <3> QED BY <2>0, <3>1, <3>2, <3>5, TableKept
  <2>4. CASE FinishBlock
    <3>1. /\ handles' = handles /\ rd' = rd /\ word' = word
          /\ E0.at = "deleted" /\ entry' = [p \in Pages |-> 0]
      BY <2>4 DEF FinishBlock
    <3>2. OnlyJob(Evictor)
      BY <1>0, <2>4, EvictorViews DEF Ends
    <3>3. \A p \in Pages : entry[p] # 0 => word[entry[p]].closed
      BY <3>1 DEF ClaimInv, Resident
    <3>4. \A f \in Fillers : job'[f] = job[f] /\ job[f].at \notin InGate
      <4>1. job[Evictor].at \in InGate
        BY <3>1 DEF E0, InGate
      <4> QED BY <2>0, <3>2, <4>1, AloneInGate, Members DEF OnlyJob
    <3>5. \A p \in Pages : entry'[p] = IF p \in Pages THEN 0 ELSE entry[p]
      BY <3>1
    <3> QED BY <3>1, <3>3, <3>4, <3>5, TableRemove
  <2> QED BY <1>3, <2>1, <2>2, <2>3, <2>4 DEF BlockEvictor
<1>4. ASSUME NEW f \in Fillers, Filler(f) PROVE TableInv'
  <2>1. CASE \/ \E p \in Pages : StartFill(f, p)
             \/ LockFill(f) \/ WriteFile(f) \/ WriteFails(f)
    <3>1. /\ entry' = entry /\ handles' = handles /\ rd' = rd /\ word' = word
          /\ job[f].at \notin Placed
      BY <2>1 DEF StartFill, LockFill, WriteFile, WriteFails, Placed
    <3>2. OnlyJob(f) /\ job'[f].at \notin Placed
      BY <1>0, <2>1, FillerViews, StartFillView, NoJobFields
      DEF Moves, Ends, Placed
    <3>3. \A g \in Fillers : g # f => job'[g] = job[g]
      BY <3>2, Members DEF OnlyJob
    <3> QED BY <3>1, <3>2, <3>3, TableFrame DEF Placed
  <2>2. CASE MarkPage(f)
    <3>1. /\ entry' = entry /\ handles' = handles /\ rd' = rd /\ word' = word
          /\ job[f].at = "registered"
      BY <2>2 DEF MarkPage
    <3>2. /\ job'[f].at = "marked" /\ SameTarget(job[f], job'[f])
          /\ \A g \in Fillers : g # f =>
               job'[g].at = job[g].at /\ SameTarget(job[g], job'[g])
      BY <1>0, <2>2, FillMarks, Members DEF MarkPage
    <3> QED BY <3>1, <3>2, TableFrame DEF Placed, SameTarget
  <2> QED BY <1>4, <2>1, <2>2, TableRegister, TableProtect, TableEndFill DEF Filler
<1>5. CASE \/ \E p \in Pages : ScanPast(p)
           \/ \E h \in Handles : Age(h)
           \/ Retire
           \/ UNCHANGED vars
  <2>1. UNCHANGED <<entry, handles, word, rd, job>>
    BY <1>5 DEF ScanPast, Age, Retire, vars
  <2> QED BY <2>1, TableFrame
<1> QED BY <1>1, <1>2, <1>3, <1>4, <1>5 DEF Next

-----------------------------------------------------------------------------
(* Claims.                                                                 *)

ClosingAt == {"claimed", "unlinked", "cleared"}
EvictAt   == {"claiming", "claimed", "deleted"}

(* The closed pages, and who closed them, stay as they are.                *)
LEMMA ClaimFrame ==
  ASSUME Typed, ClaimInv, entry' = entry, handles' = handles,
         \A h \in Handles : /\ word'[h].closed = word[h].closed
                            /\ word[h].closed => Holders(h)' = {},
         \A c \in Collectors :
           /\ job'[c].at \in ClosingAt <=> job[c].at \in ClosingAt
           /\ job[c].at \in ClosingAt =>
                /\ job'[c].page = job[c].page /\ job'[c].handle = job[c].handle
                /\ job'[c].sel = job[c].sel
                /\ selection'[job[c].page] = selection[job[c].page],
         E0'.claimed = E0.claimed,
         E0.claimed # {} => E0'.at \in EvictAt,
         E0'.at \in {"claimed", "deleted"} => E0.at \in {"claimed", "deleted"}
  PROVE  ClaimInv'
<1>1. /\ Closers' = Closers
      /\ \A c \in Closers : job'[c].page = job[c].page /\ job'[c].handle = job[c].handle
  BY DEF Closers, ClosingAt
<1>2. \A c \in Closers : job[c].handle \in Handles
  <2>1. \A c \in Closers : job[c].handle \in 1..handles
    BY DEF Closers, Typed, JobsTyped
  <2> QED BY <2>1, ConstantsAssumption DEF Typed, StoreTyped, RestTyped, Handles
<1>3. E0.claimed \subseteq Handles
  BY Members DEF E0, Typed, JobsTyped, JobRec
<1>4. \A p \in Resident : entry[p] \in Handles
  BY EntryHandle DEF Resident
<1>5. 1..handles \subseteq Handles
  BY ConstantsAssumption DEF Typed, StoreTyped, RestTyped, Handles
<1>6. Resident' = Resident
  BY DEF Resident
<1>7. \A h \in Handles : word'[h].closed => Holders(h)' = {}
  OBVIOUS
<1>8. \A c \in Closers' : Current(c)' /\ word'[job'[c].handle].closed
  BY <1>1, <1>2 DEF ClaimInv, Current, Closers, ClosingAt
<1>9. \A h \in E0'.claimed : word'[h].closed /\ \E p \in Pages : entry'[p] = h
  BY <1>3 DEF ClaimInv
<1>10. /\ E0'.claimed # {} => E0'.at \in {"claiming", "claimed", "deleted"}
       /\ E0'.at \in {"claimed", "deleted"} =>
            E0'.claimed = {entry'[p] : p \in Resident'}
  BY <1>6 DEF ClaimInv, EvictAt
<1>11. \A p \in Resident' : word'[entry'[p]].closed =>
         entry'[p] \in E0'.claimed \/ \E c \in Closers' : job'[c].page = p
  BY <1>1, <1>4, <1>6 DEF ClaimInv
<1>12. \A h \in 1..handles' : (\A p \in Pages : entry'[p] # h) => word'[h].closed
  BY <1>5 DEF ClaimInv
<1> QED BY <1>7, <1>8, <1>9, <1>10, <1>11, <1>12 DEF ClaimInv

(* While no deletion is in the gate every page of the table is open.       *)
LEMMA NobodyClaims ==
  ASSUME ClaimInv, \A c \in Collectors : job[c].at \notin ClosingAt,
         E0.at \notin EvictAt
  PROVE  /\ Closers = {} /\ E0.claimed = {}
         /\ \A p \in Resident : ~word[entry[p]].closed
<1>1. Closers = {} /\ E0.claimed = {}
  BY DEF ClaimInv, Closers, ClosingAt, EvictAt
<1> QED BY <1>1 DEF ClaimInv

(* A fill inside the gate finds nobody closing and every page open.        *)
LEMMA FillFindsOpen ==
  ASSUME Typed, GateInv, ClaimInv, NEW f \in Fillers, job[f].at \in InGate
  PROVE  /\ Closers = {} /\ E0.claimed = {}
         /\ \A p \in Resident : ~word[entry[p]].closed
         /\ \A c \in Collectors : job[c].at \notin ClosingAt
         /\ E0.at \notin EvictAt
<1>1. \A c \in Collectors : job[c].at \notin ClosingAt
  BY FillInGate DEF InGate, ClosingAt
<1>2. E0.at \notin EvictAt
  BY FillInGate DEF InGate, EvictAt, E0
<1> QED BY <1>1, <1>2, NobodyClaims

(* A collector in the gate is the only deletion.                           *)
LEMMA CollectorAlone ==
  ASSUME Typed, GateInv, ClaimInv, NEW c \in Collectors, job[c].at \in InGate
  PROVE  /\ \A d \in Collectors : d # c => job[d].at \notin ClosingAt
         /\ Closers \subseteq {c} /\ E0.at \notin EvictAt /\ E0.claimed = {}
<1>1. \A y \in Procs : y # c => job[y].at \notin InGate
  BY Members, AloneInGate
<1>2. \A d \in Collectors : d # c => job[d].at \notin ClosingAt
  BY <1>1, Members DEF InGate, ClosingAt
<1>3. E0.at \notin EvictAt
  BY <1>1, Members DEF InGate, EvictAt, E0
<1> QED BY <1>2, <1>3 DEF Closers, ClosingAt, EvictAt, ClaimInv

(* While the evictor claims, no collector closes and no fill is inside.    *)
LEMMA EvictorAlone ==
  ASSUME Typed, GateInv, E0.at \in EvictAt
  PROVE  /\ \A d \in Collectors : job[d].at \notin ClosingAt
         /\ Closers = {} /\ \A f \in Fillers : job[f].at \notin InGate
<1>1. E0.at \in InGate /\ Evictor \in Procs /\ Evictor \notin Fillers
  BY Members, ConstantsAssumption DEF InGate, EvictAt
<1>2. \A y \in Procs : y # Evictor => job[y].at \notin InGate
  BY <1>1, AloneInGate DEF E0
<1>3. \A d \in Collectors : job[d].at \notin ClosingAt
  BY <1>2, Members DEF InGate, ClosingAt
<1> QED BY <1>2, <1>3, Members DEF Closers, ClosingAt

(* A collector's claim keeps ClaimInv.                                     *)
LEMMA ClaimClaim ==
  ASSUME Typed, GateInv, TableInv, ClaimInv, NEW c \in Collectors, Claim(c)
  PROVE  ClaimInv'
<1>1. PICK k : k = job[c].handle
  OBVIOUS
<1>2. /\ job[c].at = "gated" /\ Current(c) /\ word[k].readers = 0
      /\ UNCHANGED <<entry, selection, handles, rd>>
  BY <1>1 DEF Claim, Claimable, tableVars
<1>3. WordIs(k, word[k].readers, word[k].retry, TRUE, word[k].accessed)
  BY <1>1, CollectorWords
<1>4. /\ \A d \in Collectors : d # c => job[d].at \notin ClosingAt
      /\ E0.at \notin EvictAt /\ E0.claimed = {}
      /\ \A p \in Resident : ~word[entry[p]].closed
  <2>1. job[c].at \in InGate /\ job[c].at \notin ClosingAt
    BY <1>2 DEF InGate, ClosingAt
  <2> QED BY <2>1, CollectorAlone, NobodyClaims
<1>5. OnlyJob(c) /\ job'[c].at = "claimed" /\ SameTarget(job[c], job'[c])
  BY CollectorViews DEF Moves, Typed
<1>6. /\ E0' = E0
      /\ \A f \in Fillers : job'[f] = job[f]
      /\ \A d \in Collectors : d # c => job'[d] = job[d]
  BY <1>5, Members DEF OnlyJob, E0
<1>7. Closers' = {c}
  BY <1>4, <1>5, <1>6 DEF Closers, ClosingAt
<1>8. \A h : Holders(h)' = Holders(h)
  BY <1>2, <1>6, HoldersSame
<1>9. Holders(k) = {}
  BY <1>2, <1>3, HoldersFinite DEF TableInv, WordIs
<1>10. \A h \in Handles : word'[h].closed => Holders(h)' = {}
  BY <1>3, <1>8, <1>9 DEF WordIs, ClaimInv
<1>11. Current(c)' /\ word'[job'[c].handle].closed
  BY <1>1, <1>2, <1>3, <1>5 DEF Current, SameTarget, WordIs
<1>12. \A p \in Resident' : word'[entry'[p]].closed => job'[c].page = p
  <2> SUFFICES ASSUME NEW p \in Resident', word'[entry'[p]].closed
               PROVE  job'[c].page = p
    OBVIOUS
  <2>1. p \in Resident /\ p \in Pages /\ entry[p] \in Handles /\ entry[p] # 0
    BY <1>2, EntryHandle DEF Resident
  <2>2. entry[p] = k
    BY <1>2, <1>3, <1>4, <2>1 DEF WordIs
  <2>3. job[c].page \in Pages /\ entry[job[c].page] = k
    BY <1>1, <1>2, Members DEF Current, Typed, JobsTyped, JobRec
  <2> QED BY <1>5, <2>1, <2>2, <2>3 DEF TableInv, SameTarget
<1>13. \A h \in 1..handles' : (\A p \in Pages : entry'[p] # h) => word'[h].closed
  <2>1. 1..handles \subseteq Handles
    BY ConstantsAssumption DEF Typed, StoreTyped, RestTyped, Handles
  <2> QED BY <1>2, <1>3, <2>1 DEF ClaimInv, WordIs
<1> QED BY <1>4, <1>6, <1>7, <1>10, <1>11, <1>12, <1>13 DEF ClaimInv, EvictAt

(* A collector that has closed a page, and is about to end or to take the  *)
(* page out of the table, is the only claim there is.                      *)
LEMMA ClaimAbort ==
  ASSUME Typed, GateInv, TableInv, ClaimInv, NEW c \in Collectors, UnlinkFails(c)
  PROVE  ClaimInv'
<1>1. PICK k : k = job[c].handle
  OBVIOUS
<1>2. /\ job[c].at = "claimed" /\ UNCHANGED <<entry, selection, handles, rd>>
  BY DEF UnlinkFails, tableVars
<1>3. c \in Closers /\ Current(c)
  BY <1>2 DEF ClaimInv, Closers
<1>4. WordIs(k, word[k].readers, job[c].reason + 1, FALSE, word[k].accessed)
  BY <1>1, <1>3, CollectorWords
<1>5. /\ Closers = {c} /\ E0.at \notin EvictAt /\ E0.claimed = {}
      /\ \A d \in Collectors : d # c => job[d].at \notin ClosingAt
  BY <1>2, <1>3, CollectorAlone DEF InGate
<1>6. OnlyJob(c) /\ job'[c].at = "idle"
  BY CollectorViews, NoJobFields DEF Ends, Typed
<1>7. /\ E0' = E0
      /\ \A f \in Fillers : job'[f] = job[f]
      /\ \A d \in Collectors : d # c => job'[d] = job[d]
  BY <1>6, Members DEF OnlyJob, E0
<1>8. Closers' = {}
  BY <1>5, <1>6, <1>7 DEF Closers, ClosingAt
<1>9. \A h : Holders(h)' = Holders(h)
  BY <1>2, <1>7, HoldersSame
<1>10. \A h \in Handles : word'[h].closed => h # k /\ word[h].closed
  BY <1>4 DEF WordIs
<1>11. job[c].page \in Pages /\ entry[job[c].page] = k
  BY <1>1, <1>3, Members DEF Current, Typed, JobsTyped, JobRec
<1>12. \A p \in Resident' : ~word'[entry'[p]].closed
  <2>1. \A p \in Resident' : p \in Resident /\ entry'[p] = entry[p] /\ entry[p] \in Handles
    BY <1>2, EntryHandle DEF Resident
  <2>2. \A p \in Resident : word[entry[p]].closed => p = job[c].page
    BY <1>5 DEF ClaimInv
  <2> QED BY <1>10, <1>11, <2>1, <2>2
<1>13. \A h \in 1..handles' : (\A p \in Pages : entry'[p] # h) => word'[h].closed
  <2>1. 1..handles \subseteq Handles
    BY ConstantsAssumption DEF Typed, StoreTyped, RestTyped, Handles
  <2> QED BY <1>2, <1>4, <1>11, <2>1 DEF ClaimInv, WordIs
<1> QED BY <1>5, <1>7, <1>8, <1>9, <1>10, <1>12, <1>13 DEF ClaimInv, EvictAt

(* The end of a collector's deletion keeps ClaimInv.                       *)
LEMMA ClaimFinish ==
  ASSUME Typed, GateInv, TableInv, ClaimInv, NEW c \in Collectors, Finish(c)
  PROVE  ClaimInv'
<1>1. PICK k : k = job[c].handle
  OBVIOUS
<1>2. job[c].at = "cleared" /\ UNCHANGED <<word, handles, rd>>
  BY DEF Finish
<1>3. c \in Closers /\ Current(c) /\ word[k].closed
  BY <1>1, <1>2 DEF ClaimInv, Closers
<1>4. entry' = [entry EXCEPT ![job[c].page] = 0]
  BY <1>1, <1>3 DEF Finish
<1>5. /\ Closers = {c} /\ E0.at \notin EvictAt /\ E0.claimed = {}
      /\ \A d \in Collectors : d # c => job[d].at \notin ClosingAt
  BY <1>2, <1>3, CollectorAlone DEF InGate
<1>6. OnlyJob(c) /\ job'[c].at = "finished"
  BY CollectorViews DEF Moves, Typed
<1>7. /\ E0' = E0
      /\ \A f \in Fillers : job'[f] = job[f]
      /\ \A d \in Collectors : d # c => job'[d] = job[d]
  BY <1>6, Members DEF OnlyJob, E0
<1>8. Closers' = {}
  BY <1>5, <1>6, <1>7 DEF Closers, ClosingAt
<1>9. \A h : Holders(h)' = Holders(h)
  BY <1>2, <1>7, HoldersSame
<1>10. /\ job[c].page \in Pages /\ entry[job[c].page] = k
       /\ \A p \in Pages : entry'[p] = IF p = job[c].page THEN 0 ELSE entry[p]
  BY <1>1, <1>3, <1>4, Members
  DEF Current, Typed, JobsTyped, JobRec, StoreTyped, RestTyped
<1>11. \A p \in Resident' : ~word'[entry'[p]].closed
  <2>1. \A p \in Resident' : p \in Resident /\ p # job[c].page /\ entry'[p] = entry[p]
    BY <1>10 DEF Resident
  <2> QED BY <1>2, <1>5, <2>1 DEF ClaimInv
<1>12. \A h \in 1..handles' : (\A p \in Pages : entry'[p] # h) => word'[h].closed
  BY <1>2, <1>3, <1>10 DEF ClaimInv
<1> QED BY <1>2, <1>5, <1>7, <1>8, <1>9, <1>11, <1>12 DEF ClaimInv, EvictAt

(* The claim of a block.                                                   *)
LEMMA ClaimClaimNext ==
  ASSUME Typed, GateInv, TableInv, ClaimInv, NEW p \in Pages, ClaimNext(p)
  PROVE  ClaimInv'
<1>1. PICK k : k = entry[p]
  OBVIOUS
<1>2. /\ E0.at = "claiming" /\ word[k].readers = 0 /\ k # 0
      /\ UNCHANGED <<entry, selection, handles, rd>>
  BY <1>1 DEF ClaimNext, Resident, tableVars
<1>3. WordIs(k, word[k].readers, word[k].retry, TRUE, word[k].accessed)
  BY <1>1, ClaimNextWord
<1>4. Closers = {} /\ \A d \in Collectors : job[d].at \notin ClosingAt
  BY <1>2, EvictorAlone DEF EvictAt
<1>5. OnlyJob(Evictor) /\ E0'.at = "claiming" /\ E0'.claimed = E0.claimed \cup {k}
  BY <1>1, <1>2, ClaimNextView
<1>6. /\ \A f \in Fillers : job'[f] = job[f]
      /\ \A d \in Collectors : job'[d] = job[d]
  BY <1>5, Members DEF OnlyJob
<1>7. Closers' = {}
  BY <1>4, <1>6 DEF Closers, ClosingAt
<1>8. \A h : Holders(h)' = Holders(h)
  BY <1>2, <1>6, HoldersSame
<1>9. Holders(k) = {}
  BY <1>2, <1>3, HoldersFinite DEF TableInv, WordIs
<1>10. \A h \in Handles : word'[h].closed => Holders(h)' = {}
  BY <1>3, <1>8, <1>9 DEF WordIs, ClaimInv
<1>11. E0.claimed \subseteq Handles
  BY Members DEF E0, Typed, JobsTyped, JobRec
<1>12. \A h \in E0'.claimed : word'[h].closed /\ \E q \in Pages : entry'[q] = h
  BY <1>1, <1>2, <1>3, <1>5, <1>11 DEF ClaimInv, WordIs
<1>13. \A q \in Resident' : word'[entry'[q]].closed => entry'[q] \in E0'.claimed
  <2>1. \A q \in Resident' : q \in Resident /\ entry'[q] = entry[q] /\ entry[q] \in Handles
    BY <1>2, EntryHandle DEF Resident
  <2> QED BY <1>3, <1>4, <1>5, <2>1 DEF WordIs, ClaimInv
<1>14. \A h \in 1..handles' : (\A q \in Pages : entry'[q] # h) => word'[h].closed
  <2>1. 1..handles \subseteq Handles
    BY ConstantsAssumption DEF Typed, StoreTyped, RestTyped, Handles
  <2> QED BY <1>2, <1>3, <2>1 DEF ClaimInv, WordIs
<1> QED BY <1>5, <1>7, <1>10, <1>12, <1>13, <1>14 DEF ClaimInv

(* The evictor's last claim keeps ClaimInv.                                *)
LEMMA ClaimClaimedAll ==
  ASSUME Typed, GateInv, TableInv, ClaimInv, ClaimedAll
  PROVE  ClaimInv'
<1>1. /\ E0.at = "claiming" /\ E0.claimed = {entry[p] : p \in Resident}
      /\ UNCHANGED <<word, entry, selection, handles, rd>>
  BY DEF ClaimedAll, tableVars
<1>2. Closers = {}
  BY <1>1, EvictorAlone DEF EvictAt
<1>3. OnlyJob(Evictor) /\ E0'.at = "claimed" /\ E0'.claimed = E0.claimed
  BY EvictorViews DEF Moves, SameTarget, Typed, E0
<1>4. /\ \A f \in Fillers : job'[f] = job[f]
      /\ \A d \in Collectors : job'[d] = job[d]
  BY <1>3, Members DEF OnlyJob
<1>5. Closers' = {}
  BY <1>2, <1>4 DEF Closers
<1>6. \A h : Holders(h)' = Holders(h)
  BY <1>1, <1>4, HoldersSame
<1>7. Resident' = Resident
  BY <1>1 DEF Resident
<1> QED BY <1>1, <1>2, <1>3, <1>5, <1>6, <1>7 DEF ClaimInv

(* A claim that is given up opens its pages again and keeps ClaimInv.      *)
LEMMA ClaimDropped ==
  ASSUME Typed, GateInv, TableInv, ClaimInv, DropClaim \/ DeleteFails
  PROVE  ClaimInv'
<1>1. E0.at \in EvictAt /\ Reopen /\ UNCHANGED <<entry, selection, handles, rd>>
  BY DEF DropClaim, DeleteFails, EvictAt, tableVars
<1>2. Closers = {} /\ \A d \in Collectors : job[d].at \notin ClosingAt
  BY <1>1, EvictorAlone
<1>3. OnlyJob(Evictor) /\ E0' = NoJob /\ E0'.at = "idle" /\ E0'.claimed = {}
  BY EvictorViews, NoJobFields DEF Ends, Typed, E0
<1>4. /\ \A f \in Fillers : job'[f] = job[f]
      /\ \A d \in Collectors : job'[d] = job[d]
  BY <1>3, Members DEF OnlyJob
<1>5. Closers' = {}
  BY <1>2, <1>4 DEF Closers
<1>6. \A h : Holders(h)' = Holders(h)
  BY <1>1, <1>4, HoldersSame
<1>7. \A h \in Handles : /\ word'[h].closed => word[h].closed /\ h \notin E0.claimed
                         /\ h \notin E0.claimed => word'[h] = word[h]
  BY <1>1, ReopenWords DEF Typed, StoreTyped
<1>8. \A p \in Resident' : ~word'[entry'[p]].closed
  <2>1. \A p \in Resident' : p \in Resident /\ entry'[p] = entry[p] /\ entry[p] \in Handles
    BY <1>1, EntryHandle DEF Resident
  <2> QED BY <1>2, <1>7, <2>1 DEF ClaimInv
<1>9. \A h \in 1..handles' : (\A p \in Pages : entry'[p] # h) => word'[h].closed
  <2>1. 1..handles \subseteq Handles
    BY ConstantsAssumption DEF Typed, StoreTyped, RestTyped, Handles
  <2> QED BY <1>1, <1>7, <2>1 DEF ClaimInv
<1> QED BY <1>3, <1>5, <1>6, <1>7, <1>8, <1>9 DEF ClaimInv

(* The end of a block's deletion keeps ClaimInv.                           *)
LEMMA ClaimFinishBlock ==
  ASSUME Typed, GateInv, TableInv, ClaimInv, FinishBlock
  PROVE  ClaimInv'
<1>1. /\ E0.at = "deleted" /\ entry' = [p \in Pages |-> 0]
      /\ UNCHANGED <<word, handles, rd>>
  BY DEF FinishBlock
<1>2. Closers = {}
  BY <1>1, EvictorAlone DEF EvictAt
<1>3. OnlyJob(Evictor) /\ E0' = NoJob /\ E0'.at = "idle" /\ E0'.claimed = {}
  BY EvictorViews, NoJobFields DEF Ends, Typed, E0
<1>4. /\ \A f \in Fillers : job'[f] = job[f]
      /\ \A d \in Collectors : job'[d] = job[d]
  BY <1>3, Members DEF OnlyJob
<1>5. Closers' = {}
  BY <1>2, <1>4 DEF Closers
<1>6. \A h : Holders(h)' = Holders(h)
  BY <1>1, <1>4, HoldersSame
<1>7. Resident' = {}
  BY <1>1 DEF Resident
<1>8. \A p \in Pages : entry[p] # 0 => word[entry[p]].closed
  BY <1>1 DEF ClaimInv, Resident
<1>9. \A h \in 1..handles' : word'[h].closed
  BY <1>1, <1>8 DEF ClaimInv
<1> QED BY <1>1, <1>3, <1>5, <1>6, <1>7, <1>9 DEF ClaimInv

(* A fill enters a page: its handle is new, or the page is open.           *)
LEMMA ClaimRegister ==
  ASSUME Typed, GateInv, TableInv, ClaimInv, NEW f \in Fillers, Register(f)
  PROVE  ClaimInv'
<1> DEFINE p == job[f].page
<1>1. PICK k : k = Registered(f)
  OBVIOUS
<1>2. p \in Pages /\ entry \in [Pages -> 0..handles] /\ handles \in Nat
  BY Members, ConstantsAssumption DEF Typed, JobsTyped, JobRec, StoreTyped, RestTyped
<1>3. /\ k \in Handles /\ job[f].at = "written"
      /\ entry' = [entry EXCEPT ![p] = k] /\ rd' = rd
      /\ handles' = IF entry[p] = 0 THEN k ELSE handles
      /\ k = IF entry[p] = 0 THEN handles + 1 ELSE entry[p]
  BY <1>1 DEF Register, Registered
<1>4. WordIs(k, word[k].readers, word[k].retry, word[k].closed, TRUE)
  BY <1>1, FillerWords
<1>5. \A h \in Handles : word'[h].closed = word[h].closed
  BY <1>4 DEF WordIs
<1>6. /\ Closers = {} /\ E0.claimed = {}
      /\ \A q \in Resident : ~word[entry[q]].closed
      /\ \A c \in Collectors : job[c].at \notin ClosingAt
      /\ E0.at \notin EvictAt
  BY <1>3, FillFindsOpen DEF InGate
<1>7. /\ job'[f].at = "registered"
      /\ \A x \in Procs : /\ SameTarget(job[x], job'[x])
                          /\ x # f => job'[x].at = job[x].at
  BY RegisterView
<1>8. /\ E0'.at = E0.at /\ E0'.claimed = {}
      /\ \A c \in Collectors : job'[c].at = job[c].at
  BY <1>6, <1>7, Members DEF E0, SameTarget
<1>9. Closers' = {}
  BY <1>6, <1>8 DEF Closers, ClosingAt
<1>10. \A h : Holders(h)' = Holders(h)
  BY <1>3, <1>7, HoldersSame, Members DEF SameTarget
<1>11. \A q \in Pages : entry'[q] = IF q = p THEN k ELSE entry[q]
  BY <1>2, <1>3
<1>12. entry[p] = 0 => ~word[k].closed
  BY <1>2, <1>3 DEF TableInv, Handles
<1>13. \A q \in Resident' : ~word'[entry'[q]].closed
  <2> SUFFICES ASSUME NEW q \in Resident' PROVE ~word'[entry'[q]].closed
    OBVIOUS
  <2>1. q \in Pages /\ entry'[q] # 0
    BY DEF Resident
  <2>2. CASE q = p /\ entry[p] = 0
    BY <1>3, <1>5, <1>11, <1>12, <2>1, <2>2
  <2>3. CASE ~(q = p /\ entry[p] = 0)
    <3>1. entry'[q] = entry[q] /\ q \in Resident /\ entry[q] \in Handles
      BY <1>3, <1>11, <2>1, <2>3, EntryHandle DEF Resident
    <3> QED BY <1>5, <1>6, <3>1
  <2> QED BY <2>2, <2>3
<1>14. \A h \in 1..handles' : (\A q \in Pages : entry'[q] # h) => word'[h].closed
  <2> SUFFICES ASSUME NEW h \in 1..handles', \A q \in Pages : entry'[q] # h
               PROVE  word'[h].closed
    OBVIOUS
  <2>1. h # k
    BY <1>2, <1>11
  <2>2. h \in 1..handles /\ h \in Handles
    <3>1. h \in 1..handles
      BY <1>2, <1>3, <2>1
    <3>2. handles \in 0..MaxHandles
      BY DEF Typed, StoreTyped, RestTyped
    <3> QED BY <3>1, <3>2, ConstantsAssumption DEF Handles
  <2>3. \A q \in Pages : entry[q] # h
    BY <1>3, <1>11, <2>2
  <2> QED BY <1>5, <2>2, <2>3 DEF ClaimInv
<1>15. \A h \in Handles : word'[h].closed => Holders(h)' = {}
  BY <1>5, <1>10 DEF ClaimInv
<1> QED BY <1>6, <1>8, <1>9, <1>13, <1>14, <1>15 DEF ClaimInv, EvictAt

(* A guard taken by a fill keeps ClaimInv.                                 *)
LEMMA ClaimProtect ==
  ASSUME Typed, GateInv, TableInv, ClaimInv, NEW f \in Fillers, ProtectPage(f)
  PROVE  ClaimInv'
<1>1. PICK k : k = entry[job[f].page]
  OBVIOUS
<1>2. job[f].at = "marked" /\ UNCHANGED <<entry, selection, handles, rd>>
  BY DEF ProtectPage, tableVars
<1>3. WordIs(k, word[k].readers + 1, word[k].retry, word[k].closed, word[k].accessed)
  BY <1>1, FillerWords
<1>4. /\ \A q \in Resident : ~word[entry[q]].closed
      /\ E0.claimed = {}
  BY <1>2, FillFindsOpen DEF InGate
<1>5. ~word[k].closed
  <2>1. job[f].page \in Pages /\ entry[job[f].page] # 0
    BY <1>2, Members DEF Typed, JobsTyped, JobRec, TableInv
  <2> QED BY <1>1, <1>4, <2>1 DEF Resident
<1>6. /\ OnlyJob(f) /\ job'[f].at = "guarding" /\ job'[f].handle = k
  BY <1>1, ProtectView
<1>7. /\ E0' = E0 /\ \A c \in Collectors : job'[c] = job[c]
      /\ \A g \in Fillers : g # f => job'[g] = job[g]
  BY <1>6, Members DEF OnlyJob, E0
<1>8. \A h : h # k => Holders(h)' = Holders(h)
  BY <1>2, <1>6, <1>7 DEF Holders
<1>9. \A h \in Handles : /\ word'[h].closed = word[h].closed
                         /\ word[h].closed => Holders(h)' = {}
  BY <1>3, <1>5, <1>8 DEF WordIs, ClaimInv
<1> QED BY <1>2, <1>4, <1>7, <1>9, ClaimFrame

(* Steps that change no claim.                                             *)
LEMMA ClaimKept ==
  ASSUME Typed, TableInv, ClaimInv, NEW x \in Procs, OnlyJob(x),
         UNCHANGED <<entry, handles, rd>>,
         \A h \in Handles : word'[h].closed = word[h].closed,
         \A p \in Resident : word[entry[p]].closed => selection'[p] = selection[p],
         x \in Collectors => job[x].at \notin ClosingAt /\ job'[x].at \notin ClosingAt,
         x = Evictor => /\ job'[x].claimed = job[x].claimed
                        /\ job[x].claimed = {} \/ job'[x].at \in EvictAt
                        /\ job'[x].at \in {"claimed", "deleted"} =>
                             job[x].at \in {"claimed", "deleted"},
         x \in Fillers => /\ job[x].at # "guarding" => job'[x].at # "guarding"
                          /\ job'[x].at = "guarding" => job'[x].handle = job[x].handle
  PROVE  ClaimInv'
<1>1. \A y \in Procs : y # x => job'[y] = job[y]
  BY DEF OnlyJob
<1>2. \A h : Holders(h)' \subseteq Holders(h)
  BY <1>1, Members DEF Holders
<1>3. \A h \in Handles : word[h].closed => Holders(h)' = {}
  BY <1>2 DEF ClaimInv
<1>4. \A c \in Collectors :
        /\ job'[c].at \in ClosingAt <=> job[c].at \in ClosingAt
        /\ job[c].at \in ClosingAt =>
             /\ job'[c].page = job[c].page /\ job'[c].handle = job[c].handle
             /\ job'[c].sel = job[c].sel
             /\ selection'[job[c].page] = selection[job[c].page]
  <2> SUFFICES ASSUME NEW c \in Collectors
               PROVE  /\ job'[c].at \in ClosingAt <=> job[c].at \in ClosingAt
                      /\ job[c].at \in ClosingAt =>
                           /\ job'[c] = job[c]
                           /\ selection'[job[c].page] = selection[job[c].page]
    OBVIOUS
  <2>1. job'[c].at \in ClosingAt <=> job[c].at \in ClosingAt
    BY <1>1, Members
  <2>2. ASSUME job[c].at \in ClosingAt PROVE job'[c] = job[c]
    BY <1>1, <2>2, Members
  <2>3. ASSUME job[c].at \in ClosingAt
        PROVE  selection'[job[c].page] = selection[job[c].page]
    <3>1. Current(c) /\ word[job[c].handle].closed
      BY <2>3 DEF ClaimInv, Closers, ClosingAt
    <3>2. job[c].handle # 0 /\ job[c].page \in Pages
      BY <2>3, Members DEF Typed, JobsTyped, JobRec, ClosingAt
    <3> QED BY <3>1, <3>2 DEF Current, Resident
  <2> QED BY <2>1, <2>2, <2>3
<1>5. /\ E0'.claimed = E0.claimed
      /\ E0.claimed # {} => E0'.at \in EvictAt
      /\ E0'.at \in {"claimed", "deleted"} => E0.at \in {"claimed", "deleted"}
  BY <1>1, Members DEF E0, ClaimInv, EvictAt
<1> QED BY <1>3, <1>4, <1>5, ClaimFrame

(* Every step keeps ClaimInv: a closed resident page has its closer.       *)
LEMMA ClaimStep ==
  Typed /\ GateInv /\ TableInv /\ ClaimInv /\ [Next]_vars => ClaimInv'
<1> SUFFICES ASSUME Typed, GateInv, TableInv, ClaimInv, [Next]_vars
             PROVE  ClaimInv'
  OBVIOUS
<1>0. JobsTyped
  BY DEF Typed
<1> USE DEF tableVars
<1>1. ASSUME NEW r \in Readers, Reader(r) PROVE ClaimInv'
  <2>1. UNCHANGED <<entry, selection, handles>>
    BY <1>1 DEF Reader, Acquire, TouchPolicy, Touch, Release, Abandon
  <2>2. \A x \in Procs : job'[x].at = job[x].at /\ SameTarget(job[x], job'[x])
    <3>1. Told \/ job' = job
      BY <1>0, <1>1, ReaderViews DEF Reader, Touch, Abandon
    <3> QED BY <3>1 DEF Told, SameTarget
  <2>3. \A h \in Handles : word'[h].closed = word[h].closed
    <3>1. CASE TouchPolicy(r) \/ Touch(r)
      BY <3>1 DEF TouchPolicy, Touch
    <3> QED BY <1>1, <3>1, ReaderWords DEF Reader, WordIs
  <2>4. \A h \in Handles : word[h].closed => Holders(h)' = {}
    <3>1. ASSUME NEW p \in Pages, Acquire(r, p)
          PROVE  \A h \in Handles : word[h].closed => Holders(h)' = {}
      <4>1. /\ ~word[entry[p]].closed
            /\ rd' = [rd EXCEPT ![r] = [at |-> "acquired", page |-> p,
                                        handle |-> entry[p]]]
        BY <3>1 DEF Acquire
      <4>2. \A h : h # entry[p] => Holders(h)' \subseteq Holders(h)
        BY <2>2, <4>1, Members DEF Holders, SameTarget, Typed, StoreTyped, RestTyped
      <4> QED BY <4>1, <4>2 DEF ClaimInv
    <3>2. CASE TouchPolicy(r) \/ Touch(r) \/ Release(r) \/ Abandon(r)
      <4>1. \A q \in Readers : rd'[q].at # "idle" =>
              rd[q].at # "idle" /\ rd'[q].handle = rd[q].handle
        BY <3>2, NoJobFields
        DEF TouchPolicy, Touch, Release, Abandon, Typed, StoreTyped, RestTyped, ReadRec
      <4>2. \A h : Holders(h)' \subseteq Holders(h)
        BY <2>2, <4>1, Members DEF Holders, SameTarget
      <4> QED BY <4>2 DEF ClaimInv
    <3> QED BY <1>1, <3>1, <3>2 DEF Reader
  <2>5. \A c \in Collectors :
          /\ job'[c].at \in ClosingAt <=> job[c].at \in ClosingAt
          /\ job'[c].page = job[c].page /\ job'[c].handle = job[c].handle
          /\ job'[c].sel = job[c].sel
    BY <2>2, Members DEF SameTarget
  <2>6. E0'.claimed = E0.claimed /\ E0'.at = E0.at
    BY <2>2, Members DEF E0, SameTarget
  <2> QED BY <2>1, <2>3, <2>4, <2>5, <2>6, ClaimFrame DEF ClaimInv, EvictAt
<1>2. ASSUME NEW c \in Collectors, Collector(c) PROVE ClaimInv'
  <2>0. c \in Procs /\ c \notin Fillers /\ c # Evictor
    BY Members
  <2>1. ASSUME NEW p \in Pages, Candidate(c, p) \/ Scan(c, p) PROVE ClaimInv'
    <3>1. /\ OnlyJob(c) /\ job[c].at \notin ClosingAt /\ job'[c].at \notin ClosingAt
          /\ entry[p] # 0
      BY <2>1, CandidateView, ScanView DEF Selects, ClosingAt
    <3>2. /\ UNCHANGED <<entry, handles, rd>>
          /\ selection' = [selection EXCEPT ![p] = @ + 1]
          /\ ~word[entry[p]].closed
      BY <2>1 DEF Candidate, Scan, Select, Selectable
    <3>3. \A q \in Resident : word[entry[q]].closed => selection'[q] = selection[q]
      BY <3>2 DEF Typed, StoreTyped, RestTyped, Resident
    <3>4. \A h \in Handles : word'[h].closed = word[h].closed
      BY <2>1, CollectorWords DEF WordIs
    <3> QED BY <2>0, <3>1, <3>2, <3>3, <3>4, ClaimKept
  <2>2. CASE ScanEmpty(c)
    <3>1. UNCHANGED <<entry, handles, rd, word, selection>>
      BY <2>2 DEF ScanEmpty
    <3>2. OnlyJob(c) /\ job[c].at \notin ClosingAt /\ job'[c].at \notin ClosingAt
      BY <2>2, ScanEmptyView DEF ClosingAt
    <3> QED BY <2>0, <3>1, <3>2, ClaimKept
  <2>3. CASE LockPage(c) \/ LockSweep(c)
    <3>1. UNCHANGED <<entry, handles, rd, word, selection>>
          /\ job[c].at \in {"picked", "sweep"}
      BY <2>3 DEF LockPage, LockSweep, Lock
    <3>2. OnlyJob(c) /\ job[c].at \notin ClosingAt /\ job'[c].at \notin ClosingAt
      BY <1>0, <2>3, <3>1, CollectorViews DEF Moves, ClosingAt
    <3> QED BY <2>0, <3>1, <3>2, ClaimKept
  <2>4. CASE GiveUp(c) \/ Sweep(c) \/ SweepFails(c) \/ SkipSweep(c)
    <3>1. UNCHANGED <<entry, handles, rd, word, selection>>
          /\ job[c].at \in {"gated", "finished", "sweeping"}
      BY <2>4 DEF GiveUp, Sweep, SweepFails, SkipSweep, SweepAt
    <3>2. OnlyJob(c) /\ job[c].at \notin ClosingAt /\ job'[c].at \notin ClosingAt
      BY <1>0, <2>4, <3>1, CollectorViews, NoJobFields DEF Ends, ClosingAt
    <3> QED BY <2>0, <3>1, <3>2, ClaimKept
  <2>5. CASE Unlink(c) \/ ClearPage(c)
    <3>1. UNCHANGED <<entry, handles, rd, word, selection>>
          /\ job[c].at \in ClosingAt
      BY <2>5 DEF Unlink, ClearPage, ClosingAt
    <3>2. OnlyJob(c) /\ job'[c].at \in ClosingAt /\ SameTarget(job[c], job'[c])
      BY <1>0, <2>5, CollectorViews DEF Moves, ClosingAt
    <3>3. \A x \in Procs : x # c => job'[x] = job[x]
      BY <3>2 DEF OnlyJob
    <3>4. E0' = E0 /\ \A f \in Fillers : job'[f] = job[f]
      BY <2>0, <3>3, Members DEF E0
    <3>5. \A h : Holders(h)' = Holders(h)
      BY <3>1, <3>4, HoldersSame
    <3>6. \A h \in Handles : word[h].closed => Holders(h)' = {}
      BY <3>5 DEF ClaimInv
    <3>7. \A d \in Collectors :
            /\ job'[d].at \in ClosingAt <=> job[d].at \in ClosingAt
            /\ job'[d].page = job[d].page /\ job'[d].handle = job[d].handle
            /\ job'[d].sel = job[d].sel
      BY <3>1, <3>2, <3>3, Members DEF SameTarget
    <3> QED BY <3>1, <3>4, <3>6, <3>7, ClaimFrame DEF ClaimInv, EvictAt
  <2> QED BY <1>2, <2>1, <2>2, <2>3, <2>4, <2>5, ClaimClaim, ClaimAbort,
             ClaimFinish DEF Collector
<1>3. CASE BlockEvictor
  <2>0. Evictor \in Procs /\ Evictor \notin Fillers /\ Evictor \notin Collectors
    BY Members, ConstantsAssumption
  <2>1. CASE ChooseBlock \/ ObtainBlock \/ LockBlock \/ DeleteBlock
    <3>1. UNCHANGED <<entry, handles, rd, word, selection>>
      BY <2>1 DEF ChooseBlock, ObtainBlock, LockBlock, Lock, DeleteBlock
    <3>2. /\ OnlyJob(Evictor) /\ job'[Evictor].claimed = job[Evictor].claimed
          /\ job'[Evictor].at \in {"claimed", "deleted"} =>
               job[Evictor].at \in {"claimed", "deleted"}
          /\ job[Evictor].claimed = {} \/ job'[Evictor].at \in EvictAt
      <4>1. CASE ChooseBlock
        <5>1. /\ OnlyJob(Evictor) /\ E0'.claimed = E0.claimed /\ E0'.at = "chosen"
              /\ E0.at = "idle"
          BY <1>0, <4>1, EvictorChooses DEF ChooseBlock, SameTarget
        <5> QED BY <5>1 DEF E0, ClaimInv
      <4>2. CASE ObtainBlock
        <5>1. /\ OnlyJob(Evictor) /\ E0'.claimed = E0.claimed /\ E0'.at = "waiting"
              /\ E0.at = "chosen"
          BY <4>2, ObtainBlockView DEF ObtainBlock
        <5> QED BY <5>1 DEF E0, ClaimInv
      <4>3. CASE LockBlock
        <5>1. Moves(Evictor, "claiming")
          BY <1>0, <4>3, EvictorViews
        <5> QED BY <5>1 DEF Moves, SameTarget, EvictAt
      <4>4. CASE DeleteBlock
        <5>1. Moves(Evictor, "deleted") /\ E0.at = "claimed"
          BY <1>0, <4>4, EvictorViews DEF DeleteBlock
        <5> QED BY <5>1 DEF Moves, SameTarget, EvictAt, E0
      <4> QED BY <2>1, <4>1, <4>2, <4>3, <4>4
    <3> QED BY <2>0, <3>1, <3>2, ClaimKept
  <2> QED BY <1>3, <2>1, ClaimClaimNext, ClaimClaimedAll, ClaimDropped,
             ClaimFinishBlock DEF BlockEvictor
<1>4. ASSUME NEW f \in Fillers, Filler(f) PROVE ClaimInv'
  <2>0. f \in Procs /\ f \notin Collectors /\ f # Evictor
    BY Members
  <2>1. CASE \/ \E p \in Pages : StartFill(f, p)
             \/ LockFill(f) \/ WriteFile(f) \/ WriteFails(f)
    <3>1. UNCHANGED <<entry, handles, rd, word, selection>>
      BY <2>1 DEF StartFill, LockFill, WriteFile, WriteFails
    <3>2. OnlyJob(f) /\ job'[f].at # "guarding"
      BY <1>0, <2>1, FillerViews, StartFillView, NoJobFields DEF Moves, Ends
    <3> QED BY <2>0, <3>1, <3>2, ClaimKept
  <2>2. CASE EndFill(f)
    <3>1. UNCHANGED <<entry, handles, rd, selection>>
      BY <2>2 DEF EndFill
    <3>2. OnlyJob(f) /\ job'[f].at # "guarding"
      BY <1>0, <2>2, FillerViews, NoJobFields DEF Ends
    <3>3. \A h \in Handles : word'[h].closed = word[h].closed
      BY <2>2, FillerWords DEF WordIs
    <3> QED BY <2>0, <3>1, <3>2, <3>3, ClaimKept
  <2>3. CASE MarkPage(f)
    <3>1. UNCHANGED <<entry, handles, rd, word, selection>>
          /\ job[f].at = "registered"
      BY <2>3 DEF MarkPage
    <3>2. /\ job'[f].at = "marked"
          /\ \A x \in Procs : x # f =>
               job'[x].at = job[x].at /\ SameTarget(job[x], job'[x])
      BY <1>0, <2>3, FillMarks DEF MarkPage
    <3>3. E0'.at = E0.at /\ E0'.claimed = E0.claimed
      BY <2>0, <3>2, Members DEF E0, SameTarget
    <3>4. \A h : Holders(h)' \subseteq Holders(h)
      BY <3>1, <3>2, Members DEF Holders, SameTarget
    <3>5. \A h \in Handles : word[h].closed => Holders(h)' = {}
      BY <3>4 DEF ClaimInv
    <3>6. \A d \in Collectors :
            /\ job'[d].at \in ClosingAt <=> job[d].at \in ClosingAt
            /\ job'[d].page = job[d].page /\ job'[d].handle = job[d].handle
            /\ job'[d].sel = job[d].sel
      BY <2>0, <3>2, Members DEF SameTarget
    <3> QED BY <3>1, <3>3, <3>5, <3>6, ClaimFrame DEF ClaimInv, EvictAt
  <2> QED BY <1>4, <2>1, <2>2, <2>3, ClaimRegister, ClaimProtect DEF Filler
<1>5. CASE \/ \E p \in Pages : ScanPast(p)
           \/ \E h \in Handles : Age(h)
           \/ Retire
           \/ UNCHANGED vars
  <2>1. UNCHANGED <<entry, selection, handles, word, rd, job>>
    BY <1>5 DEF ScanPast, Age, Retire, vars
  <2>2. OnlyJob(Evictor) /\ E0' = E0
    BY <1>0, <2>1 DEF OnlyJob, JobsTyped, E0
  <2>3. \A h : Holders(h)' = Holders(h)
    BY <2>1 DEF Holders
  <2>4. \A h \in Handles : word[h].closed => Holders(h)' = {}
    BY <2>3 DEF ClaimInv
  <2> QED BY <2>1, <2>2, <2>4, ClaimFrame DEF ClaimInv, EvictAt
<1> QED BY <1>1, <1>2, <1>3, <1>4, <1>5 DEF Next

-----------------------------------------------------------------------------
(* Files.                                                                  *)

HasFile == {"written", "registered", "marked"}

(* A step that adds no resident page and removes no file keeps FileInv.    *)
LEMMA FileKept ==
  ASSUME FileInv, resident' \subseteq resident,
         \A p \in resident' : entry'[p] # 0 => entry[p] # 0,
         file \cup torn \subseteq file' \cup torn',
         E0.at = "deleted" => E0'.at = "deleted",
         \A c \in Collectors : job[c].at = "unlinked" =>
           \/ job'[c].at = "unlinked" /\ job'[c].page = job[c].page
           \/ job[c].page \notin resident',
         \A f \in Fillers : job'[f].at \in HasFile =>
           job[f].at \in HasFile /\ job'[f].page = job[f].page,
         \/ file \subseteq file'
         \/ \A f \in Fillers : job[f].at \notin HasFile
  PROVE  FileInv'
<1>1. \A p \in resident' : entry'[p] # 0 =>
        \/ p \in file' \cup torn'
        \/ E0'.at = "deleted"
        \/ \E c \in Collectors : job'[c].at = "unlinked" /\ job'[c].page = p
  BY DEF FileInv
<1>2. \A f \in Fillers : job'[f].at \in {"written", "registered", "marked"} =>
        job'[f].page \in file'
  BY DEF FileInv, HasFile
<1> QED BY <1>1, <1>2 DEF FileInv

(* No page is in the table, so that none can be read.                      *)
LEMMA FileEmpty ==
  ASSUME \A p \in Pages : entry'[p] = 0, resident' \subseteq Pages,
         \A f \in Fillers : job'[f].at \notin HasFile
  PROVE  FileInv'
BY DEF FileInv, HasFile

(* Every step keeps FileInv: a resident page has its file until it is      *)
(* deleted.                                                                *)
LEMMA FileStep ==
  Typed /\ GateInv /\ FileInv /\ [Next]_vars => FileInv'
<1> SUFFICES ASSUME Typed, GateInv, FileInv, [Next]_vars
             PROVE  FileInv'
  OBVIOUS
<1>0. JobsTyped
  BY DEF Typed
<1> USE DEF tableVars
<1>1. ASSUME NEW r \in Readers, Reader(r) PROVE FileInv'
  <2>1. UNCHANGED <<entry, resident, file, torn>>
    BY <1>1 DEF Reader, Acquire, TouchPolicy, Touch, Release, Abandon
  <2>2. \A x \in Procs : job'[x].at = job[x].at /\ job'[x].page = job[x].page
    <3>1. Told \/ job' = job
      BY <1>0, <1>1, ReaderViews DEF Reader, Touch, Abandon
    <3> QED BY <3>1 DEF Told, SameTarget
  <2> QED BY <2>1, <2>2, FileKept, Members DEF E0
<1>2. ASSUME NEW c \in Collectors, Collector(c) PROVE FileInv'
  <2>0. c \in Procs /\ c \notin Fillers /\ c # Evictor
    BY Members
  <2>1. OnlyJob(c) => /\ E0' = E0 /\ \A f \in Fillers : job'[f] = job[f]
                      /\ \A d \in Collectors : d # c => job'[d] = job[d]
    BY <2>0, Members DEF OnlyJob, E0
  <2>2. job[c].at \in InGate => \A f \in Fillers : job[f].at \notin HasFile
    BY <2>0, AloneInGate DEF InGate, HasFile
  <2>3. ASSUME NEW p \in Pages, Candidate(c, p) \/ Scan(c, p) PROVE FileInv'
    <3>1. OnlyJob(c) /\ job[c].at = "idle"
      BY <2>3, CandidateView, ScanView DEF Selects
    <3>2. UNCHANGED <<entry, resident, file, torn>>
      BY <2>3 DEF Candidate, Scan, Select
    <3> QED BY <2>1, <3>1, <3>2, FileKept
  <2>4. CASE ScanEmpty(c)
    <3>1. UNCHANGED <<entry, resident, file, torn>>
      BY <2>4 DEF ScanEmpty
    <3> QED BY <2>1, <2>4, <3>1, ScanEmptyView, FileKept
  <2>5. CASE LockPage(c) \/ LockSweep(c) \/ Claim(c)
    <3>1. UNCHANGED <<entry, resident, file, torn>> /\ job[c].at # "unlinked"
      BY <2>5 DEF LockPage, LockSweep, Lock, Claim
    <3>2. OnlyJob(c)
      BY <1>0, <2>5, CollectorViews DEF Moves
    <3> QED BY <2>1, <3>1, <3>2, FileKept
  <2>6. CASE GiveUp(c) \/ UnlinkFails(c) \/ SkipSweep(c)
    <3>1. UNCHANGED <<entry, resident, file, torn>> /\ job[c].at # "unlinked"
      BY <2>6 DEF GiveUp, UnlinkFails, SkipSweep, SweepAt
    <3>2. OnlyJob(c)
      BY <1>0, <2>6, CollectorViews DEF Ends
    <3> QED BY <2>1, <3>1, <3>2, FileKept
  <2>7. CASE Unlink(c)
    <3>1. /\ UNCHANGED <<entry, resident, torn>> /\ job[c].at = "claimed"
          /\ file' = file \ {job[c].page}
      BY <2>7 DEF Unlink
    <3>2. /\ OnlyJob(c) /\ job'[c].at = "unlinked" /\ job'[c].page = job[c].page
      BY <1>0, <2>7, CollectorViews DEF Moves, SameTarget
    <3>3. \A f \in Fillers : job[f].at \notin HasFile /\ job'[f] = job[f]
      BY <2>1, <2>2, <3>1, <3>2 DEF InGate
    <3>4. \A d \in Collectors : job[d].at = "unlinked" => job'[d] = job[d]
      BY <2>1, <3>1, <3>2
    <3>5. \A p \in resident' : entry'[p] # 0 =>
            \/ p \in file' \cup torn'
            \/ E0'.at = "deleted"
            \/ \E d \in Collectors : job'[d].at = "unlinked" /\ job'[d].page = p
      BY <2>1, <3>1, <3>2, <3>4 DEF FileInv
    <3> QED BY <3>3, <3>5 DEF FileInv, HasFile
  <2>8. CASE ClearPage(c)
    <3>1. /\ UNCHANGED <<entry, file, torn>>
          /\ resident' = resident \ {job[c].page}
      BY <2>8 DEF ClearPage
    <3>2. OnlyJob(c)
      BY <1>0, <2>8, CollectorViews DEF Moves
    <3> QED BY <2>1, <3>1, <3>2, FileKept
  <2>9. CASE Finish(c)
    <3>1. UNCHANGED <<resident, file, torn>> /\ job[c].at = "cleared"
      BY <2>9 DEF Finish
    <3>2. OnlyJob(c)
      BY <1>0, <2>9, CollectorViews DEF Moves
    <3>3. \A p \in Pages : entry'[p] # 0 => entry[p] # 0
      BY <2>9 DEF Finish, Typed, StoreTyped, RestTyped
    <3>4. resident \subseteq Pages
      BY DEF Typed, StoreTyped, RestTyped
    <3> QED BY <2>1, <3>1, <3>2, <3>3, <3>4, FileKept
  <2>10. CASE Sweep(c) \/ SweepFails(c)
    <3>1. /\ Resident = {} /\ entry' = entry /\ job[c].at \in InGate
          /\ resident' \subseteq resident
      BY <2>10 DEF Sweep, SweepFails, SweepAt, InGate
    <3>2. OnlyJob(c)
      BY <1>0, <2>10, CollectorViews DEF Ends
    <3>3. \A p \in Pages : entry'[p] = 0
      BY <3>1 DEF Resident
    <3>4. resident \subseteq Pages
      BY DEF Typed, StoreTyped, RestTyped
    <3> QED BY <2>1, <2>2, <3>1, <3>2, <3>3, <3>4, FileEmpty
  <2> QED BY <1>2, <2>3, <2>4, <2>5, <2>6, <2>7, <2>8, <2>9, <2>10 DEF Collector
<1>3. CASE BlockEvictor
  <2>0. Evictor \in Procs /\ Evictor \notin Fillers /\ Evictor \notin Collectors
    BY Members, ConstantsAssumption
  <2>1. OnlyJob(Evictor) => /\ \A f \in Fillers : job'[f] = job[f]
                            /\ \A d \in Collectors : job'[d] = job[d]
    BY <2>0, Members DEF OnlyJob
  <2>2. E0.at \in InGate => \A f \in Fillers : job[f].at \notin HasFile
    BY <2>0, AloneInGate DEF InGate, HasFile, E0
  <2>3. CASE ChooseBlock \/ ObtainBlock \/ LockBlock \/ ClaimedAll \/ DropClaim
             \/ \E p \in Pages : ClaimNext(p)
    <3>1. UNCHANGED <<entry, resident, file, torn>> /\ E0.at # "deleted"
      BY <2>3 DEF ChooseBlock, ObtainBlock, LockBlock, Lock, ClaimedAll,
           DropClaim, ClaimNext, E0
    <3>2. OnlyJob(Evictor)
      <4>1. CASE ChooseBlock
        BY <1>0, <4>1, EvictorChooses DEF ChooseBlock
      <4> QED BY <1>0, <2>3, <4>1, EvictorViews, ObtainBlockView, ClaimNextView
              DEF Moves, Ends
    <3> QED BY <2>1, <3>1, <3>2, FileKept
  <2>4. CASE DeleteFails
    <3>1. /\ UNCHANGED <<entry, resident>> /\ E0.at = "claimed"
          /\ file \cup torn \subseteq file' \cup torn'
      BY <2>4 DEF DeleteFails, DropSome
    <3>2. OnlyJob(Evictor)
      BY <1>0, <2>4, EvictorViews DEF Ends
    <3> QED BY <2>1, <2>2, <3>1, <3>2, FileKept DEF InGate
  <2>5. CASE DeleteBlock
    <3>1. E0.at = "claimed"
      BY <2>5 DEF DeleteBlock
    <3>2. OnlyJob(Evictor) /\ E0'.at = "deleted"
      BY <1>0, <2>5, EvictorViews DEF Moves, E0
    <3> QED BY <2>1, <2>2, <3>1, <3>2 DEF FileInv, HasFile, InGate
  <2>6. CASE FinishBlock
    <3>1. /\ E0.at = "deleted" /\ entry' = [p \in Pages |-> 0] /\ resident' = {}
      BY <2>6 DEF FinishBlock
    <3>2. OnlyJob(Evictor)
      BY <1>0, <2>6, EvictorViews DEF Ends
    <3> QED BY <2>1, <2>2, <3>1, <3>2, FileEmpty DEF InGate
  <2> QED BY <1>3, <2>3, <2>4, <2>5, <2>6 DEF BlockEvictor
<1>4. ASSUME NEW f \in Fillers, Filler(f) PROVE FileInv'
  <2>0. f \in Procs /\ f \notin Collectors /\ f # Evictor /\ job[f].page \in Pages
    BY <1>0, Members DEF JobsTyped, JobRec
  <2>1. OnlyJob(f) => /\ E0' = E0 /\ \A d \in Collectors : job'[d] = job[d]
                      /\ \A g \in Fillers : g # f => job'[g] = job[g]
    BY <2>0, Members DEF OnlyJob, E0
  <2>2. CASE \/ \E p \in Pages : StartFill(f, p)
             \/ LockFill(f) \/ WriteFails(f) \/ ProtectPage(f) \/ EndFill(f)
    <3>1. UNCHANGED <<entry, resident, file, torn>>
      BY <2>2 DEF StartFill, LockFill, WriteFails, ProtectPage, EndFill
    <3>2. OnlyJob(f) /\ job'[f].at \notin HasFile
      BY <1>0, <2>2, FillerViews, StartFillView, ProtectView, NoJobFields
      DEF Moves, Ends, HasFile
    <3> QED BY <2>1, <3>1, <3>2, FileKept
  <2>3. CASE WriteFile(f)
    <3>1. /\ UNCHANGED <<entry, resident>>
          /\ file' = file \cup {job[f].page} /\ torn' = torn \ {job[f].page}
      BY <2>3 DEF WriteFile
    <3>2. OnlyJob(f) /\ job'[f].at = "written" /\ job'[f].page = job[f].page
      BY <1>0, <2>3, FillerViews DEF Moves, SameTarget
    <3>3. \A p \in resident' : entry'[p] # 0 =>
            \/ p \in file' \cup torn'
            \/ E0'.at = "deleted"
            \/ \E c \in Collectors : job'[c].at = "unlinked" /\ job'[c].page = p
      BY <2>1, <3>1, <3>2 DEF FileInv
    <3>4. \A g \in Fillers : job'[g].at \in HasFile => job'[g].page \in file'
      BY <2>1, <3>1, <3>2 DEF FileInv, HasFile
    <3> QED BY <3>3, <3>4 DEF FileInv, HasFile
  <2>4. CASE Register(f)
    <3>1. /\ UNCHANGED <<resident, file, torn>> /\ job[f].at = "written"
          /\ \E h : entry' = [entry EXCEPT ![job[f].page] = h]
      BY <2>4 DEF Register
    <3>2. /\ job'[f].at = "registered"
          /\ \A x \in Procs : /\ job'[x].page = job[x].page
                              /\ x # f => job'[x].at = job[x].at
      BY <2>4, RegisterView DEF SameTarget
    <3>3. \A p \in Pages : p # job[f].page => entry'[p] = entry[p]
      BY <3>1 DEF Typed, StoreTyped, RestTyped
    <3>4. job[f].page \in file /\ resident \subseteq Pages
      BY <3>1 DEF FileInv, Typed, StoreTyped, RestTyped
    <3>5. \A p \in resident' : entry'[p] # 0 =>
            \/ p \in file' \cup torn'
            \/ E0'.at = "deleted"
            \/ \E c \in Collectors : job'[c].at = "unlinked" /\ job'[c].page = p
      <4>1. E0'.at = E0.at
        BY <2>0, <3>2, Members DEF E0
      <4>2. \A c \in Collectors : job'[c].at = job[c].at /\ job'[c].page = job[c].page
        BY <2>0, <3>2, Members
      <4> QED BY <3>1, <3>3, <3>4, <4>1, <4>2 DEF FileInv
    <3>6. \A g \in Fillers : job'[g].at \in HasFile => job'[g].page \in file'
      BY <3>1, <3>2, <3>4, Members DEF FileInv, HasFile
    <3> QED BY <3>5, <3>6 DEF FileInv, HasFile
  <2>5. CASE MarkPage(f)
    <3>1. /\ UNCHANGED <<entry, file, torn>> /\ job[f].at = "registered"
          /\ resident' = resident \cup {job[f].page}
      BY <2>5 DEF MarkPage
    <3>2. /\ job'[f].at = "marked"
          /\ \A x \in Procs : /\ job'[x].page = job[x].page
                              /\ x # f => job'[x].at = job[x].at
      BY <1>0, <2>5, FillMarks DEF MarkPage, SameTarget
    <3>3. job[f].page \in file
      BY <3>1 DEF FileInv
    <3>4. \A p \in resident' : entry'[p] # 0 =>
            \/ p \in file' \cup torn'
            \/ E0'.at = "deleted"
            \/ \E c \in Collectors : job'[c].at = "unlinked" /\ job'[c].page = p
      <4>1. E0'.at = E0.at
        BY <2>0, <3>2, Members DEF E0
      <4>2. \A c \in Collectors : job'[c].at = job[c].at /\ job'[c].page = job[c].page
        BY <2>0, <3>2, Members
      <4> QED BY <3>1, <3>3, <4>1, <4>2 DEF FileInv
    <3>5. \A g \in Fillers : job'[g].at \in HasFile => job'[g].page \in file'
      BY <3>1, <3>2, <3>3, Members DEF FileInv, HasFile
    <3> QED BY <3>4, <3>5 DEF FileInv, HasFile
  <2> QED BY <1>4, <2>2, <2>3, <2>4, <2>5 DEF Filler
<1>5. CASE \/ \E p \in Pages : ScanPast(p)
           \/ \E h \in Handles : Age(h)
           \/ Retire
           \/ UNCHANGED vars
  <2>1. UNCHANGED <<entry, resident, file, torn, job>>
    BY <1>5 DEF ScanPast, Age, Retire, vars
  <2> QED BY <2>1, FileKept DEF E0
<1> QED BY <1>1, <1>2, <1>3, <1>4, <1>5 DEF Next


-----------------------------------------------------------------------------
(* Stale candidates.                                                       *)

ChosenAt == {"picked", "gated"}

(* A collector that chose a page has a handle that was handed out.         *)
LEMMA CandidateHandle ==
  ASSUME Typed, NEW c \in Collectors, job[c].at \in ChosenAt \cup {"claimed"}
  PROVE  /\ job[c].handle \in Handles /\ job[c].handle \in 1..handles
         /\ job[c].page \in Pages /\ job[c].sel \in Nat
<1>1. job[c].handle \in 1..handles
  BY DEF Typed, JobsTyped, ChosenAt
<1>2. job[c].page \in Pages /\ job[c].sel \in Nat
  BY Members DEF Typed, JobsTyped, JobRec
<1>3. handles \in 0..MaxHandles
  BY DEF Typed, StoreTyped, RestTyped
<1> QED BY <1>1, <1>2, <1>3, ConstantsAssumption DEF Handles

(* No candidate is new, and no access bit is cleared.                      *)
LEMMA CandidateKept ==
  ASSUME Typed, CandidateInv, entry' = entry, selection' = selection,
         \A h \in Handles : word[h].accessed => word'[h].accessed,
         \A c \in Collectors :
           /\ job'[c].at \in ChosenAt =>
                /\ job[c].at \in ChosenAt /\ SameTarget(job[c], job'[c])
                /\ job'[c].used = job[c].used
           /\ job'[c].at = "claimed" =>
                job[c].at = "claimed" /\ job'[c].used = job[c].used
  PROVE  CandidateInv'
<1>1. ASSUME NEW c \in Collectors, job'[c].at \in ChosenAt
      PROVE  /\ job'[c].handle = entry'[job'[c].page] =>
                  job'[c].sel <= selection'[job'[c].page]
             /\ Current(c)' /\ job'[c].used => word'[job'[c].handle].accessed
  <2>1. job[c].handle \in Handles
    BY <1>1, CandidateHandle
  <2> QED BY <1>1, <2>1 DEF CandidateInv, Current, SameTarget, ChosenAt
<1>2. ASSUME NEW c \in Collectors, job'[c].at = "claimed" PROVE ~job'[c].used
  BY <1>2 DEF CandidateInv
<1> QED BY <1>1, <1>2 DEF CandidateInv, ChosenAt

(* The choice of a page keeps CandidateInv.                                *)
LEMMA CandidateSelect ==
  ASSUME Typed, TableInv, CandidateInv, NEW c \in Collectors, NEW p \in Pages,
         Candidate(c, p) \/ Scan(c, p)
  PROVE  CandidateInv'
<1>1. Selects(c, p) /\ entry[p] # 0
  BY CandidateView, ScanView
<1>2. entry' = entry /\ selection' = [selection EXCEPT ![p] = @ + 1]
  BY DEF Candidate, Scan, Select
<1>3. \A h \in Handles : h # entry[p] => word'[h] = word[h]
  BY CollectorWords DEF WordIs
<1>4. selection \in [Pages -> Nat]
  BY DEF Typed, StoreTyped, RestTyped
<1>5. \A d \in Collectors : d # c => job'[d] = job[d]
  BY <1>1, Members DEF Selects, OnlyJob
<1>6. ASSUME NEW d \in Collectors, job'[d].at \in ChosenAt
      PROVE  /\ job'[d].handle = entry'[job'[d].page] =>
                  job'[d].sel <= selection'[job'[d].page]
             /\ Current(d)' /\ job'[d].used => word'[job'[d].handle].accessed
  <2>1. CASE d = c
    <3>1. /\ job'[d].page = p /\ job'[d].sel = selection'[p] /\ ~job'[d].used
          /\ selection'[p] \in Nat
      BY <1>1, <1>2, <1>4, <2>1 DEF Selects
    <3> QED BY <3>1
  <2>2. CASE d # c
    <3>1. job'[d] = job[d] /\ job[d].at \in ChosenAt
      BY <1>5, <1>6, <2>2
    <3>2. job[d].handle \in Handles /\ job[d].page \in Pages /\ job[d].sel \in Nat
      BY <3>1, CandidateHandle
    <3>3. CASE job[d].page = p
      <4>1. selection'[p] = selection[p] + 1 /\ selection[p] \in Nat
        BY <1>2, <1>4
      <4>2. job[d].handle = entry[p] => job[d].sel <= selection[p]
        BY <3>1, <3>3 DEF CandidateInv, ChosenAt
      <4> QED BY <1>2, <3>1, <3>2, <3>3, <4>1, <4>2 DEF Current
    <3>4. CASE job[d].page # p
      <4>1. selection'[job[d].page] = selection[job[d].page]
        BY <1>2, <1>4, <3>2, <3>4
      <4>2. Current(d) => job[d].handle # entry[p]
        BY <1>1, <3>2, <3>4 DEF Current, TableInv
      <4> QED BY <1>2, <1>3, <3>1, <3>2, <4>1, <4>2
              DEF Current, CandidateInv, ChosenAt
    <3> QED BY <3>3, <3>4
  <2> QED BY <2>1, <2>2
<1>7. ASSUME NEW d \in Collectors, job'[d].at = "claimed" PROVE ~job'[d].used
  BY <1>1, <1>5, <1>7 DEF CandidateInv, Selects
<1> QED BY <1>6, <1>7 DEF CandidateInv, ChosenAt

(* An entry that leaves the table, or is new, makes its candidates stale.  *)
LEMMA CandidateEntry ==
  ASSUME Typed, CandidateInv, NEW gone \in SUBSET Pages,
         \A p \in Pages : p \notin gone =>
           entry'[p] = entry[p] /\ selection'[p] = selection[p],
         \A p \in gone : entry'[p] \notin 1..handles,
         \A h \in Handles : word[h].accessed => word'[h].accessed,
         \A c \in Collectors :
           /\ job'[c].at \in ChosenAt =>
                /\ job[c].at \in ChosenAt /\ SameTarget(job[c], job'[c])
                /\ job[c].page \notin gone => job'[c].used = job[c].used
           /\ job'[c].at = "claimed" =>
                job[c].at = "claimed" /\ job'[c].used = job[c].used
  PROVE  CandidateInv'
<1>1. ASSUME NEW c \in Collectors, job'[c].at \in ChosenAt
      PROVE  /\ job'[c].handle = entry'[job'[c].page] =>
                  job'[c].sel <= selection'[job'[c].page]
             /\ Current(c)' /\ job'[c].used => word'[job'[c].handle].accessed
  <2>1. /\ job[c].handle \in Handles /\ job[c].handle \in 1..handles
        /\ job[c].page \in Pages /\ job[c].at \in ChosenAt
    BY <1>1, CandidateHandle
  <2>2. /\ job'[c].handle = job[c].handle /\ job'[c].page = job[c].page
        /\ job'[c].sel = job[c].sel
    BY <1>1 DEF SameTarget
  <2>3. CASE job[c].page \in gone
    BY <2>1, <2>2, <2>3 DEF Current
  <2>4. CASE job[c].page \notin gone
    BY <1>1, <2>1, <2>2, <2>4 DEF CandidateInv, Current, ChosenAt
  <2> QED BY <2>3, <2>4
<1>2. ASSUME NEW c \in Collectors, job'[c].at = "claimed" PROVE ~job'[c].used
  BY <1>2 DEF CandidateInv
<1> QED BY <1>1, <1>2 DEF CandidateInv, ChosenAt

(* A use of a page sets the access bit of its handle.                      *)
LEMMA CandidateUse ==
  ASSUME Typed, CandidateInv, NEW p \in Pages, NEW k,
         entry' = entry, selection' = selection, entry[p] = k,
         word'[k].accessed,
         \A h \in Handles : h # k => word'[h] = word[h],
         \A c \in Collectors :
           /\ job'[c].at = job[c].at /\ SameTarget(job[c], job'[c])
           /\ job[c].page # p => job'[c].used = job[c].used
           /\ job[c].at = "claimed" => job'[c].used = job[c].used
  PROVE  CandidateInv'
<1>1. ASSUME NEW c \in Collectors, job'[c].at \in ChosenAt
      PROVE  /\ job'[c].handle = entry'[job'[c].page] =>
                  job'[c].sel <= selection'[job'[c].page]
             /\ Current(c)' /\ job'[c].used => word'[job'[c].handle].accessed
  <2>1. job[c].handle \in Handles /\ job[c].page \in Pages /\ job[c].at \in ChosenAt
    BY <1>1, CandidateHandle
  <2>2. /\ job'[c].handle = job[c].handle /\ job'[c].page = job[c].page
        /\ job'[c].sel = job[c].sel
    BY <1>1 DEF SameTarget
  <2>3. job'[c].handle = entry'[job'[c].page] =>
          job'[c].sel <= selection'[job'[c].page]
    BY <2>1, <2>2 DEF CandidateInv, ChosenAt
  <2>4. ASSUME Current(c)', job'[c].used, job[c].handle # k
        PROVE  word'[job[c].handle].accessed
    <3>1. Current(c) /\ job[c].page # p
      BY <2>2, <2>4 DEF Current
    <3> QED BY <2>1, <2>2, <2>4, <3>1 DEF CandidateInv, ChosenAt
  <2> QED BY <2>2, <2>3, <2>4
<1>2. ASSUME NEW c \in Collectors, job'[c].at = "claimed" PROVE ~job'[c].used
  BY <1>2 DEF CandidateInv
<1> QED BY <1>1, <1>2 DEF CandidateInv, ChosenAt

(* The end of a read keeps CandidateInv: the access bit shows the use.     *)
LEMMA CandidateRelease ==
  ASSUME Typed, TableInv, ClaimInv, CandidateInv, NEW r \in Readers, Release(r)
  PROVE  CandidateInv'
<1>1. PICK k : k = rd[r].handle
  OBVIOUS
<1>2. PICK p : p = rd[r].page
  OBVIOUS
<1>3. /\ entry' = entry /\ selection' = selection /\ rd[r].at = "touched"
      /\ job' = Use(Collecting(p))
  BY <1>2 DEF Release, tableVars
<1>4. p \in Pages /\ entry[p] = k /\ k \in Handles /\ r \in Holders(k)
  BY <1>1, <1>2, <1>3, HeldEntry
<1>5. word'[k].accessed /\ \A h \in Handles : h # k => word'[h] = word[h]
  BY <1>1, <1>4, ReaderWords DEF WordIs
<1>6. /\ Told /\ \A x \in Procs : x \notin Collecting(p) => job'[x] = job[x]
  BY <1>3, JobsUsed DEF Typed
<1>7. ASSUME NEW c \in Collectors, job[c].at = "claimed"
      PROVE  c \notin Collecting(p)
  <2>1. Current(c) /\ word[job[c].handle].closed
    BY <1>7 DEF ClaimInv, Closers
  <2>2. ~word[k].closed
    BY <1>4 DEF ClaimInv
  <2> QED BY <1>4, <2>1, <2>2 DEF Current, Collecting
<1>8. \A c \in Collectors :
        /\ job'[c].at = job[c].at /\ SameTarget(job[c], job'[c])
        /\ job[c].page # p => job'[c].used = job[c].used
        /\ job[c].at = "claimed" => job'[c].used = job[c].used
  BY <1>6, <1>7, Members DEF Told, Collecting
<1> QED BY <1>3, <1>4, <1>5, <1>8, CandidateUse

(* A registration keeps CandidateInv: the access bit shows the use.        *)
LEMMA CandidateRegister ==
  ASSUME Typed, GateInv, TableInv, CandidateInv, NEW f \in Fillers, Register(f)
  PROVE  CandidateInv'
<1>1. PICK k : k = Registered(f)
  OBVIOUS
<1>2. PICK p : p = job[f].page
  OBVIOUS
<1>3. p \in Pages /\ entry \in [Pages -> 0..handles] /\ handles \in Nat
  BY <1>2, Members, ConstantsAssumption
  DEF Typed, JobsTyped, JobRec, StoreTyped, RestTyped
<1>4. /\ k \in Handles /\ job[f].at = "written"
      /\ entry' = [entry EXCEPT ![p] = k] /\ selection' = selection
      /\ k = IF entry[p] = 0 THEN handles + 1 ELSE entry[p]
  BY <1>1, <1>2 DEF Register, Registered
<1>5. word'[k].accessed /\ \A h \in Handles : h # k => word'[h] = word[h]
  BY <1>1, <1>4, FillerWords DEF WordIs
<1>6. \A c \in Collectors :
        /\ job'[c].at = job[c].at /\ SameTarget(job[c], job'[c])
        /\ job[c].page # p => job'[c].used = job[c].used
  <2>1. \A x \in Procs :
          /\ SameTarget(job[x], job'[x])
          /\ x # f => job'[x].at = job[x].at
          /\ x \notin Collecting(p) \cup Evicting => job'[x].used = job[x].used
    BY <1>2, RegisterView
  <2> QED BY <2>1, Members DEF Collecting, Evicting
<1>7. \A c \in Collectors : job[c].at # "claimed"
  BY <1>4, FillInGate DEF InGate
<1>8. CASE entry[p] = 0
  <2>1. \A q \in Pages : q \notin {p} =>
          entry'[q] = entry[q] /\ selection'[q] = selection[q]
    BY <1>3, <1>4
  <2>2. \A q \in {p} : entry'[q] \notin 1..handles
    BY <1>3, <1>4, <1>8
  <2>3. \A h \in Handles : word[h].accessed => word'[h].accessed
    BY <1>5
  <2>4. {p} \in SUBSET Pages
    BY <1>3
  <2> QED BY <1>6, <1>7, <2>1, <2>2, <2>3, <2>4, CandidateEntry
<1>9. CASE entry[p] # 0
  <2>1. entry' = entry /\ entry[p] = k
    BY <1>3, <1>4, <1>9
  <2> QED BY <1>3, <1>4, <1>5, <1>6, <1>7, <2>1, CandidateUse
<1> QED BY <1>8, <1>9

(* Every step keeps CandidateInv: a use after the choice is seen by the    *)
(* claim.                                                                  *)
LEMMA CandidateStep ==
  Typed /\ GateInv /\ TableInv /\ ClaimInv /\ CandidateInv /\ [Next]_vars
    => CandidateInv'
<1> SUFFICES ASSUME Typed, GateInv, TableInv, ClaimInv, CandidateInv, [Next]_vars
             PROVE  CandidateInv'
  OBVIOUS
<1>0. JobsTyped
  BY DEF Typed
<1> USE DEF tableVars
<1>1. ASSUME NEW r \in Readers, Reader(r) PROVE CandidateInv'
  <2>1. CASE Release(r)
    BY <2>1, CandidateRelease
  <2>2. CASE \/ \E p \in Pages : Acquire(r, p)
             \/ TouchPolicy(r) \/ Touch(r) \/ Abandon(r)
    <3>1. entry' = entry /\ selection' = selection
      BY <2>2 DEF Acquire, TouchPolicy, Touch, Abandon
    <3>2. \A h \in Handles : word'[h].accessed = word[h].accessed
      <4>1. CASE TouchPolicy(r) \/ Touch(r)
        BY <4>1 DEF TouchPolicy, Touch
      <4> QED BY <2>2, <4>1, ReaderWords DEF WordIs
    <3>3. \A c \in Collectors : job'[c] = job[c]
      <4>1. ASSUME NEW p \in Pages, Acquire(r, p)
            PROVE  \A c \in Collectors : job'[c] = job[c]
        <5>1. \A x \in Procs : x \notin Evicting => job'[x] = job[x]
          BY <1>0, <4>1, JobsUsed DEF Acquire
        <5> QED BY <5>1, Members DEF Evicting
      <4>2. CASE TouchPolicy(r)
        <5>1. OnlyJob(Evictor)
          BY <1>0, <4>2, EvictorDisturbed DEF TouchPolicy
        <5> QED BY <5>1, Members DEF OnlyJob
      <4>3. CASE Touch(r) \/ Abandon(r)
        BY <4>3 DEF Touch, Abandon
      <4> QED BY <2>2, <4>1, <4>2, <4>3
    <3> QED BY <3>1, <3>2, <3>3, CandidateKept DEF SameTarget
  <2> QED BY <1>1, <2>1, <2>2 DEF Reader
<1>2. ASSUME NEW c \in Collectors, Collector(c) PROVE CandidateInv'
  <2>0. c \in Procs
    BY Members
  <2>1. OnlyJob(c) => \A d \in Collectors : d # c => job'[d] = job[d]
    BY Members DEF OnlyJob
  <2>2. ASSUME NEW p \in Pages, Candidate(c, p) \/ Scan(c, p) PROVE CandidateInv'
    BY <2>2, CandidateSelect
  <2>3. CASE ScanEmpty(c)
    <3>1. UNCHANGED <<entry, selection, word>>
      BY <2>3 DEF ScanEmpty
    <3> QED BY <2>1, <2>3, <3>1, ScanEmptyView, CandidateKept DEF SameTarget, ChosenAt
  <2>4. CASE LockPage(c)
    <3>1. UNCHANGED <<entry, selection, word>> /\ job[c].at = "picked"
      BY <2>4 DEF LockPage, Lock
    <3>2. Moves(c, "gated")
      BY <1>0, <2>4, CollectorViews
    <3> QED BY <2>1, <3>1, <3>2, CandidateKept DEF Moves, SameTarget, ChosenAt
  <2>5. CASE Claim(c)
    <3>1. /\ UNCHANGED <<entry, selection>> /\ job[c].at = "gated"
          /\ Current(c) /\ ~word[job[c].handle].accessed
      BY <2>5 DEF Claim, Claimable
    <3>2. Moves(c, "claimed")
      BY <1>0, <2>5, CollectorViews
    <3>3. ~job[c].used /\ ~job'[c].used /\ job'[c].at = "claimed"
      BY <3>1, <3>2 DEF CandidateInv, Moves
    <3>4. \A h \in Handles : word'[h].accessed = word[h].accessed
      BY <2>5, CollectorWords DEF WordIs
    <3>5. \A d \in Collectors : d # c => job'[d] = job[d]
      BY <2>1, <3>2 DEF Moves
    <3>6. ASSUME NEW d \in Collectors, job'[d].at \in ChosenAt
          PROVE  /\ job'[d].handle = entry'[job'[d].page] =>
                      job'[d].sel <= selection'[job'[d].page]
                 /\ Current(d)' /\ job'[d].used => word'[job'[d].handle].accessed
      <4>1. job'[d] = job[d] /\ job[d].at \in ChosenAt
        BY <3>3, <3>5, <3>6 DEF ChosenAt
      <4>2. job[d].handle \in Handles
        BY <4>1, CandidateHandle
      <4> QED BY <3>1, <3>4, <4>1, <4>2 DEF CandidateInv, Current, ChosenAt
    <3>7. ASSUME NEW d \in Collectors, job'[d].at = "claimed" PROVE ~job'[d].used
      BY <3>3, <3>5, <3>7 DEF CandidateInv
    <3> QED BY <3>6, <3>7 DEF CandidateInv, ChosenAt
  <2>6. CASE Unlink(c) \/ ClearPage(c) \/ LockSweep(c)
    <3>1. UNCHANGED <<entry, selection, word>>
      BY <2>6 DEF Unlink, ClearPage, LockSweep, Lock
    <3>2. OnlyJob(c) /\ job'[c].at \in {"unlinked", "cleared", "sweeping"}
      BY <1>0, <2>6, CollectorViews DEF Moves
    <3> QED BY <2>1, <3>1, <3>2, CandidateKept DEF SameTarget, ChosenAt
  <2>7. CASE GiveUp(c) \/ UnlinkFails(c) \/ Sweep(c) \/ SweepFails(c) \/ SkipSweep(c)
    <3>1. UNCHANGED <<entry, selection>>
      BY <2>7 DEF GiveUp, UnlinkFails, Sweep, SweepFails, SkipSweep
    <3>2. \A h \in Handles : word'[h].accessed = word[h].accessed
      <4>1. CASE word' = word
        BY <4>1
      <4>2. CASE word' # word
        <5>1. UnlinkFails(c) /\ Current(c)
          BY <2>7, <4>2 DEF GiveUp, UnlinkFails, Sweep, SweepFails, SkipSweep
        <5> QED BY <5>1, CollectorWords DEF WordIs
      <4> QED BY <4>1, <4>2
    <3>3. OnlyJob(c) /\ job'[c].at = "idle"
      BY <1>0, <2>7, CollectorViews, NoJobFields DEF Ends
    <3> QED BY <2>1, <3>1, <3>2, <3>3, CandidateKept DEF SameTarget, ChosenAt
  <2>8. CASE Finish(c)
    <3>1. word' = word
      BY <2>8 DEF Finish
    <3>2. OnlyJob(c) /\ job'[c].at = "finished"
      BY <1>0, <2>8, CollectorViews DEF Moves
    <3>3. \A d \in Collectors : job'[d].at \in ChosenAt \cup {"claimed"} =>
            job'[d] = job[d]
      BY <2>1, <3>2 DEF ChosenAt
    <3>4. CASE entry' = entry /\ selection' = selection
      BY <3>1, <3>3, <3>4, CandidateKept DEF SameTarget
    <3>5. CASE /\ entry' = [entry EXCEPT ![job[c].page] = 0]
               /\ selection' = [selection EXCEPT ![job[c].page] = 0]
      <4>1. PICK p : p = job[c].page
        OBVIOUS
      <4>2. {p} \in SUBSET Pages
        BY <2>0, <4>1 DEF Typed, JobsTyped, JobRec
      <4>3. /\ \A q \in Pages : q \notin {p} =>
                 entry'[q] = entry[q] /\ selection'[q] = selection[q]
            /\ \A q \in {p} : entry'[q] \notin 1..handles
        BY <3>5, <4>1, <4>2 DEF Typed, StoreTyped, RestTyped
      <4> QED BY <3>1, <3>3, <4>2, <4>3, CandidateEntry DEF SameTarget
    <3> QED BY <2>8, <3>4, <3>5 DEF Finish
  <2> QED BY <1>2, <2>2, <2>3, <2>4, <2>5, <2>6, <2>7, <2>8 DEF Collector
<1>3. CASE BlockEvictor
  <2>1. OnlyJob(Evictor)
    <3>1. CASE ChooseBlock
      BY <1>0, <3>1, EvictorChooses DEF ChooseBlock
    <3> QED BY <1>0, <1>3, <3>1, EvictorViews, ObtainBlockView, ClaimNextView
            DEF BlockEvictor, Moves, Ends
  <2>2. \A d \in Collectors : job'[d] = job[d]
    BY <2>1, Members DEF OnlyJob
  <2>3. CASE FinishBlock
    <3>1. /\ word' = word
          /\ \A p \in Pages : p \notin Pages =>
               entry'[p] = entry[p] /\ selection'[p] = selection[p]
          /\ \A p \in Pages : entry'[p] \notin 1..handles
      BY <2>3 DEF FinishBlock
    <3> QED BY <2>2, <3>1, CandidateEntry DEF SameTarget
  <2>4. CASE \/ ChooseBlock \/ ObtainBlock \/ LockBlock \/ ClaimedAll \/ DeleteBlock
             \/ DropClaim \/ DeleteFails \/ \E p \in Pages : ClaimNext(p)
    <3>1. UNCHANGED <<entry, selection>>
      BY <2>4 DEF ChooseBlock, ObtainBlock, LockBlock, Lock, ClaimedAll,
           DeleteBlock, DropClaim, DeleteFails, ClaimNext
    <3>2. \A h \in Handles : word'[h].accessed = word[h].accessed
      <4>1. CASE word' = word
        BY <4>1
      <4>2. CASE DropClaim \/ DeleteFails
        <5>1. Reopen
          BY <4>2 DEF DropClaim, DeleteFails
        <5> QED BY <5>1, ReopenWords DEF Typed, StoreTyped
      <4>3. CASE \E p \in Pages : ClaimNext(p)
        BY <4>3, ClaimNextWord DEF WordIs
      <4> QED BY <2>4, <4>1, <4>2, <4>3
              DEF ChooseBlock, ObtainBlock, LockBlock, Lock, ClaimedAll, DeleteBlock
    <3> QED BY <2>2, <3>1, <3>2, CandidateKept DEF SameTarget
  <2> QED BY <1>3, <2>3, <2>4 DEF BlockEvictor
<1>4. ASSUME NEW f \in Fillers, Filler(f) PROVE CandidateInv'
  <2>1. CASE Register(f)
    BY <2>1, CandidateRegister
  <2>2. CASE MarkPage(f)
    <3>1. UNCHANGED <<entry, selection, word>>
      BY <2>2 DEF MarkPage
    <3>2. \A d \in Collectors : /\ job'[d].at = job[d].at
                                /\ SameTarget(job[d], job'[d])
                                /\ job'[d].used = job[d].used
      BY <1>0, <2>2, FillMarks, Members DEF MarkPage
    <3> QED BY <3>1, <3>2, CandidateKept
  <2>3. CASE \/ \E p \in Pages : StartFill(f, p)
             \/ LockFill(f) \/ WriteFile(f) \/ WriteFails(f) \/ ProtectPage(f)
             \/ EndFill(f)
    <3>1. UNCHANGED <<entry, selection>>
      BY <2>3 DEF StartFill, LockFill, WriteFile, WriteFails, ProtectPage, EndFill
    <3>2. \A h \in Handles : word'[h].accessed = word[h].accessed
      <4>1. CASE word' = word
        BY <4>1
      <4> QED BY <2>3, <4>1, FillerWords
              DEF WordIs, StartFill, LockFill, WriteFile, WriteFails
    <3>3. OnlyJob(f)
      BY <1>0, <2>3, FillerViews, StartFillView, ProtectView DEF Moves, Ends
    <3>4. \A d \in Collectors : job'[d] = job[d]
      BY <3>3, Members DEF OnlyJob
    <3> QED BY <3>1, <3>2, <3>4, CandidateKept DEF SameTarget
  <2> QED BY <1>4, <2>1, <2>2, <2>3 DEF Filler
<1>5. CASE \/ \E p \in Pages : ScanPast(p)
           \/ \E h \in Handles : Age(h)
           \/ Retire
           \/ UNCHANGED vars
  <2>1. UNCHANGED <<entry, selection, word, job>>
    BY <1>5 DEF ScanPast, Age, Retire, vars
  <2> QED BY <2>1, CandidateKept DEF SameTarget
<1> QED BY <1>1, <1>2, <1>3, <1>4, <1>5 DEF Next

-----------------------------------------------------------------------------
(* The stale block.                                                        *)

(* The evictor's record and the uses in progress stay as they are.         *)
LEMMA StaleBlockKept ==
  ASSUME StaleBlockInv,
         E0'.used /\ E0'.quiet => E0.used /\ E0.quiet,
         E0'.at = "idle" => ~E0'.used,
         E0'.at = "claimed" => ~E0'.used,
         \A r \in Readers : rd[r].at = "acquired" => rd'[r].at = "acquired",
         \A f \in Fillers : job[f].at = "registered" => job'[f].at = "registered"
  PROVE  StaleBlockInv'
BY DEF StaleBlockInv

(* Every step keeps StaleBlockInv: a use of the chosen block is seen by    *)
(* the claim.                                                              *)
LEMMA StaleBlockStep ==
  Typed /\ GateInv /\ TableInv /\ ClaimInv /\ StaleBlockInv /\ [Next]_vars
    => StaleBlockInv'
<1> SUFFICES ASSUME Typed, GateInv, TableInv, ClaimInv, StaleBlockInv, [Next]_vars
             PROVE  StaleBlockInv'
  OBVIOUS
<1>0. JobsTyped
  BY DEF Typed
<1> USE DEF tableVars
<1>1. ASSUME NEW r \in Readers, Reader(r) PROVE StaleBlockInv'
  <2>0. rd \in [Readers -> ReadRec]
    BY DEF Typed, StoreTyped, RestTyped
  <2>1. ASSUME NEW p \in Pages, Acquire(r, p) PROVE StaleBlockInv'
    <3>1. /\ job' = Use(Evicting) /\ rd'[r].at = "acquired"
          /\ entry[p] # 0 /\ ~word[entry[p]].closed
      BY <2>0, <2>1 DEF Acquire
    <3>2. Told /\ (Evictor \notin Evicting => job'[Evictor] = job[Evictor])
      BY <1>0, <3>1, JobsUsed, Members
    <3>3. E0.at = "idle" => E0' = E0
      BY <3>2, Members DEF E0, Evicting
    <3>4. E0'.at = E0.at
      BY <3>2, Members DEF Told, E0
    <3>5. E0.at # "claimed"
      BY <3>1 DEF ClaimInv, Resident
    <3> QED BY <3>1, <3>3, <3>4, <3>5 DEF StaleBlockInv
  <2>2. CASE TouchPolicy(r)
    <3>1. Told /\ ~E0'.quiet /\ E0'.used = E0.used
      BY <1>0, <2>2, EvictorDisturbed, Members DEF TouchPolicy, E0
    <3>2. E0'.at = E0.at
      BY <3>1, Members DEF Told, E0
    <3> QED BY <3>1, <3>2 DEF StaleBlockInv
  <2>3. CASE Touch(r) \/ Release(r) \/ Abandon(r)
    <3>1. E0' = E0 /\ \A f \in Fillers : job'[f] = job[f]
      <4>1. CASE Release(r)
        <5>1. \A x \in Procs : x \notin Collecting(rd[r].page) => job'[x] = job[x]
          BY <1>0, <4>1, JobsUsed DEF Release
        <5> QED BY <5>1, Members DEF E0, Collecting
      <4> QED BY <2>3, <4>1 DEF Touch, Abandon, E0
    <3>2. \A q \in Readers : rd[q].at = "acquired" => rd'[q].at = "acquired"
      BY <2>0, <2>3 DEF Touch, Release, Abandon
    <3> QED BY <3>1, <3>2, StaleBlockKept DEF StaleBlockInv
  <2> QED BY <1>1, <2>1, <2>2, <2>3 DEF Reader
<1>2. ASSUME NEW c \in Collectors, Collector(c) PROVE StaleBlockInv'
  <2>1. OnlyJob(c)
    BY <1>0, <1>2, CollectorViews, CandidateView, ScanView, ScanEmptyView
    DEF Collector, Moves, Ends, Selects
  <2>2. rd' = rd
    BY <1>2 DEF Collector, Candidate, Scan, ScanEmpty, LockPage, LockSweep, Lock,
         Claim, GiveUp, Unlink, UnlinkFails, ClearPage, Finish, Sweep,
         SweepFails, SkipSweep
  <2>3. E0' = E0 /\ \A f \in Fillers : job'[f] = job[f]
    BY <2>1, Members DEF OnlyJob, E0
  <2> QED BY <2>2, <2>3, StaleBlockKept DEF StaleBlockInv
<1>3. CASE BlockEvictor
  <2>1. rd' = rd
    BY <1>3 DEF BlockEvictor, ChooseBlock, ObtainBlock, LockBlock, Lock, ClaimNext,
         ClaimedAll, DropClaim, DeleteFails, DeleteBlock, FinishBlock
  <2>2. OnlyJob(Evictor) => \A f \in Fillers : job'[f] = job[f]
    BY Members DEF OnlyJob
  <2>3. CASE ChooseBlock
    <3>1. OnlyJob(Evictor) /\ E0'.at = "chosen" /\ E0'.used = E0.used /\ ~E0.used
      BY <1>0, <2>3, EvictorChooses DEF ChooseBlock, StaleBlockInv
    <3> QED BY <2>1, <2>2, <3>1, StaleBlockKept
  <2>4. CASE ObtainBlock
    <3>1. /\ OnlyJob(Evictor) /\ E0'.at = "waiting"
          /\ E0'.used = E0.used /\ E0'.quiet = E0.quiet
      BY <2>4, ObtainBlockView
    <3> QED BY <2>1, <2>2, <3>1, StaleBlockKept
  <2>5. CASE LockBlock \/ DeleteBlock
    <3>1. /\ OnlyJob(Evictor) /\ E0'.at \in {"claiming", "deleted"}
          /\ E0'.used = E0.used /\ E0'.quiet = E0.quiet
      BY <1>0, <2>5, EvictorViews DEF Moves, E0
    <3> QED BY <2>1, <2>2, <3>1, StaleBlockKept
  <2>6. ASSUME NEW p \in Pages, ClaimNext(p) PROVE StaleBlockInv'
    <3>1. /\ OnlyJob(Evictor) /\ E0'.at = "claiming"
          /\ E0'.used = E0.used /\ E0'.quiet = E0.quiet
      BY <2>6, ClaimNextView DEF ClaimNext
    <3> QED BY <2>1, <2>2, <3>1, StaleBlockKept
  <2>7. CASE ClaimedAll
    <3>1. /\ E0.at = "claiming" /\ E0.claimed = {entry[p] : p \in Resident}
          /\ E0.quiet
      BY <2>7 DEF ClaimedAll, StillStale
    <3>2. /\ OnlyJob(Evictor) /\ E0'.at = "claimed"
          /\ E0'.used = E0.used /\ E0'.quiet = E0.quiet
      BY <1>0, <2>7, EvictorViews DEF Moves, E0
    <3>3. \A r \in Readers : rd[r].at # "acquired"
      <4> SUFFICES ASSUME NEW r \in Readers, rd[r].at = "acquired" PROVE FALSE
        OBVIOUS
      <4>1. /\ rd[r].page \in Pages /\ entry[rd[r].page] = rd[r].handle
            /\ rd[r].handle \in Handles /\ r \in Holders(rd[r].handle)
        BY HeldEntry
      <4>2. rd[r].handle \in E0.claimed
        BY <3>1, <4>1 DEF Resident, Handles
      <4> QED BY <4>1, <4>2 DEF ClaimInv
    <3>4. \A f \in Fillers : job[f].at # "registered"
      BY <3>1, EvictorAlone DEF EvictAt, InGate
    <3>5. ~E0.used
      BY <3>1, <3>3, <3>4 DEF StaleBlockInv
    <3> QED BY <2>1, <2>2, <3>2, <3>5, StaleBlockKept
  <2>8. CASE DropClaim \/ DeleteFails \/ FinishBlock
    <3>1. OnlyJob(Evictor) /\ ~E0'.used
      BY <1>0, <2>8, EvictorViews, NoJobFields DEF Ends, E0
    <3> QED BY <2>1, <2>2, <3>1, StaleBlockKept
  <2> QED BY <1>3, <2>3, <2>4, <2>5, <2>6, <2>7, <2>8 DEF BlockEvictor
<1>4. ASSUME NEW f \in Fillers, Filler(f) PROVE StaleBlockInv'
  <2>1. CASE Register(f)
    <3>1. /\ job'[f].at = "registered" /\ E0'.at = E0.at
          /\ E0.at = "idle" => E0'.used = E0.used
      BY <2>1, RegisterView, Members DEF E0, Collecting, Evicting
    <3>2. E0.at # "claimed"
      BY <2>1, FillInGate DEF Register, InGate, E0
    <3> QED BY <3>1, <3>2 DEF StaleBlockInv
  <2>2. CASE MarkPage(f)
    <3>1. E0'.at = E0.at /\ E0'.used = E0.used /\ ~E0'.quiet
      BY <1>0, <2>2, FillMarks, Members DEF MarkPage, E0
    <3> QED BY <3>1 DEF StaleBlockInv
  <2>3. CASE \/ \E p \in Pages : StartFill(f, p)
             \/ LockFill(f) \/ WriteFile(f) \/ WriteFails(f) \/ ProtectPage(f)
             \/ EndFill(f)
    <3>1. rd' = rd /\ job[f].at # "registered"
      BY <2>3 DEF StartFill, LockFill, WriteFile, WriteFails, ProtectPage, EndFill
    <3>2. OnlyJob(f)
      BY <1>0, <2>3, FillerViews, StartFillView, ProtectView DEF Moves, Ends
    <3>3. E0' = E0 /\ \A g \in Fillers : g # f => job'[g] = job[g]
      BY <3>2, Members DEF OnlyJob, E0
    <3> QED BY <3>1, <3>3, StaleBlockKept DEF StaleBlockInv
  <2> QED BY <1>4, <2>1, <2>2, <2>3 DEF Filler
<1>5. CASE \/ \E p \in Pages : ScanPast(p)
           \/ \E h \in Handles : Age(h)
           \/ Retire
           \/ UNCHANGED vars
  <2>1. UNCHANGED <<rd, job>>
    BY <1>5 DEF ScanPast, Age, Retire, vars
  <2> QED BY <2>1, StaleBlockKept DEF StaleBlockInv, E0
<1> QED BY <1>1, <1>2, <1>3, <1>4, <1>5 DEF Next

-----------------------------------------------------------------------------
(* Deferred work.                                                          *)

(* A step that defers nothing and leaves the queues keeps what is queued.  *)
LEMMA DeferredKept ==
  ASSUME Typed, DeferredWorkQueued,
         UNCHANGED <<entry, retries, cleanup, queued, life>>,
         \A h \in Handles : word'[h].retry # 0 => word[h].retry # 0
  PROVE  DeferredWorkQueued'
<1>1. \A p \in Resident : entry[p] \in Handles
  BY EntryHandle DEF Resident
<1>2. Resident' = Resident
  BY DEF Resident
<1> QED BY <1>1, <1>2 DEF DeferredWorkQueued

(* A new record starts without deferred work, and there was none.          *)
LEMMA DeferredObtain ==
  ASSUME Typed, DeferredWorkQueued, Obtain, entry' = entry,
         \A h \in Handles : word'[h].retry = word[h].retry
  PROVE  DeferredWorkQueued'
<1>1. \A p \in Resident : entry[p] \in Handles
  BY EntryHandle DEF Resident
<1>2. Resident' = Resident
  BY DEF Resident
<1>3. CASE life # 0
  BY <1>3, DeferredKept DEF Obtain
<1>4. CASE life = 0
  <2>1. \A p \in Resident : word'[entry[p]].retry = 0
    BY <1>1, <1>4 DEF DeferredWorkQueued
  <2>2. ~cleanup'
    BY <1>4 DEF Obtain
  <2> QED BY <1>2, <2>1, <2>2 DEF DeferredWorkQueued
<1> QED BY <1>3, <1>4

(* A scan forgets no retry that is still to be done.                       *)
LEMMA DeferredSettle ==
  ASSUME Typed, DeferredWorkQueued, NEW p \in Pages, Settle(p),
         UNCHANGED <<entry, cleanup, life>>,
         \A h \in Handles : word'[h].retry = word[h].retry
  PROVE  DeferredWorkQueued'
<1>1. \A q \in Resident : entry[q] \in Handles
  BY EntryHandle DEF Resident
<1>2. Resident' = Resident
  BY DEF Resident
<1>3. ASSUME NEW q \in Resident, word'[entry[q]].retry # 0
      PROVE  q \in retries' /\ queued' /\ life' # 0
  <2>1. word[entry[q]].retry # 0 /\ q \in retries /\ queued /\ life # 0
    BY <1>1, <1>3 DEF DeferredWorkQueued
  <2>2. q \in retries'
    BY <2>1 DEF Settle
  <2> QED BY <2>1, <2>2 DEF Settle
<1>4. ASSUME cleanup' PROVE queued' /\ life' # 0
  BY <1>4 DEF DeferredWorkQueued, Settle
<1> QED BY <1>2, <1>3, <1>4 DEF DeferredWorkQueued

(* A deletion that failed is queued for a retry before the page is opened. *)
LEMMA DeferredAbort ==
  ASSUME Typed, GateInv, TableInv, ClaimInv, DeferredWorkQueued,
         NEW c \in Collectors, UnlinkFails(c)
  PROVE  DeferredWorkQueued'
<1>1. PICK k : k = job[c].handle
  OBVIOUS
<1>2. PICK p : p = job[c].page
  OBVIOUS
<1>3. /\ job[c].at = "claimed" /\ entry' = entry /\ cleanup' = cleanup /\ life' = life
  BY DEF UnlinkFails, tableVars
<1>4. c \in Closers /\ Current(c) /\ entry[p] = k
  BY <1>1, <1>2, <1>3 DEF ClaimInv, Closers, Current
<1>5. \A h \in Handles : h # k => word'[h] = word[h]
  BY <1>1, <1>4, CollectorWords DEF WordIs
<1>6. retries' = retries \cup {p} /\ queued' = TRUE
  BY <1>2, <1>4 DEF UnlinkFails
<1>7. life # 0
  BY <1>3, Members DEF GateInv
<1>8. \A q \in Resident : entry[q] \in Handles
  BY EntryHandle DEF Resident
<1>9. \A q \in Resident : word'[entry[q]].retry # 0 => q \in retries'
  <2> SUFFICES ASSUME NEW q \in Resident, word'[entry[q]].retry # 0, q # p
               PROVE  q \in retries
    BY <1>6
  <2>1. q \in Pages /\ p \in Pages /\ entry[q] # 0
    BY <1>2, Members DEF Resident, Typed, JobsTyped, JobRec
  <2>2. entry[q] # k
    BY <1>4, <2>1 DEF TableInv
  <2> QED BY <1>5, <1>8, <2>2 DEF DeferredWorkQueued
<1>10. Resident' = Resident
  BY <1>3 DEF Resident
<1> QED BY <1>3, <1>6, <1>7, <1>9, <1>10 DEF DeferredWorkQueued

(* The end of a deletion keeps the deferred work of other pages queued.    *)
LEMMA DeferredFinish ==
  ASSUME Typed, GateInv, ClaimInv, DeferredWorkQueued, NEW c \in Collectors,
         Finish(c)
  PROVE  DeferredWorkQueued'
<1>1. PICK p : p = job[c].page
  OBVIOUS
<1>2. job[c].at = "cleared" /\ word' = word /\ life' = life
  BY DEF Finish
<1>3. Current(c) /\ word[job[c].handle].closed
  BY <1>2 DEF ClaimInv, Closers
<1>4. /\ entry' = [entry EXCEPT ![p] = 0]
      /\ retries' = retries \ {p} /\ queued' = (queued \/ cleanup')
  BY <1>1, <1>3 DEF Finish
<1>5. life # 0
  BY <1>2, Members DEF GateInv
<1>6. p \in Pages
  BY <1>1, Members DEF Typed, JobsTyped, JobRec
<1>7. \A q \in Pages : entry'[q] # 0 => q # p /\ entry'[q] = entry[q]
  BY <1>4, <1>6 DEF Typed, StoreTyped, RestTyped
<1>8. \A q \in Resident' : q \in Resident /\ q # p /\ entry'[q] = entry[q]
  BY <1>7 DEF Resident
<1>9. \A q \in Resident' : word'[entry'[q]].retry # 0 => q \in retries' /\ queued'
  BY <1>2, <1>4, <1>8 DEF DeferredWorkQueued
<1> QED BY <1>2, <1>4, <1>5, <1>9 DEF DeferredWorkQueued

(* The registration of a page keeps deferred work queued.                  *)
LEMMA DeferredRegister ==
  ASSUME Typed, TableInv, DeferredWorkQueued, NEW f \in Fillers, Register(f)
  PROVE  DeferredWorkQueued'
<1>1. PICK k : k = Registered(f)
  OBVIOUS
<1>2. PICK p : p = job[f].page
  OBVIOUS
<1>3. p \in Pages /\ entry \in [Pages -> 0..handles] /\ handles \in Nat
  BY <1>2, Members, ConstantsAssumption
  DEF Typed, JobsTyped, JobRec, StoreTyped, RestTyped
<1>4. /\ k \in Handles /\ entry' = [entry EXCEPT ![p] = k]
      /\ UNCHANGED <<retries, queued, life>> /\ cleanup' = FALSE
      /\ k = IF entry[p] = 0 THEN handles + 1 ELSE entry[p]
  BY <1>1, <1>2 DEF Register, Registered
<1>5. \A h \in Handles : word'[h].retry = word[h].retry
  BY <1>1, FillerWords DEF WordIs
<1>6. entry[p] = 0 => word[k].retry = 0
  BY <1>3, <1>4 DEF TableInv
<1>7. ASSUME NEW q \in Resident', word'[entry'[q]].retry # 0
      PROVE  q \in Resident /\ entry'[q] = entry[q]
  BY <1>3, <1>4, <1>5, <1>6, <1>7 DEF Resident
<1>8. \A q \in Resident : entry[q] \in Handles
  BY EntryHandle DEF Resident
<1>9. \A q \in Resident' : word'[entry'[q]].retry # 0 =>
        q \in retries' /\ queued' /\ life' # 0
  BY <1>4, <1>5, <1>7, <1>8 DEF DeferredWorkQueued
<1> QED BY <1>4, <1>9 DEF DeferredWorkQueued

(* Every step keeps deferred work queued.                                  *)
LEMMA DeferredStep ==
  Typed /\ GateInv /\ TableInv /\ ClaimInv /\ DeferredWorkQueued /\ [Next]_vars
    => DeferredWorkQueued'
<1> SUFFICES ASSUME Typed, GateInv, TableInv, ClaimInv, DeferredWorkQueued,
                    [Next]_vars
             PROVE  DeferredWorkQueued'
  OBVIOUS
<1> USE DEF tableVars, lifeVars
<1>1. ASSUME NEW r \in Readers, Reader(r) PROVE DeferredWorkQueued'
  <2>1. UNCHANGED <<entry, retries, cleanup, queued, life>>
    BY <1>1 DEF Reader, Acquire, TouchPolicy, Touch, Release, Abandon
  <2>2. \A h \in Handles : word'[h].retry # 0 => word[h].retry # 0
    <3>1. CASE TouchPolicy(r) \/ Touch(r)
      BY <3>1 DEF TouchPolicy, Touch
    <3> QED BY <1>1, <3>1, ReaderWords DEF Reader, WordIs
  <2> QED BY <2>1, <2>2, DeferredKept
<1>2. ASSUME NEW c \in Collectors, Collector(c) PROVE DeferredWorkQueued'
  <2>1. ASSUME NEW p \in Pages, Candidate(c, p) \/ Scan(c, p)
        PROVE  DeferredWorkQueued'
    <3>1. entry' = entry
      BY <2>1 DEF Candidate, Scan, Select
    <3>2. \A h \in Handles : word'[h].retry = word[h].retry
      BY <2>1, CollectorWords DEF WordIs
    <3>3. CASE Candidate(c, p)
      BY <3>1, <3>2, <3>3, DeferredObtain DEF Candidate
    <3>4. CASE Scan(c, p)
      BY <3>1, <3>2, <3>4, DeferredSettle DEF Scan
    <3> QED BY <2>1, <3>3, <3>4
  <2>2. CASE \/ ScanEmpty(c) \/ LockPage(c) \/ Claim(c) \/ GiveUp(c) \/ Unlink(c)
             \/ ClearPage(c) \/ LockSweep(c) \/ SweepFails(c) \/ SkipSweep(c)
    <3>1. UNCHANGED <<entry, retries, cleanup, queued, life>>
      BY <2>2 DEF ScanEmpty, LockPage, LockSweep, Lock, Claim, GiveUp, Unlink,
           ClearPage, SweepFails, SkipSweep
    <3>2. \A h \in Handles : word'[h].retry = word[h].retry
      <4>1. CASE Claim(c)
        BY <4>1, CollectorWords DEF WordIs
      <4> QED BY <2>2, <4>1 DEF ScanEmpty, LockPage, LockSweep, Lock, GiveUp,
                 Unlink, ClearPage, SweepFails, SkipSweep
    <3> QED BY <3>1, <3>2, DeferredKept
  <2>3. CASE Sweep(c)
    <3>1. Resident = {} /\ entry' = entry /\ cleanup' = FALSE
      BY <2>3 DEF Sweep
    <3>2. Resident' = {}
      BY <3>1 DEF Resident
    <3> QED BY <3>1, <3>2 DEF DeferredWorkQueued
  <2> QED BY <1>2, <2>1, <2>2, <2>3, DeferredAbort, DeferredFinish DEF Collector
<1>3. CASE BlockEvictor
  <2>1. CASE ObtainBlock
    <3>1. entry' = entry /\ word' = word /\ Obtain
      BY <2>1 DEF ObtainBlock
    <3> QED BY <3>1, DeferredObtain
  <2>2. CASE \/ ChooseBlock \/ LockBlock \/ ClaimedAll \/ DropClaim \/ DeleteFails
             \/ DeleteBlock \/ \E p \in Pages : ClaimNext(p)
    <3>1. UNCHANGED <<entry, retries, cleanup, queued, life>>
      BY <2>2 DEF ChooseBlock, LockBlock, Lock, ClaimedAll, DropClaim, DeleteFails,
           DeleteBlock, ClaimNext
    <3>2. \A h \in Handles : word'[h].retry = word[h].retry
      <4>1. CASE DropClaim \/ DeleteFails
        <5>1. Reopen
          BY <4>1 DEF DropClaim, DeleteFails
        <5> QED BY <5>1, ReopenWords DEF Typed, StoreTyped
      <4>2. CASE \E p \in Pages : ClaimNext(p)
        BY <4>2, ClaimNextWord DEF WordIs
      <4> QED BY <2>2, <4>1, <4>2 DEF ChooseBlock, LockBlock, Lock, ClaimedAll,
                 DeleteBlock
    <3> QED BY <3>1, <3>2, DeferredKept
  <2>3. CASE FinishBlock
    <3>1. entry' = [p \in Pages |-> 0] /\ cleanup' = FALSE
      BY <2>3 DEF FinishBlock
    <3>2. Resident' = {}
      BY <3>1 DEF Resident
    <3> QED BY <3>1, <3>2 DEF DeferredWorkQueued
  <2> QED BY <1>3, <2>1, <2>2, <2>3 DEF BlockEvictor
<1>4. ASSUME NEW f \in Fillers, Filler(f) PROVE DeferredWorkQueued'
  <2>1. CASE Register(f)
    BY <2>1, DeferredRegister
  <2>2. ASSUME NEW p \in Pages, StartFill(f, p) PROVE DeferredWorkQueued'
    <3>1. entry' = entry /\ word' = word /\ Obtain
      BY <2>2 DEF StartFill
    <3> QED BY <3>1, DeferredObtain
  <2>3. CASE \/ LockFill(f) \/ WriteFile(f) \/ WriteFails(f) \/ MarkPage(f)
             \/ ProtectPage(f) \/ EndFill(f)
    <3>1. UNCHANGED <<entry, retries, cleanup, queued, life>>
      BY <2>3 DEF LockFill, WriteFile, WriteFails, MarkPage, ProtectPage, EndFill
    <3>2. \A h \in Handles : word'[h].retry = word[h].retry
      <4>1. CASE word' = word
        BY <4>1
      <4> QED BY <2>3, <4>1, FillerWords
              DEF WordIs, LockFill, WriteFile, WriteFails, MarkPage
    <3> QED BY <3>1, <3>2, DeferredKept
  <2> QED BY <1>4, <2>1, <2>2, <2>3 DEF Filler
<1>5. ASSUME NEW p \in Pages, ScanPast(p) PROVE DeferredWorkQueued'
  BY <1>5, DeferredSettle DEF ScanPast
<1>6. CASE Retire
  <2>1. entry' = entry /\ word' = word /\ ~cleanup' /\ retries = {}
    BY <1>6 DEF Retire, Retirable
  <2>2. Resident' = Resident
    BY <2>1 DEF Resident
  <2> QED BY <2>1, <2>2 DEF DeferredWorkQueued
<1>7. CASE UNCHANGED vars \/ \E h \in Handles : Age(h)
  BY <1>7, DeferredKept DEF vars, Age
<1> QED BY <1>1, <1>2, <1>3, <1>4, <1>5, <1>6, <1>7 DEF Next

-----------------------------------------------------------------------------
(* The theorems.                                                           *)

(* The inductive invariant holds initially.                                *)
LEMMA InvInit == Init => ArbitrationInv
<1> SUFFICES ASSUME Init PROVE ArbitrationInv
  OBVIOUS
<1> USE DEF Init
<1>1. /\ \A x \in Procs : job[x] = NoJob /\ job[x].at = "idle"
      /\ \A r \in Readers : rd[r] = NoRead /\ rd[r].at = "idle"
      /\ \A p \in Pages : entry[p] = 0
      /\ E0 = NoJob
  BY NoJobFields, Members DEF E0
<1>2. \A c \in Collectors : job[c].at = "idle"
  BY <1>1, Members
<1>3. \A f \in Fillers : job[f].at = "idle"
  BY <1>1, Members
<1>4. Resident = {} /\ Closers = {}
  BY <1>1, <1>2 DEF Resident, Closers
<1>5. FreshWord \in Word /\ ~FreshWord.closed /\ FreshWord.retry = 0
      /\ FreshWord.readers = 0
  BY DEF FreshWord, Word
<1>6. \A h \in Handles : word[h] = FreshWord
  OBVIOUS
<1>7. Typed
  <2>1. JobsTyped
    <3>1. job \in [Procs -> JobRec]
      BY NothingTyped
    <3>2. job[Evictor].at = "idle"
      BY <1>1, Members
    <3> QED BY <1>2, <1>3, <3>1, <3>2 DEF JobsTyped, CollectorAt, EvictorAt, FillerAt
  <2>2. word \in [Handles -> Word]
    BY <1>5
  <2>3. rd \in [Readers -> ReadRec]
    BY NothingTyped
  <2>4. /\ handles \in 0..MaxHandles /\ lives \in 0..MaxLives /\ life \in 0..lives
        /\ entry \in [Pages -> 0..handles] /\ selection \in [Pages -> Nat]
    BY ConstantsAssumption
  <2>5. idle \in [Handles -> BOOLEAN] /\ cleanup \in BOOLEAN /\ queued \in BOOLEAN
    BY Zenon
  <2> QED BY <2>1, <2>2, <2>3, <2>4, <2>5 DEF Typed, StoreTyped, RestTyped
<1>8. GateInv
  BY <1>1, <1>3 DEF GateInv, InGate
<1>9. \A h : Holders(h) = {}
  BY <1>1, <1>3 DEF Holders
<1>10. TableInv
  <2>1. \A h \in Handles : word[h].readers = Cardinality(Holders(h))
    BY <1>5, <1>6, <1>9, FS_EmptySet
  <2>2. \A h \in Handles : h > handles => ~word[h].closed /\ word[h].retry = 0
    BY <1>5, <1>6
  <2> QED BY <1>1, <1>3, <2>1, <2>2 DEF TableInv
<1>11. ClaimInv
  <2>1. E0.claimed = {} /\ E0.at = "idle"
    BY <1>1, NoJobFields
  <2>2. 1..handles = {}
    OBVIOUS
  <2> QED BY <1>4, <1>9, <2>1, <2>2 DEF ClaimInv
<1>12. FileInv
  BY <1>3 DEF FileInv
<1>13. CandidateInv
  BY <1>2 DEF CandidateInv
<1>14. StaleBlockInv
  BY <1>1, NoJobFields DEF StaleBlockInv
<1>15. DeferredWorkQueued
  BY <1>4 DEF DeferredWorkQueued
<1> QED BY <1>7, <1>8, <1>10, <1>11, <1>12, <1>13, <1>14, <1>15 DEF ArbitrationInv

(* Every step keeps the inductive invariant.                               *)
LEMMA InvStep == ArbitrationInv /\ [Next]_vars => ArbitrationInv'
BY TypedStep, GateStep, TableStep, ClaimStep, FileStep, CandidateStep,
   StaleBlockStep, DeferredStep
DEF ArbitrationInv

(* Every reachable state satisfies the inductive invariant.                *)
THEOREM InvHolds == Spec => []ArbitrationInv
<1>1. Init => ArbitrationInv
  BY InvInit
<1>2. ArbitrationInv /\ [Next]_vars => ArbitrationInv'
  BY InvStep
<1> QED BY <1>1, <1>2, PTL DEF Spec

(* Mutations of one block exclude each other, also across a retired        *)
(* BlockState: a job is in the gate of the record in the registry.         *)
THEOREM MutationsExclude == Spec => []GateExclusive
<1>1. ArbitrationInv => GateExclusive
  <2> SUFFICES ASSUME Typed, GateInv, NEW x \in Procs, NEW y \in Procs, x # y,
                      Mutating(x), Mutating(y)
               PROVE  /\ x \in WarmFillers /\ y \in WarmFillers
                      /\ job[x].page # job[y].page
    BY DEF ArbitrationInv, GateExclusive
  <2>1. job[x].at \in InGate /\ job[y].at \in InGate
    BY DEF Mutating, GateInv
  <2> QED BY <2>1, TogetherInGate
<1> QED BY <1>1, InvHolds, PTL

(* A handle that left the table is closed and has no reader, whoever       *)
(* removed it: BlockState::finish or the commit of BlockPageClaim.         *)
THEOREM OldHandlesClosed == Spec => []RemovedStaysClosed
<1>1. ArbitrationInv => RemovedStaysClosed
  <2> SUFFICES ASSUME Typed, TableInv, ClaimInv, NEW h \in 1..handles,
                      \A p \in Pages : entry[p] # h
               PROVE  word[h].closed /\ word[h].readers = 0
    BY DEF ArbitrationInv, RemovedStaysClosed
  <2>1. h \in Handles
    BY ConstantsAssumption DEF Typed, StoreTyped, RestTyped, Handles
  <2>2. word[h].closed
    BY DEF ClaimInv
  <2>3. Holders(h) = {}
    BY <2>1, <2>2 DEF ClaimInv
  <2> QED BY <2>1, <2>2, <2>3, FS_EmptySet DEF TableInv
<1> QED BY <1>1, InvHolds, PTL

(* A page the index offers to readers has its file, for every number of    *)
(* fills, collectors and block evictions in progress.                      *)
THEOREM ReadersFindFiles == Spec => []ReadableHasFile
<1>1. ArbitrationInv => ReadableHasFile
  <2> SUFFICES ASSUME Typed, GateInv, ClaimInv, FileInv, NEW p \in resident,
                      entry[p] # 0, ~word[entry[p]].closed
               PROVE  p \in file \cup torn
    BY DEF ArbitrationInv, ReadableHasFile
  <2>1. p \in Pages /\ p \in Resident
    BY DEF Typed, StoreTyped, RestTyped, Resident
  <2>2. E0.at # "deleted"
    BY <2>1 DEF ClaimInv
  <2>3. \A c \in Collectors : job[c].at = "unlinked" => job[c].page # p
    BY DEF ClaimInv, Closers, Current
  <2> QED BY <2>2, <2>3 DEF FileInv
<1> QED BY <1>1, InvHolds, PTL

(* A deletion that claimed its target deletes nothing that was used since  *)
(* it was selected.                                                        *)
THEOREM NothingUsedDeleted == Spec => []OnlyUnusedDeleted
<1>1. ArbitrationInv => OnlyUnusedDeleted
  BY DEF ArbitrationInv, CandidateInv, StaleBlockInv, OnlyUnusedDeleted, E0
<1> QED BY <1>1, InvHolds, PTL

(* A retry of an unlink and the removal of an empty directory stay where   *)
(* the next scan finds them.                                               *)
THEOREM NothingStranded == Spec => []DeferredWorkQueued
<1>1. ArbitrationInv => DeferredWorkQueued
  BY DEF ArbitrationInv
<1> QED BY <1>1, InvHolds, PTL

(* When no deletion is in progress every page of the table is open.        *)
THEOREM ClaimsEnd == Spec => []NoPageLeftClosed
<1>1. ArbitrationInv => NoPageLeftClosed
  <2> SUFFICES ASSUME ClaimInv,
                      \A x \in Procs : job[x].at \in {"idle", "picked", "gated",
                        "chosen", "waiting", "guarding"}
               PROVE  \A p \in Resident : ~word[entry[p]].closed
    BY DEF ArbitrationInv, NoPageLeftClosed
  <2>1. \A c \in Collectors : job[c].at \notin ClosingAt
    BY Members DEF ClosingAt
  <2>2. E0.at \notin EvictAt
    BY Members DEF EvictAt, E0
  <2> QED BY <2>1, <2>2, NobodyClaims
<1> QED BY <1>1, InvHolds, PTL

(* No step deletes the file of a page that somebody holds: only a page     *)
(* that is closed, or a block without pages, loses files.                  *)
THEOREM GuardsHold == Spec => GuardProtectsFile
<1>1. ASSUME ArbitrationInv, [Next]_vars PROVE file \cap Guarded \subseteq file'
  <2> SUFFICES ASSUME NEW p \in file \cap Guarded PROVE p \in file'
    OBVIOUS
  <2>0. Typed /\ TableInv /\ ClaimInv
    BY <1>1 DEF ArbitrationInv
  <2>1. p \in Resident /\ ~word[entry[p]].closed
    <3>1. PICK x \in Holders(entry[p]) : p \in Pages /\ entry[p] \in Handles
      BY <2>0, HeldEntry DEF Guarded
    <3> QED BY <2>0, <3>1 DEF ClaimInv, Resident, Handles
  <2>2. ASSUME NEW c \in Collectors, Unlink(c) PROVE p \in file'
    <3>1. job[c].page # p
      BY <2>0, <2>1, <2>2 DEF Unlink, ClaimInv, Closers, Current
    <3> QED BY <2>2, <3>1 DEF Unlink
  <2>3. ASSUME NEW c \in Collectors PROVE ~Sweep(c) /\ ~SweepFails(c)
    BY <2>1 DEF Sweep, SweepFails
  <2>4. ~DeleteBlock /\ ~DeleteFails
    BY <2>0, <2>1 DEF DeleteBlock, DeleteFails, ClaimInv
  <2>5. ASSUME NEW f \in Fillers, WriteFile(f) PROVE p \in file'
    BY <2>5 DEF WriteFile
  <2>6. CASE file' = file
    BY <2>6
  <2>7. ASSUME file' # file
        PROVE  \/ \E c \in Collectors : Unlink(c) \/ Sweep(c) \/ SweepFails(c)
               \/ DeleteBlock \/ DeleteFails
               \/ \E f \in Fillers : WriteFile(f)
    <3>1. ASSUME NEW r \in Readers, Reader(r) PROVE file' = file
      BY <3>1 DEF Reader, Acquire, TouchPolicy, Touch, Release, Abandon
    <3>2. ASSUME NEW c \in Collectors, Collector(c)
          PROVE  file' = file \/ Unlink(c) \/ Sweep(c) \/ SweepFails(c)
      BY <3>2 DEF Collector, Candidate, Scan, ScanEmpty, LockPage, LockSweep, Lock,
           Claim, GiveUp, UnlinkFails, ClearPage, Finish, SkipSweep
    <3>3. BlockEvictor => file' = file \/ DeleteBlock \/ DeleteFails
      BY DEF BlockEvictor, ChooseBlock, ObtainBlock, LockBlock, Lock, ClaimNext,
         ClaimedAll, DropClaim, FinishBlock
    <3>4. ASSUME NEW f \in Fillers, Filler(f) PROVE file' = file \/ WriteFile(f)
      BY <3>4 DEF Filler, StartFill, LockFill, WriteFails, Register, MarkPage,
           ProtectPage, EndFill
    <3>5. ASSUME \/ \E q \in Pages : ScanPast(q)
                 \/ \E h \in Handles : Age(h)
                 \/ Retire \/ UNCHANGED vars
          PROVE  file' = file
      BY <3>5 DEF ScanPast, Age, Retire, vars
    <3> QED BY <1>1, <2>7, <3>1, <3>2, <3>3, <3>4, <3>5 DEF Next
  <2> QED BY <2>2, <2>3, <2>4, <2>5, <2>6, <2>7
<1>2. ArbitrationInv /\ [Next]_vars => [file \cap Guarded \subseteq file']_vars
  BY <1>1
<1> QED BY <1>2, InvHolds, PTL DEF Spec, GuardProtectsFile

=============================================================================
