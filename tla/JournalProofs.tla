--------------------------- MODULE JournalProofs ---------------------------
(***************************************************************************)
(* Proofs about Journal, for every set of callers, every batch and         *)
(* checkpoint limit and every number of losses: types and checkpoints in   *)
(* the first part, recovery and the refinement of DurableLog in the second.*)
(***************************************************************************)
EXTENDS Journal, SequenceTheorems, FiniteSetTheorems, NaturalsInduction, WellFoundedInduction, TLAPS

(* What TypeOK needs to be inductive: a generation in use is never 0, the  *)
(* number that stands for "none"; the request a query step answers is a    *)
(* query; and files and batches are finite, since recovery counts frames.  *)
InUse ==
  /\ snapshot.stage # "none" => snapshot.gen # 0
  /\ pc \in {"rotate", "rotated"} => current.pending # 0
  /\ pc # "down" => current.snapshot # 0
  /\ pc = "query" => barrier \in Queries

Finite ==
  /\ IsFiniteSet(writes)
  /\ \A g \in Gens : IsFiniteSet(logs[g])

TypeInv == TypeOK /\ InUse /\ Finite

-----------------------------------------------------------------------------

(* A sequence all of whose first k elements are in T has a prefix in       *)
(* Seq(T): the batch that ReceiveAppends cuts from the channel.            *)
LEMMA PrefixIn ==
  ASSUME NEW S, NEW T, NEW s \in Seq(S), NEW k \in 1..Len(s),
         \A i \in 1..k : s[i] \in T
  PROVE  SubSeq(s, 1, k) \in Seq(T) /\ Len(SubSeq(s, 1, k)) = k
<1>1. SubSeq(s, 1, k) = [i \in 1..k |-> s[i]]
  OBVIOUS
<1>2. [i \in 1..k |-> s[i]] \in [1..k -> T]
  OBVIOUS
<1>3. [1..k -> T] \subseteq Seq(T)
  BY SeqDef
<1> QED BY <1>1, <1>2, <1>3

(* What recovery rebuilds from a set that passed its checks: a sequence of *)
(* records that reaches at least the snapshot it starts from.              *)
LEMMA RebuiltIsLog ==
  ASSUME NEW c \in Currents, NEW L \in [Gens -> SUBSET Frames],
         NEW t \in [Gens -> Nat], NEW S \in [Gens -> Records], NEW F,
         ReplayOk(c, L, t, S, F)
  PROVE  /\ LastLsn(c, L) \in Nat
         /\ c.lsn <= LastLsn(c, L)
         /\ Rebuilt(c, L, S) \in Records
         /\ Len(Rebuilt(c, L, S)) = LastLsn(c, L)
<1> DEFINE R == Replayed(c, L)
           N == LsnsOf(R)
<1>1. /\ c.snapshot \in Gens /\ c.lsn \in Nat /\ c.logs \subseteq Gens
      /\ S[c.snapshot] \in Records /\ Len(S[c.snapshot]) = c.lsn
  BY DEF ReplayOk, DecodeOk, Currents, Gens
<1>2. R \subseteq Frames
  BY <1>1 DEF Replayed
<1>3. N \subseteq Nat
  BY <1>2 DEF LsnsOf, Frames
<1>4. PICK top \in {c.lsn} \cup N : N = (c.lsn + 1)..top
  BY DEF ReplayOk
<1>5. top \in Nat /\ c.lsn <= top /\ (N # {} => top \in N)
  BY <1>1, <1>3, <1>4
<1>6. LastLsn(c, L) = top
  <2>1. CASE N = {}
    BY <2>1, <1>1, <1>4, <1>5 DEF LastLsn
  <2>2. CASE N # {}
    <3>1. \A m \in N : m <= top
      BY <1>1, <1>4, <1>5
    <3>2. LastLsn(c, L) \in N /\ \A m \in N : m <= LastLsn(c, L)
      BY <2>2, <3>1, <1>5 DEF LastLsn
    <3> QED BY <3>1, <3>2, <1>3, <1>5, <2>2
  <2> QED BY <2>1, <2>2
<1>7. \A n \in 1..top :
        (IF n <= c.lsn THEN S[c.snapshot][n]
         ELSE (CHOOSE f \in R : f.lsn = n).req) \in Appends
  <2> SUFFICES ASSUME NEW n \in 1..top
               PROVE (IF n <= c.lsn THEN S[c.snapshot][n]
                      ELSE (CHOOSE f \in R : f.lsn = n).req) \in Appends
    OBVIOUS
  <2>1. CASE n <= c.lsn
    BY <2>1, <1>1 DEF Records
  <2>2. CASE ~(n <= c.lsn)
    <3>1. n \in N
      BY <2>2, <1>1, <1>4, <1>5
    <3>2. \E f \in R : f.lsn = n
      BY <3>1 DEF LsnsOf
    <3>3. (CHOOSE f \in R : f.lsn = n) \in R
      BY <3>2
    <3> QED BY <3>3, <1>2, <2>2 DEF Frames
  <2> QED BY <2>1, <2>2
<1>8. Rebuilt(c, L, S) = [n \in 1..top |->
        IF n <= c.lsn THEN S[c.snapshot][n]
        ELSE (CHOOSE f \in R : f.lsn = n).req]
  BY <1>6 DEF Rebuilt
<1> HIDE DEF R, N
<1>9. Rebuilt(c, L, S) \in [1..top -> Appends]
  BY <1>7, <1>8
<1>10. Rebuilt(c, L, S) \in Seq(Appends) /\ Len(Rebuilt(c, L, S)) = top
  BY <1>9, <1>5, SeqDef, LenProperties
<1> QED BY <1>5, <1>6, <1>10 DEF Records


(* The values of a function on a finite set are finitely many.             *)
LEMMA FiniteImage ==
  ASSUME NEW S, IsFiniteSet(S), NEW f
  PROVE  IsFiniteSet({f[x] : x \in S})
<1> DEFINE T == {f[x] : x \in S}
           g == [x \in S |-> f[x]]
<1>1. g \in Surjection(S, T)
  BY DEF Surjection
<1> QED BY <1>1, FS_Surjection

(* What stands for an empty directory, log or snapshot slot.               *)
LEMMA Empties ==
  /\ <<>> \in Records /\ <<>> \in Seq(Requests)
  /\ NoSnapshot \in Snapshots /\ NoSnapshot.stage = "none"
  /\ NoCurrent \in Currents
<1>1. <<>> \in Records /\ <<>> \in Seq(Requests)
  BY DEF Records
<1>2. 0 \in 0..MaxGen
  BY ConstantsAssumption
<1>3. NoSnapshot \in Snapshots /\ NoSnapshot.stage = "none"
  BY <1>1, <1>2 DEF NoSnapshot, Snapshots
<1>4. NoCurrent \in Currents
  BY <1>2 DEF NoCurrent, Currents
<1> QED BY <1>1, <1>3, <1>4

(* The LSN a caller of a batch is given is a number.                       *)
LEMMA LsnInBatch ==
  ASSUME NEW b, b.lsn \in Nat, b.reqs \in Records, NEW r \in Callers(b)
  PROVE  LsnIn(b, r) \in Nat
<1>1. \E i \in 1..Len(b.reqs) : b.reqs[i] = r
  BY DEF Callers
<1>2. (CHOOSE i \in 1..Len(b.reqs) : b.reqs[i] = r) \in 1..Len(b.reqs)
  BY <1>1
<1> QED BY <1>2 DEF LsnIn

(* What a batch that was cut short leaves in the log are frames.           *)
LEMMA LandedFrames ==
  ASSUME NEW b, b.lsn \in Nat, b.reqs \in Records, NEW k \in Nat,
         k <= Len(b.reqs)
  PROVE  Landed(b, k) \subseteq Frames /\ IsFiniteSet(Landed(b, k))
<1>1. \A i \in 1..k : b.reqs[i] \in Appends /\ b.lsn + i \in Nat \ {0}
  BY LenProperties, ElementOfSeq DEF Records
<1>2. Landed(b, k) \subseteq Frames
  BY <1>1 DEF Landed, Frame, Frames
<1>3. IsFiniteSet(1..k)
  BY FS_Interval
<1>4. IsFiniteSet(Landed(b, k))
  <2> DEFINE f == [i \in 1..k |-> Frame(b.lsn + i, b.reqs[i])]
  <2>1. Landed(b, k) = {f[i] : i \in 1..k}
    BY DEF Landed
  <2> HIDE DEF f
  <2> QED BY <1>3, <2>1, FiniteImage
<1> QED BY <1>2, <1>4

(* The last log of a recovery set is one of its logs.                      *)
LEMMA LastLogIn ==
  ASSUME NEW c \in Currents, DecodeOk(c)
  PROVE  LastLog(c) \in c.logs /\ LastLog(c) \in Gens
<1>1. PICK last \in c.logs : c.logs = c.snapshot..last
  BY DEF DecodeOk
<1>2. c.logs \subseteq Gens /\ c.snapshot \in Nat
  BY DEF Currents
<1>3. \A h \in c.logs : h <= last
  BY <1>1, <1>2
<1>4. LastLog(c) \in c.logs
  BY <1>1, <1>3 DEF LastLog
<1> QED BY <1>2, <1>4

(* What a power loss does to the log files: of each one that is not synced *)
(* as a whole the frames up to a cut are left, and the next one is absent, *)
(* torn or bad.                                                            *)
PowerCut(cut, torn, bad) ==
  /\ cut \in [Dirty -> Cuts] /\ torn \subseteq Dirty /\ bad \subseteq Dirty
  /\ \A g \in Dirty : \A f \in synced[g] : f.lsn <= cut[g]
  /\ \A g \in torn \cup bad : cut[g] + 1 \in Begun(g)
  /\ logs' = [g \in Gens |-> IF g \in Dirty
                 THEN {f \in logs[g] : f.lsn <= cut[g]} ELSE logs[g]]
  /\ synced' = logs'
  /\ tear' = [g \in Gens |-> IF g \in torn THEN cut[g] + 1 ELSE 0]
  /\ damage' = [g \in Gens |-> IF g \in bad THEN cut[g] + 1 ELSE damage[g]]

LEMMA CutPicked ==
  ASSUME PowerLoss
  PROVE  \E cut, torn, bad : PowerCut(cut, torn, bad)
<1>1. PICK cut \in [Dirty -> Cuts], torn \in SUBSET Dirty, bad \in SUBSET Dirty :
        /\ \A g \in Dirty : \A f \in synced[g] : f.lsn <= cut[g]
        /\ \A g \in torn \cup bad : cut[g] + 1 \in Begun(g)
        /\ torn \cap bad = {}
        /\ logs' = [g \in Gens |-> IF g \in Dirty
                       THEN {f \in logs[g] : f.lsn <= cut[g]} ELSE logs[g]]
        /\ synced' = logs'
        /\ tear' = [g \in Gens |-> IF g \in torn THEN cut[g] + 1 ELSE 0]
        /\ damage' = [g \in Gens |-> IF g \in bad THEN cut[g] + 1 ELSE damage[g]]
  BY DEF PowerLoss
<1>2. PowerCut(cut, torn, bad)
  BY <1>1 DEF PowerCut
<1> QED BY <1>2

(* A cut is the LSN of the last frame that is left, or 0.                  *)
LEMMA CutsAreLsns ==
  ASSUME TypeOK
  PROVE  Cuts \subseteq Nat
<1>1. \A g \in Gens : LsnsOf(logs[g]) \subseteq Nat \ {0}
  BY DEF TypeOK, DiskTypeOK, LsnsOf, Frames
<1>2. \A g \in Gens : Begun(g) \subseteq Nat \ {0}
  BY <1>1 DEF TypeOK, DiskTypeOK, Begun
<1>3. \A g \in Gens : \A n \in Begun(g) : n - 1 \in Nat
  BY <1>2
<1> DEFINE ends   == UNION {LsnsOf(logs[g]) : g \in Dirty}
           starts == UNION {{n - 1 : n \in Begun(g)} : g \in Dirty}
<1>4. ends \subseteq Nat
  BY <1>1 DEF Dirty
<1>5. starts \subseteq Nat
  BY <1>3 DEF Dirty
<1>6. Cuts = {0} \cup ends \cup starts
  BY DEF Cuts
<1> HIDE DEF ends, starts
<1> QED BY <1>4, <1>5, <1>6

(* One step keeps files and batches finite.                                *)
LEMMA FiniteStep ==
  ASSUME TypeInv, [Next]_vars
  PROVE  Finite'
<1> USE DEF TypeInv, TypeOK
<1>1. \A b \in writes : b.lsn \in Nat /\ b.reqs \in Records /\ Len(b.reqs) \in Nat
  BY LenProperties DEF TaskTypeOK, Batches, Records
<1>2. logs \in [Gens -> SUBSET Frames]
  BY DEF DiskTypeOK
<1>3. CASE UNCHANGED <<writes, logs>>
  BY <1>3 DEF Finite
<1>4. CASE Rotate \/ Create
  <2>1. writes' = writes /\ \E g : logs' = [logs EXCEPT ![g] = {}]
    BY <1>4 DEF Rotate, Create, taskVars
  <2> QED BY <1>2, <2>1, FS_EmptySet DEF Finite
<1>5. CASE ReceiveAppends
  <2>1. logs' = logs /\ \E b : writes' = writes \cup {b}
    BY <1>5 DEF ReceiveAppends, diskVars
  <2> QED BY <2>1, FS_AddElement DEF Finite
<1>6. CASE CompleteWrite
  <2>1. PICK b \in writes :
          /\ writes' = writes \ {b}
          /\ logs' = [logs EXCEPT ![LastLog(current)] =
                        @ \cup Landed(b, Len(b.reqs))]
    BY <1>6 DEF CompleteWrite
  <2>2. IsFiniteSet(Landed(b, Len(b.reqs)))
    BY <1>1, LandedFrames
  <2>3. IsFiniteSet(writes')
    BY <2>1, FS_RemoveElement DEF Finite
  <2>4. \A g \in Gens : IsFiniteSet(logs[g] \cup Landed(b, Len(b.reqs)))
    BY <2>2, FS_Union DEF Finite
  <2> QED BY <1>2, <2>1, <2>3, <2>4 DEF Finite
<1>7. CASE Abandon
  <2>1. PICK cut \in [writes -> 0..MaxBatch] :
          /\ \A b \in writes : cut[b] <= Len(b.reqs)
          /\ writes # {} =>
               logs' = [logs EXCEPT ![LastLog(current)] =
                          @ \cup UNION {Landed(b, cut[b]) : b \in writes}]
          /\ writes = {} => logs' = logs
    BY <1>7 DEF Abandon
  <2> DEFINE f == [b \in writes |-> Landed(b, cut[b])]
             lost == UNION {f[b] : b \in writes}
  <2>2. \A b \in writes : IsFiniteSet(f[b])
    BY <1>1, <2>1, LandedFrames
  <2>3. lost = UNION {Landed(b, cut[b]) : b \in writes}
    OBVIOUS
  <2> HIDE DEF f
  <2>4. IsFiniteSet({f[b] : b \in writes})
    BY FiniteImage DEF Finite
  <2>5. IsFiniteSet(lost)
    BY <2>2, <2>4, FS_UNION
  <2> HIDE DEF lost
  <2>6. \A g \in Gens : IsFiniteSet(logs[g] \cup lost)
    BY <2>5, FS_Union DEF Finite
  <2>7. \A g \in Gens : logs'[g] \in {logs[g], logs[g] \cup lost}
    BY <1>2, <2>1, <2>3
  <2>8. writes' = {}
    BY <1>7 DEF Abandon
  <2> QED BY <2>6, <2>7, <2>8, FS_EmptySet DEF Finite
<1>8. CASE PowerLoss
  <2>1. writes' = writes /\ \A g \in Gens : logs'[g] \in SUBSET logs[g]
    BY <1>8 DEF PowerLoss, taskVars
  <2> QED BY <2>1, FS_Subset DEF Finite
<1>9. CASE Clients
  BY <1>3, <1>9 DEF Clients, Close, Submit, taskVars, diskVars
<1>10. CASE Writer
  BY <1>3, <1>4, <1>7, <1>10 DEF Writer, Coalesce, StartSync, Query, Answer,
     PublishRotation, StartSnapshot, RefuseRotation, SyncPublication,
     RemoveGarbage, ClearGarbage, FinishCheckpoint, Exit, Panic, Stop,
     taskVars, logVars, diskVars
<1>11. CASE ReceiveBarrier \/ ReceiveClosed \/ CompleteSync \/ FinishSnapshot
            \/ PublishSnapshot
  BY <1>3, <1>11 DEF ReceiveBarrier, ReceiveClosed, CompleteSync,
     FinishSnapshot, PublishSnapshot, taskVars, logVars, diskVars
<1>12. CASE Recovery
  BY <1>3, <1>4, <1>12 DEF Recovery, Recover, RefuseRecovery, RemoveLeftover,
     Republish, Opened, vars, taskVars, logVars
<1>13. CASE Drained \/ ProcessLoss
  BY <1>7, <1>13 DEF Drained, ProcessLoss
<1>14. CASE Fail
  BY <1>3, <1>14 DEF Fail, Stop, diskVars
<1>15. CASE UNCHANGED vars
  BY <1>3, <1>15 DEF vars
<1> QED
  BY <1>5, <1>6, <1>8, <1>9, <1>10, <1>11, <1>12, <1>13, <1>14, <1>15
  DEF Next, Receive

(* One step keeps TypeInv: a step per action, and under it a step per part *)
(* of the state that the action changes.                                   *)
LEMMA TypeStep ==
  ASSUME TypeInv, [Next]_vars
  PROVE  TypeInv'
<1> USE ConstantsAssumption
<1> USE DEF TypeInv, TypeOK
<1> DEFINE Clients1 == ClientsTypeOK'
           Task1    == TaskTypeOK'
           State1   == StateTypeOK'
           Disk1    == DiskTypeOK'
           InUse1   == InUse'
<1> SUFFICES Clients1 /\ Task1 /\ State1 /\ Disk1 /\ InUse1
  BY FiniteStep
<1>1. CASE UNCHANGED vars
  BY <1>1 DEF vars, ClientsTypeOK, TaskTypeOK, StateTypeOK, DiskTypeOK, InUse, Up
<1>2. CASE Close
  BY <1>2 DEF Close, ClientsTypeOK, TaskTypeOK, StateTypeOK, DiskTypeOK, InUse,
     Up, clientVars, taskVars, stateVars, diskVars, lossVars
<1>3. ASSUME NEW r \in Requests, Submit(r)
      PROVE  Clients1 /\ Task1 /\ State1 /\ Disk1 /\ InUse1
  <2> USE <1>3 DEF Submit
  <2>1. Clients1
    <3>1. status' \in [Requests -> Statuses]
      BY DEF ClientsTypeOK, Statuses
    <3>2. Len(machine) \in Nat
      BY DEF StateTypeOK, Records
    <3>3. r \in Checkpoints => r \notin Queries
      OBVIOUS
    <3>4. /\ answer' = [q \in Requests |-> answer'[q]]
          /\ \A q \in Appends \cup Checkpoints : answer'[q] \in Nat
          /\ \A q \in Queries : answer'[q] \in Records
      BY <3>2, <3>3 DEF ClientsTypeOK, Requests
    <3> QED BY <3>1, <3>4 DEF ClientsTypeOK
  <2>2. Task1
    BY DEF TaskTypeOK, Up
  <2>3. State1 /\ Disk1 /\ InUse1
    BY DEF StateTypeOK, DiskTypeOK, InUse, Up, stateVars, diskVars, lossVars
  <2> QED BY <2>1, <2>2, <2>3
<1>4. CASE Coalesce
  BY <1>4 DEF Coalesce, CoalesceReady, ClientsTypeOK, TaskTypeOK, StateTypeOK,
     DiskTypeOK, InUse, Up, stateVars, diskVars, lossVars, Statuses, Requests
<1>5. CASE StartSync
  BY <1>5 DEF StartSync, ClientsTypeOK, TaskTypeOK, StateTypeOK, DiskTypeOK,
     InUse, Up, clientVars, stateVars, diskVars, lossVars
<1>6. CASE Query
  <2>1. Clients1 /\ State1
    BY <1>6 DEF Query, ClientsTypeOK, StateTypeOK, clientVars, stateVars
  <2>2. Task1 /\ InUse1
    BY <1>6 DEF Query, QueryReady, TaskTypeOK, InUse, Up, taskVars, stateVars
  <2>3. Disk1
    BY <1>6 DEF Query, DiskTypeOK, lossVars
  <2> QED BY <2>1, <2>2, <2>3
<1>7. CASE Answer
  <2>1. barrier \in Queries
    BY <1>7 DEF Answer, InUse
  <2>2. Clients1
    <3>1. status' \in [Requests -> Statuses] /\ permit' = permit
      BY <1>7 DEF Answer, ClientsTypeOK, Statuses
    <3>2. /\ answer' = [q \in Requests |-> answer'[q]]
          /\ \A q \in Appends \cup Checkpoints : answer'[q] \in Nat
          /\ \A q \in Queries : answer'[q] \in Records
      BY <1>7, <2>1 DEF Answer, ClientsTypeOK, StateTypeOK, Requests
    <3> QED BY <3>1, <3>2 DEF ClientsTypeOK
  <2>3. Task1 /\ State1 /\ Disk1 /\ InUse1
    BY <1>7 DEF Answer, TaskTypeOK, StateTypeOK, DiskTypeOK, InUse, Up,
       stateVars, diskVars, lossVars
  <2> QED BY <2>2, <2>3
<1>8. CASE Rotate
  <2> DEFINE open == LastLog(current)
             gen  == open + 1
  <2>1. gen \in Gens /\ gen # 0
    BY <1>8 DEF Rotate, HasGeneration, Gens
  <2> HIDE DEF gen, open
  <2>2. /\ current' = [current EXCEPT !.logs = @ \cup {gen}, !.pending = gen]
        /\ logs' = [logs EXCEPT ![gen] = {}]
        /\ synced' = [synced EXCEPT ![open] = logs[open], ![gen] = {}]
        /\ tear' = [tear EXCEPT ![gen] = 0]
        /\ damage' = [damage EXCEPT ![gen] = 0]
        /\ files' = files \cup {LogFile(gen)}
    BY <1>8 DEF Rotate, gen, open
  <2>3. Clients1
    BY <1>8 DEF Rotate, ClientsTypeOK, clientVars
  <2>4. State1
    <3>1. current.logs \cup {gen} \subseteq Gens /\ gen \in 0..MaxGen
      BY <2>1 DEF StateTypeOK, Currents, Gens
    <3>2. current' \in Currents
      BY <2>2, <3>1 DEF StateTypeOK, Currents
    <3>3. UNCHANGED <<nextLsn, machine, offset>>
      BY <1>8 DEF Rotate
    <3> QED BY <3>2, <3>3 DEF StateTypeOK
  <2>5. Task1 /\ InUse1
    BY <1>8, <2>1, <2>2 DEF Rotate, TaskTypeOK, InUse, Up, taskVars,
       StateTypeOK, Currents
  <2>6. Disk1
    <3>1. /\ logs' \in [Gens -> SUBSET Frames]
          /\ synced' \in [Gens -> SUBSET Frames]
          /\ tear' \in [Gens -> Nat] /\ damage' \in [Gens -> Nat]
      BY <2>1, <2>2 DEF DiskTypeOK
    <3>2. files' \subseteq {"snapshot", "journal"} \X Gens
      BY <2>1, <2>2 DEF DiskTypeOK, LogFile
    <3>3. UNCHANGED <<snaps, curFile, curSynced, losses, powerLosses>>
      BY <1>8 DEF Rotate, lossVars
    <3> QED BY <3>1, <3>2, <3>3 DEF DiskTypeOK
  <2> QED BY <2>3, <2>4, <2>5, <2>6
<1>9. CASE PublishRotation
  BY <1>9 DEF PublishRotation, ClientsTypeOK, TaskTypeOK, StateTypeOK,
     DiskTypeOK, InUse, Up, clientVars, taskVars, stateVars, lossVars
<1>10. CASE StartSnapshot
  BY <1>10 DEF StartSnapshot, ClientsTypeOK, TaskTypeOK, StateTypeOK,
     DiskTypeOK, InUse, Up, Snapshots, Currents, clientVars, lossVars
<1>11. ASSUME Stop, losses' \in Nat, UNCHANGED <<powerLosses, damage>>, pc # "down"
       PROVE  Clients1 /\ Task1 /\ State1 /\ Disk1 /\ InUse1
  <2>1. Clients1
    BY <1>11 DEF Stop, FailOutstanding, ClientsTypeOK, Statuses
  <2>2. Task1
    BY <1>11 DEF Stop, TaskTypeOK, Up
  <2>3. State1 /\ Disk1 /\ InUse1
    BY <1>11 DEF Stop, StateTypeOK, DiskTypeOK, InUse, stateVars, diskVars,
       lossVars
  <2> QED BY <2>1, <2>2, <2>3
<1>12. CASE RefuseRotation
  BY <1>11, <1>12 DEF RefuseRotation, DiskTypeOK, lossVars
<1>13. CASE Fail
  BY <1>11, <1>13 DEF Fail, Up, DiskTypeOK, lossVars
<1>14. CASE SyncPublication
  BY <1>14 DEF SyncPublication, ClientsTypeOK, TaskTypeOK, StateTypeOK,
     DiskTypeOK, InUse, Up, clientVars, taskVars, stateVars, logVars, lossVars
<1>15. CASE RemoveGarbage
  BY <1>15 DEF RemoveGarbage, ClientsTypeOK, TaskTypeOK, StateTypeOK,
     DiskTypeOK, InUse, Up, clientVars, taskVars, stateVars, logVars, lossVars
<1>16. CASE ClearGarbage
  BY <1>16 DEF ClearGarbage, ClientsTypeOK, TaskTypeOK, StateTypeOK, DiskTypeOK,
     InUse, Up, Currents, clientVars, taskVars, logVars, lossVars
<1>17. CASE FinishCheckpoint
  <2>1. Clients1
    BY <1>17 DEF FinishCheckpoint, ClientsTypeOK, Statuses
  <2>2. Task1 /\ InUse1
    BY <1>17 DEF FinishCheckpoint, TaskTypeOK, InUse, Up, NoSnapshot, Snapshots,
       Records, stateVars
  <2>3. State1 /\ Disk1
    BY <1>17 DEF FinishCheckpoint, StateTypeOK, DiskTypeOK, stateVars, logVars,
       lossVars
  <2> QED BY <2>1, <2>2, <2>3
<1>18. CASE Exit
  BY <1>18 DEF Exit, Idle, ClientsTypeOK, TaskTypeOK, StateTypeOK,
     DiskTypeOK, InUse, Up, clientVars, taskVars, stateVars, diskVars, lossVars
<1>19. CASE ReceiveAppends
  <2>1. PICK k \in 1..MaxBatch :
          /\ IsBatch(k)
          /\ LET next == IF k < MaxBatch /\ k < Len(queue) THEN queue[k + 1]
                                                           ELSE None
             IN  /\ writes' = writes \cup
                      {[lsn |-> nextLsn, reqs |-> SubSeq(queue, 1, k)]}
                 /\ barrier' = next
                 /\ queue' = SubSeq(queue, IF next = None THEN k + 1 ELSE k + 2,
                                    Len(queue))
                 /\ status' = [r \in Requests |->
                      IF \E i \in 1..k : queue[i] = r THEN "batch"
                      ELSE IF r = next THEN "barrier" ELSE status[r]]
          /\ nextLsn' = nextLsn + k
          /\ offset' = offset + k
    BY <1>19 DEF ReceiveAppends
  <2>2. /\ queue \in Seq(Requests) /\ Len(queue) \in Nat
        /\ k \in 1..Len(queue) /\ k \in Nat
    BY <2>1, LenProperties DEF IsBatch, TaskTypeOK
  <2>3. SubSeq(queue, 1, k) \in Records
    BY <2>1, <2>2, PrefixIn DEF IsBatch, Records
  <2>4. Clients1
    BY <1>19, <2>1 DEF ReceiveAppends, ClientsTypeOK, Statuses
  <2>5. State1 /\ Disk1
    BY <1>19, <2>1, <2>2 DEF ReceiveAppends, StateTypeOK, DiskTypeOK, diskVars,
       lossVars
  <2>6. writes' \subseteq Batches
    <3>1. [lsn |-> nextLsn, reqs |-> SubSeq(queue, 1, k)] \in Batches
      BY <2>3 DEF Batches, StateTypeOK
    <3> QED BY <2>1, <3>1 DEF TaskTypeOK
  <2>7. barrier' \in Queries \cup Checkpoints \cup {None}
    <3>1. CASE k < MaxBatch /\ k < Len(queue)
      <4>1. queue[k + 1] \in Requests
        BY <2>2, <3>1, ElementOfSeq
      <4> QED BY <2>1, <3>1, <4>1 DEF IsBatch, Requests
    <3>2. CASE ~(k < MaxBatch /\ k < Len(queue))
      BY <2>1, <3>2
    <3> QED BY <3>1, <3>2
  <2>8. queue' \in Seq(Requests)
    BY <2>1, <2>2
  <2>9. Task1 /\ InUse1
    BY <1>19, <2>6, <2>7, <2>8 DEF ReceiveAppends, Selecting, Idle, TaskTypeOK, InUse,
       Up
  <2> QED BY <2>4, <2>5, <2>9
<1>20. CASE ReceiveBarrier
  <2>1. queue # <<>> /\ queue \in Seq(Requests)
    BY <1>20 DEF ReceiveBarrier, ReceiveReady, TaskTypeOK
  <2>2. Head(queue) \in Queries \cup Checkpoints /\ Tail(queue) \in Seq(Requests)
    BY <1>20, <2>1 DEF ReceiveBarrier, Requests
  <2>3. Clients1
    BY <1>20 DEF ReceiveBarrier, ClientsTypeOK, Statuses
  <2>4. Task1 /\ InUse1
    BY <1>20, <2>2 DEF ReceiveBarrier, Selecting, Idle, TaskTypeOK, InUse, Up, stateVars
  <2>5. State1 /\ Disk1
    BY <1>20 DEF ReceiveBarrier, StateTypeOK, DiskTypeOK, stateVars, diskVars,
       lossVars
  <2> QED BY <2>3, <2>4, <2>5
<1>c. CASE ReceiveClosed
  BY <1>c DEF ReceiveClosed, ClientsTypeOK, TaskTypeOK, StateTypeOK, DiskTypeOK,
     InUse, Up, clientVars, taskVars, stateVars, diskVars, lossVars
<1>21. CASE CompleteWrite
  <2>1. PICK b \in writes :
          /\ writes' = writes \ {b}
          /\ logs' = [logs EXCEPT ![LastLog(current)] =
                        @ \cup Landed(b, Len(b.reqs))]
          /\ machine' = machine \o b.reqs
          /\ answer' = [r \in Requests |->
               IF r \in Callers(b) THEN LsnIn(b, r) ELSE answer[r]]
          /\ status' = [r \in Requests |->
               IF r \notin Callers(b) THEN status[r]
               ELSE IF r \in Durable THEN "sync" ELSE "done"]
          /\ durable' = durable \cup (Callers(b) \cap Durable)
          /\ permit' = IF permit \in Callers(b) \cap Written THEN None
                                                             ELSE permit
    BY <1>21 DEF CompleteWrite
  <2>2. b \in Batches /\ b.lsn \in Nat /\ b.reqs \in Seq(Appends)
    BY <2>1 DEF TaskTypeOK, Batches, Records
  <2>3. Callers(b) \subseteq Appends
    BY <2>2 DEF Callers
  <2>4. \A r \in Callers(b) : LsnIn(b, r) \in Nat
    BY <2>2, LsnInBatch DEF Records
  <2>5. Clients1
    <3>1. status' \in [Requests -> Statuses] /\ permit' \in {permit, None}
      BY <2>1 DEF ClientsTypeOK, Statuses
    <3>2. /\ answer' = [q \in Requests |-> answer'[q]]
          /\ \A q \in Appends \cup Checkpoints : answer'[q] \in Nat
          /\ \A q \in Queries : answer'[q] \in Records
      BY <2>1, <2>3, <2>4 DEF ClientsTypeOK, Requests
    <3> QED BY <3>1, <3>2 DEF ClientsTypeOK
  <2>6. Task1 /\ InUse1
    BY <1>21, <2>1 DEF CompleteWrite, Selecting, Idle, TaskTypeOK, InUse, Up
  <2>7. State1
    BY <1>21, <2>1, <2>2 DEF CompleteWrite, StateTypeOK, Records
  <2>8. Disk1
    <3>1. Landed(b, Len(b.reqs)) \subseteq Frames
      BY <2>2, LandedFrames DEF Records
    <3>2. logs' \in [Gens -> SUBSET Frames]
      BY <2>1, <3>1 DEF DiskTypeOK
    <3> QED BY <1>21, <3>2 DEF CompleteWrite, DiskTypeOK, lossVars
  <2> QED BY <2>5, <2>6, <2>7, <2>8
<1>22. CASE CompleteSync
  <2>1. Clients1
    BY <1>22 DEF CompleteSync, ClientsTypeOK, Statuses
  <2>2. Task1 /\ State1 /\ InUse1
    BY <1>22 DEF CompleteSync, Selecting, Idle, TaskTypeOK, StateTypeOK, InUse, Up,
       stateVars
  <2>3. Disk1
    BY <1>22 DEF CompleteSync, DiskTypeOK, lossVars
  <2> QED BY <2>1, <2>2, <2>3
<1>23. CASE FinishSnapshot
  <2>1. snapshot.gen \in Gens /\ snapshot.state \in Records
    BY <1>23 DEF FinishSnapshot, InUse, TaskTypeOK, Snapshots, Gens
  <2>2. Clients1
    BY <1>23 DEF FinishSnapshot, ClientsTypeOK
  <2>3. Task1 /\ State1 /\ InUse1
    BY <1>23 DEF FinishSnapshot, TaskTypeOK, StateTypeOK, InUse, Up, Snapshots,
       stateVars
  <2>4. Disk1
    BY <1>23, <2>1 DEF FinishSnapshot, DiskTypeOK, SnapFile, logVars, lossVars
  <2> QED BY <2>2, <2>3, <2>4
<1>24. CASE PublishSnapshot
  <2>1. /\ snapshot.gen \in Gens /\ snapshot.gen # 0
        /\ Len(snapshot.state) \in Nat
    BY <1>24 DEF PublishSnapshot, InUse, TaskTypeOK, Snapshots, Gens, Records
  <2>2. current.snapshot \in Gens
    BY <1>24 DEF PublishSnapshot, Selecting, Idle, InUse, StateTypeOK, Currents, Gens
  <2>3. /\ WithSnapshot(current, snapshot) \in Currents
        /\ WithSnapshot(current, snapshot).snapshot # 0
    <3>1. /\ current.garbage \subseteq {"snapshot", "journal"} \X Gens
          /\ current.logs \subseteq Gens
      BY DEF StateTypeOK, Currents
    <3>2. WithSnapshot(current, snapshot).garbage
            \subseteq {"snapshot", "journal"} \X Gens
      BY <2>2, <3>1 DEF WithSnapshot, SnapFile, LogFile
    <3>3. WithSnapshot(current, snapshot).logs \subseteq Gens
      BY <3>1 DEF WithSnapshot
    <3>4. 0 \in 0..MaxGen /\ snapshot.gen \in 0..MaxGen
      BY <2>1 DEF Gens
    <3> QED BY <2>1, <3>2, <3>3, <3>4 DEF WithSnapshot, Currents
  <2>4. Clients1 /\ Task1
    BY <1>24 DEF PublishSnapshot, ClientsTypeOK, TaskTypeOK, Up, clientVars,
       taskVars
  <2>5. State1 /\ Disk1 /\ InUse1
    BY <1>24, <2>3 DEF PublishSnapshot, StateTypeOK, DiskTypeOK, InUse, logVars,
       lossVars, taskVars
  <2> QED BY <2>4, <2>5
<1>25. ASSUME Abandon, losses' \in Nat, UNCHANGED <<powerLosses, damage>>, status' \in [Requests -> Statuses]
       PROVE  Clients1 /\ Task1 /\ State1 /\ Disk1 /\ InUse1
  <2>1. Clients1
    BY <1>25 DEF Abandon, ClientsTypeOK
  <2>2. Task1 /\ State1 /\ InUse1
    BY <1>25, Empties DEF Abandon, TaskTypeOK, StateTypeOK, InUse, Up
  <2>3. PICK cut \in [writes -> 0..MaxBatch] :
       /\ \A b \in writes : cut[b] <= Len(b.reqs)
       /\ writes # {} =>
            logs' = [logs EXCEPT ![LastLog(current)] =
                       @ \cup UNION {Landed(b, cut[b]) : b \in writes}]
       /\ writes = {} => logs' = logs
       /\ \/ tear' = tear
          \/ \E b \in writes :
               /\ cut[b] < Len(b.reqs)
               /\ tear' = [tear EXCEPT ![LastLog(current)] =
                             b.lsn + cut[b] + 1]
    BY <1>25 DEF Abandon
  <2>4. \A b \in writes : cut[b] \in Nat /\ b.lsn \in Nat /\ b.reqs \in Records
    BY <2>3 DEF TaskTypeOK, Batches
  <2>5. \A b \in writes : Landed(b, cut[b]) \subseteq Frames
    BY <2>3, <2>4, LandedFrames
  <2>6. logs' \in [Gens -> SUBSET Frames]
    <3>1. UNION {Landed(b, cut[b]) : b \in writes} \subseteq Frames
      BY <2>5
    <3>2. logs \in [Gens -> SUBSET Frames]
      BY DEF DiskTypeOK
    <3> QED BY <2>3, <3>1, <3>2
  <2>7. tear' \in [Gens -> Nat]
    <3>1. CASE tear' = tear
      BY <3>1 DEF DiskTypeOK
    <3>2. ASSUME NEW b \in writes,
                 tear' = [tear EXCEPT ![LastLog(current)] = b.lsn + cut[b] + 1]
          PROVE  tear' \in [Gens -> Nat]
      <4>1. b.lsn + cut[b] + 1 \in Nat
        BY <2>4
      <4> QED BY <3>2, <4>1 DEF DiskTypeOK
    <3> QED BY <2>3, <3>1, <3>2
  <2>8. Disk1
    BY <1>25, <2>6, <2>7 DEF Abandon, DiskTypeOK, lossVars
  <2> QED BY <2>1, <2>2, <2>8
<1>26. CASE Drained
  BY <1>25, <1>26 DEF Drained, ClientsTypeOK, DiskTypeOK, lossVars
<1>27. CASE ProcessLoss \/ Panic
  <2>1. status' \in [Requests -> Statuses]
    BY <1>27 DEF ProcessLoss, Panic, FailOutstanding, ClientsTypeOK, Statuses
  <2> QED BY <1>25, <1>27, <2>1 DEF ProcessLoss, Panic, DiskTypeOK, lossVars
<1>28. CASE PowerLoss
  <2>1. PICK cut, torn, bad : PowerCut(cut, torn, bad)
    BY <1>28, CutPicked
  <2>2. \A g \in Dirty : cut[g] \in Nat
    BY <2>1, CutsAreLsns DEF PowerCut
  <2>3. logs' \in [Gens -> SUBSET Frames] /\ synced' \in [Gens -> SUBSET Frames]
    BY <2>1 DEF DiskTypeOK, PowerCut
  <2>4. tear' \in [Gens -> Nat] /\ damage' \in [Gens -> Nat]
    BY <2>1, <2>2 DEF DiskTypeOK, PowerCut
  <2>5. Clients1 /\ Task1 /\ State1 /\ InUse1
    BY <1>28 DEF PowerLoss, ClientsTypeOK, TaskTypeOK, StateTypeOK, InUse, Up,
       clientVars, taskVars, stateVars
  <2>6. curFile' \in Currents /\ curSynced' \in Currents
    BY <1>28 DEF PowerLoss, DiskTypeOK
  <2>7. Disk1
    BY <1>28, <2>3, <2>4, <2>6 DEF PowerLoss, DiskTypeOK
  <2> QED BY <2>5, <2>7
<1>29. CASE Create
  <2>1. 1 \in Gens /\ FirstCurrent \in Currents
    BY DEF Gens, FirstCurrent, Currents
  <2>2. Clients1 /\ Task1 /\ State1 /\ InUse1
    BY <1>29 DEF Create, ClientsTypeOK, TaskTypeOK, StateTypeOK, InUse, Up,
       clientVars, taskVars, stateVars
  <2>3. Disk1
    BY <1>29, <2>1 DEF Create, DiskTypeOK, SnapFile, LogFile, Records, lossVars
  <2> QED BY <2>2, <2>3
<1>30. CASE Recover
  <2>1. /\ LastLsn(curFile, logs) \in Nat
        /\ Rebuilt(curFile, logs, snaps) \in Records
    BY <1>30, RebuiltIsLog DEF Recover, DiskTypeOK
  <2>2. curFile.snapshot # 0
    BY <1>30 DEF Recover, ReplayOk, DecodeOk
  <2>3. Cardinality(logs[LastLog(curFile)]) \in Nat
    BY <1>30, LastLogIn, FS_CardinalityType DEF Recover, ReplayOk, DiskTypeOK,
       Finite
  <2>4. Clients1 /\ Task1 /\ InUse1
    BY <1>30, <2>2 DEF Recover, ClientsTypeOK, TaskTypeOK, InUse, Up,
       clientVars, taskVars
  <2>5. State1
    BY <1>30, <2>1, <2>3 DEF Recover, StateTypeOK, DiskTypeOK
  <2>6. Disk1
    BY <1>30 DEF Recover, DiskTypeOK, lossVars
  <2> QED BY <2>4, <2>5, <2>6
<1>e. CASE RefuseRecovery
  BY <1>1, <1>e DEF RefuseRecovery
<1>31. CASE RemoveLeftover
  BY <1>31 DEF RemoveLeftover, ClientsTypeOK, TaskTypeOK, StateTypeOK,
     DiskTypeOK, InUse, Up, clientVars, taskVars, stateVars, logVars, lossVars
<1>32. CASE Republish
  <2> DEFINE clean == [current EXCEPT !.garbage = {}, !.pending = 0]
  <2>1. clean \in Currents /\ clean.snapshot = current.snapshot
    <3>1. 0 \in 0..MaxGen
      OBVIOUS
    <3> QED BY <3>1 DEF StateTypeOK, Currents
  <2>2. current' = clean /\ curFile' = clean /\ curSynced' = curFile
    BY <1>32 DEF Republish
  <2> HIDE DEF clean
  <2>3. State1 /\ Disk1
    BY <1>32, <2>1, <2>2 DEF Republish, StateTypeOK, DiskTypeOK, logVars, lossVars
  <2>4. Clients1 /\ Task1 /\ InUse1
    BY <1>32, <2>1, <2>2 DEF Republish, ClientsTypeOK, TaskTypeOK, InUse, Up,
       clientVars, taskVars
  <2> QED BY <2>3, <2>4
<1>33. CASE Opened
  BY <1>33 DEF Opened, ClientsTypeOK, TaskTypeOK, StateTypeOK, DiskTypeOK,
     InUse, Up, clientVars, taskVars, stateVars, logVars, lossVars
<1> QED
  BY <1>1, <1>2, <1>3, <1>4, <1>5, <1>6, <1>7, <1>8, <1>9, <1>10, <1>12,
     <1>13, <1>14, <1>15, <1>16, <1>17, <1>18, <1>19, <1>20, <1>21, <1>22,
     <1>23, <1>24, <1>26, <1>27, <1>28, <1>29, <1>30, <1>31, <1>32, <1>33,
     <1>c, <1>e
  DEF Next, Clients, Writer, Receive, Recovery

(* A directory that was never opened satisfies TypeInv.                    *)
LEMMA TypeInit == Init => TypeInv
<1> SUFFICES ASSUME Init PROVE TypeInv
  OBVIOUS
<1>1. ClientsTypeOK
  BY ConstantsAssumption, Empties DEF Init, ClientsTypeOK, Statuses, Requests
<1>2. TaskTypeOK /\ StateTypeOK /\ InUse
  BY Empties DEF Init, TaskTypeOK, StateTypeOK, InUse, NoSnapshot
<1>3. DiskTypeOK
  BY Empties DEF Init, DiskTypeOK
<1>4. Finite
  BY FS_EmptySet DEF Init, Finite
<1> QED BY <1>1, <1>2, <1>3, <1>4 DEF TypeInv, TypeOK

(* Every step of callers, writer, recovery and losses keeps TypeOK, for    *)
(* any number of requests, generations and losses.                         *)
THEOREM TypeCorrect == Spec => []TypeOK
<1>1. TypeInv /\ [Next]_vars => TypeInv'
  BY TypeStep
<1>2. TypeInv => TypeOK
  BY DEF TypeInv
<1> QED BY TypeInit, <1>1, <1>2, PTL DEF Spec

-----------------------------------------------------------------------------
(* Why CheckpointCovers holds.  A checkpoint carries, as answer[c], the    *)
(* LSN that was applied when it was asked for.  That LSN is covered by the *)
(* machine while c waits, by the snapshot in progress once c is in         *)
(* running, and by the published CURRENT when running is answered.         *)

Waiting == {queue[i] : i \in 1..Len(queue)} \cup {barrier} \cup pending

(* The LSNs that the two copies of CURRENT, the snapshot in progress and   *)
(* the machine have reached are in this order.                             *)
LsnOrder ==
  /\ curSynced.lsn <= curFile.lsn
  /\ pc # "down" => current.lsn = curFile.lsn /\ current.lsn <= Len(machine)
  /\ snapshot.stage # "none" => /\ current.lsn <= Len(snapshot.state)
                                /\ Len(snapshot.state) <= Len(machine)
  /\ pc \in {"published", "cleanup", "cleared"} =>
       current.lsn = Len(snapshot.state)

(* Nobody waits on a stream that is not open, or on a snapshot that is not *)
(* in progress.                                                            *)
Vacant ==
  /\ pc \in {"down", "repair", "republish"} =>
       /\ snapshot.stage = "none"
       /\ Waiting = {None}
  /\ snapshot.stage = "none" => running = {}

Carried ==
  /\ \A c \in Checkpoints \cap Waiting :
       status[c] # "idle" /\ answer[c] <= Len(machine)
  /\ \A c \in running :
       status[c] # "idle" /\ answer[c] <= Len(snapshot.state)

CoverInv == LsnOrder /\ Vacant /\ Carried /\ CheckpointCovers

(* One step keeps CoverInv.                                                *)
LEMMA CoverStep ==
  ASSUME TypeInv, TypeInv', CoverInv, [Next]_vars
  PROVE  CoverInv'
<1> USE ConstantsAssumption
<1> DEFINE Order1 == LsnOrder'
           Vacant1 == Vacant'
           Carried1 == Carried'
           Covers1 == CheckpointCovers'
           Goal == Order1 /\ Vacant1 /\ Carried1 /\ Covers1
<1> SUFFICES Goal
  BY DEF CoverInv
<1>t. /\ curSynced.lsn \in Nat /\ curFile.lsn \in Nat /\ current.lsn \in Nat
      /\ machine \in Seq(Appends) /\ Len(machine) \in Nat
      /\ Len(snapshot.state) \in Nat /\ queue \in Seq(Requests)
      /\ Len(queue) \in Nat
      /\ \A c \in Checkpoints : answer[c] \in Nat
      /\ running \subseteq Checkpoints /\ pending \subseteq Checkpoints
      /\ status \in [Requests -> Statuses]
      /\ Checkpoints \subseteq Requests
      /\ \A c \in Checkpoints : c # None /\ c \notin Appends /\ c \notin Queries
  BY LenProperties DEF TypeInv, TypeOK, ClientsTypeOK, TaskTypeOK, StateTypeOK,
     DiskTypeOK, Currents, Snapshots, Records, Requests
<1>i. LsnOrder /\ Vacant /\ Carried /\ CheckpointCovers
  BY DEF CoverInv
<1> USE <1>i
<1>1. ASSUME UNCHANGED <<clientVars, queue, barrier, pending, running, snapshot,
                         machine, current, curFile>>,
             pc' = pc \/ {pc, pc'} \subseteq {"loop", "query", "select"}
               \/ {pc, pc'} \subseteq {"published", "cleanup", "cleared"},
             curSynced' \in {curSynced, curFile}
      PROVE  Goal
  <2>1. Order1
    BY <1>1, <1>t DEF LsnOrder
  <2>2. Vacant1 /\ Carried1
    BY <1>1 DEF Vacant, Carried, Waiting, clientVars
  <2>3. Covers1
    BY <1>1, <1>t DEF LsnOrder, CheckpointCovers, clientVars
  <2> QED BY <2>1, <2>2, <2>3
<1>2. CASE UNCHANGED vars \/ Close \/ StartSync \/ Query \/ ReceiveClosed
            \/ RemoveGarbage \/ SyncPublication \/ RefuseRecovery
  BY <1>1, <1>2 DEF vars, Close, StartSync, Query, ReceiveClosed, RemoveGarbage,
     SyncPublication, RefuseRecovery, clientVars, taskVars, stateVars, diskVars
<1>3. ASSUME NEW r \in Requests, Submit(r)
      PROVE  Goal
  <2>1. Order1
    BY <1>3 DEF Submit, LsnOrder, stateVars, diskVars
  <2>2. Waiting' = Waiting \cup {r}
    BY <1>3, <1>t DEF Submit, Waiting
  <2>3. pc' = pc /\ pc \notin {"down", "repair", "republish"}
    BY <1>3 DEF Submit, Up
  <2>4. Vacant1
    BY <1>3, <2>3 DEF Submit, Vacant
  <2>5. \A c \in Checkpoints :
          /\ status'[c] # "idle" <=> status[c] # "idle" \/ c = r
          /\ status'[c] = "done" => c # r /\ status[c] = "done"
          /\ c # r => answer'[c] = answer[c]
          /\ c = r => answer'[c] = Len(machine) /\ status[c] = "idle"
    BY <1>3, <1>t DEF Submit, TypeInv, TypeOK, ClientsTypeOK
  <2>6. Carried1
    BY <1>3, <1>t, <2>2, <2>5 DEF Submit, Carried, stateVars
  <2>7. Covers1
    BY <1>3, <2>5 DEF Submit, CheckpointCovers, diskVars
  <2> QED BY <2>1, <2>4, <2>6, <2>7
<1>4. ASSUME UNCHANGED <<answer, snapshot, machine, current, curFile, curSynced>>,
             pc' = pc \/ {pc, pc'} \subseteq {"loop", "select"},
             pc \notin {"down", "repair", "republish"},
             running' = running,
             Checkpoints \cap Waiting' \subseteq Waiting,
             \A c \in Checkpoints :
               /\ status[c] # "idle" => status'[c] # "idle"
               /\ status'[c] = "done" => status[c] = "done"
      PROVE  Goal
  <2>1. Order1 /\ Vacant1
    BY <1>4 DEF LsnOrder, Vacant
  <2>2. Carried1
    BY <1>4, <1>t DEF Carried
  <2>3. Covers1
    BY <1>4 DEF CheckpointCovers
  <2> QED BY <2>1, <2>2, <2>3
<1>5. CASE Coalesce
  <2>1. Waiting' \subseteq Waiting \cup {None}
    BY <1>5 DEF Coalesce, Waiting
  <2>2. \A c \in Checkpoints : status'[c] \in {status[c], "cut"}
    BY <1>5, <1>t DEF Coalesce
  <2> QED BY <1>4, <1>5, <1>t, <2>1, <2>2 DEF Coalesce, stateVars, diskVars
<1>6. CASE Answer
  <2>1. barrier \in Queries
    BY <1>6 DEF Answer, TypeInv, InUse
  <2>2. \A c \in Checkpoints : status'[c] = status[c] /\ answer'[c] = answer[c]
    BY <1>6, <1>t, <2>1 DEF Answer, TypeInv, TypeOK, ClientsTypeOK
  <2>3. Waiting' \subseteq Waiting \cup {None}
    BY <1>6 DEF Answer, Waiting
  <2>4. Order1 /\ Vacant1
    BY <1>6 DEF Answer, LsnOrder, Vacant, stateVars, diskVars
  <2>5. Carried1
    BY <1>6, <1>t, <2>2, <2>3 DEF Answer, Carried, stateVars
  <2>6. Covers1
    BY <1>6, <2>2 DEF Answer, CheckpointCovers, diskVars
  <2> QED BY <2>4, <2>5, <2>6
<1>7. CASE Rotate \/ PublishRotation
  <2>1. /\ UNCHANGED <<clientVars, queue, barrier, pending, running, snapshot,
                       machine, curSynced>>
        /\ pc \in {"loop", "rotate"} /\ pc' \in {"rotate", "rotated"}
        /\ current'.lsn = current.lsn
        /\ curFile'.lsn \in {curFile.lsn, current.lsn}
    BY <1>7 DEF Rotate, PublishRotation, clientVars, taskVars, stateVars,
       TypeInv, TypeOK, StateTypeOK, Currents
  <2>2. Order1
    BY <2>1 DEF LsnOrder
  <2>3. Vacant1 /\ Carried1 /\ Covers1
    BY <2>1 DEF Vacant, Carried, Waiting, CheckpointCovers, clientVars
  <2> QED BY <2>2, <2>3
<1>8. CASE StartSnapshot
  <2>1. snapshot'.state = machine /\ snapshot'.stage = "encoding"
    BY <1>8 DEF StartSnapshot
  <2>2. Order1
    BY <1>8, <1>t, <2>1 DEF StartSnapshot, LsnOrder
  <2>3. Vacant1
    BY <1>8, <2>1 DEF StartSnapshot, Vacant
  <2>4. pending \subseteq Checkpoints \cap Waiting /\ Waiting' \subseteq Waiting
    BY <1>8, <1>t DEF StartSnapshot, Waiting
  <2>5. Carried1
    BY <1>8, <2>1, <2>4 DEF StartSnapshot, Carried, clientVars
  <2>6. Covers1
    BY <1>8, <1>t DEF StartSnapshot, LsnOrder, CheckpointCovers, clientVars
  <2> QED BY <2>2, <2>3, <2>5, <2>6
<1>9. ASSUME Stop, pc # "down" PROVE Goal
  <2>1. Waiting' = {None} /\ running' = {} /\ pc' = "draining"
    BY <1>9 DEF Stop, Waiting
  <2>2. \A c \in Checkpoints : status'[c] \in {status[c], "failed"}
    BY <1>9, <1>t DEF Stop, FailOutstanding
  <2>3. Order1
    BY <1>9 DEF Stop, LsnOrder, stateVars, diskVars
  <2>4. Vacant1 /\ Carried1
    BY <1>t, <2>1 DEF Vacant, Carried
  <2>5. Covers1
    BY <1>9, <2>2 DEF Stop, CheckpointCovers, diskVars
  <2> QED BY <2>3, <2>4, <2>5
<1>10. CASE RefuseRotation \/ Fail
  BY <1>9, <1>10 DEF RefuseRotation, Fail, Up
<1>11. CASE ClearGarbage
  <2>1. current'.lsn = current.lsn /\ curFile'.lsn = current.lsn
    BY <1>11 DEF ClearGarbage, TypeInv, TypeOK, StateTypeOK, Currents
  <2>2. Order1
    BY <1>11, <2>1 DEF ClearGarbage, LsnOrder, taskVars
  <2>3. Vacant1 /\ Carried1 /\ Covers1
    BY <1>11 DEF ClearGarbage, Vacant, Carried, Waiting, CheckpointCovers,
       clientVars, taskVars
  <2> QED BY <2>2, <2>3
<1>12. CASE FinishCheckpoint
  <2>1. snapshot'.stage = "none" /\ running' = {} /\ Waiting' = Waiting
    BY <1>12 DEF FinishCheckpoint, NoSnapshot, Waiting
  <2>2. Order1
    BY <1>12, <1>t, <2>1 DEF FinishCheckpoint, LsnOrder, stateVars
  <2>3. Vacant1
    BY <1>12, <2>1 DEF FinishCheckpoint, Vacant
  <2>4. \A c \in Checkpoints :
          status'[c] = IF c \in running THEN "done" ELSE status[c]
    BY <1>12, <1>t DEF FinishCheckpoint
  <2>5. Carried1
    BY <1>12, <1>t, <2>1, <2>4 DEF FinishCheckpoint, Carried, stateVars
  <2>6. \A c \in running : answer[c] <= curSynced'.lsn
    BY <1>12, <1>t DEF FinishCheckpoint, Carried, LsnOrder
  <2>7. curSynced.lsn <= curSynced'.lsn /\ curSynced'.lsn \in Nat
    BY <1>12, <1>t DEF FinishCheckpoint, LsnOrder
  <2>8. Covers1
    BY <1>12, <1>t, <2>4, <2>6, <2>7 DEF FinishCheckpoint, CheckpointCovers
  <2> QED BY <2>2, <2>3, <2>5, <2>8
<1>13. CASE Exit
  <2>1. Waiting' = {None}
    BY <1>13, <1>t DEF Exit, Waiting, taskVars
  <2>2. Order1
    BY <1>13 DEF Exit, LsnOrder, taskVars, stateVars, diskVars
  <2>3. Vacant1 /\ Carried1
    BY <1>13, <1>t, <2>1 DEF Exit, Vacant, Carried, taskVars, clientVars
  <2>4. Covers1
    BY <1>13 DEF Exit, CheckpointCovers, clientVars, diskVars
  <2> QED BY <2>2, <2>3, <2>4
<1>14. CASE ReceiveAppends
  <2>1. PICK k \in 1..MaxBatch :
          /\ IsBatch(k)
          /\ LET next == IF k < MaxBatch /\ k < Len(queue) THEN queue[k + 1]
                                                           ELSE None
             IN  /\ barrier' = next
                 /\ queue' = SubSeq(queue, IF next = None THEN k + 1 ELSE k + 2,
                                    Len(queue))
                 /\ status' = [r \in Requests |->
                      IF \E i \in 1..k : queue[i] = r THEN "batch"
                      ELSE IF r = next THEN "barrier" ELSE status[r]]
    BY <1>14 DEF ReceiveAppends
  <2> DEFINE next == IF k < MaxBatch /\ k < Len(queue) THEN queue[k + 1] ELSE None
             from == IF next = None THEN k + 1 ELSE k + 2
  <2>2. barrier' = next /\ queue' = SubSeq(queue, from, Len(queue))
    BY <2>1
  <2>3. next # None => next \in {queue[i] : i \in 1..Len(queue)}
    <3>1. next # None => k + 1 \in 1..Len(queue) /\ next = queue[k + 1]
      BY <1>t, <2>1
    <3> QED BY <3>1
  <2>4. from \in 1..Len(queue) + 2
    BY <1>t, <2>1 DEF IsBatch
  <2> HIDE DEF next, from
  <2>5. \A i \in 1..Len(queue') : \E j \in 1..Len(queue) : queue'[i] = queue[j]
    <3>1. CASE from <= Len(queue)
      <4>1. /\ Len(queue') = Len(queue) - from + 1
            /\ \A i \in 1..Len(queue') : queue'[i] = queue[from + i - 1]
        BY <1>t, <2>2, <2>4, <3>1
      <4>2. \A i \in 1..Len(queue') : from + i - 1 \in 1..Len(queue)
        BY <1>t, <2>4, <3>1, <4>1
      <4> QED BY <4>1, <4>2
    <3>2. CASE from > Len(queue)
      <4>1. Len(queue') = 0
        BY <1>t, <2>2, <2>4, <3>2
      <4> QED BY <4>1
    <3> QED BY <1>t, <2>4, <3>1, <3>2
  <2>6. Waiting' \subseteq Waiting \cup {None}
    BY <1>14, <2>2, <2>3, <2>5 DEF ReceiveAppends, Waiting
  <2>7. \A c \in Checkpoints : status'[c] \in {status[c], "batch", "barrier"}
    BY <1>t, <2>1
  <2> QED BY <1>4, <1>14, <1>t, <2>6, <2>7 DEF ReceiveAppends, Selecting, Idle, diskVars
<1>15. CASE ReceiveBarrier
  <2>1. queue # <<>>
    BY <1>15 DEF ReceiveBarrier, ReceiveReady
  <2>2. /\ Head(queue) \in {queue[i] : i \in 1..Len(queue)}
        /\ {queue'[i] : i \in 1..Len(queue')} \subseteq {queue[i] : i \in 1..Len(queue)}
    BY <1>15, <1>t, <2>1 DEF ReceiveBarrier
  <2>3. Waiting' \subseteq Waiting
    BY <1>15, <2>2 DEF ReceiveBarrier, Waiting
  <2>4. \A c \in Checkpoints : status'[c] \in {status[c], "barrier"}
    BY <1>15, <1>t DEF ReceiveBarrier
  <2> QED BY <1>4, <1>15, <1>t, <2>3, <2>4 DEF ReceiveBarrier, Selecting, Idle, stateVars,
         diskVars
<1>16. CASE CompleteWrite
  <2>1. PICK b \in writes :
          /\ machine' = machine \o b.reqs
          /\ answer' = [r \in Requests |->
               IF r \in Callers(b) THEN LsnIn(b, r) ELSE answer[r]]
          /\ status' = [r \in Requests |->
               IF r \notin Callers(b) THEN status[r]
               ELSE IF r \in Durable THEN "sync" ELSE "done"]
    BY <1>16 DEF CompleteWrite
  <2>2. b.reqs \in Seq(Appends) /\ Len(b.reqs) \in Nat
    BY <2>1, LenProperties DEF TypeInv, TypeOK, TaskTypeOK, Batches, Records
  <2>3. Callers(b) \subseteq Appends
    BY <2>2 DEF Callers
  <2>4. Len(machine') = Len(machine) + Len(b.reqs)
    BY <1>t, <2>1, <2>2
  <2>5. \A c \in Checkpoints : status'[c] = status[c] /\ answer'[c] = answer[c]
    BY <1>t, <2>1, <2>3
  <2>6. Waiting' = Waiting /\ running' = running /\ snapshot' = snapshot
    BY <1>16 DEF CompleteWrite, Waiting
  <2>7. Order1
    BY <1>16, <1>t, <2>2, <2>4, <2>6 DEF CompleteWrite, Selecting, Idle, LsnOrder
  <2>8. Vacant1
    <3>1. pc' = "loop"
      BY <1>16 DEF CompleteWrite
    <3> QED BY <2>6, <3>1 DEF Vacant
  <2>9. Carried1
    BY <1>t, <2>2, <2>4, <2>5, <2>6 DEF Carried
  <2>10. Covers1
    BY <1>16, <2>5 DEF CompleteWrite, CheckpointCovers
  <2> QED BY <2>7, <2>8, <2>9, <2>10
<1>17. CASE CompleteSync
  <2>1. \A c \in Checkpoints : status'[c] = status[c]
    BY <1>17, <1>t DEF CompleteSync, Covered, TypeInv, TypeOK, TaskTypeOK, Appends
  <2>2. Waiting' = Waiting
    BY <1>17 DEF CompleteSync, Waiting
  <2> QED BY <1>4, <1>17, <2>1, <2>2 DEF CompleteSync, Selecting, Idle, stateVars
<1>18. CASE FinishSnapshot
  <2>1. /\ snapshot'.state = snapshot.state
        /\ snapshot'.stage = "final" /\ snapshot.stage = "encoding"
    BY <1>18 DEF FinishSnapshot, TypeInv, TypeOK, TaskTypeOK, Snapshots
  <2>2. Order1
    BY <1>18, <2>1 DEF FinishSnapshot, LsnOrder, stateVars
  <2>3. Vacant1 /\ Carried1 /\ Covers1
    BY <1>18, <2>1 DEF FinishSnapshot, Vacant, Carried, Waiting,
       CheckpointCovers, stateVars
  <2> QED BY <2>2, <2>3
<1>19. CASE PublishSnapshot
  <2>1. current'.lsn = Len(snapshot.state) /\ curFile'.lsn = Len(snapshot.state)
    BY <1>19 DEF PublishSnapshot, WithSnapshot
  <2>2. snapshot.stage # "none" /\ snapshot' = snapshot
    BY <1>19 DEF PublishSnapshot, taskVars
  <2>3. Order1
    BY <1>19, <1>t, <2>1, <2>2 DEF PublishSnapshot, Selecting, Idle, LsnOrder
  <2>4. Vacant1 /\ Carried1 /\ Covers1
    BY <1>19 DEF PublishSnapshot, Vacant, Carried, Waiting, CheckpointCovers,
       clientVars, taskVars
  <2> QED BY <2>3, <2>4
<1>20. ASSUME Abandon,
              \A c \in Checkpoints : status'[c] \in {status[c], "failed"}
       PROVE  Goal
  <2>1. Waiting' = {None} /\ running' = {} /\ pc' = "down"
    BY <1>20 DEF Abandon, Waiting
  <2>2. snapshot'.stage = "none"
    BY <1>20 DEF Abandon, NoSnapshot
  <2>3. Order1
    BY <1>20, <2>1, <2>2 DEF Abandon, LsnOrder
  <2>4. Vacant1 /\ Carried1
    BY <1>t, <2>1, <2>2 DEF Vacant, Carried
  <2>5. Covers1
    BY <1>20 DEF Abandon, CheckpointCovers
  <2> QED BY <2>3, <2>4, <2>5
<1>21. CASE Drained
  BY <1>20, <1>21 DEF Drained
<1>22. CASE ProcessLoss \/ Panic
  <2>1. \A c \in Checkpoints : status'[c] \in {status[c], "failed"}
    BY <1>22, <1>t DEF ProcessLoss, Panic, FailOutstanding
  <2> QED BY <1>20, <1>22, <2>1 DEF ProcessLoss, Panic
<1>23. CASE PowerLoss
  <2>1. /\ curFile' \in {curFile, curSynced} /\ curSynced' = curFile'
        /\ pc = "down" /\ pc' = pc
        /\ UNCHANGED <<clientVars, taskVars, stateVars>>
    BY <1>23 DEF PowerLoss
  <2>2. Order1
    BY <1>t, <2>1 DEF LsnOrder, Vacant, taskVars
  <2>3. Vacant1 /\ Carried1
    BY <2>1 DEF Vacant, Carried, Waiting, clientVars, taskVars, stateVars
  <2>4. Covers1
    BY <1>t, <2>1 DEF LsnOrder, CheckpointCovers, clientVars
  <2> QED BY <2>2, <2>3, <2>4
<1>24. CASE Create
  <2>1. curSynced.lsn <= curFile'.lsn
    BY <1>24, <1>t DEF Create, FirstCurrent, NoCurrent, LsnOrder
  <2>2. Order1
    BY <1>24, <2>1 DEF Create, LsnOrder, Vacant, taskVars, stateVars
  <2>3. Vacant1 /\ Carried1 /\ Covers1
    BY <1>24 DEF Create, Vacant, Carried, Waiting, CheckpointCovers, clientVars,
       taskVars, stateVars
  <2> QED BY <2>2, <2>3
<1>25. CASE Recover
  <2>1. curFile.lsn <= Len(machine')
    <3>1. curFile.lsn <= LastLsn(curFile, logs)
          /\ Len(Rebuilt(curFile, logs, snaps)) = LastLsn(curFile, logs)
      BY <1>25, RebuiltIsLog DEF Recover, TypeInv, TypeOK, DiskTypeOK
    <3> QED BY <1>25, <3>1 DEF Recover
  <2>2. /\ Waiting' = {None} /\ running = {} /\ snapshot.stage = "none"
        /\ UNCHANGED <<clientVars, taskVars, curFile, curSynced>>
        /\ current' = curFile /\ pc' = "repair"
    BY <1>25 DEF Recover, Vacant, Waiting, taskVars
  <2>3. Order1
    BY <2>1, <2>2 DEF LsnOrder, taskVars
  <2>4. Vacant1 /\ Carried1 /\ Covers1
    BY <1>t, <2>2 DEF Vacant, Carried, CheckpointCovers, clientVars, taskVars
  <2> QED BY <2>3, <2>4
<1>26. CASE RemoveLeftover \/ Republish \/ Opened
  <2>1. /\ UNCHANGED <<clientVars, taskVars, machine>>
        /\ curSynced' = curFile
        /\ current'.lsn = current.lsn
        /\ curFile'.lsn \in {curFile.lsn, current.lsn}
        /\ pc \in {"repair", "republish"}
        /\ pc' \in {"repair", "republish", "loop"}
    BY <1>26 DEF RemoveLeftover, Republish, Opened, stateVars, TypeInv, TypeOK,
       StateTypeOK, Currents
  <2>2. Order1
    BY <1>t, <2>1 DEF LsnOrder, taskVars
  <2>3. Vacant1 /\ Carried1
    BY <2>1 DEF Vacant, Carried, Waiting, clientVars, taskVars
  <2>4. Covers1
    BY <1>t, <2>1 DEF LsnOrder, CheckpointCovers, clientVars
  <2> QED BY <2>2, <2>3, <2>4
<1> QED
  BY <1>2, <1>3, <1>5, <1>6, <1>7, <1>8, <1>10, <1>11, <1>12, <1>13, <1>14,
     <1>15, <1>16, <1>17, <1>18, <1>19, <1>21, <1>22, <1>23, <1>24, <1>25,
     <1>26
  DEF Next, Clients, Writer, Receive, Recovery

(* An empty directory has nobody to cover.                                 *)
LEMMA CoverInit == Init => CoverInv
<1> SUFFICES ASSUME Init PROVE CoverInv
  OBVIOUS
<1>1. LsnOrder /\ Waiting = {None}
  BY DEF Init, LsnOrder, Waiting, NoCurrent, NoSnapshot
<1>2. Vacant
  BY <1>1 DEF Init, Vacant, NoSnapshot
<1>3. Carried
  BY <1>1, ConstantsAssumption DEF Init, Carried, Requests
<1>4. CheckpointCovers
  BY DEF Init, CheckpointCovers, Requests
<1> QED BY <1>1, <1>2, <1>3, <1>4 DEF CoverInv

(* A checkpoint that returned is covered by the snapshot that CURRENT      *)
(* durably names, whatever was coalesced, interrupted or lost.             *)
THEOREM CheckpointCorrect == Spec => []CheckpointCovers
<1>1. Init => TypeInv /\ CoverInv
  BY TypeInit, CoverInit
<1>2. TypeInv /\ CoverInv /\ [Next]_vars => (TypeInv /\ CoverInv)'
  BY TypeStep, CoverStep
<1>3. CoverInv => CheckpointCovers
  BY DEF CoverInv
<1> QED BY <1>1, <1>2, <1>3, PTL DEF Spec

-----------------------------------------------------------------------------
(***************************************************************************)
(* Why a stream of the journal can be opened after any crash and then has  *)
(* everything it acknowledged, for every set of callers, every limit and   *)
(* every number of losses.                                                 *)
(*                                                                         *)
(* The argument is about one sequence of records h, the log that the       *)
(* stream stands for, and the length s of its durable part.  No variable   *)
(* has h: it is spread over a snapshot and several log files, and it may   *)
(* be read through any of three copies of CURRENT, one in memory, one that *)
(* a process would read and one that a power loss would leave.  The        *)
(* invariant says that all of them hold the same h (DataInv), that their   *)
(* files exist and nothing else does (SetsInv), and that the writer has at *)
(* most one batch in flight, which starts where h ends (Flight, Tickets).  *)
(* Each step lemma names the h and the s after the step (Onward).          *)
(***************************************************************************)

-----------------------------------------------------------------------------
(* Numbers.                                                                *)

(* A nonempty set of naturals has a least element.                         *)
LEMMA LeastOf ==
  ASSUME NEW S, S \subseteq Nat, S # {}
  PROVE  \E u \in S : \A v \in S : u <= v
<1> DEFINE R == {p \in Nat \X Nat : p[1] < p[2]}
<1>1. R = OpToRel(<, Nat)
  BY Zenon DEF OpToRel
<1>2. IsWellFoundedOn(R, Nat)
  BY <1>1, NatLessThanWellFounded, Zenon
<1>3. PICK u \in S : \A v \in S : ~(<<v, u>> \in R)
  <2> HIDE DEF R
  <2> QED BY <1>2, WFMin, Zenon
<1>4. \A v \in S : v < u => <<v, u>> \in R
  OBVIOUS
<1>5. \A v \in S : ~(v < u)
  <2> HIDE DEF R
  <2> QED BY <1>3, <1>4, Zenon
<1>6. \A v \in S : u <= v
  BY <1>5
<1> QED BY <1>6

(* A bounded one has a greatest.                                           *)
LEMMA GreatestOf ==
  ASSUME NEW S, NEW n \in Nat, S \subseteq 0..n, S # {}
  PROVE  \E u \in S : \A v \in S : v <= u
<1> DEFINE M == {k \in 0..n : n - k \in S}
<1>1. M \subseteq Nat
  OBVIOUS
<1>2. M # {}
  <2>1. PICK v \in S : TRUE
    OBVIOUS
  <2>2. n - v \in 0..n /\ n - (n - v) = v
    BY <2>1
  <2> QED BY <2>1, <2>2
<1>3. PICK k \in M : \A j \in M : k <= j
  <2> HIDE DEF M
  <2> QED BY <1>1, <1>2, LeastOf
<1>4. n - k \in S /\ k \in 0..n
  BY <1>3
<1>5. ASSUME NEW v \in S PROVE v <= n - k
  <2>1. v \in 0..n /\ n - v \in 0..n /\ n - (n - v) = v
    OBVIOUS
  <2>2. n - v \in M
    BY <2>1
  <2>3. k <= n - v
    BY <1>3, <2>2
  <2> QED BY <2>1, <2>3, <1>4
<1> QED BY <1>4, <1>5

-----------------------------------------------------------------------------
(* The writer and its callers.                                             *)

(* What is in flight: at most one batch, numbered from the LSN the machine *)
(* has reached, and nothing at all while the stream is closed or being     *)
(* opened; a rotation or a query has no batch beside it.                   *)
Flight ==
  /\ \A a, b \in writes : a = b
  /\ writes = {} => nextLsn = Len(machine)
  /\ \A b \in writes : b.lsn = Len(machine) /\ nextLsn = b.lsn + Len(b.reqs)
  /\ writes # {} => pc \in {"loop", "published", "cleanup", "cleared", "draining"}
  /\ ~syncing => sync = {}
  /\ snapshot.stage # "none" =>
       pc \in {"loop", "query", "select", "published", "cleanup", "cleared",
              "draining"}
  /\ pc \in {"down", "repair", "republish"} =>
       /\ durable = {} /\ sync = {} /\ queue = <<>> /\ barrier = None
       /\ pending = {} /\ running = {}
  /\ snapshot.stage = "none" => running = {}

(* Where a request is in the writer agrees with what its caller waits for; *)
(* the channel holds a request once.                                       *)
Tickets ==
  Up =>
    /\ \A i \in 1..Len(queue) : status[queue[i]] = "queued"
    /\ \A i, j \in 1..Len(queue) : queue[i] = queue[j] => i = j
    /\ barrier # None => status[barrier] = "barrier"
    /\ \A b \in writes : \A r \in Callers(b) : status[r] = "batch"
    /\ \A r \in durable \cup sync : status[r] \in {"sync", "done"}
    /\ \A r \in pending \cup running : status[r] = "cut"
    /\ pending \cap running = {}

(* One step keeps Flight.                                                  *)
LEMMA FlightStep ==
  ASSUME TypeInv, Flight, [Next]_vars
  PROVE  Flight'
<1>t. /\ Len(machine) \in Nat /\ nextLsn \in Nat
      /\ queue \in Seq(Requests) /\ Len(queue) \in Nat
      /\ machine \in Seq(Appends)
      /\ \A b \in writes : b.lsn \in Nat /\ b.reqs \in Seq(Appends)
                           /\ Len(b.reqs) \in Nat
      /\ MaxBatch \in Nat
  BY ConstantsAssumption, LenProperties
  DEF TypeInv, TypeOK, TaskTypeOK, StateTypeOK, Records, Batches
<1>1. ASSUME UNCHANGED <<writes, nextLsn, machine, durable, sync, syncing,
                         snapshot, queue, barrier, pending, running>>,
             pc' = pc
      PROVE  Flight'
  BY <1>1 DEF Flight
<1>2. CASE UNCHANGED vars \/ RefuseRecovery
  BY <1>1, <1>2 DEF vars, RefuseRecovery
<1>3. CASE Close \/ ReceiveClosed \/ SyncPublication \/ RemoveGarbage \/ ClearGarbage
  BY <1>3 DEF Flight, Close, ReceiveClosed, SyncPublication, RemoveGarbage, ClearGarbage,
     taskVars, stateVars
<1>4. CASE \E r \in Requests : Submit(r)
  BY <1>4 DEF Flight, Submit, Up, stateVars
<1>5. CASE Coalesce \/ StartSync \/ Query \/ Answer
  BY <1>5 DEF Flight, Coalesce, StartSync, Query, QueryReady, QuietReady,
     Answer, taskVars, stateVars
<1>6. CASE Rotate \/ PublishRotation
  BY <1>6 DEF Flight, Rotate, RotateReady, QuietReady, PublishRotation,
     taskVars, stateVars
<1>7. CASE StartSnapshot
  BY <1>7 DEF Flight, StartSnapshot
<1>8. ASSUME Stop, pc # "down" PROVE Flight'
  BY <1>8 DEF Flight, Stop, stateVars
<1>9. CASE RefuseRotation \/ Fail
  BY <1>8, <1>9 DEF RefuseRotation, Fail, Up
<1>10. CASE FinishCheckpoint
  BY <1>10 DEF Flight, FinishCheckpoint, NoSnapshot, stateVars
<1>11. CASE Exit
  BY <1>11 DEF Flight, Exit, Selecting, Idle, SyncReady, taskVars, stateVars
<1>12. CASE ReceiveAppends
  <2>1. PICK k \in 1..MaxBatch :
          /\ IsBatch(k)
          /\ writes' = writes \cup {[lsn |-> nextLsn, reqs |-> SubSeq(queue, 1, k)]}
          /\ nextLsn' = nextLsn + k
    BY <1>12 DEF ReceiveAppends
  <2>2. writes = {} /\ pc \in {"loop", "select"} /\ pc' = "loop"
    BY <1>12 DEF ReceiveAppends, Selecting, Idle, ReceiveReady
  <2>3. Len(SubSeq(queue, 1, k)) = k
    BY <1>t, <2>1 DEF IsBatch
  <2>4. UNCHANGED <<machine, durable, sync, syncing, snapshot, running>>
    BY <1>12 DEF ReceiveAppends
  <2> DEFINE b == [lsn |-> nextLsn, reqs |-> SubSeq(queue, 1, k)]
  <2>5. b.lsn = nextLsn /\ Len(b.reqs) = k
    BY <2>3
  <2> HIDE DEF b
  <2>6. writes' = {b}
    BY <2>1, <2>2 DEF b
  <2>7. nextLsn = Len(machine)
    BY <2>2 DEF Flight
  <2>8. b.lsn = Len(machine') /\ nextLsn' = b.lsn + Len(b.reqs)
    BY <2>1, <2>4, <2>5, <2>7
  <2> QED BY <2>2, <2>4, <2>6, <2>8 DEF Flight
<1>13. CASE ReceiveBarrier
  BY <1>13 DEF Flight, ReceiveBarrier, Selecting, Idle, stateVars
<1>14. CASE CompleteWrite
  <2>1. PICK b \in writes : writes' = writes \ {b} /\ machine' = machine \o b.reqs
    BY <1>14 DEF CompleteWrite
  <2>a. b.reqs \in Seq(Appends) /\ b.lsn = Len(machine)
        /\ nextLsn = b.lsn + Len(b.reqs)
    BY <1>t, <2>1 DEF Flight
  <2>b. Len(machine \o b.reqs) = Len(machine) + Len(b.reqs)
    BY <1>t, <2>a
  <2>2. writes' = {} /\ Len(machine') = nextLsn
    BY <1>t, <2>1, <2>a, <2>b DEF Flight
  <2>3. pc \in {"loop", "select"} /\ pc' = "loop"
    BY <1>14 DEF CompleteWrite, Selecting, Idle
  <2> QED BY <1>14, <2>2, <2>3 DEF Flight, CompleteWrite
<1>15. CASE CompleteSync
  BY <1>15 DEF Flight, CompleteSync, Selecting, Idle, stateVars
<1>16. CASE FinishSnapshot
  BY <1>16 DEF Flight, FinishSnapshot, Selecting, Idle, stateVars
<1>17. CASE PublishSnapshot
  BY <1>17 DEF Flight, PublishSnapshot, Selecting, Idle, taskVars
<1>18. CASE Drained \/ ProcessLoss \/ Panic
  <2>1. Abandon
    BY <1>18 DEF Drained, ProcessLoss, Panic
  <2> QED BY <2>1 DEF Abandon, Flight, NoSnapshot
<1>19. CASE PowerLoss
  BY <1>1, <1>19 DEF PowerLoss, taskVars, stateVars
<1>20. CASE Create
  BY <1>1, <1>20 DEF Create, taskVars, stateVars
<1>21. CASE Recover
  <2>1. Len(machine') = nextLsn'
    BY <1>21, RebuiltIsLog DEF Recover, TypeInv, TypeOK, DiskTypeOK
  <2> QED BY <1>21, <2>1 DEF Flight, Recover, taskVars
<1>22. CASE RemoveLeftover \/ Republish \/ Opened
  BY <1>22 DEF Flight, RemoveLeftover, Republish, Opened, taskVars, stateVars
<1> QED
  BY <1>2, <1>3, <1>4, <1>5, <1>6, <1>7, <1>9, <1>10, <1>11, <1>12, <1>13,
     <1>14, <1>15, <1>16, <1>17, <1>18, <1>19, <1>20, <1>21, <1>22
  DEF Next, Clients, Writer, Receive, Recovery

(* One step keeps Tickets.                                                 *)
LEMMA TicketsStep ==
  ASSUME TypeInv, Flight, Tickets, [Next]_vars
  PROVE  Tickets'
<1>t. /\ status \in [Requests -> Statuses]
      /\ queue \in Seq(Requests) /\ Len(queue) \in Nat
      /\ durable \subseteq Requests /\ sync \subseteq Requests
      /\ pending \subseteq Requests /\ running \subseteq Requests
      /\ barrier \in Requests \cup {None}
      /\ None \notin Requests
      /\ \A b \in writes : b.lsn \in Nat /\ b.reqs \in Seq(Appends)
                           /\ Len(b.reqs) \in Nat
      /\ MaxBatch \in Nat
      /\ \A i \in 1..Len(queue) : queue[i] \in Requests
  BY ConstantsAssumption, LenProperties
  DEF TypeInv, TypeOK, ClientsTypeOK, TaskTypeOK, Records, Batches, Requests,
      Appends
<1>c. \A b \in writes : Callers(b) \subseteq Appends /\ Callers(b) \subseteq Requests
  BY <1>t DEF Callers, Requests
<1>1. ASSUME UNCHANGED <<status, writes, durable, sync, queue, barrier>>,
             pending' \cup running' \subseteq pending \cup running,
             pending' \cap running' \subseteq pending \cap running,
             Up \/ ~Up'
      PROVE  Tickets'
  BY <1>1 DEF Tickets, Up, Callers
<1>2. ASSUME ~Up' PROVE Tickets'
  BY <1>2 DEF Tickets
<1>3. CASE UNCHANGED vars \/ RefuseRecovery
  BY <1>1, <1>3 DEF vars, RefuseRecovery, Up
<1>4. CASE Close \/ Query \/ ReceiveClosed \/ Rotate \/ PublishRotation \/ SyncPublication
           \/ RemoveGarbage \/ ClearGarbage \/ PublishSnapshot
  BY <1>1, <1>4 DEF Close, Query, ReceiveClosed, Rotate, PublishRotation, SyncPublication,
     RemoveGarbage, ClearGarbage, PublishSnapshot, Selecting, Idle, taskVars,
     clientVars, Up
<1>5. ASSUME NEW r \in Requests, Submit(r) PROVE Tickets'
  <2>1. Up /\ status[r] = "idle" /\ status' = [status EXCEPT ![r] = "queued"]
        /\ queue' = Append(queue, r) /\ UNCHANGED <<writes, durable, sync, barrier>>
        /\ UNCHANGED <<pending, running>>
    BY <1>5 DEF Submit
  <2>2. Len(queue') = Len(queue) + 1 /\ queue'[Len(queue) + 1] = r
        /\ \A i \in 1..Len(queue) : queue'[i] = queue[i]
    BY <1>t, <2>1
  <2>3. \A i \in 1..Len(queue) : queue[i] # r
    BY <1>t, <2>1 DEF Tickets
  <2>4. \A i \in 1..Len(queue') : status'[queue'[i]] = "queued"
    BY <1>t, <2>1, <2>2 DEF Tickets
  <2>5. \A i, j \in 1..Len(queue') : queue'[i] = queue'[j] => i = j
    BY <1>t, <2>1, <2>2, <2>3 DEF Tickets
  <2>6. barrier' # None => status'[barrier'] = "barrier"
    BY <1>t, <2>1 DEF Tickets
  <2>7. \A b \in writes' : \A x \in Callers(b) : status'[x] = "batch"
    BY <1>t, <1>c, <2>1 DEF Tickets
  <2>8. \A x \in durable' \cup sync' : status'[x] \in {"sync", "done"}
    BY <1>t, <2>1 DEF Tickets
  <2>9. \A x \in pending' \cup running' : status'[x] = "cut"
    BY <1>t, <2>1 DEF Tickets
  <2> QED BY <2>1, <2>4, <2>5, <2>6, <2>7, <2>8, <2>9 DEF Tickets, Callers
<1>6. ASSUME NEW B, status' = [status EXCEPT ![B] = status'[B]], B = barrier,
             status[B] = "barrier", Up, running' = running,
             pending' \subseteq pending \cup {B},
             B \in pending' => status'[B] = "cut",
             barrier' = None, UNCHANGED <<writes, durable, sync, queue>>
      PROVE  Tickets'
  <2>1. \A x \in Requests : x # B => status'[x] = status[x]
    BY <1>6, <1>t
  <2>2. \A i \in 1..Len(queue) : queue[i] # B
    BY <1>6 DEF Tickets
  <2>3. \A b \in writes : \A x \in Callers(b) : x # B
    BY <1>6 DEF Tickets
  <2>4. \A x \in durable \cup sync : x # B
    BY <1>6 DEF Tickets
  <2>5. /\ \A x \in pending' \cup running' : status'[x] = "cut"
        /\ pending' \cap running' = {}
    BY <1>6, <1>t, <2>1 DEF Tickets
  <2> QED BY <1>6, <1>t, <1>c, <2>1, <2>2, <2>3, <2>4, <2>5 DEF Tickets, Callers
<1>7. CASE Coalesce
  <2>1. barrier # None /\ Up
    BY <1>7, <1>t, ConstantsAssumption DEF Coalesce, CoalesceReady, Requests, Up
  <2>2. status' = [status EXCEPT ![barrier] = "cut"] /\ status'[barrier] = "cut"
    BY <1>7, <1>t, <2>1 DEF Coalesce
  <2>3. PICK B : B = barrier
    OBVIOUS
  <2>4. status' = [status EXCEPT ![B] = status'[B]]
    BY <2>2, <2>3
  <2> QED BY <1>6, <1>7, <2>1, <2>2, <2>3, <2>4 DEF Coalesce, Tickets
<1>8. CASE Answer
  <2>1. barrier # None /\ Up
    BY <1>8, <1>t, ConstantsAssumption DEF Answer, TypeInv, InUse, Requests, Up
  <2>2. status' = [status EXCEPT ![barrier] = "done"] /\ status'[barrier] = "done"
    BY <1>8, <1>t, <2>1 DEF Answer
  <2>3. PICK B : B = barrier
    OBVIOUS
  <2>4. status' = [status EXCEPT ![B] = status'[B]]
    BY <2>2, <2>3
  <2>5. B \notin pending
    BY <2>1, <2>3 DEF Tickets
  <2> QED BY <1>6, <1>8, <2>1, <2>2, <2>3, <2>4, <2>5 DEF Answer, Tickets
<1>9. CASE StartSync
  <2>1. durable' \cup sync' \subseteq durable \cup sync /\ Up
        /\ UNCHANGED <<status, writes, queue, barrier, pending, running>>
    BY <1>9 DEF StartSync, clientVars, Up
  <2> QED BY <2>1 DEF Tickets, Callers
<1>10. CASE StartSnapshot
  BY <1>1, <1>10 DEF StartSnapshot, clientVars, Up
<1>11. CASE RefuseRotation \/ Fail \/ Exit \/ Drained \/ ProcessLoss \/ Panic
            \/ Recover \/ RemoveLeftover \/ Republish
  <2>1. pc' \in {"draining", "down", "repair", "republish"}
    BY <1>11 DEF RefuseRotation, Fail, Exit, Drained, ProcessLoss, Panic, Recover,
       RemoveLeftover, Republish, Stop, Abandon
  <2> QED BY <1>2, <2>1 DEF Up
<1>12. CASE PowerLoss \/ Create
  BY <1>2, <1>12 DEF PowerLoss, Create, Up
<1>13. CASE Opened
  <2>1. queue' = <<>> /\ barrier' = None /\ durable' = {} /\ sync' = {}
        /\ writes' = {} /\ pending' = {} /\ running' = {}
    BY <1>13 DEF Opened, Flight, taskVars
  <2> QED BY <2>1 DEF Tickets
<1>14. CASE FinishCheckpoint
  <2>1. /\ status' = [r \in Requests |-> IF r \in running THEN "done" ELSE status[r]]
        /\ running' = {} /\ Up
        /\ UNCHANGED <<queue, barrier, writes, durable, sync, pending>>
    BY <1>14 DEF FinishCheckpoint, Up
  <2>2. \A r \in Requests : status[r] # "cut" => status'[r] = status[r]
    BY <2>1 DEF Tickets
  <2>3. \A i \in 1..Len(queue') : status'[queue'[i]] = "queued"
    BY <1>t, <2>1, <2>2 DEF Tickets
  <2>4. barrier' # None => status'[barrier'] = "barrier"
    BY <1>t, <2>1, <2>2 DEF Tickets
  <2>5. \A b \in writes' : \A r \in Callers(b) : status'[r] = "batch"
    BY <1>t, <1>c, <2>1, <2>2 DEF Tickets
  <2>6. \A r \in durable' \cup sync' : status'[r] \in {"sync", "done"}
    BY <1>t, <2>1, <2>2 DEF Tickets
  <2>7. \A r \in pending' \cup running' : status'[r] = "cut"
    BY <1>t, <2>1 DEF Tickets
  <2> QED BY <2>1, <2>3, <2>4, <2>5, <2>6, <2>7 DEF Tickets, Callers
<1>15. CASE ReceiveAppends
  <2>1. PICK k \in 1..MaxBatch :
          /\ IsBatch(k)
          /\ writes' = writes \cup {[lsn |-> nextLsn, reqs |-> SubSeq(queue, 1, k)]}
          /\ LET next == IF k < MaxBatch /\ k < Len(queue) THEN queue[k + 1]
                                                           ELSE None
             IN  /\ barrier' = next
                 /\ queue' = SubSeq(queue, IF next = None THEN k + 1 ELSE k + 2,
                                    Len(queue))
                 /\ status' = [r \in Requests |->
                      IF \E i \in 1..k : queue[i] = r THEN "batch"
                      ELSE IF r = next THEN "barrier" ELSE status[r]]
    BY <1>15 DEF ReceiveAppends
  <2>2. writes = {} /\ Up /\ barrier = None /\ UNCHANGED <<durable, sync, pending, running>>
    BY <1>15 DEF ReceiveAppends, Selecting, Idle, ReceiveReady, Up
  <2> DEFINE next == IF k < MaxBatch /\ k < Len(queue) THEN queue[k + 1] ELSE None
             from == IF next = None THEN k + 1 ELSE k + 2
             b == [lsn |-> nextLsn, reqs |-> SubSeq(queue, 1, k)]
  <2>3. /\ barrier' = next /\ queue' = SubSeq(queue, from, Len(queue))
        /\ status' = [r \in Requests |->
             IF \E i \in 1..k : queue[i] = r THEN "batch"
             ELSE IF r = next THEN "barrier" ELSE status[r]]
        /\ writes' = {b}
    BY <2>1, <2>2
  <2>4. k \in 1..Len(queue)
    BY <1>t, <2>1 DEF IsBatch
  <2>5. next # None => k + 1 \in 1..Len(queue) /\ next = queue[k + 1] /\ from = k + 2
    BY <1>t, <2>4
  <2>6. next = None => from = k + 1
    OBVIOUS
  <2>7. from \in 1..Len(queue) + 2 /\ from > k
    BY <1>t, <2>4, <2>5, <2>6
  <2>8. Callers(b) \subseteq {queue[i] : i \in 1..k}
    <3>1. Len(SubSeq(queue, 1, k)) = k
          /\ \A i \in 1..k : SubSeq(queue, 1, k)[i] = queue[i]
      BY <1>t, <2>4
    <3> QED BY <3>1 DEF Callers
  <2> HIDE DEF next, from, b
  <2>9. /\ Len(queue') \in Nat
        /\ \A i \in 1..Len(queue') :
             from + i - 1 \in 1..Len(queue) /\ queue'[i] = queue[from + i - 1]
    <3>1. CASE from <= Len(queue)
      <4>1. /\ Len(queue') = Len(queue) - from + 1
            /\ \A i \in 1..Len(queue') : queue'[i] = queue[from + i - 1]
        BY <1>t, <2>3, <2>7, <3>1
      <4> QED BY <1>t, <2>7, <3>1, <4>1
    <3>2. CASE from > Len(queue)
      <4>1. Len(queue') = 0
        BY <1>t, <2>3, <2>7, <3>2
      <4> QED BY <4>1
    <3> QED BY <1>t, <2>7, <3>1, <3>2
  <2>10. \A i, j \in 1..Len(queue) : queue[i] = queue[j] => i = j
    BY <2>2 DEF Tickets
  <2>11. \A i \in 1..Len(queue) : i > k /\ queue[i] # next => status'[queue[i]] = "queued"
    <3> SUFFICES ASSUME NEW i \in 1..Len(queue), i > k, queue[i] # next
                 PROVE  status'[queue[i]] = "queued"
      OBVIOUS
    <3>1. ~\E m \in 1..k : queue[m] = queue[i]
      BY <1>t, <2>4, <2>10
    <3>2. status[queue[i]] = "queued" /\ queue[i] \in Requests
      BY <1>t, <2>2 DEF Tickets
    <3> QED BY <2>3, <3>1, <3>2
  <2>12. \A i \in 1..Len(queue') : queue'[i] # next
    <3> SUFFICES ASSUME NEW i \in 1..Len(queue'), queue'[i] = next
                 PROVE  FALSE
      OBVIOUS
    <3>1. PICK j \in 1..Len(queue) : j = from + i - 1 /\ queue[j] = next
      BY <2>9
    <3>2. next # None
      BY <1>t, <3>1
    <3>3. j = k + 1
      BY <2>5, <2>10, <3>1, <3>2
    <3> QED BY <1>t, <2>4, <2>5, <2>9, <3>1, <3>2, <3>3
  <2>13. \A i \in 1..Len(queue') : status'[queue'[i]] = "queued"
    <3> SUFFICES ASSUME NEW i \in 1..Len(queue')
                 PROVE  status'[queue'[i]] = "queued"
      OBVIOUS
    <3>1. PICK j \in 1..Len(queue) : j = from + i - 1 /\ queue'[i] = queue[j]
      BY <2>9
    <3>2. j > k
      BY <1>t, <2>4, <2>7, <2>9, <3>1
    <3> QED BY <2>11, <2>12, <3>1, <3>2
  <2>14. \A i, j \in 1..Len(queue') : queue'[i] = queue'[j] => i = j
    BY <1>t, <2>7, <2>9, <2>10
  <2>15. barrier' # None => status'[barrier'] = "barrier"
    <3> SUFFICES ASSUME next # None PROVE status'[next] = "barrier"
      BY <2>3
    <3>1. ~\E m \in 1..k : queue[m] = next
      <4> SUFFICES ASSUME NEW m \in 1..k, queue[m] = next PROVE FALSE
        OBVIOUS
      <4>1. m \in 1..Len(queue) /\ k + 1 \in 1..Len(queue) /\ next = queue[k + 1] /\ m # k + 1
        BY <1>t, <2>4, <2>5
      <4> QED BY <2>10, <4>1
    <3> QED BY <1>t, <2>3, <2>5, <3>1
  <2>16. \A a \in writes' : \A r \in Callers(a) : status'[r] = "batch"
    <3>1. \A r \in Callers(b) : r \in Requests /\ \E i \in 1..k : queue[i] = r
      BY <1>t, <2>4, <2>8
    <3> QED BY <2>3, <3>1
  <2>17. \A r \in durable' \cup sync' : status'[r] \in {"sync", "done"}
    <3> SUFFICES ASSUME NEW r \in durable \cup sync
                 PROVE  status'[r] \in {"sync", "done"}
      BY <2>2
    <3>1. status[r] \in {"sync", "done"} /\ r \in Requests
      BY <1>t, <2>2 DEF Tickets
    <3>2. \A i \in 1..Len(queue) : queue[i] # r
      BY <2>2, <3>1 DEF Tickets
    <3>3. r # next
      BY <1>t, <2>5, <3>1, <3>2
    <3>4. ~\E i \in 1..k : queue[i] = r
      BY <1>t, <2>4, <3>2
    <3> QED BY <2>3, <3>1, <3>3, <3>4
  <2>18. \A r \in pending' \cup running' : status'[r] = "cut"
    <3> SUFFICES ASSUME NEW r \in pending \cup running
                 PROVE  status'[r] = "cut"
      BY <2>2
    <3>1. status[r] = "cut" /\ r \in Requests
      BY <1>t, <2>2 DEF Tickets
    <3>2. \A i \in 1..Len(queue) : queue[i] # r
      BY <2>2, <3>1 DEF Tickets
    <3>3. r # next
      BY <1>t, <2>5, <3>1, <3>2
    <3>4. ~\E i \in 1..k : queue[i] = r
      BY <1>t, <2>4, <3>2
    <3> QED BY <2>3, <3>1, <3>3, <3>4
  <2> QED BY <2>2, <2>13, <2>14, <2>15, <2>16, <2>17, <2>18 DEF Tickets, Callers
<1>16. CASE ReceiveBarrier
  <2>1. /\ queue # <<>> /\ Up /\ barrier = None
        /\ barrier' = Head(queue) /\ queue' = Tail(queue)
        /\ status' = [status EXCEPT ![Head(queue)] = "barrier"]
        /\ UNCHANGED <<writes, durable, sync, pending, running>>
    BY <1>16 DEF ReceiveBarrier, ReceiveReady, Selecting, Idle, Up
  <2>2. /\ Head(queue) = queue[1] /\ 1 \in 1..Len(queue)
        /\ Len(queue') = Len(queue) - 1
        /\ \A i \in 1..Len(queue') : i + 1 \in 1..Len(queue) /\ queue'[i] = queue[i + 1]
    BY <1>t, <2>1
  <2>3. \A i, j \in 1..Len(queue) : queue[i] = queue[j] => i = j
    BY <2>1 DEF Tickets
  <2>4. \A i \in 1..Len(queue') : queue'[i] # queue[1]
    BY <1>t, <2>2, <2>3
  <2>5. \A x \in Requests : x # queue[1] => status'[x] = status[x]
    BY <1>t, <2>1, <2>2
  <2>6. status'[queue[1]] = "barrier" /\ status[queue[1]] = "queued"
    BY <1>t, <2>1, <2>2 DEF Tickets
  <2>7. \A i \in 1..Len(queue') : status'[queue'[i]] = "queued"
    BY <1>t, <2>1, <2>2, <2>4, <2>5 DEF Tickets
  <2>8. \A i, j \in 1..Len(queue') : queue'[i] = queue'[j] => i = j
    BY <1>t, <2>2, <2>3
  <2>9. \A b \in writes' : \A r \in Callers(b) : status'[r] = "batch"
    BY <1>t, <1>c, <2>1, <2>5, <2>6 DEF Tickets
  <2>10. \A r \in durable' \cup sync' : status'[r] \in {"sync", "done"}
    BY <1>t, <2>1, <2>5, <2>6 DEF Tickets
  <2>11. \A r \in pending' \cup running' : status'[r] = "cut"
    BY <1>t, <2>1, <2>5, <2>6 DEF Tickets
  <2> QED BY <2>1, <2>2, <2>6, <2>7, <2>8, <2>9, <2>10, <2>11 DEF Tickets, Callers
<1>17. CASE CompleteWrite
  <2>1. PICK b \in writes :
          /\ writes' = writes \ {b}
          /\ status' = [r \in Requests |->
               IF r \notin Callers(b) THEN status[r]
               ELSE IF r \in Durable THEN "sync" ELSE "done"]
          /\ durable' = durable \cup (Callers(b) \cap Durable)
    BY <1>17 DEF CompleteWrite
  <2>2. Up /\ UNCHANGED <<queue, barrier, sync, pending, running>> /\ writes' = {}
    BY <1>17, <2>1 DEF CompleteWrite, Selecting, Idle, Up, Flight
  <2>3. \A r \in Requests : status[r] # "batch" => status'[r] = status[r]
    BY <2>1, <2>2 DEF Tickets
  <2>4. \A r \in Callers(b) \cap Durable : status'[r] = "sync"
    BY <1>c, <2>1
  <2>5. \A i \in 1..Len(queue') : status'[queue'[i]] = "queued"
    BY <1>t, <2>2, <2>3 DEF Tickets
  <2>6. barrier' # None => status'[barrier'] = "barrier"
    BY <1>t, <2>2, <2>3 DEF Tickets
  <2>7. \A r \in durable' \cup sync' : status'[r] \in {"sync", "done"}
    <3>1. \A r \in durable \cup sync : status'[r] \in {"sync", "done"}
      BY <1>t, <2>2, <2>3 DEF Tickets
    <3> QED BY <2>1, <2>2, <2>4, <3>1
  <2>8. \A r \in pending' \cup running' : status'[r] = "cut"
    BY <1>t, <2>2, <2>3 DEF Tickets
  <2> QED BY <2>2, <2>5, <2>6, <2>7, <2>8 DEF Tickets
<1>18. CASE CompleteSync
  <2>1. /\ status' = [r \in Requests |-> IF r \in sync THEN "done" ELSE status[r]]
        /\ sync' = {} /\ Up
        /\ UNCHANGED <<queue, barrier, writes, durable, pending, running>>
    BY <1>18 DEF CompleteSync, Covered, Selecting, Idle, Up
  <2>2. \A r \in Requests : status[r] # "sync" /\ status[r] # "done" =>
                                 status'[r] = status[r]
    BY <2>1 DEF Tickets
  <2>3. \A i \in 1..Len(queue') : status'[queue'[i]] = "queued"
    BY <1>t, <2>1, <2>2 DEF Tickets
  <2>4. barrier' # None => status'[barrier'] = "barrier"
    BY <1>t, <2>1, <2>2 DEF Tickets
  <2>5. \A b \in writes' : \A r \in Callers(b) : status'[r] = "batch"
    BY <1>t, <1>c, <2>1, <2>2 DEF Tickets
  <2>6. \A r \in durable' \cup sync' : status'[r] \in {"sync", "done"}
    BY <1>t, <2>1 DEF Tickets
  <2>7. \A r \in pending' \cup running' : status'[r] = "cut"
    BY <1>t, <2>1, <2>2 DEF Tickets
  <2> QED BY <2>1, <2>3, <2>4, <2>5, <2>6, <2>7 DEF Tickets, Callers
<1>19. CASE FinishSnapshot
  BY <1>1, <1>19 DEF FinishSnapshot, Selecting, Idle, Up
<1> QED
  BY <1>3, <1>4, <1>5, <1>7, <1>8, <1>9, <1>10, <1>11, <1>12, <1>13, <1>14, <1>15, <1>16,
     <1>17, <1>18, <1>19
  DEF Next, Clients, Writer, Receive, Recovery

-----------------------------------------------------------------------------
(* The copies of CURRENT and the files in the directory.                   *)

(* The shape of a recovery set: a snapshot, the unbroken run of logs from  *)
(* its generation on, and a pending snapshot, if any, of the last log; no  *)
(* file of the set is garbage.                                             *)
Shape(c) ==
  /\ c.snapshot # 0
  /\ \E last \in c.logs : c.logs = c.snapshot..last /\ c.pending \in {0, last}
  /\ c.pending # c.snapshot
  /\ SnapFile(c.snapshot) \notin c.garbage
  /\ \A g \in c.logs : LogFile(g) \notin c.garbage

(* The files of a recovery set exist.                                      *)
Present(c) ==
  /\ SnapFile(c.snapshot) \in files
  /\ \A g \in c.logs : LogFile(g) \in files

(* The files that opening c accounts for: its own, what it deletes, and    *)
(* the log that the next rotation creates or truncates.                    *)
Known(c) == {SnapFile(c.snapshot)} \cup {LogFile(g) : g \in c.logs}
              \cup {LogFile(LastLog(c) + 1)} \cup Leftover(c)

(* The copies of CURRENT that are on disk.                                 *)
Saved == {curFile, curSynced} \ {NoCurrent}

(* Either copy of CURRENT names files that are there, and accounts for all *)
(* that are there; so does the copy in memory while the stream is open.    *)
SavedSets ==
  /\ \A c \in Saved : Shape(c) /\ EncodeOk(c)
  /\ \A c \in Saved : Present(c) /\ files \subseteq Known(c)
  /\ pc # "down" => Shape(current) /\ Present(current)

(* How the three copies of CURRENT differ at each step of the writer and   *)
(* of recovery.                                                            *)
Copies ==
  /\ curFile = NoCurrent => curSynced = NoCurrent /\ pc = "down"
  /\ curSynced = NoCurrent => /\ pc \in {"down", "repair"}
                              /\ curFile \in {NoCurrent, FirstCurrent}
                              /\ files \subseteq {SnapFile(1), LogFile(1)}
  /\ curSynced # NoCurrent => LastLog(curSynced) \in curFile.logs
  /\ pc \in {"loop", "query", "select", "cleanup"} =>
       current = curFile /\ curFile = curSynced
  /\ pc \in {"rotated", "published", "cleared", "repair", "republish"} =>
       current = curFile
  /\ pc = "rotate" =>
       /\ curFile = curSynced
       /\ current.logs = curFile.logs \cup {LastLog(curFile) + 1}
       /\ current.snapshot = curFile.snapshot
       /\ current.lsn = curFile.lsn
       /\ LastLog(current) = LastLog(curFile) + 1
       /\ files \subseteq Known(current)
  /\ pc \in {"rotate", "rotated"} => current.pending = LastLog(current)
  /\ writes # {} =>
       LastLog(curFile) = LastLog(current) /\ LastLog(curSynced) = LastLog(current)

(* What is left to do for a snapshot or a deletion is what CURRENT says.   *)
Duties ==
  /\ pc \in {"loop", "query", "select", "rotate", "rotated", "cleared",
            "republish"} =>
       current.garbage = {}
  /\ pc \in {"published", "cleanup", "cleared", "republish"} => current.pending = 0
  /\ pc \in {"loop", "query", "select"} /\ snapshot.stage = "none" => current.pending = 0
  /\ snapshot.stage = "encoding" =>
       \A c \in {current, curFile, curSynced} : c.pending = snapshot.gen
  /\ snapshot.stage = "final" /\ pc \in {"loop", "query", "select"} =>
       /\ current.pending = snapshot.gen
       /\ SnapFile(snapshot.gen) \in files

SetsInv == SavedSets /\ Copies /\ Duties

(* The last log of an unbroken run is its end.                             *)
LEMMA LastOf ==
  ASSUME NEW c, NEW a \in Nat, NEW b \in Nat, a <= b, c.logs = a..b
  PROVE  LastLog(c) = b
<1>1. b \in c.logs /\ \A h \in c.logs : h <= b
  OBVIOUS
<1>2. LastLog(c) \in c.logs /\ \A h \in c.logs : h <= LastLog(c)
  BY <1>1 DEF LastLog
<1>3. PICK x : x = LastLog(c)
  OBVIOUS
<1>4. x \in a..b /\ b <= x
  BY <1>1, <1>2, <1>3
<1>5. x = b
  BY <1>4
<1> QED BY <1>3, <1>5

(* What the shape of a recovery set says of its last log.                  *)
LEMMA ShapeLast ==
  ASSUME NEW c \in Currents, Shape(c)
  PROVE  /\ LastLog(c) \in c.logs /\ LastLog(c) \in Gens
         /\ c.snapshot \in Gens /\ c.snapshot <= LastLog(c)
         /\ c.logs = c.snapshot..LastLog(c)
         /\ c.pending \in {0, LastLog(c)} /\ c.pending # c.snapshot
         /\ c # NoCurrent /\ c.logs \subseteq Gens
         /\ c.snapshot \in c.logs
<1>1. PICK last \in c.logs : c.logs = c.snapshot..last /\ c.pending \in {0, last}
  BY DEF Shape
<1>2. c.snapshot \in Gens /\ c.logs \subseteq Gens /\ MaxGen \in Nat
  BY ConstantsAssumption DEF Shape, Currents, Gens
<1>3. last \in Nat /\ c.snapshot \in Nat /\ c.snapshot <= last /\ last \in Gens
  BY <1>1, <1>2 DEF Gens
<1>4. LastLog(c) = last
  BY <1>1, <1>3, LastOf
<1>5. c # NoCurrent
  BY DEF Shape, NoCurrent
<1>6. c.snapshot \in c.logs
  BY <1>1, <1>3
<1> QED BY <1>1, <1>2, <1>3, <1>4, <1>5, <1>6 DEF Shape

(* A file is of one kind and of one generation.                            *)
LEMMA FileNames ==
  /\ \A g, k : SnapFile(g) # LogFile(k)
  /\ \A g, k : SnapFile(g) = SnapFile(k) => g = k
  /\ \A g, k : LogFile(g) = LogFile(k) => g = k
BY DEF SnapFile, LogFile

(* One step keeps SetsInv: the order in which files are created, CURRENT is *)
(* renamed and synced, and garbage is deleted leaves every copy of CURRENT *)
(* with the files it names and no other file without a copy that knows it. *)
LEMMA SetsStep ==
  ASSUME TypeInv, Flight, SetsInv, [Next]_vars
  PROVE  SetsInv'
<1>t. /\ current \in Currents /\ curFile \in Currents /\ curSynced \in Currents
      /\ current' \in Currents /\ curFile' \in Currents /\ curSynced' \in Currents
      /\ snapshot \in Snapshots
  BY TypeStep DEF TypeInv, TypeOK, TaskTypeOK, StateTypeOK, DiskTypeOK
<1>n. MaxGen \in Nat \ {0} /\ MaxGenerations \in Nat \ {0}
  BY ConstantsAssumption
<1> USE DEF SetsInv
<1>1. ASSUME UNCHANGED <<current, curFile, curSynced, files, snapshot>>,
             pc' = pc \/ {pc, pc'} \subseteq {"loop", "query", "select"},
             writes' \subseteq writes \/ pc \in {"loop", "select"}
      PROVE  SetsInv'
  <2>1. SavedSets'
    BY <1>1 DEF SavedSets, Saved, Present
  <2>2. Copies'
    BY <1>1 DEF Copies
  <2>3. Duties'
    BY <1>1 DEF Duties
  <2> QED BY <2>1, <2>2, <2>3
<1>2. CASE UNCHANGED vars \/ RefuseRecovery
  BY <1>1, <1>2 DEF vars, RefuseRecovery
<1>3. CASE Clients
  BY <1>1, <1>3 DEF Clients, Close, Submit, taskVars, stateVars, diskVars
<1>4. CASE Coalesce \/ StartSync \/ Query \/ Answer
  BY <1>1, <1>4 DEF Coalesce, StartSync, Query, Answer, taskVars, stateVars, diskVars
<1>5. CASE Receive \/ CompleteWrite \/ CompleteSync
  BY <1>1, <1>5 DEF Receive, ReceiveAppends, ReceiveBarrier, ReceiveClosed,
     CompleteWrite, CompleteSync, Selecting, Idle, taskVars, stateVars, diskVars
<1>6. CASE Rotate
  <2> DEFINE gen == LastLog(current) + 1
  <2>1. /\ pc = "loop" /\ pc' = "rotate" /\ snapshot.stage = "none" /\ writes = {}
        /\ gen \in Gens
        /\ files' = files \cup {LogFile(gen)}
        /\ current' = [current EXCEPT !.logs = @ \cup {gen}, !.pending = gen]
        /\ UNCHANGED <<writes, snapshot, curFile, curSynced>>
    BY <1>6 DEF Rotate, RotateReady, QuietReady, HasGeneration, taskVars
  <2>2. /\ current = curFile /\ curFile = curSynced /\ current.garbage = {}
        /\ current.pending = 0 /\ curFile # NoCurrent
    BY <2>1 DEF Copies, Duties
  <2>3. Shape(current) /\ Present(current) /\ files \subseteq Known(current)
    BY <2>1, <2>2 DEF SavedSets, Saved
  <2>4. /\ current.logs = current.snapshot..LastLog(current)
        /\ current.snapshot \in Nat /\ LastLog(current) \in Nat
        /\ current.snapshot <= LastLog(current)
    BY <1>t, <2>3, ShapeLast DEF Gens
  <2>5. /\ current'.logs = current.logs \cup {gen} /\ current'.pending = gen
        /\ current'.snapshot = current.snapshot /\ current'.garbage = current.garbage
        /\ current'.lsn = current.lsn
    BY <1>t, <2>1 DEF Currents
  <2>6. current'.logs = current'.snapshot..gen
    BY <2>4, <2>5
  <2>7. LastLog(current') = gen
    BY <2>4, <2>5, <2>6, LastOf
  <2>8. Shape(current')
    BY <2>2, <2>3, <2>4, <2>5, <2>6 DEF Shape
  <2>9. Present(current)' /\ \A c \in Saved : Present(c)'
    BY <2>1, <2>3, <2>5 DEF Present, SavedSets
  <2>10. \A c \in Saved : files' \subseteq Known(c)
    BY <2>1, <2>2 DEF SavedSets, Saved, Known
  <2>11. files' \subseteq Known(current')
    BY <2>1, <2>2, <2>3, <2>5, <2>7 DEF Known, Leftover
  <2> HIDE DEF gen
  <2>12. SavedSets'
    BY <2>1, <2>8, <2>9, <2>10 DEF SavedSets, Saved
  <2>13. Copies'
    BY <2>1, <2>2, <2>5, <2>7, <2>11 DEF Copies, gen
  <2>14. Duties'
    BY <2>1, <2>2, <2>5 DEF Duties
  <2> QED BY <2>12, <2>13, <2>14
<1>7. CASE PublishRotation
  <2>1. /\ pc = "rotate" /\ pc' = "rotated" /\ EncodeOk(current) /\ curFile' = current
        /\ UNCHANGED <<writes, snapshot, current, curSynced, files>>
    BY <1>7 DEF PublishRotation, taskVars, stateVars
  <2>2. curFile = curSynced /\ curFile # NoCurrent /\ snapshot.stage = "none" /\ writes = {}
    BY <2>1 DEF Copies, Flight
  <2>3. Shape(current) /\ Present(current) /\ files \subseteq Known(current)
        /\ current # NoCurrent
    BY <1>t, <2>1, ShapeLast DEF SavedSets, Copies
  <2>4. LastLog(curSynced) \in current.logs
    BY <2>1, <2>2 DEF Copies
  <2>5. SavedSets'
    BY <2>1, <2>2, <2>3 DEF SavedSets, Saved, Present
  <2>6. Copies'
    BY <2>1, <2>2, <2>3, <2>4 DEF Copies
  <2>7. Duties'
    BY <2>1, <2>2 DEF Duties
  <2> QED BY <2>5, <2>6, <2>7
<1>8. CASE StartSnapshot
  <2>1. /\ pc = "rotated" /\ pc' = "loop" /\ curSynced' = curFile
        /\ snapshot'.stage = "encoding" /\ snapshot'.gen = current.pending
        /\ UNCHANGED <<writes, current, files, curFile>>
    BY <1>8 DEF StartSnapshot
  <2>2. current = curFile /\ curFile # NoCurrent
    BY <2>1 DEF Copies
  <2>3. Shape(curFile) /\ LastLog(curFile) \in curFile.logs
    BY <1>t, <2>2, ShapeLast DEF SavedSets, Saved
  <2>4. SavedSets'
    BY <2>1 DEF SavedSets, Saved, Present
  <2>5. Copies'
    BY <2>1, <2>2, <2>3 DEF Copies, Flight
  <2>6. Duties'
    BY <2>1, <2>2 DEF Duties
  <2> QED BY <2>4, <2>5, <2>6
<1>9. ASSUME Stop, Up PROVE SetsInv'
  <2>1. pc' = "draining" /\ UNCHANGED <<current, curFile, curSynced, files, writes, snapshot>>
    BY <1>9 DEF Stop, stateVars, diskVars
  <2>2. SavedSets' /\ Copies' /\ Duties'
    BY <1>9, <2>1 DEF SavedSets, Saved, Present, Copies, Duties, Up
  <2> QED BY <2>2
<1>10. CASE RefuseRotation \/ Fail
  BY <1>9, <1>10 DEF RefuseRotation, Fail, Up
<1>11. CASE SyncPublication
  <2>1. /\ pc = "published" /\ pc' = "cleanup" /\ curSynced' = curFile
        /\ UNCHANGED <<writes, current, files, curFile, snapshot>>
    BY <1>11 DEF SyncPublication, taskVars, stateVars
  <2>2. current = curFile /\ curFile # NoCurrent
    BY <2>1 DEF Copies
  <2>3. Shape(curFile) /\ LastLog(curFile) \in curFile.logs
    BY <1>t, <2>2, ShapeLast DEF SavedSets, Saved
  <2>4. SavedSets'
    BY <2>1 DEF SavedSets, Saved, Present
  <2>5. Copies'
    BY <2>1, <2>2, <2>3 DEF Copies
  <2>6. Duties'
    BY <2>1, <2>2 DEF Duties
  <2> QED BY <2>4, <2>5, <2>6
<1>12. CASE RemoveGarbage
  <2>1. /\ pc = "cleanup" /\ pc' = pc
        /\ UNCHANGED <<writes, snapshot, current, curFile, curSynced>>
    BY <1>12 DEF RemoveGarbage, taskVars, stateVars
  <2>2. PICK x \in current.garbage : files' = files \ {x}
    BY <1>12 DEF RemoveGarbage
  <2>3. current = curFile /\ curFile = curSynced /\ curFile # NoCurrent
    BY <2>1 DEF Copies
  <2>4. Shape(current) /\ Present(current) /\ files \subseteq Known(current)
    BY <2>1, <2>3 DEF SavedSets, Saved
  <2>5. Present(current)'
    BY <2>1, <2>2, <2>4 DEF Present, Shape
  <2>6. SavedSets'
    BY <2>1, <2>2, <2>3, <2>4, <2>5 DEF SavedSets, Saved, Present
  <2>7. Copies' /\ Duties'
    BY <2>1, <2>3 DEF Copies, Duties
  <2> QED BY <2>6, <2>7
<1>13. CASE ClearGarbage
  <2>1. /\ pc = "cleanup" /\ pc' = "cleared"
        /\ current.garbage \cap files = {}
        /\ current' = [current EXCEPT !.garbage = {}] /\ curFile' = current'
        /\ UNCHANGED <<writes, snapshot, curSynced, files>>
    BY <1>13 DEF ClearGarbage, taskVars
  <2>2. current = curFile /\ curFile = curSynced /\ curFile # NoCurrent
        /\ current.pending = 0
    BY <2>1 DEF Copies, Duties
  <2>3. Shape(current) /\ Present(current) /\ files \subseteq Known(current)
        /\ EncodeOk(current)
    BY <2>1, <2>2 DEF SavedSets, Saved
  <2>4. /\ current'.logs = current.logs /\ current'.pending = current.pending
        /\ current'.snapshot = current.snapshot /\ current'.garbage = {}
    BY <1>t, <2>1 DEF Currents
  <2>5. LastLog(current') = LastLog(current)
    BY <2>4 DEF LastLog
  <2>6. Shape(current')
    BY <2>3, <2>4 DEF Shape
  <2>7. Present(current)'
    BY <2>1, <2>3, <2>4 DEF Present
  <2>8. files' \subseteq Known(current')
    BY <2>1, <2>2, <2>3, <2>4, <2>5 DEF Known, Leftover
  <2>9. EncodeOk(current')
    BY <1>n, <2>3, <2>4, FS_EmptySet DEF EncodeOk
  <2>10. current' # NoCurrent
    BY <1>t, <2>6, ShapeLast
  <2>11. SavedSets'
    BY <2>1, <2>2, <2>3, <2>6, <2>7, <2>8, <2>9 DEF SavedSets, Saved, Present
  <2>12. LastLog(current) \in current.logs
    BY <1>t, <2>3, ShapeLast
  <2>13. Copies'
    BY <2>1, <2>2, <2>4, <2>5, <2>10, <2>12 DEF Copies
  <2>14. Duties'
    BY <2>1, <2>2, <2>4 DEF Duties
  <2> QED BY <2>11, <2>13, <2>14
<1>14. CASE FinishCheckpoint
  <2>1. /\ pc = "cleared" /\ pc' = "loop" /\ curSynced' = curFile
        /\ snapshot'.stage = "none"
        /\ UNCHANGED <<writes, current, files, curFile>>
    BY <1>14 DEF FinishCheckpoint, stateVars, NoSnapshot
  <2>2. current = curFile /\ curFile # NoCurrent
    BY <2>1 DEF Copies
  <2>3. Shape(curFile) /\ LastLog(curFile) \in curFile.logs
    BY <1>t, <2>2, ShapeLast DEF SavedSets, Saved
  <2>4. SavedSets'
    BY <2>1 DEF SavedSets, Saved, Present
  <2>5. Copies'
    BY <2>1, <2>2, <2>3 DEF Copies
  <2>6. Duties'
    BY <2>1, <2>2 DEF Duties
  <2> QED BY <2>4, <2>5, <2>6
<1>15. CASE Exit
  <2>1. /\ pc = "loop" /\ pc' = "down" /\ snapshot.stage = "none" /\ writes = {}
        /\ UNCHANGED <<writes, current, files, curFile, curSynced, snapshot>>
    BY <1>15 DEF Exit, Selecting, Idle, taskVars, stateVars, diskVars
  <2> QED BY <2>1 DEF SavedSets, Saved, Present, Copies, Duties
<1>16. CASE FinishSnapshot
  <2>1. /\ pc \in {"loop", "select", "draining"} /\ pc' = pc
        /\ snapshot.stage = "encoding" /\ snapshot'.stage = "final"
        /\ snapshot'.gen = snapshot.gen
        /\ files' = files \cup {SnapFile(snapshot.gen)}
        /\ UNCHANGED <<writes, current, curFile, curSynced>>
    BY <1>16, <1>t DEF FinishSnapshot, Selecting, Idle, stateVars, Snapshots
  <2>2. snapshot.gen # 0 /\ current.pending = snapshot.gen
        /\ \A c \in Saved : c.pending = snapshot.gen
    BY <2>1 DEF TypeInv, InUse, Duties, Saved
  <2>3. \A c \in Saved : files' \subseteq Known(c)
    BY <2>1, <2>2 DEF SavedSets, Known, Leftover
  <2>4. SavedSets'
    BY <2>1, <2>3 DEF SavedSets, Saved, Present
  <2>5. Copies'
    BY <2>1 DEF Copies
  <2>6. Duties'
    BY <2>1, <2>2 DEF Duties
  <2> QED BY <2>4, <2>5, <2>6
<1>17. CASE PublishSnapshot
  <2>a. PICK gen : gen = snapshot.gen
    OBVIOUS
  <2>b. PICK w : w = WithSnapshot(current, snapshot)
    OBVIOUS
  <2>1. /\ pc \in {"loop", "select"} /\ pc' = "published"
        /\ snapshot.stage = "final"
        /\ EncodeOk(w) /\ current' = w /\ curFile' = w
        /\ UNCHANGED <<writes, snapshot, curSynced, files>>
    BY <1>17, <2>b DEF PublishSnapshot, Selecting, Idle, taskVars
  <2>2. /\ current = curFile /\ curFile = curSynced /\ curFile # NoCurrent
        /\ current.garbage = {} /\ current.pending = gen /\ gen # 0
        /\ SnapFile(gen) \in files
    BY <2>a, <2>1 DEF Copies, Duties, TypeInv, InUse
  <2>3. Shape(current) /\ Present(current) /\ files \subseteq Known(current)
    BY <2>1, <2>2 DEF SavedSets, Saved
  <2>4. /\ gen = LastLog(current) /\ gen \in current.logs /\ gen \in Nat
        /\ current.logs = current.snapshot..gen /\ current.snapshot \in Nat
        /\ current.snapshot # gen
    BY <1>t, <2>2, <2>3, ShapeLast DEF Gens
  <2>5. /\ w.snapshot = gen /\ w.pending = 0
        /\ w.logs = {g \in current.logs : g >= gen}
        /\ w.garbage = {SnapFile(current.snapshot)}
                         \cup {LogFile(g) : g \in {h \in current.logs : h < gen}}
    BY <2>a, <2>b, <2>2 DEF WithSnapshot
  <2>6. w.logs = gen..gen /\ w.logs = {gen}
    BY <2>4, <2>5
  <2>7. LastLog(w) = gen
    <3>1. gen \in Nat /\ gen <= gen
      BY <2>4
    <3> QED BY <2>6, <3>1, LastOf
  <2>8. Shape(w)
    <3>1. SnapFile(gen) \notin w.garbage
      BY <2>4, <2>5, FileNames
    <3>2. \A g \in w.logs : LogFile(g) \notin w.garbage
      BY <2>4, <2>5, <2>6, FileNames
    <3> QED BY <2>2, <2>5, <2>6, <3>1, <3>2 DEF Shape
  <2>9. files \subseteq Known(w)
    <3>1. \A g \in current.logs : g < gen \/ g = gen
      BY <2>4
    <3>2. \A g \in current.logs : LogFile(g) \in Known(w)
      BY <2>5, <2>6, <3>1 DEF Known, Leftover
    <3>3. SnapFile(current.snapshot) \in Known(w) /\ SnapFile(gen) \in Known(w)
          /\ LogFile(gen + 1) \in Known(w)
      BY <2>5, <2>7 DEF Known, Leftover
    <3> QED BY <2>2, <2>3, <2>4, <3>2, <3>3 DEF Known, Leftover
  <2>10. Present(w)'
    BY <2>1, <2>2, <2>3, <2>4, <2>5, <2>6 DEF Present
  <2>11. w # NoCurrent
    BY <2>8 DEF Shape, NoCurrent
  <2>12. SavedSets'
    BY <2>1, <2>2, <2>3, <2>8, <2>9, <2>10 DEF SavedSets, Saved, Present
  <2>13. Copies'
    BY <2>1, <2>2, <2>4, <2>6, <2>7, <2>11 DEF Copies
  <2>14. Duties'
    BY <2>1, <2>5 DEF Duties
  <2> QED BY <2>12, <2>13, <2>14
<1>18. CASE Drained \/ ProcessLoss \/ Panic
  <2>1. Abandon /\ pc # "down"
    BY <1>18 DEF Drained, ProcessLoss, Panic
  <2>2. /\ pc' = "down" /\ writes' = {} /\ snapshot'.stage = "none"
        /\ UNCHANGED <<files, curFile, curSynced>>
    BY <2>1 DEF Abandon, NoSnapshot
  <2> QED BY <2>2 DEF SavedSets, Saved, Present, Copies, Duties
<1>19. CASE PowerLoss
  <2>1. /\ pc = "down" /\ pc' = "down" /\ curFile' \in {curFile, curSynced}
        /\ curSynced' = curFile'
        /\ UNCHANGED <<writes, snapshot, files>>
    BY <1>19 DEF PowerLoss, taskVars
  <2>2. writes = {} /\ snapshot.stage = "none"
    BY <2>1 DEF Flight
  <2>3. curFile' = NoCurrent => curSynced = NoCurrent
    BY <2>1 DEF Copies
  <2>4. SavedSets'
    BY <2>1 DEF SavedSets, Saved, Present
  <2>5. curFile' # NoCurrent => LastLog(curFile') \in curFile'.logs
    BY <1>t, <2>1, ShapeLast DEF SavedSets, Saved
  <2>6. Copies' /\ Duties'
    BY <2>1, <2>2, <2>3, <2>5 DEF Copies, Duties
  <2> QED BY <2>4, <2>6
<1>20. CASE Create
  <2>1. /\ pc = "down" /\ pc' = "down" /\ curFile = NoCurrent
        /\ files' = files \cup {SnapFile(1), LogFile(1)}
        /\ curFile' = FirstCurrent
        /\ UNCHANGED <<writes, snapshot, curSynced>>
    BY <1>20 DEF Create, taskVars
  <2>2. writes = {} /\ snapshot.stage = "none" /\ curSynced = NoCurrent
        /\ files' = {SnapFile(1), LogFile(1)}
    BY <2>1 DEF Flight, Copies
  <2>3. /\ FirstCurrent.snapshot = 1 /\ FirstCurrent.logs = {1}
        /\ FirstCurrent.garbage = {} /\ FirstCurrent.pending = 0
        /\ FirstCurrent.logs = 1..1
    BY DEF FirstCurrent
  <2>4. Shape(FirstCurrent) /\ FirstCurrent # NoCurrent
    BY <2>3 DEF Shape, NoCurrent
  <2>5. EncodeOk(FirstCurrent)
    <3>1. Cardinality({1}) = 1 /\ Cardinality({}) = 0
      BY FS_Singleton, FS_EmptySet
    <3> QED BY <1>n, <2>3, <3>1 DEF EncodeOk
  <2>6. Present(FirstCurrent)' /\ files' \subseteq Known(FirstCurrent)
    BY <2>2, <2>3 DEF Present, Known
  <2>7. SavedSets'
    BY <2>1, <2>2, <2>4, <2>5, <2>6 DEF SavedSets, Saved
  <2>8. Copies' /\ Duties'
    BY <2>1, <2>2, <2>4 DEF Copies, Duties
  <2> QED BY <2>7, <2>8
<1>21. CASE Recover
  <2>1. /\ pc = "down" /\ pc' = "repair" /\ current' = curFile /\ curFile # NoCurrent
        /\ UNCHANGED <<files, curFile, curSynced, writes, snapshot>>
    BY <1>21 DEF Recover, taskVars
  <2>2. writes = {} /\ snapshot.stage = "none"
    BY <2>1 DEF Flight
  <2> QED BY <2>1, <2>2 DEF SavedSets, Saved, Present, Copies, Duties
<1>22. CASE RemoveLeftover
  <2>1. /\ pc = "repair" /\ pc' = pc /\ curSynced' = curFile
        /\ UNCHANGED <<writes, snapshot, current, curFile>>
    BY <1>22 DEF RemoveLeftover, taskVars, stateVars
  <2>2. PICK x \in Leftover(current) : files' = files \ {x}
    BY <1>22 DEF RemoveLeftover
  <2>3. current = curFile /\ curFile # NoCurrent /\ writes = {}
        /\ snapshot.stage = "none"
    BY <2>1 DEF Copies, Flight
  <2>4. Shape(current) /\ Present(current) /\ files \subseteq Known(current)
        /\ EncodeOk(current)
    BY <2>1, <2>3 DEF SavedSets, Saved
  <2>5. x # SnapFile(current.snapshot) /\ \A g \in current.logs : x # LogFile(g)
    BY <2>2, <2>4, FileNames DEF Leftover, Shape
  <2>6. Present(current)'
    BY <2>1, <2>2, <2>4, <2>5 DEF Present
  <2>7. SavedSets'
    BY <2>1, <2>2, <2>3, <2>4, <2>6 DEF SavedSets, Saved, Present
  <2>8. LastLog(curFile) \in curFile.logs
    BY <1>t, <2>3, <2>4, ShapeLast
  <2>9. Copies' /\ Duties'
    BY <2>1, <2>3, <2>8 DEF Copies, Duties
  <2> QED BY <2>7, <2>9
<1>23. CASE Republish
  <2>1. /\ pc = "repair" /\ pc' = "republish" /\ Leftover(current) \cap files = {}
        /\ current' = [current EXCEPT !.garbage = {}, !.pending = 0]
        /\ curFile' = current' /\ curSynced' = curFile
        /\ UNCHANGED <<writes, snapshot, files>>
    BY <1>23 DEF Republish, taskVars
  <2>2. current = curFile /\ curFile # NoCurrent /\ writes = {}
        /\ snapshot.stage = "none"
    BY <2>1 DEF Copies, Flight
  <2>3. Shape(current) /\ Present(current) /\ files \subseteq Known(current)
        /\ EncodeOk(current)
    BY <2>1, <2>2 DEF SavedSets, Saved
  <2>4. /\ current'.logs = current.logs /\ current'.pending = 0
        /\ current'.snapshot = current.snapshot /\ current'.garbage = {}
    BY <1>t, <2>1 DEF Currents
  <2>5. LastLog(current') = LastLog(current)
    BY <2>4 DEF LastLog
  <2>6. Shape(current')
    BY <2>3, <2>4 DEF Shape
  <2>7. Present(current)'
    BY <2>1, <2>3, <2>4 DEF Present
  <2>8. files' \subseteq Known(current')
    BY <2>1, <2>3, <2>4, <2>5 DEF Known, Leftover
  <2>9. EncodeOk(current')
    BY <1>n, <2>3, <2>4, FS_EmptySet DEF EncodeOk
  <2>10. current' # NoCurrent
    BY <1>t, <2>6, ShapeLast
  <2>11. SavedSets'
    BY <2>1, <2>2, <2>3, <2>6, <2>7, <2>8, <2>9 DEF SavedSets, Saved, Present
  <2>12. LastLog(current) \in current.logs
    BY <1>t, <2>3, ShapeLast
  <2>13. Copies'
    BY <2>1, <2>2, <2>4, <2>5, <2>10, <2>12 DEF Copies
  <2>14. Duties'
    BY <2>1, <2>2, <2>4 DEF Duties
  <2> QED BY <2>11, <2>13, <2>14
<1>24. CASE Opened
  <2>1. /\ pc = "republish" /\ pc' = "loop" /\ curSynced' = curFile
        /\ UNCHANGED <<writes, current, files, curFile, snapshot>>
    BY <1>24 DEF Opened, taskVars, stateVars
  <2>2. current = curFile /\ curFile # NoCurrent /\ snapshot.stage = "none" /\ writes = {}
    BY <2>1 DEF Copies, Flight
  <2>3. Shape(curFile) /\ LastLog(curFile) \in curFile.logs
    BY <1>t, <2>2, ShapeLast DEF SavedSets, Saved
  <2>4. SavedSets'
    BY <2>1 DEF SavedSets, Saved, Present
  <2>5. Copies'
    BY <2>1, <2>2, <2>3 DEF Copies
  <2>6. Duties'
    BY <2>1, <2>2 DEF Duties
  <2> QED BY <2>4, <2>5, <2>6
<1> QED
  BY <1>2, <1>3, <1>4, <1>5, <1>6, <1>7, <1>8, <1>10, <1>11, <1>12, <1>13,
     <1>14, <1>15, <1>16, <1>17, <1>18, <1>19, <1>20, <1>21, <1>22, <1>23, <1>24
  DEF Next, Writer, Recovery

-----------------------------------------------------------------------------
(* What a recovery set holds.                                              *)

(* p is the beginning of h.                                                *)
Prefix(p, h) == Len(p) <= Len(h) /\ \A n \in 1..Len(p) : p[n] = h[n]

(* The recovery set c holds the log h: its snapshot is a prefix of h, its  *)
(* log files hold every later record once and in order, and the first s    *)
(* records, all of the older log files among them, survive a power loss.   *)
Holds(c, h, s) ==
  /\ c.lsn <= s
  /\ Len(snaps[c.snapshot]) = c.lsn /\ Prefix(snaps[c.snapshot], h)
  /\ \A g \in c.logs : \A f \in logs[g] :
       f.lsn \in (c.lsn + 1)..Len(h) /\ f.req = h[f.lsn]
  /\ \A n \in (c.lsn + 1)..Len(h) : \E g \in c.logs : Frame(n, h[n]) \in logs[g]
  /\ \A g, k \in c.logs : g < k =>
       \A e \in logs[g], f \in logs[k] : e.lsn < f.lsn
  /\ \A g \in c.logs : synced[g] = {f \in logs[g] : f.lsn <= s}
  /\ \A g \in c.logs \ {LastLog(c)} : \A f \in logs[g] : f.lsn <= s

(* Only the last log of c may end in an incomplete frame.                  *)
Torn(c) == \A g \in c.logs : tear[g] # 0 =>
  g = LastLog(c) /\ \A f \in logs[g] : f.lsn < tear[g]

(* What a set holds is what recovery reads from it.                        *)
LEMMA HeldIsRecovered ==
  ASSUME TypeOK, NEW c \in Currents, NEW h \in Records, NEW s \in Nat,
         s <= Len(h), Shape(c), EncodeOk(c), Present(c), Holds(c, h, s), Torn(c)
  PROVE  /\ ReplayOk(c, logs, tear, snaps, files)
         /\ LastLsn(c, logs) = Len(h)
         /\ Rebuilt(c, logs, snaps) = h
<1>t. /\ logs \in [Gens -> SUBSET Frames] /\ tear \in [Gens -> Nat]
      /\ snaps \in [Gens -> Records]
      /\ c.lsn \in Nat /\ Len(h) \in Nat
  BY LenProperties DEF TypeOK, DiskTypeOK, Currents, Records
<1>l. /\ LastLog(c) \in c.logs /\ c.logs \subseteq Gens /\ c.snapshot \in Gens
  BY ShapeLast
<1> DEFINE R == Replayed(c, logs)
           N == LsnsOf(R)
<1>1. \A f \in R : f.lsn \in (c.lsn + 1)..Len(h) /\ f.req = h[f.lsn] /\ f \in Frames
  BY <1>t, <1>l DEF Replayed, Holds
<1>2. \A n \in (c.lsn + 1)..Len(h) : Frame(n, h[n]) \in R
  BY DEF Replayed, Holds
<1>3. \A f \in R : f = Frame(f.lsn, f.req)
  BY <1>1 DEF Frame, Frames
<1>4. N = (c.lsn + 1)..Len(h)
  <2>1. N \subseteq (c.lsn + 1)..Len(h)
    BY <1>1 DEF LsnsOf
  <2>2. \A n \in (c.lsn + 1)..Len(h) : Frame(n, h[n]).lsn = n
    BY DEF Frame
  <2>3. (c.lsn + 1)..Len(h) \subseteq N
    BY <1>2, <2>2 DEF LsnsOf
  <2> QED BY <2>1, <2>3
<1>5. c.lsn <= Len(h)
  BY <1>t DEF Holds
<1>6. DecodeOk(c)
  BY DEF DecodeOk, Shape
<1>7. \E top \in {c.lsn} \cup N : N = (c.lsn + 1)..top
  <2>1. Len(h) \in {c.lsn} \cup N
    BY <1>t, <1>4, <1>5
  <2> QED BY <1>4, <2>1
<1>8. \A f, e \in R : f.lsn = e.lsn => f = e
  BY <1>1, <1>3
<1> HIDE DEF N
<1>9. \A g, k \in c.logs : g < k =>
        \A m \in LsnsOf(logs[g]), n \in LsnsOf(logs[k]) : m < n
  BY DEF Holds, LsnsOf
<1>10. \A g \in c.logs : tear[g] # 0 =>
         g = LastLog(c) /\ \A n \in LsnsOf(logs[g]) : n < tear[g]
  BY DEF Torn, LsnsOf
<1>11. ReplayOk(c, logs, tear, snaps, files)
  <2>1. SnapFile(c.snapshot) \in files /\ Len(snaps[c.snapshot]) = c.lsn
        /\ \A g \in c.logs : LogFile(g) \in files
    BY DEF Present, Holds
  <2> QED BY <1>6, <1>7, <1>8, <1>9, <1>10, <2>1 DEF ReplayOk, N
<1>12. LastLsn(c, logs) = Len(h)
  <2>1. CASE N = {}
    <3>1. c.lsn = Len(h)
      BY <1>t, <1>4, <1>5, <2>1
    <3> QED BY <2>1, <3>1 DEF LastLsn, N
  <2>2. CASE N # {}
    <3>1. Len(h) \in N /\ \A m \in N : m <= Len(h)
      BY <1>t, <1>4, <2>2
    <3>2. PICK x : x = LastLsn(c, logs)
      OBVIOUS
    <3>3. x \in N /\ \A m \in N : m <= x
      BY <2>2, <3>1, <3>2 DEF LastLsn, N
    <3>4. x = Len(h)
      BY <1>t, <1>4, <3>1, <3>3
    <3> QED BY <3>2, <3>4
  <2> QED BY <2>1, <2>2
<1>13. \A n \in 1..Len(h) :
         (IF n <= c.lsn THEN snaps[c.snapshot][n]
          ELSE (CHOOSE f \in R : f.lsn = n).req) = h[n]
  <2> SUFFICES ASSUME NEW n \in 1..Len(h)
               PROVE (IF n <= c.lsn THEN snaps[c.snapshot][n]
                      ELSE (CHOOSE f \in R : f.lsn = n).req) = h[n]
    OBVIOUS
  <2>1. CASE n <= c.lsn
    BY <1>t, <2>1 DEF Holds, Prefix
  <2>2. CASE ~(n <= c.lsn)
    <3>1. Frame(n, h[n]) \in R /\ Frame(n, h[n]).lsn = n
      BY <1>t, <1>2, <2>2 DEF Frame
    <3>2. PICK x : x = CHOOSE f \in R : f.lsn = n
      OBVIOUS
    <3>3. x \in R /\ x.lsn = n
      BY <3>1, <3>2
    <3>4. x.req = h[n]
      BY <1>1, <3>3
    <3> QED BY <2>2, <3>2, <3>4
  <2> QED BY <2>1, <2>2
<1>14. Rebuilt(c, logs, snaps) = h
  <2>1. Rebuilt(c, logs, snaps) = [n \in 1..Len(h) |->
          IF n <= c.lsn THEN snaps[c.snapshot][n]
          ELSE (CHOOSE f \in R : f.lsn = n).req]
    BY <1>12 DEF Rebuilt
  <2> HIDE DEF R
  <2>2. Rebuilt(c, logs, snaps) = [n \in 1..Len(h) |-> h[n]]
    BY <1>13, <2>1
  <2>3. h = [n \in 1..Len(h) |-> h[n]]
    BY LenProperties DEF Records
  <2> QED BY <2>2, <2>3
<1> QED BY <1>11, <1>12, <1>14

-----------------------------------------------------------------------------
(* The log that is stored, and what was said about it.                     *)

(* The recovery sets in play: both copies of CURRENT on disk, and the one  *)
(* in memory while there is a writer.                                      *)
Sets == Saved \cup (IF pc = "down" THEN {} ELSE {current})

(* Every set in play holds the same log h, and all but the records after s *)
(* survive a power loss.                                                   *)
Stored(h, s) ==
  /\ s <= Len(h)
  /\ curSynced = NoCurrent => h = <<>>
  /\ \A c \in Sets : Holds(c, h, s) /\ Torn(c)
  /\ pc # "down" => machine = h /\ \A c \in Sets : \A g \in c.logs : tear[g] = 0
  /\ curSynced # NoCurrent =>
       LastLog(curSynced) = LastLog(curFile) \/ s = Len(h)
  /\ pc \in {"query", "rotate", "rotated"} => s = Len(h)
  /\ pc \in {"rotate", "rotated"} => logs[LastLog(current)] = {}

(* A snapshot that is not published yet is a durable prefix of h, and its  *)
(* log is the one that goes on where it ends.                              *)
Cut(h, s) ==
  snapshot.stage # "none" /\ pc \in {"loop", "query", "select"} =>
    /\ Len(snapshot.state) <= s /\ Prefix(snapshot.state, h)
    /\ \A g \in current.logs : \A f \in logs[g] :
         g = snapshot.gen <=> f.lsn > Len(snapshot.state)
    /\ snapshot.stage = "final" => snaps[snapshot.gen] = snapshot.state

(* What callers were told, or are about to be told, is in h; what they     *)
(* were told is durable is in its first s records.                         *)
Acked(h, s) ==
  /\ \A r \in Durable : status[r] = "done" =>
       answer[r] \in 1..s /\ h[answer[r]] = r
  /\ \A r \in Written : status[r] = "done" /\ powerLosses = 0 =>
       answer[r] \in 1..Len(h) /\ h[answer[r]] = r
  /\ \A q \in Queries : status[q] = "done" =>
       Len(answer[q]) <= s /\ Prefix(answer[q], h)
  /\ Up => \A r \in durable \cup sync :
       answer[r] \in 1..Len(h) /\ h[answer[r]] = r

(* The log h is stored, its first s records durably, and callers know of it *)
(* no more than that.                                                      *)
DataInv(h, s) == Stored(h, s) /\ Cut(h, s) /\ Acked(h, s)

(* Two sets that name the same snapshot and the same logs; they may differ *)
(* in what is left to delete.                                              *)
Alike(c, d) == c.lsn = d.lsn /\ c.snapshot = d.snapshot /\ c.logs = d.logs

(* They hold the same log.                                                 *)
LEMMA AlikeHolds ==
  ASSUME NEW c, NEW d, NEW h, NEW s, Alike(c, d), Holds(c, h, s)
  PROVE  Holds(d, h, s) /\ LastLog(d) = LastLog(c)
<1>1. LastLog(d) = LastLog(c)
  BY DEF LastLog, Alike
<1>2. /\ c.logs = d.logs /\ c.lsn = d.lsn /\ c.snapshot = d.snapshot
  BY DEF Alike
<1> QED BY <1>1, <1>2 DEF Holds

(* A set holds what it held as long as its files are not touched.          *)
LEMMA HoldsKept ==
  ASSUME NEW c, NEW h, NEW s, Holds(c, h, s),
         snaps'[c.snapshot] = snaps[c.snapshot],
         \A g \in c.logs : logs'[g] = logs[g] /\ synced'[g] = synced[g]
  PROVE  Holds(c, h, s)'
BY DEF Holds

(* No step but a crash leaves an incomplete frame.                         *)
LEMMA TornKept ==
  ASSUME NEW c, Torn(c),
         \A g \in c.logs : logs'[g] = logs[g] /\ tear'[g] \in {tear[g], 0}
  PROVE  Torn(c)'
BY DEF Torn

(* A step that leaves the logs alone and names no new set.                 *)
LEMMA StoredSame ==
  ASSUME NEW h, NEW s, Stored(h, s), UNCHANGED <<logs, synced, tear>>,
         \A c \in Sets : snaps'[c.snapshot] = snaps[c.snapshot],
         \A d \in Sets' : \E c \in Sets : Alike(c, d),
         curSynced' = NoCurrent => curSynced = NoCurrent,
         pc' # "down" => pc # "down" /\ machine' = machine,
         curSynced' # NoCurrent =>
           LastLog(curSynced') = LastLog(curFile') \/ s = Len(h),
         pc' \in {"query", "rotate", "rotated"} => s = Len(h),
         pc' \in {"rotate", "rotated"} => logs[LastLog(current')] = {}
  PROVE  Stored(h, s)'
<1>1. \A d \in Sets' : Holds(d, h, s)' /\ Torn(d)'
  <2> TAKE d \in Sets'
  <2>1. PICK c \in Sets : Alike(c, d)
    OBVIOUS
  <2>2. Holds(c, h, s)' /\ Torn(c)'
    BY HoldsKept, TornKept DEF Stored
  <2>3. c.logs = d.logs /\ LastLog(c) = LastLog(d) /\ c.lsn = d.lsn
        /\ c.snapshot = d.snapshot
    BY <2>1 DEF Alike, LastLog
  <2>4. Holds(d, h, s)'
    BY <2>2, <2>3 DEF Holds
  <2>5. Torn(d)'
    BY <2>2, <2>3 DEF Torn
  <2> QED BY <2>4, <2>5
<1>2. pc' # "down" => machine' = h /\ \A d \in Sets' : \A g \in d.logs : tear'[g] = 0
  BY DEF Stored, Alike
<1> QED BY <1>1, <1>2 DEF Stored

(* A request that was answered keeps its answer.                           *)
LEMMA DoneStays ==
  ASSUME TypeInv, Flight, Tickets, [Next]_vars, NEW r \in Requests, status[r] = "done"
  PROVE  status'[r] = "done" /\ answer'[r] = answer[r]
<1>t. /\ status \in [Requests -> Statuses] /\ answer = [x \in Requests |-> answer[x]]
      /\ queue \in Seq(Requests) /\ Len(queue) \in Nat
      /\ None \notin Requests /\ MaxBatch \in Nat
      /\ \A b \in writes : b.reqs \in Seq(Appends)
  BY ConstantsAssumption, LenProperties
  DEF TypeInv, TypeOK, ClientsTypeOK, TaskTypeOK, Batches, Records
<1>1. ASSUME UNCHANGED <<status, answer>> PROVE status'[r] = "done" /\ answer'[r] = answer[r]
  BY <1>1
<1>2. CASE UNCHANGED vars
  BY <1>2 DEF vars
<1>3. CASE Close \/ ReceiveClosed
  BY <1>3 DEF Close, ReceiveClosed, clientVars
<1>4. CASE \E x \in Requests : Submit(x)
  BY <1>4, <1>t DEF Submit
<1>5. CASE Coalesce \/ Answer
  <2>1. barrier # r
    <3>1. Up /\ barrier # None
      BY <1>5, ConstantsAssumption DEF Coalesce, CoalesceReady, Answer, TypeInv, InUse,
         Up, Requests
    <3> QED BY <3>1 DEF Tickets
  <2> QED BY <1>5, <1>t, <2>1 DEF Coalesce, Answer
<1>6. CASE StartSync \/ Query \/ Rotate \/ PublishRotation \/ StartSnapshot
           \/ SyncPublication \/ RemoveGarbage \/ ClearGarbage \/ Exit
  BY <1>1, <1>6 DEF StartSync, Query, Rotate, PublishRotation, StartSnapshot,
     SyncPublication, RemoveGarbage, ClearGarbage, Exit, clientVars
<1>7. ASSUME FailOutstanding, answer' = answer
      PROVE  status'[r] = "done" /\ answer'[r] = answer[r]
  BY <1>7, <1>t DEF FailOutstanding, Outstanding
<1>8. CASE RefuseRotation \/ Fail \/ ProcessLoss \/ Panic
  BY <1>7, <1>8 DEF RefuseRotation, Fail, ProcessLoss, Panic, Stop, Abandon
<1>9. CASE FinishCheckpoint
  BY <1>9, <1>t DEF FinishCheckpoint
<1>10. CASE ReceiveAppends
  <2>1. PICK k \in 1..MaxBatch :
          /\ IsBatch(k)
          /\ LET next == IF k < MaxBatch /\ k < Len(queue) THEN queue[k + 1]
                                                           ELSE None
             IN  status' = [x \in Requests |->
                      IF \E i \in 1..k : queue[i] = x THEN "batch"
                      ELSE IF x = next THEN "barrier" ELSE status[x]]
    BY <1>10 DEF ReceiveAppends
  <2>2. \A i \in 1..Len(queue) : queue[i] # r
    BY <1>10 DEF ReceiveAppends, Selecting, Idle, Up, Tickets
  <2>3. k <= Len(queue)
    BY <2>1 DEF IsBatch
  <2>4. ~\E i \in 1..k : queue[i] = r
    BY <1>t, <2>2, <2>3
  <2>5. r # IF k < MaxBatch /\ k < Len(queue) THEN queue[k + 1] ELSE None
    BY <1>t, <2>2
  <2> QED BY <1>10, <2>1, <2>4, <2>5 DEF ReceiveAppends
<1>11. CASE ReceiveBarrier
  <2>1. \A i \in 1..Len(queue) : queue[i] # r
    BY <1>11 DEF ReceiveBarrier, Selecting, Idle, Up, Tickets
  <2>2. Head(queue) # r
    BY <1>11, <1>t, <2>1 DEF ReceiveBarrier, ReceiveReady
  <2> QED BY <1>11, <1>t, <2>2 DEF ReceiveBarrier
<1>12. CASE CompleteWrite
  <2>1. PICK b \in writes :
          /\ answer' = [x \in Requests |->
               IF x \in Callers(b) THEN LsnIn(b, x) ELSE answer[x]]
          /\ status' = [x \in Requests |->
               IF x \notin Callers(b) THEN status[x]
               ELSE IF x \in Durable THEN "sync" ELSE "done"]
    BY <1>12 DEF CompleteWrite
  <2>2. r \notin Callers(b)
    BY <1>12 DEF CompleteWrite, Selecting, Idle, Up, Tickets
  <2> QED BY <2>1, <2>2
<1>13. CASE CompleteSync
  BY <1>13 DEF CompleteSync
<1>14. CASE FinishSnapshot \/ PublishSnapshot \/ Drained \/ PowerLoss
  BY <1>1, <1>14 DEF FinishSnapshot, PublishSnapshot, Drained, Abandon, PowerLoss,
     clientVars
<1>15. CASE Recovery
  BY <1>1, <1>15 DEF Recovery, Create, Recover, RefuseRecovery, RemoveLeftover,
     Republish, Opened, clientVars, vars
<1> QED
  BY <1>2, <1>3, <1>4, <1>5, <1>6, <1>8, <1>9, <1>10, <1>11, <1>12, <1>13,
     <1>14, <1>15
  DEF Next, Clients, Writer, Receive

(* Answers given by a step must be in the log that the step leaves; those  *)
(* given before it stay there as long as what was durable stays, and the   *)
(* rest too but for a power loss.                                          *)
LEMMA AckedStep ==
  ASSUME TypeInv, Flight, Tickets, [Next]_vars,
         NEW h \in Records, NEW h1 \in Records, NEW s \in Nat, NEW s1 \in Nat,
         s <= Len(h), s <= s1, s1 <= Len(h1), Acked(h, s),
         \A n \in 1..s : h1[n] = h[n],
         powerLosses' = 0 => powerLosses = 0 /\ Prefix(h, h1),
         \A r \in Durable : status'[r] = "done" /\ status[r] # "done" =>
           answer'[r] \in 1..s1 /\ h1[answer'[r]] = r,
         \A r \in Written : status'[r] = "done" /\ status[r] # "done" =>
           answer'[r] \in 1..Len(h1) /\ h1[answer'[r]] = r,
         \A q \in Queries : status'[q] = "done" /\ status[q] # "done" =>
           Len(answer'[q]) <= s1 /\ Prefix(answer'[q], h1),
         Up' => \A r \in durable' \cup sync' :
           answer'[r] \in 1..Len(h1) /\ h1[answer'[r]] = r
  PROVE  Acked(h1, s1)'
<1>t. /\ Len(h) \in Nat /\ Len(h1) \in Nat
      /\ \A q \in Queries : Len(answer[q]) \in Nat
  BY LenProperties DEF Records, TypeInv, TypeOK, ClientsTypeOK
<1>r. Durable \subseteq Requests /\ Written \subseteq Requests /\ Queries \subseteq Requests
  BY DEF Requests, Appends
<1>1. \A r \in Durable : status'[r] = "done" =>
        answer'[r] \in 1..s1 /\ h1[answer'[r]] = r
  <2> SUFFICES ASSUME NEW r \in Durable, status[r] = "done"
               PROVE  answer'[r] \in 1..s1 /\ h1[answer'[r]] = r
    OBVIOUS
  <2>1. answer'[r] = answer[r]
    BY <1>r, DoneStays
  <2>2. answer[r] \in 1..s /\ h[answer[r]] = r
    BY DEF Acked
  <2>3. answer[r] \in 1..s1
    BY <2>2
  <2> QED BY <2>1, <2>2, <2>3
<1>2. \A r \in Written : status'[r] = "done" /\ powerLosses' = 0 =>
        answer'[r] \in 1..Len(h1) /\ h1[answer'[r]] = r
  <2> SUFFICES ASSUME NEW r \in Written, status[r] = "done", powerLosses' = 0
               PROVE  answer'[r] \in 1..Len(h1) /\ h1[answer'[r]] = r
    OBVIOUS
  <2>1. answer'[r] = answer[r]
    BY <1>r, DoneStays
  <2>2. answer[r] \in 1..Len(h) /\ h[answer[r]] = r
    BY DEF Acked
  <2>3. answer[r] \in 1..Len(h1) /\ h1[answer[r]] = h[answer[r]]
    BY <1>t, <2>2 DEF Prefix
  <2> QED BY <2>1, <2>2, <2>3
<1>3. \A q \in Queries : status'[q] = "done" =>
        Len(answer'[q]) <= s1 /\ Prefix(answer'[q], h1)
  <2> SUFFICES ASSUME NEW q \in Queries, status[q] = "done"
               PROVE  Len(answer'[q]) <= s1 /\ Prefix(answer'[q], h1)
    OBVIOUS
  <2>1. answer'[q] = answer[q]
    BY <1>r, DoneStays
  <2>2. Len(answer[q]) <= s /\ \A n \in 1..Len(answer[q]) : answer[q][n] = h[n]
    BY DEF Acked, Prefix
  <2>3. Len(answer[q]) <= s1 /\ Len(answer[q]) <= Len(h1)
        /\ \A n \in 1..Len(answer[q]) : n \in 1..s
    BY <1>t, <2>2
  <2> QED BY <2>1, <2>2, <2>3 DEF Prefix
<1> QED BY <1>1, <1>2, <1>3 DEF Acked

(* A sync makes more of the same log durable.                              *)
LEMMA HoldsSynced ==
  ASSUME NEW c, NEW h \in Records, NEW s \in Nat, NEW s1 \in Nat,
         c.lsn \in Nat, c.logs \subseteq Gens, logs \in [Gens -> SUBSET Frames],
         Holds(c, h, s), s <= s1, snaps'[c.snapshot] = snaps[c.snapshot],
         \A g \in c.logs : logs'[g] = logs[g],
         \A g \in c.logs : synced'[g] = {f \in logs[g] : f.lsn <= s1}
  PROVE  Holds(c, h, s1)'
<1>1. \A g \in c.logs : \A f \in logs[g] : f.lsn \in Nat
  BY DEF Frames
<1>2. c.lsn <= s1
  BY DEF Holds
<1>3. \A g \in c.logs \ {LastLog(c)} : \A f \in logs[g] : f.lsn <= s1
  BY <1>1 DEF Holds
<1> QED BY <1>2, <1>3 DEF Holds

(* The frames of h1 that follow h are written at the end of the last log.  *)
LEMMA HoldsGrown ==
  ASSUME NEW c \in Currents, NEW h \in Records, NEW h1 \in Records, NEW s \in Nat,
         Shape(c), Holds(c, h, s), s <= Len(h), Prefix(h, h1), TypeOK,
         UNCHANGED <<synced, snaps>>,
         logs' = [logs EXCEPT ![LastLog(c)] = @ \cup
           {Frame(n, h1[n]) : n \in (Len(h) + 1)..Len(h1)}]
  PROVE  Holds(c, h1, s)'
<1> DEFINE G == {Frame(n, h1[n]) : n \in (Len(h) + 1)..Len(h1)}
<1>t. /\ logs \in [Gens -> SUBSET Frames] /\ Len(h) \in Nat /\ Len(h1) \in Nat
      /\ c.lsn \in Nat /\ c.snapshot \in Gens /\ c.logs \subseteq Gens
      /\ snaps \in [Gens -> Records]
      /\ LastLog(c) \in c.logs /\ c.logs \subseteq Nat
      /\ \A g \in c.logs : g <= LastLog(c)
  <2>1. /\ LastLog(c) \in c.logs /\ LastLog(c) \in Gens /\ c.snapshot \in Gens
        /\ c.logs = c.snapshot..LastLog(c) /\ c.logs \subseteq Gens
    BY ShapeLast
  <2>2. LastLog(c) \in Nat /\ c.snapshot \in Nat
    BY <2>1 DEF Gens
  <2>3. c.logs \subseteq Nat /\ \A g \in c.logs : g <= LastLog(c)
    BY <2>1, <2>2
  <2> QED BY <2>1, <2>3, LenProperties DEF TypeOK, DiskTypeOK, Currents, Records
<1>1. PICK last : last = LastLog(c)
  OBVIOUS
<1>2. /\ logs'[last] = logs[last] \cup G
      /\ \A g \in c.logs : g # last => logs'[g] = logs[g]
  BY <1>t, <1>1
<1>3. \A f \in G : f.lsn \in (Len(h) + 1)..Len(h1) /\ f.req = h1[f.lsn]
  BY DEF Frame
<1>4. \A g \in c.logs : \A f \in logs[g] :
        f.lsn \in (c.lsn + 1)..Len(h) /\ f.req = h[f.lsn]
  BY DEF Holds
<1>5. \A g \in c.logs : \A f \in logs[g] : f.lsn \in (c.lsn + 1)..Len(h1) /\ f.req = h1[f.lsn]
  BY <1>t, <1>4 DEF Prefix
<1>6. c.lsn <= s /\ Len(h) <= Len(h1)
  BY DEF Holds, Prefix
<1>7. \A f \in G : f.lsn \in (c.lsn + 1)..Len(h1)
  BY <1>t, <1>3, <1>6
<1>8. \A n \in (Len(h) + 1)..Len(h1) : Frame(n, h1[n]) \in G
  OBVIOUS
<1> HIDE DEF G
<1>9. \A g \in c.logs : \A f \in logs'[g] :
        f.lsn \in (c.lsn + 1)..Len(h1) /\ f.req = h1[f.lsn]
  BY <1>2, <1>3, <1>5, <1>7
<1>10. \A n \in (c.lsn + 1)..Len(h1) : \E g \in c.logs : Frame(n, h1[n]) \in logs'[g]
  <2> TAKE n \in (c.lsn + 1)..Len(h1)
  <2>1. CASE n <= Len(h)
    <3>1. n \in (c.lsn + 1)..Len(h) /\ n \in 1..Len(h)
      BY <1>t, <2>1
    <3>2. PICK g \in c.logs : Frame(n, h[n]) \in logs[g]
      BY <3>1 DEF Holds
    <3>3. h1[n] = h[n]
      BY <3>1 DEF Prefix
    <3>4. logs[g] \subseteq logs'[g]
      BY <1>2
    <3> QED BY <3>2, <3>3, <3>4
  <2>2. CASE n > Len(h)
    <3>1. n \in (Len(h) + 1)..Len(h1)
      BY <1>t, <2>2
    <3> QED BY <1>t, <1>1, <1>2, <1>8, <3>1
  <2>3. n <= Len(h) \/ n > Len(h)
    BY <1>t
  <2> QED BY <2>1, <2>2, <2>3
<1>11. \A g, k \in c.logs : g < k => \A e \in logs'[g], f \in logs'[k] : e.lsn < f.lsn
  <2> SUFFICES ASSUME NEW g \in c.logs, NEW k \in c.logs, g < k,
                      NEW e \in logs'[g], NEW f \in logs'[k]
               PROVE  e.lsn < f.lsn
    OBVIOUS
  <2>1. g # last
    BY <1>t, <1>1
  <2>2. e \in logs[g] /\ e.lsn \in (c.lsn + 1)..Len(h)
    BY <1>2, <1>4, <2>1
  <2>3. CASE f \in logs[k]
    BY <2>2, <2>3 DEF Holds
  <2>4. CASE f \in G
    BY <1>t, <1>3, <2>2, <2>4
  <2> QED BY <1>2, <2>3, <2>4
<1>12. \A g \in c.logs : synced'[g] = {f \in logs'[g] : f.lsn <= s}
  <2> TAKE g \in c.logs
  <2>1. synced'[g] = {f \in logs[g] : f.lsn <= s}
    BY DEF Holds
  <2>2. \A f \in G : ~(f.lsn <= s)
    BY <1>t, <1>3
  <2> QED BY <1>2, <2>1, <2>2
<1>13. \A g \in c.logs \ {LastLog(c)} : \A f \in logs'[g] : f.lsn <= s
  BY <1>1, <1>2 DEF Holds
<1>14. Len(snaps'[c.snapshot]) = c.lsn /\ Prefix(snaps'[c.snapshot], h1)
  <2>1. Len(snaps[c.snapshot]) = c.lsn /\ Prefix(snaps[c.snapshot], h)
    BY DEF Holds
  <2>2. c.lsn <= Len(h) /\ c.lsn <= Len(h1)
    BY <1>t, <1>6
  <2> QED BY <1>t, <2>1, <2>2 DEF Prefix
<1> QED BY <1>6, <1>9, <1>10, <1>11, <1>12, <1>13, <1>14 DEF Holds

(* What reached the log of a batch extends h by the batch's first records. *)
LEMMA LandedTail ==
  ASSUME NEW h \in Records, NEW b, b.reqs \in Records, b.lsn = Len(h),
         NEW k \in 0..Len(b.reqs)
  PROVE  \E h1 \in Records :
           /\ Prefix(h, h1) /\ Len(h1) = Len(h) + k
           /\ Landed(b, k) = {Frame(n, h1[n]) : n \in (Len(h) + 1)..Len(h1)}
           /\ \A i \in 1..k : h1[Len(h) + i] = b.reqs[i]
           /\ k = Len(b.reqs) => h1 = h \o b.reqs
<1>t. Len(h) \in Nat /\ Len(b.reqs) \in Nat /\ k \in Nat /\ h \in Seq(Appends)
      /\ b.reqs \in Seq(Appends)
  BY LenProperties DEF Records
<1> DEFINE p == SubSeq(b.reqs, 1, k)
           h1 == h \o p
<1>1. p \in Seq(Appends) /\ Len(p) = k /\ \A i \in 1..k : p[i] = b.reqs[i]
  <2>1. SubSeq(b.reqs, 1, k) = [i \in 1..k |-> b.reqs[i]]
    BY <1>t
  <2>2. [i \in 1..k |-> b.reqs[i]] \in [1..k -> Appends]
    BY <1>t
  <2>3. [1..k -> Appends] \subseteq Seq(Appends)
    BY <1>t, SeqDef
  <2>4. p \in Seq(Appends) /\ DOMAIN p = 1..k
    BY <2>1, <2>2, <2>3
  <2>5. Len(p) = k
    BY <1>t, <2>4, LenProperties
  <2> QED BY <2>1, <2>4, <2>5
<1>2. k = Len(b.reqs) => p = b.reqs
  <2>1. k = Len(b.reqs) => \A i \in 1..Len(p) : p[i] = b.reqs[i]
    BY <1>1
  <2> QED BY <1>t, <1>1, <2>1, SeqEqual
<1> HIDE DEF p
<1>3. /\ h1 \in Seq(Appends) /\ Len(h1) = Len(h) + k
      /\ \A n \in 1..Len(h) : h1[n] = h[n]
      /\ \A i \in 1..k : h1[Len(h) + i] = b.reqs[i]
  <2>1. h \o p \in Seq(Appends) /\ Len(h \o p) = Len(h) + Len(p)
    BY <1>t, <1>1, ConcatProperties
  <2>2. \A n \in 1..Len(h) + Len(p) :
          (h \o p)[n] = IF n <= Len(h) THEN h[n] ELSE p[n - Len(h)]
    BY <1>t, <1>1, ConcatProperties
  <2>3. \A i \in 1..k : Len(h) + i \in 1..Len(h) + Len(p) /\ ~(Len(h) + i <= Len(h))
                        /\ (Len(h) + i) - Len(h) = i
    BY <1>t, <1>1
  <2>4. \A i \in 1..k : (h \o p)[Len(h) + i] = b.reqs[i]
    <3> TAKE i \in 1..k
    <3>1. PICK n \in 1..Len(h) + Len(p) : n = Len(h) + i /\ ~(n <= Len(h)) /\ n - Len(h) = i
      BY <2>3
    <3>2. (h \o p)[n] = p[i]
      BY <2>2, <3>1
    <3> QED BY <1>1, <3>1, <3>2
  <2>5. \A n \in 1..Len(h) : n \in 1..Len(h) + Len(p) /\ n <= Len(h)
    BY <1>t, <1>1
  <2> QED BY <1>1, <2>1, <2>2, <2>4, <2>5
<1>4. k = Len(b.reqs) => h1 = h \o b.reqs
  BY <1>2
<1> HIDE DEF h1
<1>5. Prefix(h, h1)
  BY <1>t, <1>3 DEF Prefix
<1>7. Landed(b, k) = {Frame(n, h1[n]) : n \in (Len(h) + 1)..Len(h1)}
  <2>1. \A i \in 1..k : Len(h) + i \in (Len(h) + 1)..Len(h1)
                        /\ Frame(b.lsn + i, b.reqs[i]) = Frame(Len(h) + i, h1[Len(h) + i])
    BY <1>t, <1>3
  <2>2. \A n \in (Len(h) + 1)..Len(h1) : \E i \in 1..k : n = Len(h) + i
    <3> TAKE n \in (Len(h) + 1)..Len(h1)
    <3>1. n - Len(h) \in 1..k /\ n = Len(h) + (n - Len(h))
      BY <1>t, <1>3
    <3> QED BY <3>1
  <2>3. Landed(b, k) \subseteq {Frame(n, h1[n]) : n \in (Len(h) + 1)..Len(h1)}
    BY <2>1 DEF Landed
  <2>4. {Frame(n, h1[n]) : n \in (Len(h) + 1)..Len(h1)} \subseteq Landed(b, k)
    <3> SUFFICES ASSUME NEW n \in (Len(h) + 1)..Len(h1)
                 PROVE  Frame(n, h1[n]) \in Landed(b, k)
      OBVIOUS
    <3>1. PICK i \in 1..k : n = Len(h) + i
      BY <2>2
    <3>2. Frame(n, h1[n]) = Frame(b.lsn + i, b.reqs[i])
      BY <2>1, <3>1
    <3> QED BY <3>2 DEF Landed
  <2> QED BY <2>3, <2>4
<1> QED BY <1>3, <1>4, <1>5, <1>7 DEF Records

(* Of a log that a power loss cut short, a prefix is left that has all the *)
(* durable records.                                                        *)
LEMMA HoldsCut ==
  ASSUME TypeOK, NEW c \in Currents, NEW h \in Records, NEW s \in Nat,
         Shape(c), Holds(c, h, s), Torn(c), s <= Len(h), PowerLoss
  PROVE  \E h1 \in Records : /\ Prefix(h1, h) /\ s <= Len(h1)
                             /\ Holds(c, h1, Len(h1))' /\ Torn(c)'
<1>t. /\ logs \in [Gens -> SUBSET Frames] /\ synced \in [Gens -> SUBSET Frames]
      /\ tear \in [Gens -> Nat]
      /\ Len(h) \in Nat /\ h \in Seq(Appends)
      /\ c.lsn \in Nat /\ c.snapshot \in Gens /\ c.logs \subseteq Gens
      /\ snaps' = snaps /\ snaps \in [Gens -> Records]
      /\ LastLog(c) \in c.logs
  BY ShapeLast, LenProperties DEF TypeOK, DiskTypeOK, Currents, Records, PowerLoss
<1>l. PICK last : last = LastLog(c)
  OBVIOUS
<1>2. PICK cut, torn, bad : PowerCut(cut, torn, bad)
  BY CutPicked
<1>3. \A g \in Dirty : cut[g] \in Nat
  BY <1>2, CutsAreLsns DEF PowerCut
<1>f. \A g \in c.logs : \A f \in logs[g] :
        /\ f.lsn \in (c.lsn + 1)..Len(h) /\ f.req = h[f.lsn] /\ f.lsn \in Nat
  BY <1>t DEF Holds
<1>4. \A g \in c.logs : g # last => g \notin Dirty
  <2> SUFFICES ASSUME NEW g \in c.logs, g # last
               PROVE  logs[g] = synced[g] /\ tear[g] = 0
    BY DEF Dirty
  <2>1. synced[g] = {f \in logs[g] : f.lsn <= s} /\ \A f \in logs[g] : f.lsn <= s
    BY <1>l DEF Holds
  <2> QED BY <1>l, <2>1 DEF Torn
<1>5. PICK m \in Nat : /\ s <= m /\ m <= Len(h)
                       /\ logs'[last] = {f \in logs[last] : f.lsn <= m}
                       /\ last \in torn => \A f \in logs'[last] : f.lsn < tear'[last]
                       /\ last \notin Dirty => m = Len(h)
  <2>1. CASE last \notin Dirty
    <3>1. logs'[last] = logs[last] /\ last \notin torn
      BY <1>t, <1>l, <1>2, <2>1 DEF PowerCut
    <3>2. logs'[last] = {f \in logs[last] : f.lsn <= Len(h)}
      BY <1>t, <1>l, <1>f, <3>1
    <3> QED BY <1>t, <3>1, <3>2
  <2>2. CASE last \in Dirty
    <3>1. PICK x \in Nat : x = cut[last]
      BY <1>3, <2>2
    <3>2. logs'[last] = {f \in logs[last] : f.lsn <= x}
      BY <1>t, <1>l, <1>2, <2>2, <3>1 DEF PowerCut
    <3>3. last \in torn => tear'[last] = x + 1
      BY <1>t, <1>l, <1>2, <3>1 DEF PowerCut
    <3>4. last \in torn => \A f \in logs'[last] : f.lsn < tear'[last]
      <4>1. \A f \in logs'[last] : f.lsn \in Nat /\ f.lsn <= x
        BY <1>t, <1>l, <1>f, <3>2
      <4> QED BY <3>3, <4>1
    <3>5. \A f \in logs[last] : f.lsn <= s => f.lsn <= x
      BY <1>t, <1>l, <1>2, <2>2, <3>1 DEF Holds, PowerCut
    <3>6. CASE x <= s
      <4>1. \A f \in logs[last] : f.lsn <= x <=> f.lsn <= s
        BY <1>t, <1>l, <1>f, <3>1, <3>5, <3>6
      <4>2. logs'[last] = {f \in logs[last] : f.lsn <= s}
        BY <3>2, <4>1
      <4> QED BY <2>2, <3>4, <4>2
    <3>7. CASE s < x /\ x <= Len(h)
      BY <2>2, <3>1, <3>2, <3>4, <3>7
    <3>8. CASE Len(h) < x
      <4>1. \A f \in logs[last] : f.lsn <= x <=> f.lsn <= Len(h)
        BY <1>t, <1>l, <1>f, <3>1, <3>8
      <4>2. logs'[last] = {f \in logs[last] : f.lsn <= Len(h)}
        BY <3>2, <4>1
      <4> QED BY <1>t, <2>2, <3>4, <4>2
    <3>9. x <= s \/ (s < x /\ x <= Len(h)) \/ Len(h) < x
      BY <1>t, <3>1
    <3> QED BY <3>6, <3>7, <3>8, <3>9
  <2> QED BY <2>1, <2>2
<1>6. PICK h1 \in Records : Len(h1) = m /\ \A n \in 1..m : h1[n] = h[n]
  <2> DEFINE p == SubSeq(h, 1, m)
  <2>1. SubSeq(h, 1, m) = [i \in 1..m |-> h[i]]
    BY <1>t, <1>5
  <2>2. [i \in 1..m |-> h[i]] \in [1..m -> Appends]
    BY <1>t, <1>5
  <2>3. [1..m -> Appends] \subseteq Seq(Appends)
    BY <1>5, SeqDef
  <2>4. p \in Seq(Appends) /\ DOMAIN p = 1..m
    BY <2>1, <2>2, <2>3
  <2>5. Len(p) = m
    BY <1>5, <2>4, LenProperties
  <2>6. \A n \in 1..m : p[n] = h[n]
    BY <2>1
  <2> HIDE DEF p
  <2> QED BY <2>4, <2>5, <2>6 DEF Records
<1>7. \A g \in c.logs : g # last => logs'[g] = logs[g] /\ g \notin torn
  BY <1>t, <1>2, <1>4 DEF PowerCut
<1>8. \A g \in c.logs : \A f \in logs[g] : f \in logs'[g] <=> f.lsn <= m
  <2> SUFFICES ASSUME NEW g \in c.logs, NEW f \in logs[g]
               PROVE  f \in logs'[g] <=> f.lsn <= m
    OBVIOUS
  <2>1. CASE g = last
    BY <1>5, <2>1
  <2>2. CASE g # last
    <3>1. f.lsn <= s
      BY <1>l, <2>2 DEF Holds
    <3>2. f.lsn <= m
      BY <1>5, <1>f, <3>1
    <3> QED BY <1>7, <2>2, <3>2
  <2> QED BY <2>1, <2>2
<1>9. \A g \in c.logs : logs'[g] \subseteq logs[g]
  BY <1>5, <1>7
<1>10. c.lsn <= m
  BY <1>t, <1>5 DEF Holds
<1>11. \A g \in c.logs : \A f \in logs'[g] :
         f.lsn \in (c.lsn + 1)..m /\ f.req = h1[f.lsn]
  BY <1>t, <1>5, <1>6, <1>8, <1>9, <1>f
<1>12. \A n \in (c.lsn + 1)..m : \E g \in c.logs : Frame(n, h1[n]) \in logs'[g]
  <2> TAKE n \in (c.lsn + 1)..m
  <2>1. n \in (c.lsn + 1)..Len(h) /\ n \in 1..m /\ n <= m
    BY <1>t, <1>5
  <2>2. PICK g \in c.logs : Frame(n, h[n]) \in logs[g]
    BY <2>1 DEF Holds
  <2>3. Frame(n, h[n]).lsn = n /\ h1[n] = h[n]
    BY <1>6, <2>1 DEF Frame
  <2> QED BY <1>8, <2>1, <2>2, <2>3
<1>13. \A g, k \in c.logs : g < k => \A e \in logs'[g], f \in logs'[k] : e.lsn < f.lsn
  BY <1>9 DEF Holds
<1>14. \A g \in c.logs : synced'[g] = {f \in logs'[g] : f.lsn <= m}
  <2> TAKE g \in c.logs
  <2>1. \A f \in logs'[g] : f.lsn <= m
    BY <1>8, <1>9
  <2>2. synced'[g] = logs'[g]
    BY <1>2 DEF PowerCut
  <2> QED BY <2>1, <2>2
<1>15. \A g \in c.logs : \A f \in logs'[g] : f.lsn <= m
  BY <1>8, <1>9
<1>16. Len(snaps'[c.snapshot]) = c.lsn /\ Prefix(snaps'[c.snapshot], h1)
  <2>1. Len(snaps[c.snapshot]) = c.lsn /\ Prefix(snaps[c.snapshot], h)
    BY DEF Holds
  <2>2. \A n \in 1..c.lsn : n \in 1..m
    BY <1>t, <1>10
  <2> QED BY <1>t, <1>6, <1>10, <2>1, <2>2 DEF Prefix
<1>17. Holds(c, h1, Len(h1))'
  BY <1>6, <1>10, <1>11, <1>12, <1>13, <1>14, <1>15, <1>16 DEF Holds
<1>18. Torn(c)'
  <2> SUFFICES ASSUME NEW g \in c.logs, tear'[g] # 0
               PROVE  g = LastLog(c) /\ \A f \in logs'[g] : f.lsn < tear'[g]
    BY DEF Torn
  <2>1. CASE g \in torn
    BY <1>5, <1>7, <1>l, <2>1
  <2>2. CASE g \notin torn
    BY <1>t, <1>2, <2>2 DEF PowerCut
  <2> QED BY <2>1, <2>2
<1>19. Prefix(h1, h) /\ s <= Len(h1)
  BY <1>5, <1>6 DEF Prefix
<1> QED BY <1>17, <1>18, <1>19

-----------------------------------------------------------------------------
(* The steps.                                                              *)

(* What one step may do to the log that is stored, given who it answers.   *)
Evolves(h, s, h1, s1) ==
  /\ s <= s1
  /\ \/ Prefix(h, h1)
     \/ Prefix(h1, h) /\ s <= Len(h1)
  /\ h1 # h => \A r \in Requests \ Written : status'[r] = "done" => status[r] = "done"

(* The step ends with some log stored that the old one evolves to.         *)
Onward(h, s) == \E h1 \in Records, s1 \in Nat :
  DataInv(h1, s1)' /\ Evolves(h, s, h1, s1)

(* The inductive invariant, for a given log and durable length.            *)
FullInv(h, s) ==
  TypeInv /\ CoverInv /\ Flight /\ Tickets /\ SetsInv /\ DataInv(h, s)

(* Every set in play has its shape.                                        *)
LEMMA SetsShaped ==
  ASSUME TypeInv, SetsInv, NEW c \in Sets
  PROVE  c \in Currents /\ Shape(c) /\ Present(c)
BY DEF TypeInv, TypeOK, StateTypeOK, DiskTypeOK, SetsInv, SavedSets, Sets, Saved

(* A step that may make more of the log durable, and answers no append and *)
(* no query.                                                               *)
LEMMA QuietSyncStep ==
  ASSUME NEW h \in Records, NEW s \in Nat, NEW s1 \in Nat, FullInv(h, s), [Next]_vars,
         s <= s1, s1 <= Len(h), Stored(h, s1)', Cut(h, s1)',
         powerLosses' = 0 => powerLosses = 0,
         \A r \in Appends \cup Queries : status'[r] = "done" => status[r] = "done",
         Up' => \A r \in durable' \cup sync' :
                  Up /\ r \in durable \cup sync /\ answer'[r] = answer[r]
  PROVE  Onward(h, s)
<1>1. Prefix(h, h) /\ s <= Len(h) /\ Len(h) \in Nat
  BY LenProperties DEF Prefix, FullInv, DataInv, Stored, Records
<1>2. Up' => \A r \in durable' \cup sync' :
                answer'[r] \in 1..Len(h) /\ h[answer'[r]] = r
  BY DEF FullInv, DataInv, Acked
<1>3. \A r \in Durable \cup Written : status'[r] = "done" => status[r] = "done"
  BY DEF Appends
<1>4. \A r \in Queries : status'[r] = "done" => status[r] = "done"
  OBVIOUS
<1>5. Acked(h, s1)'
  BY <1>1, <1>2, <1>3, <1>4, AckedStep DEF FullInv, DataInv
<1>6. DataInv(h, s1)' /\ Evolves(h, s, h, s1)
  BY <1>1, <1>5 DEF DataInv, Evolves
<1> QED BY <1>6 DEF Onward

(* A step that leaves the log as it is and answers no append and no query. *)
LEMMA QuietStep ==
  ASSUME NEW h \in Records, NEW s \in Nat, FullInv(h, s), [Next]_vars,
         Stored(h, s)', Cut(h, s)',
         powerLosses' = 0 => powerLosses = 0,
         \A r \in Appends \cup Queries : status'[r] = "done" => status[r] = "done",
         Up' => \A r \in durable' \cup sync' :
                  Up /\ r \in durable \cup sync /\ answer'[r] = answer[r]
  PROVE  Onward(h, s)
<1>1. s <= Len(h) /\ s <= s
  BY DEF FullInv, DataInv, Stored
<1> QED BY <1>1, QuietSyncStep

(* Steps that change nothing that is stored.                               *)
LEMMA IdleSteps ==
  ASSUME NEW h \in Records, NEW s \in Nat, FullInv(h, s), [Next]_vars,
         \/ UNCHANGED vars \/ Clients \/ Coalesce \/ StartSync \/ Receive \/ RemoveGarbage
         \/ RefuseRecovery
  PROVE  Onward(h, s)
<1>t. /\ status \in [Requests -> Statuses] /\ answer = [x \in Requests |-> answer[x]]
      /\ durable \cup sync \subseteq Durable
      /\ Durable \cap Checkpoints = {} /\ Appends \cup Queries \subseteq Requests
      /\ Durable \subseteq Requests
      /\ MaxBatch \in Nat
  BY ConstantsAssumption
  DEF FullInv, TypeInv, TypeOK, ClientsTypeOK, TaskTypeOK, Appends, Requests
<1>1. /\ UNCHANGED <<logs, synced, tear, snaps, curFile, curSynced, current,
                     machine, snapshot, powerLosses>>
      /\ pc' = pc \/ (pc = "select" /\ pc' = "loop")
  BY DEF vars, Clients, Close, Submit, Coalesce, StartSync, Receive, ReceiveAppends,
     ReceiveBarrier, ReceiveClosed, RefuseRecovery, RemoveGarbage, Selecting, Idle,
     taskVars, stateVars, diskVars, logVars, lossVars
<1>2. Stored(h, s)' /\ Cut(h, s)'
  BY <1>1 DEF FullInv, DataInv, Stored, Cut, Sets, Saved, Holds, Torn
<1>3. durable' \cup sync' \subseteq durable \cup sync
  BY DEF vars, Clients, Close, Submit, Coalesce, StartSync, Receive, ReceiveAppends,
     ReceiveBarrier, ReceiveClosed, RefuseRecovery, RemoveGarbage, taskVars
<1>4. \A r \in Durable : answer'[r] = answer[r]
  BY <1>t DEF vars, Clients, Close, Submit, Coalesce, StartSync, Receive, ReceiveAppends,
     ReceiveBarrier, ReceiveClosed, RefuseRecovery, RemoveGarbage, clientVars
<1>5. \A r \in Requests : status'[r] = "done" => status[r] = "done"
  <2>1. CASE UNCHANGED vars \/ Close \/ StartSync \/ RemoveGarbage \/ ReceiveClosed
             \/ RefuseRecovery
    BY <2>1 DEF vars, Close, StartSync, RemoveGarbage, ReceiveClosed, RefuseRecovery,
       clientVars
  <2>2. CASE Coalesce \/ ReceiveBarrier \/ \E r \in Requests : Submit(r)
    BY <1>t, <2>2 DEF Coalesce, ReceiveBarrier, Submit
  <2>3. CASE ReceiveAppends
    BY <2>3 DEF ReceiveAppends
  <2> QED BY <2>1, <2>2, <2>3 DEF Clients, Receive
<1>6. Up' = Up
  BY <1>1 DEF Up
<1> QED BY <1>t, <1>1, <1>2, <1>3, <1>4, <1>5, <1>6, QuietStep

(* Steps of the writer and of recovery that leave the logs alone.          *)
LEMMA PublishingSteps ==
  ASSUME NEW h \in Records, NEW s \in Nat, FullInv(h, s), [Next]_vars,
         \/ PublishRotation \/ StartSnapshot \/ SyncPublication \/ ClearGarbage
         \/ FinishCheckpoint \/ RemoveLeftover \/ Republish \/ Opened
  PROVE  Onward(h, s)
<1>i. /\ Stored(h, s) /\ Cut(h, s) /\ Copies /\ Duties /\ Flight /\ SetsInv /\ TypeInv
  BY DEF FullInv, DataInv, SetsInv
<1>t. /\ current \in Currents /\ running \subseteq Checkpoints
      /\ (Appends \cup Queries) \cap Checkpoints = {}
      /\ Appends \cup Queries \subseteq Requests
  BY <1>i, ConstantsAssumption
  DEF TypeInv, TypeOK, StateTypeOK, TaskTypeOK, Requests
<1>1. /\ UNCHANGED <<logs, synced, tear, snaps, machine, powerLosses, answer, durable, sync>>
      /\ pc # "down" /\ pc' # "down"
  BY DEF PublishRotation, StartSnapshot, SyncPublication, ClearGarbage, FinishCheckpoint,
     RemoveLeftover, Republish, Opened, taskVars, stateVars, logVars, lossVars, clientVars
<1>2. \A r \in Appends \cup Queries : status'[r] = "done" => status[r] = "done"
  BY <1>t DEF PublishRotation, StartSnapshot, SyncPublication, ClearGarbage,
     FinishCheckpoint, RemoveLeftover, Republish, Opened, clientVars
<1>3. Up' => Up \/ (durable' = {} /\ sync' = {})
  BY <1>i DEF PublishRotation, StartSnapshot, SyncPublication, ClearGarbage,
     FinishCheckpoint, RemoveLeftover, Republish, Opened, Up, Flight, taskVars
<1>4. /\ curSynced' = NoCurrent => curSynced = NoCurrent
      /\ pc' \notin {"query", "rotate"}
      /\ pc' = "rotated" => pc = "rotate" /\ current' = current
  BY <1>i DEF PublishRotation, StartSnapshot, SyncPublication, ClearGarbage,
     FinishCheckpoint, RemoveLeftover, Republish, Opened, Copies, stateVars
<1>5. \A d \in Sets' : \E c \in Sets : Alike(c, d)
  <2>1. CASE PublishRotation \/ StartSnapshot \/ SyncPublication \/ FinishCheckpoint
             \/ RemoveLeftover \/ Opened
    <3>1. Sets' \subseteq Sets
      BY <1>1, <2>1 DEF PublishRotation, StartSnapshot, SyncPublication,
         FinishCheckpoint, RemoveLeftover, Opened, Sets, Saved, stateVars
    <3> QED BY <3>1 DEF Alike
  <2>2. CASE ClearGarbage \/ Republish
    <3>1. Alike(current, current') /\ curFile' = current' /\ curSynced' \in {curSynced, curFile}
      BY <1>t, <2>2 DEF ClearGarbage, Republish, Alike, Currents
    <3>2. curSynced' # NoCurrent => curSynced' \in Sets
      BY <3>1 DEF Sets, Saved
    <3> QED BY <1>1, <3>1, <3>2 DEF Sets, Saved, Alike
  <2> QED BY <2>1, <2>2
<1>6. LastLog(curSynced') = LastLog(curFile') \/ s = Len(h)
  <2>1. CASE PublishRotation
    BY <1>i, <2>1 DEF PublishRotation, Stored
  <2>2. CASE StartSnapshot \/ SyncPublication \/ FinishCheckpoint \/ RemoveLeftover \/ Opened
    BY <2>2 DEF StartSnapshot, SyncPublication, FinishCheckpoint, RemoveLeftover, Opened
  <2>3. CASE ClearGarbage \/ Republish
    <3>1. curSynced' = current /\ curFile' = current' /\ current'.logs = current.logs
      BY <1>i, <1>t, <2>3 DEF ClearGarbage, Republish, Copies, Currents
    <3> QED BY <3>1 DEF LastLog
  <2> QED BY <2>1, <2>2, <2>3
<1>7. Stored(h, s)'
  <2>1. pc' \in {"query", "rotate", "rotated"} => s = Len(h)
    BY <1>i, <1>4 DEF Stored
  <2>2. pc' \in {"rotate", "rotated"} => logs[LastLog(current')] = {}
    BY <1>i, <1>4 DEF Stored
  <2> QED BY <1>i, <1>1, <1>4, <1>5, <1>6, <2>1, <2>2, StoredSame
<1>8. Cut(h, s)'
  <2>1. CASE StartSnapshot
    <3>1. /\ pc = "rotated" /\ current' = current /\ machine = h /\ s = Len(h)
          /\ snapshot'.state = machine /\ snapshot'.gen = current.pending
          /\ snapshot'.stage = "encoding" /\ current.pending = LastLog(current)
          /\ logs[LastLog(current)] = {}
      BY <1>i, <2>1 DEF StartSnapshot, Stored, Copies
    <3>2. Len(h) \in Nat /\ Prefix(h, h)
      BY LenProperties DEF Records, Prefix
    <3>3. Holds(current, h, s)
      BY <1>i, <3>1 DEF Stored, Sets
    <3>4. \A g \in current.logs : \A f \in logs[g] : f.lsn \in Nat /\ f.lsn <= Len(h)
      BY <1>t, <3>2, <3>3 DEF Holds, Currents
    <3>5. \A g \in current.logs : \A f \in logs[g] :
            ~(g = LastLog(current)) /\ ~(f.lsn > Len(h))
      BY <3>1, <3>2, <3>4
    <3> QED BY <1>1, <3>1, <3>2, <3>5 DEF Cut
  <2>2. CASE PublishRotation \/ SyncPublication \/ ClearGarbage \/ RemoveLeftover
             \/ Republish
    <3>1. pc' \notin {"loop", "query", "select"}
      BY <2>2 DEF PublishRotation, SyncPublication, ClearGarbage, RemoveLeftover, Republish
    <3> QED BY <3>1 DEF Cut
  <2>3. CASE FinishCheckpoint \/ Opened
    <3>1. snapshot'.stage = "none"
      BY <1>i, <2>3 DEF FinishCheckpoint, NoSnapshot, Opened, Flight, taskVars
    <3> QED BY <3>1 DEF Cut
  <2> QED BY <2>1, <2>2, <2>3
<1> QED BY <1>1, <1>2, <1>3, <1>7, <1>8, QuietStep

(* While the writer is at its loop the three copies of CURRENT are one.    *)
LEMMA OneSet ==
  ASSUME TypeInv, SetsInv, pc \in {"loop", "query", "select", "cleanup"}
  PROVE  /\ curFile = current /\ curSynced = current /\ current # NoCurrent
         /\ Sets = {current}
         /\ current \in Currents /\ Shape(current)
BY SetsShaped DEF SetsInv, Copies, Sets, Saved

(* The stream stops, or its loop ends.                                     *)
LEMMA EndingSteps ==
  ASSUME NEW h \in Records, NEW s \in Nat, FullInv(h, s), [Next]_vars,
         RefuseRotation \/ Fail \/ Exit
  PROVE  Onward(h, s)
<1>i. /\ Stored(h, s) /\ SetsInv /\ Copies
  BY DEF FullInv, DataInv, SetsInv
<1>1. /\ UNCHANGED <<logs, synced, tear, snaps, machine, powerLosses, current, curFile, curSynced>>
      /\ pc # "down" /\ pc' \in {"down", "draining"}
  BY DEF RefuseRotation, Fail, Exit, Stop, Selecting, Idle, Up, stateVars, diskVars, lossVars
<1>2. \A r \in Appends \cup Queries : status'[r] = "done" => status[r] = "done"
  BY DEF RefuseRotation, Fail, Exit, Stop, FailOutstanding, Requests, clientVars
<1>3. Sets' \subseteq Sets
  BY <1>1 DEF Sets, Saved
<1>4. \A d \in Sets' : \E c \in Sets : Alike(c, d)
  BY <1>3 DEF Alike
<1>5. curSynced' # NoCurrent => LastLog(curSynced') = LastLog(curFile') \/ s = Len(h)
  BY <1>i, <1>1 DEF Stored
<1>6. Stored(h, s)'
  BY <1>i, <1>1, <1>4, <1>5, StoredSame
<1>7. Cut(h, s)' /\ ~Up'
  BY <1>1 DEF Cut, Up
<1> QED BY <1>1, <1>2, <1>6, <1>7, QuietStep

(* The snapshot file gets its final name; no set in play names it yet.     *)
LEMMA FinishSnapshotStep ==
  ASSUME NEW h \in Records, NEW s \in Nat, FullInv(h, s), [Next]_vars, FinishSnapshot
  PROVE  Onward(h, s)
<1>i. /\ Stored(h, s) /\ SetsInv /\ Copies /\ Duties /\ TypeInv /\ Cut(h, s)
  BY DEF FullInv, DataInv, SetsInv
<1>1. /\ UNCHANGED <<logs, synced, tear, machine, powerLosses, current, curFile,
                     curSynced, pc, status, answer, durable, sync>>
      /\ pc \in {"loop", "select", "draining"}
      /\ snapshot.stage = "encoding" /\ snapshot'.stage = "final"
      /\ snapshot'.gen = snapshot.gen /\ snapshot'.state = snapshot.state
      /\ snaps' = [snaps EXCEPT ![snapshot.gen] = snapshot.state]
  BY <1>i DEF FinishSnapshot, Selecting, Idle, stateVars, logVars, lossVars, TypeInv, TypeOK,
     TaskTypeOK, Snapshots
<1>2. snapshot.gen \in Gens /\ snaps \in [Gens -> Records]
  BY <1>i, <1>1 DEF TypeInv, TypeOK, InUse, TaskTypeOK, DiskTypeOK, Snapshots, Gens
<1>3. \A c \in Sets : c.pending = snapshot.gen /\ Shape(c)
  BY <1>i, <1>1, SetsShaped DEF Duties, Sets, Saved
<1>4. \A c \in Sets : c.snapshot # snapshot.gen
  BY <1>3 DEF Shape
<1>5. \A c \in Sets : snaps'[c.snapshot] = snaps[c.snapshot]
  BY <1>1, <1>4
<1>6. \A d \in Sets' : \E c \in Sets : Alike(c, d)
  BY <1>1 DEF Sets, Saved, Alike
<1>7. Stored(h, s)'
  <2>1. curSynced' # NoCurrent => LastLog(curSynced') = LastLog(curFile') \/ s = Len(h)
    BY <1>i, <1>1 DEF Stored
  <2> QED BY <1>i, <1>1, <1>5, <1>6, <2>1, StoredSame
<1>8. Cut(h, s)'
  BY <1>i, <1>1, <1>2 DEF Cut
<1>9. Up' = Up
  BY <1>1 DEF Up
<1> QED BY <1>1, <1>7, <1>8, <1>9, QuietStep

(* A query is answered from a machine that is durable as a whole.          *)
LEMMA AnswerStep ==
  ASSUME NEW h \in Records, NEW s \in Nat, FullInv(h, s), [Next]_vars, Answer
  PROVE  Onward(h, s)
<1>i. /\ Stored(h, s) /\ SetsInv /\ TypeInv /\ Cut(h, s) /\ Acked(h, s) /\ Flight /\ Tickets
  BY DEF FullInv, DataInv
<1>t. /\ status \in [Requests -> Statuses] /\ answer = [x \in Requests |-> answer[x]]
      /\ durable \cup sync \subseteq Durable /\ barrier \in Queries
      /\ Durable \cap Queries = {} /\ Written \cap Queries = {}
      /\ Durable \subseteq Requests /\ Written \subseteq Requests /\ Queries \subseteq Requests
  BY <1>i, ConstantsAssumption
  DEF TypeInv, TypeOK, InUse, ClientsTypeOK, TaskTypeOK, Appends, Requests, Answer
<1>1. /\ UNCHANGED <<logs, synced, tear, snaps, machine, powerLosses, current, curFile,
                     curSynced, snapshot, durable, sync>>
      /\ pc = "query" /\ pc' = "select"
      /\ status' = [status EXCEPT ![barrier] = "done"]
      /\ answer' = [answer EXCEPT ![barrier] = machine]
  BY DEF Answer, stateVars, diskVars, lossVars
<1>2. s = Len(h) /\ machine = h /\ Len(h) \in Nat /\ Prefix(h, h)
  BY <1>i, <1>1, LenProperties DEF Stored, Records, Prefix
<1>3. \A d \in Sets' : \E c \in Sets : Alike(c, d)
  BY <1>1 DEF Sets, Saved, Alike
<1>4. Stored(h, s)' /\ Cut(h, s)'
  <2>1. Stored(h, s)'
    BY <1>i, <1>1, <1>2, <1>3, StoredSame
  <2>2. Cut(h, s)'
    BY <1>i, <1>1 DEF Cut
  <2> QED BY <2>1, <2>2
<1>5. \A r \in Durable \cup Written : status'[r] = status[r] /\ answer'[r] = answer[r]
  BY <1>t, <1>1
<1>6. \A q \in Queries : status'[q] = "done" /\ status[q] # "done" =>
        Len(answer'[q]) <= s /\ Prefix(answer'[q], h)
  <2>1. \A q \in Queries : q # barrier => status'[q] = status[q]
    BY <1>t, <1>1
  <2>2. answer'[barrier] = h
    BY <1>t, <1>1, <1>2
  <2> QED BY <1>2, <2>1, <2>2
<1>7. Up' => \A r \in durable' \cup sync' :
                answer'[r] \in 1..Len(h) /\ h[answer'[r]] = r
  <2>1. Up
    BY <1>1 DEF Up
  <2>2. \A r \in durable' \cup sync' : r \in durable \cup sync /\ answer'[r] = answer[r]
    BY <1>t, <1>1, <1>5
  <2> QED BY <1>i, <2>1, <2>2 DEF Acked
<1>8. Acked(h, s)'
  BY <1>i, <1>1, <1>2, <1>5, <1>6, <1>7, AckedStep
<1>9. DataInv(h, s)' /\ Evolves(h, s, h, s)
  BY <1>2, <1>4, <1>8 DEF DataInv, Evolves
<1> QED BY <1>9 DEF Onward

(* More of the log becomes durable, and the appends that waited for it are *)
(* answered.                                                               *)
LEMMA SyncedStep ==
  ASSUME NEW h \in Records, NEW s \in Nat, NEW s1 \in Nat,
         FullInv(h, s), [Next]_vars,
         s <= s1, s1 <= Len(h), pc \in {"loop", "select"}, pc' \in {"loop", "query"},
         pc' = "query" => s1 = Len(h),
         UNCHANGED <<logs, tear, snaps, machine, powerLosses, current, curFile,
                     curSynced, snapshot, answer>>,
         \A g \in current.logs : synced'[g] = {f \in logs[g] : f.lsn <= s1},
         durable' \cup sync' \subseteq durable \cup sync,
         \A r \in Requests : status'[r] = "done" /\ status[r] # "done" =>
           r \in sync /\ answer[r] \in 1..s1
  PROVE  Onward(h, s)
<1>i. /\ Stored(h, s) /\ SetsInv /\ TypeInv /\ Cut(h, s) /\ Acked(h, s) /\ Flight /\ Tickets
  BY DEF FullInv, DataInv
<1>t. /\ durable \cup sync \subseteq Durable
      /\ Durable \cap Queries = {} /\ Written \cap Durable = {}
      /\ Durable \subseteq Requests /\ Written \subseteq Requests /\ Queries \subseteq Requests
      /\ Len(h) \in Nat /\ logs \in [Gens -> SUBSET Frames]
  BY <1>i, ConstantsAssumption, LenProperties
  DEF TypeInv, TypeOK, TaskTypeOK, DiskTypeOK, Appends, Requests, Records
<1>1. /\ curFile = current /\ curSynced = current /\ current # NoCurrent
      /\ Sets = {current} /\ current \in Currents /\ Shape(current) /\ Sets' = Sets
  BY <1>i, OneSet DEF Sets, Saved
<1>2. current.logs \subseteq Gens /\ current.lsn \in Nat
  BY <1>1, ShapeLast DEF Currents
<1>3. PICK c : c = current
  OBVIOUS
<1>4. Holds(c, h, s) /\ Torn(c) /\ (\A g \in c.logs : tear[g] = 0) /\ machine = h
  BY <1>i, <1>1, <1>3 DEF Stored
<1>5. Holds(c, h, s1)'
  BY <1>t, <1>2, <1>3, <1>4, HoldsSynced
<1>6. Torn(c)'
  BY <1>4 DEF Torn
<1>7. Stored(h, s1)'
  BY <1>1, <1>3, <1>4, <1>5, <1>6 DEF Stored
<1>8. Cut(h, s1)'
  <2>1. \A n \in Nat : n <= s => n <= s1
    OBVIOUS
  <2>2. Len(snapshot.state) \in Nat
    BY <1>i, LenProperties DEF TypeInv, TypeOK, TaskTypeOK, Snapshots, Records
  <2> QED BY <1>i, <2>1, <2>2 DEF Cut
<1>9. Up /\ \A r \in durable' \cup sync' :
                answer'[r] \in 1..Len(h) /\ h[answer'[r]] = r
  BY <1>i DEF Acked, Up
<1>10. \A r \in Durable : status'[r] = "done" /\ status[r] # "done" =>
         answer'[r] \in 1..s1 /\ h[answer'[r]] = r
  BY <1>i, <1>t, <1>9 DEF Acked
<1>11. Acked(h, s1)'
  <2>1. Prefix(h, h) /\ s <= Len(h)
    BY <1>t, <1>i DEF Prefix, Stored
  <2>2. \A r \in Written \cup Queries : status'[r] = "done" => status[r] = "done"
    BY <1>t
  <2> QED BY <1>i, <1>9, <1>10, <2>1, <2>2, AckedStep
<1>12. DataInv(h, s1)' /\ Evolves(h, s, h, s1)
  BY <1>t, <1>7, <1>8, <1>11 DEF DataInv, Evolves, Prefix
<1> QED BY <1>12 DEF Onward

(* Synced files of an open stream, and what a sync adds to them.           *)
LEMMA SyncSteps ==
  ASSUME NEW h \in Records, NEW s \in Nat, FullInv(h, s), [Next]_vars,
         Query \/ CompleteSync
  PROVE  Onward(h, s)
<1>i. /\ Stored(h, s) /\ SetsInv /\ TypeInv /\ Acked(h, s)
  BY DEF FullInv, DataInv
<1>t. /\ Len(h) \in Nat /\ logs \in [Gens -> SUBSET Frames]
      /\ synced \in [Gens -> SUBSET Frames] /\ s <= Len(h)
      /\ sync \subseteq Durable
  BY <1>i, LenProperties DEF TypeInv, TypeOK, DiskTypeOK, TaskTypeOK, Records, Stored
<1>0. pc \in {"loop", "select"}
  BY DEF Query, CompleteSync, Selecting, Idle
<1>1. current \in Currents /\ Shape(current) /\ Holds(current, h, s)
  BY <1>i, <1>0, OneSet DEF Stored
<1>2. /\ current.logs \subseteq Gens /\ current.lsn \in Nat /\ LastLog(current) \in current.logs
  BY <1>1, ShapeLast DEF Currents
<1>3. \A g \in current.logs : \A f \in logs[g] : f.lsn \in Nat /\ f.lsn <= Len(h) /\ f.lsn >= 1
  BY <1>1, <1>2, <1>t DEF Holds
<1>4. \A g \in current.logs : synced[g] = {f \in logs[g] : f.lsn <= s}
  BY <1>1 DEF Holds
<1>5. \A g \in current.logs : g # LastLog(current) => \A f \in logs[g] : f.lsn <= s
  BY <1>1 DEF Holds
<1>6. CASE Query
  <2>1. /\ pc' = "query"
        /\ synced' = [synced EXCEPT ![LastLog(current)] = logs[LastLog(current)]]
        /\ UNCHANGED <<logs, tear, snaps, machine, powerLosses, current, curFile,
                       curSynced, snapshot, answer, status, durable, sync>>
    BY <1>6 DEF Query, clientVars, taskVars, stateVars, lossVars
  <2>2. \A g \in current.logs : synced'[g] = {f \in logs[g] : f.lsn <= Len(h)}
    <3> TAKE g \in current.logs
    <3>1. synced'[g] = logs[g]
      BY <1>2, <1>4, <1>5, <1>t, <2>1
    <3> QED BY <1>3, <3>1
  <2> QED BY <1>0, <1>t, <2>1, <2>2, SyncedStep
<1>7. CASE CompleteSync
  <2>1. /\ pc' = "loop"
        /\ synced' = [synced EXCEPT ![LastLog(current)] = @ \cup
             {f \in logs[LastLog(current)] : \E r \in sync : f.lsn <= answer[r]}]
        /\ status' = [r \in Requests |-> IF r \in sync THEN "done" ELSE status[r]]
        /\ sync' = {}
        /\ UNCHANGED <<logs, tear, snaps, machine, powerLosses, current, curFile,
                       curSynced, snapshot, answer, durable>>
    BY <1>0, <1>7 DEF CompleteSync, Covered, stateVars, lossVars
  <2>2. \A r \in sync : answer[r] \in 1..Len(h)
    BY <1>i, <1>0 DEF Acked, Up
  <2> DEFINE S == {s} \cup {answer[r] : r \in sync}
  <2>3. S \subseteq 0..Len(h) /\ S # {}
    BY <1>t, <2>2
  <2>4. PICK s1 \in S : \A v \in S : v <= s1
    <3> HIDE DEF S
    <3> QED BY <1>t, <2>3, GreatestOf
  <2>5. /\ s1 \in Nat /\ s <= s1 /\ s1 <= Len(h)
        /\ \A r \in sync : answer[r] \in 1..s1
    BY <1>t, <2>2, <2>3, <2>4
  <2>6. s1 = s \/ \E r \in sync : s1 = answer[r]
    BY <2>4
  <2> HIDE DEF S
  <2>7. \A g \in current.logs : \A f \in logs[g] :
          f.lsn <= s1 <=> f.lsn <= s \/ \E r \in sync : f.lsn <= answer[r]
    <3> SUFFICES ASSUME NEW g \in current.logs, NEW f \in logs[g]
                 PROVE  f.lsn <= s1 <=> f.lsn <= s \/ \E r \in sync : f.lsn <= answer[r]
      OBVIOUS
    <3>1. f.lsn \in Nat
      BY <1>3
    <3>2. f.lsn <= s => f.lsn <= s1
      BY <2>5, <3>1
    <3>3. (\E r \in sync : f.lsn <= answer[r]) => f.lsn <= s1
      BY <2>5, <3>1
    <3> QED BY <2>6, <3>1, <3>2, <3>3
  <2>8. \A g \in current.logs : synced'[g] = {f \in logs[g] : f.lsn <= s1}
    <3> TAKE g \in current.logs
    <3>1. CASE g = LastLog(current)
      <4>1. synced'[g] = {f \in logs[g] : f.lsn <= s} \cup
                         {f \in logs[g] : \E r \in sync : f.lsn <= answer[r]}
        BY <1>2, <1>4, <1>t, <2>1, <3>1
      <4> QED BY <2>7, <4>1
    <3>2. CASE g # LastLog(current)
      <4>1. synced'[g] = synced[g]
        BY <1>t, <2>1, <3>2
      <4>2. \A f \in logs[g] : f.lsn <= s /\ f.lsn <= s1
        BY <1>5, <2>7, <3>2
      <4> QED BY <1>4, <4>1, <4>2
    <3> QED BY <3>1, <3>2
  <2>9. \A r \in Requests : status'[r] = "done" /\ status[r] # "done" =>
          r \in sync /\ answer[r] \in 1..s1
    BY <2>1, <2>5
  <2> QED BY <1>0, <2>1, <2>5, <2>8, <2>9, SyncedStep
<1> QED BY <1>6, <1>7

(* A rotation syncs the open log and goes on with an empty one.            *)
LEMMA RotateStep ==
  ASSUME NEW h \in Records, NEW s \in Nat, FullInv(h, s), [Next]_vars, Rotate
  PROVE  Onward(h, s)
<1>i. /\ Stored(h, s) /\ SetsInv /\ TypeInv /\ Flight /\ SetsInv' /\ TypeInv'
  BY SetsStep, TypeStep DEF FullInv, DataInv
<1>0. pc = "loop" /\ pc' = "rotate" /\ HasGeneration
  BY DEF Rotate
<1>1. /\ curFile = current /\ curSynced = current /\ current # NoCurrent
      /\ Sets = {current} /\ current \in Currents /\ Shape(current)
  BY <1>i, <1>0, OneSet
<1>c. PICK c : c = current
  OBVIOUS
<1>o. PICK open : open = LastLog(c)
  OBVIOUS
<1>g. PICK gen : gen = open + 1
  OBVIOUS
<1>2. /\ synced' = [synced EXCEPT ![open] = logs[open], ![gen] = {}]
      /\ logs' = [logs EXCEPT ![gen] = {}]
      /\ tear' = [tear EXCEPT ![gen] = 0]
      /\ current' = [current EXCEPT !.logs = @ \cup {gen}, !.pending = gen]
      /\ gen \in Gens
      /\ UNCHANGED <<machine, snaps, curFile, curSynced, powerLosses, status, answer,
                     durable, sync>>
  BY <1>c, <1>o, <1>g DEF Rotate, HasGeneration, clientVars, taskVars, lossVars
<1>t. /\ logs \in [Gens -> SUBSET Frames] /\ synced \in [Gens -> SUBSET Frames]
      /\ tear \in [Gens -> Nat] /\ Len(h) \in Nat /\ s <= Len(h)
  BY <1>i, LenProperties DEF TypeInv, TypeOK, DiskTypeOK, Records, Stored
<1>3. /\ c \in Currents /\ open \in c.logs /\ open \in Nat /\ c.logs \subseteq Gens
      /\ c.logs = c.snapshot..open /\ c.lsn \in Nat /\ open \in Gens /\ c.snapshot \in Nat
  BY <1>1, <1>c, <1>o, ShapeLast DEF Currents, Gens
<1>4. gen \notin c.logs /\ gen # open /\ \A g \in c.logs : g < gen
  BY <1>3, <1>g
<1>5. Holds(c, h, s) /\ (\A g \in c.logs : tear[g] = 0) /\ machine = h
  BY <1>0, <1>1, <1>i, <1>c DEF Stored
<1>6. \A g \in c.logs : \A f \in logs[g] : f.lsn <= Len(h)
  BY <1>5, <1>3, <1>t DEF Holds
<1>7. \A g \in c.logs : logs'[g] = logs[g] /\ tear'[g] = 0
  BY <1>2, <1>3, <1>4, <1>5, <1>t
<1>8. \A g \in c.logs : synced'[g] = {f \in logs[g] : f.lsn <= Len(h)}
  <2> TAKE g \in c.logs
  <2>1. CASE g = open
    <3>1. synced'[g] = logs[g]
      BY <1>2, <1>3, <1>4, <1>t, <2>1
    <3> QED BY <1>6, <3>1
  <2>2. CASE g # open
    <3>1. synced'[g] = synced[g]
      BY <1>2, <1>3, <1>4, <1>t, <2>2
    <3>2. synced[g] = {f \in logs[g] : f.lsn <= s} /\ \A f \in logs[g] : f.lsn <= s
      BY <1>5, <1>o, <2>2 DEF Holds
    <3> QED BY <1>6, <3>1, <3>2
  <2> QED BY <2>1, <2>2
<1>9. Holds(c, h, Len(h))'
  BY <1>2, <1>3, <1>5, <1>7, <1>8, <1>t, HoldsSynced
<1>10. Torn(c)'
  BY <1>7 DEF Torn
<1>d. PICK d : d = current'
  OBVIOUS
<1>11. /\ d.lsn = c.lsn /\ d.snapshot = c.snapshot /\ d.logs = c.logs \cup {gen}
  BY <1>2, <1>3, <1>c, <1>d DEF Currents
<1>12. LastLog(d) = gen
  <2>1. LastLog(current') = LastLog(curFile') + 1
    BY <1>i, <1>0 DEF SetsInv, Copies
  <2>2. curFile' = c
    BY <1>1, <1>2, <1>c
  <2> QED BY <2>1, <2>2, <1>d, <1>o, <1>g
<1>13. logs'[gen] = {} /\ synced'[gen] = {} /\ tear'[gen] = 0
  BY <1>2, <1>t
<1>14. Holds(d, h, Len(h))'
  <2>1. /\ d.lsn <= Len(h) /\ (Len(snaps[d.snapshot]) = d.lsn /\ Prefix(snaps[d.snapshot], h))'
    BY <1>9, <1>11 DEF Holds
  <2>2. \A g \in d.logs : \A f \in logs'[g] : g \in c.logs
    BY <1>11, <1>13
  <2>3. \A g \in d.logs : \A f \in logs'[g] :
          f.lsn \in (d.lsn + 1)..Len(h) /\ f.req = h[f.lsn]
    BY <1>9, <1>11, <2>2 DEF Holds
  <2>4. \A n \in (d.lsn + 1)..Len(h) : \E g \in d.logs : Frame(n, h[n]) \in logs'[g]
    BY <1>9, <1>11 DEF Holds
  <2>5. \A g, k \in d.logs : g < k => \A e \in logs'[g], f \in logs'[k] : e.lsn < f.lsn
    BY <1>9, <2>2 DEF Holds
  <2>6. \A g \in d.logs : synced'[g] = {f \in logs'[g] : f.lsn <= Len(h)}
    BY <1>9, <1>11, <1>13 DEF Holds
  <2>7. \A g \in d.logs : \A f \in logs'[g] : f.lsn <= Len(h)
    BY <1>6, <1>7, <2>2
  <2> QED BY <2>1, <2>3, <2>4, <2>5, <2>6, <2>7 DEF Holds
<1>15. \A g \in d.logs : tear'[g] = 0
  BY <1>7, <1>11, <1>13
<1>16. Torn(d)'
  BY <1>15 DEF Torn
<1>17. Sets' = {c, d}
  BY <1>0, <1>1, <1>2, <1>c, <1>d DEF Sets, Saved
<1>18. Stored(h, Len(h))'
  <2>1. \A e \in Sets' : Holds(e, h, Len(h))' /\ Torn(e)'
    BY <1>9, <1>10, <1>14, <1>16, <1>17
  <2>2. \A e \in Sets' : \A g \in e.logs : tear'[g] = 0
    BY <1>7, <1>15, <1>17
  <2>3. curSynced' # NoCurrent /\ curSynced' = curFile'
    BY <1>1, <1>2
  <2>4. logs'[LastLog(current')] = {}
    BY <1>12, <1>13, <1>d
  <2>5. machine' = h
    BY <1>2, <1>5
  <2> QED BY <1>t, <2>1, <2>2, <2>3, <2>4, <2>5 DEF Stored
<1>19. Cut(h, Len(h))' /\ powerLosses' = powerLosses /\ status' = status
  BY <1>0, <1>2 DEF Cut
<1>20. durable' \cup sync' = {}
  BY <1>2, <1>i DEF Rotate, RotateReady, QuietReady, Flight
<1> QED BY <1>t, <1>18, <1>19, <1>20, QuietSyncStep

(* CURRENT names the new snapshot and the one log that follows it.         *)
LEMMA PublishSnapshotStep ==
  ASSUME NEW h \in Records, NEW s \in Nat, FullInv(h, s), [Next]_vars, PublishSnapshot
  PROVE  Onward(h, s)
<1>i. /\ Stored(h, s) /\ SetsInv /\ TypeInv /\ Cut(h, s) /\ CoverInv
  BY DEF FullInv, DataInv
<1>0. pc \in {"loop", "select"} /\ pc' = "published" /\ snapshot.stage = "final"
  BY DEF PublishSnapshot, Selecting, Idle
<1>1. /\ curFile = current /\ curSynced = current /\ current # NoCurrent
      /\ Sets = {current} /\ current \in Currents /\ Shape(current)
  BY <1>i, <1>0, OneSet
<1>c. PICK c : c = current
  OBVIOUS
<1>g. PICK gen : gen = snapshot.gen
  OBVIOUS
<1>p. PICK p : p = snapshot.state
  OBVIOUS
<1>d. PICK d : d = WithSnapshot(current, snapshot)
  OBVIOUS
<1>2. /\ current' = d /\ curFile' = d
      /\ UNCHANGED <<machine, snaps, logs, synced, tear, curSynced, powerLosses, status, answer,
                     durable, sync>>
  BY <1>d DEF PublishSnapshot, clientVars, taskVars, logVars, lossVars
<1>t. /\ logs \in [Gens -> SUBSET Frames] /\ Len(h) \in Nat /\ s <= Len(h)
      /\ p \in Records /\ Len(p) \in Nat
  BY <1>i, <1>p, LenProperties
  DEF TypeInv, TypeOK, DiskTypeOK, TaskTypeOK, Snapshots, Records, Stored
<1>3. /\ c \in Currents /\ c.logs \subseteq Gens /\ c.logs = c.snapshot..LastLog(c)
      /\ LastLog(c) \in c.logs /\ c.lsn \in Nat /\ c.pending \in {0, LastLog(c)}
      /\ c.snapshot \in Nat /\ LastLog(c) \in Nat
  BY <1>1, <1>c, ShapeLast DEF Currents, Gens
<1>4. gen = LastLog(c)
  <2>1. c.pending = gen /\ gen # 0
    BY <1>0, <1>i, <1>c, <1>g DEF SetsInv, Duties, TypeInv, InUse
  <2> QED BY <1>3, <2>1
<1>5. /\ d.snapshot = gen /\ d.lsn = Len(p) /\ d.logs = {g \in c.logs : g >= gen}
  BY <1>c, <1>d, <1>g, <1>p DEF WithSnapshot
<1>6. d.logs = {gen}
  BY <1>3, <1>4, <1>5
<1>7. LastLog(d) = gen
  BY <1>6, <1>3, <1>4 DEF LastLog
<1>8. Holds(c, h, s) /\ (\A g \in c.logs : tear[g] = 0) /\ machine = h /\ Torn(c)
  BY <1>0, <1>1, <1>i, <1>c DEF Stored
<1>9. /\ Len(p) <= s /\ Prefix(p, h) /\ snaps[gen] = p
      /\ \A g \in c.logs : \A f \in logs[g] : g = gen <=> f.lsn > Len(p)
  BY <1>0, <1>i, <1>c, <1>g, <1>p DEF Cut
<1>10. c.lsn <= Len(p)
  BY <1>0, <1>i, <1>c, <1>p DEF CoverInv, LsnOrder
<1>11. Holds(d, h, s)'
  <2>1. /\ d.lsn <= s /\ Len(snaps'[d.snapshot]) = d.lsn /\ Prefix(snaps'[d.snapshot], h)
    BY <1>2, <1>5, <1>9
  <2>2. \A f \in logs[gen] : f.lsn \in (Len(p) + 1)..Len(h) /\ f.req = h[f.lsn]
    <3> TAKE f \in logs[gen]
    <3>1. f.lsn \in (c.lsn + 1)..Len(h) /\ f.req = h[f.lsn]
      BY <1>3, <1>4, <1>8 DEF Holds
    <3>2. f.lsn > Len(p)
      BY <1>3, <1>4, <1>9
    <3> QED BY <1>3, <1>t, <3>1, <3>2
  <2>3. \A n \in (Len(p) + 1)..Len(h) : Frame(n, h[n]) \in logs[gen]
    <3> TAKE n \in (Len(p) + 1)..Len(h)
    <3>1. n \in (c.lsn + 1)..Len(h) /\ n > Len(p)
      BY <1>3, <1>t, <1>10
    <3>2. PICK g \in c.logs : Frame(n, h[n]) \in logs[g]
      BY <3>1, <1>8 DEF Holds
    <3>3. Frame(n, h[n]).lsn = n
      BY DEF Frame
    <3>4. g = gen
      BY <1>9, <3>1, <3>2, <3>3
    <3> QED BY <3>2, <3>4
  <2>4. synced[gen] = {f \in logs[gen] : f.lsn <= s}
    BY <1>3, <1>4, <1>8 DEF Holds
  <2>5. \A g, k \in d.logs : ~(g < k)
    BY <1>3, <1>4, <1>6
  <2> QED BY <1>2, <1>5, <1>6, <1>7, <2>1, <2>2, <2>3, <2>4, <2>5 DEF Holds
<1>12. \A g \in d.logs : tear'[g] = 0
  BY <1>2, <1>3, <1>4, <1>6, <1>8
<1>13. Holds(c, h, s)' /\ Torn(c)' /\ Torn(d)' /\ \A g \in c.logs : tear'[g] = 0
  BY <1>2, <1>8, <1>12 DEF Holds, Torn
<1>14. Sets' \subseteq {c, d}
  <2>1. curSynced' = c
    BY <1>1, <1>2, <1>c
  <2> QED BY <1>0, <1>2, <2>1 DEF Sets, Saved
<1>15. Stored(h, s)'
  <2>1. \A e \in Sets' : Holds(e, h, s)' /\ Torn(e)' /\ \A g \in e.logs : tear'[g] = 0
    BY <1>11, <1>12, <1>13, <1>14
  <2>2. curSynced' # NoCurrent /\ LastLog(curSynced') = LastLog(curFile')
    BY <1>1, <1>2, <1>4, <1>7, <1>c
  <2> QED BY <1>0, <1>t, <1>2, <1>8, <2>1, <2>2 DEF Stored
<1>16. Cut(h, s)' /\ Up' /\ Up
  BY <1>0 DEF Cut, Up
<1> QED BY <1>2, <1>15, <1>16, QuietStep

(* The LSN a caller of a batch is given is that of its record.             *)
LEMMA LsnInHits ==
  ASSUME NEW b, NEW r \in Callers(b)
  PROVE  \E i \in 1..Len(b.reqs) : b.reqs[i] = r /\ LsnIn(b, r) = b.lsn + i
<1>1. \E i \in 1..Len(b.reqs) : b.reqs[i] = r
  BY DEF Callers
<1>2. PICK x : x = CHOOSE i \in 1..Len(b.reqs) : b.reqs[i] = r
  OBVIOUS
<1>3. x \in 1..Len(b.reqs) /\ b.reqs[x] = r
  BY <1>1, <1>2
<1> QED BY <1>2, <1>3 DEF LsnIn

(* A longer log has what a shorter one has.                                *)
LEMMA PrefixMore ==
  ASSUME NEW p, NEW h, NEW h1, Len(p) \in Nat, Len(h) \in Nat, Len(h1) \in Nat,
         Prefix(p, h), Prefix(h, h1)
  PROVE  Prefix(p, h1)
BY DEF Prefix

(* A finished batch is the next part of the log.                           *)
LEMMA CompleteWriteStep ==
  ASSUME NEW h \in Records, NEW s \in Nat, FullInv(h, s), [Next]_vars, CompleteWrite
  PROVE  Onward(h, s)
<1>i. /\ Stored(h, s) /\ SetsInv /\ TypeInv /\ Cut(h, s) /\ Flight /\ Tickets /\ Acked(h, s)
  BY DEF FullInv, DataInv
<1>0. pc \in {"loop", "select"} /\ pc' = "loop"
  BY DEF CompleteWrite, Selecting, Idle
<1>1. /\ curFile = current /\ curSynced = current /\ current # NoCurrent
      /\ Sets = {current} /\ current \in Currents /\ Shape(current)
  BY <1>i, <1>0, OneSet
<1>c. PICK c : c = current
  OBVIOUS
<1>b. PICK b \in writes :
       /\ writes' = writes \ {b}
       /\ logs' = [logs EXCEPT ![LastLog(current)] =
                     @ \cup Landed(b, Len(b.reqs))]
       /\ machine' = machine \o b.reqs
       /\ answer' = [r \in Requests |->
            IF r \in Callers(b) THEN LsnIn(b, r) ELSE answer[r]]
       /\ status' = [r \in Requests |->
            IF r \notin Callers(b) THEN status[r]
            ELSE IF r \in Durable THEN "sync" ELSE "done"]
       /\ durable' = durable \cup (Callers(b) \cap Durable)
  BY DEF CompleteWrite
<1>2. UNCHANGED <<sync, snapshot, current, synced, tear, snaps, curFile, curSynced, powerLosses>>
  BY DEF CompleteWrite, lossVars
<1>3. Holds(c, h, s) /\ (\A g \in c.logs : tear[g] = 0) /\ machine = h /\ s <= Len(h)
  BY <1>0, <1>1, <1>i, <1>c DEF Stored
<1>t. /\ b.reqs \in Records /\ Len(b.reqs) \in Nat /\ Len(h) \in Nat
      /\ b.lsn = Len(h)
      /\ logs \in [Gens -> SUBSET Frames] /\ TypeOK
      /\ durable \cup sync \subseteq Durable
  BY <1>i, <1>3, LenProperties
  DEF TypeInv, TypeOK, TaskTypeOK, DiskTypeOK, Batches, Records, Flight
<1>r. /\ Callers(b) \subseteq Appends
      /\ Durable \subseteq Requests /\ Written \subseteq Requests /\ Queries \subseteq Requests
      /\ Appends \cap Queries = {} /\ Appends = Written \cup Durable
      /\ Written \cap Durable = {}
  BY <1>t, ConstantsAssumption, ElementOfSeq DEF Callers, Records, Appends, Requests
<1>4. PICK h1 \in Records :
         /\ Prefix(h, h1) /\ Len(h1) = Len(h) + Len(b.reqs)
         /\ Landed(b, Len(b.reqs)) = {Frame(n, h1[n]) : n \in (Len(h) + 1)..Len(h1)}
         /\ \A i \in 1..Len(b.reqs) : h1[Len(h) + i] = b.reqs[i]
         /\ h1 = h \o b.reqs
  <2>1. Len(b.reqs) \in 0..Len(b.reqs)
    BY <1>t
  <2> QED BY <1>t, <2>1, LandedTail
<1>u. Len(h1) \in Nat /\ Len(h) <= Len(h1)
  BY <1>t, <1>4
<1>5. Holds(c, h1, s)'
  BY <1>1, <1>2, <1>3, <1>4, <1>b, <1>c, <1>t, HoldsGrown
<1>6. Torn(c)' /\ \A g \in c.logs : tear'[g] = 0
  BY <1>2, <1>3 DEF Torn
<1>7. Sets' = {c}
  BY <1>0, <1>1, <1>2, <1>c DEF Sets, Saved
<1>8. Stored(h1, s)'
  <2>1. curSynced' # NoCurrent /\ LastLog(curSynced') = LastLog(curFile')
    BY <1>1, <1>2
  <2>2. machine' = h1
    BY <1>3, <1>4, <1>b
  <2>3. s <= Len(h1)
    BY <1>3, <1>t, <1>u
  <2> QED BY <1>0, <1>5, <1>6, <1>7, <2>1, <2>2, <2>3 DEF Stored
<1>9. Cut(h1, s)'
  <2> SUFFICES ASSUME snapshot.stage # "none"
               PROVE  Cut(h1, s)'
    BY <1>2 DEF Cut
  <2>p. PICK p : p = snapshot.state
    OBVIOUS
  <2>g. PICK gen : gen = snapshot.gen
    OBVIOUS
  <2>1. /\ Len(p) <= s /\ Prefix(p, h)
        /\ \A g \in c.logs : \A f \in logs[g] : g = gen <=> f.lsn > Len(p)
        /\ snapshot.stage = "final" => snaps[gen] = p
    BY <1>0, <1>i, <1>c, <2>p, <2>g DEF Cut
  <2>2. Len(p) \in Nat
    BY <1>i, <2>p, LenProperties DEF TypeInv, TypeOK, TaskTypeOK, Snapshots, Records
  <2>3. Prefix(p, h1)
    BY <1>t, <1>u, <1>4, <2>1, <2>2, PrefixMore
  <2>4. c.pending = gen /\ gen # 0
    BY <1>0, <1>i, <1>c, <2>g DEF SetsInv, Duties, TypeInv, InUse, TypeOK, TaskTypeOK, Snapshots
  <2>5. gen = LastLog(c) /\ c.logs \subseteq Gens /\ LastLog(c) \in Gens
    BY <1>1, <1>c, <2>4, ShapeLast
  <2>6. \A n \in (Len(h) + 1)..Len(h1) : Frame(n, h1[n]).lsn = n /\ n > Len(p)
    BY <1>t, <1>u, <1>3, <2>1, <2>2 DEF Frame
  <2>7. \A f \in Landed(b, Len(b.reqs)) : f.lsn > Len(p)
    BY <1>4, <2>6
  <2>8. \A g \in c.logs : \A f \in logs'[g] : g = gen <=> f.lsn > Len(p)
    <3> SUFFICES ASSUME NEW g \in c.logs, NEW f \in logs'[g]
                 PROVE  g = gen <=> f.lsn > Len(p)
      OBVIOUS
    <3>1. CASE g # gen
      <4>1. logs'[g] = logs[g]
        BY <1>b, <1>c, <1>t, <2>5, <3>1
      <4> QED BY <2>1, <4>1
    <3>2. CASE g = gen
      <4>1. f \in logs[g] \/ f \in Landed(b, Len(b.reqs))
        BY <1>b, <1>c, <1>t, <2>5, <3>2
      <4> QED BY <2>1, <2>7, <3>2, <4>1
    <3> QED BY <3>1, <3>2
  <2> QED BY <1>2, <1>c, <2>1, <2>3, <2>8, <2>p, <2>g DEF Cut
<1>10. \A r \in Callers(b) : answer'[r] \in 1..Len(h1) /\ h1[answer'[r]] = r
  <2> TAKE r \in Callers(b)
  <2>1. PICK i \in 1..Len(b.reqs) : b.reqs[i] = r /\ LsnIn(b, r) = b.lsn + i
    BY LsnInHits
  <2>2. answer'[r] = Len(h) + i
    BY <1>b, <1>r, <1>t, <2>1 DEF Requests
  <2> QED BY <1>t, <1>4, <2>1, <2>2
<1>11. \A r \in durable' \cup sync' : answer'[r] \in 1..Len(h1) /\ h1[answer'[r]] = r
  <2> TAKE r \in durable' \cup sync'
  <2>1. CASE r \in Callers(b)
    BY <1>10, <2>1
  <2>2. CASE r \notin Callers(b)
    <3>1. r \in durable \cup sync /\ answer'[r] = answer[r]
      BY <1>2, <1>b, <1>r, <1>t, <2>2
    <3>2. answer[r] \in 1..Len(h) /\ h[answer[r]] = r
      BY <1>0, <1>i, <3>1 DEF Acked, Up
    <3> QED BY <1>t, <1>u, <1>4, <3>1, <3>2 DEF Prefix
  <2> QED BY <2>1, <2>2
<1>12. \A r \in Requests : status'[r] = "done" /\ status[r] # "done" =>
         r \in Callers(b) /\ r \notin Durable /\ r \notin Queries
  BY <1>b, <1>r
<1>13. Acked(h1, s)'
  <2>1. \A n \in 1..s : h1[n] = h[n]
    BY <1>3, <1>4, <1>t DEF Prefix
  <2>2. s <= Len(h1) /\ s <= s
    BY <1>3, <1>t, <1>u
  <2>3. \A r \in Durable \cup Queries : ~(status'[r] = "done" /\ status[r] # "done")
    BY <1>12, <1>r
  <2>4. \A r \in Written : status'[r] = "done" /\ status[r] # "done" =>
          answer'[r] \in 1..Len(h1) /\ h1[answer'[r]] = r
    BY <1>10, <1>12, <1>r
  <2>5. powerLosses' = 0 => powerLosses = 0 /\ Prefix(h, h1)
    BY <1>2, <1>4
  <2> QED BY <1>i, <1>3, <1>11, <2>1, <2>2, <2>3, <2>4, <2>5, AckedStep
<1>14. Evolves(h, s, h1, s)
  <2>1. \A r \in Requests \ Written : status'[r] = "done" => status[r] = "done"
    BY <1>12, <1>r
  <2> QED BY <1>4, <2>1 DEF Evolves
<1> QED BY <1>8, <1>9, <1>13, <1>14 DEF Onward, DataInv

(* When the writer is gone the log has what landed of the batch in flight. *)
LEMMA AbandonStep ==
  ASSUME NEW h \in Records, NEW s \in Nat, FullInv(h, s), [Next]_vars,
         pc # "down", Abandon, powerLosses' = powerLosses,
         \A r \in Requests : status'[r] = "done" => status[r] = "done"
  PROVE  Onward(h, s)
<1>i. /\ Stored(h, s) /\ SetsInv /\ Copies /\ TypeInv /\ Flight /\ Tickets /\ Acked(h, s)
  BY DEF FullInv, DataInv, SetsInv
<1>1. /\ pc' = "down" /\ durable' = {} /\ sync' = {}
      /\ UNCHANGED <<answer, synced, snaps, curFile, curSynced>>
  BY DEF Abandon
<1>2. Cut(h, s)' /\ ~Up'
  BY <1>1 DEF Cut, Up
<1>3. Sets' = Saved /\ Saved \subseteq Sets
  BY <1>1 DEF Sets, Saved
<1>4. \A c \in Sets : Holds(c, h, s) /\ \A g \in c.logs : tear[g] = 0
  BY <1>i DEF Stored
<1>5. PICK cut \in [writes -> 0..MaxBatch] :
       /\ \A b \in writes : cut[b] <= Len(b.reqs)
       /\ writes # {} =>
            logs' = [logs EXCEPT ![LastLog(current)] =
                       @ \cup UNION {Landed(b, cut[b]) : b \in writes}]
       /\ writes = {} => logs' = logs
       /\ \/ tear' = tear
          \/ \E b \in writes :
               /\ cut[b] < Len(b.reqs)
               /\ tear' = [tear EXCEPT ![LastLog(current)] =
                             b.lsn + cut[b] + 1]
  BY DEF Abandon
<1>r. Appends \cup Queries \subseteq Requests /\ Durable \cup Written \subseteq Requests
  BY DEF Requests, Appends
<1>6. CASE writes = {}
  <2>1. logs' = logs /\ tear' = tear
    BY <1>5, <1>6
  <2>2. \A d \in Sets' : \E c \in Sets : Alike(c, d)
    BY <1>3 DEF Alike
  <2>3. curSynced' # NoCurrent => LastLog(curSynced') = LastLog(curFile') \/ s = Len(h)
    BY <1>i, <1>1 DEF Stored
  <2>4. Stored(h, s)'
    BY <1>i, <1>1, <2>1, <2>2, <2>3, StoredSame
  <2> QED BY <1>1, <1>2, <1>r, <2>4, QuietStep
<1>7. CASE writes # {}
  <2>b. PICK b \in writes : TRUE
    BY <1>7
  <2>w. writes = {b}
    BY <1>i, <2>b DEF Flight
  <2>k. PICK k : k = cut[b]
    OBVIOUS
  <2>l. PICK last : last = LastLog(current)
    OBVIOUS
  <2>t. /\ b.reqs \in Records /\ Len(b.reqs) \in Nat /\ Len(h) \in Nat
        /\ b.lsn = Len(h) /\ s <= Len(h)
        /\ tear \in [Gens -> Nat] /\ TypeOK /\ MaxBatch \in Nat
    <3>1. machine = h /\ s <= Len(h)
      BY <1>i DEF Stored
    <3> QED BY <1>i, <2>b, <3>1, LenProperties, ConstantsAssumption
        DEF TypeInv, TypeOK, TaskTypeOK, DiskTypeOK, Batches, Records, Flight
  <2>1. k \in 0..Len(b.reqs)
    BY <1>5, <2>b, <2>k, <2>t
  <2>2. PICK h1 \in Records :
           /\ Prefix(h, h1) /\ Len(h1) = Len(h) + k
           /\ Landed(b, k) = {Frame(n, h1[n]) : n \in (Len(h) + 1)..Len(h1)}
           /\ \A i \in 1..k : h1[Len(h) + i] = b.reqs[i]
           /\ k = Len(b.reqs) => h1 = h \o b.reqs
    BY <2>t, <2>1, LandedTail
  <2>u. Len(h1) \in Nat /\ Len(h) <= Len(h1) /\ k \in Nat
    BY <2>t, <2>1, <2>2
  <2>3. logs' = [logs EXCEPT ![last] = @ \cup
                   {Frame(n, h1[n]) : n \in (Len(h) + 1)..Len(h1)}]
    <3>1. UNION {Landed(a, cut[a]) : a \in writes} = Landed(b, k)
      BY <2>w, <2>k
    <3> QED BY <1>5, <1>7, <2>2, <2>l, <3>1
  <2>4. tear' = tear \/ tear' = [tear EXCEPT ![last] = Len(h1) + 1]
    <3>1. \A a \in writes : a.lsn + cut[a] + 1 = Len(h1) + 1
      BY <2>w, <2>k, <2>t, <2>2
    <3> QED BY <1>5, <2>l, <3>1
  <2>5. curSynced # NoCurrent /\ \A c \in Saved : LastLog(c) = last
    BY <1>i, <1>7, <2>l DEF Copies, Saved, Flight
  <2>6. ASSUME NEW c \in Sets' PROVE Holds(c, h1, s)' /\ Torn(c)'
    <3>1. c \in Currents /\ Shape(c) /\ LastLog(c) = last /\ c \in Sets
      BY <1>i, <1>3, <2>5, <2>6, SetsShaped
    <3>2. Holds(c, h1, s)'
      BY <1>1, <1>4, <2>t, <2>2, <2>3, <3>1, HoldsGrown
    <3>3. \A g \in c.logs : tear[g] = 0 /\ g \in Gens
      BY <1>4, <3>1, ShapeLast
    <3>4. \A g \in c.logs : \A f \in logs'[g] : f.lsn \in Nat /\ f.lsn <= Len(h1)
      <4>1. c.lsn \in Nat
        BY <3>1 DEF Currents
      <4> QED BY <2>u, <3>2, <4>1 DEF Holds
    <3>5. Torn(c)'
      <4>1. CASE tear' = tear
        BY <3>3, <4>1 DEF Torn
      <4>2. CASE tear' = [tear EXCEPT ![last] = Len(h1) + 1]
        <5>1. \A g \in c.logs : tear'[g] # 0 => g = last /\ tear'[g] = Len(h1) + 1
          BY <2>t, <3>3, <4>2
        <5>2. \A g \in c.logs : \A f \in logs'[g] : f.lsn < Len(h1) + 1
          BY <2>u, <3>4
        <5> QED BY <3>1, <5>1, <5>2 DEF Torn
      <4> QED BY <2>4, <4>1, <4>2
    <3> QED BY <3>2, <3>5
  <2>7. Stored(h1, s)'
    <3>1. LastLog(curSynced') = LastLog(curFile') /\ curSynced' # NoCurrent
      BY <1>1, <1>i, <1>7, <2>5 DEF Copies
    <3>2. s <= Len(h1)
      BY <2>t, <2>u
    <3> QED BY <1>1, <2>6, <3>1, <3>2 DEF Stored
  <2>8. Cut(h1, s)'
    BY <1>1 DEF Cut
  <2>9. Acked(h1, s)'
    <3>1. \A n \in 1..s : h1[n] = h[n]
      BY <2>t, <2>2 DEF Prefix
    <3>2. s <= Len(h1) /\ s <= s
      BY <2>t, <2>u
    <3>3. \A r \in Durable \cup Written : ~(status'[r] = "done" /\ status[r] # "done")
      BY <1>r
    <3>4. \A r \in Queries : ~(status'[r] = "done" /\ status[r] # "done")
      BY <1>r
    <3>5. powerLosses' = 0 => powerLosses = 0 /\ Prefix(h, h1)
      BY <2>2
    <3> QED BY <1>i, <1>2, <2>t, <3>1, <3>2, <3>3, <3>4, <3>5, AckedStep
  <2>10. Evolves(h, s, h1, s)
    BY <2>2 DEF Evolves
  <2> QED BY <2>7, <2>8, <2>9, <2>10 DEF Onward, DataInv
<1> QED BY <1>6, <1>7

(* The end of the drain, and the loss of the process.                      *)
LEMMA LossSteps ==
  ASSUME NEW h \in Records, NEW s \in Nat, FullInv(h, s), [Next]_vars,
         Drained \/ ProcessLoss \/ Panic
  PROVE  Onward(h, s)
<1>1. pc # "down" /\ Abandon /\ powerLosses' = powerLosses
  BY DEF Drained, ProcessLoss, Panic, lossVars
<1>2. \A r \in Requests : status'[r] = "done" => status[r] = "done"
  BY DEF Drained, ProcessLoss, Panic, FailOutstanding
<1> QED BY <1>1, <1>2, AbandonStep

(* A power loss cuts the log somewhere after its durable part.             *)
LEMMA PowerLossStep ==
  ASSUME NEW h \in Records, NEW s \in Nat, FullInv(h, s), [Next]_vars, PowerLoss
  PROVE  Onward(h, s)
<1>i. /\ Stored(h, s) /\ SetsInv /\ Copies /\ TypeInv /\ Flight /\ Tickets /\ Acked(h, s)
  BY DEF FullInv, DataInv, SetsInv
<1>1. /\ pc = "down" /\ pc' = "down" /\ status' = status /\ powerLosses' = powerLosses + 1
  BY DEF PowerLoss, clientVars
<1>2. PICK c \in {curFile, curSynced} : curFile' = c /\ curSynced' = c
  BY DEF PowerLoss
<1>t. Len(h) \in Nat /\ s <= Len(h) /\ powerLosses' # 0 /\ TypeOK
  BY <1>i, <1>1, LenProperties DEF Records, Stored, TypeInv, TypeOK, DiskTypeOK
<1>3. \A g, k : Cut(g, k)' /\ ~Up'
  BY <1>1 DEF Cut, Up
<1>4. CASE c = NoCurrent
  <2>1. h = <<>>
    BY <1>i, <1>2, <1>4 DEF Copies, Stored
  <2>2. Sets' = {}
    BY <1>1, <1>2, <1>4 DEF Sets, Saved
  <2>3. Stored(h, s)'
    BY <1>t, <1>1, <1>2, <1>4, <2>1, <2>2 DEF Stored
  <2> QED BY <1>t, <1>1, <1>3, <2>3, QuietStep
<1>5. CASE c # NoCurrent
  <2>1. c \in Sets /\ Sets' = {c}
    BY <1>1, <1>2, <1>5 DEF Sets, Saved
  <2>2. c \in Currents /\ Shape(c) /\ Holds(c, h, s) /\ Torn(c)
    BY <1>i, <2>1, SetsShaped DEF Stored
  <2>3. PICK h1 \in Records : /\ Prefix(h1, h) /\ s <= Len(h1)
                              /\ Holds(c, h1, Len(h1))' /\ Torn(c)'
    BY <1>t, <2>2, HoldsCut
  <2>4. Len(h1) \in Nat /\ Len(h1) <= Len(h1)
    BY LenProperties DEF Records
  <2>5. Stored(h1, Len(h1))'
    BY <1>1, <1>2, <1>5, <2>1, <2>3, <2>4 DEF Stored
  <2>6. Acked(h1, Len(h1))'
    <3>1. \A n \in 1..s : h1[n] = h[n]
      BY <2>3, <2>4 DEF Prefix
    <3>2. \A r : ~(status'[r] = "done" /\ status[r] # "done")
      BY <1>1
    <3> QED BY <1>i, <1>t, <1>3, <2>3, <2>4, <3>1, <3>2, AckedStep
  <2>7. Evolves(h, s, h1, Len(h1))
    BY <1>1, <2>3 DEF Evolves
  <2> QED BY <1>3, <2>4, <2>5, <2>6, <2>7 DEF Onward, DataInv
<1> QED BY <1>4, <1>5

(* A new stream is empty.                                                  *)
LEMMA CreateStep ==
  ASSUME NEW h \in Records, NEW s \in Nat, FullInv(h, s), [Next]_vars, Create
  PROVE  Onward(h, s)
<1>i. /\ Stored(h, s) /\ SetsInv /\ Copies /\ TypeInv
  BY DEF FullInv, DataInv, SetsInv
<1>1. /\ pc = "down" /\ pc' = "down" /\ curFile = NoCurrent /\ curFile' = FirstCurrent
      /\ snaps' = [snaps EXCEPT ![1] = <<>>]
      /\ logs' = [logs EXCEPT ![1] = {}]
      /\ synced' = [synced EXCEPT ![1] = {}]
      /\ tear' = [tear EXCEPT ![1] = 0]
      /\ UNCHANGED <<curSynced, status, answer, powerLosses, durable, sync>>
  BY DEF Create, clientVars, taskVars, lossVars
<1>2. curSynced = NoCurrent /\ h = <<>>
  BY <1>i, <1>1 DEF Copies, Stored
<1>t. /\ Len(h) = 0 /\ s = 0 /\ 1 \in Gens
      /\ logs \in [Gens -> SUBSET Frames] /\ synced \in [Gens -> SUBSET Frames]
      /\ tear \in [Gens -> Nat] /\ snaps \in [Gens -> Records]
  BY <1>i, <1>2, ConstantsAssumption, LenProperties
  DEF TypeInv, TypeOK, DiskTypeOK, Records, Stored, Gens
<1>3. /\ logs'[1] = {} /\ synced'[1] = {} /\ tear'[1] = 0 /\ snaps'[1] = <<>>
  BY <1>1, <1>t
<1>d. PICK d : d = FirstCurrent
  OBVIOUS
<1>4. d.lsn = 0 /\ d.snapshot = 1 /\ d.logs = {1} /\ d # NoCurrent
  BY <1>d DEF FirstCurrent, NoCurrent
<1>5. Holds(d, h, s)'
  <2>1. Prefix(snaps'[1], h) /\ Len(snaps'[1]) = 0
    BY <1>2, <1>3 DEF Prefix
  <2> QED BY <1>t, <1>3, <1>4, <2>1 DEF Holds
<1>6. Torn(d)'
  BY <1>3, <1>4 DEF Torn
<1>7. Sets' = {d}
  BY <1>1, <1>2, <1>4, <1>d DEF Sets, Saved
<1>8. Stored(h, s)' /\ Cut(h, s)' /\ ~Up'
  BY <1>1, <1>2, <1>t, <1>5, <1>6, <1>7 DEF Stored, Cut, Up
<1> QED BY <1>1, <1>8, QuietStep

(* Recovery rebuilds the log, and makes it durable if it has to cut an     *)
(* incomplete frame off its end.                                           *)
LEMMA RecoverStep ==
  ASSUME NEW h \in Records, NEW s \in Nat, FullInv(h, s), [Next]_vars, Recover
  PROVE  Onward(h, s)
<1>i. /\ Stored(h, s) /\ SetsInv /\ Copies /\ TypeInv /\ SavedSets
  BY DEF FullInv, DataInv, SetsInv
<1>c. PICK c : c = curFile
  OBVIOUS
<1>l. PICK last : last = LastLog(c)
  OBVIOUS
<1>1. /\ pc = "down" /\ pc' = "repair" /\ c # NoCurrent /\ current' = c
      /\ machine' = Rebuilt(c, logs, snaps)
      /\ tear' = [tear EXCEPT ![last] = 0]
      /\ synced' = IF tear[last] = 0 THEN synced ELSE [synced EXCEPT ![last] = logs[last]]
      /\ UNCHANGED <<logs, snaps, curFile, curSynced, status, answer, powerLosses>>
  BY <1>c, <1>l DEF Recover, clientVars, lossVars
<1>2. c \in Sets /\ Sets' = Sets /\ Sets \subseteq {c, curSynced} /\ c \in Saved
  BY <1>1, <1>c DEF Sets, Saved
<1>3. /\ c \in Currents /\ Shape(c) /\ Present(c) /\ EncodeOk(c)
  BY <1>i, <1>2, SetsShaped DEF SavedSets
<1>4. \A d \in Sets : Holds(d, h, s) /\ Torn(d)
  BY <1>i DEF Stored
<1>t. /\ Len(h) \in Nat /\ s <= Len(h) /\ TypeOK
      /\ logs \in [Gens -> SUBSET Frames] /\ synced \in [Gens -> SUBSET Frames]
      /\ tear \in [Gens -> Nat]
  BY <1>i, LenProperties DEF TypeInv, TypeOK, DiskTypeOK, Records, Stored
<1>5. machine' = h
  BY <1>1, <1>2, <1>3, <1>4, <1>t, HeldIsRecovered
<1>6. \A d \in Sets : d \in Currents /\ d.logs \subseteq Gens /\ d.lsn \in Nat
                      /\ LastLog(d) \in c.logs
  <2> TAKE d \in Sets
  <2>1. d \in Currents /\ Shape(d) /\ d # NoCurrent
    BY <1>i, SetsShaped, ShapeLast
  <2>2. d.logs \subseteq Gens /\ LastLog(d) \in d.logs /\ d.lsn \in Nat
    BY <2>1, ShapeLast DEF Currents
  <2>3. d = c \/ d = curSynced
    BY <1>2
  <2> QED BY <1>i, <1>c, <2>1, <2>2, <2>3 DEF Copies
<1>7. \A d \in Sets : \A g \in d.logs : tear'[g] = 0
  <2> SUFFICES ASSUME NEW d \in Sets, NEW g \in d.logs PROVE tear'[g] = 0
    OBVIOUS
  <2>1. g \in Gens
    BY <1>6
  <2>2. tear[g] # 0 => g = LastLog(d)
    BY <1>4 DEF Torn
  <2>3. tear[g] # 0 => g = last
    BY <1>2, <1>4, <1>6, <1>l, <2>2 DEF Torn
  <2> QED BY <1>1, <1>t, <2>1, <2>3
<1>8. PICK s1 \in Nat :
        /\ s <= s1 /\ s1 <= Len(h) /\ (s1 = s \/ s1 = Len(h))
        /\ \A d \in Sets : \A g \in d.logs : synced'[g] = {f \in logs[g] : f.lsn <= s1}
  <2>1. CASE tear[last] = 0
    <3>1. \A d \in Sets : \A g \in d.logs : synced'[g] = {f \in logs[g] : f.lsn <= s}
      BY <1>1, <1>4, <2>1 DEF Holds
    <3> QED BY <1>t, <3>1
  <2>2. CASE tear[last] # 0
    <3>1. ASSUME NEW d \in Sets, NEW g \in d.logs
          PROVE  synced'[g] = {f \in logs[g] : f.lsn <= Len(h)}
      <4>1. \A f \in logs[g] : f.lsn <= Len(h)
        BY <1>4, <1>6, <1>t, <3>1 DEF Holds
      <4>2. synced[g] = {f \in logs[g] : f.lsn <= s}
        BY <1>4, <3>1 DEF Holds
      <4>3. g \in Gens
        BY <1>6, <3>1
      <4>4. CASE g = last
        <5>1. synced'[g] = logs[g]
          BY <1>1, <1>t, <2>2, <4>3, <4>4
        <5> QED BY <4>1, <5>1
      <4>5. CASE g # last
        <5>1. synced'[g] = synced[g]
          BY <1>1, <1>t, <2>2, <4>3, <4>5
        <5>2. CASE s = Len(h)
          BY <4>2, <5>1, <5>2
        <5>3. CASE s # Len(h)
          <6>1. LastLog(d) = last
            BY <1>i, <1>2, <1>c, <1>l, <5>3, SetsShaped, ShapeLast DEF Stored
          <6>2. \A f \in logs[g] : f.lsn <= s
            BY <1>4, <3>1, <4>5, <6>1 DEF Holds
          <6> QED BY <4>1, <4>2, <5>1, <6>2
        <5> QED BY <5>2, <5>3
      <4> QED BY <4>4, <4>5
    <3> QED BY <1>t, <3>1
  <2> QED BY <2>1, <2>2
<1>9. \A d \in Sets' : Holds(d, h, s1)' /\ Torn(d)'
  <2> TAKE d \in Sets'
  <2>1. d \in Sets
    BY <1>2
  <2>2. Holds(d, h, s1)'
    BY <1>1, <1>4, <1>6, <1>8, <1>t, <2>1, HoldsSynced
  <2>3. Torn(d)'
    BY <1>7, <2>1 DEF Torn
  <2> QED BY <2>2, <2>3
<1>10. Stored(h, s1)'
  <2>1. curSynced' # NoCurrent => LastLog(curSynced') = LastLog(curFile') \/ s1 = Len(h)
    BY <1>i, <1>1, <1>8 DEF Stored
  <2>2. curSynced' = NoCurrent => h = <<>>
    BY <1>i, <1>1 DEF Stored
  <2> QED BY <1>1, <1>2, <1>5, <1>7, <1>8, <1>9, <2>1, <2>2 DEF Stored
<1>11. Cut(h, s1)' /\ ~Up'
  BY <1>1 DEF Cut, Up
<1> QED BY <1>1, <1>8, <1>10, <1>11, QuietSyncStep

(* Every step goes on from what is stored.                                 *)
LEMMA DataStep ==
  ASSUME NEW h \in Records, NEW s \in Nat, FullInv(h, s), [Next]_vars
  PROVE  Onward(h, s)
<1>1. CASE UNCHANGED vars \/ Clients \/ Receive
  BY <1>1, IdleSteps
<1>2. CASE Writer
  BY <1>2, IdleSteps, SyncSteps, AnswerStep, RotateStep, PublishingSteps, EndingSteps,
     LossSteps
  DEF Writer
<1>3. CASE CompleteWrite \/ CompleteSync
  BY <1>3, CompleteWriteStep, SyncSteps
<1>4. CASE FinishSnapshot \/ PublishSnapshot
  BY <1>4, FinishSnapshotStep, PublishSnapshotStep
<1>5. CASE Drained \/ ProcessLoss \/ PowerLoss \/ Fail
  BY <1>5, LossSteps, PowerLossStep, EndingSteps
<1>6. CASE Recovery
  BY <1>6, CreateStep, RecoverStep, IdleSteps, PublishingSteps DEF Recovery
<1> QED BY <1>1, <1>2, <1>3, <1>4, <1>5, <1>6 DEF Next

-----------------------------------------------------------------------------
(* What a power loss may damage.                                           *)

(* All that was promised is durable.                                       *)
LEMMA PromisedDurable ==
  ASSUME NEW h \in Records, NEW s \in Nat, FullInv(h, s)
  PROVE  Promised \subseteq 0..s
<1>i. Stored(h, s) /\ Acked(h, s) /\ TypeOK /\ CheckpointCovers
  BY DEF FullInv, DataInv, TypeInv, CoverInv
<1>3. curSynced.lsn <= s
  <2>1. CASE curSynced = NoCurrent
    BY <2>1 DEF NoCurrent
  <2>2. CASE curSynced # NoCurrent
    <3>1. curSynced \in Sets
      BY <2>2 DEF Sets, Saved
    <3> QED BY <1>i, <3>1 DEF Stored, Holds
  <2> QED BY <2>1, <2>2
<1>4. Promised \subseteq 0..s
  <2>1. \A r \in Durable : status[r] = "done" => answer[r] \in 0..s
    BY <1>i DEF Acked
  <2>2. \A q \in Queries : status[q] = "done" => Len(answer[q]) \in 0..s
    <3>1. \A q \in Queries : Len(answer[q]) \in Nat
      BY <1>i, LenProperties DEF TypeOK, ClientsTypeOK, Records
    <3> QED BY <1>i, <3>1 DEF Acked
  <2>3. \A c \in Checkpoints : status[c] = "done" => answer[c] \in 0..s
    <3>1. \A c \in Checkpoints : answer[c] \in Nat
      BY <1>i DEF TypeOK, ClientsTypeOK
    <3>2. curSynced.lsn \in Nat
      BY <1>i DEF TypeOK, DiskTypeOK, Currents
    <3> QED BY <1>i, <1>3, <3>1, <3>2 DEF CheckpointCovers
  <2> QED BY <2>1, <2>2, <2>3 DEF Promised
<1> QED BY <1>4

(* Promises are only added, and none by a step that changes the log.       *)
LEMMA PromisesStay ==
  ASSUME TypeInv, Flight, Tickets, [Next]_vars
  PROVE  /\ Promised \subseteq Promised'
         /\ (\A r \in Requests \ Written : status'[r] = "done" => status[r] = "done") =>
              Promised' = Promised
<1>1. \A r \in Requests : status[r] = "done" => status'[r] = "done" /\ answer'[r] = answer[r]
  BY DoneStays
<1>2. Durable \cup Queries \cup Checkpoints \subseteq Requests \ Written
  BY ConstantsAssumption DEF Requests, Appends
<1>3. Promised \subseteq Promised'
  <2>1. {answer[r] : r \in {d \in Durable : status[d] = "done"}}
          \subseteq {answer'[r] : r \in {d \in Durable : status'[d] = "done"}}
    BY <1>1, <1>2
  <2>2. {Len(answer[q]) : q \in {p \in Queries : status[p] = "done"}}
          \subseteq {Len(answer'[q]) : q \in {p \in Queries : status'[p] = "done"}}
    BY <1>1, <1>2
  <2>3. {answer[c] : c \in {k \in Checkpoints : status[k] = "done"}}
          \subseteq {answer'[c] : c \in {k \in Checkpoints : status'[k] = "done"}}
    BY <1>1, <1>2
  <2> QED BY <2>1, <2>2, <2>3 DEF Promised
<1>4. ASSUME \A r \in Requests \ Written : status'[r] = "done" => status[r] = "done"
      PROVE  Promised' \subseteq Promised
  <2>1. {answer'[r] : r \in {d \in Durable : status'[d] = "done"}}
          \subseteq {answer[r] : r \in {d \in Durable : status[d] = "done"}}
    BY <1>1, <1>2, <1>4
  <2>2. {Len(answer'[q]) : q \in {p \in Queries : status'[p] = "done"}}
          \subseteq {Len(answer[q]) : q \in {p \in Queries : status[p] = "done"}}
    BY <1>1, <1>2, <1>4
  <2>3. {answer'[c] : c \in {k \in Checkpoints : status'[k] = "done"}}
          \subseteq {answer[c] : c \in {k \in Checkpoints : status[k] = "done"}}
    BY <1>1, <1>2, <1>4
  <2> QED BY <2>1, <2>2, <2>3 DEF Promised
<1> QED BY <1>3, <1>4

(* A set in play is whole but for the last of its logs, and only while the *)
(* stream is closed: there a frame may be incomplete, or damaged by a      *)
(* power loss, and no promise reaches as far as that frame.                *)
Broken ==
  \A c \in Sets : \A g \in c.logs :
    /\ damage[g] # 0 => pc = "down" /\ g = LastLog(c) /\ powerLosses > 0
    /\ \A n \in Promised, x \in {tear[g], damage[g]} \ {0} : n < x

(* A power loss damages or cuts a log of c only behind its promised part.  *)
LEMMA BrokenLoss ==
  ASSUME NEW h \in Records, NEW s \in Nat, FullInv(h, s), [Next]_vars, Broken, PowerLoss
  PROVE  Broken'
<1>i. /\ Stored(h, s) /\ TypeInv /\ TypeOK /\ SetsInv /\ Flight /\ Tickets
  BY DEF FullInv, DataInv, TypeInv
<1>1. /\ pc = "down" /\ pc' = "down" /\ status' = status /\ powerLosses' = powerLosses + 1
      /\ \E c \in {curFile, curSynced} : curFile' = c /\ curSynced' = c
  BY DEF PowerLoss, clientVars
<1>2. Sets' \subseteq Sets
  BY <1>1 DEF Sets, Saved
<1>3. Promised' = Promised
  BY <1>i, <1>1, PromisesStay
<1>4. Promised \subseteq 0..s
  BY PromisedDurable
<1>t. /\ logs \in [Gens -> SUBSET Frames] /\ synced \in [Gens -> SUBSET Frames]
      /\ tear \in [Gens -> Nat] /\ damage \in [Gens -> Nat] /\ powerLosses \in Nat
  BY <1>i DEF TypeOK, DiskTypeOK
<1>5. PICK cut, torn, bad : PowerCut(cut, torn, bad)
  BY CutPicked
<1>6. \A g \in Dirty : cut[g] \in Nat
  BY <1>i, <1>5, CutsAreLsns DEF PowerCut
<1> SUFFICES ASSUME NEW c \in Sets', NEW g \in c.logs
             PROVE  /\ damage'[g] # 0 => g = LastLog(c) /\ powerLosses' > 0
                    /\ \A n \in Promised, x \in {tear'[g], damage'[g]} \ {0} : n < x
  BY <1>1, <1>3 DEF Broken
<1>7. /\ c \in Sets /\ g \in Gens /\ c.lsn \in Nat /\ Holds(c, h, s) /\ Torn(c)
  <2>1. c \in Sets
    BY <1>2
  <2> QED BY <1>i, <2>1, SetsShaped DEF Stored, Currents
<1>8. g \in Dirty => g = LastLog(c)
  <2> SUFFICES ASSUME g # LastLog(c)
               PROVE  logs[g] = synced[g] /\ tear[g] = 0
    BY DEF Dirty
  <2>1. synced[g] = {f \in logs[g] : f.lsn <= s} /\ \A f \in logs[g] : f.lsn <= s
    BY <1>7 DEF Holds
  <2> QED BY <1>7, <2>1 DEF Torn
<1>9. ASSUME g \in torn \cup bad, NEW n \in Promised
      PROVE  n < cut[g] + 1
  <2>1. g \in Dirty /\ cut[g] \in Nat /\ cut[g] + 1 \in Begun(g)
    BY <1>5, <1>6, <1>9 DEF PowerCut
  <2>2. CASE cut[g] + 1 = tear[g]
    <3>1. tear[g] \in {tear[g], damage[g]} \ {0}
      BY <2>1, <2>2
    <3> QED BY <1>7, <2>2, <3>1 DEF Broken
  <2>3. CASE \E f \in logs[g] : f.lsn = cut[g] + 1
    <3>1. PICK f \in logs[g] : f.lsn = cut[g] + 1
      BY <2>3
    <3>2. f \notin synced[g]
      BY <1>5, <2>1, <3>1 DEF PowerCut
    <3>3. ~(f.lsn <= s)
      BY <1>7, <3>2 DEF Holds
    <3>4. n \in 0..s
      BY <1>4
    <3> QED BY <2>1, <3>1, <3>3, <3>4
  <2> QED BY <2>1, <2>2, <2>3 DEF Begun, LsnsOf
<1>10. /\ tear'[g] = IF g \in torn THEN cut[g] + 1 ELSE 0
       /\ damage'[g] = IF g \in bad THEN cut[g] + 1 ELSE damage[g]
  BY <1>5, <1>7 DEF PowerCut
<1>11. damage'[g] # 0 => g = LastLog(c) /\ powerLosses' > 0
  <2>1. CASE g \in bad
    BY <1>1, <1>t, <1>5, <1>8, <2>1 DEF PowerCut
  <2>2. CASE g \notin bad
    BY <1>1, <1>t, <1>7, <1>10, <2>2 DEF Broken
  <2> QED BY <2>1, <2>2
<1>12. ASSUME NEW n \in Promised, NEW x \in {tear'[g], damage'[g]} \ {0}
       PROVE  n < x
  <2>1. CASE g \in torn \cup bad /\ x = cut[g] + 1
    BY <1>9, <2>1
  <2>2. CASE x = damage[g]
    BY <1>7, <1>12, <2>2 DEF Broken
  <2> QED BY <1>10, <1>12, <2>1, <2>2
<1> QED BY <1>11, <1>12

(* Steps of an open stream keep its logs whole; what an abandoned batch    *)
(* leaves incomplete was promised to nobody.                               *)
LEMMA BrokenOpen ==
  ASSUME NEW h \in Records, NEW s \in Nat, FullInv(h, s), [Next]_vars, Broken,
         pc # "down",
         pc' # "down" => \A c \in Sets' : \A g \in c.logs : tear'[g] = 0
  PROVE  Broken'
<1>i. /\ Stored(h, s) /\ TypeInv /\ TypeOK /\ SetsInv /\ Flight /\ Tickets
  BY DEF FullInv, DataInv, TypeInv
<1>1. \A c \in Sets : \A g \in c.logs : damage[g] = 0 /\ tear[g] = 0
  BY <1>i DEF Broken, Stored
<1>2. \A d \in Sets' : \A g \in d.logs : damage'[g] = 0
  <2>t. damage \in [Gens -> Nat] /\ current \in Currents
    BY <1>i DEF TypeOK, DiskTypeOK, StateTypeOK
  <2>c. current \in Sets /\ Saved \subseteq Sets
    BY DEF Sets
  <2>1. CASE Rotate
    <3>1. /\ damage' = [damage EXCEPT ![LastLog(current) + 1] = 0]
          /\ current' = [current EXCEPT !.logs = @ \cup {LastLog(current) + 1},
                                        !.pending = LastLog(current) + 1]
          /\ curFile' = curFile /\ curSynced' = curSynced
          /\ LastLog(current) + 1 \in Gens
      BY <2>1 DEF Rotate, HasGeneration
    <3>2. \A g : damage[g] = 0 => damage'[g] = 0
      BY <2>t, <3>1
    <3>3. current'.logs = current.logs \cup {LastLog(current) + 1}
      BY <2>t, <3>1 DEF Currents
    <3>4. damage'[LastLog(current) + 1] = 0
      BY <2>t, <3>1
    <3> QED BY <1>1, <2>c, <3>1, <3>2, <3>3, <3>4 DEF Sets, Saved
  <2>2. CASE PublishSnapshot
    <3>1. /\ damage' = damage /\ curSynced' = curSynced
          /\ current' = WithSnapshot(current, snapshot) /\ curFile' = current'
      BY <2>2 DEF PublishSnapshot, lossVars
    <3>2. current'.logs \subseteq current.logs
      BY <3>1 DEF WithSnapshot
    <3> QED BY <1>1, <2>c, <3>1, <3>2 DEF Sets, Saved
  <2>3. CASE ClearGarbage \/ Republish
    <3>1. /\ damage' = damage /\ curSynced' \in {curSynced, curFile}
          /\ curFile' = current' /\ current'.logs = current.logs
      BY <2>3, <2>t DEF ClearGarbage, Republish, lossVars, Currents
    <3> QED BY <1>1, <2>c, <3>1 DEF Sets, Saved
  <2>4. CASE Abandon /\ damage' = damage
    <3>1. Sets' \subseteq Sets
      BY <2>4 DEF Abandon, Sets, Saved
    <3> QED BY <1>1, <2>4, <3>1
  <2>5. CASE Drained \/ ProcessLoss \/ Panic
    BY <2>4, <2>5 DEF Drained, ProcessLoss, Panic, lossVars
  <2>6. CASE PublishRotation \/ StartSnapshot \/ SyncPublication \/ FinishCheckpoint
             \/ RemoveLeftover \/ Opened
    <3>1. damage' = damage /\ Sets' \subseteq Sets
      BY <2>6 DEF PublishRotation, StartSnapshot, SyncPublication, FinishCheckpoint,
         RemoveLeftover, Opened, Sets, Saved, stateVars, lossVars
    <3> QED BY <1>1, <3>1
  <2>7. CASE \/ UNCHANGED vars \/ Clients \/ Coalesce \/ StartSync \/ Query \/ Answer
             \/ Receive \/ RemoveGarbage \/ CompleteWrite \/ CompleteSync
             \/ FinishSnapshot \/ RefuseRotation \/ Fail \/ Exit
    <3>1. UNCHANGED <<damage, current, curFile, curSynced>>
      BY <2>7 DEF vars, Clients, Close, Submit, Coalesce, StartSync, Query, Answer,
         Receive, ReceiveAppends, ReceiveBarrier, ReceiveClosed, RemoveGarbage,
         CompleteWrite, CompleteSync, FinishSnapshot, RefuseRotation, Fail, Exit, Stop,
         stateVars, diskVars, lossVars
    <3> QED BY <1>1, <3>1 DEF Sets, Saved
  <2> QED BY <2>1, <2>2, <2>3, <2>5, <2>6, <2>7
      DEF Next, Writer, Recovery, Create, Recover, RefuseRecovery, PowerLoss
<1>3. CASE pc' # "down"
  BY <1>2, <1>3 DEF Broken
<1>4. CASE pc' = "down"
  <2>1. Exit \/ Drained \/ ProcessLoss \/ Panic
    BY <1>4 DEF Next, vars, Clients, Close, Submit, Writer, Coalesce, StartSync, Query,
       Answer, Rotate, PublishRotation, StartSnapshot, RefuseRotation, SyncPublication,
       RemoveGarbage, ClearGarbage, FinishCheckpoint, Receive, ReceiveAppends,
       ReceiveBarrier, ReceiveClosed, CompleteWrite, CompleteSync, FinishSnapshot,
       PublishSnapshot, Recovery, Create, Recover, RefuseRecovery, RemoveLeftover,
       Republish, Opened, Fail, Stop, PowerLoss
  <2>2. \A r \in Requests : status'[r] = "done" => status[r] = "done"
    BY <2>1 DEF Exit, Drained, ProcessLoss, Panic, FailOutstanding, clientVars
  <2>3. Promised' = Promised /\ Promised \subseteq 0..s
    BY <1>i, <2>2, PromisesStay, PromisedDurable
  <2>4. Sets' \subseteq Sets
    BY <2>1 DEF Exit, Drained, ProcessLoss, Panic, Abandon, Sets, Saved, diskVars
  <2>5. \A g \in Gens : tear'[g] = tear[g] \/ (tear'[g] \in Nat /\ s < tear'[g])
    <3>1. CASE Exit
      BY <3>1 DEF Exit, diskVars
    <3>2. CASE Abandon
      <4>t. /\ tear \in [Gens -> Nat] /\ s <= Len(h) /\ machine = h /\ Len(h) \in Nat
            /\ MaxBatch \in Nat
        BY <1>i, ConstantsAssumption, LenProperties DEF TypeOK, DiskTypeOK, Stored, Records
      <4>1. PICK cut \in [writes -> 0..MaxBatch] :
               \/ tear' = tear
               \/ \E b \in writes :
                    tear' = [tear EXCEPT ![LastLog(current)] = b.lsn + cut[b] + 1]
        BY <3>2 DEF Abandon
      <4>2. \A b \in writes : b.lsn = Len(h) /\ cut[b] \in Nat
        BY <1>i, <4>t, <4>1 DEF Flight
      <4> QED BY <4>t, <4>1, <4>2
    <3> QED BY <2>1, <3>1, <3>2 DEF Drained, ProcessLoss, Panic
  <2>6. ASSUME NEW c \in Sets', NEW g \in c.logs, NEW n \in Promised',
               NEW x \in {tear'[g], damage'[g]} \ {0}
        PROVE  n < x
    <3>1. c \in Sets /\ g \in Gens
      BY <1>i, <2>4, SetsShaped DEF Currents
    <3>2. tear[g] = 0 /\ damage'[g] = 0
      BY <1>1, <1>2, <3>1
    <3>3. x \in Nat /\ s < x
      BY <2>5, <2>6, <3>1, <3>2
    <3> QED BY <2>3, <3>3
  <2> QED BY <1>2, <2>6 DEF Broken
<1> QED BY <1>3, <1>4

(* Every step keeps it.  Recovery opens no damaged log, and no other copy  *)
(* of CURRENT names a damaged log that it does not read.                   *)
LEMMA BrokenStep ==
  ASSUME NEW h \in Records, NEW s \in Nat, FullInv(h, s), [Next]_vars, Broken,
         pc' # "down" => \A c \in Sets' : \A g \in c.logs : tear'[g] = 0
  PROVE  Broken'
<1>i. TypeOK /\ Copies
  BY DEF FullInv, TypeInv, SetsInv
<1>1. CASE pc # "down"
  BY <1>1, BrokenOpen
<1>2. CASE PowerLoss
  BY <1>2, BrokenLoss
<1>3. CASE UNCHANGED vars \/ RefuseRecovery
  BY <1>3 DEF RefuseRecovery, vars, Broken, Sets, Saved, Promised
<1>4. CASE Create
  <2>1. /\ pc' = "down" /\ damage' = [damage EXCEPT ![1] = 0]
        /\ tear' = [tear EXCEPT ![1] = 0] /\ curFile' = FirstCurrent
        /\ curSynced' = NoCurrent
    BY <1>i, <1>4 DEF Create, Copies
  <2>2. Sets' \subseteq {FirstCurrent} /\ FirstCurrent.logs = {1}
    BY <2>1 DEF Sets, Saved, FirstCurrent
  <2>3. damage'[1] = 0 /\ tear'[1] = 0
    BY <1>i, <2>1, ConstantsAssumption DEF TypeOK, DiskTypeOK, Gens
  <2> QED BY <2>2, <2>3 DEF Broken
<1>5. CASE Recover
  <2>1. /\ pc = "down" /\ pc' = "repair" /\ damage' = damage /\ Legible(curFile)
        /\ UNCHANGED <<curFile, curSynced>> /\ current' = curFile /\ curFile # NoCurrent
    BY <1>5 DEF Recover, lossVars
  <2>2. \A c \in Sets' : c \in Sets /\ c \in {curFile, curSynced} \ {NoCurrent}
    BY <2>1 DEF Sets, Saved
  <2>3. ASSUME NEW c \in Sets', NEW g \in c.logs PROVE damage'[g] = 0
    <3>1. CASE c = curFile
      BY <2>1, <3>1 DEF Legible
    <3>2. CASE c = curSynced /\ c # NoCurrent
      <4>1. damage[g] # 0 => g \in curFile.logs
        BY <1>i, <2>2, <3>2 DEF Broken, Copies
      <4> QED BY <2>1, <4>1 DEF Legible
    <3> QED BY <2>2, <3>1, <3>2
  <2> QED BY <2>1, <2>3 DEF Broken
<1>6. ASSUME pc = "down", Next
      PROVE  PowerLoss \/ RefuseRecovery \/ Create \/ Recover
  BY <1>6 DEF Next, Clients, Close, Submit, Writer, Coalesce, StartSync, Query,
     Answer, Rotate, PublishRotation, StartSnapshot, RefuseRotation, SyncPublication,
     RemoveGarbage, ClearGarbage, FinishCheckpoint, Exit, Panic, Receive, ReceiveAppends,
     ReceiveBarrier, ReceiveClosed, CompleteWrite, CompleteSync, FinishSnapshot,
     PublishSnapshot, Drained, ProcessLoss, Recovery, RemoveLeftover,
     Republish, Opened, Fail, Selecting, Idle, Up
<1> QED BY <1>1, <1>2, <1>3, <1>4, <1>5, <1>6

-----------------------------------------------------------------------------
(* The theorems.                                                           *)

(* The inductive invariant: there is a log that everything agrees on.      *)
RecoveryInv ==
  /\ TypeInv /\ CoverInv /\ Flight /\ Tickets /\ SetsInv /\ Broken
  /\ \E h \in Records, s \in Nat : DataInv(h, s)

(* It holds of an empty directory.                                         *)
LEMMA RecoveryInit == Init => RecoveryInv
<1> SUFFICES ASSUME Init PROVE RecoveryInv
  OBVIOUS
<1>1. TypeInv
  BY TypeInit
<1>2. CoverInv
  BY CoverInit
<1>3. Flight /\ Tickets
  BY DEF Init, Flight, Tickets, NoSnapshot, Up
<1>4. SetsInv
  <2>1. Saved = {}
    BY DEF Init, Saved
  <2> QED BY <2>1 DEF Init, SetsInv, SavedSets, Copies, Duties, NoSnapshot
<1>5. DataInv(<<>>, 0)
  <2>1. Sets = {}
    BY DEF Init, Sets, Saved
  <2>2. Stored(<<>>, 0)
    BY <2>1 DEF Init, Stored
  <2>3. Cut(<<>>, 0)
    BY DEF Init, Cut
  <2>4. Acked(<<>>, 0)
    <3>1. \A r \in Requests : status[r] # "done"
      BY DEF Init
    <3>2. ~Up
      BY DEF Init, Up
    <3> QED BY <3>1, <3>2 DEF Acked, Requests, Appends
  <2> QED BY <2>2, <2>3, <2>4 DEF DataInv
<1>6. <<>> \in Records /\ 0 \in Nat
  BY EmptySeq DEF Records
<1>7. Broken
  BY DEF Init, Broken, Sets, Saved
<1> QED BY <1>1, <1>2, <1>3, <1>4, <1>5, <1>6, <1>7 DEF RecoveryInv

(* Every step keeps it.                                                    *)
LEMMA RecoveryStep ==
  ASSUME RecoveryInv, [Next]_vars
  PROVE  RecoveryInv'
<1>1. PICK h \in Records, s \in Nat : DataInv(h, s)
  BY DEF RecoveryInv
<1>2. Onward(h, s)
  BY <1>1, DataStep DEF RecoveryInv, FullInv
<1>3. \E h1 \in Records, s1 \in Nat : DataInv(h1, s1)'
  BY <1>2 DEF Onward
<1>4. TypeInv' /\ CoverInv' /\ Flight' /\ Tickets' /\ SetsInv'
  BY TypeStep, CoverStep, FlightStep, TicketsStep, SetsStep DEF RecoveryInv
<1>5. Broken'
  <2>1. pc' # "down" => \A c \in Sets' : \A g \in c.logs : tear'[g] = 0
    BY <1>3 DEF DataInv, Stored
  <2> QED BY <1>1, <2>1, BrokenStep DEF RecoveryInv, FullInv
<1> QED BY <1>3, <1>4, <1>5 DEF RecoveryInv

(* It holds at every moment of every behaviour.                            *)
LEMMA RecoveryAlways == Spec => []RecoveryInv
<1>1. RecoveryInv /\ [Next]_vars => RecoveryInv'
  BY RecoveryStep
<1> QED BY RecoveryInit, <1>1, PTL DEF Spec

(* Whatever step a crash, a panic, a failure or a power loss interrupts,   *)
(* CURRENT names a recovery set that recover() in disk.rs reads without an *)
(* error, unless a power loss damaged a frame of its last log; that frame  *)
(* comes behind every record that a caller was promised.  The set holds    *)
(* some log h, a set that holds a log is readable, and Broken bounds the   *)
(* damage.                                                                 *)
THEOREM RecoveryCorrect == Spec => []RecoverySucceeds
<1>1. ASSUME RecoveryInv PROVE RecoverySucceeds
  <2> SUFFICES ASSUME pc = "down", curFile # NoCurrent
               PROVE  /\ ReplayOk(curFile, logs, tear, snaps, files)
                      /\ \A g \in curFile.logs : damage[g] # 0 =>
                           /\ g = LastLog(curFile)
                           /\ powerLosses > 0
                           /\ \A n \in Promised : n < damage[g]
    BY DEF RecoverySucceeds
  <2>1. PICK h \in Records, s \in Nat : DataInv(h, s)
    BY <1>1 DEF RecoveryInv
  <2>2. curFile \in Saved /\ curFile \in Sets
    BY DEF Saved, Sets
  <2>3. curFile \in Currents /\ Shape(curFile) /\ Present(curFile) /\ EncodeOk(curFile)
    BY <1>1, <2>2, SetsShaped DEF RecoveryInv, SetsInv, SavedSets
  <2>4. Holds(curFile, h, s) /\ Torn(curFile) /\ s <= Len(h)
    BY <2>1, <2>2 DEF DataInv, Stored
  <2>5. ReplayOk(curFile, logs, tear, snaps, files)
    BY <1>1, <2>3, <2>4, HeldIsRecovered DEF RecoveryInv, TypeInv
  <2>6. \A g \in curFile.logs : damage[g] # 0 =>
          /\ g = LastLog(curFile)
          /\ powerLosses > 0
          /\ \A n \in Promised : n < damage[g]
    BY <1>1, <2>2 DEF RecoveryInv, Broken
  <2> QED BY <2>5, <2>6
<1> QED BY <1>1, RecoveryAlways, PTL

(* An open stream has every acknowledged record at the LSN that the reply of *)
(* writer.rs named: a Durable one after any loss, a Written one unless the *)
(* power was lost.                                                         *)
THEOREM AcknowledgedCorrect == Spec => []AcknowledgedSurvive
<1>1. ASSUME RecoveryInv PROVE AcknowledgedSurvive
  <2> SUFFICES ASSUME Up, NEW r \in Appends, status[r] = "done",
                      r \in Durable \/ powerLosses = 0
               PROVE  answer[r] \in 1..Len(machine) /\ machine[answer[r]] = r
    BY DEF AcknowledgedSurvive
  <2>1. PICK h \in Records, s \in Nat : DataInv(h, s)
    BY <1>1 DEF RecoveryInv
  <2>2. machine = h /\ s <= Len(h) /\ Len(h) \in Nat
    BY <2>1, LenProperties DEF DataInv, Stored, Up, Records
  <2>3. CASE r \in Durable
    <3>1. answer[r] \in 1..s /\ h[answer[r]] = r
      BY <2>1, <2>3 DEF DataInv, Acked
    <3> QED BY <2>2, <3>1
  <2>4. CASE r \notin Durable
    BY <2>1, <2>2, <2>4 DEF DataInv, Acked, Appends
  <2> QED BY <2>3, <2>4
<1> QED BY <1>1, RecoveryAlways, PTL

(* What a query was shown is a prefix of every later state of the stream,  *)
(* across process and power losses: the sync before query() in writer.rs   *)
(* makes all of the machine durable before it is read.                     *)
THEOREM QueryCorrect == Spec => []QuerySurvives
<1>1. ASSUME RecoveryInv PROVE QuerySurvives
  <2> SUFFICES ASSUME Up, NEW q \in Queries, status[q] = "done"
               PROVE  /\ Len(answer[q]) <= Len(machine)
                      /\ \A n \in 1..Len(answer[q]) : answer[q][n] = machine[n]
    BY DEF QuerySurvives
  <2>1. PICK h \in Records, s \in Nat : DataInv(h, s)
    BY <1>1 DEF RecoveryInv
  <2>2. machine = h
    BY <2>1 DEF DataInv, Stored, Up
  <2>3. Prefix(answer[q], h)
    BY <2>1 DEF DataInv, Acked
  <2> QED BY <2>2, <2>3 DEF Prefix
<1> QED BY <1>1, RecoveryAlways, PTL

(* While the stream serves requests, every file of its directory belongs to *)
(* CURRENT or to the rotation or snapshot in progress: no crash between a  *)
(* rename and a publication leaves a file that is never deleted.           *)
THEOREM FilesAccounted == Spec => []NoForgottenFile
<1>1. ASSUME RecoveryInv PROVE NoForgottenFile
  <2> SUFFICES ASSUME pc \in {"loop", "select"} PROVE files \subseteq Named(current)
    BY DEF NoForgottenFile
  <2>1. curFile = current /\ current # NoCurrent
    BY <1>1, OneSet DEF RecoveryInv
  <2>2. files \subseteq Known(current)
    BY <1>1, <2>1 DEF RecoveryInv, SetsInv, SavedSets, Saved
  <2>3. current.garbage = {} /\ current.pending \in {0, snapshot.gen}
    BY <1>1 DEF RecoveryInv, SetsInv, Duties, TypeInv, TypeOK, TaskTypeOK, Snapshots
  <2>4. Leftover(current) \subseteq {SnapFile(snapshot.gen)}
    BY <2>3 DEF Leftover
  <2> QED BY <2>2, <2>4 DEF Known, Named
<1> QED BY <1>1, RecoveryAlways, PTL

-----------------------------------------------------------------------------
(* The refinement.  The log h is the content of DurableLog, and the floor  *)
(* is the longest prefix that some caller was promised; both as Journal    *)
(* maps them.                                                              *)
Content == IF curFile = NoCurrent THEN <<>> ELSE Rebuilt(curFile, logs, snaps)
Floor   == CHOOSE n \in Promised : \A m \in Promised : m <= n

(* What the mapping reads from a state: the log that is stored, and promises *)
(* that are all about its durable part.                                    *)
Reading == \A h \in Records, s \in Nat :
  FullInv(h, s) =>
    /\ s <= Len(h) /\ Content = h
    /\ Promised \subseteq 0..s
    /\ Floor \in Promised /\ \A m \in Promised : m <= Floor

(* The mapping reads that from every state.                                *)
LEMMA ReadingHolds == Reading
<1> SUFFICES ASSUME NEW h \in Records, NEW s \in Nat, FullInv(h, s)
             PROVE  /\ s <= Len(h) /\ Content = h
                    /\ Promised \subseteq 0..s
                    /\ Floor \in Promised /\ \A m \in Promised : m <= Floor
  BY DEF Reading
<1>i. Stored(h, s) /\ SetsInv /\ Copies /\ SavedSets /\ TypeInv /\ TypeOK
  BY DEF FullInv, DataInv, SetsInv, TypeInv
<1>1. s <= Len(h)
  BY <1>i DEF Stored
<1>2. Content = h
  <2>1. CASE curFile = NoCurrent
    BY <1>i, <2>1 DEF Content, Copies, Stored
  <2>2. CASE curFile # NoCurrent
    <3>1. curFile \in Saved /\ curFile \in Sets
      BY <2>2 DEF Saved, Sets
    <3>2. curFile \in Currents /\ Shape(curFile) /\ Present(curFile) /\ EncodeOk(curFile)
      BY <1>i, <3>1, SetsShaped DEF SavedSets
    <3>3. Holds(curFile, h, s) /\ Torn(curFile)
      BY <1>i, <3>1 DEF Stored
    <3> QED BY <1>i, <1>1, <2>2, <3>2, <3>3, HeldIsRecovered DEF Content
  <2> QED BY <2>1, <2>2
<1>4. Promised \subseteq 0..s
  BY PromisedDurable
<1>5. Promised # {}
  BY DEF Promised
<1>6. PICK u \in Promised : \A v \in Promised : v <= u
  BY <1>4, <1>5, GreatestOf
<1>7. Floor \in Promised /\ \A m \in Promised : m <= Floor
  BY <1>6 DEF Floor
<1> QED BY <1>1, <1>2, <1>4, <1>7

(* Prefix is the IsPrefix of SequencesExt.                                 *)
LEMMA PrefixIs ==
  ASSUME NEW p \in Records, NEW h \in Records, Prefix(p, h)
  PROVE  Log!IsPrefix(p, h)
<1>1. /\ Len(p) \in Nat /\ Len(h) \in Nat /\ p \in Seq(Appends) /\ h \in Seq(Appends)
      /\ Len(p) <= Len(h) /\ \A n \in 1..Len(p) : p[n] = h[n]
  BY LenProperties DEF Records, Prefix
<1>2. SubSeq(p, 1, Len(p)) = [i \in 1..Len(p) |-> p[i]]
  BY <1>1
<1>3. SubSeq(h, 1, Len(p)) = [i \in 1..Len(p) |-> h[i]]
  BY <1>1
<1> QED BY <1>1, <1>2, <1>3 DEF Log!IsPrefix

(* Every step appends to the log, promises more of it, loses an unpromised *)
(* suffix, or leaves it alone.                                             *)
LEMMA LogStep ==
  ASSUME RecoveryInv, RecoveryInv', Reading, Reading', [Next]_vars
  PROVE  [Log!Next]_<<Content, Floor>>
<1>1. PICK h \in Records, s \in Nat : DataInv(h, s)
  BY DEF RecoveryInv
<1>2. PICK h1 \in Records, s1 \in Nat : DataInv(h1, s1)' /\ Evolves(h, s, h1, s1)
  BY <1>1, DataStep DEF RecoveryInv, FullInv, Onward
<1>3. /\ s <= Len(h) /\ Content = h /\ Promised \subseteq 0..s
      /\ Floor \in Promised /\ \A m \in Promised : m <= Floor
  BY <1>1 DEF Reading, RecoveryInv, FullInv
<1>4. /\ s1 <= Len(h1) /\ Content' = h1 /\ Promised' \subseteq 0..s1
      /\ Floor' \in Promised' /\ \A m \in Promised' : m <= Floor'
  BY <1>2 DEF Reading, RecoveryInv, FullInv
<1>t. Len(h) \in Nat /\ Len(h1) \in Nat
  BY LenProperties DEF Records
<1>5. Promised \subseteq Promised' /\ (h1 # h => Promised' = Promised)
  BY <1>2, PromisesStay DEF RecoveryInv, Evolves
<1>6. CASE h1 = h
  <2>1. Floor <= Floor' /\ Floor \in Nat /\ Floor' \in Nat /\ Floor' <= Len(h)
    BY <1>3, <1>4, <1>5, <1>6, <1>t
  <2>2. Log!Promise
    BY <1>3, <1>4, <1>6, <1>t, <2>1 DEF Log!Promise, Content, Floor
  <2> QED BY <2>2 DEF Log!Next
<1>7. CASE h1 # h
  <2>1. Floor' = Floor
    BY <1>5, <1>7 DEF Floor
  <2>2. CASE Prefix(h, h1)
    <3>1. Log!IsPrefix(Content, Content')
      BY <1>3, <1>4, <2>2, PrefixIs
    <3>2. Log!Extend
      BY <2>1, <3>1 DEF Log!Extend, Content, Floor
    <3> QED BY <3>2 DEF Log!Next
  <2>3. CASE Prefix(h1, h) /\ s <= Len(h1)
    <3>1. Log!IsPrefix(Content', Content)
      BY <1>3, <1>4, <2>3, PrefixIs
    <3>2. Len(Content') >= Floor
      <4>1. Floor \in Nat /\ Floor <= s
        BY <1>3
      <4> QED BY <1>4, <1>t, <2>3, <4>1
    <3>3. Log!Lose
      BY <2>1, <3>1, <3>2 DEF Log!Lose, Content, Floor
    <3> QED BY <3>3 DEF Log!Next
  <2> QED BY <1>2, <2>2, <2>3 DEF Evolves
<1> QED BY <1>6, <1>7

(* The journal with its batches, rotations, snapshots, garbage and recovery *)
(* implements the abstract log of DurableLog.                              *)
THEOREM LogImplemented == Spec => ImplementsLog
<1>1. Init => Log!Init
  <2> SUFFICES ASSUME Init PROVE Log!Init
    OBVIOUS
  <2>1. Content = <<>>
    BY DEF Init, Content
  <2>2. Promised = {0}
    <3>1. \A r \in Requests : status[r] # "done"
      BY DEF Init
    <3> QED BY <3>1 DEF Promised, Requests, Appends
  <2>3. Floor = 0
    BY <2>2 DEF Floor
  <2> QED BY <2>1, <2>3 DEF Log!Init, Content, Floor
<1>2. RecoveryInv /\ RecoveryInv' /\ Reading /\ Reading' /\ [Next]_vars
        => [Log!Next]_<<Content, Floor>>
  BY LogStep
<1>3. Reading
  BY ReadingHolds
<1> QED BY <1>1, <1>2, <1>3, RecoveryAlways, PTL DEF Spec, ImplementsLog, Log!Spec, Content, Floor

=============================================================================
