-------------------------- MODULE WriteBackProofs --------------------------
(***************************************************************************)
(* The safety of the write cache and its flusher, for every number of      *)
(* objects, threads, upload tasks, writes, errors, re-arms and crashes.    *)
(***************************************************************************)
EXTENDS WriteBack, FiniteSetTheorems, NaturalsInduction, WellFoundedInduction,
        SequenceTheorems, TLAPS

----------------------------------------------------------------------------
(* Sequences and numbers                                                   *)

(* A set of numbers that is not empty has a least one.                     *)
LEMMA LeastIn ==
  ASSUME NEW S, S \subseteq Nat, S # {}
  PROVE  \E u \in S : \A v \in S : u <= v
<1> DEFINE R == {p \in Nat \X Nat : p[1] < p[2]}
<1>1. R = OpToRel(<, Nat)
  BY Zenon DEF OpToRel
<1>2. IsWellFoundedOn(R, Nat)
  BY <1>1, NatLessThanWellFounded, Zenon
<1>3. PICK u \in S : \A v \in S : ~(<<v, u>> \in R)
  <2> HIDE DEF R
  <2> QED BY <1>2, WFMin, Zenon
<1>4. \A v \in S : v < u => <<v, u>> \in R
  OBVIOUS
<1>5. \A v \in S : ~(v < u)
  <2> HIDE DEF R
  <2> QED BY <1>3, <1>4, Zenon
<1>6. \A v \in S : u <= v
  BY <1>5
<1> QED BY <1>6

(* A bounded one has a greatest.                                           *)
LEMMA GreatestIn ==
  ASSUME NEW S, NEW n \in Nat, S \subseteq 0..n, S # {}
  PROVE  \E u \in S : \A v \in S : v <= u
<1> DEFINE M == {k \in 0..n : n - k \in S}
<1>1. M \subseteq Nat
  OBVIOUS
<1>2. M # {}
  <2>1. PICK v \in S : TRUE
    OBVIOUS
  <2>2. n - v \in 0..n /\ n - (n - v) = v
    BY <2>1
  <2> QED BY <2>1, <2>2
<1>3. PICK k \in M : \A j \in M : k <= j
  <2> HIDE DEF M
  <2> QED BY <1>1, <1>2, LeastIn
<1>4. n - k \in S /\ k \in 0..n
  BY <1>3
<1>5. ASSUME NEW v \in S PROVE v <= n - k
  <2>1. v \in 0..n /\ n - v \in 0..n /\ n - (n - v) = v
    OBVIOUS
  <2>2. n - v \in M
    BY <2>1
  <2>3. k <= n - v
    BY <1>3, <2>2
  <2> QED BY <2>1, <2>3, <1>4
<1> QED BY <1>4, <1>5

(* f is what Skipped computes with, over n places of the sequence q.       *)
IsKept(f, q, n, p) ==
  f = [i \in 0..n |->
         IF i = 0 THEN <<>>
         ELSE IF p[q[i]] # {} THEN Append(f[i - 1], q[i]) ELSE f[i - 1]]

(* The function that Skipped computes with exists: the least stretch for   *)
(* which it does not would be one longer than a stretch for which it does. *)
LEMMA KeptExists ==
  ASSUME NEW q, NEW l \in Nat, NEW p
  PROVE  \E f : IsKept(f, q, l, p)
<1> DEFINE Bad == {n \in Nat : ~ \E f : IsKept(f, q, n, p)}
<1>1. SUFFICES ASSUME Bad # {} PROVE FALSE
  OBVIOUS
<1>2. PICK n \in Bad : \A m \in Bad : n <= m
  <2>1. Bad \subseteq Nat
    OBVIOUS
  <2> HIDE DEF Bad
  <2> QED BY <1>1, <2>1, LeastIn
<1>3. CASE n = 0
  <2>1. IsKept([i \in 0..0 |-> <<>>], q, 0, p)
    <3>1. \A i \in 0..0 : i = 0
      OBVIOUS
    <3> QED BY <3>1 DEF IsKept
  <2> QED BY <1>2, <1>3, <2>1
<1>4. CASE n # 0
  <2>1. n - 1 \in Nat /\ n \in Nat /\ ~(n <= n - 1)
    BY <1>2, <1>4
  <2>2. n - 1 \notin Bad
    <3> HIDE DEF Bad
    <3> QED BY <1>2, <2>1
  <2>3. PICK f : IsKept(f, q, n - 1, p)
    BY <2>1, <2>2
  <2> DEFINE g == [i \in 0..n |->
                     IF i < n THEN f[i]
                     ELSE IF p[q[n]] # {} THEN Append(f[n - 1], q[n]) ELSE f[n - 1]]
             h == [i \in 0..n |->
                     IF i = 0 THEN <<>>
                     ELSE IF p[q[i]] # {} THEN Append(g[i - 1], q[i]) ELSE g[i - 1]]
  <2>4. ASSUME NEW i \in 0..n PROVE g[i] = h[i]
    <3>1. i \in Nat /\ (i # 0 => i - 1 \in 0..n /\ i - 1 < n /\ i - 1 \in 0..(n - 1))
      BY <2>1
    <3>2. i # 0 => g[i - 1] = f[i - 1]
      BY <3>1
    <3>3. h[i] = IF i = 0 THEN <<>>
                 ELSE IF p[q[i]] # {} THEN Append(f[i - 1], q[i]) ELSE f[i - 1]
      BY <3>2
    <3>4. CASE i < n
      <4>1. i \in 0..(n - 1)
        BY <3>1, <3>4, <2>1
      <4>2. f[i] = IF i = 0 THEN <<>>
                   ELSE IF p[q[i]] # {} THEN Append(f[i - 1], q[i]) ELSE f[i - 1]
        BY <4>1, <2>3 DEF IsKept
      <4>3. g[i] = f[i]
        BY <3>4
      <4> HIDE DEF g, h
      <4> QED BY <4>2, <4>3, <3>3
    <3>5. CASE ~(i < n)
      <4>1. i = n
        BY <3>1, <3>5, <2>1
      <4>2. g[i] = IF p[q[n]] # {} THEN Append(f[n - 1], q[n]) ELSE f[n - 1]
        BY <4>1, <2>1
      <4> HIDE DEF g, h
      <4> QED BY <4>1, <4>2, <3>3, <1>4
    <3> QED BY <3>4, <3>5
  <2>5. g = h
    BY <2>4
  <2>6. IsKept(g, q, n, p)
    BY <2>5 DEF IsKept
  <2> HIDE DEF g
  <2> QED BY <1>2, <2>6
<1> QED BY <1>3, <1>4

(* What take_next puts back: objects of the stretch, and every one of them *)
(* that waits.                                                             *)
LEMMA SkippedKeeps ==
  ASSUME NEW q \in Seq(Objects)
  PROVE  /\ Skipped(q) \in Seq(Objects)
         /\ \A i \in 1..Len(q) : pending[q[i]] # {} =>
              \E j \in 1..Len(Skipped(q)) : Skipped(q)[j] = q[i]
<1>0. PICK p : p = pending
  OBVIOUS
<1>1. PICK l \in Nat : l = Len(q)
  BY LenProperties
<1> DEFINE kept == CHOOSE f : IsKept(f, q, l, p)
<1>2. Skipped(q) = kept[l]
  BY <1>0, <1>1 DEF Skipped, IsKept
<1>3. IsKept(kept, q, l, p)
  BY KeptExists
<1> HIDE DEF kept
<1>4. \A i \in 0..l : kept[i] = IF i = 0 THEN <<>>
        ELSE IF p[q[i]] # {} THEN Append(kept[i - 1], q[i]) ELSE kept[i - 1]
  BY <1>3 DEF IsKept
<1> DEFINE Fine(n) == /\ kept[n] \in Seq(Objects)
                      /\ \A i \in 1..n : p[q[i]] # {} =>
                           \E j \in 1..Len(kept[n]) : kept[n][j] = q[i]
           Bad == {n \in 0..l : ~Fine(n)}
<1>5. SUFFICES ASSUME Bad # {} PROVE FALSE
  <2>1. l \in 0..l
    OBVIOUS
  <2>2. Fine(l)
    BY <1>5, <2>1
  <2> QED BY <2>2, <1>0, <1>1, <1>2
<1>6. PICK n \in Bad : \A m \in Bad : n <= m
  <2>1. Bad \subseteq Nat
    OBVIOUS
  <2> HIDE DEF Bad
  <2> QED BY <1>5, <2>1, LeastIn
<1>7. n \in 0..l /\ ~Fine(n)
  BY <1>6
<1>8. CASE n = 0
  <2>1. kept[0] = <<>> /\ 1..0 = {}
    BY <1>4, <1>7, <1>8
  <2>2. Fine(0)
    BY <2>1
  <2> QED BY <1>7, <1>8, <2>2
<1>9. CASE n # 0
  <2>1. n - 1 \in 0..l /\ n \in 1..l /\ n \in Nat /\ ~(n <= n - 1)
    BY <1>7, <1>9
  <2>2. Fine(n - 1)
    <3>1. n - 1 \notin Bad
      <4> HIDE DEF Bad
      <4> QED BY <1>6, <2>1
    <3> HIDE DEF Fine
    <3> QED BY <3>1, <2>1
  <2> DEFINE k == kept[n - 1]
             new == kept[n]
  <2>3. k \in Seq(Objects) /\ q[n] \in Objects
    BY <2>1, <2>2, <1>1, ElementOfSeq
  <2>4. \A i \in 1..(n - 1) : p[q[i]] # {} => \E j \in 1..Len(k) : k[j] = q[i]
    BY <2>2
  <2>5. new = IF p[q[n]] # {} THEN Append(k, q[n]) ELSE k
    BY <1>4, <1>7, <1>9
  <2> HIDE DEF k, new
  <2>6. new \in Seq(Objects)
    BY <2>3, <2>5
  <2>7. /\ \A j \in 1..Len(k) : j \in 1..Len(new) /\ new[j] = k[j]
        /\ p[q[n]] # {} => Len(new) \in 1..Len(new) /\ new[Len(new)] = q[n]
    BY <2>3, <2>5
  <2>8. ASSUME NEW i \in 1..n, p[q[i]] # {}
        PROVE  \E j \in 1..Len(new) : new[j] = q[i]
    <3>1. CASE i = n
      BY <3>1, <2>7, <2>8
    <3>2. CASE i # n
      <4>1. i \in 1..(n - 1)
        BY <2>1, <3>2
      <4>2. PICK j \in 1..Len(k) : k[j] = q[i]
        BY <4>1, <2>4, <2>8
      <4> QED BY <4>2, <2>7
    <3> QED BY <3>1, <3>2
  <2>9. Fine(n)
    BY <2>6, <2>8 DEF new
  <2> QED BY <1>7, <2>9
<1> QED BY <1>8, <1>9

(* An order of a finite set is a sequence that has every element.          *)
LEMMA OrderHasAll ==
  ASSUME NEW S, IsFiniteSet(S), NEW order \in SetToSeqs(S)
  PROVE  /\ order \in Seq(S)
         /\ \A x \in S : \E i \in 1..Len(order) : order[i] = x
<1> DEFINE n == Cardinality(S)
           D == 1..n
<1>1. n \in Nat
  BY FS_CardinalityType
<1>2. order \in [D -> S] /\ \A i, j \in D : i # j => order[i] # order[j]
  BY DEF SetToSeqs
<1>3. order \in Injection(D, S)
  <2>1. DOMAIN order = D
    BY <1>2
  <2> HIDE DEF D
  <2>2. IsInjective(order)
    BY <1>2, <2>1, Zenon DEF IsInjective
  <2> QED BY <1>2, <2>2, Zenon DEF Injection
<1>4. IsFiniteSet(D) /\ Cardinality(D) = n
  <2>1. 1 \in Int /\ n \in Int
    BY <1>1
  <2> HIDE DEF n
  <2>2. IsFiniteSet(1..n) /\ Cardinality(1..n) = IF 1 > n THEN 0 ELSE n - 1 + 1
    BY <2>1, FS_Interval
  <2> QED BY <1>1, <2>2
<1>5. order \in Surjection(D, S)
  BY <1>3, <1>4, FS_Injection
<1>6. order \in Seq(S) /\ Len(order) = n
  BY <1>1, <1>2
<1>7. \A x \in S : \E i \in D : order[i] = x
  BY <1>5, Zenon DEF Surjection
<1> QED BY <1>6, <1>7

----------------------------------------------------------------------------
(* The inductive invariant                                                 *)

Early == {"meta", "sync", "insert"}
Busy  == {"read", "put", "complete", "fail"}

\* Generations of the writes begun so far.
Known == [obj : Objects, seq : 1..begun, body : 1..begun]

Typed ==
  /\ begun \in 0..MaxWrites
  /\ nextSeq \in 1..(begun + 1)
  /\ running \in BOOLEAN
  /\ dir \in [data : SUBSET Known, meta : SUBSET Known]
  /\ since \subseteq [data : SUBSET Known, meta : SUBSET Known]
  /\ dir \in since
  /\ pending \in [Objects -> SUBSET Known]
  /\ inflight \in [Objects -> SUBSET Known]
  /\ failed \in [Objects -> SUBSET Known]
  /\ queue \in Seq(Objects)
  /\ attempts \in [Objects -> 0..(MaxAttempts - 1)]
  /\ origin \in [Objects -> 0..begun]
  /\ writer \in [Writers -> [pc : {"idle", "drop"} \cup Early,
                             gen : SUBSET Known, old : SUBSET Known]]
  /\ flusher \in [Flushers -> [pc : {"idle", "drop"} \cup Busy,
                               gen : SUBSET Known, ok : BOOLEAN]]
  /\ call \in [Writes -> [obj : Objects \cup {None}, after : SUBSET (1..begun)]]
  /\ acked \subseteq 1..begun /\ delivered \subseteq 1..begun
  /\ recovered \subseteq 1..begun /\ dropped \subseteq 1..begun
  /\ lost \subseteq 1..begun
  /\ faults \in [errors : 0..MaxErrors, rearms : Nat, crashes : Nat]

\* An object has at most one generation in each map, and no generation is in
\* two of them.
MapInv ==
  /\ \A o \in Objects :
       /\ \A g \in pending[o]  : g.obj = o /\ \A h \in pending[o]  : h = g
       /\ \A g \in inflight[o] : g.obj = o /\ \A h \in inflight[o] : h = g
       /\ \A g \in failed[o]   : g.obj = o /\ \A h \in failed[o]   : h = g
  /\ \A o \in Objects : \A g \in inflight[o] : g \notin pending[o] /\ g \notin failed[o]
  /\ \A o \in Objects : \A g \in pending[o] : g \notin failed[o]

\* A thread in stage has one generation, which no other thread has and which
\* is not acknowledged; what it has to remove it knows once it has inserted.
WriterInv ==
  \A w \in Writers :
    /\ writer[w].pc = "idle" => writer[w].gen = {} /\ writer[w].old = {}
    /\ writer[w].pc # "idle" => \E g \in Known : writer[w].gen = {g}
    /\ writer[w].pc \in Early => writer[w].old = {}
    /\ \A g \in writer[w].gen : g.body \notin acked
    /\ \A v \in Writers : \A g \in writer[w].gen : \A h \in writer[v].gen :
         g.body = h.body => v = w

\* A task has one generation and, until it is done with it, that is what is
\* in flight; what is in flight has a task.
FlusherInv ==
  /\ \A f \in Flushers :
       /\ flusher[f].pc = "idle" => flusher[f].gen = {}
       /\ flusher[f].pc # "idle" => \E g \in Known : flusher[f].gen = {g}
       /\ flusher[f].pc \in Busy => \A g \in flusher[f].gen : g \in inflight[g.obj]
       /\ flusher[f].pc = "complete" => \A g \in flusher[f].gen : g.body \in delivered
       /\ \A e \in Flushers : \A g \in flusher[f].gen :
            flusher[f].pc \in Busy /\ flusher[e].pc \in Busy /\ g \in flusher[e].gen => e = f
  /\ \A o \in Objects : \A g \in inflight[o] :
       \E f \in Flushers : flusher[f].pc \in Busy /\ g \in flusher[f].gen

\* A process that is down has nothing in memory.
DownInv ==
  ~running =>
    /\ \A o \in Objects : pending[o] = {} /\ inflight[o] = {} /\ failed[o] = {}
    /\ \A w \in Writers : writer[w].pc = "idle"
    /\ \A f \in Flushers : flusher[f].pc = "idle"

\* A write that was acknowledged before another began was begun before it.
CallInv ==
  \A b \in Writes : \A a \in call[b].after : a \in acked /\ a < b

Has(g) == g \in pending[g.obj] \/ g \in inflight[g.obj] \/ g \in failed[g.obj]

\* Generations whose files a thread or a task is about to remove.
Dying(g) ==
  \/ \E w \in Writers : g \in writer[w].old
  \/ \E f \in Flushers : flusher[f].pc = "drop" /\ g \in flusher[f].gen

Upcoming(g) == \E w \in Writers : writer[w].pc \in Early /\ g \in writer[w].gen

\* Generations of one object are numbered as they were begun.
InOrder(g, h) == g.obj = h.obj => (g.seq < h.seq <=> g.body < h.body)

\* In every directory a power loss may leave, a sidecar has its body and the
\* newest generation is the one begun last.
DirInv ==
  \A d \in since :
    /\ d.meta \subseteq d.data
    /\ \A g \in d.data : call[g.body].obj = g.obj
    /\ \A g, h \in d.meta : InOrder(g, h)

\* The files of what is staged, or will be, are there, and nobody is about to
\* remove them.
FileInv ==
  /\ \A w \in Writers : \A g \in writer[w].gen :
       /\ writer[w].pc = "meta" => g \in dir.data
       /\ writer[w].pc \in {"sync", "insert"} => g \in dir.meta
       /\ writer[w].pc = "insert" => \A d \in since : g \in d.meta
  /\ \A g \in Gens : Upcoming(g) => ~Has(g) /\ ~Dying(g)
  /\ \A g \in Gens : g.obj \in Objects /\ Has(g) => g \in dir.meta /\ ~Dying(g)

\* Numbers of the files in use are below the next one.
NumberInv ==
  /\ running => \A g \in Gens : g \in dir.meta \/ Upcoming(g) => g.seq < nextSeq
  /\ \A g, h \in Gens : Upcoming(g) /\ (Upcoming(h) \/ h \in dir.meta) =>
       InOrder(g, h) /\ InOrder(h, g)

\* A write that is in the cache for good.
Settled(b) == \E v \in delivered \cup dropped : NotOlder(v, b)
Inserted(b) ==
  \/ b \in acked
  \/ \E w \in Writers : writer[w].pc = "drop" /\ \E g \in writer[w].gen : g.body = b
Owed(b) == Inserted(b) /\ b \notin lost

\* A write that is owed and not settled is covered by a file that is as new
\* and that nobody is about to remove, in every directory there may be ...
CoverInv ==
  \A b \in Writes : Owed(b) =>
    /\ \A d \in since : Settled(b) \/ \E s \in d.meta : s.obj = call[b].obj /\ s.body >= b
    /\ running => Settled(b) \/ \E s \in dir.meta : s.obj = call[b].obj /\ s.body >= b /\ ~Dying(s)

\* ... and its object is staged; an older generation is staged only while it
\* is uploaded and one that is as new waits, or because recovery found it.
StageInv ==
  \A b \in Writes : Owed(b) =>
    /\ running => Settled(b) \/ \E s \in Gens : s.obj = call[b].obj /\ Has(s)
    /\ \A x \in Gens : x.obj = call[b].obj /\ Has(x) /\ x.body \in call[b].after =>
         \/ x.body \in recovered /\ Settled(b)
         \/ x \in inflight[x.obj] /\ \E q \in pending[x.obj] : q.body >= b

\* Of two staged generations the one acknowledged before the other began is
\* in flight, or recovery found it.
AgeInv ==
  \A x, y \in Gens :
    x.obj = y.obj /\ x.obj \in Objects /\ Has(x) /\ Has(y) /\ x.body \in call[y.body].after =>
      x.body \in recovered \/ (x \in inflight[x.obj] /\ y \in pending[x.obj])

\* What the origin has held was not begun after something staged was acked.
OriginInv ==
  /\ \A y \in delivered : \A x \in Gens :
       x.obj = call[y].obj /\ x.obj \in Objects /\ Has(x) /\ x.body \in call[y].after =>
         x.body \in recovered
  /\ \A o \in Objects : origin[o] # None => origin[o] \in delivered /\ call[origin[o]].obj = o

\* An object that waits is in the queue.
QueueInv ==
  \A o \in Objects : pending[o] # {} => \E i \in 1..Len(queue) : queue[i] = o

----------------------------------------------------------------------------
(* What each step does, field by field                                     *)

WriterIs(w, pc, gen, old) ==
  /\ writer'[w].pc = pc /\ writer'[w].gen = gen /\ writer'[w].old = old
  /\ \A v \in Writers : v # w => writer'[v] = writer[v]

FlusherIs(f, pc, gen) ==
  /\ flusher'[f].pc = pc /\ flusher'[f].gen = gen
  /\ \A e \in Flushers : e # f => flusher'[e] = flusher[e]

MapsSame     == pending' = pending /\ inflight' = inflight /\ failed' = failed
WritesSame   == begun' = begun /\ acked' = acked /\ call' = call
DirSame      == dir' = dir /\ since' = since
SettledSame  == delivered' = delivered /\ dropped' = dropped
LogSame      == recovered' = recovered /\ lost' = lost
AllWriters   == writer' = writer
AllFlushers  == flusher' = flusher

\* The files of the set are gone, sidecars first.
Removed(gens) ==
  /\ dir'.meta = dir.meta \ gens /\ dir'.data = dir.data \ gens
  /\ \E half : /\ half.meta = dir.meta \ gens /\ half.data = dir.data
               /\ half \in [data : SUBSET Known, meta : SUBSET Known]
               /\ since' = since \cup {half, dir'}
  /\ dir' \in [data : SUBSET Known, meta : SUBSET Known]

(* Generations of the writes begun so far are generations.                 *)
LEMMA GensKnown == Typed => Known \subseteq Gens
BY BoundsAssumption DEF Typed, Known, Gens, Writes

(* Two generations with the same fields are the same.                      *)
LEMMA SameGen ==
  ASSUME NEW g \in Gens, NEW h \in Gens, g.obj = h.obj, g.seq = h.seq, g.body = h.body
  PROVE  g = h
BY DEF Gens

(* The fields of a generation.                                             *)
LEMMA GenFields ==
  ASSUME NEW g \in Gens
  PROVE  g.obj \in Objects /\ g.seq \in Nat /\ g.body \in Writes /\ g.body \in Nat
BY BoundsAssumption DEF Gens, Writes

(* The fields of a generation of a write begun so far.                     *)
LEMMA KnownFields ==
  ASSUME NEW g \in Known, begun \in Nat
  PROVE  g.obj \in Objects /\ g.seq \in 1..begun /\ g.body \in 1..begun
BY DEF Known

(* stage begins: the number is taken and the body is renamed into place.   *)
LEMMA BeginView ==
  ASSUME Typed, NEW w \in Writers, NEW o \in Objects, Begin(w, o)
  PROVE  \E g \in Gens :
           /\ g.obj = o /\ g.seq = nextSeq /\ g.body = begun + 1
           /\ begun' = begun + 1 /\ begun + 1 \in Writes /\ nextSeq' = nextSeq + 1
           /\ running /\ running' = running /\ writer[w].pc = "idle"
           /\ call'[begun + 1].obj = o /\ call'[begun + 1].after = acked
           /\ \A b \in Writes : b # begun + 1 => call'[b] = call[b]
           /\ DOMAIN call' = Writes
           /\ dir'.meta = dir.meta
           /\ \A h : h \in dir'.data <=> h = g \/ (h \in dir.data /\ ~SameName(g, h))
           /\ since' = since \cup {dir'}
           /\ DOMAIN dir' = {"data", "meta"}
           /\ dir' = [data |-> dir'.data, meta |-> dir'.meta]
           /\ WriterIs(w, "meta", {g}, {})
           /\ MapsSame /\ SettledSame /\ LogSame /\ AllFlushers
           /\ acked' = acked /\ queue' = queue /\ attempts' = attempts
           /\ origin' = origin /\ faults' = faults
<1> DEFINE b == begun + 1
           g == [obj |-> o, seq |-> nextSeq, body |-> b]
<1>1. begun \in Nat /\ begun < MaxWrites /\ MaxWrites \in Nat /\ nextSeq \in 1..(begun + 1)
  BY BoundsAssumption DEF Typed, Begin
<1>2. b \in Writes /\ nextSeq \in 0..(2 * MaxWrites)
  BY <1>1 DEF Writes
<1>3. g \in Gens /\ g.obj = o /\ g.seq = nextSeq /\ g.body = begun + 1
  BY <1>2 DEF Gens
<1>4. /\ begun' = b /\ nextSeq' = nextSeq + 1 /\ running /\ running' = running
      /\ writer[w].pc = "idle"
      /\ MapsSame /\ SettledSame /\ LogSame /\ AllFlushers
      /\ acked' = acked /\ queue' = queue /\ attempts' = attempts
      /\ origin' = origin /\ faults' = faults
  BY DEF Begin, Now, log, MapsSame, SettledSame, LogSame, AllFlushers
<1>5. /\ call' = [call EXCEPT ![b] = [obj |-> o, after |-> acked]]
      /\ dir' = [dir EXCEPT !.data = Put(@, g)]
      /\ since' = since \cup {dir'}
      /\ writer' = [writer EXCEPT ![w] = [pc |-> "meta", gen |-> {g}, old |-> {}]]
  BY DEF Begin, Change
<1> HIDE DEF g
<1>6. /\ call'[b].obj = o /\ call'[b].after = acked
      /\ \A c \in Writes : c # b => call'[c] = call[c]
      /\ DOMAIN call' = Writes
  BY <1>2, <1>5 DEF Typed
<1>7. WriterIs(w, "meta", {g}, {})
  BY <1>5 DEF Typed, WriterIs
<1>8. /\ dir'.meta = dir.meta /\ dir'.data = Put(dir.data, g)
      /\ DOMAIN dir' = {"data", "meta"}
      /\ dir' = [data |-> dir'.data, meta |-> dir'.meta]
  BY <1>5 DEF Typed
<1>9. \A h : h \in dir'.data <=> h = g \/ (h \in dir.data /\ ~SameName(g, h))
  BY <1>8 DEF Put
<1> QED BY <1>2, <1>3, <1>4, <1>5, <1>6, <1>7, <1>8, <1>9

(* stage renames the sidecar into place.                                   *)
LEMMA CommitMetaView ==
  ASSUME Typed, WriterInv, NEW w \in Writers, CommitMeta(w)
  PROVE  \E g \in Known :
           /\ writer[w].gen = {g} /\ writer[w].pc = "meta"
           /\ dir'.data = dir.data
           /\ \A h : h \in dir'.meta <=> h = g \/ (h \in dir.meta /\ ~SameName(g, h))
           /\ since' = since \cup {dir'}
           /\ dir' \in [data : SUBSET Known, meta : SUBSET Known]
           /\ WriterIs(w, "sync", writer[w].gen, writer[w].old)
           /\ MapsSame /\ WritesSame /\ SettledSame /\ LogSame /\ AllFlushers
           /\ running' = running /\ nextSeq' = nextSeq
           /\ queue' = queue /\ attempts' = attempts /\ origin' = origin /\ faults' = faults
<1>1. writer[w].pc = "meta"
  BY DEF CommitMeta, Now
<1>2. PICK g \in Known : writer[w].gen = {g}
  BY <1>1 DEF WriterInv
<1>3. /\ dir' = [dir EXCEPT !.meta = Put(@, g)]
      /\ since' = since \cup {dir'}
      /\ writer' = [writer EXCEPT ![w].pc = "sync"]
  BY <1>2 DEF CommitMeta, Change, Go
<1>4. /\ dir'.data = dir.data /\ dir'.meta = Put(dir.meta, g)
      /\ dir' = [data |-> dir.data, meta |-> Put(dir.meta, g)]
  BY <1>3 DEF Typed
<1>5. \A h : h \in dir'.meta <=> h = g \/ (h \in dir.meta /\ ~SameName(g, h))
  BY <1>4 DEF Put
<1>6. dir' \in [data : SUBSET Known, meta : SUBSET Known]
  <2>1. Put(dir.meta, g) \subseteq Known
    BY DEF Put, Typed
  <2> QED BY <1>4, <2>1 DEF Typed
<1>7. WriterIs(w, "sync", writer[w].gen, writer[w].old)
  BY <1>3 DEF Typed, WriterIs
<1>8. /\ MapsSame /\ WritesSame /\ SettledSame /\ LogSame /\ AllFlushers
      /\ running' = running /\ nextSeq' = nextSeq
      /\ queue' = queue /\ attempts' = attempts /\ origin' = origin /\ faults' = faults
  BY DEF CommitMeta, memory, ghosts, log, MapsSame, WritesSame, SettledSame, LogSame, AllFlushers
<1> QED BY <1>1, <1>2, <1>3, <1>4, <1>5, <1>6, <1>7, <1>8

(* stage syncs the directory, and what was renamed is durable.             *)
LEMMA SyncDirView ==
  ASSUME Typed, NEW w \in Writers, SyncDir(w)
  PROVE  /\ writer[w].pc = "sync"
         /\ dir' = dir /\ since' = {dir}
         /\ WriterIs(w, "insert", writer[w].gen, writer[w].old)
         /\ MapsSame /\ WritesSame /\ SettledSame /\ LogSame /\ AllFlushers
         /\ running' = running /\ nextSeq' = nextSeq
         /\ queue' = queue /\ attempts' = attempts /\ origin' = origin /\ faults' = faults
<1>1. WriterIs(w, "insert", writer[w].gen, writer[w].old)
  BY DEF SyncDir, Go, Typed, WriterIs
<1> QED BY <1>1 DEF SyncDir, Now, memory, ghosts, log, MapsSame, WritesSame, SettledSame,
                    LogSame, AllFlushers

(* stage returns an error: the files stay and nothing is inserted.         *)
LEMMA StageFailsView ==
  ASSUME Typed, NEW w \in Writers, StageFails(w)
  PROVE  /\ writer[w].pc \in {"meta", "sync"}
         /\ WriterIs(w, "idle", {}, {})
         /\ DirSame /\ MapsSame /\ WritesSame /\ SettledSame /\ LogSame /\ AllFlushers
         /\ running' = running /\ nextSeq' = nextSeq
         /\ queue' = queue /\ attempts' = attempts /\ origin' = origin
<1>1. WriterIs(w, "idle", {}, {})
  BY DEF StageFails, Idle, Typed, WriterIs
<1> QED BY <1>1 DEF StageFails, memory, ghosts, log, DirSame, MapsSame, WritesSame, SettledSame,
                    LogSame, AllFlushers

(* stage inserts its generation in place of a pending and a parked one.    *)
LEMMA InsertView ==
  ASSUME Typed, WriterInv, NEW w \in Writers, Insert(w)
  PROVE  \E g \in Known :
           /\ writer[w].gen = {g} /\ writer[w].pc = "insert" /\ g.obj \in Objects
           /\ pending'[g.obj] = {g} /\ failed'[g.obj] = {} /\ inflight' = inflight
           /\ \A o \in Objects : o # g.obj => pending'[o] = pending[o] /\ failed'[o] = failed[o]
           /\ DOMAIN pending' = Objects /\ DOMAIN failed' = Objects
           /\ queue' = IF pending[g.obj] = {} THEN Append(queue, g.obj) ELSE queue
           /\ lost' = (lost \ Covered(g)) \cup Overtaken(g)
           /\ WriterIs(w, "drop", {g}, pending[g.obj] \cup failed[g.obj])
           /\ DirSame /\ WritesSame /\ SettledSame /\ recovered' = recovered /\ AllFlushers
           /\ running' = running /\ nextSeq' = nextSeq
           /\ attempts' = attempts /\ origin' = origin /\ faults' = faults
<1>1. writer[w].pc = "insert"
  BY DEF Insert, Now
<1>2. PICK g \in Known : writer[w].gen = {g}
  BY <1>1 DEF WriterInv
<1>3. g.obj \in Objects
  BY DEF Known
<1>4. PICK o \in Objects : o = g.obj
  BY <1>3
<1>5. /\ pending' = [pending EXCEPT ![o] = {g}]
      /\ queue' = IF pending[o] = {} THEN Append(queue, o) ELSE queue
      /\ failed' = [failed EXCEPT ![o] = {}]
      /\ writer' = [writer EXCEPT ![w].pc = "drop", ![w].old = pending[o] \cup failed[o]]
      /\ lost' = (lost \ Covered(g)) \cup Overtaken(g)
  BY <1>2, <1>4 DEF Insert
<1>6. WriterIs(w, "drop", {g}, pending[o] \cup failed[o])
  BY <1>2, <1>5 DEF Typed, WriterIs
<1>7. /\ pending'[o] = {g} /\ failed'[o] = {}
      /\ \A p \in Objects : p # o => pending'[p] = pending[p] /\ failed'[p] = failed[p]
      /\ DOMAIN pending' = Objects /\ DOMAIN failed' = Objects
  BY <1>5 DEF Typed
<1>8. /\ DirSame /\ WritesSame /\ SettledSame /\ recovered' = recovered /\ AllFlushers
      /\ running' = running /\ nextSeq' = nextSeq /\ inflight' = inflight
      /\ attempts' = attempts /\ origin' = origin /\ faults' = faults
  BY DEF Insert, ghosts, DirSame, WritesSame, SettledSame, AllFlushers
<1> QED BY <1>1, <1>2, <1>3, <1>4, <1>5, <1>6, <1>7, <1>8

(* remove_files takes the sidecars away and then the bodies.               *)
LEMMA RemoveView ==
  ASSUME Typed, NEW gens, RemoveFiles(gens)
  PROVE  Removed(gens)
<1> DEFINE half == [dir EXCEPT !.meta = @ \ gens]
           done == [half EXCEPT !.data = @ \ gens]
<1>1. dir' = done /\ since' = since \cup {half, done}
  BY DEF RemoveFiles
<1>2. /\ half = [data |-> dir.data, meta |-> dir.meta \ gens]
      /\ done = [data |-> dir.data \ gens, meta |-> dir.meta \ gens]
  <2>1. PICK k, l, m : k = dir.data /\ l = dir.meta /\ m = l \ gens
    OBVIOUS
  <2>2. dir = [data |-> k, meta |-> l]
    BY <2>1 DEF Typed
  <2>3. PICK r : r = half
    OBVIOUS
  <2>4. r = [data |-> k, meta |-> m]
    BY <2>1, <2>2, <2>3
  <2>5. done = [r EXCEPT !.data = @ \ gens]
    BY <2>3
  <2>6. done = [data |-> k \ gens, meta |-> m]
    <3> HIDE DEF done, half
    <3> QED BY <2>4, <2>5
  <2> HIDE DEF done, half
  <2> QED BY <2>1, <2>3, <2>4, <2>6
<1> HIDE DEF half, done
<1>3. /\ half.meta = dir.meta \ gens /\ half.data = dir.data
      /\ done.meta = dir.meta \ gens /\ done.data = dir.data \ gens
  BY <1>2
<1>4. dir.data \subseteq Known /\ dir.meta \subseteq Known
  BY DEF Typed
<1>5. /\ half \in [data : SUBSET Known, meta : SUBSET Known]
      /\ done \in [data : SUBSET Known, meta : SUBSET Known]
  BY <1>2, <1>4
<1>6. since' = since \cup {half, dir'}
  BY <1>1
<1> QED BY <1>1, <1>3, <1>5, <1>6 DEF Removed

(* stage removes the files of what it replaced.                            *)
LEMMA DropView ==
  ASSUME Typed, NEW w \in Writers, Drop(w)
  PROVE  /\ writer[w].pc = "drop"
         /\ Removed(writer[w].old)
         /\ WriterIs(w, "drop", writer[w].gen, {})
         /\ MapsSame /\ WritesSame /\ SettledSame /\ LogSame /\ AllFlushers
         /\ running' = running /\ nextSeq' = nextSeq
         /\ queue' = queue /\ attempts' = attempts /\ origin' = origin /\ faults' = faults
<1>1. WriterIs(w, "drop", writer[w].gen, {})
  BY DEF Drop, Now, Typed, WriterIs
<1>2. Removed(writer[w].old)
  BY RemoveView DEF Drop
<1> QED BY <1>1, <1>2 DEF Drop, Now, memory, ghosts, log, MapsSame, WritesSame, SettledSame,
                          LogSame, AllFlushers

(* stage returns Ok.                                                       *)
LEMMA AcknowledgeView ==
  ASSUME Typed, WriterInv, NEW w \in Writers, Acknowledge(w)
  PROVE  \E g \in Known :
           /\ writer[w].gen = {g} /\ writer[w].pc = "drop" /\ writer[w].old = {}
           /\ acked' = acked \cup {g.body}
           /\ WriterIs(w, "idle", {}, {})
           /\ DirSame /\ MapsSame /\ SettledSame /\ LogSame /\ AllFlushers
           /\ begun' = begun /\ call' = call
           /\ running' = running /\ nextSeq' = nextSeq
           /\ queue' = queue /\ attempts' = attempts /\ origin' = origin /\ faults' = faults
<1>1. writer[w].pc = "drop"
  BY DEF Acknowledge, Now
<1>2. PICK g \in Known : writer[w].gen = {g}
  BY <1>1 DEF WriterInv
<1>3. WriterIs(w, "idle", {}, {})
  BY DEF Acknowledge, Idle, Typed, WriterIs
<1>4. acked' = acked \cup {g.body}
  <2>1. {h.body : h \in {g}} = {g.body}
    OBVIOUS
  <2> QED BY <1>2, <2>1 DEF Acknowledge
<1>5. /\ DirSame /\ MapsSame /\ SettledSame /\ LogSame /\ AllFlushers
      /\ begun' = begun /\ call' = call /\ writer[w].old = {}
      /\ running' = running /\ nextSeq' = nextSeq
      /\ queue' = queue /\ attempts' = attempts /\ origin' = origin /\ faults' = faults
  BY DEF Acknowledge, memory, log, DirSame, MapsSame, SettledSame, LogSame, AllFlushers
<1> QED BY <1>1, <1>2, <1>3, <1>4, <1>5

(* take_next takes the first object that is due; those that wait stay      *)
(* queued.                                                                 *)
LEMMA TakeView ==
  ASSUME Typed, NEW f \in Flushers, Take(f)
  PROVE  \E o \in Objects :
           /\ pending[o] # {} /\ inflight[o] = {}
           /\ inflight'[o] = pending[o] /\ pending'[o] = {} /\ failed' = failed
           /\ \A p \in Objects : p # o => pending'[p] = pending[p] /\ inflight'[p] = inflight[p]
           /\ DOMAIN pending' = Objects /\ DOMAIN inflight' = Objects
           /\ flusher[f].pc = "idle" /\ FlusherIs(f, "read", pending[o]) /\ flusher'[f].ok = FALSE
           /\ queue' \in Seq(Objects)
           /\ \A p \in Objects : (\E i \in 1..Len(queue) : queue[i] = p) /\ pending[p] # {} =>
                p = o \/ \E i \in 1..Len(queue') : queue'[i] = p
           /\ DirSame /\ WritesSame /\ SettledSame /\ LogSame /\ AllWriters
           /\ running /\ running' = running /\ nextSeq' = nextSeq
           /\ attempts' = attempts /\ origin' = origin /\ faults' = faults
<1> DEFINE i == Min(Due)
           left == SubSeq(queue, i + 1, Len(queue))
           before == SubSeq(queue, 1, i - 1)
<1>1. Len(queue) \in Nat /\ queue \in Seq(Objects)
  BY DEF Typed
<1>2. i \in Due
  <2>1. Due \subseteq Nat
    BY <1>1 DEF Due
  <2>3. Due # {}
    BY DEF Take
  <2>2. \E u \in Due : \A v \in Due : u <= v
    BY <2>1, <2>3, LeastIn
  <2> QED BY <2>2 DEF Min
<1>3. i \in 1..Len(queue) /\ pending[queue[i]] # {} /\ inflight[queue[i]] = {}
  BY <1>2 DEF Due
<1>4. PICK o \in Objects : o = queue[i]
  BY <1>1, <1>3, ElementOfSeq
<1>5. /\ queue' = left \o Skipped(before)
      /\ inflight' = [inflight EXCEPT ![o] = pending[o]]
      /\ pending' = [pending EXCEPT ![o] = {}]
      /\ flusher' = [flusher EXCEPT ![f] = [pc |-> "read", gen |-> pending[o], ok |-> FALSE]]
  BY <1>4 DEF Take
<1>6. PICK n \in 1..Len(queue) : n = i
  BY <1>3
<1> HIDE DEF i
<1>7. /\ left \in Seq(Objects) /\ Len(left) = Len(queue) - n
      /\ \A j \in 1..(Len(queue) - n) : left[j] = queue[n + j]
  BY <1>1, <1>6
<1>8. /\ before \in Seq(Objects) /\ Len(before) = n - 1
      /\ \A j \in 1..(n - 1) : before[j] = queue[j]
  BY <1>1, <1>6
<1> HIDE DEF left, before
<1> DEFINE tail == Skipped(before)
<1>9. /\ tail \in Seq(Objects)
      /\ \A j \in 1..(n - 1) : pending[queue[j]] # {} => \E k \in 1..Len(tail) : tail[k] = queue[j]
  <2>1. \A j \in 1..Len(before) : pending[before[j]] # {} =>
          \E k \in 1..Len(tail) : tail[k] = before[j]
    BY <1>8, SkippedKeeps
  <2>2. tail \in Seq(Objects)
    BY <1>8, SkippedKeeps
  <2> HIDE DEF tail
  <2> QED BY <1>8, <2>1, <2>2
<1> HIDE DEF tail
<1>10. PICK all : all = left \o tail
  OBVIOUS
<1>11. /\ all \in Seq(Objects) /\ Len(all) = Len(left) + Len(tail)
       /\ \A j \in 1..Len(left) : all[j] = left[j]
       /\ \A j \in 1..Len(tail) : all[Len(left) + j] = tail[j]
       /\ Len(left) \in Nat /\ Len(tail) \in Nat
  <2>1. left \in Seq(Objects) /\ tail \in Seq(Objects)
    BY <1>7, <1>9
  <2>2. Len(left) \in Nat /\ Len(tail) \in Nat
    BY <2>1, LenProperties
  <2> QED BY <1>10, <2>1, <2>2
<1>12. queue' = all
  BY <1>5, <1>10 DEF tail
<1>13. ASSUME NEW p \in Objects, NEW j \in 1..Len(queue), queue[j] = p, pending[p] # {}, p # o
       PROVE  \E k \in 1..Len(all) : all[k] = p
  <2>1. j # n
    BY <1>4, <1>6, <1>13
  <2>2. CASE j < n
    <3>1. j \in 1..(n - 1)
      BY <1>1, <2>2
    <3>2. PICK k \in 1..Len(tail) : tail[k] = queue[j]
      BY <1>9, <1>13, <3>1
    <3>3. Len(left) + k \in 1..Len(all) /\ all[Len(left) + k] = p
      BY <1>11, <1>13, <3>2
    <3> QED BY <3>3
  <2>3. CASE j > n
    <3>1. j - n \in 1..(Len(queue) - n) /\ n + (j - n) = j
      BY <1>1, <2>3
    <3>2. j - n \in 1..Len(left) /\ left[j - n] = p
      BY <1>7, <1>13, <3>1
    <3>3. j - n \in 1..Len(all) /\ all[j - n] = p
      <4>1. Len(left) <= Len(all) /\ Len(all) \in Nat /\ Len(left) \in Nat
        BY <1>11
      <4>2. j - n \in 1..Len(all)
        BY <3>2, <4>1
      <4> QED BY <1>11, <3>2, <4>2
    <3> QED BY <3>3
  <2> QED BY <1>1, <2>1, <2>2, <2>3
<1>14. \A p \in Objects : (\E j \in 1..Len(queue) : queue[j] = p) /\ pending[p] # {} =>
         p = o \/ \E k \in 1..Len(queue') : queue'[k] = p
  BY <1>12, <1>13
<1>15. /\ inflight'[o] = pending[o] /\ pending'[o] = {}
       /\ \A p \in Objects : p # o => pending'[p] = pending[p] /\ inflight'[p] = inflight[p]
       /\ DOMAIN pending' = Objects /\ DOMAIN inflight' = Objects
  BY <1>5 DEF Typed
<1>16. FlusherIs(f, "read", pending[o]) /\ flusher'[f].ok = FALSE
  BY <1>5 DEF Typed, FlusherIs
<1>17. /\ DirSame /\ WritesSame /\ SettledSame /\ LogSame /\ AllWriters
       /\ running /\ running' = running /\ nextSeq' = nextSeq /\ failed' = failed
       /\ attempts' = attempts /\ origin' = origin /\ faults' = faults /\ flusher[f].pc = "idle"
  BY DEF Take, Doing, ghosts, log, DirSame, WritesSame, SettledSame, LogSame, AllWriters
<1>18. pending[o] # {} /\ inflight[o] = {} /\ queue' \in Seq(Objects)
  BY <1>3, <1>4, <1>11, <1>12
<1> QED BY <1>14, <1>15, <1>16, <1>17, <1>18

(* take_next finds nothing due; the objects that wait stay queued.         *)
LEMMA TakeNoneView ==
  ASSUME Typed, NEW f \in Flushers, TakeNone(f)
  PROVE  /\ queue' \in Seq(Objects)
         /\ \A p \in Objects : (\E i \in 1..Len(queue) : queue[i] = p) /\ pending[p] # {} =>
              \E i \in 1..Len(queue') : queue'[i] = p
         /\ MapsSame /\ DirSame /\ WritesSame /\ SettledSame /\ LogSame /\ AllWriters
         /\ AllFlushers /\ running' = running /\ nextSeq' = nextSeq
         /\ attempts' = attempts /\ origin' = origin /\ faults' = faults
<1>1. PICK tail : tail = Skipped(queue)
  OBVIOUS
<1>2. queue' = tail
  BY <1>1 DEF TakeNone
<1>3. /\ tail \in Seq(Objects)
      /\ \A j \in 1..Len(queue) : pending[queue[j]] # {} => \E k \in 1..Len(tail) : tail[k] = queue[j]
  BY <1>1, SkippedKeeps DEF Typed
<1> QED BY <1>2, <1>3 DEF TakeNone, ghosts, log, MapsSame, DirSame, WritesSame, SettledSame,
                          LogSame, AllWriters, AllFlushers

(* A task reads the staged body back.                                      *)
LEMMA ReadStagedView ==
  ASSUME Typed, NEW f \in Flushers, ReadStaged(f)
  PROVE  /\ flusher[f].pc = "read" /\ FlusherIs(f, "put", flusher[f].gen)
         /\ MapsSame /\ DirSame /\ WritesSame /\ SettledSame /\ LogSame /\ AllWriters
         /\ running' = running /\ nextSeq' = nextSeq
         /\ queue' = queue /\ attempts' = attempts /\ origin' = origin /\ faults' = faults
<1>1. FlusherIs(f, "put", flusher[f].gen)
  BY DEF ReadStaged, Turn, Typed, FlusherIs
<1> QED BY <1>1 DEF ReadStaged, Doing, memory, ghosts, log, MapsSame, DirSame, WritesSame,
                    SettledSame, LogSame, AllWriters

(* complete and the end of an unreadable generation: out of the map.       *)
Taken(g) ==
  /\ pending' = pending /\ failed' = failed /\ DOMAIN inflight' = Objects
  /\ inflight'[g.obj] = {}
  /\ \A o \in Objects : o # g.obj => inflight'[o] = inflight[o]

(* What a task removes from the map of uploads is its own generation.      *)
LEMMA TakenOut ==
  ASSUME Typed, MapInv, FlusherInv, NEW f \in Flushers, NEW g \in Known,
         flusher[f].gen = {g}, flusher[f].pc \in Busy,
         inflight' = [o \in Objects |-> inflight[o] \ flusher[f].gen],
         pending' = pending, failed' = failed
  PROVE  Taken(g) /\ inflight[g.obj] = {g}
<1>1. g \in inflight[g.obj] /\ g.obj \in Objects
  BY DEF FlusherInv, Known
<1>2. inflight[g.obj] = {g}
  BY <1>1 DEF MapInv
<1>3. inflight'[g.obj] = {} /\ DOMAIN inflight' = Objects
  BY <1>1, <1>2
<1>4. ASSUME NEW o \in Objects, o # g.obj PROVE inflight'[o] = inflight[o]
  <2>1. g \notin inflight[o]
    BY <1>4 DEF MapInv
  <2>2. inflight'[o] = inflight[o] \ {g}
    OBVIOUS
  <2> QED BY <2>1, <2>2
<1> QED BY <1>2, <1>3, <1>4 DEF Taken

(* A body that cannot be read back is dropped.                             *)
LEMMA ReadFailsView ==
  ASSUME Typed, MapInv, FlusherInv, NEW f \in Flushers, ReadFails(f)
  PROVE  \E g \in Known :
           /\ flusher[f].gen = {g} /\ flusher[f].pc = "read" /\ Taken(g) /\ inflight[g.obj] = {g}
           /\ dropped' = dropped \cup {g.body} /\ delivered' = delivered
           /\ FlusherIs(f, "drop", {g})
           /\ DirSame /\ WritesSame /\ LogSame /\ AllWriters
           /\ running' = running /\ nextSeq' = nextSeq
           /\ queue' = queue /\ attempts' = attempts /\ origin' = origin
<1>1. flusher[f].pc = "read"
  BY DEF ReadFails, Doing
<1>2. PICK g \in Known : flusher[f].gen = {g}
  BY <1>1 DEF FlusherInv
<1>3. Taken(g) /\ inflight[g.obj] = {g}
  <2>1. /\ inflight' = [o \in Objects |-> inflight[o] \ flusher[f].gen]
        /\ pending' = pending /\ failed' = failed
    BY DEF ReadFails
  <2>2. flusher[f].pc \in Busy
    BY <1>1 DEF Busy
  <2> QED BY <1>2, <2>1, <2>2, TakenOut
<1>4. dropped' = dropped \cup {g.body}
  <2>1. {h.body : h \in {g}} = {g.body}
    OBVIOUS
  <2> QED BY <1>2, <2>1 DEF ReadFails
<1>5. FlusherIs(f, "drop", {g})
  BY <1>2 DEF ReadFails, Turn, Typed, FlusherIs
<1> QED BY <1>1, <1>2, <1>3, <1>4, <1>5 DEF ReadFails, ghosts, DirSame, WritesSame, LogSame,
                                           AllWriters

(* complete takes an uploaded generation out of flight.                    *)
LEMMA CompleteView ==
  ASSUME Typed, MapInv, FlusherInv, NEW f \in Flushers, Complete(f)
  PROVE  \E g \in Known :
           /\ flusher[f].gen = {g} /\ flusher[f].pc = "complete"
           /\ Taken(g) /\ inflight[g.obj] = {g} /\ g.body \in delivered
           /\ FlusherIs(f, "drop", {g})
           /\ DirSame /\ WritesSame /\ SettledSame /\ LogSame /\ AllWriters
           /\ running' = running /\ nextSeq' = nextSeq
           /\ queue' = queue /\ attempts' = attempts /\ origin' = origin /\ faults' = faults
<1>1. flusher[f].pc = "complete"
  BY DEF Complete, Doing
<1>2. PICK g \in Known : flusher[f].gen = {g}
  BY <1>1 DEF FlusherInv
<1>3. Taken(g) /\ inflight[g.obj] = {g}
  <2>1. /\ inflight' = [o \in Objects |-> inflight[o] \ flusher[f].gen]
        /\ pending' = pending /\ failed' = failed
    BY DEF Complete
  <2>2. flusher[f].pc \in Busy
    BY <1>1 DEF Busy
  <2> QED BY <1>2, <2>1, <2>2, TakenOut
<1>4. g.body \in delivered
  BY <1>1, <1>2 DEF FlusherInv
<1>5. FlusherIs(f, "drop", {g})
  BY <1>2 DEF Complete, Turn, Typed, FlusherIs
<1> QED BY <1>1, <1>2, <1>3, <1>4, <1>5 DEF Complete, ghosts, log, DirSame, WritesSame,
                                           SettledSame, LogSame, AllWriters

\* The origin has taken g.
Landed(g) ==
  /\ origin'[g.obj] = g.body /\ DOMAIN origin' = Objects
  /\ \A o \in Objects : o # g.obj => origin'[o] = origin[o]
  /\ delivered' = delivered \cup {g.body}

(* An upload makes its body the origin's copy.                             *)
LEMMA UploadView ==
  ASSUME Typed, NEW f \in Flushers, NEW g \in Known, flusher[f].gen = {g}, Upload(f)
  PROVE  Landed(g)
<1>1. g.obj \in Objects
  BY DEF Known
<1>2. origin' = [origin EXCEPT ![g.obj] = g.body] /\ delivered' = delivered \cup {g.body}
  BY DEF Upload
<1> QED BY <1>1, <1>2 DEF Landed, Typed

(* An upload succeeds.                                                     *)
LEMMA PutOkView ==
  ASSUME Typed, FlusherInv, NEW f \in Flushers, PutOk(f)
  PROVE  \E g \in Known :
           /\ flusher[f].gen = {g} /\ flusher[f].pc = "put" /\ Landed(g)
           /\ FlusherIs(f, "complete", {g})
           /\ MapsSame /\ DirSame /\ WritesSame /\ LogSame /\ AllWriters /\ dropped' = dropped
           /\ running' = running /\ nextSeq' = nextSeq
           /\ queue' = queue /\ attempts' = attempts /\ faults' = faults
<1>1. flusher[f].pc = "put"
  BY DEF PutOk, Doing
<1>2. PICK g \in Known : flusher[f].gen = {g}
  BY <1>1 DEF FlusherInv
<1>3. Landed(g)
  BY <1>2, UploadView DEF PutOk
<1>4. FlusherIs(f, "complete", {g})
  BY <1>2 DEF PutOk, Typed, FlusherIs
<1> QED BY <1>1, <1>2, <1>3, <1>4 DEF PutOk, memory, ghosts, log, MapsSame, DirSame, WritesSame,
                                     LogSame, AllWriters

(* An upload fails, and may still have reached the origin.                 *)
LEMMA PutFailsView ==
  ASSUME Typed, FlusherInv, NEW f \in Flushers, PutFails(f)
  PROVE  \E g \in Known :
           /\ flusher[f].gen = {g} /\ flusher[f].pc = "put"
           /\ Landed(g) \/ (origin' = origin /\ delivered' = delivered)
           /\ FlusherIs(f, "fail", {g})
           /\ MapsSame /\ DirSame /\ WritesSame /\ LogSame /\ AllWriters /\ dropped' = dropped
           /\ running' = running /\ nextSeq' = nextSeq
           /\ queue' = queue /\ attempts' = attempts
<1>1. flusher[f].pc = "put"
  BY DEF PutFails, Doing
<1>2. PICK g \in Known : flusher[f].gen = {g}
  BY <1>1 DEF FlusherInv
<1>3. Landed(g) \/ (origin' = origin /\ delivered' = delivered)
  BY <1>2, UploadView DEF PutFails
<1>4. FlusherIs(f, "fail", {g})
  BY <1>2 DEF PutFails, Turn, Typed, FlusherIs
<1> QED BY <1>1, <1>2, <1>3, <1>4 DEF PutFails, memory, ghosts, log, MapsSame, DirSame,
                                     WritesSame, LogSame, AllWriters

\* A failed upload is put back or parked, or dropped if a newer write waits.
Ended(f, g) ==
  /\ flusher[f].gen = {g} /\ flusher[f].pc = "fail" /\ g.obj \in Objects
  /\ inflight[g.obj] = {g} /\ inflight'[g.obj] = {} /\ DOMAIN inflight' = Objects
  /\ \A o \in Objects : o # g.obj => inflight'[o] = inflight[o]
  /\ attempts' \in [Objects -> 0..(MaxAttempts - 1)]
  /\ DirSame /\ WritesSame /\ SettledSame /\ LogSame /\ AllWriters
  /\ running' = running /\ nextSeq' = nextSeq /\ origin' = origin /\ faults' = faults

(* A task whose upload failed still has its generation in flight.          *)
LEMMA FailedUpload ==
  ASSUME Typed, MapInv, FlusherInv, NEW f \in Flushers, flusher[f].pc = "fail"
  PROVE  \E g \in Known :
           flusher[f].gen = {g} /\ g.obj \in Objects /\ inflight[g.obj] = {g}
<1>1. PICK g \in Known : flusher[f].gen = {g}
  BY DEF FlusherInv
<1>2. g \in inflight[g.obj] /\ g.obj \in Objects
  BY <1>1 DEF FlusherInv, Busy, Known
<1>3. inflight[g.obj] = {g}
  BY <1>2 DEF MapInv
<1> QED BY <1>1, <1>2, <1>3

(* requeue puts a failed generation back, unless a newer one waits.        *)
LEMMA RequeueView ==
  ASSUME Typed, MapInv, FlusherInv, NEW f \in Flushers, Requeue(f)
  PROVE  \E g \in Known :
           /\ Ended(f, g) /\ failed' = failed
           /\ \/ /\ Superseded(g) /\ FlusherIs(f, "drop", {g})
                 /\ pending' = pending /\ queue' = queue
              \/ /\ ~Superseded(g) /\ FlusherIs(f, "idle", {})
                 /\ pending'[g.obj] = {g} /\ DOMAIN pending' = Objects
                 /\ \A o \in Objects : o # g.obj => pending'[o] = pending[o]
                 /\ queue' = Append(queue, g.obj)
<1>1. flusher[f].pc = "fail"
  BY DEF Requeue, Doing
<1>2. PICK g \in Known : flusher[f].gen = {g} /\ g.obj \in Objects /\ inflight[g.obj] = {g}
  BY <1>1, FailedUpload
<1>3. PICK o \in Objects : o = g.obj
  BY <1>2
<1>4. /\ attempts[o] + 1 < MaxAttempts
      /\ attempts' = [attempts EXCEPT ![o] = @ + 1]
      /\ inflight' = [inflight EXCEPT ![o] = {}]
      /\ \/ Superseded(g) /\ Turn(f, "drop") /\ pending' = pending /\ queue' = queue
         \/ /\ ~Superseded(g) /\ pending' = [pending EXCEPT ![o] = {g}]
            /\ queue' = Append(queue, o) /\ flusher' = [flusher EXCEPT ![f] = Rest]
  BY <1>2, <1>3 DEF Requeue
<1>5. attempts' \in [Objects -> 0..(MaxAttempts - 1)]
  <2>1. attempts[o] + 1 \in 0..(MaxAttempts - 1)
    BY <1>4, BoundsAssumption DEF Typed
  <2> QED BY <1>4, <2>1 DEF Typed
<1>6. /\ inflight'[o] = {} /\ DOMAIN inflight' = Objects
      /\ \A p \in Objects : p # o => inflight'[p] = inflight[p]
  BY <1>4 DEF Typed
<1>7. Ended(f, g) /\ failed' = failed
  BY <1>1, <1>2, <1>3, <1>5, <1>6
     DEF Ended, Requeue, ghosts, log, DirSame, WritesSame, SettledSame, LogSame, AllWriters
<1>8. CASE Superseded(g) /\ Turn(f, "drop") /\ pending' = pending /\ queue' = queue
  <2>1. FlusherIs(f, "drop", {g})
    BY <1>2, <1>8 DEF Turn, Typed, FlusherIs
  <2> QED BY <1>7, <1>8, <2>1
<1>9. CASE /\ ~Superseded(g) /\ pending' = [pending EXCEPT ![o] = {g}]
           /\ queue' = Append(queue, o) /\ flusher' = [flusher EXCEPT ![f] = Rest]
  <2>1. FlusherIs(f, "idle", {})
    BY <1>9 DEF Rest, Typed, FlusherIs
  <2>2. /\ pending'[o] = {g} /\ DOMAIN pending' = Objects
        /\ \A p \in Objects : p # o => pending'[p] = pending[p]
    BY <1>9 DEF Typed
  <2> QED BY <1>3, <1>7, <1>9, <2>1, <2>2
<1> QED BY <1>4, <1>8, <1>9

(* park_failed parks a failed generation, unless a newer one waits.        *)
LEMMA ParkFailedView ==
  ASSUME Typed, MapInv, FlusherInv, NEW f \in Flushers, ParkFailed(f)
  PROVE  \E g \in Known :
           /\ Ended(f, g) /\ pending' = pending /\ queue' = queue
           /\ \/ Superseded(g) /\ FlusherIs(f, "drop", {g}) /\ failed' = failed
              \/ /\ ~Superseded(g) /\ FlusherIs(f, "idle", {})
                 /\ failed'[g.obj] = {g} /\ DOMAIN failed' = Objects
                 /\ \A o \in Objects : o # g.obj => failed'[o] = failed[o]
<1>1. flusher[f].pc = "fail"
  BY DEF ParkFailed, Doing
<1>2. PICK g \in Known : flusher[f].gen = {g} /\ g.obj \in Objects /\ inflight[g.obj] = {g}
  BY <1>1, FailedUpload
<1>3. PICK o \in Objects : o = g.obj
  BY <1>2
<1>4. /\ attempts' = [attempts EXCEPT ![o] = 0]
      /\ inflight' = [inflight EXCEPT ![o] = {}]
      /\ \/ Superseded(g) /\ Turn(f, "drop") /\ failed' = failed
         \/ /\ ~Superseded(g) /\ failed' = [failed EXCEPT ![o] = {g}]
            /\ flusher' = [flusher EXCEPT ![f] = Rest]
  BY <1>2, <1>3 DEF ParkFailed
<1>5. attempts' \in [Objects -> 0..(MaxAttempts - 1)]
  <2>1. 0 \in 0..(MaxAttempts - 1)
    BY BoundsAssumption
  <2> QED BY <1>4, <2>1 DEF Typed
<1>6. /\ inflight'[o] = {} /\ DOMAIN inflight' = Objects
      /\ \A p \in Objects : p # o => inflight'[p] = inflight[p]
  BY <1>4 DEF Typed
<1>7. Ended(f, g) /\ pending' = pending /\ queue' = queue
  BY <1>1, <1>2, <1>3, <1>5, <1>6
     DEF Ended, ParkFailed, ghosts, log, DirSame, WritesSame, SettledSame, LogSame, AllWriters
<1>8. CASE Superseded(g) /\ Turn(f, "drop") /\ failed' = failed
  <2>1. FlusherIs(f, "drop", {g})
    BY <1>2, <1>8 DEF Turn, Typed, FlusherIs
  <2> QED BY <1>7, <1>8, <2>1
<1>9. CASE /\ ~Superseded(g) /\ failed' = [failed EXCEPT ![o] = {g}]
           /\ flusher' = [flusher EXCEPT ![f] = Rest]
  <2>1. FlusherIs(f, "idle", {})
    BY <1>9 DEF Rest, Typed, FlusherIs
  <2>2. /\ failed'[o] = {g} /\ DOMAIN failed' = Objects
        /\ \A p \in Objects : p # o => failed'[p] = failed[p]
    BY <1>9 DEF Typed
  <2> QED BY <1>3, <1>7, <1>9, <2>1, <2>2
<1> QED BY <1>4, <1>8, <1>9

(* A task removes the files of the generation it is done with.             *)
LEMMA RetireView ==
  ASSUME Typed, NEW f \in Flushers, Retire(f)
  PROVE  /\ flusher[f].pc = "drop"
         /\ Removed(flusher[f].gen)
         /\ FlusherIs(f, "idle", {})
         /\ attempts' \in [Objects -> 0..(MaxAttempts - 1)]
         /\ MapsSame /\ WritesSame /\ SettledSame /\ LogSame /\ AllWriters
         /\ running' = running /\ nextSeq' = nextSeq
         /\ queue' = queue /\ origin' = origin /\ faults' = faults
<1>1. FlusherIs(f, "idle", {})
  BY DEF Retire, Rest, Typed, FlusherIs
<1>2. Removed(flusher[f].gen)
  BY RemoveView DEF Retire
<1>3. attempts' \in [Objects -> 0..(MaxAttempts - 1)]
  <2>1. 0 \in 0..(MaxAttempts - 1)
    BY BoundsAssumption
  <2>2. \A o \in Objects : attempts[o] \in 0..(MaxAttempts - 1)
    BY DEF Typed
  <2>3. attempts' = [o \in Objects |->
                    IF flusher[f].ok /\ \E g \in flusher[f].gen : g.obj = o
                      THEN 0 ELSE attempts[o]]
    BY DEF Retire
  <2> QED BY <2>1, <2>2, <2>3
<1> QED BY <1>1, <1>2, <1>3 DEF Retire, Doing, memory, ghosts, log, MapsSame, WritesSame,
                                SettledSame, LogSame, AllWriters

(* retry_failed queues what is parked, or removes it if a newer one waits. *)
LEMMA RetryFailedView ==
  ASSUME Typed, MapInv, RetryFailed
  PROVE  \E dead :
           /\ Removed(dead)
           /\ \A g \in dead : g \in Known /\ g \in failed[g.obj] /\ Superseded(g)
           /\ \A o \in Objects : pending'[o] =
                IF \E g \in failed[o] : ~Superseded(g) THEN failed[o] ELSE pending[o]
           /\ \A o \in Objects : failed'[o] = {}
           /\ DOMAIN pending' = Objects /\ DOMAIN failed' = Objects /\ inflight' = inflight
           /\ queue' \in Seq(Objects)
           /\ \A o \in Objects :
                (\E i \in 1..Len(queue) : queue[i] = o) \/ (\E g \in failed[o] : ~Superseded(g)) =>
                  \E i \in 1..Len(queue') : queue'[i] = o
           /\ WritesSame /\ SettledSame /\ LogSame /\ AllWriters /\ AllFlushers
           /\ running /\ running' = running /\ nextSeq' = nextSeq
           /\ attempts' = attempts /\ origin' = origin
<1> DEFINE back == {o \in Objects : \E g \in failed[o] : ~Superseded(g)}
           dead == UNION {{g \in failed[o] : Superseded(g)} : o \in Objects}
<1>1. Removed(dead)
  BY RemoveView DEF RetryFailed
<1>2. ASSUME NEW g \in dead
      PROVE  g \in Known /\ g \in failed[g.obj] /\ Superseded(g)
  <2>1. PICK o \in Objects : g \in failed[o] /\ Superseded(g)
    OBVIOUS
  <2>2. g.obj = o /\ failed[o] \subseteq Known
    BY <2>1 DEF MapInv, Typed
  <2> QED BY <2>1, <2>2
<1>3. /\ pending' = [o \in Objects |-> IF o \in back THEN failed[o] ELSE pending[o]]
      /\ failed' = [o \in Objects |-> {}]
  BY DEF RetryFailed
<1>4. PICK order \in SetToSeqs(back) : queue' = queue \o order
  BY DEF RetryFailed
<1>5. IsFiniteSet(back) /\ back \subseteq Objects
  <2>1. back \in SUBSET Objects
    OBVIOUS
  <2> HIDE DEF back
  <2> QED BY <2>1, BoundsAssumption, FS_Subset
<1> HIDE DEF dead
<1>6. \A o \in Objects : o \in back <=> \E g \in failed[o] : ~Superseded(g)
  OBVIOUS
<1> HIDE DEF back
<1>7. order \in Seq(Objects) /\ \A o \in back : \E i \in 1..Len(order) : order[i] = o
  <2>1. order \in Seq(back)
    BY <1>4, <1>5, OrderHasAll
  <2> QED BY <1>4, <1>5, <2>1, OrderHasAll
<1>8. PICK all : all = queue \o order
  OBVIOUS
<1>9. /\ all \in Seq(Objects) /\ Len(all) = Len(queue) + Len(order)
      /\ \A j \in 1..Len(queue) : all[j] = queue[j]
      /\ \A j \in 1..Len(order) : all[Len(queue) + j] = order[j]
      /\ Len(queue) \in Nat /\ Len(order) \in Nat
  <2>1. queue \in Seq(Objects) /\ order \in Seq(Objects)
    BY <1>7 DEF Typed
  <2>2. Len(queue) \in Nat /\ Len(order) \in Nat
    BY <2>1, LenProperties
  <2> QED BY <1>8, <2>1, <2>2
<1>10. ASSUME NEW o \in Objects, NEW j \in 1..Len(queue), queue[j] = o
       PROVE  \E k \in 1..Len(all) : all[k] = o
  <2>1. j \in 1..Len(all) /\ all[j] = o
    BY <1>9, <1>10
  <2> QED BY <2>1
<1>11. ASSUME NEW o \in back PROVE \E k \in 1..Len(all) : all[k] = o
  <2>1. PICK j \in 1..Len(order) : order[j] = o
    BY <1>7
  <2>2. Len(queue) + j \in 1..Len(all) /\ all[Len(queue) + j] = o
    BY <1>9, <2>1
  <2> QED BY <2>2
<1>12. queue' = all
  BY <1>4, <1>8
<1>13. /\ \A o \in Objects : pending'[o] =
            IF \E g \in failed[o] : ~Superseded(g) THEN failed[o] ELSE pending[o]
       /\ \A o \in Objects : failed'[o] = {}
       /\ DOMAIN pending' = Objects /\ DOMAIN failed' = Objects
  BY <1>3, <1>6
<1>14. \A o \in Objects :
         (\E i \in 1..Len(queue) : queue[i] = o) \/ (\E g \in failed[o] : ~Superseded(g)) =>
           \E i \in 1..Len(queue') : queue'[i] = o
  BY <1>6, <1>10, <1>11, <1>12
<1>15. /\ WritesSame /\ SettledSame /\ LogSame /\ AllWriters /\ AllFlushers
       /\ running /\ running' = running /\ nextSeq' = nextSeq /\ inflight' = inflight
       /\ attempts' = attempts /\ origin' = origin
  BY DEF RetryFailed, ghosts, log, WritesSame, SettledSame, LogSame, AllWriters, AllFlushers
<1>16. queue' \in Seq(Objects)
  BY <1>9, <1>12
<1> QED BY <1>1, <1>2, <1>13, <1>14, <1>15, <1>16

(* A crash or a power loss empties the memory.                             *)
LEMMA StopView ==
  ASSUME Typed, Stop
  PROVE  /\ \A o \in Objects : pending'[o] = {} /\ inflight'[o] = {} /\ failed'[o] = {}
         /\ queue' = <<>> /\ running' = FALSE
         /\ \A w \in Writers : writer'[w].pc = "idle" /\ writer'[w].gen = {} /\ writer'[w].old = {}
         /\ \A f \in Flushers : flusher'[f].pc = "idle" /\ flusher'[f].gen = {}
         /\ WritesSame /\ SettledSame /\ LogSame
         /\ nextSeq' = nextSeq /\ origin' = origin
BY DEF Stop, Idle, Rest, ghosts, log, WritesSame, SettledSame, LogSame

(* Recovery keeps and queues the newest committed generations.             *)
LEMMA RecoverView ==
  ASSUME Typed, Recover
  PROVE  /\ running' = TRUE /\ ~running
         /\ nextSeq' \in 1..(begun + 1) /\ \A g \in dir.meta : g.seq < nextSeq'
         /\ \A o \in Objects : pending'[o] = {g \in Newest(dir) : g.obj = o}
         /\ DOMAIN pending' = Objects
         /\ queue' \in Seq(Objects)
         /\ \A g \in Newest(dir) : \E i \in 1..Len(queue') : queue'[i] = g.obj
         /\ recovered' = {g.body : g \in Newest(dir)}
         /\ dir'.meta = Newest(dir)
         /\ dir'.data = {g \in dir.data : \E h \in Newest(dir) : SameName(g, h)}
         /\ dir' \in [data : SUBSET Known, meta : SUBSET Known]
         /\ since' = since \cup {dir'}
         /\ WritesSame /\ SettledSame /\ lost' = lost
         /\ inflight' = inflight /\ failed' = failed
         /\ AllWriters /\ AllFlushers /\ attempts' = attempts /\ origin' = origin /\ faults' = faults
<1> DEFINE kept == Newest(dir)
           seqs == {0} \cup {g.seq : g \in dir.meta}
           objs == {g.obj : g \in kept}
<1>1. begun \in Nat /\ dir.meta \subseteq Known /\ dir.data \subseteq Known
  BY DEF Typed
<1>2. \A g \in dir.meta : g.seq \in 1..begun /\ g.obj \in Objects
  BY <1>1, KnownFields
<1>3. seqs \subseteq 0..begun /\ seqs # {}
  BY <1>1, <1>2
<1>4. Max(seqs) \in seqs /\ \A v \in seqs : Max(seqs) >= v
  <2> HIDE DEF seqs
  <2>1. PICK u \in seqs : \A v \in seqs : v <= u
    BY <1>1, <1>3, GreatestIn
  <2>2. \A v \in seqs : u >= v
    BY <1>1, <1>3, <2>1
  <2> QED BY <2>2 DEF Max
<1>5. nextSeq' = Max(seqs) + 1
  BY DEF Recover
<1>6. nextSeq' \in 1..(begun + 1) /\ \A g \in dir.meta : g.seq < nextSeq'
  <2>1. PICK m : m = Max(seqs)
    OBVIOUS
  <2>2. m \in 0..begun /\ \A v \in seqs : m >= v
    <3> HIDE DEF seqs
    <3> QED BY <1>3, <1>4, <2>1
  <2>3. nextSeq' = m + 1
    BY <1>5, <2>1
  <2>4. \A g \in dir.meta : g.seq \in seqs
    OBVIOUS
  <2> HIDE DEF seqs
  <2> QED BY <1>1, <1>2, <2>2, <2>3, <2>4
<1>7. kept \subseteq dir.meta
  BY DEF Newest
<1> HIDE DEF kept
<1>8. PICK order \in SetToSeqs(objs) : queue' = order
  BY DEF Recover, kept
<1>9. IsFiniteSet(objs) /\ objs \subseteq Objects
  <2>1. objs \in SUBSET Objects
    BY <1>2, <1>7
  <2> HIDE DEF objs
  <2> QED BY <2>1, BoundsAssumption, FS_Subset
<1>10. /\ queue' \in Seq(Objects)
       /\ \A g \in kept : \E i \in 1..Len(queue') : queue'[i] = g.obj
  <2>1. \A g \in kept : g.obj \in objs
    OBVIOUS
  <2> HIDE DEF objs
  <2>2. order \in Seq(objs) /\ \A o \in objs : \E i \in 1..Len(order) : order[i] = o
    BY <1>9, OrderHasAll
  <2>3. order \in Seq(Objects)
    BY <1>9, <2>2
  <2> QED BY <1>8, <2>1, <2>2, <2>3
<1>11. PICK data, meta : /\ meta = kept
                         /\ data = {g \in dir.data : \E h \in kept : SameName(g, h)}
  OBVIOUS
<1>12. dir' = [data |-> data, meta |-> meta] /\ since' = since \cup {dir'}
  BY <1>11 DEF Recover, Change, kept
<1>13. data \subseteq Known /\ meta \subseteq Known
  BY <1>1, <1>7, <1>11
<1>14. dir' \in [data : SUBSET Known, meta : SUBSET Known] /\ dir'.meta = meta /\ dir'.data = data
  BY <1>12, <1>13
<1>15. /\ \A o \in Objects : pending'[o] = {g \in kept : g.obj = o}
       /\ DOMAIN pending' = Objects
  BY DEF Recover, kept
<1>16. /\ running' = TRUE /\ ~running
       /\ recovered' = {g.body : g \in kept}
       /\ WritesSame /\ SettledSame /\ lost' = lost
       /\ inflight' = inflight /\ failed' = failed
       /\ AllWriters /\ AllFlushers /\ attempts' = attempts /\ origin' = origin /\ faults' = faults
  BY DEF Recover, kept, ghosts, WritesSame, SettledSame, AllWriters, AllFlushers
<1> QED BY <1>6, <1>10, <1>11, <1>12, <1>14, <1>15, <1>16 DEF kept

----------------------------------------------------------------------------
(* Types are preserved                                                     *)

(* No generation is new when no stage call begins.                         *)
LEMMA KnownSame ==
  ASSUME begun' = begun PROVE Known' = Known
BY DEF Known

Files  == [data : SUBSET Known, meta : SUBSET Known]
Thread == [pc : {"idle", "drop"} \cup Early, gen : SUBSET Known, old : SUBSET Known]
Task   == [pc : {"idle", "drop"} \cup Busy, gen : SUBSET Known, ok : BOOLEAN]
Faults == [errors : 0..MaxErrors, rearms : Nat, crashes : Nat]
Tries  == [Objects -> 0..(MaxAttempts - 1)]
Map    == [Objects -> SUBSET Known]
Some   == SUBSET (1..begun)

(* The parts of Typed under the names of the types.                        *)
LEMMA TypedParts ==
  ASSUME Typed
  PROVE  /\ nextSeq \in 1..(begun + 1) /\ running \in BOOLEAN
         /\ dir \in Files /\ since \subseteq Files /\ dir \in since
         /\ pending \in Map /\ inflight \in Map /\ failed \in Map
         /\ queue \in Seq(Objects) /\ attempts \in Tries /\ origin \in [Objects -> 0..begun]
         /\ writer \in [Writers -> Thread] /\ flusher \in [Flushers -> Task]
         /\ acked \in Some /\ delivered \in Some /\ recovered \in Some
         /\ dropped \in Some /\ lost \in Some /\ faults \in Faults
BY DEF Typed, Files, Thread, Task, Faults, Tries, Map, Some

(* A stage call begins: the types hold with one more write.                *)
LEMMA TypedBegin ==
  ASSUME Typed, NEW w \in Writers, NEW o \in Objects, Begin(w, o)
  PROVE  Typed'
<1>1. PICK g \in Gens :
           /\ g.obj = o /\ g.seq = nextSeq /\ g.body = begun + 1
           /\ begun' = begun + 1 /\ begun + 1 \in Writes /\ nextSeq' = nextSeq + 1
           /\ running' = running
           /\ dir'.meta = dir.meta
           /\ \A h : h \in dir'.data <=> h = g \/ (h \in dir.data /\ ~SameName(g, h))
           /\ since' = since \cup {dir'}
           /\ dir' = [data |-> dir'.data, meta |-> dir'.meta]
           /\ MapsSame /\ SettledSame /\ LogSame /\ AllFlushers
           /\ acked' = acked /\ queue' = queue /\ attempts' = attempts
           /\ origin' = origin /\ faults' = faults
  BY BeginView
<1>2. begun \in Nat /\ begun' \in Nat /\ begun' = begun + 1 /\ begun' \in 0..MaxWrites
  BY <1>1, BoundsAssumption DEF Typed, Writes
<1>3. 1..begun \subseteq 1..begun' /\ begun' \in 1..begun' /\ 0..begun \subseteq 0..begun'
  BY <1>2
<1>4. Known \subseteq Known'
  BY <1>3 DEF Known
<1>5. g \in Known'
  <2>1. g.seq \in 1..begun' /\ g.body \in 1..begun'
    BY <1>1, <1>2 DEF Typed
  <2>2. g = [obj |-> g.obj, seq |-> g.seq, body |-> g.body] /\ g.obj \in Objects
    BY DEF Gens
  <2> QED BY <2>1, <2>2 DEF Known
<1>6. nextSeq' \in 1..(begun' + 1)
  BY <1>1, <1>2 DEF Typed
<1>7. dir' \in Files'
  <2>1. dir'.data \subseteq Known' /\ dir'.meta \subseteq Known'
    BY <1>1, <1>4, <1>5 DEF Typed
  <2>2. PICK d, m : d = dir'.data /\ m = dir'.meta
    OBVIOUS
  <2>3. dir' = [data |-> d, meta |-> m]
    BY <1>1, <2>2
  <2> QED BY <2>1, <2>2, <2>3 DEF Files
<1>8. since' \subseteq Files' /\ dir' \in since'
  <2>1. Files \subseteq Files'
    BY <1>4 DEF Files
  <2>2. since \subseteq Files
    BY DEF Typed, Files
  <2> QED BY <1>1, <1>7, <2>1, <2>2
<1>9. /\ pending' \in [Objects -> SUBSET Known'] /\ inflight' \in [Objects -> SUBSET Known']
      /\ failed' \in [Objects -> SUBSET Known']
  BY <1>1, <1>4 DEF Typed, MapsSame
<1>10. writer' \in [Writers -> [pc : {"idle", "drop"} \cup Early,
                             gen : SUBSET Known', old : SUBSET Known']]
  <2>1. writer' = [writer EXCEPT ![w] = [pc |-> "meta",
                     gen |-> {[obj |-> o, seq |-> nextSeq, body |-> begun + 1]}, old |-> {}]]
    BY DEF Begin
  <2>2. g = [obj |-> o, seq |-> nextSeq, body |-> begun + 1]
    BY <1>1 DEF Gens
  <2>3. [pc |-> "meta", gen |-> {g}, old |-> {}] \in
           [pc : {"idle", "drop"} \cup Early, gen : SUBSET Known', old : SUBSET Known']
    BY <1>5 DEF Early
  <2>4. \A v \in Writers : writer[v] \in
           [pc : {"idle", "drop"} \cup Early, gen : SUBSET Known', old : SUBSET Known']
    BY <1>4 DEF Typed
  <2> QED BY <2>1, <2>2, <2>3, <2>4 DEF Typed
<1>11. flusher' \in [Flushers -> [pc : {"idle", "drop"} \cup Busy,
                               gen : SUBSET Known', ok : BOOLEAN]]
  BY <1>1, <1>4 DEF Typed, AllFlushers
<1>12. call' \in [Writes -> [obj : Objects \cup {None}, after : SUBSET (1..begun')]]
  <2>1. call' = [call EXCEPT ![begun + 1] = [obj |-> o, after |-> acked]]
    BY DEF Begin
  <2>2. [obj |-> o, after |-> acked] \in [obj : Objects \cup {None}, after : SUBSET (1..begun')]
    BY <1>3 DEF Typed
  <2>3. \A b \in Writes : call[b] \in [obj : Objects \cup {None}, after : SUBSET (1..begun')]
    BY <1>3 DEF Typed
  <2> QED BY <2>1, <2>2, <2>3 DEF Typed
<1>13. /\ acked' \subseteq 1..begun' /\ delivered' \subseteq 1..begun'
       /\ recovered' \subseteq 1..begun' /\ dropped' \subseteq 1..begun'
       /\ lost' \subseteq 1..begun' /\ origin' \in [Objects -> 0..begun']
  BY <1>1, <1>3 DEF Typed, SettledSame, LogSame
<1>14. /\ running' \in BOOLEAN /\ queue' \in Seq(Objects)
       /\ attempts' \in [Objects -> 0..(MaxAttempts - 1)]
       /\ faults' \in [errors : 0..MaxErrors, rearms : Nat, crashes : Nat]
  BY <1>1 DEF Typed
<1> QED BY <1>2, <1>6, <1>7, <1>8, <1>9, <1>10, <1>11, <1>12, <1>13, <1>14 DEF Typed, Files

(* A step that begins no write: what it changes has to keep its type.      *)
LEMMA TypedFrame ==
  ASSUME Typed, begun' = begun, call' = call,
         nextSeq' \in 1..(begun + 1), running' \in BOOLEAN,
         dir' \in Files, since' \subseteq Files, dir' \in since',
         pending' \in Map, inflight' \in Map, failed' \in Map, queue' \in Seq(Objects),
         attempts' \in Tries, origin' \in [Objects -> 0..begun],
         writer' \in [Writers -> Thread], flusher' \in [Flushers -> Task],
         acked' \in Some, delivered' \in Some, recovered' \in Some,
         dropped' \in Some, lost' \in Some, faults' \in Faults
  PROVE  Typed'
BY KnownSame DEF Typed, Files, Thread, Task, Faults, Tries, Map, Some

(* Removing files leaves directories of the right type.                    *)
LEMMA SinceGrows ==
  ASSUME Typed, NEW gens, Removed(gens)
  PROVE  dir' \in Files /\ since' \subseteq Files /\ dir' \in since'
BY DEF Removed, Files, Typed

(* Counting an error keeps within the bound.                               *)
LEMMA ErrorsCount ==
  ASSUME Typed, faults.errors < MaxErrors, faults' = [faults EXCEPT !.errors = @ + 1]
  PROVE  faults' \in Faults
<1>1. faults.errors + 1 \in 0..MaxErrors
  BY BoundsAssumption DEF Typed
<1> QED BY <1>1 DEF Typed, Faults

(* Counting a re-arm or a crash keeps the type.                            *)
LEMMA FaultsCount ==
  ASSUME Typed, \/ faults' = [faults EXCEPT !.rearms = @ + 1]
                \/ faults' = [faults EXCEPT !.crashes = @ + 1]
  PROVE  faults' \in Faults
<1>1. faults.rearms + 1 \in Nat /\ faults.crashes + 1 \in Nat
  BY DEF Typed
<1>2. CASE faults' = [faults EXCEPT !.rearms = @ + 1]
  BY <1>1, <1>2 DEF Typed, Faults
<1>3. CASE faults' = [faults EXCEPT !.crashes = @ + 1]
  BY <1>1, <1>3 DEF Typed, Faults
<1> QED BY <1>2, <1>3

(* A thread, or a task, moves on.                                          *)
LEMMA SetThread ==
  ASSUME writer \in [Writers -> Thread], NEW w \in Writers, NEW pc \in Early \cup {"idle", "drop"}
  PROVE  [writer EXCEPT ![w].pc = pc] \in [Writers -> Thread]
BY DEF Thread

(* A task that moves keeps its type.                                       *)
LEMMA SetTask ==
  ASSUME flusher \in [Flushers -> Task], NEW f \in Flushers, NEW pc \in Busy \cup {"idle", "drop"}
  PROVE  /\ [flusher EXCEPT ![f].pc = pc] \in [Flushers -> Task]
         /\ [flusher EXCEPT ![f].pc = pc, ![f].ok = TRUE] \in [Flushers -> Task]
         /\ [flusher EXCEPT ![f] = Rest] \in [Flushers -> Task]
BY DEF Task, Rest

(* The later steps of a stage call keep the types.                         *)
LEMMA TypedWriters ==
  ASSUME Typed, WriterInv, NEW w \in Writers, Stage(w) \/ StageFails(w)
  PROVE  Typed'
<1>0. writer \in [Writers -> Thread]
  BY DEF Typed, Thread
<1>1. CASE CommitMeta(w)
  <2>1. writer' \in [Writers -> Thread]
    BY <1>1, <1>0, SetThread DEF CommitMeta, Go, Early
  <2>2. dir' \in Files /\ since' \subseteq Files /\ dir' \in since'
    BY <1>1, CommitMetaView, TypedParts DEF Files
  <2> QED BY <1>1, <2>1, <2>2, CommitMetaView, TypedFrame, TypedParts
          DEF MapsSame, WritesSame, SettledSame, LogSame, AllFlushers
<1>2. CASE SyncDir(w)
  <2>1. writer' \in [Writers -> Thread]
    BY <1>2, <1>0, SetThread DEF SyncDir, Go, Early
  <2> QED BY <1>2, <2>1, SyncDirView, TypedFrame, TypedParts
          DEF MapsSame, WritesSame, SettledSame, LogSame, AllFlushers
<1>3. CASE StageFails(w)
  <2>1. writer' \in [Writers -> Thread]
    BY <1>3, <1>0 DEF StageFails, Idle, Thread
  <2>2. faults' \in Faults
    BY <1>3, ErrorsCount DEF StageFails
  <2> QED BY <1>3, <2>1, <2>2, StageFailsView, TypedFrame, TypedParts
          DEF DirSame, MapsSame, WritesSame, SettledSame, LogSame, AllFlushers
<1>4. CASE Insert(w)
  <2>1. PICK g \in Known :
           /\ writer[w].gen = {g} /\ writer[w].pc = "insert" /\ g.obj \in Objects
           /\ pending'[g.obj] = {g} /\ failed'[g.obj] = {} /\ inflight' = inflight
           /\ \A o \in Objects : o # g.obj => pending'[o] = pending[o] /\ failed'[o] = failed[o]
           /\ DOMAIN pending' = Objects /\ DOMAIN failed' = Objects
           /\ queue' = IF pending[g.obj] = {} THEN Append(queue, g.obj) ELSE queue
           /\ lost' = (lost \ Covered(g)) \cup Overtaken(g)
           /\ DirSame /\ WritesSame /\ SettledSame /\ recovered' = recovered /\ AllFlushers
           /\ running' = running /\ nextSeq' = nextSeq
           /\ attempts' = attempts /\ origin' = origin /\ faults' = faults
    BY <1>4, InsertView
  <2>2. PICK o \in Objects : o = g.obj
    BY <2>1
  <2>3. /\ pending' = [pending EXCEPT ![o] = {g}]
        /\ failed' = [failed EXCEPT ![o] = {}]
        /\ writer' = [writer EXCEPT ![w].pc = "drop", ![w].old = pending[o] \cup failed[o]]
    BY <1>4, <2>1, <2>2 DEF Insert
  <2>4. pending' \in Map /\ failed' \in Map
    BY <2>3 DEF Typed, Map
  <2>5. pending[o] \cup failed[o] \in SUBSET Known
    BY DEF Typed
  <2>6. writer' \in [Writers -> Thread]
    <3>1. [writer[w] EXCEPT !.pc = "drop", !.old = pending[o] \cup failed[o]] \in Thread
      BY <1>0, <2>5 DEF Thread
    <3> QED BY <1>0, <2>3, <3>1 DEF Thread
  <2>7. queue' \in Seq(Objects)
    BY <2>1 DEF Typed
  <2>8. Overtaken(g) \in Some
    <3>1. Placed \subseteq 1..begun
      <4>1. ASSUME NEW v \in Writers PROVE Bodies(writer[v].gen) \subseteq 1..begun
        <5>1. writer[v].gen \subseteq Known /\ begun \in Nat
          BY DEF Typed
        <5> QED BY <5>1, KnownFields DEF Bodies
      <4>2. UNION {Bodies(writer[v].gen) : v \in {u \in Writers : Now(u, "drop")}} \subseteq 1..begun
        BY <4>1, Zenon
      <4>3. acked \subseteq 1..begun
        BY DEF Typed
      <4> QED BY <4>2, <4>3 DEF Placed
    <3>2. Overtaken(g) \subseteq Placed
      BY DEF Overtaken
    <3> QED BY <3>1, <3>2 DEF Some
  <2>9. lost' \in Some
    BY <2>1, <2>8 DEF Some, Typed
  <2> QED BY <2>1, <2>4, <2>6, <2>7, <2>9, TypedFrame, TypedParts
          DEF DirSame, WritesSame, SettledSame, AllFlushers
<1>5. CASE Drop(w)
  <2>1. writer' \in [Writers -> Thread]
    BY <1>5, <1>0 DEF Drop, Thread
  <2>2. dir' \in Files /\ since' \subseteq Files /\ dir' \in since'
    BY <1>5, DropView, SinceGrows
  <2> QED BY <1>5, <2>1, <2>2, DropView, TypedFrame, TypedParts
          DEF MapsSame, WritesSame, SettledSame, LogSame, AllFlushers
<1>6. CASE Acknowledge(w)
  <2>1. writer' \in [Writers -> Thread]
    BY <1>6, <1>0 DEF Acknowledge, Idle, Thread
  <2>2. PICK g \in Known :
           /\ acked' = acked \cup {g.body}
           /\ DirSame /\ MapsSame /\ SettledSame /\ LogSame /\ AllFlushers
           /\ begun' = begun /\ call' = call
           /\ running' = running /\ nextSeq' = nextSeq
           /\ queue' = queue /\ attempts' = attempts /\ origin' = origin /\ faults' = faults
    BY <1>6, AcknowledgeView
  <2>3. acked' \in Some
    <3>1. g.body \in 1..begun
      BY DEF Known
    <3> QED BY <2>2, <3>1 DEF Typed, Some
  <2> QED BY <2>1, <2>2, <2>3, TypedFrame, TypedParts
          DEF DirSame, MapsSame, SettledSame, LogSame, AllFlushers
<1> QED BY <1>1, <1>2, <1>3, <1>4, <1>5, <1>6 DEF Stage, Some

(* The steps of an upload keep the types.                                  *)
LEMMA TypedFlushers ==
  ASSUME Typed, MapInv, FlusherInv, NEW f \in Flushers,
         Flush(f) \/ TakeNone(f) \/ ReadFails(f) \/ PutFails(f)
  PROVE  Typed'
<1>0. flusher \in [Flushers -> Task]
  BY DEF Typed, Task
<1>1. CASE Take(f)
  <2>1. PICK o \in Objects :
           /\ inflight'[o] = pending[o] /\ pending'[o] = {} /\ failed' = failed
           /\ \A p \in Objects : p # o => pending'[p] = pending[p] /\ inflight'[p] = inflight[p]
           /\ DOMAIN pending' = Objects /\ DOMAIN inflight' = Objects
           /\ FlusherIs(f, "read", pending[o]) /\ flusher'[f].ok = FALSE
           /\ queue' \in Seq(Objects)
           /\ DirSame /\ WritesSame /\ SettledSame /\ LogSame /\ AllWriters
           /\ running' = running /\ nextSeq' = nextSeq
           /\ attempts' = attempts /\ origin' = origin /\ faults' = faults
    BY <1>1, TakeView
  <2>2. \E x : flusher' = [flusher EXCEPT ![f] = [pc |-> "read", gen |-> x, ok |-> FALSE]]
    BY <1>1 DEF Take
  <2>3. flusher' = [flusher EXCEPT ![f] = [pc |-> "read", gen |-> pending[o], ok |-> FALSE]]
    BY <1>0, <2>1, <2>2 DEF FlusherIs
  <2>4. flusher' \in [Flushers -> Task]
    <3>1. pending[o] \subseteq Known
      BY DEF Typed
    <3> QED BY <1>0, <2>3, <3>1 DEF Busy, Task
  <2>5. \A p \in Objects : pending'[p] \subseteq Known /\ inflight'[p] \subseteq Known
    BY <2>1 DEF Typed
  <2>6. pending' \in Map /\ inflight' \in Map
    <3>1. /\ pending' = [p \in Objects |-> pending'[p]]
          /\ inflight' = [p \in Objects |-> inflight'[p]]
      BY <1>1 DEF Take, Typed
    <3> QED BY <2>5, <3>1 DEF Map
  <2> QED BY <2>1, <2>4, <2>6, TypedFrame, TypedParts
          DEF DirSame, WritesSame, SettledSame, LogSame, AllWriters
<1>2. CASE TakeNone(f)
  BY <1>2, TakeNoneView, TypedFrame, TypedParts
     DEF MapsSame, DirSame, WritesSame, SettledSame, LogSame, AllWriters, AllFlushers
<1>3. CASE ReadStaged(f)
  <2>1. flusher' \in [Flushers -> Task]
    BY <1>3, <1>0, SetTask DEF ReadStaged, Turn, Busy
  <2> QED BY <1>3, <2>1, ReadStagedView, TypedFrame, TypedParts
          DEF MapsSame, DirSame, WritesSame, SettledSame, LogSame, AllWriters
<1>4. CASE ReadFails(f)
  <2>1. flusher' \in [Flushers -> Task]
    BY <1>4, <1>0 DEF ReadFails, Turn, Task
  <2>2. PICK g \in Known :
           /\ dropped' = dropped \cup {g.body} /\ delivered' = delivered
           /\ DirSame /\ WritesSame /\ LogSame /\ AllWriters
           /\ running' = running /\ nextSeq' = nextSeq
           /\ queue' = queue /\ attempts' = attempts /\ origin' = origin
    BY <1>4, ReadFailsView
  <2>3. faults' \in Faults
    <3>1. faults' = faults \/ (faults.errors < MaxErrors /\ faults' = [faults EXCEPT !.errors = @ + 1])
      BY <1>4 DEF ReadFails
    <3> QED BY <3>1, ErrorsCount, TypedParts
  <2>4. dropped' \in Some
    <3>1. g.body \in 1..begun
      BY DEF Known
    <3> QED BY <2>2, <3>1 DEF Typed, Some
  <2>5. /\ inflight' = [o \in Objects |-> inflight[o] \ flusher[f].gen]
        /\ pending' = pending /\ failed' = failed
    BY <1>4 DEF ReadFails
  <2>6. inflight' \in Map
    BY <2>5 DEF Typed, Map
  <2> QED BY <2>1, <2>2, <2>3, <2>4, <2>5, <2>6, TypedFrame, TypedParts
          DEF DirSame, WritesSame, LogSame, AllWriters
<1>5. CASE PutOk(f) \/ PutFails(f)
  <2>1. flusher' \in [Flushers -> Task]
    <3>1. CASE PutOk(f)
      BY <3>1, <1>0, SetTask DEF PutOk, Busy
    <3>2. CASE PutFails(f)
      BY <3>2, <1>0, SetTask DEF PutFails, Turn, Busy
    <3> QED BY <1>5, <3>1, <3>2
  <2>2. PICK g \in Known :
           /\ Landed(g) \/ (origin' = origin /\ delivered' = delivered)
           /\ MapsSame /\ DirSame /\ WritesSame /\ LogSame /\ AllWriters /\ dropped' = dropped
           /\ running' = running /\ nextSeq' = nextSeq
           /\ queue' = queue /\ attempts' = attempts
    BY <1>5, PutOkView, PutFailsView
  <2>3. faults' \in Faults
    <3>1. faults' = faults \/ (faults.errors < MaxErrors /\ faults' = [faults EXCEPT !.errors = @ + 1])
      BY <1>5 DEF PutOk, PutFails
    <3> QED BY <3>1, ErrorsCount, TypedParts
  <2>4. delivered' \in Some /\ origin' \in [Objects -> 0..begun]
    <3>1. g.obj \in Objects /\ g.body \in 1..begun /\ g.body \in 0..begun
      BY DEF Known, Typed
    <3>2. CASE origin' = origin /\ delivered' = delivered
      BY <3>2 DEF Typed, Some
    <3>3. CASE Landed(g)
      <4>1. \A o \in Objects : origin'[o] \in 0..begun
        BY <3>1, <3>3 DEF Landed, Typed
      <4>2. origin' = [o \in Objects |-> origin'[o]]
        <5>1. Upload(f) \/ origin' = origin
          BY <1>5 DEF PutOk, PutFails
        <5>2. CASE Upload(f)
          <6>1. PICK h \in flusher[f].gen : origin' = [origin EXCEPT ![h.obj] = h.body]
            BY <5>2 DEF Upload
          <6> QED BY <6>1 DEF Typed
        <5>3. CASE origin' = origin
          BY <5>3 DEF Typed
        <5> QED BY <5>1, <5>2, <5>3
      <4>3. origin' \in [Objects -> 0..begun]
        BY <4>1, <4>2
      <4> QED BY <3>1, <3>3, <4>3 DEF Landed, Typed, Some
    <3> QED BY <2>2, <3>2, <3>3
  <2> QED BY <2>1, <2>2, <2>3, <2>4, TypedFrame, TypedParts
          DEF MapsSame, DirSame, WritesSame, LogSame, AllWriters
<1>6. CASE Complete(f)
  <2>1. flusher' \in [Flushers -> Task]
    BY <1>6, <1>0 DEF Complete, Turn, Task
  <2>2. /\ inflight' = [o \in Objects |-> inflight[o] \ flusher[f].gen]
        /\ pending' = pending /\ failed' = failed
    BY <1>6 DEF Complete
  <2>3. inflight' \in Map
    BY <2>2 DEF Typed, Map
  <2>4. PICK g \in Known :
           /\ DirSame /\ WritesSame /\ SettledSame /\ LogSame /\ AllWriters
           /\ running' = running /\ nextSeq' = nextSeq
           /\ queue' = queue /\ attempts' = attempts /\ origin' = origin /\ faults' = faults
    BY <1>6, CompleteView
  <2> QED BY <2>1, <2>2, <2>3, <2>4, TypedFrame, TypedParts
          DEF DirSame, WritesSame, SettledSame, LogSame, AllWriters
<1>7. CASE Requeue(f) \/ ParkFailed(f)
  <2>1. PICK g \in Known : Ended(f, g)
    BY <1>7, RequeueView, ParkFailedView
  <2>2. g.obj \in Objects
    BY <2>1 DEF Ended
  <2>3. flusher' \in [Flushers -> Task]
    <3>1. flusher' = [flusher EXCEPT ![f].pc = "drop"] \/ flusher' = [flusher EXCEPT ![f] = Rest]
      BY <1>7 DEF Requeue, ParkFailed, Turn
    <3>2. /\ [flusher EXCEPT ![f].pc = "drop"] \in [Flushers -> Task]
          /\ [flusher EXCEPT ![f] = Rest] \in [Flushers -> Task]
      BY <1>0, SetTask
    <3> QED BY <3>1, <3>2, Zenon
  <2>4. /\ inflight' = [inflight EXCEPT ![g.obj] = {}]
        /\ pending' = pending \/ pending' = [pending EXCEPT ![g.obj] = {g}]
        /\ failed' = failed \/ failed' = [failed EXCEPT ![g.obj] = {g}]
        /\ queue' = queue \/ queue' = Append(queue, g.obj)
    BY <1>7, <2>1 DEF Ended, Requeue, ParkFailed
  <2>5. inflight' \in Map
    BY <2>4 DEF Typed, Map
  <2>6. pending' \in Map
    <3>1. CASE pending' = pending
      BY <3>1, TypedParts
    <3>2. CASE pending' = [pending EXCEPT ![g.obj] = {g}]
      BY <2>2, <3>2 DEF Typed, Map
    <3> QED BY <2>4, <3>1, <3>2
  <2>7. failed' \in Map
    BY <2>4 DEF Typed, Map
  <2>8. queue' \in Seq(Objects)
    <3>1. queue \in Seq(Objects) /\ Append(queue, g.obj) \in Seq(Objects)
      BY <2>2, TypedParts
    <3> QED BY <2>4, <3>1, Zenon
  <2> QED BY <2>1, <2>3, <2>5, <2>6, <2>7, <2>8, TypedFrame, TypedParts
          DEF Ended, Tries, DirSame, WritesSame, SettledSame, LogSame, AllWriters
<1>8. CASE Retire(f)
  <2>1. flusher' \in [Flushers -> Task]
    BY <1>8, <1>0 DEF Retire, Rest, Task
  <2>2. dir' \in Files /\ since' \subseteq Files /\ dir' \in since'
    BY <1>8, RetireView, SinceGrows
  <2> QED BY <1>8, <2>1, <2>2, RetireView, TypedFrame, TypedParts
          DEF Tries, MapsSame, WritesSame, SettledSame, LogSame, AllWriters
<1> QED BY <1>1, <1>2, <1>3, <1>4, <1>5, <1>6, <1>7, <1>8 DEF Flush

(* A re-arm, a crash, a power loss and a recovery keep the types.          *)
LEMMA TypedProcess ==
  ASSUME Typed, MapInv, RetryFailed \/ Crash \/ PowerLoss \/ Recover
  PROVE  Typed'
<1>1. CASE RetryFailed
  <2>1. PICK dead :
           /\ Removed(dead)
           /\ \A o \in Objects : pending'[o] =
                IF \E g \in failed[o] : ~Superseded(g) THEN failed[o] ELSE pending[o]
           /\ inflight' = inflight
           /\ queue' \in Seq(Objects)
           /\ WritesSame /\ SettledSame /\ LogSame /\ AllWriters /\ AllFlushers
           /\ running' = running /\ nextSeq' = nextSeq
           /\ attempts' = attempts /\ origin' = origin
    BY <1>1, RetryFailedView
  <2>2. dir' \in Files /\ since' \subseteq Files /\ dir' \in since'
    BY <2>1, SinceGrows
  <2>3. pending' = [o \in Objects |-> pending'[o]] /\ failed' = [o \in Objects |-> {}]
    BY <1>1 DEF RetryFailed
  <2>4. \A o \in Objects : pending'[o] \in SUBSET Known
    BY <2>1 DEF Typed
  <2>5. pending' \in Map /\ failed' \in Map
    BY <2>3, <2>4 DEF Map
  <2>6. faults' \in Faults
    BY <1>1, FaultsCount DEF RetryFailed
  <2> QED BY <2>1, <2>2, <2>5, <2>6, TypedFrame, TypedParts
          DEF WritesSame, SettledSame, LogSame, AllWriters, AllFlushers
<1>2. CASE Crash \/ PowerLoss
  <2>0. Stop
    BY <1>2 DEF Crash, PowerLoss
  <2>1. /\ writer' \in [Writers -> Thread]
        /\ flusher' \in [Flushers -> Task]
    BY <2>0 DEF Stop, Idle, Rest, Thread, Task
  <2>2. dir' \in Files /\ since' \subseteq Files /\ dir' \in since'
    BY <1>2 DEF Crash, PowerLoss, Typed, Files
  <2>3. /\ pending' \in Map /\ failed' \in Map
        /\ inflight' \in Map
    BY <2>0 DEF Stop, Map
  <2>4. faults' \in Faults
    <3>1. faults' = [faults EXCEPT !.crashes = @ + 1]
      BY <2>0 DEF Stop
    <3> QED BY <3>1, FaultsCount
  <2>5. attempts' \in Tries
    <3>1. 0 \in 0..(MaxAttempts - 1)
      BY BoundsAssumption
    <3> QED BY <2>0, <3>1 DEF Stop, Tries
  <2>6. queue' \in Seq(Objects) /\ running' \in BOOLEAN
    <3>1. queue' = <<>> /\ running' = FALSE
      BY <2>0 DEF Stop
    <3>2. <<>> \in Seq(Objects)
      OBVIOUS
    <3> QED BY <3>1, <3>2
  <2> QED BY <2>0, <2>1, <2>2, <2>3, <2>4, <2>5, <2>6, StopView, TypedFrame, TypedParts
          DEF WritesSame, SettledSame, LogSame
<1>3. CASE Recover
  <2>1. Newest(dir) \subseteq Known
    BY DEF Newest, Typed
  <2>2. pending' \in Map
    <3>1. pending' = [o \in Objects |-> {g \in Newest(dir) : g.obj = o}]
      BY <1>3 DEF Recover
    <3>2. \A o \in Objects : {g \in Newest(dir) : g.obj = o} \in SUBSET Known
      BY <2>1
    <3> QED BY <3>1, <3>2 DEF Map
  <2>3. recovered' \in Some
    <3>1. recovered' = {g.body : g \in Newest(dir)}
      BY <1>3, RecoverView
    <3>2. \A g \in Newest(dir) : g.body \in 1..begun
      BY <2>1 DEF Known
    <3> QED BY <3>1, <3>2 DEF Some
  <2>4. dir' \in Files /\ since' \subseteq Files /\ dir' \in since'
    BY <1>3, RecoverView DEF Typed, Files
  <2> QED BY <1>3, <2>2, <2>3, <2>4, RecoverView, TypedFrame, TypedParts
          DEF WritesSame, SettledSame, AllWriters, AllFlushers
<1> QED BY <1>1, <1>2, <1>3

----------------------------------------------------------------------------
(* The maps                                                                *)

(* Two of the newest generations of an object are one.                     *)
LEMMA OneNewest ==
  ASSUME Typed, DirInv, NEW d \in since, NEW g \in Newest(d), NEW h \in Newest(d), g.obj = h.obj
  PROVE  g = h
<1>1. g \in d.meta /\ h \in d.meta /\ g.seq <= h.seq /\ h.seq <= g.seq
  BY DEF Newest
<1>2. d.meta \subseteq Gens
  BY GensKnown DEF Typed
<1>3. g \in Gens /\ h \in Gens
  BY <1>1, <1>2
<1>4. g.seq \in Nat /\ h.seq \in Nat /\ g.body \in Nat /\ h.body \in Nat
  BY <1>3, GenFields
<1>5. g.seq = h.seq
  BY <1>1, <1>4
<1>6. InOrder(g, h) /\ InOrder(h, g)
  BY <1>1 DEF DirInv
<1>7. g.body = h.body
  BY <1>4, <1>5, <1>6 DEF InOrder
<1> QED BY <1>3, <1>5, <1>7, SameGen

(* A generation about to be inserted is not in flight.                     *)
LEMMA NotYetIn ==
  ASSUME Typed, FileInv, NEW w \in Writers, NEW g \in Known,
         writer[w].gen = {g}, writer[w].pc \in Early
  PROVE  ~Has(g) /\ ~Dying(g)
<1>1. g \in Gens
  BY GensKnown
<1>2. Upcoming(g)
  BY DEF Upcoming
<1> QED BY <1>1, <1>2 DEF FileInv

(* An insert leaves one generation per map: a new one was in none of them. *)
LEMMA MapsInsert ==
  ASSUME Typed, MapInv, WriterInv, FileInv, NEW w \in Writers, Insert(w)
  PROVE  MapInv'
<1>1. PICK g \in Known :
           /\ writer[w].gen = {g} /\ writer[w].pc = "insert" /\ g.obj \in Objects
           /\ pending'[g.obj] = {g} /\ failed'[g.obj] = {} /\ inflight' = inflight
           /\ \A o \in Objects : o # g.obj => pending'[o] = pending[o] /\ failed'[o] = failed[o]
  BY InsertView
<1>2. g \notin inflight[g.obj]
  BY <1>1, NotYetIn DEF Has, Early
<1> QED BY <1>1, <1>2 DEF MapInv

(* The steps of an upload leave one generation per map.                    *)
LEMMA MapsFlush ==
  ASSUME Typed, MapInv, FlusherInv, NEW f \in Flushers, Flush(f) \/ ReadFails(f)
  PROVE  MapInv'
<1>1. CASE Take(f)
  <2>1. PICK o \in Objects :
           /\ pending[o] # {} /\ inflight[o] = {}
           /\ inflight'[o] = pending[o] /\ pending'[o] = {} /\ failed' = failed
           /\ \A p \in Objects : p # o => pending'[p] = pending[p] /\ inflight'[p] = inflight[p]
    BY <1>1, TakeView
  <2>2. ASSUME NEW p \in Objects
        PROVE  /\ \A g \in pending'[p]  : g.obj = p /\ \A h \in pending'[p]  : h = g
               /\ \A g \in inflight'[p] : g.obj = p /\ \A h \in inflight'[p] : h = g
               /\ \A g \in inflight'[p] : g \notin pending'[p] /\ g \notin failed[p]
               /\ \A g \in pending'[p] : g \notin failed[p]
    <3>1. CASE p = o
      BY <2>1, <3>1 DEF MapInv
    <3>2. CASE p # o
      BY <2>1, <3>2 DEF MapInv
    <3> QED BY <3>1, <3>2
  <2> QED BY <2>1, <2>2 DEF MapInv
<1>2. CASE ReadStaged(f) \/ PutOk(f) \/ Retire(f)
  <2>1. MapsSame
    BY <1>2, ReadStagedView, PutOkView, RetireView
  <2> QED BY <2>1 DEF MapsSame, MapInv
<1>3. CASE Complete(f) \/ ReadFails(f)
  <2>1. PICK g \in Known : Taken(g)
    BY <1>3, CompleteView, ReadFailsView
  <2>2. g.obj \in Objects
    BY DEF Known
  <2> QED BY <2>1, <2>2 DEF Taken, MapInv
<1>4. CASE Requeue(f)
  <2>1. PICK g \in Known :
           /\ Ended(f, g) /\ failed' = failed
           /\ \/ pending' = pending
              \/ /\ pending'[g.obj] = {g}
                 /\ \A o \in Objects : o # g.obj => pending'[o] = pending[o]
    BY <1>4, RequeueView
  <2>2. /\ g.obj \in Objects /\ inflight[g.obj] = {g} /\ inflight'[g.obj] = {}
        /\ \A o \in Objects : o # g.obj => inflight'[o] = inflight[o]
    BY <2>1 DEF Ended
  <2> QED BY <2>1, <2>2 DEF MapInv
<1>5. CASE ParkFailed(f)
  <2>1. PICK g \in Known :
           /\ Ended(f, g) /\ pending' = pending
           /\ \/ failed' = failed
              \/ /\ failed'[g.obj] = {g}
                 /\ \A o \in Objects : o # g.obj => failed'[o] = failed[o]
    BY <1>5, ParkFailedView
  <2>2. /\ g.obj \in Objects /\ inflight[g.obj] = {g} /\ inflight'[g.obj] = {}
        /\ \A o \in Objects : o # g.obj => inflight'[o] = inflight[o]
    BY <2>1 DEF Ended
  <2> QED BY <2>1, <2>2 DEF MapInv
<1> QED BY <1>1, <1>2, <1>3, <1>4, <1>5 DEF Flush

(* Re-arms and recovery leave one generation per map.                      *)
LEMMA MapsProcess ==
  ASSUME Typed, MapInv, DirInv, DownInv, RetryFailed \/ Crash \/ PowerLoss \/ Recover
  PROVE  MapInv'
<1>1. CASE RetryFailed
  <2>1. /\ inflight' = inflight
        /\ \A o \in Objects : /\ pending'[o] = failed[o] \/ pending'[o] = pending[o]
                              /\ failed'[o] = {}
    BY <1>1, RetryFailedView
  <2> QED BY <2>1 DEF MapInv
<1>2. CASE Crash \/ PowerLoss
  <2>1. \A o \in Objects : pending'[o] = {} /\ inflight'[o] = {} /\ failed'[o] = {}
    BY <1>2, StopView DEF Crash, PowerLoss
  <2> QED BY <2>1 DEF MapInv
<1>3. CASE Recover
  <2>1. /\ ~running /\ inflight' = inflight /\ failed' = failed
        /\ \A o \in Objects : pending'[o] = {g \in Newest(dir) : g.obj = o}
    BY <1>3, RecoverView
  <2>2. \A o \in Objects : inflight'[o] = {} /\ failed'[o] = {}
    BY <2>1 DEF DownInv
  <2>3. \A g, h \in Newest(dir) : g.obj = h.obj => g = h
    BY OneNewest DEF Typed
  <2>4. ASSUME NEW o \in Objects
        PROVE  \A g \in pending'[o] : g.obj = o /\ \A h \in pending'[o] : h = g
    BY <2>1, <2>3
  <2> QED BY <2>2, <2>4 DEF MapInv
<1> QED BY <1>1, <1>2, <1>3

----------------------------------------------------------------------------
(* Threads                                                                 *)

(* Steps that leave the threads alone keep WriterInv.                      *)
LEMMA WriterFrame ==
  ASSUME WriterInv, writer' = writer, acked' = acked, begun' = begun
  PROVE  WriterInv'
BY KnownSame DEF WriterInv

(* The later steps of a stage call keep WriterInv.                         *)
LEMMA WriterMoves ==
  ASSUME Typed, WriterInv, NEW w \in Writers, Stage(w) \/ StageFails(w)
  PROVE  WriterInv'
<1> DEFINE Keeps == \E pc, old :
                      /\ pc \in {"sync", "insert", "drop"}
                      /\ WriterIs(w, pc, writer[w].gen, old) /\ writer[w].pc # "idle"
                      /\ pc # "drop" => old = {}
                      /\ acked' = acked /\ begun' = begun
           Leaves == WriterIs(w, "idle", {}, {}) /\ begun' = begun
<1>1. CASE CommitMeta(w) \/ SyncDir(w) \/ Insert(w) \/ Drop(w)
  <2>1. Keeps
    <3>1. CASE CommitMeta(w)
      <4>1. /\ WriterIs(w, "sync", writer[w].gen, writer[w].old) /\ writer[w].pc = "meta"
            /\ WritesSame
        BY <3>1, CommitMetaView
      <4> QED BY <4>1 DEF WriterInv, Early, WritesSame
    <3>2. CASE SyncDir(w)
      <4>1. /\ WriterIs(w, "insert", writer[w].gen, writer[w].old) /\ writer[w].pc = "sync"
            /\ WritesSame
        BY <3>2, SyncDirView
      <4> QED BY <4>1 DEF WriterInv, Early, WritesSame
    <3>3. CASE Insert(w)
      <4>1. /\ \E old : WriterIs(w, "drop", writer[w].gen, old)
            /\ writer[w].pc = "insert" /\ WritesSame
        BY <3>3, InsertView
      <4> QED BY <4>1 DEF WritesSame
    <3>4. CASE Drop(w)
      <4>1. /\ WriterIs(w, "drop", writer[w].gen, {}) /\ writer[w].pc = "drop" /\ WritesSame
        BY <3>4, DropView
      <4> QED BY <4>1 DEF WritesSame
    <3> QED BY <1>1, <3>1, <3>2, <3>3, <3>4
  <2>2. PICK pc, old :
          /\ pc \in {"sync", "insert", "drop"}
          /\ WriterIs(w, pc, writer[w].gen, old) /\ writer[w].pc # "idle"
          /\ pc # "drop" => old = {}
          /\ acked' = acked /\ begun' = begun
    BY <2>1
  <2>3. Known' = Known
    BY <2>2, KnownSame
  <2>4. \A v \in Writers : writer'[v].gen = writer[v].gen
    BY <2>2 DEF WriterIs
  <2>5. ASSUME NEW v \in Writers
        PROVE  /\ writer'[v].pc = "idle" => writer'[v].gen = {} /\ writer'[v].old = {}
               /\ writer'[v].pc # "idle" => \E g \in Known : writer'[v].gen = {g}
               /\ writer'[v].pc \in Early => writer'[v].old = {}
    <3>1. CASE v = w
      BY <2>2, <3>1 DEF WriterIs, WriterInv, Early
    <3>2. CASE v # w
      BY <2>2, <3>2 DEF WriterIs, WriterInv
    <3> QED BY <3>1, <3>2
  <2> QED BY <2>2, <2>3, <2>4, <2>5 DEF WriterInv
<1>2. CASE StageFails(w) \/ Acknowledge(w)
  <2>1. WriterIs(w, "idle", {}, {}) /\ begun' = begun
    BY <1>2, StageFailsView, AcknowledgeView DEF WritesSame
  <2>2. acked' = acked \/ \E g \in writer[w].gen : acked' = acked \cup {g.body}
    BY <1>2, StageFailsView, AcknowledgeView DEF WritesSame
  <2>3. Known' = Known
    BY <2>1, KnownSame
  <2>4. ASSUME NEW v \in Writers
        PROVE  /\ writer'[v].pc = "idle" => writer'[v].gen = {} /\ writer'[v].old = {}
               /\ writer'[v].pc # "idle" => \E g \in Known : writer'[v].gen = {g}
               /\ writer'[v].pc \in Early => writer'[v].old = {}
               /\ \A g \in writer'[v].gen : g.body \notin acked'
    <3>1. CASE v = w
      BY <2>1, <3>1 DEF WriterIs, Early
    <3>2. CASE v # w
      BY <2>1, <2>2, <3>2 DEF WriterIs, WriterInv
    <3> QED BY <3>1, <3>2
  <2>5. \A v \in Writers : writer'[v].gen = {} \/ writer'[v].gen = writer[v].gen
    BY <2>1 DEF WriterIs
  <2>6. ASSUME NEW u \in Writers, NEW v \in Writers,
               NEW g \in writer'[u].gen, NEW h \in writer'[v].gen, g.body = h.body
        PROVE  v = u
    <3>1. g \in writer[u].gen /\ h \in writer[v].gen
      BY <2>5
    <3> QED BY <2>6, <3>1 DEF WriterInv
  <2> QED BY <2>3, <2>4, <2>6 DEF WriterInv
<1> QED BY <1>1, <1>2 DEF Stage

(* A call that begins has a body that no other thread has.                 *)
LEMMA WriterBegins ==
  ASSUME Typed, WriterInv, NEW w \in Writers, NEW o \in Objects, Begin(w, o)
  PROVE  WriterInv'
<1>1. PICK g \in Gens :
           /\ g.obj = o /\ g.seq = nextSeq /\ g.body = begun + 1
           /\ begun' = begun + 1 /\ begun + 1 \in Writes /\ nextSeq' = nextSeq + 1
           /\ running /\ running' = running /\ writer[w].pc = "idle"
           /\ call'[begun + 1].obj = o /\ call'[begun + 1].after = acked
           /\ \A b \in Writes : b # begun + 1 => call'[b] = call[b]
           /\ DOMAIN call' = Writes
           /\ dir'.meta = dir.meta
           /\ \A h : h \in dir'.data <=> h = g \/ (h \in dir.data /\ ~SameName(g, h))
           /\ since' = since \cup {dir'}
           /\ DOMAIN dir' = {"data", "meta"}
           /\ dir' = [data |-> dir'.data, meta |-> dir'.meta]
           /\ WriterIs(w, "meta", {g}, {})
           /\ MapsSame /\ SettledSame /\ LogSame /\ AllFlushers
           /\ acked' = acked /\ queue' = queue /\ attempts' = attempts
           /\ origin' = origin /\ faults' = faults
  BY BeginView
<1>2. begun \in Nat /\ acked \subseteq 1..begun
  BY DEF Typed
<1>3. Known \subseteq Known' /\ g \in Known'
  <2>1. g = [obj |-> g.obj, seq |-> g.seq, body |-> g.body] /\ g.obj \in Objects
    BY DEF Gens
  <2>2. g.seq \in 1..begun' /\ g.body \in 1..begun' /\ 1..begun \subseteq 1..begun'
    BY <1>1, <1>2 DEF Typed
  <2> QED BY <2>1, <2>2 DEF Known
<1>4. \A v \in Writers : \A h \in writer[v].gen : h.body \in 1..begun
  BY DEF Typed, Known
<1>5. ASSUME NEW v \in Writers
      PROVE  /\ writer'[v].pc = "idle" => writer'[v].gen = {} /\ writer'[v].old = {}
             /\ writer'[v].pc # "idle" => \E h \in Known' : writer'[v].gen = {h}
             /\ writer'[v].pc \in Early => writer'[v].old = {}
             /\ \A h \in writer'[v].gen : h.body \notin acked
  <2>1. CASE v = w
    BY <1>1, <1>2, <1>3, <2>1 DEF WriterIs
  <2>2. CASE v # w
    BY <1>1, <1>3, <2>2 DEF WriterIs, WriterInv
  <2> QED BY <2>1, <2>2
<1>6. ASSUME NEW u \in Writers, NEW v \in Writers,
             NEW h \in writer'[u].gen, NEW i \in writer'[v].gen, h.body = i.body
      PROVE  v = u
  <2>1. u = w => h = g
    BY <1>1 DEF WriterIs
  <2>2. v = w => i = g
    BY <1>1 DEF WriterIs
  <2>3. u # w => h \in writer[u].gen
    BY <1>1 DEF WriterIs
  <2>4. v # w => i \in writer[v].gen
    BY <1>1 DEF WriterIs
  <2>5. CASE u = w /\ v # w
    BY <1>1, <1>2, <1>4, <1>6, <2>1, <2>4, <2>5
  <2>6. CASE u # w /\ v = w
    BY <1>1, <1>2, <1>4, <1>6, <2>2, <2>3, <2>6
  <2>7. CASE u # w /\ v # w
    BY <1>6, <2>3, <2>4, <2>7 DEF WriterInv
  <2> QED BY <2>5, <2>6, <2>7
<1> QED BY <1>1, <1>5, <1>6 DEF WriterInv

(* A crash empties the threads; the other process steps leave them alone.  *)
LEMMA WriterProcess ==
  ASSUME Typed, MapInv, WriterInv, RetryFailed \/ Crash \/ PowerLoss \/ Recover
  PROVE  WriterInv'
<1>1. CASE RetryFailed \/ Recover
  BY <1>1, RetryFailedView, RecoverView, WriterFrame DEF WritesSame, AllWriters
<1>2. CASE Crash \/ PowerLoss
  <2>1. \A w \in Writers : writer'[w].pc = "idle" /\ writer'[w].gen = {} /\ writer'[w].old = {}
    BY <1>2, StopView DEF Crash, PowerLoss
  <2> QED BY <2>1 DEF WriterInv, Early
<1> QED BY <1>1, <1>2

----------------------------------------------------------------------------
(* Tasks                                                                   *)

(* Generations stay known as stage calls begin.                            *)
LEMMA KnownGrows ==
  ASSUME Typed, begun' = begun \/ begun' = begun + 1
  PROVE  Known \subseteq Known'
<1>1. begun \in Nat
  BY DEF Typed
<1>2. 1..begun \subseteq 1..begun'
  BY <1>1
<1> QED BY <1>2 DEF Known

(* Steps that leave the uploads alone keep FlusherInv.                     *)
LEMMA FlusherFrame ==
  ASSUME FlusherInv, flusher' = flusher, inflight' = inflight, Known \subseteq Known',
         delivered \subseteq delivered'
  PROVE  FlusherInv'
BY DEF FlusherInv

(* A taken generation has one task, because its object had none in flight. *)
LEMMA FlusherTakes ==
  ASSUME Typed, MapInv, FlusherInv, NEW f \in Flushers, Take(f)
  PROVE  FlusherInv'
<1>1. PICK o \in Objects :
           /\ pending[o] # {} /\ inflight[o] = {}
           /\ inflight'[o] = pending[o]
           /\ \A p \in Objects : p # o => inflight'[p] = inflight[p]
           /\ flusher[f].pc = "idle" /\ FlusherIs(f, "read", pending[o])
           /\ WritesSame /\ SettledSame
  BY TakeView
<1>2. PICK g : g \in pending[o]
  BY <1>1
<1>3. g.obj = o /\ pending[o] = {g} /\ g \in Known
  BY <1>2 DEF MapInv, Typed
<1>4. Known' = Known /\ delivered' = delivered
  BY <1>1, KnownSame DEF WritesSame, SettledSame
<1>5. flusher'[f].pc = "read" /\ flusher'[f].gen = {g} /\ inflight'[o] = {g}
  BY <1>1, <1>3 DEF FlusherIs
<1>6. \A e \in Flushers : e # f => flusher'[e] = flusher[e]
  BY <1>1 DEF FlusherIs
<1>7. ASSUME NEW e \in Flushers, e # f, flusher[e].pc \in Busy, NEW h \in flusher[e].gen
      PROVE  h.obj # o /\ h.obj \in Objects /\ h \in inflight[h.obj] /\ h # g
  <2>1. h \in inflight[h.obj] /\ h \in Known
    BY <1>7 DEF FlusherInv, Typed
  <2>2. h.obj \in Objects
    BY <2>1 DEF Known
  <2> QED BY <1>1, <1>3, <2>1, <2>2
<1>8. ASSUME NEW e \in Flushers
      PROVE  /\ flusher'[e].pc = "idle" => flusher'[e].gen = {}
             /\ flusher'[e].pc # "idle" => \E h \in Known : flusher'[e].gen = {h}
             /\ flusher'[e].pc \in Busy => \A h \in flusher'[e].gen : h \in inflight'[h.obj]
             /\ flusher'[e].pc = "complete" => \A h \in flusher'[e].gen : h.body \in delivered
  <2>1. CASE e = f
    BY <1>3, <1>5, <2>1
  <2>2. CASE e # f
    <3>1. flusher'[e] = flusher[e]
      BY <1>6, <2>2
    <3>2. flusher[e].pc \in Busy => \A h \in flusher[e].gen : h \in inflight'[h.obj]
      BY <1>1, <1>7, <2>2
    <3> QED BY <3>1, <3>2 DEF FlusherInv
  <2> QED BY <2>1, <2>2
<1>9. ASSUME NEW e \in Flushers, NEW d \in Flushers, NEW h \in flusher'[e].gen,
             flusher'[e].pc \in Busy, flusher'[d].pc \in Busy, h \in flusher'[d].gen
      PROVE  d = e
  <2>1. CASE e = f /\ d # f
    <3>1. h = g
      BY <1>5, <1>9, <2>1
    <3>2. flusher'[d] = flusher[d]
      BY <1>6, <2>1
    <3> QED BY <1>7, <1>9, <2>1, <3>1, <3>2
  <2>2. CASE e # f /\ d = f
    <3>1. h = g
      BY <1>5, <1>9, <2>2
    <3>2. flusher'[e] = flusher[e]
      BY <1>6, <2>2
    <3> QED BY <1>7, <1>9, <2>2, <3>1, <3>2
  <2>3. CASE e # f /\ d # f
    <3>1. flusher'[e] = flusher[e] /\ flusher'[d] = flusher[d]
      BY <1>6, <2>3
    <3> QED BY <1>9, <3>1 DEF FlusherInv
  <2> QED BY <2>1, <2>2, <2>3
<1>10. ASSUME NEW p \in Objects, NEW h \in inflight'[p]
       PROVE  \E e \in Flushers : flusher'[e].pc \in Busy /\ h \in flusher'[e].gen
  <2>1. CASE p = o
    BY <1>5, <2>1 DEF Busy
  <2>2. CASE p # o
    <3>1. PICK e \in Flushers : flusher[e].pc \in Busy /\ h \in flusher[e].gen
      BY <1>1, <2>2 DEF FlusherInv
    <3>2. e # f
      BY <1>1, <3>1 DEF Busy
    <3> QED BY <1>6, <3>1, <3>2
  <2> QED BY <2>1, <2>2
<1> QED BY <1>4, <1>8, <1>9, <1>10 DEF FlusherInv

(* Reading and uploading keep a task's generation.                         *)
LEMMA FlusherKeeps ==
  ASSUME Typed, FlusherInv, NEW f \in Flushers, ReadStaged(f) \/ PutOk(f) \/ PutFails(f)
  PROVE  FlusherInv'
<1>1. PICK pc \in Busy :
        /\ FlusherIs(f, pc, flusher[f].gen) /\ flusher[f].pc \in Busy
        /\ inflight' = inflight /\ begun' = begun /\ delivered \subseteq delivered'
        /\ pc = "complete" => \A g \in flusher[f].gen : g.body \in delivered'
  <2>1. CASE ReadStaged(f)
    BY <2>1, ReadStagedView DEF MapsSame, WritesSame, SettledSame, Busy
  <2>2. CASE PutOk(f)
    <3>1. /\ FlusherIs(f, "complete", flusher[f].gen) /\ flusher[f].pc = "put"
          /\ delivered \subseteq delivered' /\ inflight' = inflight /\ begun' = begun
          /\ \A g \in flusher[f].gen : g.body \in delivered'
      <4>1. PICK g \in Known :
              /\ flusher[f].gen = {g} /\ flusher[f].pc = "put" /\ Landed(g)
              /\ FlusherIs(f, "complete", {g}) /\ MapsSame /\ WritesSame
        BY <2>2, PutOkView
      <4> QED BY <4>1 DEF Landed, MapsSame, WritesSame
    <3> QED BY <3>1 DEF Busy
  <2>3. CASE PutFails(f)
    <3>1. /\ FlusherIs(f, "fail", flusher[f].gen) /\ flusher[f].pc = "put"
          /\ delivered \subseteq delivered' /\ inflight' = inflight /\ begun' = begun
      BY <2>3, PutFailsView DEF Landed, MapsSame, WritesSame
    <3> QED BY <3>1 DEF Busy
  <2> QED BY <2>1, <2>2, <2>3
<1>2. Known' = Known
  BY <1>1, KnownSame
<1>3. /\ flusher'[f].pc = pc /\ \A e \in Flushers : flusher'[e].gen = flusher[e].gen
      /\ \A e \in Flushers : e # f => flusher'[e] = flusher[e]
  BY <1>1 DEF FlusherIs
<1>4. \A e \in Flushers : flusher'[e].pc \in Busy <=> flusher[e].pc \in Busy
  BY <1>1, <1>3
<1>5. ASSUME NEW e \in Flushers
      PROVE  /\ flusher'[e].pc = "idle" => flusher'[e].gen = {}
             /\ flusher'[e].pc # "idle" => \E h \in Known : flusher'[e].gen = {h}
             /\ flusher'[e].pc = "complete" => \A h \in flusher'[e].gen : h.body \in delivered'
  <2>1. CASE e = f
    BY <1>1, <1>3, <2>1 DEF FlusherInv, Busy
  <2>2. CASE e # f
    BY <1>1, <1>3, <2>2 DEF FlusherInv
  <2> QED BY <2>1, <2>2
<1> QED BY <1>1, <1>2, <1>3, <1>4, <1>5 DEF FlusherInv

(* The task lets go of its generation, which leaves the map of uploads.    *)
LEMMA FlusherEnds ==
  ASSUME Typed, MapInv, FlusherInv, NEW f \in Flushers,
         Complete(f) \/ ReadFails(f) \/ Requeue(f) \/ ParkFailed(f)
  PROVE  FlusherInv'
<1>1. PICK g \in Known :
        /\ flusher[f].gen = {g} /\ flusher[f].pc \in Busy
        /\ inflight'[g.obj] = {} /\ inflight[g.obj] = {g}
        /\ \A o \in Objects : o # g.obj => inflight'[o] = inflight[o]
        /\ FlusherIs(f, "drop", {g}) \/ FlusherIs(f, "idle", {})
        /\ begun' = begun /\ delivered' = delivered
  <2>1. CASE Complete(f)
    BY <2>1, CompleteView DEF Taken, WritesSame, SettledSame, Busy
  <2>2. CASE ReadFails(f)
    BY <2>2, ReadFailsView DEF Taken, WritesSame, Busy
  <2>3. CASE Requeue(f)
    BY <2>3, RequeueView DEF Ended, WritesSame, SettledSame, Busy
  <2>4. CASE ParkFailed(f)
    BY <2>4, ParkFailedView DEF Ended, WritesSame, SettledSame, Busy
  <2> QED BY <2>1, <2>2, <2>3, <2>4
<1>2. Known' = Known /\ g.obj \in Objects
  BY <1>1, KnownSame DEF Known
<1>3. /\ flusher'[f].pc \notin Busy
      /\ \/ flusher'[f].pc = "drop" /\ flusher'[f].gen = {g}
         \/ flusher'[f].pc = "idle" /\ flusher'[f].gen = {}
      /\ \A e \in Flushers : e # f => flusher'[e] = flusher[e]
  BY <1>1 DEF FlusherIs, Busy
<1>4. ASSUME NEW e \in Flushers, e # f, flusher[e].pc \in Busy, NEW h \in flusher[e].gen
      PROVE  h \in inflight'[h.obj]
  <2>1. h \in inflight[h.obj] /\ h \in Known
    BY <1>4 DEF FlusherInv, Typed
  <2>2. h.obj \in Objects
    BY <2>1 DEF Known
  <2>3. h # g
    BY <1>1, <1>4 DEF FlusherInv
  <2> QED BY <1>1, <2>1, <2>2, <2>3
<1>5. ASSUME NEW e \in Flushers
      PROVE  /\ flusher'[e].pc = "idle" => flusher'[e].gen = {}
             /\ flusher'[e].pc # "idle" => \E h \in Known : flusher'[e].gen = {h}
             /\ flusher'[e].pc \in Busy => \A h \in flusher'[e].gen : h \in inflight'[h.obj]
             /\ flusher'[e].pc = "complete" => \A h \in flusher'[e].gen : h.body \in delivered
  <2>1. CASE e = f
    BY <1>3, <2>1 DEF Busy
  <2>2. CASE e # f
    <3>1. flusher'[e] = flusher[e]
      BY <1>3, <2>2
    <3> QED BY <1>4, <2>2, <3>1 DEF FlusherInv
  <2> QED BY <2>1, <2>2
<1>6. ASSUME NEW e \in Flushers, NEW d \in Flushers, NEW h \in flusher'[e].gen,
             flusher'[e].pc \in Busy, flusher'[d].pc \in Busy, h \in flusher'[d].gen
      PROVE  d = e
  <2>1. e # f /\ d # f
    BY <1>3, <1>6
  <2>2. flusher'[e] = flusher[e] /\ flusher'[d] = flusher[d]
    BY <1>3, <2>1
  <2> QED BY <1>6, <2>2 DEF FlusherInv
<1>7. ASSUME NEW p \in Objects, NEW h \in inflight'[p]
      PROVE  \E e \in Flushers : flusher'[e].pc \in Busy /\ h \in flusher'[e].gen
  <2>1. p # g.obj /\ h \in inflight[p]
    BY <1>1
  <2>2. PICK e \in Flushers : flusher[e].pc \in Busy /\ h \in flusher[e].gen
    BY <2>1 DEF FlusherInv
  <2>3. h.obj = p
    BY <2>1 DEF MapInv
  <2>4. e # f
    BY <1>1, <2>1, <2>2, <2>3
  <2> QED BY <1>3, <2>2, <2>4
<1> QED BY <1>1, <1>2, <1>5, <1>6, <1>7 DEF FlusherInv

(* A task that has removed its files has no generation.                    *)
LEMMA FlusherRetires ==
  ASSUME Typed, FlusherInv, NEW f \in Flushers, Retire(f)
  PROVE  FlusherInv'
<1>1. /\ flusher[f].pc = "drop" /\ FlusherIs(f, "idle", {}) /\ inflight' = inflight
      /\ begun' = begun /\ delivered' = delivered
  BY RetireView DEF MapsSame, WritesSame, SettledSame
<1>2. Known' = Known
  BY <1>1, KnownSame
<1>3. /\ flusher'[f].pc = "idle" /\ flusher'[f].gen = {}
      /\ \A e \in Flushers : e # f => flusher'[e] = flusher[e]
  BY <1>1 DEF FlusherIs
<1>4. ASSUME NEW e \in Flushers
      PROVE  /\ flusher'[e].pc = "idle" => flusher'[e].gen = {}
             /\ flusher'[e].pc # "idle" => \E h \in Known : flusher'[e].gen = {h}
             /\ flusher'[e].pc \in Busy => \A h \in flusher'[e].gen : h \in inflight[h.obj]
             /\ flusher'[e].pc = "complete" => \A h \in flusher'[e].gen : h.body \in delivered
  <2>1. CASE e = f
    BY <1>3, <2>1 DEF Busy
  <2>2. CASE e # f
    BY <1>3, <2>2 DEF FlusherInv
  <2> QED BY <2>1, <2>2
<1>5. ASSUME NEW e \in Flushers, NEW d \in Flushers, NEW h \in flusher'[e].gen,
             flusher'[e].pc \in Busy, flusher'[d].pc \in Busy, h \in flusher'[d].gen
      PROVE  d = e
  <2>1. e # f /\ d # f
    BY <1>3, <1>5
  <2> QED BY <1>3, <1>5, <2>1 DEF FlusherInv
<1>6. ASSUME NEW p \in Objects, NEW h \in inflight[p]
      PROVE  \E e \in Flushers : flusher'[e].pc \in Busy /\ h \in flusher'[e].gen
  <2>1. PICK e \in Flushers : flusher[e].pc \in Busy /\ h \in flusher[e].gen
    BY DEF FlusherInv
  <2>2. e # f
    BY <1>1, <2>1 DEF Busy
  <2> QED BY <1>3, <2>1, <2>2
<1> QED BY <1>1, <1>2, <1>4, <1>5, <1>6 DEF FlusherInv

(* A crash empties the tasks; the other process steps leave them alone.    *)
LEMMA FlusherProcess ==
  ASSUME Typed, MapInv, FlusherInv, RetryFailed \/ Crash \/ PowerLoss \/ Recover
  PROVE  FlusherInv'
<1>1. CASE RetryFailed \/ Recover
  <2>1. flusher' = flusher /\ inflight' = inflight /\ begun' = begun /\ delivered' = delivered
    BY <1>1, RetryFailedView, RecoverView DEF WritesSame, SettledSame, AllFlushers
  <2> QED BY <2>1, FlusherFrame, KnownSame
<1>2. CASE Crash \/ PowerLoss
  <2>1. /\ \A f \in Flushers : flusher'[f].pc = "idle" /\ flusher'[f].gen = {}
        /\ \A o \in Objects : inflight'[o] = {}
    BY <1>2, StopView DEF Crash, PowerLoss
  <2> QED BY <2>1 DEF FlusherInv, Busy
<1> QED BY <1>1, <1>2

----------------------------------------------------------------------------
(* A process that is down, the queue, and what calls know                  *)

(* Only a crash, a power loss and a recovery stop or start the process.    *)
LEMMA StepRunning ==
  ASSUME Typed, MapInv, WriterInv, FlusherInv, DownInv, Next
  PROVE  \/ running /\ running' = running
         \/ Crash \/ PowerLoss
         \/ Recover
<1>1. ASSUME NEW w \in Writers, Stage(w) \/ StageFails(w)
      PROVE  running /\ running' = running
  <2>1. writer[w].pc # "idle" /\ running' = running
    <3>1. CASE CommitMeta(w)
      BY <3>1, CommitMetaView
    <3>2. CASE SyncDir(w)
      BY <3>2, SyncDirView
    <3>3. CASE Insert(w)
      BY <3>3, InsertView
    <3>4. CASE Drop(w)
      BY <3>4, DropView
    <3>5. CASE Acknowledge(w)
      BY <3>5, AcknowledgeView
    <3>6. CASE StageFails(w)
      BY <3>6, StageFailsView
    <3> QED BY <1>1, <3>1, <3>2, <3>3, <3>4, <3>5, <3>6 DEF Stage
  <2> QED BY <2>1 DEF DownInv, Typed
<1>2. ASSUME NEW w \in Writers, NEW o \in Objects, Begin(w, o)
      PROVE  running /\ running' = running
  BY <1>2 DEF Begin
<1>3. ASSUME NEW f \in Flushers, Flush(f) \/ TakeNone(f) \/ ReadFails(f) \/ PutFails(f)
      PROVE  running /\ running' = running
  <2>1. CASE Take(f) \/ TakeNone(f)
    BY <2>1 DEF Take, TakeNone
  <2>2. CASE ~(Take(f) \/ TakeNone(f))
    <3>1. flusher[f].pc # "idle" /\ running' = running
      BY <1>3, <2>2 DEF Flush, ReadStaged, PutOk, Complete, Requeue, ParkFailed, Retire,
                        ReadFails, PutFails, Doing
    <3> QED BY <3>1 DEF DownInv, Typed
  <2> QED BY <2>1, <2>2
<1>4. RetryFailed => running /\ running' = running
  BY DEF RetryFailed
<1> QED BY <1>1, <1>2, <1>3, <1>4 DEF Next

(* Every step leaves a process that is down with nothing in memory.        *)
LEMMA DownStep ==
  ASSUME Typed, MapInv, WriterInv, FlusherInv, DownInv, Next
  PROVE  DownInv'
<1>1. CASE running /\ running' = running
  BY <1>1 DEF DownInv
<1>2. CASE Crash \/ PowerLoss
  BY <1>2, StopView DEF Crash, PowerLoss, DownInv
<1>3. CASE Recover
  BY <1>3, RecoverView DEF DownInv
<1> QED BY <1>1, <1>2, <1>3, StepRunning

(* Acknowledging keeps CallInv: the earlier calls are as they were.        *)
LEMMA CallFrame ==
  ASSUME CallInv, call' = call, acked \subseteq acked'
  PROVE  CallInv'
BY DEF CallInv

(* What is acknowledged when a call begins was begun before it.            *)
LEMMA CallBegins ==
  ASSUME Typed, CallInv, NEW w \in Writers, NEW o \in Objects, Begin(w, o)
  PROVE  CallInv'
<1>1. /\ call'[begun + 1].after = acked /\ acked' = acked
      /\ \A b \in Writes : b # begun + 1 => call'[b] = call[b]
  BY BeginView
<1>2. begun \in Nat /\ acked \subseteq 1..begun
  BY DEF Typed
<1>3. ASSUME NEW b \in Writes, NEW a \in call'[b].after
      PROVE  a \in acked /\ a < b
  <2>1. CASE b = begun + 1
    <3>1. a \in acked
      BY <1>1, <1>3, <2>1
    <3> QED BY <1>2, <2>1, <3>1
  <2>2. CASE b # begun + 1
    BY <1>1, <2>2 DEF CallInv
  <2> QED BY <2>1, <2>2
<1> QED BY <1>1, <1>3 DEF CallInv

(* Steps that leave the queue and what waits alone keep QueueInv.          *)
LEMMA QueueFrame ==
  ASSUME QueueInv, pending' = pending, queue' = queue
  PROVE  QueueInv'
BY DEF QueueInv

(* Appending puts an object in the queue and keeps the others there.       *)
LEMMA Appended ==
  ASSUME Typed, NEW o \in Objects, queue' = Append(queue, o)
  PROVE  /\ \E i \in 1..Len(queue') : queue'[i] = o
         /\ \A p \in Objects : (\E i \in 1..Len(queue) : queue[i] = p) =>
              \E i \in 1..Len(queue') : queue'[i] = p
<1>1. queue \in Seq(Objects)
  BY DEF Typed
<1>2. PICK l \in Nat : l = Len(queue)
  BY <1>1, LenProperties
<1>3. /\ Len(queue') = l + 1 /\ queue'[l + 1] = o
      /\ \A i \in 1..l : queue'[i] = queue[i]
  BY <1>1, <1>2
<1>4. l + 1 \in 1..(l + 1) /\ \A i \in 1..l : i \in 1..(l + 1)
  BY <1>2
<1> QED BY <1>2, <1>3, <1>4

(* An insert queues its object unless it waits, and so is queued, already. *)
LEMMA QueueInsert ==
  ASSUME Typed, WriterInv, QueueInv, NEW w \in Writers, Insert(w)
  PROVE  QueueInv'
<1>1. PICK g \in Known :
           /\ g.obj \in Objects
           /\ \A o \in Objects : o # g.obj => pending'[o] = pending[o]
           /\ queue' = IF pending[g.obj] = {} THEN Append(queue, g.obj) ELSE queue
  BY InsertView
<1>2. CASE pending[g.obj] = {}
  <2>1. queue' = Append(queue, g.obj)
    BY <1>1, <1>2
  <2> QED BY <1>1, <2>1, Appended DEF QueueInv
<1>3. CASE pending[g.obj] # {}
  BY <1>1, <1>3 DEF QueueInv
<1> QED BY <1>2, <1>3

(* take_next and a requeue keep every object that waits in the queue.      *)
LEMMA QueueFlush ==
  ASSUME Typed, MapInv, FlusherInv, QueueInv, NEW f \in Flushers,
         Flush(f) \/ TakeNone(f) \/ ReadFails(f) \/ PutFails(f)
  PROVE  QueueInv'
<1>1. CASE Take(f)
  <2>1. PICK o \in Objects :
           /\ pending[o] # {} /\ inflight[o] = {}
           /\ inflight'[o] = pending[o] /\ pending'[o] = {} /\ failed' = failed
           /\ \A p \in Objects : p # o => pending'[p] = pending[p] /\ inflight'[p] = inflight[p]
           /\ DOMAIN pending' = Objects /\ DOMAIN inflight' = Objects
           /\ flusher[f].pc = "idle" /\ FlusherIs(f, "read", pending[o]) /\ flusher'[f].ok = FALSE
           /\ queue' \in Seq(Objects)
           /\ \A p \in Objects : (\E i \in 1..Len(queue) : queue[i] = p) /\ pending[p] # {} =>
                p = o \/ \E i \in 1..Len(queue') : queue'[i] = p
           /\ DirSame /\ WritesSame /\ SettledSame /\ LogSame /\ AllWriters
           /\ running /\ running' = running /\ nextSeq' = nextSeq
           /\ attempts' = attempts /\ origin' = origin /\ faults' = faults
    BY <1>1, TakeView
  <2> QED BY <2>1 DEF QueueInv
<1>2. CASE TakeNone(f)
  BY <1>2, TakeNoneView DEF QueueInv, MapsSame
<1>3. CASE ReadStaged(f) \/ Complete(f) \/ PutOk(f) \/ Retire(f) \/ ReadFails(f) \/ PutFails(f)
           \/ ParkFailed(f)
  <2>1. pending' = pending /\ queue' = queue
    BY <1>3 DEF ReadStaged, Complete, PutOk, Retire, ReadFails, PutFails, ParkFailed, memory
  <2> QED BY <2>1, QueueFrame
<1>4. CASE Requeue(f)
  <2>1. PICK g \in Known :
           /\ g.obj \in Objects
           /\ \/ pending' = pending /\ queue' = queue
              \/ /\ \A o \in Objects : o # g.obj => pending'[o] = pending[o]
                 /\ queue' = Append(queue, g.obj)
    BY <1>4, RequeueView DEF Ended
  <2>2. CASE queue' = Append(queue, g.obj) /\ \A o \in Objects : o # g.obj => pending'[o] = pending[o]
    BY <2>1, <2>2, Appended DEF QueueInv
  <2> QED BY <2>1, <2>2, QueueFrame
<1> QED BY <1>1, <1>2, <1>3, <1>4 DEF Flush

(* retry_failed and recovery queue every object they make wait.            *)
LEMMA QueueProcess ==
  ASSUME Typed, MapInv, QueueInv, RetryFailed \/ Crash \/ PowerLoss \/ Recover
  PROVE  QueueInv'
<1>1. CASE RetryFailed
  <2>1. /\ \A o \in Objects : pending'[o] =
                IF \E g \in failed[o] : ~Superseded(g) THEN failed[o] ELSE pending[o]
        /\ \A o \in Objects :
                (\E i \in 1..Len(queue) : queue[i] = o) \/ (\E g \in failed[o] : ~Superseded(g)) =>
                  \E i \in 1..Len(queue') : queue'[i] = o
    BY <1>1, RetryFailedView
  <2> QED BY <2>1 DEF QueueInv
<1>2. CASE Crash \/ PowerLoss
  BY <1>2, StopView DEF Crash, PowerLoss, QueueInv
<1>3. CASE Recover
  BY <1>3, RecoverView DEF QueueInv
<1> QED BY <1>1, <1>2, <1>3

----------------------------------------------------------------------------
(* Directories                                                             *)

GoodDir(d) ==
  /\ d.meta \subseteq d.data
  /\ \A g \in d.data : call[g.body].obj = g.obj
  /\ \A g, h \in d.meta : InOrder(g, h)

(* Directories that are good, or were there, keep DirInv.                  *)
LEMMA DirFrame ==
  ASSUME DirInv, call' = call, \A d \in since' : d \in since \/ GoodDir(d)
  PROVE  DirInv'
BY DEF DirInv, GoodDir

(* The present directory is one a power loss may leave.                    *)
LEMMA GoodNow == ASSUME Typed, DirInv PROVE GoodDir(dir)
BY DEF Typed, DirInv, GoodDir

(* Fewer files, each sidecar with its body, are a good directory.          *)
LEMMA GoodLess ==
  ASSUME NEW d, NEW e, GoodDir(d), e.meta \subseteq d.meta, e.data \subseteq d.data,
         e.meta \subseteq e.data
  PROVE  GoodDir(e)
BY DEF GoodDir

(* Removing sidecars before bodies leaves no sidecar without its body.     *)
LEMMA DirRemove ==
  ASSUME Typed, DirInv, NEW gens, Removed(gens), call' = call
  PROVE  DirInv'
<1>1. /\ dir'.meta = dir.meta \ gens /\ dir'.data = dir.data \ gens
      /\ \E half : /\ half.meta = dir.meta \ gens /\ half.data = dir.data
                   /\ since' = since \cup {half, dir'}
  BY DEF Removed
<1>2. PICK half : /\ half.meta = dir.meta \ gens /\ half.data = dir.data
                  /\ since' = since \cup {half, dir'}
  BY <1>1
<1>3. GoodDir(dir) /\ dir.meta \subseteq dir.data
  BY GoodNow DEF GoodDir
<1>4. GoodDir(half)
  BY <1>2, <1>3, GoodLess
<1>5. PICK now : now = dir'
  OBVIOUS
<1>6. GoodDir(now)
  <2>1. now.meta = dir.meta \ gens /\ now.data = dir.data \ gens
    BY <1>1, <1>5
  <2> QED BY <1>3, <2>1, GoodLess
<1>7. \A d \in since' : d \in since \/ GoodDir(d)
  BY <1>2, <1>4, <1>5, <1>6
<1> QED BY <1>7, DirFrame

(* A new body takes a name no sidecar has.                                 *)
LEMMA DirBegins ==
  ASSUME Typed, DirInv, NumberInv, NEW w \in Writers, NEW o \in Objects, Begin(w, o)
  PROVE  DirInv'
<1>1. PICK g \in Gens :
           /\ g.obj = o /\ g.seq = nextSeq /\ g.body = begun + 1
           /\ begun' = begun + 1 /\ begun + 1 \in Writes /\ nextSeq' = nextSeq + 1
           /\ running /\ running' = running /\ writer[w].pc = "idle"
           /\ call'[begun + 1].obj = o /\ call'[begun + 1].after = acked
           /\ \A b \in Writes : b # begun + 1 => call'[b] = call[b]
           /\ DOMAIN call' = Writes
           /\ dir'.meta = dir.meta
           /\ \A h : h \in dir'.data <=> h = g \/ (h \in dir.data /\ ~SameName(g, h))
           /\ since' = since \cup {dir'}
           /\ DOMAIN dir' = {"data", "meta"}
           /\ dir' = [data |-> dir'.data, meta |-> dir'.meta]
           /\ WriterIs(w, "meta", {g}, {})
           /\ MapsSame /\ SettledSame /\ LogSame /\ AllFlushers
           /\ acked' = acked /\ queue' = queue /\ attempts' = attempts
           /\ origin' = origin /\ faults' = faults
  BY BeginView
<1>2. begun \in Nat /\ dir \in since /\ nextSeq \in Nat
  BY DEF Typed
<1>3. ASSUME NEW d \in since, NEW h \in d.data
      PROVE  call'[h.body].obj = h.obj
  <2>1. h \in Known
    BY DEF Typed
  <2>2. h.body \in 1..begun
    BY <1>2, <2>1, KnownFields
  <2>3. h.body \in Writes /\ h.body # begun + 1
    BY <1>1, <1>2, <2>2, BoundsAssumption DEF Writes
  <2> QED BY <1>1, <2>3 DEF DirInv
<1>4. ASSUME NEW h \in dir'.data PROVE call'[h.body].obj = h.obj
  BY <1>1, <1>2, <1>3, <1>4
<1>5. dir'.meta \subseteq dir'.data
  <2>1. ASSUME NEW h \in dir.meta PROVE h \in dir'.data
    <3>1. h \in dir.data /\ h \in Gens
      BY <1>2, GensKnown DEF DirInv, Typed
    <3>2. h.seq < nextSeq
      BY <1>1, <3>1, <2>1 DEF NumberInv
    <3>3. ~SameName(g, h)
      <4>1. h.seq \in Nat
        BY <3>1, GenFields
      <4> QED BY <1>1, <1>2, <3>2, <4>1 DEF SameName
    <3> QED BY <1>1, <3>1, <3>3
  <2> QED BY <1>1, <2>1
<1>6. \A g1, h1 \in dir'.meta : InOrder(g1, h1)
  BY <1>1, <1>2 DEF DirInv
<1>7. ASSUME NEW d \in since' 
      PROVE  /\ d.meta \subseteq d.data
             /\ \A h \in d.data : call'[h.body].obj = h.obj
             /\ \A g1, h1 \in d.meta : InOrder(g1, h1)
  <2>1. CASE d \in since
    BY <1>3, <2>1 DEF DirInv
  <2>2. CASE d = dir'
    BY <1>4, <1>5, <1>6, <2>2
  <2> QED BY <1>1, <2>1, <2>2
<1> QED BY <1>7 DEF DirInv, InOrder

(* A new sidecar has its body, and its number is in the order of the       *)
(* calls.                                                                  *)
LEMMA DirCommits ==
  ASSUME Typed, WriterInv, DirInv, FileInv, NumberInv, NEW w \in Writers, CommitMeta(w)
  PROVE  DirInv'
<1>1. PICK g \in Known :
           /\ writer[w].gen = {g} /\ writer[w].pc = "meta"
           /\ dir'.data = dir.data
           /\ \A h : h \in dir'.meta <=> h = g \/ (h \in dir.meta /\ ~SameName(g, h))
           /\ since' = since \cup {dir'}
           /\ WritesSame
  BY CommitMetaView
<1>2. g \in Gens /\ Upcoming(g) /\ g \in dir.data
  BY <1>1, GensKnown DEF Upcoming, Early, FileInv
<1>3. GoodDir(dir) /\ dir.meta \subseteq Gens
  BY GoodNow, GensKnown DEF Typed
<1>4. PICK now : now = dir'
  OBVIOUS
<1>5. /\ now.data = dir.data
      /\ \A h : h \in now.meta <=> h = g \/ (h \in dir.meta /\ ~SameName(g, h))
  BY <1>1, <1>4
<1>6. now.meta \subseteq now.data /\ \A h \in now.data : call[h.body].obj = h.obj
  BY <1>2, <1>3, <1>5 DEF GoodDir
<1>7. ASSUME NEW h \in now.meta, NEW i \in now.meta PROVE InOrder(h, i)
  <2>1. h = g \/ h \in dir.meta
    BY <1>5
  <2>2. i = g \/ i \in dir.meta
    BY <1>5
  <2>3. CASE h \in dir.meta /\ i \in dir.meta
    BY <1>3, <2>3 DEF GoodDir
  <2>4. CASE h = g \/ i = g
    BY <1>2, <1>3, <2>1, <2>2, <2>4 DEF NumberInv
  <2> QED BY <2>1, <2>2, <2>3, <2>4
<1>8. GoodDir(now)
  BY <1>6, <1>7 DEF GoodDir
<1> QED BY <1>1, <1>4, <1>8, DirFrame DEF WritesSame

(* What recovery leaves is a good directory.                               *)
LEMMA DirRecovers ==
  ASSUME Typed, DirInv, Recover
  PROVE  DirInv'
<1>1. /\ dir'.meta = Newest(dir)
      /\ dir'.data = {g \in dir.data : \E h \in Newest(dir) : SameName(g, h)}
      /\ since' = since \cup {dir'} /\ WritesSame
  BY RecoverView
<1>2. Newest(dir) \subseteq dir.meta
  BY DEF Newest
<1>3. GoodDir(dir) /\ dir.meta \subseteq dir.data
  BY GoodNow DEF GoodDir
<1>4. PICK now : now = dir'
  OBVIOUS
<1>5. /\ now.meta = Newest(dir)
      /\ now.data = {g \in dir.data : \E h \in Newest(dir) : SameName(g, h)}
  BY <1>1, <1>4
<1>6. now.meta \subseteq now.data
  BY <1>2, <1>3, <1>5 DEF SameName
<1>7. GoodDir(now)
  BY <1>2, <1>3, <1>5, <1>6, GoodLess
<1> QED BY <1>1, <1>4, <1>7, DirFrame DEF WritesSame

----------------------------------------------------------------------------
(* What a step does to what is staged, dying, upcoming, inserted, settled  *)

UpLess   == \A g \in Gens : Upcoming(g)' => Upcoming(g)
HasLess  == \A g \in Gens : Has(g)' => Has(g)
DyingIn(gens) == \A g \in Gens : Dying(g)' => Dying(g) \/ g \in gens
NoneNew  == \A b \in Writes : Inserted(b)' => Inserted(b)

(* Maps that do not change hold nothing new.                               *)
LEMMA HasFrame == ASSUME MapsSame PROVE HasLess
BY DEF MapsSame, HasLess, Has

(* Threads that do not move make nothing upcoming or inserted.             *)
LEMMA QuietWriters ==
  ASSUME AllWriters
  PROVE  UpLess /\ (acked' = acked => NoneNew)
BY DEF AllWriters, UpLess, Upcoming, NoneNew, Inserted

(* When nobody moves nothing more is dying.                                *)
LEMMA QuietAll ==
  ASSUME AllWriters, AllFlushers
  PROVE  DyingIn({})
BY DEF AllWriters, AllFlushers, DyingIn, Dying

(* A thread makes dying what it is about to remove.                        *)
LEMMA DyingWriter ==
  ASSUME NEW w \in Writers, NEW pc, NEW gen, NEW old, WriterIs(w, pc, gen, old), AllFlushers
  PROVE  DyingIn(old)
<1>1. ASSUME NEW g \in Gens, Dying(g)' PROVE Dying(g) \/ g \in old
  <2>1. CASE \E f \in Flushers : flusher'[f].pc = "drop" /\ g \in flusher'[f].gen
    BY <2>1 DEF AllFlushers, Dying
  <2>2. CASE \E v \in Writers : g \in writer'[v].old
    BY <2>2 DEF WriterIs, Dying
  <2> QED BY <1>1, <2>1, <2>2 DEF Dying
<1> QED BY <1>1 DEF DyingIn

(* A task makes its generation dying when it is done with it.              *)
LEMMA DyingFlusher ==
  ASSUME NEW f \in Flushers, NEW pc, NEW gen, FlusherIs(f, pc, gen), AllWriters
  PROVE  pc = "drop" => DyingIn(gen)
<1>1. ASSUME NEW g \in Gens, Dying(g)' PROVE Dying(g) \/ (pc = "drop" /\ g \in gen)
  <2>1. CASE \E e \in Flushers : flusher'[e].pc = "drop" /\ g \in flusher'[e].gen
    BY <2>1 DEF FlusherIs, Dying
  <2>2. CASE \E v \in Writers : g \in writer'[v].old
    BY <2>2 DEF AllWriters, Dying
  <2> QED BY <1>1, <2>1, <2>2 DEF Dying
<1> QED BY <1>1 DEF DyingIn

(* Until then it makes nothing dying.                                      *)
LEMMA DyingOthers ==
  ASSUME NEW f \in Flushers, NEW pc, NEW gen, FlusherIs(f, pc, gen), AllWriters, pc # "drop"
  PROVE  DyingIn({})
<1>1. ASSUME NEW g \in Gens, Dying(g)' PROVE Dying(g)
  <2>1. CASE \E e \in Flushers : flusher'[e].pc = "drop" /\ g \in flusher'[e].gen
    BY <2>1 DEF FlusherIs, Dying
  <2>2. CASE \E v \in Writers : g \in writer'[v].old
    BY <2>2 DEF AllWriters, Dying
  <2> QED BY <1>1, <2>1, <2>2 DEF Dying
<1> QED BY <1>1 DEF DyingIn

(* A thread makes nothing upcoming once it has begun.                      *)
LEMMA UpWriter ==
  ASSUME NEW w \in Writers, NEW pc, NEW gen, NEW old, WriterIs(w, pc, gen, old),
         pc \in Early => writer[w].pc \in Early /\ gen \subseteq writer[w].gen
  PROVE  UpLess
<1>1. ASSUME NEW g \in Gens, NEW v \in Writers, writer'[v].pc \in Early, g \in writer'[v].gen
      PROVE  writer[v].pc \in Early /\ g \in writer[v].gen
  BY <1>1 DEF WriterIs
<1> QED BY <1>1 DEF UpLess, Upcoming

(* Only an insert adds to what is inserted.                                *)
LEMMA NewWriter ==
  ASSUME NEW w \in Writers, NEW pc, NEW gen, NEW old, WriterIs(w, pc, gen, old), acked' = acked,
         pc = "drop" => writer[w].pc = "drop" /\ gen \subseteq writer[w].gen
  PROVE  NoneNew
<1>1. ASSUME NEW g, NEW v \in Writers, writer'[v].pc = "drop", g \in writer'[v].gen
      PROVE  writer[v].pc = "drop" /\ g \in writer[v].gen
  BY <1>1 DEF WriterIs
<1> QED BY <1>1 DEF NoneNew, Inserted

(* The files of what is staged stay, and so does what nobody removes.      *)
LEMMA FilesKeep ==
  ASSUME FileInv, UpLess, HasLess,
         \A g \in Gens : Dying(g)' => Dying(g) \/ (~Has(g)' /\ ~Upcoming(g)'),
         \A g \in Gens : Has(g)' /\ g \in dir.meta => g \in dir'.meta
  PROVE  /\ \A g \in Gens : Upcoming(g)' => ~Has(g)' /\ ~Dying(g)'
         /\ \A g \in Gens : g.obj \in Objects /\ Has(g)' => g \in dir'.meta /\ ~Dying(g)'
BY DEF FileInv, UpLess, HasLess

\* Part of FileInv: the files of a stage call that goes on are there.
OwnFiles ==
  \A w \in Writers : \A g \in writer[w].gen :
       /\ writer[w].pc = "meta" => g \in dir.data
       /\ writer[w].pc \in {"sync", "insert"} => g \in dir.meta
       /\ writer[w].pc = "insert" => \A d \in since : g \in d.meta

(* The parts of FileInv in the next state.                                 *)
LEMMA FileInvOf ==
  ASSUME OwnFiles',
         \A g \in Gens : Upcoming(g)' => ~Has(g)' /\ ~Dying(g)',
         \A g \in Gens : g.obj \in Objects /\ Has(g)' => g \in dir'.meta /\ ~Dying(g)'
  PROVE  FileInv'
BY DEF FileInv, OwnFiles

(* Threads that do not move keep their files in the same directory.        *)
LEMMA OwnFrame ==
  ASSUME FileInv, AllWriters, DirSame
  PROVE  OwnFiles'
BY DEF FileInv, OwnFiles, AllWriters, DirSame

(* A thread past its insert needs no file of its own.                      *)
LEMMA OwnMoves ==
  ASSUME FileInv, NEW w \in Writers, NEW pc, NEW gen, NEW old, WriterIs(w, pc, gen, old),
         pc \notin Early, DirSame
  PROVE  OwnFiles'
<1>1. ASSUME NEW v \in Writers, v # w PROVE writer'[v] = writer[v]
  BY <1>1 DEF WriterIs
<1>2. writer'[w].pc \notin Early
  BY DEF WriterIs
<1> QED BY <1>1, <1>2 DEF FileInv, OwnFiles, DirSame, Early

(* Removing the files of dead generations leaves those of stage calls.     *)
LEMMA OwnRemove ==
  ASSUME Typed, FileInv, NEW gens, Removed(gens),
         \A g \in gens : g \in Gens => ~Upcoming(g),
         \A v \in Writers : writer'[v].pc \in Early => writer'[v] = writer[v]
  PROVE  OwnFiles'
<1>1. /\ dir'.meta = dir.meta \ gens /\ dir'.data = dir.data \ gens
      /\ \E half : half.meta = dir.meta \ gens /\ since' = since \cup {half, dir'}
  BY DEF Removed
<1>2. PICK half : half.meta = dir.meta \ gens /\ since' = since \cup {half, dir'}
  BY <1>1
<1>3. ASSUME NEW w \in Writers, NEW g \in writer'[w].gen, writer'[w].pc \in Early
      PROVE  writer'[w] = writer[w] /\ g \in writer[w].gen /\ g \notin gens
  <2>1. writer'[w] = writer[w]
    BY <1>3
  <2>2. g \in Gens /\ g \in writer[w].gen
    BY <2>1, GensKnown DEF Typed
  <2>3. Upcoming(g)
    BY <1>3, <2>1, <2>2 DEF Upcoming
  <2> QED BY <2>1, <2>2, <2>3
<1>4. ASSUME NEW w \in Writers, NEW g \in writer'[w].gen, writer'[w].pc = "insert", NEW d \in since'
      PROVE  g \in d.meta
  <2>1. writer[w].pc = "insert" /\ g \in writer[w].gen /\ g \notin gens
    BY <1>3, <1>4 DEF Early
  <2>2. g \in dir.meta /\ \A e \in since : g \in e.meta
    BY <2>1 DEF FileInv
  <2>3. CASE d \in since
    BY <2>2, <2>3
  <2>4. CASE d = half
    BY <1>2, <2>1, <2>2, <2>4
  <2>5. CASE d = dir'
    BY <1>1, <2>1, <2>2, <2>5
  <2> QED BY <1>2, <2>3, <2>4, <2>5
<1>5. ASSUME NEW w \in Writers, NEW g \in writer'[w].gen
      PROVE  /\ writer'[w].pc = "meta" => g \in dir'.data
             /\ writer'[w].pc \in {"sync", "insert"} => g \in dir'.meta
  BY <1>1, <1>3 DEF FileInv, Early
<1> QED BY <1>4, <1>5 DEF OwnFiles

----------------------------------------------------------------------------
(* Numbers                                                                 *)

(* Steps that take no number and commit only what was upcoming keep        *)
(* NumberInv.                                                              *)
LEMMA NumberKeeps ==
  ASSUME NumberInv, UpLess, running' => running, nextSeq' = nextSeq,
         \A g \in Gens : g \in dir'.meta => g \in dir.meta \/ Upcoming(g)
  PROVE  NumberInv'
<1>1. \A g \in Gens : Upcoming(g)' => Upcoming(g)
  BY DEF UpLess
<1>2. running' => \A g \in Gens : g \in dir'.meta \/ Upcoming(g)' => g.seq < nextSeq'
  BY <1>1 DEF NumberInv
<1>3. \A g, h \in Gens : Upcoming(g)' /\ (Upcoming(h)' \/ h \in dir'.meta) =>
        InOrder(g, h) /\ InOrder(h, g)
  BY <1>1 DEF NumberInv
<1> QED BY <1>2, <1>3 DEF NumberInv, InOrder

(* A call that begins makes only its generation upcoming.                  *)
LEMMA UpBegins ==
  ASSUME Typed, NEW w \in Writers, NEW g, WriterIs(w, "meta", {g}, {})
  PROVE  \A h \in Gens : Upcoming(h)' => Upcoming(h) \/ h = g
<1>1. ASSUME NEW h \in Gens, NEW v \in Writers, writer'[v].pc \in Early, h \in writer'[v].gen
      PROVE  h = g \/ (writer[v].pc \in Early /\ h \in writer[v].gen)
  BY <1>1 DEF WriterIs
<1> QED BY <1>1 DEF Upcoming

(* Whatever is upcoming, committed, dying or staged was begun.             *)
LEMMA KnownUp ==
  ASSUME Typed, NEW g \in Gens, Upcoming(g) \/ g \in dir.meta \/ Dying(g) \/ Has(g)
  PROVE  g \in Known
<1>1. /\ \A o \in Objects : pending[o] \subseteq Known /\ inflight[o] \subseteq Known
                            /\ failed[o] \subseteq Known
      /\ \A w \in Writers : writer[w].gen \subseteq Known /\ writer[w].old \subseteq Known
      /\ \A f \in Flushers : flusher[f].gen \subseteq Known
      /\ dir.meta \subseteq Known
  BY DEF Typed
<1>2. g.obj \in Objects
  BY GenFields
<1> QED BY <1>1, <1>2 DEF Upcoming, Dying, Has

(* A new call has the highest number and the latest body.                  *)
LEMMA NumberBegins ==
  ASSUME Typed, NumberInv, NEW w \in Writers, NEW o \in Objects, Begin(w, o)
  PROVE  NumberInv'
<1>1. PICK g \in Gens :
           /\ g.obj = o /\ g.seq = nextSeq /\ g.body = begun + 1
           /\ begun' = begun + 1 /\ begun + 1 \in Writes /\ nextSeq' = nextSeq + 1
           /\ running /\ running' = running /\ writer[w].pc = "idle"
           /\ call'[begun + 1].obj = o /\ call'[begun + 1].after = acked
           /\ \A b \in Writes : b # begun + 1 => call'[b] = call[b]
           /\ DOMAIN call' = Writes
           /\ dir'.meta = dir.meta
           /\ \A h : h \in dir'.data <=> h = g \/ (h \in dir.data /\ ~SameName(g, h))
           /\ since' = since \cup {dir'}
           /\ DOMAIN dir' = {"data", "meta"}
           /\ dir' = [data |-> dir'.data, meta |-> dir'.meta]
           /\ WriterIs(w, "meta", {g}, {})
           /\ MapsSame /\ SettledSame /\ LogSame /\ AllFlushers
           /\ acked' = acked /\ queue' = queue /\ attempts' = attempts
           /\ origin' = origin /\ faults' = faults
  BY BeginView
<1>2. begun \in Nat /\ nextSeq \in Nat
  BY DEF Typed
<1>3. \A h \in Gens : Upcoming(h)' => Upcoming(h) \/ h = g
  BY <1>1, UpBegins
<1>4. ASSUME NEW h \in Gens, Upcoming(h) \/ h \in dir.meta
      PROVE  h.seq < nextSeq /\ h.body < begun + 1 /\ h.seq \in Nat /\ h.body \in Nat
  <2>1. h.seq < nextSeq
    BY <1>1, <1>4 DEF NumberInv
  <2>2. h \in Known
    BY <1>4, KnownUp
  <2>3. h.seq \in 1..begun /\ h.body \in 1..begun
    BY <1>2, <2>2, KnownFields
  <2> QED BY <1>2, <2>1, <2>3
<1>5. ASSUME NEW h \in Gens, Upcoming(h) \/ h \in dir.meta
      PROVE  InOrder(g, h) /\ InOrder(h, g)
  <2>1. h.seq < g.seq /\ h.body < g.body /\ h.seq \in Nat /\ h.body \in Nat
        /\ g.seq \in Nat /\ g.body \in Nat
    BY <1>1, <1>2, <1>4, <1>5
  <2> QED BY <2>1 DEF InOrder
<1>6. InOrder(g, g)
  <2>1. g.seq \in Nat /\ g.body \in Nat
    BY GenFields
  <2> QED BY <2>1 DEF InOrder
<1>7. ASSUME NEW h \in Gens, h \in dir'.meta \/ Upcoming(h)' PROVE h.seq < nextSeq'
  <2>1. CASE h = g
    BY <1>1, <1>2, <2>1
  <2>2. CASE h # g
    <3>1. h \in dir.meta \/ Upcoming(h)
      BY <1>1, <1>3, <1>7, <2>2
    <3> QED BY <1>1, <1>2, <1>4, <3>1
  <2> QED BY <2>1, <2>2
<1>8. ASSUME NEW x \in Gens, NEW y \in Gens, Upcoming(x)', Upcoming(y)' \/ y \in dir'.meta
      PROVE  InOrder(x, y) /\ InOrder(y, x)
  <2>1. x = g \/ Upcoming(x)
    BY <1>3, <1>8
  <2>2. y = g \/ Upcoming(y) \/ y \in dir.meta
    BY <1>1, <1>3, <1>8
  <2>3. CASE x = g
    BY <1>5, <1>6, <2>2, <2>3
  <2>4. CASE y = g
    BY <1>5, <1>6, <2>1, <2>4
  <2>5. CASE x # g /\ y # g
    BY <2>1, <2>2, <2>5 DEF NumberInv
  <2> QED BY <2>3, <2>4, <2>5
<1> QED BY <1>7, <1>8 DEF NumberInv, InOrder

(* Idle threads have nothing upcoming.                                     *)
LEMMA NoneUp ==
  ASSUME \A w \in Writers : writer'[w].pc = "idle"
  PROVE  \A g \in Gens : ~Upcoming(g)'
BY DEF Upcoming, Early

(* Recovery numbers above every sidecar, and nothing is upcoming.          *)
LEMMA NumberProcess ==
  ASSUME Typed, MapInv, DownInv, NumberInv, Crash \/ PowerLoss \/ Recover
  PROVE  NumberInv'
<1>1. CASE Crash \/ PowerLoss
  <2>1. running' = FALSE /\ \A w \in Writers : writer'[w].pc = "idle"
    BY <1>1, StopView DEF Crash, PowerLoss
  <2> QED BY <2>1, NoneUp DEF NumberInv
<1>2. CASE Recover
  <2>1. /\ ~running /\ AllWriters /\ \A g \in dir.meta : g.seq < nextSeq'
        /\ dir'.meta = Newest(dir)
    BY <1>2, RecoverView
  <2>2. \A w \in Writers : writer'[w].pc = "idle"
    BY <2>1 DEF DownInv, AllWriters
  <2>3. dir'.meta \subseteq dir.meta
    BY <2>1 DEF Newest
  <2> QED BY <2>1, <2>2, <2>3, NoneUp DEF NumberInv
<1> QED BY <1>1, <1>2

----------------------------------------------------------------------------
(* Every step: what is upcoming, staged and dying                          *)

(* The later steps of a stage call make nothing upcoming.                  *)
LEMMA UpWriters ==
  ASSUME Typed, WriterInv, NEW w \in Writers, Stage(w) \/ StageFails(w)
  PROVE  UpLess
<1>1. CASE CommitMeta(w)
  <2>1. WriterIs(w, "sync", writer[w].gen, writer[w].old) /\ writer[w].pc = "meta"
    BY <1>1, CommitMetaView
  <2> QED BY <2>1, UpWriter DEF Early
<1>2. CASE SyncDir(w)
  <2>1. WriterIs(w, "insert", writer[w].gen, writer[w].old) /\ writer[w].pc = "sync"
    BY <1>2, SyncDirView
  <2> QED BY <2>1, UpWriter DEF Early
<1>3. CASE Insert(w) \/ Drop(w) \/ Acknowledge(w) \/ StageFails(w)
  <2>1. PICK pc, gen, old : WriterIs(w, pc, gen, old) /\ pc \notin Early
    <3>1. CASE Insert(w)
      <4>1. \E gen, old : WriterIs(w, "drop", gen, old)
        BY <3>1, InsertView
      <4> QED BY <4>1 DEF Early
    <3>2. CASE Drop(w)
      BY <3>2, DropView DEF Early
    <3>3. CASE Acknowledge(w) \/ StageFails(w)
      <4>1. WriterIs(w, "idle", {}, {})
        BY <3>3, AcknowledgeView, StageFailsView
      <4> QED BY <4>1 DEF Early
    <3> QED BY <1>3, <3>1, <3>2, <3>3
  <2> QED BY <2>1, UpWriter
<1> QED BY <1>1, <1>2, <1>3 DEF Stage

(* The later steps of a stage call keep NumberInv.                         *)
LEMMA NumberWriters ==
  ASSUME Typed, WriterInv, NumberInv, NEW w \in Writers, Stage(w) \/ StageFails(w)
  PROVE  NumberInv'
<1>1. UpLess
  BY UpWriters
<1>2. running' = running /\ nextSeq' = nextSeq
  BY DEF Stage, StageFails, CommitMeta, SyncDir, Insert, Drop, Acknowledge, memory
<1>3. \A g \in Gens : g \in dir'.meta => g \in dir.meta \/ Upcoming(g)
  <2>1. CASE CommitMeta(w)
    <3>1. PICK g \in Known :
            /\ writer[w].gen = {g} /\ writer[w].pc = "meta"
            /\ \A h : h \in dir'.meta <=> h = g \/ (h \in dir.meta /\ ~SameName(g, h))
      BY <2>1, CommitMetaView
    <3>2. Upcoming(g)
      BY <3>1 DEF Upcoming, Early
    <3> QED BY <3>1, <3>2
  <2>2. CASE Drop(w)
    BY <2>2, DropView DEF Removed
  <2>3. CASE SyncDir(w) \/ Insert(w) \/ Acknowledge(w) \/ StageFails(w)
    <3>1. dir' = dir
      BY <2>3 DEF SyncDir, Insert, Acknowledge, StageFails
    <3> QED BY <3>1
  <2> QED BY <2>1, <2>2, <2>3 DEF Stage
<1> QED BY <1>1, <1>2, <1>3, NumberKeeps

(* The steps of an upload keep NumberInv.                                  *)
LEMMA NumberFlushers ==
  ASSUME Typed, NumberInv, NEW f \in Flushers,
         Flush(f) \/ TakeNone(f) \/ ReadFails(f) \/ PutFails(f)
  PROVE  NumberInv'
<1>1. /\ writer' = writer /\ running' = running /\ nextSeq' = nextSeq
      /\ dir' = dir \/ Retire(f)
  BY DEF Flush, Take, TakeNone, ReadStaged, PutOk, Complete, Requeue, ParkFailed, Retire,
         ReadFails, PutFails, memory
<1>2. UpLess
  BY <1>1, QuietWriters DEF AllWriters
<1>3. dir'.meta \subseteq dir.meta
  <2>1. CASE dir' = dir
    BY <2>1
  <2>2. CASE Retire(f)
    BY <2>2, RetireView DEF Removed
  <2> QED BY <1>1, <2>1, <2>2
<1> QED BY <1>1, <1>2, <1>3, NumberKeeps

(* A re-arm keeps NumberInv.                                               *)
LEMMA NumberRetry ==
  ASSUME Typed, MapInv, NumberInv, RetryFailed
  PROVE  NumberInv'
<1>1. PICK dead : /\ Removed(dead) /\ AllWriters
                  /\ running' = running /\ nextSeq' = nextSeq
  BY RetryFailedView
<1>2. UpLess
  BY <1>1, QuietWriters
<1>3. dir'.meta \subseteq dir.meta
  BY <1>1 DEF Removed
<1> QED BY <1>1, <1>2, <1>3, NumberKeeps

----------------------------------------------------------------------------
(* Files of what is staged                                                 *)

(* A generation is upcoming in one thread only.                            *)
LEMMA UpOnce ==
  ASSUME Typed, WriterInv, NEW w \in Writers, NEW v \in Writers, NEW g,
         g \in writer[w].gen, g \in writer[v].gen
  PROVE  v = w
BY DEF WriterInv

(* Two files of one name in use are one.                                   *)
LEMMA OneName ==
  ASSUME Typed, NumberInv, NEW g \in Gens, NEW h \in Gens, Upcoming(g),
         Upcoming(h) \/ h \in dir.meta, SameName(g, h)
  PROVE  g = h
<1>1. InOrder(g, h) /\ InOrder(h, g)
  BY DEF NumberInv
<1>2. g.seq \in Nat /\ h.seq \in Nat /\ g.body \in Nat /\ h.body \in Nat
  BY GenFields
<1>3. g.body = h.body
  BY <1>1, <1>2 DEF InOrder, SameName
<1> QED BY <1>3, SameGen DEF SameName

(* Two sidecars of one object are numbered as their writes were begun.     *)
LEMMA DirOrder ==
  ASSUME Typed, DirInv, NEW g \in dir.meta, NEW h \in dir.meta, g.obj = h.obj
  PROVE  (g.seq < h.seq <=> g.body < h.body) /\ (h.seq < g.seq <=> h.body < g.body)
BY DEF Typed, DirInv, InOrder

(* A new body disturbs no file in use: its number is new.                  *)
LEMMA FilesBegin ==
  ASSUME Typed, WriterInv, DirInv, FileInv, NumberInv, NEW w \in Writers, NEW o \in Objects,
         Begin(w, o)
  PROVE  FileInv'
<1>1. PICK g \in Gens :
           /\ g.obj = o /\ g.seq = nextSeq /\ g.body = begun + 1
           /\ begun' = begun + 1 /\ begun + 1 \in Writes /\ nextSeq' = nextSeq + 1
           /\ running /\ running' = running /\ writer[w].pc = "idle"
           /\ call'[begun + 1].obj = o /\ call'[begun + 1].after = acked
           /\ \A b \in Writes : b # begun + 1 => call'[b] = call[b]
           /\ DOMAIN call' = Writes
           /\ dir'.meta = dir.meta
           /\ \A h : h \in dir'.data <=> h = g \/ (h \in dir.data /\ ~SameName(g, h))
           /\ since' = since \cup {dir'}
           /\ DOMAIN dir' = {"data", "meta"}
           /\ dir' = [data |-> dir'.data, meta |-> dir'.meta]
           /\ WriterIs(w, "meta", {g}, {})
           /\ MapsSame /\ SettledSame /\ LogSame /\ AllFlushers
           /\ acked' = acked /\ queue' = queue /\ attempts' = attempts
           /\ origin' = origin /\ faults' = faults
  BY BeginView
<1>2. begun \in Nat /\ nextSeq \in Nat /\ dir \in since
  BY DEF Typed
<1>3. \A h \in Gens : Upcoming(h)' => Upcoming(h) \/ h = g
  BY <1>1, UpBegins
<1>4. HasLess /\ DyingIn({})
  BY <1>1, HasFrame, DyingWriter
<1>5. ~Has(g) /\ ~Dying(g)
  <2>1. g \notin Known
    <3>1. g.body \notin 1..begun
      BY <1>1, <1>2
    <3> QED BY <1>2, <3>1, KnownFields
  <2> QED BY <2>1, KnownUp
<1>6. \A h \in Gens : Upcoming(h)' => ~Has(h)' /\ ~Dying(h)'
  BY <1>3, <1>4, <1>5 DEF FileInv, HasLess, DyingIn
<1>7. \A h \in Gens : h.obj \in Objects /\ Has(h)' => h \in dir'.meta /\ ~Dying(h)'
  BY <1>1, <1>4 DEF FileInv, HasLess, DyingIn
<1>8. ASSUME NEW v \in Writers, NEW h \in writer'[v].gen
      PROVE  /\ writer'[v].pc = "meta" => h \in dir'.data
             /\ writer'[v].pc \in {"sync", "insert"} => h \in dir'.meta
             /\ writer'[v].pc = "insert" => \A d \in since' : h \in d.meta
  <2>1. CASE v = w
    <3>1. writer'[v].pc = "meta" /\ h = g
      BY <1>1, <2>1 DEF WriterIs
    <3> QED BY <1>1, <3>1
  <2>2. CASE v # w
    <3>1. writer'[v] = writer[v]
      BY <1>1, <2>2 DEF WriterIs
    <3>2. h \in writer[v].gen
      BY <3>1
    <3>3. CASE writer[v].pc = "meta"
      <4>1. h \in dir.data /\ h \in Gens /\ Upcoming(h)
        BY <3>2, <3>3, GensKnown DEF FileInv, Typed, Upcoming, Early
      <4>2. h.seq < nextSeq /\ h.seq \in Nat
        BY <1>1, <4>1, GenFields DEF NumberInv
      <4>3. ~SameName(g, h)
        BY <1>1, <1>2, <4>2 DEF SameName
      <4> QED BY <1>1, <3>1, <3>3, <4>1, <4>3
    <3>4. CASE writer[v].pc # "meta"
      BY <1>1, <1>2, <3>1, <3>2, <3>4 DEF FileInv
    <3> QED BY <3>3, <3>4
  <2> QED BY <2>1, <2>2
<1>9. OwnFiles'
  BY <1>8 DEF OwnFiles
<1> QED BY <1>6, <1>7, <1>9, FileInvOf

(* A new sidecar replaces no other: its number is new.                     *)
LEMMA CommitKeeps ==
  ASSUME Typed, NumberInv, NEW w \in Writers, NEW g \in Known,
         writer[w].gen = {g}, writer[w].pc = "meta",
         \A h : h \in dir'.meta <=> h = g \/ (h \in dir.meta /\ ~SameName(g, h))
  PROVE  \A h \in dir.meta : h \in dir'.meta
<1>1. g \in Gens /\ Upcoming(g)
  BY GensKnown DEF Upcoming, Early
<1>2. dir.meta \subseteq Gens
  BY GensKnown DEF Typed
<1>3. \A h \in dir.meta : SameName(g, h) => h = g
  BY <1>1, <1>2, OneName
<1> QED BY <1>3

(* A new sidecar leaves the files in use in place.                         *)
LEMMA FilesCommit ==
  ASSUME Typed, WriterInv, FileInv, NumberInv, NEW w \in Writers, CommitMeta(w)
  PROVE  FileInv'
<1>1. PICK g \in Known :
           /\ writer[w].gen = {g} /\ writer[w].pc = "meta"
           /\ dir'.data = dir.data
           /\ \A h : h \in dir'.meta <=> h = g \/ (h \in dir.meta /\ ~SameName(g, h))
           /\ since' = since \cup {dir'}
           /\ WriterIs(w, "sync", writer[w].gen, writer[w].old)
           /\ MapsSame /\ AllFlushers
  BY CommitMetaView
<1>2. \A h \in dir.meta : h \in dir'.meta
  BY <1>1, CommitKeeps
<1>3. UpLess
  BY UpWriters DEF Stage
<1>4. HasLess /\ DyingIn({})
  <2>1. writer[w].old = {}
    BY <1>1 DEF WriterInv, Early
  <2> QED BY <1>1, <2>1, HasFrame, DyingWriter
<1>5. /\ \A h \in Gens : Upcoming(h)' => ~Has(h)' /\ ~Dying(h)'
      /\ \A h \in Gens : h.obj \in Objects /\ Has(h)' => h \in dir'.meta /\ ~Dying(h)'
  <2>1. \A h \in Gens : Dying(h)' => Dying(h)
    BY <1>4 DEF DyingIn
  <2> QED BY <1>2, <1>3, <1>4, <2>1, FilesKeep
<1>6. ASSUME NEW v \in Writers, NEW h \in writer'[v].gen
      PROVE  /\ writer'[v].pc = "meta" => h \in dir'.data
             /\ writer'[v].pc \in {"sync", "insert"} => h \in dir'.meta
             /\ writer'[v].pc = "insert" => \A d \in since' : h \in d.meta
  <2>1. CASE v = w
    <3>1. writer'[v].pc = "sync" /\ h = g
      BY <1>1, <2>1 DEF WriterIs
    <3> QED BY <1>1, <3>1
  <2>2. CASE v # w
    <3>1. writer'[v] = writer[v] /\ h \in writer[v].gen
      BY <1>1, <2>2 DEF WriterIs
    <3> QED BY <1>1, <1>2, <3>1 DEF FileInv
  <2> QED BY <2>1, <2>2
<1>7. OwnFiles'
  BY <1>6 DEF OwnFiles
<1> QED BY <1>5, <1>7, FileInvOf

(* After the fsync every directory has the sidecar.                        *)
LEMMA FilesSync ==
  ASSUME Typed, WriterInv, FileInv, NEW w \in Writers, SyncDir(w)
  PROVE  FileInv'
<1>1. /\ writer[w].pc = "sync"
      /\ dir' = dir /\ since' = {dir}
      /\ WriterIs(w, "insert", writer[w].gen, writer[w].old)
      /\ MapsSame /\ AllFlushers
  BY SyncDirView
<1>2. UpLess
  BY UpWriters DEF Stage
<1>3. HasLess /\ DyingIn({})
  <2>1. writer[w].old = {}
    BY <1>1 DEF WriterInv, Early
  <2> QED BY <1>1, <2>1, HasFrame, DyingWriter
<1>4. /\ \A h \in Gens : Upcoming(h)' => ~Has(h)' /\ ~Dying(h)'
      /\ \A h \in Gens : h.obj \in Objects /\ Has(h)' => h \in dir'.meta /\ ~Dying(h)'
  <2>1. \A h \in Gens : Dying(h)' => Dying(h)
    BY <1>3 DEF DyingIn
  <2> QED BY <1>1, <1>2, <1>3, <2>1, FilesKeep
<1>5. ASSUME NEW v \in Writers, NEW h \in writer'[v].gen
      PROVE  /\ writer'[v].pc = "meta" => h \in dir'.data
             /\ writer'[v].pc \in {"sync", "insert"} => h \in dir'.meta
             /\ writer'[v].pc = "insert" => \A d \in since' : h \in d.meta
  <2>1. CASE v = w
    <3>1. writer'[v].pc = "insert" /\ h \in writer[w].gen
      BY <1>1, <2>1 DEF WriterIs
    <3>2. h \in dir.meta
      BY <1>1, <3>1 DEF FileInv
    <3> QED BY <1>1, <3>1, <3>2
  <2>2. CASE v # w
    <3>1. writer'[v] = writer[v] /\ h \in writer[v].gen
      BY <1>1, <2>2 DEF WriterIs
    <3> QED BY <1>1, <3>1 DEF FileInv
  <2> QED BY <2>1, <2>2
<1>6. OwnFiles'
  BY <1>5 DEF OwnFiles
<1> QED BY <1>4, <1>6, FileInvOf

(* An insert adds its generation and takes away what it replaces.          *)
LEMMA InsertHas ==
  ASSUME Typed, WriterInv, NEW w \in Writers, NEW g \in Known,
         pending'[g.obj] = {g}, failed'[g.obj] = {}, inflight' = inflight,
         \A o \in Objects : o # g.obj => pending'[o] = pending[o] /\ failed'[o] = failed[o]
  PROVE  \A h \in Gens : Has(h)' => h = g \/ (Has(h) /\ (h.obj = g.obj => h \in inflight[h.obj]))
<1>1. ASSUME NEW h \in Gens, Has(h)'
      PROVE  h = g \/ (Has(h) /\ (h.obj = g.obj => h \in inflight[h.obj]))
  <2>1. h.obj \in Objects
    BY GenFields
  <2> QED BY <1>1, <2>1 DEF Has
<1> QED BY <1>1

(* What an insert replaces is dying and staged no longer.                  *)
LEMMA FilesInsert ==
  ASSUME Typed, MapInv, WriterInv, FileInv, NEW w \in Writers, Insert(w)
  PROVE  FileInv'
<1>1. PICK g \in Known :
           /\ writer[w].gen = {g} /\ writer[w].pc = "insert" /\ g.obj \in Objects
           /\ pending'[g.obj] = {g} /\ failed'[g.obj] = {} /\ inflight' = inflight
           /\ \A o \in Objects : o # g.obj => pending'[o] = pending[o] /\ failed'[o] = failed[o]
           /\ WriterIs(w, "drop", {g}, pending[g.obj] \cup failed[g.obj])
           /\ DirSame /\ AllFlushers
  BY InsertView
<1>2. UpLess
  BY UpWriters DEF Stage
<1>3. DyingIn(pending[g.obj] \cup failed[g.obj])
  BY <1>1, DyingWriter
<1>4. g \in dir.meta /\ g \in Gens /\ Upcoming(g) /\ ~Has(g) /\ ~Dying(g)
  <2>1. g \in Gens
    BY GensKnown
  <2>2. Upcoming(g)
    BY <1>1 DEF Upcoming, Early
  <2> QED BY <1>1, <2>1, <2>2 DEF FileInv
<1>5. \A h \in Gens : Has(h)' => h = g \/ (Has(h) /\ (h.obj = g.obj => h \in inflight[h.obj]))
  BY <1>1, InsertHas
<1>6. ~Upcoming(g)'
  <2>1. ASSUME NEW v \in Writers, writer'[v].pc \in Early, g \in writer'[v].gen
        PROVE  FALSE
    <3>1. v # w
      BY <1>1, <2>1 DEF WriterIs, Early
    <3>2. g \in writer[v].gen
      BY <1>1, <2>1, <3>1 DEF WriterIs
    <3> QED BY <1>1, <3>1, <3>2, UpOnce
  <2> QED BY <2>1 DEF Upcoming
<1>7. ASSUME NEW h \in pending[g.obj] \cup failed[g.obj], h \in Gens
      PROVE  h # g /\ Has(h) /\ ~Has(h)' /\ ~Upcoming(h)'
  <2>1. h.obj = g.obj /\ h \notin inflight[g.obj]
    BY <1>1 DEF MapInv
  <2>2. Has(h)
    BY <2>1 DEF Has
  <2>3. h # g
    BY <1>4, <2>2
  <2>4. ~Has(h)'
    BY <1>5, <1>7, <2>1, <2>3
  <2>5. ~Upcoming(h)
    BY <1>7, <2>2 DEF FileInv
  <2> QED BY <1>2, <1>7, <2>2, <2>3, <2>4, <2>5 DEF UpLess
<1>8. ASSUME NEW h \in Gens, Upcoming(h)' PROVE ~Has(h)' /\ ~Dying(h)'
  <2>1. Upcoming(h) /\ h # g
    BY <1>2, <1>6, <1>8 DEF UpLess
  <2>2. ~Has(h) /\ ~Dying(h)
    BY <2>1 DEF FileInv
  <2> QED BY <1>3, <1>5, <1>7, <1>8, <2>1, <2>2 DEF DyingIn
<1>9. ASSUME NEW h \in Gens, Has(h)' PROVE h \in dir'.meta /\ ~Dying(h)'
  <2>1. h \in dir.meta /\ ~Dying(h)
    <3>1. h.obj \in Objects
      BY GenFields
    <3> QED BY <1>4, <1>5, <1>9, <3>1 DEF FileInv
  <2>2. h \notin pending[g.obj] \cup failed[g.obj]
    BY <1>7, <1>9
  <2> QED BY <1>1, <1>3, <2>1, <2>2 DEF DyingIn, DirSame
<1>10. OwnFiles'
  BY <1>1, OwnMoves DEF Early
<1> QED BY <1>8, <1>9, <1>10, FileInvOf

(* A thread that returns leaves the files in use in place.                 *)
LEMMA FilesLeave ==
  ASSUME Typed, WriterInv, FileInv, NEW w \in Writers, StageFails(w) \/ Acknowledge(w)
  PROVE  FileInv'
<1>1. WriterIs(w, "idle", {}, {}) /\ DirSame /\ MapsSame /\ AllFlushers
  BY StageFailsView, AcknowledgeView
<1>2. UpLess
  BY UpWriters DEF Stage
<1>3. HasLess /\ DyingIn({})
  BY <1>1, HasFrame, DyingWriter
<1>4. /\ \A h \in Gens : Upcoming(h)' => ~Has(h)' /\ ~Dying(h)'
      /\ \A h \in Gens : h.obj \in Objects /\ Has(h)' => h \in dir'.meta /\ ~Dying(h)'
  <2>1. \A h \in Gens : Dying(h)' => Dying(h)
    BY <1>3 DEF DyingIn
  <2>2. dir' = dir
    BY <1>1 DEF DirSame
  <2> QED BY <1>2, <1>3, <2>1, <2>2, FilesKeep
<1>5. OwnFiles'
  BY <1>1, OwnMoves DEF Early
<1> QED BY <1>4, <1>5, FileInvOf

(* A step that removes files of dead generations only.                     *)
LEMMA FilesRemove ==
  ASSUME Typed, FileInv, NEW gens, Removed(gens), UpLess, HasLess, DyingIn({}),
         \A g \in gens : g \in Gens => ~Upcoming(g) /\ ~Has(g)',
         \A v \in Writers : writer'[v].pc \in Early => writer'[v] = writer[v]
  PROVE  FileInv'
<1>1. dir'.meta = dir.meta \ gens
  BY DEF Removed
<1>2. OwnFiles'
  BY OwnRemove
<1>3. \A g \in Gens : Has(g)' /\ g \in dir.meta => g \in dir'.meta
  BY <1>1
<1>4. \A h \in Gens : Dying(h)' => Dying(h)
  BY DEF DyingIn
<1>5. /\ \A h \in Gens : Upcoming(h)' => ~Has(h)' /\ ~Dying(h)'
      /\ \A h \in Gens : h.obj \in Objects /\ Has(h)' => h \in dir'.meta /\ ~Dying(h)'
  BY <1>3, <1>4, FilesKeep
<1> QED BY <1>2, <1>5, FileInvOf

(* The files that stage removes are of nothing staged or upcoming.         *)
LEMMA FilesDrop ==
  ASSUME Typed, WriterInv, FileInv, NEW w \in Writers, Drop(w)
  PROVE  FileInv'
<1>1. /\ writer[w].pc = "drop" /\ Removed(writer[w].old)
      /\ WriterIs(w, "drop", writer[w].gen, {}) /\ MapsSame /\ AllFlushers
  BY DropView
<1>2. UpLess /\ HasLess /\ DyingIn({})
  BY <1>1, UpWriters, HasFrame, DyingWriter DEF Stage
<1>3. ASSUME NEW g \in writer[w].old, g \in Gens PROVE ~Upcoming(g) /\ ~Has(g)'
  <2>1. Dying(g)
    BY DEF Dying
  <2>2. g.obj \in Objects
    BY <1>3, GenFields
  <2> QED BY <1>2, <1>3, <2>1, <2>2 DEF FileInv, HasLess
<1>4. \A v \in Writers : writer'[v].pc \in Early => writer'[v] = writer[v]
  BY <1>1 DEF WriterIs, Early
<1> QED BY <1>1, <1>2, <1>3, <1>4, FilesRemove

\* A step of a task that touches no file and removes nothing from the maps.
Quiet(f) == Take(f) \/ TakeNone(f) \/ ReadStaged(f) \/ PutOk(f) \/ PutFails(f)

(* Until an upload ends nothing staged, dying or inserted changes.         *)
LEMMA QuietView ==
  ASSUME Typed, FlusherInv, NEW f \in Flushers, Quiet(f)
  PROVE  UpLess /\ HasLess /\ DyingIn({}) /\ NoneNew /\ DirSame /\ AllWriters /\ WritesSame
         /\ LogSame /\ dropped' = dropped /\ running' = running /\ delivered \subseteq delivered'
<1>1. CASE Take(f)
  <2>1. PICK o \in Objects :
           /\ inflight[o] = {}
           /\ inflight'[o] = pending[o] /\ pending'[o] = {} /\ failed' = failed
           /\ \A p \in Objects : p # o => pending'[p] = pending[p] /\ inflight'[p] = inflight[p]
           /\ FlusherIs(f, "read", pending[o])
           /\ DirSame /\ WritesSame /\ SettledSame /\ LogSame /\ AllWriters
           /\ running' = running
    BY <1>1, TakeView
  <2>2. HasLess
    <3>1. ASSUME NEW h \in Gens, Has(h)' PROVE Has(h)
      <4>1. h.obj \in Objects
        BY GenFields
      <4>2. CASE h.obj = o
        BY <2>1, <3>1, <4>2 DEF Has
      <4>3. CASE h.obj # o
        BY <2>1, <3>1, <4>1, <4>3 DEF Has
      <4> QED BY <4>2, <4>3
    <3> QED BY <3>1 DEF HasLess
  <2> QED BY <2>1, <2>2, QuietWriters, DyingOthers DEF WritesSame, SettledSame
<1>2. CASE TakeNone(f)
  BY <1>2, TakeNoneView, HasFrame, QuietWriters, QuietAll DEF WritesSame, SettledSame
<1>3. CASE ReadStaged(f)
  BY <1>3, ReadStagedView, HasFrame, QuietWriters, DyingOthers DEF WritesSame, SettledSame
<1>4. CASE PutOk(f)
  <2>1. PICK g \in Known :
           /\ Landed(g) /\ FlusherIs(f, "complete", {g})
           /\ MapsSame /\ DirSame /\ WritesSame /\ LogSame /\ AllWriters /\ dropped' = dropped
           /\ running' = running
    BY <1>4, PutOkView
  <2>2. DyingIn({})
    BY <2>1, DyingOthers
  <2> QED BY <2>1, <2>2, HasFrame, QuietWriters DEF WritesSame, Landed
<1>5. CASE PutFails(f)
  <2>1. PICK g \in Known :
           /\ Landed(g) \/ (origin' = origin /\ delivered' = delivered)
           /\ FlusherIs(f, "fail", {g})
           /\ MapsSame /\ DirSame /\ WritesSame /\ LogSame /\ AllWriters /\ dropped' = dropped
           /\ running' = running
    BY <1>5, PutFailsView
  <2>2. DyingIn({})
    BY <2>1, DyingOthers
  <2> QED BY <2>1, <2>2, HasFrame, QuietWriters DEF WritesSame, Landed
<1> QED BY <1>1, <1>2, <1>3, <1>4, <1>5 DEF Quiet

(* Until an upload ends the files in use stay.                             *)
LEMMA FilesQuiet ==
  ASSUME Typed, FlusherInv, FileInv, NEW f \in Flushers, Quiet(f)
  PROVE  FileInv'
<1>1. UpLess /\ HasLess /\ DyingIn({}) /\ DirSame /\ AllWriters
  BY QuietView
<1>2. \A h \in Gens : Dying(h)' => Dying(h)
  BY <1>1 DEF DyingIn
<1>3. dir' = dir
  BY <1>1 DEF DirSame
<1>4. /\ \A h \in Gens : Upcoming(h)' => ~Has(h)' /\ ~Dying(h)'
      /\ \A h \in Gens : h.obj \in Objects /\ Has(h)' => h \in dir'.meta /\ ~Dying(h)'
  BY <1>1, <1>2, <1>3, FilesKeep
<1> QED BY <1>1, <1>4, OwnFrame, FileInvOf

\* A step that takes a generation out of flight.
Ends(f) == Complete(f) \/ ReadFails(f) \/ Requeue(f) \/ ParkFailed(f)

(* An upload ends: its generation is dying, or staged again if no newer    *)
(* one waits.                                                              *)
LEMMA EndsView ==
  ASSUME Typed, MapInv, FlusherInv, NEW f \in Flushers, Ends(f)
  PROVE  \E g \in Known :
           /\ flusher[f].gen = {g} /\ g.obj \in Objects
           /\ inflight[g.obj] = {g} /\ inflight'[g.obj] = {}
           /\ \A o \in Objects : o # g.obj =>
                inflight'[o] = inflight[o] /\ pending'[o] = pending[o] /\ failed'[o] = failed[o]
           /\ UpLess /\ HasLess /\ NoneNew /\ DirSame /\ AllWriters /\ WritesSame /\ LogSame
           /\ running' = running /\ delivered' = delivered /\ dropped \subseteq dropped'
           /\ origin' = origin
           /\ \/ /\ DyingIn({g}) /\ ~Has(g)' /\ pending' = pending /\ failed' = failed
                 /\ g.body \in delivered' \cup dropped' \/ Superseded(g)
              \/ /\ DyingIn({}) /\ ~Superseded(g)
                 /\ \/ pending'[g.obj] = {g} /\ failed' = failed
                    \/ pending' = pending /\ failed'[g.obj] = {g}
<1>1. ASSUME NEW g \in Known, g.obj \in Objects, inflight[g.obj] = {g}, inflight'[g.obj] = {},
             \A o \in Objects : o # g.obj => inflight'[o] = inflight[o],
             pending' = pending, failed' = failed
      PROVE  HasLess /\ ~Has(g)'
  <2>1. ASSUME NEW h \in Gens, Has(h)' PROVE Has(h)
    <3>1. h.obj \in Objects
      BY GenFields
    <3> QED BY <1>1, <2>1, <3>1 DEF Has
  <2>2. ~Has(g)'
    BY <1>1 DEF Has, MapInv
  <2> QED BY <2>1, <2>2 DEF HasLess
<1>2. CASE Complete(f)
  <2>1. PICK g \in Known :
           /\ flusher[f].gen = {g}
           /\ Taken(g) /\ inflight[g.obj] = {g} /\ g.body \in delivered
           /\ FlusherIs(f, "drop", {g})
           /\ DirSame /\ WritesSame /\ SettledSame /\ LogSame /\ AllWriters
           /\ running' = running /\ origin' = origin
    BY <1>2, CompleteView
  <2>2. g.obj \in Objects
    BY DEF Known
  <2>3. /\ pending' = pending /\ failed' = failed /\ inflight'[g.obj] = {}
        /\ \A o \in Objects : o # g.obj => inflight'[o] = inflight[o]
    BY <2>1 DEF Taken
  <2>4. HasLess /\ ~Has(g)'
    BY <1>1, <2>1, <2>2, <2>3
  <2>5. UpLess /\ NoneNew /\ DyingIn({g})
    BY <2>1, QuietWriters, DyingFlusher DEF WritesSame
  <2> QED BY <2>1, <2>2, <2>3, <2>4, <2>5 DEF SettledSame
<1>3. CASE ReadFails(f)
  <2>1. PICK g \in Known :
           /\ flusher[f].gen = {g}
           /\ Taken(g) /\ inflight[g.obj] = {g}
           /\ dropped' = dropped \cup {g.body} /\ delivered' = delivered
           /\ FlusherIs(f, "drop", {g})
           /\ DirSame /\ WritesSame /\ LogSame /\ AllWriters
           /\ running' = running /\ origin' = origin
    BY <1>3, ReadFailsView
  <2>2. g.obj \in Objects
    BY DEF Known
  <2>3. /\ pending' = pending /\ failed' = failed /\ inflight'[g.obj] = {}
        /\ \A o \in Objects : o # g.obj => inflight'[o] = inflight[o]
    BY <2>1 DEF Taken
  <2>4. HasLess /\ ~Has(g)'
    BY <1>1, <2>1, <2>2, <2>3
  <2>5. UpLess /\ NoneNew /\ DyingIn({g})
    BY <2>1, QuietWriters, DyingFlusher DEF WritesSame
  <2>6. g.body \in dropped' /\ dropped \subseteq dropped'
    BY <2>1
  <2> QED BY <2>1, <2>2, <2>3, <2>4, <2>5, <2>6
<1>4. CASE Requeue(f) \/ ParkFailed(f)
  <2>1. PICK g \in Known :
           /\ Ended(f, g)
           /\ \/ /\ Superseded(g) /\ FlusherIs(f, "drop", {g})
                 /\ pending' = pending /\ failed' = failed
              \/ /\ ~Superseded(g) /\ FlusherIs(f, "idle", {})
                 /\ pending'[g.obj] = {g} /\ failed' = failed
                 /\ \A o \in Objects : o # g.obj => pending'[o] = pending[o]
              \/ /\ ~Superseded(g) /\ FlusherIs(f, "idle", {})
                 /\ failed'[g.obj] = {g} /\ pending' = pending
                 /\ \A o \in Objects : o # g.obj => failed'[o] = failed[o]
    <3>1. CASE Requeue(f)
      BY <3>1, RequeueView
    <3>2. CASE ParkFailed(f)
      BY <3>2, ParkFailedView
    <3> QED BY <1>4, <3>1, <3>2
  <2>2. /\ flusher[f].gen = {g} /\ g.obj \in Objects
        /\ inflight[g.obj] = {g} /\ inflight'[g.obj] = {}
        /\ \A o \in Objects : o # g.obj => inflight'[o] = inflight[o]
        /\ DirSame /\ WritesSame /\ SettledSame /\ LogSame /\ AllWriters
        /\ running' = running /\ origin' = origin
    BY <2>1 DEF Ended
  <2>3. UpLess /\ NoneNew
    BY <2>2, QuietWriters DEF WritesSame
  <2>4. CASE /\ Superseded(g) /\ FlusherIs(f, "drop", {g})
             /\ pending' = pending /\ failed' = failed
    <3>1. HasLess /\ ~Has(g)'
      BY <1>1, <2>2, <2>4
    <3>2. DyingIn({g})
      BY <2>2, <2>4, DyingFlusher
    <3> QED BY <2>2, <2>3, <2>4, <3>1, <3>2 DEF SettledSame
  <2>5. CASE /\ ~Superseded(g) /\ FlusherIs(f, "idle", {})
             /\ pending'[g.obj] = {g} /\ failed' = failed
             /\ \A o \in Objects : o # g.obj => pending'[o] = pending[o]
    <3>1. HasLess
      <4>1. ASSUME NEW h \in Gens, Has(h)' PROVE Has(h)
        <5>1. h.obj \in Objects
          BY GenFields
        <5> QED BY <2>2, <2>5, <4>1, <5>1 DEF Has
      <4> QED BY <4>1 DEF HasLess
    <3>2. DyingIn({})
      BY <2>2, <2>5, DyingOthers
    <3> QED BY <2>2, <2>3, <2>5, <3>1, <3>2 DEF SettledSame
  <2>6. CASE /\ ~Superseded(g) /\ FlusherIs(f, "idle", {})
             /\ failed'[g.obj] = {g} /\ pending' = pending
             /\ \A o \in Objects : o # g.obj => failed'[o] = failed[o]
    <3>1. HasLess
      <4>1. ASSUME NEW h \in Gens, Has(h)' PROVE Has(h)
        <5>1. h.obj \in Objects
          BY GenFields
        <5> QED BY <2>2, <2>6, <4>1, <5>1 DEF Has
      <4> QED BY <4>1 DEF HasLess
    <3>2. DyingIn({})
      BY <2>2, <2>6, DyingOthers
    <3> QED BY <2>2, <2>3, <2>6, <3>1, <3>2 DEF SettledSame
  <2> QED BY <2>1, <2>4, <2>5, <2>6
<1> QED BY <1>2, <1>3, <1>4 DEF Ends

(* A generation that dies as its upload ends is staged no longer.          *)
LEMMA FilesEnd ==
  ASSUME Typed, MapInv, FlusherInv, FileInv, NEW f \in Flushers, Ends(f)
  PROVE  FileInv'
<1>1. PICK g \in Known :
           /\ g.obj \in Objects /\ inflight[g.obj] = {g}
           /\ UpLess /\ HasLess /\ DirSame /\ AllWriters
           /\ (DyingIn({g}) /\ ~Has(g)') \/ DyingIn({})
  BY EndsView
<1>2. g \in Gens /\ Has(g)
  BY <1>1, GensKnown DEF Has
<1>3. ~Upcoming(g)'
  BY <1>1, <1>2 DEF FileInv, UpLess
<1>4. \A h \in Gens : Dying(h)' => Dying(h) \/ (~Has(h)' /\ ~Upcoming(h)')
  BY <1>1, <1>3 DEF DyingIn
<1>5. dir' = dir
  BY <1>1 DEF DirSame
<1>6. /\ \A h \in Gens : Upcoming(h)' => ~Has(h)' /\ ~Dying(h)'
      /\ \A h \in Gens : h.obj \in Objects /\ Has(h)' => h \in dir'.meta /\ ~Dying(h)'
  BY <1>1, <1>4, <1>5, FilesKeep
<1> QED BY <1>1, <1>6, OwnFrame, FileInvOf

(* The files that a task removes are of nothing staged or upcoming.        *)
LEMMA FilesRetire ==
  ASSUME Typed, FlusherInv, FileInv, NEW f \in Flushers, Retire(f)
  PROVE  FileInv'
<1>1. /\ flusher[f].pc = "drop" /\ Removed(flusher[f].gen)
      /\ FlusherIs(f, "idle", {}) /\ MapsSame /\ AllWriters
  BY RetireView
<1>2. UpLess /\ HasLess /\ DyingIn({})
  BY <1>1, QuietWriters, HasFrame, DyingOthers
<1>3. ASSUME NEW g \in flusher[f].gen, g \in Gens PROVE ~Upcoming(g) /\ ~Has(g)'
  <2>1. Dying(g)
    BY <1>1 DEF Dying
  <2>2. g.obj \in Objects
    BY <1>3, GenFields
  <2> QED BY <1>2, <1>3, <2>1, <2>2 DEF FileInv, HasLess
<1>4. \A v \in Writers : writer'[v].pc \in Early => writer'[v] = writer[v]
  BY <1>1 DEF AllWriters
<1> QED BY <1>1, <1>2, <1>3, <1>4, FilesRemove

(* retry_failed adds nothing staged, and what it removes is staged no      *)
(* longer.                                                                 *)
LEMMA RetryHas ==
  ASSUME Typed, MapInv, RetryFailed
  PROVE  HasLess /\ \A g \in Gens : g \in failed[g.obj] /\ Superseded(g) => ~Has(g)'
<1>1. /\ \A o \in Objects : pending'[o] =
                IF \E g \in failed[o] : ~Superseded(g) THEN failed[o] ELSE pending[o]
      /\ \A o \in Objects : failed'[o] = {}
      /\ inflight' = inflight
  BY RetryFailedView
<1>2. ASSUME NEW g \in Gens, Has(g)' PROVE Has(g)
  <2>1. g.obj \in Objects
    BY GenFields
  <2> QED BY <1>1, <1>2, <2>1 DEF Has
<1>3. ASSUME NEW g \in Gens, g \in failed[g.obj], Superseded(g) PROVE ~Has(g)'
  <2>1. g.obj \in Objects
    BY GenFields
  <2>2. g \notin pending[g.obj] /\ g \notin inflight[g.obj] /\ \A h \in failed[g.obj] : h = g
    BY <1>3, <2>1 DEF MapInv
  <2>3. ~ \E h \in failed[g.obj] : ~Superseded(h)
    BY <1>3, <2>2
  <2> QED BY <1>1, <2>1, <2>2, <2>3 DEF Has
<1> QED BY <1>2, <1>3 DEF HasLess

(* Nobody is about to remove anything while the process is down.           *)
LEMMA DownDying ==
  ASSUME WriterInv, DownInv, ~running
  PROVE  \A g \in Gens : ~Dying(g)
<1>1. /\ \A w \in Writers : writer[w].pc = "idle"
      /\ \A f \in Flushers : flusher[f].pc = "idle"
  BY DEF DownInv
<1>2. \A w \in Writers : writer[w].old = {}
  BY <1>1 DEF WriterInv
<1> QED BY <1>1, <1>2 DEF Dying

(* Re-arms, crashes and recovery keep the files of what is staged.         *)
LEMMA FilesProcess ==
  ASSUME Typed, MapInv, WriterInv, DownInv, FileInv, RetryFailed \/ Crash \/ PowerLoss \/ Recover
  PROVE  FileInv'
<1>1. CASE RetryFailed
  <2>1. PICK dead :
           /\ Removed(dead)
           /\ \A g \in dead : g \in Known /\ g \in failed[g.obj] /\ Superseded(g)
           /\ AllWriters /\ AllFlushers
    BY <1>1, RetryFailedView
  <2>2. UpLess /\ HasLess /\ DyingIn({})
    BY <1>1, <2>1, QuietWriters, QuietAll, RetryHas
  <2>3. \A g \in dead : g \in Gens => ~Upcoming(g) /\ ~Has(g)'
    BY <1>1, <2>1, RetryHas DEF FileInv, Has
  <2>4. \A v \in Writers : writer'[v].pc \in Early => writer'[v] = writer[v]
    BY <2>1 DEF AllWriters
  <2> QED BY <2>1, <2>2, <2>3, <2>4, FilesRemove
<1>2. CASE Crash \/ PowerLoss
  <2>1. /\ \A o \in Objects : pending'[o] = {} /\ inflight'[o] = {} /\ failed'[o] = {}
        /\ \A w \in Writers : writer'[w].pc = "idle"
    BY <1>2, StopView DEF Crash, PowerLoss
  <2>2. \A g \in Gens : ~Upcoming(g)'
    BY <2>1, NoneUp
  <2>3. \A g \in Gens : ~Has(g)'
    BY <2>1, GenFields DEF Has
  <2>4. OwnFiles'
    BY <2>1 DEF OwnFiles
  <2> QED BY <2>2, <2>3, <2>4, FileInvOf
<1>3. CASE Recover
  <2>1. /\ ~running /\ AllWriters /\ AllFlushers
        /\ \A o \in Objects : pending'[o] = {g \in Newest(dir) : g.obj = o}
        /\ inflight' = inflight /\ failed' = failed
        /\ dir'.meta = Newest(dir)
    BY <1>3, RecoverView
  <2>2. \A w \in Writers : writer'[w].pc = "idle" 
    BY <2>1 DEF DownInv, AllWriters
  <2>3. \A g \in Gens : ~Upcoming(g)'
    BY <2>2, NoneUp
  <2>4. OwnFiles'
    BY <2>2 DEF OwnFiles
  <2>5. \A g \in Gens : ~Dying(g)'
    <3>1. \A g \in Gens : ~Dying(g)
      BY <2>1, DownDying
    <3> QED BY <2>1, <3>1, QuietAll DEF DyingIn
  <2>6. \A g \in Gens : Has(g)' => g \in dir'.meta
    <3>1. \A o \in Objects : inflight'[o] = {} /\ failed'[o] = {}
      BY <2>1 DEF DownInv
    <3> QED BY <2>1, <3>1, GenFields DEF Has
  <2> QED BY <2>3, <2>4, <2>5, <2>6, FileInvOf
<1> QED BY <1>1, <1>2, <1>3

----------------------------------------------------------------------------
(* Writes that are owed are covered by a file                              *)

OwedLess    == \A b \in Writes : Owed(b)' => Owed(b)
SettledKept == \A b \in Writes : Settled(b) => Settled(b)'

(* Where nothing is newly inserted nothing is newly owed.                  *)
LEMMA OwedKeeps ==
  ASSUME NoneNew, lost \subseteq lost'
  PROVE  OwedLess
BY DEF NoneNew, OwedLess, Owed

(* What is settled stays settled.                                          *)
LEMMA SettledKeeps ==
  ASSUME call' = call, delivered \subseteq delivered', dropped \subseteq dropped'
  PROVE  SettledKept
BY DEF SettledKept, Settled, NotOlder

\* b is settled, or a file that nobody is about to remove covers it.
Held(b) == Settled(b) \/ \E s \in dir.meta : s.obj = call[b].obj /\ s.body >= b /\ ~Dying(s)

(* What is owed is held while the process runs.                            *)
LEMMA HeldNow ==
  ASSUME CoverInv, running, NEW b \in Writes, Owed(b)
  PROVE  Held(b)
BY DEF CoverInv, Held

(* CoverInv from what is held and from the directories that are new.       *)
LEMMA CoverOf ==
  ASSUME CoverInv, OwedLess, SettledKept, call' = call,
         \A d \in since' : d \in since \/ dir'.meta \subseteq d.meta,
         \A b \in Writes : Owed(b)' => Held(b)'
  PROVE  CoverInv'
<1>1. ASSUME NEW b \in Writes, Owed(b)', NEW d \in since'
      PROVE  Settled(b)' \/ \E s \in d.meta : s.obj = call'[b].obj /\ s.body >= b
  <2>1. CASE d \in since
    BY <1>1, <2>1 DEF CoverInv, OwedLess, SettledKept
  <2>2. CASE dir'.meta \subseteq d.meta
    BY <1>1, <2>2 DEF Held
  <2> QED BY <2>1, <2>2
<1>2. ASSUME NEW b \in Writes, Owed(b)'
      PROVE  Settled(b)' \/ \E s \in dir'.meta : s.obj = call'[b].obj /\ s.body >= b /\ ~Dying(s)'
  BY <1>2 DEF Held
<1> QED BY <1>1, <1>2 DEF CoverInv

(* Files that were there and are not dying still cover.                    *)
LEMMA HeldKeeps ==
  ASSUME Typed, CoverInv, running, OwedLess, SettledKept, call' = call, DyingIn({}),
         \A s \in dir.meta : ~Dying(s) => s \in dir'.meta
  PROVE  \A b \in Writes : Owed(b)' => Held(b)'
<1>1. ASSUME NEW b \in Writes, Owed(b)' PROVE Held(b)'
  <2>1. Held(b)
    BY <1>1, HeldNow DEF OwedLess
  <2>2. CASE Settled(b)
    BY <2>2 DEF SettledKept, Held
  <2>3. CASE \E s \in dir.meta : s.obj = call[b].obj /\ s.body >= b /\ ~Dying(s)
    <3>1. PICK s \in dir.meta : s.obj = call[b].obj /\ s.body >= b /\ ~Dying(s)
      BY <2>3
    <3>2. s \in Gens
      BY GensKnown DEF Typed
    <3>3. ~Dying(s)' /\ s \in dir'.meta
      BY <3>1, <3>2 DEF DyingIn
    <3> QED BY <3>1, <3>3 DEF Held
  <2> QED BY <2>1, <2>2, <2>3 DEF Held
<1> QED BY <1>1

(* Acknowledging inserts nothing: the write was inserted before.           *)
LEMMA AckNone ==
  ASSUME Typed, WriterInv, NEW w \in Writers, Acknowledge(w)
  PROVE  NoneNew
<1>1. PICK g \in Known :
         /\ writer[w].gen = {g} /\ writer[w].pc = "drop" /\ acked' = acked \cup {g.body}
         /\ WriterIs(w, "idle", {}, {})
  BY AcknowledgeView
<1>2. ASSUME NEW b \in Writes, Inserted(b)' PROVE Inserted(b)
  <2>1. CASE b \in acked'
    BY <1>1, <2>1 DEF Inserted
  <2>2. CASE \E v \in Writers : writer'[v].pc = "drop" /\ \E h \in writer'[v].gen : h.body = b
    <3>1. PICK v \in Writers : writer'[v].pc = "drop" /\ \E h \in writer'[v].gen : h.body = b
      BY <2>2
    <3>2. v # w
      BY <1>1, <3>1 DEF WriterIs
    <3> QED BY <1>1, <3>1, <3>2 DEF WriterIs, Inserted
  <2> QED BY <1>2, <2>1, <2>2 DEF Inserted
<1> QED BY <1>2 DEF NoneNew

(* A new body takes no sidecar away.                                       *)
LEMMA CoverBegins ==
  ASSUME Typed, CoverInv, WriterInv, NEW w \in Writers, NEW o \in Objects, Begin(w, o)
  PROVE  CoverInv'
<1>1. PICK g \in Gens :
           /\ g.obj = o /\ g.seq = nextSeq /\ g.body = begun + 1
           /\ begun' = begun + 1 /\ begun + 1 \in Writes /\ nextSeq' = nextSeq + 1
           /\ running /\ running' = running /\ writer[w].pc = "idle"
           /\ call'[begun + 1].obj = o /\ call'[begun + 1].after = acked
           /\ \A b \in Writes : b # begun + 1 => call'[b] = call[b]
           /\ DOMAIN call' = Writes
           /\ dir'.meta = dir.meta
           /\ \A h : h \in dir'.data <=> h = g \/ (h \in dir.data /\ ~SameName(g, h))
           /\ since' = since \cup {dir'}
           /\ DOMAIN dir' = {"data", "meta"}
           /\ dir' = [data |-> dir'.data, meta |-> dir'.meta]
           /\ WriterIs(w, "meta", {g}, {})
           /\ MapsSame /\ SettledSame /\ LogSame /\ AllFlushers
           /\ acked' = acked /\ queue' = queue /\ attempts' = attempts
           /\ origin' = origin /\ faults' = faults
  BY BeginView
<1>2. DyingIn({}) /\ OwedLess
  BY <1>1, DyingWriter, NewWriter, OwedKeeps DEF LogSame
<1>3. ASSUME NEW b \in Writes, Owed(b)
      PROVE  call'[b] = call[b] /\ (Settled(b) => Settled(b)')
  <2>1. begun \in Nat /\ acked \subseteq 1..begun /\ delivered \subseteq 1..begun
        /\ dropped \subseteq 1..begun
    BY DEF Typed
  <2>2. b \in 1..begun
    <3>1. \A v \in Writers : \A h \in writer[v].gen : h.body \in 1..begun
      BY DEF Typed, Known
    <3> QED BY <1>3, <2>1, <3>1 DEF Owed, Inserted
  <2>3. \A v \in 1..begun : v \in Writes /\ v # begun + 1
    BY <1>1, <2>1, BoundsAssumption DEF Writes
  <2>4. \A v \in 1..begun : call'[v] = call[v]
    BY <1>1, <2>3
  <2> QED BY <1>1, <2>1, <2>2, <2>4 DEF Settled, NotOlder, SettledSame
<1>4. dir \in since /\ dir.meta \subseteq Gens
  BY GensKnown DEF Typed
<1>5. ASSUME NEW b \in Writes, Owed(b)', NEW d \in since'
      PROVE  Settled(b)' \/ \E s \in d.meta : s.obj = call'[b].obj /\ s.body >= b
  <2>1. Owed(b)
    BY <1>2, <1>5 DEF OwedLess
  <2>2. PICK e \in since : e.meta = d.meta
    BY <1>1, <1>4
  <2> QED BY <1>3, <2>1, <2>2 DEF CoverInv
<1>6. ASSUME NEW b \in Writes, Owed(b)'
      PROVE  Settled(b)' \/ \E s \in dir'.meta : s.obj = call'[b].obj /\ s.body >= b /\ ~Dying(s)'
  <2>1. Owed(b)
    BY <1>2, <1>6 DEF OwedLess
  <2>2. Held(b)
    BY <1>1, <2>1, HeldNow
  <2>3. CASE Settled(b)
    BY <1>3, <2>1, <2>3
  <2>4. CASE \E s \in dir.meta : s.obj = call[b].obj /\ s.body >= b /\ ~Dying(s)
    <3>1. PICK s \in dir.meta : s.obj = call[b].obj /\ s.body >= b /\ ~Dying(s)
      BY <2>4
    <3>2. ~Dying(s)' /\ s \in dir'.meta /\ call'[b] = call[b]
      BY <1>1, <1>2, <1>3, <1>4, <2>1, <3>1 DEF DyingIn
    <3> QED BY <3>1, <3>2
  <2> QED BY <2>2, <2>3, <2>4 DEF Held
<1> QED BY <1>5, <1>6 DEF CoverInv

(* The steps of a stage call around its insert take no cover away.         *)
LEMMA CoverWriters ==
  ASSUME Typed, MapInv, WriterInv, DownInv, FileInv, NumberInv, CoverInv, NEW w \in Writers,
         CommitMeta(w) \/ SyncDir(w) \/ StageFails(w) \/ Acknowledge(w) \/ Drop(w)
  PROVE  CoverInv'
<1>0. running
  <2>1. writer[w].pc # "idle"
    BY DEF CommitMeta, SyncDir, StageFails, Acknowledge, Drop, Now
  <2> QED BY <2>1 DEF DownInv
<1>1. CASE CommitMeta(w)
  <2>1. PICK g \in Known :
           /\ writer[w].gen = {g} /\ writer[w].pc = "meta"
           /\ dir'.data = dir.data
           /\ \A h : h \in dir'.meta <=> h = g \/ (h \in dir.meta /\ ~SameName(g, h))
           /\ since' = since \cup {dir'}
           /\ WriterIs(w, "sync", writer[w].gen, writer[w].old)
           /\ WritesSame /\ SettledSame /\ LogSame /\ AllFlushers
    BY <1>1, CommitMetaView
  <2>2. writer[w].old = {}
    BY <2>1 DEF WriterInv, Early
  <2>3. DyingIn({}) /\ OwedLess /\ SettledKept
    <3>1. NoneNew
      BY <2>1, NewWriter DEF WritesSame
    <3> QED BY <2>1, <2>2, <3>1, DyingWriter, OwedKeeps, SettledKeeps
            DEF WritesSame, LogSame, SettledSame
  <2>4. \A s \in dir.meta : s \in dir'.meta
    BY <2>1, CommitKeeps
  <2>5. \A b \in Writes : Owed(b)' => Held(b)'
    BY <1>0, <2>1, <2>3, <2>4, HeldKeeps DEF WritesSame
  <2> QED BY <2>1, <2>3, <2>5, CoverOf DEF WritesSame
<1>2. CASE SyncDir(w)
  <2>1. /\ writer[w].pc = "sync" /\ dir' = dir /\ since' = {dir}
        /\ WriterIs(w, "insert", writer[w].gen, writer[w].old)
        /\ WritesSame /\ SettledSame /\ LogSame /\ AllFlushers
    BY <1>2, SyncDirView
  <2>2. writer[w].old = {}
    BY <2>1 DEF WriterInv, Early
  <2>3. DyingIn({}) /\ OwedLess /\ SettledKept
    <3>1. NoneNew
      BY <2>1, NewWriter DEF WritesSame
    <3> QED BY <2>1, <2>2, <3>1, DyingWriter, OwedKeeps, SettledKeeps
            DEF WritesSame, LogSame, SettledSame
  <2>5. \A b \in Writes : Owed(b)' => Held(b)'
    BY <1>0, <2>1, <2>3, HeldKeeps DEF WritesSame
  <2> QED BY <2>1, <2>3, <2>5, CoverOf DEF WritesSame
<1>3. CASE StageFails(w) \/ Acknowledge(w)
  <2>1. /\ WriterIs(w, "idle", {}, {}) /\ DirSame /\ SettledSame /\ LogSame /\ AllFlushers
        /\ call' = call
    BY <1>3, StageFailsView, AcknowledgeView DEF WritesSame
  <2>2. NoneNew
    <3>1. CASE StageFails(w)
      <4>1. acked' = acked
        BY <3>1, StageFailsView DEF WritesSame
      <4> QED BY <2>1, <4>1, NewWriter
    <3>2. CASE Acknowledge(w)
      BY <3>2, AckNone
    <3> QED BY <1>3, <3>1, <3>2
  <2>3. DyingIn({}) /\ OwedLess /\ SettledKept
    BY <2>1, <2>2, DyingWriter, OwedKeeps, SettledKeeps DEF LogSame, SettledSame
  <2>4. dir' = dir /\ since' = since
    BY <2>1 DEF DirSame
  <2>5. \A b \in Writes : Owed(b)' => Held(b)'
    BY <1>0, <2>1, <2>3, <2>4, HeldKeeps
  <2> QED BY <2>1, <2>3, <2>4, <2>5, CoverOf
<1>4. CASE Drop(w)
  <2>1. /\ writer[w].pc = "drop"
        /\ Removed(writer[w].old)
        /\ WriterIs(w, "drop", writer[w].gen, {})
        /\ WritesSame /\ SettledSame /\ LogSame /\ AllFlushers
    BY <1>4, DropView
  <2>2. DyingIn({}) /\ OwedLess /\ SettledKept
    <3>1. NoneNew
      BY <2>1, NewWriter DEF WritesSame
    <3> QED BY <2>1, <3>1, DyingWriter, OwedKeeps, SettledKeeps DEF WritesSame, LogSame, SettledSame
  <2>3. \A s \in dir.meta : ~Dying(s) => s \in dir'.meta
    BY <2>1 DEF Removed, Dying
  <2>4. \A b \in Writes : Owed(b)' => Held(b)'
    BY <1>0, <2>1, <2>2, <2>3, HeldKeeps DEF WritesSame
  <2>5. \A d \in since' : d \in since \/ dir'.meta \subseteq d.meta
    BY <2>1 DEF Removed
  <2> QED BY <2>1, <2>2, <2>4, <2>5, CoverOf DEF WritesSame
<1> QED BY <1>1, <1>2, <1>3, <1>4

(* Until an upload ends no cover is lost.                                  *)
LEMMA CoverQuiet ==
  ASSUME Typed, FlusherInv, DownInv, CoverInv, NEW f \in Flushers, Quiet(f)
  PROVE  CoverInv'
<1>0. running
  <2>1. CASE flusher[f].pc = "idle"
    BY <2>1 DEF Quiet, Take, TakeNone, ReadStaged, PutOk, PutFails, Doing
  <2>2. CASE flusher[f].pc # "idle"
    BY <2>2 DEF DownInv
  <2> QED BY <2>1, <2>2
<1>1. /\ DyingIn({}) /\ NoneNew /\ DirSame /\ WritesSame
      /\ LogSame /\ dropped' = dropped /\ delivered \subseteq delivered'
  BY QuietView
<1>2. OwedLess /\ SettledKept
  BY <1>1, OwedKeeps, SettledKeeps DEF LogSame, WritesSame
<1>3. \A b \in Writes : Owed(b)' => Held(b)'
  BY <1>0, <1>1, <1>2, HeldKeeps DEF WritesSame, DirSame
<1> QED BY <1>1, <1>2, <1>3, CoverOf DEF WritesSame, DirSame

(* The files that a task removes covered nothing: they were dying.         *)
LEMMA CoverRetire ==
  ASSUME Typed, FlusherInv, DownInv, CoverInv, NEW f \in Flushers, Retire(f)
  PROVE  CoverInv'
<1>1. /\ flusher[f].pc = "drop"
      /\ Removed(flusher[f].gen)
      /\ FlusherIs(f, "idle", {})
      /\ WritesSame /\ SettledSame /\ LogSame /\ AllWriters
  BY RetireView
<1>2. running
  BY <1>1 DEF DownInv
<1>3. DyingIn({}) /\ OwedLess /\ SettledKept
  BY <1>1, DyingOthers, QuietWriters, OwedKeeps, SettledKeeps DEF WritesSame, LogSame, SettledSame
<1>4. \A s \in dir.meta : ~Dying(s) => s \in dir'.meta
  BY <1>1 DEF Removed, Dying
<1>5. \A b \in Writes : Owed(b)' => Held(b)'
  BY <1>1, <1>2, <1>3, <1>4, HeldKeeps DEF WritesSame
<1>6. \A d \in since' : d \in since \/ dir'.meta \subseteq d.meta
  BY <1>1 DEF Removed
<1> QED BY <1>1, <1>3, <1>5, <1>6, CoverOf DEF WritesSame

(* The object of a file's write.                                           *)
LEMMA FileCall ==
  ASSUME Typed, DirInv, NEW g \in dir.meta
  PROVE  g \in Gens /\ call[g.body].obj = g.obj
BY GensKnown DEF Typed, DirInv

(* A write that is not older has reached the origin, or is given up.       *)
LEMMA SettledBy ==
  ASSUME Typed, DirInv, call' = call, NEW g \in dir.meta, NEW b \in Writes,
         g.obj = call[b].obj, g.body \notin call[b].after, g.body \in delivered' \cup dropped'
  PROVE  Settled(b)'
<1>1. call[g.body].obj = g.obj
  BY FileCall
<1> QED BY <1>1 DEF Settled, NotOlder

(* A write begun with b or later was not acknowledged before b began.      *)
LEMMA NotAfter ==
  ASSUME CallInv, NEW b \in Writes, NEW n \in Nat, n >= b
  PROVE  n \notin call[b].after
<1>1. b \in Nat
  BY DEF Writes
<1>2. \A a \in call[b].after : a < b
  BY DEF CallInv
<1> QED BY <1>1, <1>2

(* What is inserted is placed.                                             *)
LEMMA PlacedInserted ==
  ASSUME NEW b, Inserted(b)
  PROVE  b \in Placed
<1>1. CASE b \in acked
  BY <1>1 DEF Placed
<1>2. CASE \E w \in Writers : writer[w].pc = "drop" /\ \E g \in writer[w].gen : g.body = b
  <2>1. PICK w \in Writers : writer[w].pc = "drop" /\ \E g \in writer[w].gen : g.body = b
    BY <1>2
  <2>2. w \in {v \in Writers : Now(v, "drop")} /\ b \in Bodies(writer[w].gen)
    BY <2>1 DEF Now, Bodies
  <2>3. b \in UNION {Bodies(writer[u].gen) : u \in {v \in Writers : Now(v, "drop")}}
    BY <2>2, Zenon
  <2> QED BY <2>3 DEF Placed
<1> QED BY <1>1, <1>2 DEF Inserted

(* What an insertion adds to the writes that are owed.                     *)
LEMMA InsertOwed ==
  ASSUME Typed, WriterInv, NEW w \in Writers, NEW g \in Known, writer[w].gen = {g},
         \E old : WriterIs(w, "drop", {g}, old), acked' = acked,
         lost' = (lost \ Covered(g)) \cup Overtaken(g), call[g.body].obj = g.obj, g.body \in Nat
  PROVE  \A b \in Writes : Owed(b)' => b \in Covered(g) \/ (Owed(b) /\ b \notin Overtaken(g))
<1>1. PICK old : WriterIs(w, "drop", {g}, old)
  OBVIOUS
<1>2. ASSUME NEW b \in Writes, Inserted(b)', b # g.body PROVE Inserted(b)
  <2>1. CASE b \in acked
    BY <2>1 DEF Inserted
  <2>2. CASE \E v \in Writers : writer'[v].pc = "drop" /\ \E h \in writer'[v].gen : h.body = b
    <3>1. PICK v \in Writers : writer'[v].pc = "drop" /\ \E h \in writer'[v].gen : h.body = b
      BY <2>2
    <3>2. v # w
      BY <1>1, <1>2, <3>1 DEF WriterIs
    <3> QED BY <1>1, <3>1, <3>2 DEF WriterIs, Inserted
  <2> QED BY <1>2, <2>1, <2>2 DEF Inserted
<1>3. ASSUME NEW b \in Writes, b = g.body PROVE b \in Covered(g)
  BY <1>3 DEF Covered
<1>4. ASSUME NEW b \in Writes, Owed(b)', b \notin Covered(g)
      PROVE  Owed(b) /\ b \notin Overtaken(g)
  <2>1. Inserted(b)' /\ b \notin lost'
    BY <1>4 DEF Owed
  <2>2. Inserted(b)
    BY <1>2, <1>3, <1>4, <2>1
  <2> QED BY <1>4, <2>1, <2>2 DEF Owed
<1> QED BY <1>4

(* An older generation that replaces one as new as b: the write is counted *)
(* as overtaken, unless it is being uploaded.                              *)
LEMMA Overtakes ==
  ASSUME Typed, NumberInv, NEW g \in Gens, Upcoming(g), NEW b \in Writes, Owed(b),
         call[b].obj = g.obj, ~(g.body >= b),
         NEW q \in dir.meta, q \in pending[g.obj] \cup failed[g.obj], q.obj = g.obj, q.body >= b
  PROVE  b \in Overtaken(g) \/ b \in Bodies(inflight[g.obj])
<1>1. q \in Gens
  BY GensKnown DEF Typed
<1>2. b \in Nat /\ g.body \in Nat /\ q.body \in Nat /\ g.seq \in Nat /\ q.seq \in Nat
  BY <1>1, GenFields DEF Writes
<1>3. b > g.body /\ g.body < q.body
  BY <1>2
<1>4. InOrder(g, q)
  BY <1>1 DEF NumberInv
<1>5. q.seq > g.seq
  BY <1>2, <1>3, <1>4 DEF InOrder
<1>6. b \in Placed
  BY PlacedInserted DEF Owed
<1> QED BY <1>3, <1>5, <1>6 DEF Overtaken

(* What an insert replaces it covers itself, unless it overtakes.          *)
LEMMA CoverInsert ==
  ASSUME Typed, MapInv, WriterInv, DownInv, DirInv, FileInv, NumberInv, CoverInv,
         NEW w \in Writers, Insert(w)
  PROVE  CoverInv'
<1>1. PICK g \in Known :
           /\ writer[w].gen = {g} /\ writer[w].pc = "insert" /\ g.obj \in Objects
           /\ pending'[g.obj] = {g} /\ failed'[g.obj] = {} /\ inflight' = inflight
           /\ lost' = (lost \ Covered(g)) \cup Overtaken(g)
           /\ WriterIs(w, "drop", {g}, pending[g.obj] \cup failed[g.obj])
           /\ DirSame /\ WritesSame /\ SettledSame /\ AllFlushers
           /\ running' = running
  BY InsertView
<1>2. running
  BY <1>1 DEF DownInv
<1>3. /\ g \in Gens /\ Upcoming(g) /\ ~Has(g) /\ ~Dying(g)
      /\ g \in dir.meta /\ \A d \in since : g \in d.meta
  <2>1. g \in Gens
    BY GensKnown
  <2>2. Upcoming(g)
    BY <1>1 DEF Upcoming, Early
  <2> QED BY <1>1, <2>1, <2>2 DEF FileInv
<1>4. call[g.body].obj = g.obj /\ g.body \in Nat
  BY <1>3, FileCall, GenFields
<1>5. dir' = dir /\ since' = since /\ call' = call /\ SettledKept
  BY <1>1, SettledKeeps DEF DirSame, WritesSame, SettledSame
<1>6. \A b \in Writes : Owed(b)' => b \in Covered(g) \/ (Owed(b) /\ b \notin Overtaken(g))
  BY <1>1, <1>4, InsertOwed DEF WritesSame
<1>7. DyingIn(pending[g.obj] \cup failed[g.obj])
  BY <1>1, DyingWriter
<1>8. ~Dying(g)'
  <2>1. g \notin pending[g.obj] \cup failed[g.obj]
    BY <1>3 DEF Has
  <2> QED BY <1>3, <1>7, <2>1 DEF DyingIn
<1>9. ASSUME NEW b \in Writes, Owed(b)', NEW d \in since'
      PROVE  Settled(b)' \/ \E s \in d.meta : s.obj = call'[b].obj /\ s.body >= b
  <2>1. CASE b \in Covered(g)
    <3>1. g \in d.meta /\ g.obj = call'[b].obj /\ g.body >= b
      BY <1>3, <1>4, <1>5, <2>1 DEF Covered, Writes
    <3> QED BY <3>1
  <2>2. CASE Owed(b)
    BY <1>5, <1>9, <2>2 DEF CoverInv, SettledKept
  <2> QED BY <1>6, <1>9, <2>1, <2>2
<1>10. ASSUME NEW b \in Writes, Owed(b)'
       PROVE  Settled(b)' \/ \E s \in dir'.meta : s.obj = call'[b].obj /\ s.body >= b /\ ~Dying(s)'
  <2>1. CASE b \in Covered(g)
    <3>1. g \in dir'.meta /\ g.obj = call'[b].obj /\ g.body >= b
      BY <1>3, <1>4, <1>5, <2>1 DEF Covered, Writes
    <3> QED BY <1>8, <3>1
  <2>2. CASE b \notin Covered(g)
    <3>1. Owed(b) /\ b \notin Overtaken(g)
      BY <1>6, <1>10, <2>2
    <3>2. Held(b)
      BY <1>2, <3>1, HeldNow
    <3>3. CASE Settled(b)
      BY <1>5, <3>3 DEF SettledKept
    <3>4. CASE \E s \in dir.meta : s.obj = call[b].obj /\ s.body >= b /\ ~Dying(s)
      <4>1. PICK s \in dir.meta : s.obj = call[b].obj /\ s.body >= b /\ ~Dying(s)
        BY <3>4
      <4>2. s \in Gens
        BY FileCall
      <4>3. CASE s \notin pending[g.obj] \cup failed[g.obj]
        <5>1. ~Dying(s)'
          BY <1>7, <4>1, <4>2, <4>3 DEF DyingIn
        <5> QED BY <1>5, <4>1, <5>1
      <4>4. CASE s \in pending[g.obj] \cup failed[g.obj]
        <5>1. s.obj = g.obj
          BY <1>1, <4>4 DEF MapInv
        <5>2. CASE g.body >= b
          BY <1>3, <1>5, <1>8, <4>1, <5>1, <5>2
        <5>3. CASE ~(g.body >= b)
          <6>1. b \in Bodies(inflight[g.obj])
            BY <1>3, <3>1, <4>1, <4>4, <5>1, <5>3, Overtakes
          <6>2. PICK i \in inflight[g.obj] : i.body = b
            BY <6>1 DEF Bodies
          <6>3. i.obj = g.obj /\ i \notin pending[g.obj] \cup failed[g.obj]
            BY <1>1, <6>2 DEF MapInv
          <6>4. i \in Gens
            BY <1>1, <6>2, GensKnown DEF Typed
          <6>5. Has(i)
            BY <6>2, <6>3 DEF Has
          <6>6. i \in dir.meta /\ ~Dying(i)
            BY <1>1, <6>3, <6>4, <6>5 DEF FileInv
          <6>7. ~Dying(i)'
            BY <1>7, <6>3, <6>4, <6>6 DEF DyingIn
          <6>8. i.body >= b
            BY <6>2, <6>4, GenFields
          <6> QED BY <1>5, <4>1, <5>1, <6>3, <6>6, <6>7, <6>8
        <5> QED BY <5>2, <5>3
      <4> QED BY <4>3, <4>4
    <3> QED BY <3>2, <3>3, <3>4 DEF Held
  <2> QED BY <2>1, <2>2
<1> QED BY <1>9, <1>10 DEF CoverInv

(* A generation that dies is settled, or a newer one that waits covers.    *)
LEMMA CoverEnds ==
  ASSUME Typed, MapInv, FlusherInv, DownInv, CallInv, DirInv, FileInv, CoverInv,
         NEW f \in Flushers, Ends(f)
  PROVE  CoverInv'
<1>1. PICK g \in Known :
           /\ flusher[f].gen = {g} /\ g.obj \in Objects
           /\ inflight[g.obj] = {g}
           /\ NoneNew /\ DirSame /\ WritesSame /\ LogSame
           /\ running' = running /\ delivered' = delivered /\ dropped \subseteq dropped'
           /\ \/ /\ DyingIn({g})
                 /\ g.body \in delivered' \cup dropped' \/ Superseded(g)
              \/ DyingIn({})
  BY EndsView
<1>2. dir' = dir /\ since' = since /\ call' = call /\ SettledKept /\ OwedLess
  BY <1>1, SettledKeeps, OwedKeeps DEF DirSame, WritesSame, LogSame
<1>3. running
  BY <1>1 DEF DownInv
<1>4. CASE DyingIn({})
  <2>1. \A b \in Writes : Owed(b)' => Held(b)'
    BY <1>2, <1>3, <1>4, HeldKeeps
  <2> QED BY <1>2, <2>1, CoverOf
<1>5. CASE DyingIn({g}) /\ (g.body \in delivered' \cup dropped' \/ Superseded(g))
  <2>1. g \in Gens /\ Has(g) /\ g \in dir.meta
    <3>1. g \in Gens /\ Has(g)
      BY <1>1, GensKnown DEF Has
    <3> QED BY <1>1, <3>1 DEF FileInv
  <2>2. ASSUME NEW b \in Writes, Owed(b)' PROVE Held(b)'
    <3>1. Held(b)
      BY <1>2, <1>3, <2>2, HeldNow DEF OwedLess
    <3>2. CASE Settled(b)
      BY <1>2, <3>2 DEF SettledKept, Held
    <3>3. CASE \E s \in dir.meta : s.obj = call[b].obj /\ s.body >= b /\ ~Dying(s)
      <4>1. PICK s \in dir.meta : s.obj = call[b].obj /\ s.body >= b /\ ~Dying(s)
        BY <3>3
      <4>2. s \in Gens
        BY FileCall
      <4>3. CASE s # g
        <5>1. ~Dying(s)'
          BY <1>5, <4>1, <4>2, <4>3 DEF DyingIn
        <5> QED BY <1>2, <4>1, <5>1 DEF Held
      <4>4. CASE s = g /\ g.body \in delivered' \cup dropped'
        <5>1. g.body \notin call[b].after
          BY <4>1, <4>2, <4>4, NotAfter, GenFields
        <5>2. Settled(b)'
          BY <1>2, <2>1, <4>1, <4>4, <5>1, SettledBy
        <5> QED BY <5>2 DEF Held
      <4>5. CASE s = g /\ Superseded(g)
        <5>1. PICK p \in pending[g.obj] : p.seq > g.seq
          BY <4>5 DEF Superseded
        <5>2. p.obj = g.obj /\ p \in Gens
          BY <1>1, <5>1, GensKnown DEF MapInv, Typed
        <5>3. p \in dir.meta /\ ~Dying(p)
          BY <1>1, <5>1, <5>2 DEF FileInv, Has
        <5>4. p.seq \in Nat /\ g.seq \in Nat /\ p.body \in Nat /\ g.body \in Nat /\ b \in Nat
          BY <2>1, <5>2, GenFields DEF Writes
        <5>5. g.body < p.body
          <6>1. g.seq < p.seq
            BY <5>1, <5>4
          <6> QED BY <2>1, <5>2, <5>3, <6>1, DirOrder
        <5>6. p.body >= b /\ p # g
          BY <4>1, <4>5, <5>4, <5>5
        <5>7. ~Dying(p)'
          BY <1>5, <5>2, <5>3, <5>6 DEF DyingIn
        <5> QED BY <1>2, <4>1, <4>5, <5>2, <5>3, <5>6, <5>7 DEF Held
      <4> QED BY <1>5, <4>3, <4>4, <4>5
    <3> QED BY <3>1, <3>2, <3>3 DEF Held
  <2> QED BY <1>2, <2>2, CoverOf
<1> QED BY <1>1, <1>4, <1>5

(* What retry_failed removes is covered by the newer one that waits.       *)
LEMMA CoverRetry ==
  ASSUME Typed, MapInv, DirInv, FileInv, CoverInv, RetryFailed
  PROVE  CoverInv'
<1>1. PICK dead :
           /\ Removed(dead)
           /\ \A g \in dead : g \in Known /\ g \in failed[g.obj] /\ Superseded(g)
           /\ WritesSame /\ SettledSame /\ LogSame /\ AllWriters /\ AllFlushers
           /\ running
  BY RetryFailedView
<1>2. OwedLess /\ SettledKept /\ DyingIn({}) /\ call' = call
  BY <1>1, OwedKeeps, SettledKeeps, QuietWriters, QuietAll DEF WritesSame, LogSame, SettledSame
<1>3. dir'.meta = dir.meta \ dead /\ \A d \in since' : d \in since \/ dir'.meta \subseteq d.meta
  BY <1>1 DEF Removed
<1>4. ASSUME NEW b \in Writes, Owed(b)' PROVE Held(b)'
  <2>1. Held(b)
    BY <1>1, <1>2, <1>4, HeldNow DEF OwedLess
  <2>2. CASE Settled(b)
    BY <1>2, <2>2 DEF SettledKept, Held
  <2>3. CASE \E s \in dir.meta : s.obj = call[b].obj /\ s.body >= b /\ ~Dying(s)
    <3>1. PICK s \in dir.meta : s.obj = call[b].obj /\ s.body >= b /\ ~Dying(s)
      BY <2>3
    <3>2. s \in Gens
      BY FileCall
    <3>3. CASE s \notin dead
      <4>1. ~Dying(s)' /\ s \in dir'.meta
        BY <1>2, <1>3, <3>1, <3>2, <3>3 DEF DyingIn
      <4> QED BY <1>2, <3>1, <4>1 DEF Held
    <3>4. CASE s \in dead
      <4>1. PICK p \in pending[s.obj] : p.seq > s.seq
        BY <1>1, <3>4 DEF Superseded
      <4>2. s.obj \in Objects
        BY <3>2, GenFields
      <4>3. p.obj = s.obj /\ p \in Gens /\ p \notin failed[s.obj]
        BY <4>1, <4>2, GensKnown DEF MapInv, Typed
      <4>4. p \in dir.meta /\ ~Dying(p)
        BY <4>1, <4>2, <4>3 DEF FileInv, Has
      <4>5. p.seq \in Nat /\ s.seq \in Nat /\ p.body \in Nat /\ s.body \in Nat /\ b \in Nat
        BY <3>2, <4>3, GenFields DEF Writes
      <4>6. s.body < p.body
        <5>1. s.seq < p.seq
          BY <4>1, <4>5
        <5> QED BY <3>1, <4>3, <4>4, <5>1, DirOrder
      <4>7. p.body >= b /\ p \notin dead
        BY <1>1, <3>1, <4>3, <4>5, <4>6
      <4>8. ~Dying(p)' /\ p \in dir'.meta
        BY <1>2, <1>3, <4>3, <4>4, <4>7 DEF DyingIn
      <4> QED BY <1>2, <3>1, <4>3, <4>7, <4>8 DEF Held
    <3> QED BY <3>3, <3>4
  <2> QED BY <2>1, <2>2, <2>3 DEF Held
<1> QED BY <1>2, <1>3, <1>4, CoverOf

(* Whatever directory a power loss leaves has a cover.                     *)
LEMMA CoverStop ==
  ASSUME Typed, CoverInv, Crash \/ PowerLoss
  PROVE  CoverInv'
<1>1. /\ running' = FALSE /\ WritesSame /\ SettledSame /\ LogSame
      /\ \A w \in Writers : writer'[w].pc = "idle"
  BY StopView DEF Crash, PowerLoss
<1>2. since' \subseteq since
  BY DEF Crash, PowerLoss
<1>3. OwedLess
  <2>1. NoneNew
    BY <1>1 DEF NoneNew, Inserted, WritesSame
  <2> QED BY <1>1, <2>1, OwedKeeps DEF LogSame
<1>4. SettledKept /\ call' = call
  BY <1>1, SettledKeeps DEF WritesSame, SettledSame
<1> QED BY <1>1, <1>2, <1>3, <1>4 DEF CoverInv, OwedLess, SettledKept

(* Recovery keeps, for every file, one of its object that is as new.       *)
LEMMA NewestIn ==
  ASSUME Typed, DirInv, NEW d \in since, NEW s \in d.meta
  PROVE  \E n \in Newest(d) : n.obj = s.obj /\ n.body >= s.body
<1> DEFINE M == {g \in d.meta : g.obj = s.obj}
           S == {g.seq : g \in M}
<1>1. begun \in Nat /\ \A g \in d.meta : g \in Known
  BY DEF Typed
<1>2. \A g \in d.meta : g.seq \in 1..begun /\ g.body \in 1..begun
  BY <1>1, KnownFields
<1>3. S \subseteq 0..begun /\ S # {}
  BY <1>1, <1>2
<1>4. PICK u \in S : \A v \in S : v <= u
  <2> HIDE DEF S
  <2> QED BY <1>1, <1>3, GreatestIn
<1>5. PICK n \in M : n.seq = u
  BY <1>4
<1>6. n \in d.meta /\ n.obj = s.obj
  BY <1>5
<1>7. ASSUME NEW h \in d.meta, h.obj = n.obj PROVE h.seq <= n.seq
  <2>1. h.seq \in S
    BY <1>6, <1>7
  <2> QED BY <1>4, <1>5, <2>1
<1>8. n \in Newest(d)
  BY <1>6, <1>7 DEF Newest
<1>9. n.body >= s.body
  <2>1. s.seq <= n.seq
    BY <1>6, <1>7
  <2>2. ~(n.seq < s.seq)
    BY <1>1, <1>2, <1>6, <2>1
  <2>3. ~(n.body < s.body)
    BY <1>6, <2>2 DEF DirInv, InOrder
  <2> QED BY <1>1, <1>2, <1>6, <2>3
<1> QED BY <1>6, <1>8, <1>9

(* The same for the present directory.                                     *)
LEMMA NewestCovers ==
  ASSUME Typed, DirInv, NEW s \in dir.meta
  PROVE  \E n \in Newest(dir) : n.obj = s.obj /\ n.body >= s.body
<1>1. dir \in since
  BY DEF Typed
<1> QED BY <1>1, NewestIn

(* What recovery keeps covers what is owed.                                *)
LEMMA CoverRecovers ==
  ASSUME Typed, WriterInv, DownInv, DirInv, CoverInv, Recover
  PROVE  CoverInv'
<1>1. /\ ~running /\ dir'.meta = Newest(dir) /\ since' = since \cup {dir'}
      /\ WritesSame /\ SettledSame /\ lost' = lost /\ AllWriters /\ AllFlushers
  BY RecoverView
<1>2. OwedLess /\ SettledKept /\ DyingIn({}) /\ call' = call
  BY <1>1, OwedKeeps, SettledKeeps, QuietWriters, QuietAll DEF WritesSame, SettledSame
<1>3. \A g \in Gens : ~Dying(g)'
  BY <1>1, <1>2, DownDying DEF DyingIn
<1>4. ASSUME NEW b \in Writes, Owed(b)' PROVE Held(b)'
  <2>1. Settled(b) \/ \E s \in dir.meta : s.obj = call[b].obj /\ s.body >= b
    BY <1>2, <1>4 DEF OwedLess, CoverInv, Typed
  <2>2. CASE Settled(b)
    BY <1>2, <2>2 DEF SettledKept, Held
  <2>3. CASE \E s \in dir.meta : s.obj = call[b].obj /\ s.body >= b
    <3>1. PICK s \in dir.meta : s.obj = call[b].obj /\ s.body >= b
      BY <2>3
    <3>2. PICK n \in Newest(dir) : n.obj = s.obj /\ n.body >= s.body
      BY NewestCovers
    <3>3. n \in dir.meta
      BY DEF Newest
    <3>4. n \in Gens /\ s \in Gens
      BY <3>3, FileCall
    <3>5. n.body \in Nat /\ s.body \in Nat /\ b \in Nat
      BY <3>4, GenFields DEF Writes
    <3>6. n.body >= b
      BY <3>1, <3>2, <3>5
    <3> QED BY <1>1, <1>2, <1>3, <3>1, <3>2, <3>4, <3>6 DEF Held
  <2> QED BY <2>1, <2>2, <2>3
<1> QED BY <1>1, <1>2, <1>4, CoverOf

----------------------------------------------------------------------------
(* What is staged is not older than what is owed                           *)

\* The object of b is staged.
InHand(b) == Settled(b) \/ \E s \in Gens : s.obj = call[b].obj /\ Has(s)

\* The staged generation x does not stand for something newer than b.
Fresh(x, b) ==
  x.obj = call[b].obj /\ Has(x) /\ x.body \in call[b].after =>
         \/ x.body \in recovered /\ Settled(b)
         \/ x \in inflight[x.obj] /\ \E q \in pending[x.obj] : q.body >= b

(* The parts of StageInv in the next state.                                *)
LEMMA StageInvOf ==
  ASSUME \A b \in Writes : Owed(b)' => (running' => InHand(b)') /\ \A x \in Gens : Fresh(x, b)'
  PROVE  StageInv'
BY DEF StageInv, InHand, Fresh

(* The parts of StageInv.                                                  *)
LEMMA StageNow ==
  ASSUME StageInv, NEW b \in Writes, Owed(b)
  PROVE  (running => InHand(b)) /\ \A x \in Gens : Fresh(x, b)
BY DEF StageInv, InHand, Fresh

(* Steps that leave the maps alone keep StageInv.                          *)
LEMMA StageFrame ==
  ASSUME StageInv, MapsSame, call' = call, recovered' = recovered, OwedLess, SettledKept,
         running' => running
  PROVE  StageInv'
<1>1. ASSUME NEW b \in Writes, Owed(b)'
      PROVE  (running' => InHand(b)') /\ \A x \in Gens : Fresh(x, b)'
  <2>1. Owed(b) /\ (Settled(b) => Settled(b)')
    BY <1>1 DEF OwedLess, SettledKept
  <2>2. (running => InHand(b)) /\ \A x \in Gens : Fresh(x, b)
    BY <2>1, StageNow
  <2>3. \A x \in Gens : Has(x)' <=> Has(x)
    BY DEF MapsSame, Has
  <2>4. running' => InHand(b)'
    BY <2>1, <2>2, <2>3 DEF InHand
  <2>5. \A x \in Gens : Fresh(x, b)'
    BY <2>1, <2>2, <2>3 DEF Fresh, MapsSame
  <2> QED BY <2>4, <2>5
<1> QED BY <1>1, StageInvOf

(* Steps that leave the maps alone keep AgeInv.                            *)
LEMMA AgeFrame ==
  ASSUME AgeInv, MapsSame, call' = call, recovered' = recovered
  PROVE  AgeInv'
BY DEF AgeInv, MapsSame, Has

(* Steps that stage and deliver nothing keep OriginInv.                    *)
LEMMA OriginFrame ==
  ASSUME OriginInv, HasLess, call' = call, recovered' = recovered, delivered' = delivered,
         origin' = origin
  PROVE  OriginInv'
BY DEF OriginInv, HasLess

(* What is inserted was begun.                                             *)
LEMMA OwedBegun ==
  ASSUME Typed, NEW b, Inserted(b)
  PROVE  b \in 1..begun
<1>1. \A v \in Writers : \A h \in writer[v].gen : h.body \in 1..begun
  BY DEF Typed, Known
<1> QED BY <1>1 DEF Typed, Inserted

(* A new call changes nothing about the earlier ones.                      *)
LEMMA StageBegins ==
  ASSUME Typed, WriterInv, StageInv, AgeInv, OriginInv, NEW w \in Writers, NEW o \in Objects,
         Begin(w, o)
  PROVE  StageInv' /\ AgeInv' /\ OriginInv'
<1>1. PICK g \in Gens :
           /\ g.obj = o /\ g.seq = nextSeq /\ g.body = begun + 1
           /\ begun' = begun + 1 /\ begun + 1 \in Writes /\ nextSeq' = nextSeq + 1
           /\ running /\ running' = running /\ writer[w].pc = "idle"
           /\ call'[begun + 1].obj = o /\ call'[begun + 1].after = acked
           /\ \A b \in Writes : b # begun + 1 => call'[b] = call[b]
           /\ DOMAIN call' = Writes
           /\ dir'.meta = dir.meta
           /\ \A h : h \in dir'.data <=> h = g \/ (h \in dir.data /\ ~SameName(g, h))
           /\ since' = since \cup {dir'}
           /\ DOMAIN dir' = {"data", "meta"}
           /\ dir' = [data |-> dir'.data, meta |-> dir'.meta]
           /\ WriterIs(w, "meta", {g}, {})
           /\ MapsSame /\ SettledSame /\ LogSame /\ AllFlushers
           /\ acked' = acked /\ queue' = queue /\ attempts' = attempts
           /\ origin' = origin /\ faults' = faults
  BY BeginView
<1>2. OwedLess
  BY <1>1, NewWriter, OwedKeeps DEF LogSame
<1>3. begun \in Nat /\ delivered \subseteq 1..begun /\ dropped \subseteq 1..begun
  BY DEF Typed
<1>4. \A v \in 1..begun : v \in Writes /\ call'[v] = call[v]
  <2>1. \A v \in 1..begun : v \in Writes /\ v # begun + 1
    BY <1>1, <1>3, BoundsAssumption DEF Writes
  <2> QED BY <1>1, <2>1
<1>5. \A x \in Gens : Has(x)' <=> Has(x)
  BY <1>1 DEF MapsSame, Has
<1>6. pending' = pending /\ inflight' = inflight /\ recovered' = recovered
      /\ delivered' = delivered /\ dropped' = dropped
  BY <1>1 DEF MapsSame, LogSame, SettledSame
<1>7. ASSUME NEW b \in Writes, Owed(b)'
      PROVE  (running' => InHand(b)') /\ \A x \in Gens : Fresh(x, b)'
  <2>1. Owed(b) /\ b \in 1..begun
    BY <1>2, <1>7, OwedBegun DEF OwedLess, Owed
  <2>2. call'[b] = call[b]
    BY <1>4, <2>1
  <2>3. Settled(b) => Settled(b)'
    BY <1>3, <1>4, <1>6, <2>2 DEF Settled, NotOlder
  <2>4. (running => InHand(b)) /\ \A x \in Gens : Fresh(x, b)
    BY <2>1, StageNow
  <2>5. running' => InHand(b)'
    BY <1>1, <1>5, <2>2, <2>3, <2>4 DEF InHand
  <2>6. \A x \in Gens : Fresh(x, b)'
    BY <1>5, <1>6, <2>2, <2>3, <2>4 DEF Fresh
  <2> QED BY <2>5, <2>6
<1>8. StageInv'
  BY <1>7, StageInvOf
<1>9. ASSUME NEW x \in Gens, Has(x) PROVE x.body \in 1..begun
  BY <1>3, <1>9, KnownUp, KnownFields
<1>10. AgeInv'
  <2>1. ASSUME NEW x \in Gens, NEW y \in Gens, x.obj = y.obj, x.obj \in Objects,
               Has(x)', Has(y)', x.body \in call'[y.body].after
        PROVE  x.body \in recovered' \/ (x \in inflight'[x.obj] /\ y \in pending'[x.obj])
    <3>1. Has(x) /\ Has(y)
      BY <1>5, <2>1
    <3>2. call'[y.body] = call[y.body]
      BY <1>4, <1>9, <3>1
    <3>3. x.body \in recovered \/ (x \in inflight[x.obj] /\ y \in pending[x.obj])
      BY <2>1, <3>1, <3>2 DEF AgeInv
    <3> QED BY <1>6, <3>3
  <2> QED BY <2>1 DEF AgeInv
<1>11. OriginInv'
  <2>1. \A y \in delivered : call'[y] = call[y]
    BY <1>3, <1>4
  <2>2. \A p \in Objects : origin[p] # None => call'[origin[p]] = call[origin[p]]
    BY <1>3, <1>4 DEF OriginInv
  <2> QED BY <1>1, <1>5, <1>6, <2>1, <2>2 DEF OriginInv
<1> QED BY <1>8, <1>10, <1>11

(* Steps of a thread other than the insertion change no map.               *)
LEMMA StageWriters ==
  ASSUME Typed, WriterInv, StageInv, AgeInv, OriginInv, NEW w \in Writers,
         CommitMeta(w) \/ SyncDir(w) \/ StageFails(w) \/ Acknowledge(w) \/ Drop(w)
  PROVE  StageInv' /\ AgeInv' /\ OriginInv'
<1>1. /\ MapsSame /\ SettledSame /\ LogSame /\ call' = call /\ origin' = origin
      /\ running' = running
  BY CommitMetaView, SyncDirView, StageFailsView, AcknowledgeView, DropView DEF WritesSame
<1>2. NoneNew
  <2>1. CASE CommitMeta(w)
    <3>1. WriterIs(w, "sync", writer[w].gen, writer[w].old) /\ acked' = acked
      BY <2>1, CommitMetaView DEF WritesSame
    <3> QED BY <3>1, NewWriter
  <2>2. CASE SyncDir(w)
    <3>1. WriterIs(w, "insert", writer[w].gen, writer[w].old) /\ acked' = acked
      BY <2>2, SyncDirView DEF WritesSame
    <3> QED BY <3>1, NewWriter
  <2>3. CASE StageFails(w)
    <3>1. WriterIs(w, "idle", {}, {}) /\ acked' = acked
      BY <2>3, StageFailsView DEF WritesSame
    <3> QED BY <3>1, NewWriter
  <2>4. CASE Drop(w)
    <3>1. WriterIs(w, "drop", writer[w].gen, {}) /\ acked' = acked /\ writer[w].pc = "drop"
      BY <2>4, DropView DEF WritesSame
    <3> QED BY <3>1, NewWriter
  <2>5. CASE Acknowledge(w)
    BY <2>5, AckNone
  <2> QED BY <2>1, <2>2, <2>3, <2>4, <2>5
<1>3. OwedLess /\ SettledKept /\ HasLess
  BY <1>1, <1>2, OwedKeeps, SettledKeeps, HasFrame DEF LogSame, SettledSame
<1>4. StageInv'
  BY <1>1, <1>3, StageFrame DEF LogSame
<1>5. AgeInv'
  BY <1>1, AgeFrame DEF LogSame
<1>6. OriginInv'
  BY <1>1, <1>3, OriginFrame DEF LogSame, SettledSame
<1> QED BY <1>4, <1>5, <1>6

(* An insert stages its write; an older one stays staged only in flight.   *)
LEMMA StageInsert ==
  ASSUME Typed, MapInv, WriterInv, DownInv, CallInv, DirInv, FileInv, NumberInv,
         StageInv, AgeInv, OriginInv, NEW w \in Writers, Insert(w)
  PROVE  StageInv' /\ AgeInv' /\ OriginInv'
<1>1. PICK g \in Known :
           /\ writer[w].gen = {g} /\ writer[w].pc = "insert" /\ g.obj \in Objects
           /\ pending'[g.obj] = {g} /\ failed'[g.obj] = {} /\ inflight' = inflight
           /\ \A o \in Objects : o # g.obj => pending'[o] = pending[o] /\ failed'[o] = failed[o]
           /\ lost' = (lost \ Covered(g)) \cup Overtaken(g)
           /\ WriterIs(w, "drop", {g}, pending[g.obj] \cup failed[g.obj])
           /\ DirSame /\ WritesSame /\ SettledSame /\ recovered' = recovered
           /\ running' = running /\ origin' = origin
  BY InsertView
<1>2. running
  BY <1>1 DEF DownInv
<1>3. g \in Gens /\ Upcoming(g) /\ ~Has(g) /\ g \in dir.meta
  <2>1. g \in Gens
    BY GensKnown
  <2>2. Upcoming(g)
    BY <1>1 DEF Upcoming, Early
  <2> QED BY <1>1, <2>1, <2>2 DEF FileInv
<1>4. call[g.body].obj = g.obj /\ g.body \in Nat /\ g.body \in Writes
  BY <1>3, FileCall, GenFields
<1>5. call' = call /\ SettledKept /\ delivered' = delivered /\ acked' = acked
  BY <1>1, SettledKeeps DEF WritesSame, SettledSame
<1>6. \A b \in Writes : Owed(b)' => b \in Covered(g) \/ (Owed(b) /\ b \notin Overtaken(g))
  BY <1>1, <1>4, <1>5, InsertOwed
<1>7. \A h \in Gens : Has(h)' => h = g \/ (Has(h) /\ (h.obj = g.obj => h \in inflight[h.obj]))
  BY <1>1, InsertHas
<1>8. Has(g)'
  BY <1>1 DEF Has
<1>9. \A b \in Writes : g.body \notin call[b].after
  <2>1. g.body \notin acked
    BY <1>1 DEF WriterInv
  <2> QED BY <2>1 DEF CallInv
<1>10. ASSUME NEW h \in Gens, Has(h), h.obj # g.obj PROVE Has(h)'
  <2>1. h.obj \in Objects
    BY GenFields
  <2> QED BY <1>1, <1>10, <2>1 DEF Has
<1>11. ASSUME NEW b \in Writes, Owed(b)' PROVE InHand(b)'
  <2>1. CASE call[b].obj = g.obj
    BY <1>3, <1>5, <1>8, <2>1 DEF InHand
  <2>2. CASE call[b].obj # g.obj
    <3>1. Owed(b)
      BY <1>6, <1>11, <2>2 DEF Covered
    <3>2. InHand(b)
      BY <1>2, <3>1, StageNow
    <3> QED BY <1>5, <1>10, <2>2, <3>2 DEF InHand, SettledKept
  <2> QED BY <2>1, <2>2
<1>12. ASSUME NEW b \in Writes, Owed(b)', NEW x \in Gens, x.obj = call[b].obj, Has(x)',
              x.body \in call[b].after
       PROVE  \/ x.body \in recovered /\ Settled(b)'
              \/ x \in inflight[x.obj] /\ \E q \in pending'[x.obj] : q.body >= b
  <2>1. x # g /\ Has(x) /\ (x.obj = g.obj => x \in inflight[x.obj]) /\ x.obj \in Objects
    BY <1>7, <1>9, <1>12, GenFields
  <2>2. b \in Nat
    BY DEF Writes
  <2>3. CASE b \in Covered(g)
    <3>1. g \in pending'[x.obj] /\ g.body >= b /\ x.obj = g.obj
      BY <1>1, <1>4, <1>12, <2>2, <2>3 DEF Covered
    <3> QED BY <2>1, <3>1
  <2>4. CASE b \notin Covered(g)
    <3>1. Owed(b) /\ b \notin Overtaken(g)
      BY <1>6, <1>12, <2>4
    <3>2. \/ x.body \in recovered /\ Settled(b)
          \/ x \in inflight[x.obj] /\ \E q \in pending[x.obj] : q.body >= b
      BY <1>12, <2>1, <3>1, StageNow DEF Fresh
    <3>3. CASE x.body \in recovered /\ Settled(b)
      BY <1>5, <3>3 DEF SettledKept
    <3>4. CASE x \in inflight[x.obj] /\ \E q \in pending[x.obj] : q.body >= b
      <4>1. PICK q \in pending[x.obj] : q.body >= b
        BY <3>4
      <4>2. CASE x.obj # g.obj
        <5>1. q \in pending'[x.obj]
          BY <1>1, <2>1, <4>2
        <5> QED BY <3>4, <4>1, <5>1
      <4>3. CASE x.obj = g.obj
        <5>1. CASE g.body >= b
          BY <1>1, <3>4, <4>3, <5>1
        <5>2. CASE ~(g.body >= b)
          <6>1. q.obj = g.obj /\ q \in Gens /\ q \in dir.meta
            <7>1. q.obj = g.obj /\ q \in Gens
              BY <1>1, <4>1, <4>3, GensKnown DEF MapInv, Typed
            <7> QED BY <1>1, <4>1, <4>3, <7>1 DEF FileInv, Has
          <6>2. b \in Bodies(inflight[g.obj])
            BY <1>3, <1>12, <3>1, <4>1, <4>3, <5>2, <6>1, Overtakes
          <6>3. PICK i \in inflight[g.obj] : i.body = b
            BY <6>2 DEF Bodies
          <6>4. i = x
            BY <1>1, <3>4, <4>3, <6>3 DEF MapInv
          <6>5. x.body < b
            BY <1>12 DEF CallInv
          <6> QED BY <2>2, <6>3, <6>4, <6>5
        <5> QED BY <5>1, <5>2
      <4> QED BY <4>2, <4>3
    <3> QED BY <3>2, <3>3, <3>4
  <2> QED BY <2>3, <2>4
<1>13. StageInv'
  <2>1. ASSUME NEW b \in Writes, Owed(b)'
        PROVE  (running' => InHand(b)') /\ \A x \in Gens : Fresh(x, b)'
    <3>1. \A x \in Gens : Fresh(x, b)'
      BY <1>1, <1>5, <1>12, <2>1 DEF Fresh
    <3> QED BY <1>11, <2>1, <3>1
  <2> QED BY <2>1, StageInvOf
<1>14. AgeInv'
  <2>1. ASSUME NEW x \in Gens, NEW y \in Gens, x.obj = y.obj, x.obj \in Objects,
               Has(x)', Has(y)', x.body \in call[y.body].after
        PROVE  x.body \in recovered \/ (x \in inflight[x.obj] /\ y \in pending'[x.obj])
    <3>0. y.body \in Writes /\ y.body \in Nat
      BY GenFields
    <3>1. x # g /\ Has(x) /\ (x.obj = g.obj => x \in inflight[x.obj])
      BY <1>7, <1>9, <2>1, <3>0
    <3>2. x.body < y.body
      BY <2>1, <3>0 DEF CallInv
    <3>3. CASE x.obj = g.obj
      <4>1. CASE y = g
        BY <1>1, <3>1, <3>3, <4>1
      <4>2. CASE y # g
        <5>1. y \in inflight[y.obj]
          BY <1>7, <2>1, <3>3, <4>2
        <5>2. x = y
          BY <2>1, <3>1, <3>3, <5>1 DEF MapInv
        <5> QED BY <3>0, <3>2, <5>2
      <4> QED BY <4>1, <4>2
    <3>4. CASE x.obj # g.obj
      <4>1. Has(y)
        BY <1>7, <2>1, <3>4
      <4>2. x.body \in recovered \/ (x \in inflight[x.obj] /\ y \in pending[x.obj])
        BY <2>1, <3>1, <4>1 DEF AgeInv
      <4> QED BY <1>1, <2>1, <3>4, <4>2
    <3> QED BY <3>3, <3>4
  <2> QED BY <1>1, <1>5, <2>1 DEF AgeInv
<1>15. OriginInv'
  <2>1. ASSUME NEW y \in delivered, NEW x \in Gens, x.obj = call[y].obj, x.obj \in Objects,
               Has(x)', x.body \in call[y].after
        PROVE  x.body \in recovered
    <3>1. y \in Writes
      BY BoundsAssumption DEF Typed, Writes
    <3>2. Has(x)
      BY <1>7, <1>9, <2>1, <3>1
    <3> QED BY <2>1, <3>2 DEF OriginInv
  <2> QED BY <1>1, <1>5, <2>1 DEF OriginInv
<1> QED BY <1>13, <1>14, <1>15

(* What take_next takes waits no longer, and nothing newer is parked.      *)
LEMMA StageTake ==
  ASSUME Typed, MapInv, FlusherInv, StageInv, AgeInv, OriginInv, NEW f \in Flushers, Take(f)
  PROVE  StageInv' /\ AgeInv' /\ OriginInv'
<1>1. PICK o \in Objects :
           /\ inflight[o] = {}
           /\ inflight'[o] = pending[o] /\ pending'[o] = {} /\ failed' = failed
           /\ \A p \in Objects : p # o => pending'[p] = pending[p] /\ inflight'[p] = inflight[p]
           /\ WritesSame /\ SettledSame /\ LogSame
           /\ running' = running /\ origin' = origin
  BY TakeView
<1>2. NoneNew /\ HasLess
  BY QuietView DEF Quiet
<1>3. OwedLess /\ SettledKept /\ call' = call /\ recovered' = recovered /\ delivered' = delivered
  BY <1>1, <1>2, OwedKeeps, SettledKeeps DEF WritesSame, SettledSame, LogSame
<1>4. ASSUME NEW x \in Gens, Has(x) PROVE Has(x)'
  <2>1. x.obj \in Objects
    BY GenFields
  <2> QED BY <1>1, <1>4, <2>1 DEF Has
<1>5. ASSUME NEW b \in Writes, Owed(b)', NEW x \in Gens PROVE Fresh(x, b)'
  <2>1. SUFFICES ASSUME x.obj = call[b].obj, Has(x)', x.body \in call[b].after
                 PROVE  \/ x.body \in recovered /\ Settled(b)'
                        \/ x \in inflight'[x.obj] /\ \E q \in pending'[x.obj] : q.body >= b
    BY <1>3 DEF Fresh
  <2>2. Has(x) /\ Owed(b) /\ x.obj \in Objects
    BY <1>2, <1>3, <1>5, <2>1, GenFields DEF HasLess, OwedLess
  <2>3. \/ x.body \in recovered /\ Settled(b)
        \/ x \in inflight[x.obj] /\ \E q \in pending[x.obj] : q.body >= b
    BY <2>1, <2>2, StageNow DEF Fresh
  <2>4. CASE x.body \in recovered /\ Settled(b)
    BY <1>3, <2>4 DEF SettledKept
  <2>5. CASE x \in inflight[x.obj] /\ \E q \in pending[x.obj] : q.body >= b
    BY <1>1, <2>2, <2>5
  <2> QED BY <2>3, <2>4, <2>5
<1>6. StageInv'
  <2>1. ASSUME NEW b \in Writes, Owed(b)', running' PROVE InHand(b)'
    <3>1. InHand(b)
      BY <1>1, <1>3, <2>1, StageNow DEF OwedLess
    <3> QED BY <1>3, <1>4, <3>1 DEF InHand, SettledKept
  <2> QED BY <1>5, <2>1, StageInvOf
<1>7. AgeInv'
  <2>1. ASSUME NEW x \in Gens, NEW y \in Gens, x.obj = y.obj, x.obj \in Objects,
               Has(x)', Has(y)', x.body \in call[y.body].after
        PROVE  x.body \in recovered \/ (x \in inflight'[x.obj] /\ y \in pending'[x.obj])
    <3>1. Has(x) /\ Has(y)
      BY <1>2, <2>1 DEF HasLess
    <3>2. x.body \in recovered \/ (x \in inflight[x.obj] /\ y \in pending[x.obj])
      BY <2>1, <3>1 DEF AgeInv
    <3> QED BY <1>1, <2>1, <3>2
  <2> QED BY <1>3, <2>1 DEF AgeInv
<1>8. OriginInv'
  BY <1>1, <1>2, <1>3, OriginFrame
<1> QED BY <1>6, <1>7, <1>8

(* The origin takes a generation that is in flight.                        *)
LEMMA OriginLands ==
  ASSUME Typed, MapInv, DirInv, FileInv, AgeInv, OriginInv, NEW g \in Known, g.obj \in Objects,
         g \in inflight[g.obj], Landed(g), MapsSame, call' = call, recovered' = recovered
  PROVE  OriginInv'
<1>1. g \in Gens /\ Has(g)
  BY GensKnown DEF Has
<1>2. call[g.body].obj = g.obj
  BY <1>1, FileCall DEF FileInv
<1>3. /\ origin'[g.obj] = g.body /\ delivered' = delivered \cup {g.body}
      /\ \A o \in Objects : o # g.obj => origin'[o] = origin[o]
  BY DEF Landed
<1>4. \A x \in Gens : Has(x)' => Has(x)
  BY HasFrame DEF HasLess
<1>5. ASSUME NEW y \in delivered', NEW x \in Gens, x.obj = call[y].obj, x.obj \in Objects,
             Has(x)', x.body \in call[y].after
      PROVE  x.body \in recovered
  <2>1. Has(x)
    BY <1>4, <1>5
  <2>2. CASE y \in delivered
    BY <1>5, <2>1, <2>2 DEF OriginInv
  <2>3. CASE y = g.body
    <3>1. x.obj = g.obj
      BY <1>2, <1>5, <2>3
    <3>2. g \notin pending[x.obj]
      BY <3>1 DEF MapInv
    <3> QED BY <1>1, <1>5, <2>1, <2>3, <3>1, <3>2 DEF AgeInv
  <2> QED BY <1>3, <2>2, <2>3
<1>6. ASSUME NEW o \in Objects, origin'[o] # None
      PROVE  origin'[o] \in delivered' /\ call[origin'[o]].obj = o
  <2>1. CASE o = g.obj
    BY <1>2, <1>3, <2>1
  <2>2. CASE o # g.obj
    BY <1>3, <1>6, <2>2 DEF OriginInv
  <2> QED BY <2>1, <2>2
<1> QED BY <1>5, <1>6 DEF OriginInv

(* Until an upload ends what is staged stays as new as it was.             *)
LEMMA StageQuiet ==
  ASSUME Typed, MapInv, FlusherInv, DirInv, FileInv, StageInv, AgeInv, OriginInv,
         NEW f \in Flushers, Quiet(f)
  PROVE  StageInv' /\ AgeInv' /\ OriginInv'
<1>1. CASE Take(f)
  BY <1>1, StageTake
<1>2. CASE ~Take(f)
  <2>1. /\ NoneNew /\ WritesSame /\ LogSame /\ dropped' = dropped /\ running' = running
        /\ delivered \subseteq delivered'
    BY QuietView
  <2>2. MapsSame
    BY <1>2, TakeNoneView, ReadStagedView, PutOkView, PutFailsView DEF Quiet
  <2>3. OwedLess /\ SettledKept /\ call' = call /\ recovered' = recovered
    BY <2>1, OwedKeeps, SettledKeeps DEF WritesSame, LogSame
  <2>4. StageInv' /\ AgeInv'
    BY <2>1, <2>2, <2>3, StageFrame, AgeFrame
  <2>5. \/ origin' = origin /\ delivered' = delivered
        \/ \E g \in Known : flusher[f].gen = {g} /\ flusher[f].pc = "put" /\ Landed(g)
    BY <1>2, TakeNoneView, ReadStagedView, PutOkView, PutFailsView DEF Quiet, SettledSame
  <2>6. CASE origin' = origin /\ delivered' = delivered
    BY <2>2, <2>3, <2>4, <2>6, HasFrame, OriginFrame
  <2>7. CASE \E g \in Known : flusher[f].gen = {g} /\ flusher[f].pc = "put" /\ Landed(g)
    <3>1. PICK g \in Known : flusher[f].gen = {g} /\ flusher[f].pc = "put" /\ Landed(g)
      BY <2>7
    <3>2. g \in inflight[g.obj] /\ g.obj \in Objects
      BY <3>1 DEF FlusherInv, Busy, Known
    <3> QED BY <2>2, <2>3, <2>4, <3>1, <3>2, OriginLands
  <2> QED BY <2>5, <2>6, <2>7
<1> QED BY <1>1, <1>2

(* What is staged has a file, and its number tells its age.                *)
LEMMA HasFile ==
  ASSUME Typed, FileInv, NEW g \in Gens, Has(g)
  PROVE  g \in dir.meta /\ ~Dying(g) /\ g.obj \in Objects
BY GenFields DEF FileInv

(* What a map has for an object is staged and is the object's.             *)
LEMMA PendingHas ==
  ASSUME Typed, MapInv, NEW o \in Objects, NEW p \in pending[o] \cup failed[o] \cup inflight[o]
  PROVE  p \in Gens /\ p.obj = o /\ Has(p)
<1>1. p \in Gens
  BY GensKnown DEF Typed
<1>2. p.obj = o
  BY DEF MapInv
<1> QED BY <1>1, <1>2 DEF Has

(* A generation with a later write waiting is superseded.                  *)
LEMMA NewerWaits ==
  ASSUME Typed, MapInv, DirInv, FileInv, NEW g \in Gens, Has(g), NEW p \in pending[g.obj],
         p.body > g.body
  PROVE  Superseded(g)
<1>1. g \in dir.meta /\ g.obj \in Objects
  BY HasFile
<1>2. p \in Gens /\ p.obj = g.obj /\ Has(p)
  BY <1>1, PendingHas
<1>3. p \in dir.meta
  BY <1>2, HasFile
<1>4. p.seq \in Nat /\ g.seq \in Nat /\ p.body \in Nat /\ g.body \in Nat
  BY <1>2, GenFields
<1>5. g.seq < p.seq
  <2>1. g.body < p.body
    BY <1>4
  <2> QED BY <1>1, <1>2, <1>3, <2>1, DirOrder
<1> QED BY <1>4, <1>5 DEF Superseded

(* A failed generation is staged again only where nothing newer waits.     *)
LEMMA StageEnds ==
  ASSUME Typed, MapInv, FlusherInv, DownInv, CallInv, DirInv, FileInv, StageInv, AgeInv,
         OriginInv, NEW f \in Flushers, Ends(f)
  PROVE  StageInv' /\ AgeInv' /\ OriginInv'
<1>1. PICK g \in Known :
           /\ flusher[f].gen = {g} /\ g.obj \in Objects
           /\ inflight[g.obj] = {g} /\ inflight'[g.obj] = {}
           /\ \A o \in Objects : o # g.obj =>
                inflight'[o] = inflight[o] /\ pending'[o] = pending[o] /\ failed'[o] = failed[o]
           /\ HasLess /\ NoneNew /\ WritesSame /\ LogSame
           /\ running' = running /\ delivered' = delivered /\ dropped \subseteq dropped'
           /\ origin' = origin
           /\ \/ /\ ~Has(g)' /\ pending' = pending /\ failed' = failed
                 /\ g.body \in delivered' \cup dropped' \/ Superseded(g)
              \/ /\ ~Superseded(g)
                 /\ \/ pending'[g.obj] = {g} /\ failed' = failed
                    \/ pending' = pending /\ failed'[g.obj] = {g}
  BY EndsView
<1>2. OwedLess /\ SettledKept /\ call' = call /\ recovered' = recovered
  BY <1>1, OwedKeeps, SettledKeeps DEF WritesSame, LogSame
<1>3. g \in Gens /\ Has(g) /\ g \in dir.meta /\ g.body \in Nat
  <2>1. g \in Gens /\ Has(g)
    BY <1>1, GensKnown DEF Has
  <2> QED BY <2>1, HasFile, GenFields
<1>4. ASSUME NEW x \in Gens, Has(x), x.obj # g.obj PROVE Has(x)'
  <2>1. x.obj \in Objects
    BY GenFields
  <2> QED BY <1>1, <1>4, <2>1 DEF Has
<1>5. ASSUME NEW x \in Gens, x \in inflight[x.obj] PROVE x = g \/ (x.obj # g.obj /\ x \in inflight'[x.obj])
  <2>1. x.obj \in Objects
    BY GenFields
  <2> QED BY <1>1, <1>5, <2>1
<1>6. ASSUME NEW b \in Writes, Owed(b)', NEW x \in Gens PROVE Fresh(x, b)'
  <2>1. SUFFICES ASSUME x.obj = call[b].obj, Has(x)', x.body \in call[b].after
                 PROVE  \/ x.body \in recovered /\ Settled(b)'
                        \/ x \in inflight'[x.obj] /\ \E q \in pending'[x.obj] : q.body >= b
    BY <1>2 DEF Fresh
  <2>2. Has(x) /\ Owed(b) /\ x.obj \in Objects
    BY <1>1, <1>2, <1>6, <2>1, GenFields DEF HasLess, OwedLess
  <2>3. \/ x.body \in recovered /\ Settled(b)
        \/ x \in inflight[x.obj] /\ \E q \in pending[x.obj] : q.body >= b
    BY <2>1, <2>2, StageNow DEF Fresh
  <2>4. CASE x.body \in recovered /\ Settled(b)
    BY <1>2, <2>4 DEF SettledKept
  <2>5. CASE x \in inflight[x.obj] /\ \E q \in pending[x.obj] : q.body >= b
    <3>1. PICK q \in pending[x.obj] : q.body >= b
      BY <2>5
    <3>2. CASE x # g
      <4>1. x.obj # g.obj /\ x \in inflight'[x.obj]
        BY <1>5, <2>5, <3>2
      <4>2. pending'[x.obj] = pending[x.obj]
        BY <1>1, <2>2, <4>1
      <4> QED BY <3>1, <4>1, <4>2
    <3>3. CASE x = g
      <4>1. b \in Nat /\ g.body < b /\ q \in Gens
        BY <2>1, <2>2, <3>1, <3>3, PendingHas DEF CallInv, Writes
      <4>2. q.body \in Nat
        BY <4>1, GenFields
      <4>3. q.body > g.body
        BY <1>3, <3>1, <4>1, <4>2
      <4>4. Superseded(g)
        BY <1>3, <3>1, <3>3, <4>3, NewerWaits
      <4>5. ~Has(g)'
        BY <1>1, <4>4
      <4> QED BY <2>1, <3>3, <4>5
    <3> QED BY <3>2, <3>3
  <2> QED BY <2>3, <2>4, <2>5
<1>7. ASSUME NEW b \in Writes, Owed(b)', running' PROVE InHand(b)'
  <2>1. InHand(b) /\ Owed(b)
    BY <1>1, <1>2, <1>7, StageNow DEF OwedLess
  <2>2. CASE Settled(b)
    BY <1>2, <2>2 DEF SettledKept, InHand
  <2>3. CASE \E s \in Gens : s.obj = call[b].obj /\ Has(s)
    <3>1. PICK s \in Gens : s.obj = call[b].obj /\ Has(s)
      BY <2>3
    <3>2. CASE s.obj # g.obj
      BY <1>2, <1>4, <3>1, <3>2 DEF InHand
    <3>3. CASE s.obj = g.obj
      <4>1. CASE (pending'[g.obj] = {g} \/ failed'[g.obj] = {g})
        <5>1. Has(g)'
          BY <4>1 DEF Has
        <5> QED BY <1>2, <1>3, <3>1, <3>3, <5>1 DEF InHand
      <4>2. CASE Superseded(g) /\ pending' = pending
        <5>1. PICK p \in pending[g.obj] : p.seq > g.seq
          BY <4>2 DEF Superseded
        <5>2. p \in Gens /\ p.obj = g.obj
          BY <1>1, <5>1, PendingHas
        <5>3. Has(p)'
          BY <4>2, <5>1, <5>2 DEF Has
        <5> QED BY <1>2, <3>1, <3>3, <5>2, <5>3 DEF InHand
      <4>3. CASE g.body \in delivered' \cup dropped' /\ pending' = pending
        <5>1. CASE g.body \notin call[b].after
          <6>1. Settled(b)'
            BY <1>2, <1>3, <3>1, <3>3, <4>3, <5>1, SettledBy
          <6> QED BY <6>1 DEF InHand
        <5>2. CASE g.body \in call[b].after
          <6>1. \/ g.body \in recovered /\ Settled(b)
                \/ g \in inflight[g.obj] /\ \E q \in pending[g.obj] : q.body >= b
            BY <1>3, <2>1, <3>1, <3>3, <5>2, StageNow DEF Fresh
          <6>2. CASE Settled(b)
            BY <1>2, <6>2 DEF SettledKept, InHand
          <6>3. CASE \E q \in pending[g.obj] : q.body >= b
            <7>1. PICK q \in pending[g.obj] : q.body >= b
              BY <6>3
            <7>2. q \in Gens /\ q.obj = g.obj
              BY <1>1, <7>1, PendingHas
            <7>3. Has(q)'
              BY <4>3, <7>1, <7>2 DEF Has
            <7> QED BY <1>2, <3>1, <3>3, <7>2, <7>3 DEF InHand
          <6> QED BY <6>1, <6>2, <6>3
        <5> QED BY <5>1, <5>2
      <4> QED BY <1>1, <4>1, <4>2, <4>3
    <3> QED BY <3>2, <3>3
  <2> QED BY <2>1, <2>2, <2>3 DEF InHand
<1>8. StageInv'
  BY <1>6, <1>7, StageInvOf
<1>9. AgeInv'
  <2>1. ASSUME NEW x \in Gens, NEW y \in Gens, x.obj = y.obj, x.obj \in Objects,
               Has(x)', Has(y)', x.body \in call[y.body].after
        PROVE  x.body \in recovered \/ (x \in inflight'[x.obj] /\ y \in pending'[x.obj])
    <3>1. Has(x) /\ Has(y)
      BY <1>1, <2>1 DEF HasLess
    <3>2. x.body \in recovered \/ (x \in inflight[x.obj] /\ y \in pending[x.obj])
      BY <2>1, <3>1 DEF AgeInv
    <3>3. CASE x \in inflight[x.obj] /\ y \in pending[x.obj]
      <4>1. CASE x # g
        <5>1. x.obj # g.obj /\ x \in inflight'[x.obj]
          BY <1>5, <3>3, <4>1
        <5> QED BY <1>1, <2>1, <3>3, <5>1
      <4>2. CASE x = g
        <5>1. x.body < y.body /\ y.body \in Nat
          BY <2>1, GenFields DEF CallInv
        <5>2. y.body > g.body
          BY <1>3, <4>2, <5>1
        <5>3. Superseded(g)
          BY <1>3, <3>3, <4>2, <5>2, NewerWaits
        <5>4. ~Has(g)'
          BY <1>1, <5>3
        <5> QED BY <2>1, <4>2, <5>4
      <4> QED BY <4>1, <4>2
    <3> QED BY <3>2, <3>3
  <2> QED BY <1>2, <2>1 DEF AgeInv
<1>10. OriginInv'
  BY <1>1, <1>2, OriginFrame
<1> QED BY <1>8, <1>9, <1>10

(* Removing the files of a dead generation stages nothing.                 *)
LEMMA StageRetire ==
  ASSUME Typed, StageInv, AgeInv, OriginInv, NEW f \in Flushers, Retire(f)
  PROVE  StageInv' /\ AgeInv' /\ OriginInv'
<1>1. /\ MapsSame /\ WritesSame /\ SettledSame /\ LogSame /\ AllWriters
      /\ running' = running /\ origin' = origin
  BY RetireView
<1>2. OwedLess /\ SettledKept /\ HasLess /\ call' = call /\ recovered' = recovered
  BY <1>1, QuietWriters, OwedKeeps, SettledKeeps, HasFrame DEF WritesSame, LogSame, SettledSame
<1> QED BY <1>1, <1>2, StageFrame, AgeFrame, OriginFrame DEF SettledSame

(* A parked generation waits again only where nothing newer waits.         *)
LEMMA StageRetry ==
  ASSUME Typed, MapInv, DirInv, FileInv, StageInv, AgeInv, OriginInv, RetryFailed
  PROVE  StageInv' /\ AgeInv' /\ OriginInv'
<1>1. /\ \A o \in Objects : pending'[o] =
                IF \E g \in failed[o] : ~Superseded(g) THEN failed[o] ELSE pending[o]
      /\ \A o \in Objects : failed'[o] = {}
      /\ inflight' = inflight
      /\ WritesSame /\ SettledSame /\ LogSame /\ AllWriters
      /\ running /\ running' = running /\ origin' = origin
  BY RetryFailedView
<1>2. OwedLess /\ SettledKept /\ HasLess /\ call' = call /\ recovered' = recovered
      /\ delivered' = delivered
  BY <1>1, RetryHas, QuietWriters, OwedKeeps, SettledKeeps DEF WritesSame, LogSame, SettledSame
<1>3. ASSUME NEW o \in Objects, NEW q \in pending[o]
      PROVE  \E r \in pending'[o] : r.body >= q.body /\ r \in Gens /\ r.obj = o
  <2>1. q \in Gens /\ q.obj = o /\ Has(q)
    BY PendingHas
  <2>2. q.body \in Nat /\ q.seq \in Nat
    BY <2>1, GenFields
  <2>3. CASE ~ \E g \in failed[o] : ~Superseded(g)
    BY <1>1, <2>1, <2>2, <2>3
  <2>4. CASE \E g \in failed[o] : ~Superseded(g)
    <3>1. PICK r \in failed[o] : ~Superseded(r)
      BY <2>4
    <3>2. r \in Gens /\ r.obj = o /\ Has(r) /\ r \in pending'[o]
      BY <1>1, <3>1, PendingHas
    <3>3. r.body \in Nat
      BY <3>2, GenFields
    <3>4. ~(q.body > r.body)
      BY <3>1, <3>2, NewerWaits
    <3>5. r.body >= q.body
      BY <2>2, <3>3, <3>4
    <3> QED BY <3>2, <3>5
  <2> QED BY <2>3, <2>4
<1>4. ASSUME NEW s \in Gens, Has(s) PROVE \E t \in Gens : t.obj = s.obj /\ Has(t)'
  <2>1. s.obj \in Objects
    BY GenFields
  <2>2. CASE s \in inflight[s.obj]
    BY <1>1, <2>2 DEF Has
  <2>3. CASE s \in pending[s.obj]
    <3>1. PICK r \in pending'[s.obj] : r \in Gens /\ r.obj = s.obj
      BY <1>3, <2>1, <2>3
    <3> QED BY <3>1 DEF Has
  <2>4. CASE s \in failed[s.obj]
    <3>1. CASE Superseded(s)
      <4>1. PICK p \in pending[s.obj] : TRUE
        BY <3>1 DEF Superseded
      <4>2. PICK r \in pending'[s.obj] : r \in Gens /\ r.obj = s.obj
        BY <1>3, <2>1, <4>1
      <4> QED BY <4>2 DEF Has
    <3>2. CASE ~Superseded(s)
      <4>1. s \in pending'[s.obj]
        BY <1>1, <2>1, <2>4, <3>2
      <4> QED BY <4>1 DEF Has
    <3> QED BY <3>1, <3>2
  <2> QED BY <1>4, <2>2, <2>3, <2>4 DEF Has
<1>5. ASSUME NEW b \in Writes, Owed(b)' PROVE InHand(b)'
  <2>1. InHand(b)
    BY <1>1, <1>2, <1>5, StageNow DEF OwedLess
  <2> QED BY <1>2, <1>4, <2>1 DEF InHand, SettledKept
<1>6. ASSUME NEW b \in Writes, Owed(b)', NEW x \in Gens PROVE Fresh(x, b)'
  <2>1. SUFFICES ASSUME x.obj = call[b].obj, Has(x)', x.body \in call[b].after
                 PROVE  \/ x.body \in recovered /\ Settled(b)'
                        \/ x \in inflight'[x.obj] /\ \E q \in pending'[x.obj] : q.body >= b
    BY <1>2 DEF Fresh
  <2>2. Has(x) /\ Owed(b) /\ x.obj \in Objects
    BY <1>2, <1>6, <2>1, GenFields DEF HasLess, OwedLess
  <2>3. \/ x.body \in recovered /\ Settled(b)
        \/ x \in inflight[x.obj] /\ \E q \in pending[x.obj] : q.body >= b
    BY <2>1, <2>2, StageNow DEF Fresh
  <2>4. CASE x.body \in recovered /\ Settled(b)
    BY <1>2, <2>4 DEF SettledKept
  <2>5. CASE x \in inflight[x.obj] /\ \E q \in pending[x.obj] : q.body >= b
    <3>1. PICK q \in pending[x.obj] : q.body >= b
      BY <2>5
    <3>2. PICK r \in pending'[x.obj] : r.body >= q.body /\ r \in Gens
      BY <1>3, <2>2, <3>1
    <3>3. q \in Gens
      BY <2>2, <3>1, PendingHas
    <3>4. r.body \in Nat /\ q.body \in Nat /\ b \in Nat
      BY <3>2, <3>3, GenFields DEF Writes
    <3>5. r.body >= b
      BY <3>1, <3>2, <3>4
    <3> QED BY <1>1, <2>5, <3>2, <3>5
  <2> QED BY <2>3, <2>4, <2>5
<1>7. StageInv'
  BY <1>5, <1>6, StageInvOf
<1>8. AgeInv'
  <2>1. ASSUME NEW x \in Gens, NEW y \in Gens, x.obj = y.obj, x.obj \in Objects,
               Has(x)', Has(y)', x.body \in call[y.body].after
        PROVE  x.body \in recovered \/ (x \in inflight[x.obj] /\ y \in pending'[x.obj])
    <3>1. Has(x) /\ Has(y)
      BY <1>2, <2>1 DEF HasLess
    <3>2. x.body \in recovered \/ (x \in inflight[x.obj] /\ y \in pending[x.obj])
      BY <2>1, <3>1 DEF AgeInv
    <3>3. CASE x \in inflight[x.obj] /\ y \in pending[x.obj]
      <4>1. y \notin inflight[x.obj]
        BY <2>1, <3>3 DEF MapInv
      <4>2. y \in pending'[x.obj]
        BY <1>1, <2>1, <4>1 DEF Has
      <4> QED BY <3>3, <4>2
    <3> QED BY <3>2, <3>3
  <2> QED BY <1>1, <1>2, <2>1 DEF AgeInv
<1>9. OriginInv'
  BY <1>1, <1>2, OriginFrame
<1> QED BY <1>7, <1>8, <1>9

(* With nothing staged and the process down there is nothing to keep.      *)
LEMMA StageStop ==
  ASSUME Typed, OriginInv, Crash \/ PowerLoss
  PROVE  StageInv' /\ AgeInv' /\ OriginInv'
<1>1. /\ running' = FALSE /\ WritesSame /\ SettledSame /\ LogSame /\ origin' = origin
      /\ \A o \in Objects : pending'[o] = {} /\ inflight'[o] = {} /\ failed'[o] = {}
  BY StopView DEF Crash, PowerLoss
<1>2. \A g \in Gens : ~Has(g)'
  BY <1>1, GenFields DEF Has
<1>3. StageInv' /\ AgeInv'
  BY <1>1, <1>2 DEF StageInv, AgeInv
<1>4. OriginInv'
  BY <1>1, <1>2, OriginFrame DEF HasLess, WritesSame, SettledSame, LogSame
<1> QED BY <1>3, <1>4

(* Recovery stages the newest generation of every object that is owed one. *)
LEMMA StageRecovers ==
  ASSUME Typed, WriterInv, DownInv, CallInv, DirInv, CoverInv, OriginInv, Recover
  PROVE  StageInv' /\ AgeInv' /\ OriginInv'
<1>1. /\ ~running /\ running'
      /\ \A o \in Objects : pending'[o] = {g \in Newest(dir) : g.obj = o}
      /\ recovered' = {g.body : g \in Newest(dir)}
      /\ dir'.meta = Newest(dir)
      /\ WritesSame /\ SettledSame /\ lost' = lost
      /\ inflight' = inflight /\ failed' = failed /\ AllWriters /\ origin' = origin
  BY RecoverView
<1>2. OwedLess /\ SettledKept /\ call' = call /\ delivered' = delivered
  BY <1>1, QuietWriters, OwedKeeps, SettledKeeps DEF WritesSame, SettledSame
<1>3. ASSUME NEW x \in Gens, Has(x)' PROVE x \in Newest(dir) /\ x.body \in recovered'
  <2>1. x.obj \in Objects
    BY GenFields
  <2>2. inflight'[x.obj] = {} /\ failed'[x.obj] = {}
    BY <1>1, <2>1 DEF DownInv
  <2>3. x \in Newest(dir)
    BY <1>1, <1>3, <2>1, <2>2 DEF Has
  <2> QED BY <1>1, <2>3
<1>4. ASSUME NEW n \in Newest(dir) PROVE n \in Gens /\ Has(n)' /\ n \in dir.meta
  <2>1. n \in dir.meta
    BY DEF Newest
  <2>2. n \in Gens
    BY <2>1, FileCall
  <2>3. n.obj \in Objects
    BY <2>2, GenFields
  <2>4. n \in pending'[n.obj]
    BY <1>1, <2>3
  <2> QED BY <2>1, <2>2, <2>4 DEF Has
<1>5. ASSUME NEW b \in Writes, Owed(b)'
      PROVE  Settled(b)' \/ \E s \in dir.meta : s.obj = call[b].obj /\ s.body >= b
  BY <1>2, <1>5 DEF OwedLess, CoverInv, Typed, SettledKept
<1>6. ASSUME NEW b \in Writes, Owed(b)' PROVE InHand(b)'
  <2>1. CASE Settled(b)'
    BY <2>1 DEF InHand
  <2>2. CASE \E s \in dir.meta : s.obj = call[b].obj /\ s.body >= b
    <3>1. PICK s \in dir.meta : s.obj = call[b].obj /\ s.body >= b
      BY <2>2
    <3>2. PICK n \in Newest(dir) : n.obj = s.obj
      BY NewestCovers
    <3> QED BY <1>2, <1>4, <3>1, <3>2 DEF InHand
  <2> QED BY <1>5, <1>6, <2>1, <2>2
<1>7. ASSUME NEW b \in Writes, Owed(b)', NEW x \in Gens PROVE Fresh(x, b)'
  <2>1. SUFFICES ASSUME x.obj = call[b].obj, Has(x)', x.body \in call[b].after
                 PROVE  x.body \in recovered' /\ Settled(b)'
    BY <1>2 DEF Fresh
  <2>2. x \in Newest(dir) /\ x.body \in recovered'
    BY <1>3, <2>1
  <2>3. CASE \E s \in dir.meta : s.obj = call[b].obj /\ s.body >= b
    <3>1. PICK s \in dir.meta : s.obj = call[b].obj /\ s.body >= b
      BY <2>3
    <3>2. x \in dir.meta /\ s.seq <= x.seq
      BY <2>1, <2>2, <3>1 DEF Newest
    <3>3. s \in Gens
      BY FileCall
    <3>4. s.seq \in Nat /\ x.seq \in Nat /\ s.body \in Nat /\ x.body \in Nat /\ b \in Nat
      BY <3>3, GenFields DEF Writes
    <3>5. x.body < b
      BY <2>1 DEF CallInv
    <3>6. x.body < s.body
      BY <3>1, <3>4, <3>5
    <3>7. x.seq < s.seq
      BY <2>1, <3>1, <3>2, <3>6, DirOrder
    <3> QED BY <3>2, <3>4, <3>7
  <2> QED BY <1>5, <1>7, <2>2, <2>3
<1>8. StageInv'
  BY <1>6, <1>7, StageInvOf
<1>9. AgeInv'
  BY <1>3 DEF AgeInv
<1>10. OriginInv'
  BY <1>1, <1>2, <1>3 DEF OriginInv
<1> QED BY <1>8, <1>9, <1>10

----------------------------------------------------------------------------
(* The invariant is inductive                                              *)

WriteBackInv ==
  /\ Typed /\ MapInv /\ WriterInv /\ FlusherInv /\ DownInv /\ CallInv /\ DirInv
  /\ FileInv /\ NumberInv /\ CoverInv /\ StageInv /\ AgeInv /\ OriginInv /\ QueueInv

(* Nothing is staged, acknowledged or on disk at the start.                *)
LEMMA InvInit == Init => WriteBackInv
<1> SUFFICES ASSUME Init PROVE WriteBackInv
  OBVIOUS
<1>1. Typed
  <2>1. 0 \in 0..MaxWrites /\ 1 \in 1..1 /\ 0 \in 0..(MaxAttempts - 1) /\ 0 \in 0..MaxErrors
    BY BoundsAssumption
  <2>2. /\ begun = 0 /\ nextSeq = 1 /\ running = TRUE
        /\ dir \in [data : SUBSET Known, meta : SUBSET Known] /\ since = {dir}
    BY DEF Init
  <2>3. /\ pending \in [Objects -> SUBSET Known] /\ inflight \in [Objects -> SUBSET Known]
        /\ failed \in [Objects -> SUBSET Known] /\ queue \in Seq(Objects)
        /\ attempts \in [Objects -> 0..(MaxAttempts - 1)]
        /\ origin \in [Objects -> 0..begun]
    BY <2>1 DEF Init, None
  <2>4. writer \in [Writers -> [pc : {"idle", "drop"} \cup Early,
                                gen : SUBSET Known, old : SUBSET Known]]
    BY DEF Init, Idle
  <2>5. flusher \in [Flushers -> [pc : {"idle", "drop"} \cup Busy,
                                  gen : SUBSET Known, ok : BOOLEAN]]
    BY DEF Init, Rest
  <2>6. call \in [Writes -> [obj : Objects \cup {None}, after : SUBSET (1..begun)]]
    BY DEF Init
  <2>7. faults \in [errors : 0..MaxErrors, rearms : Nat, crashes : Nat]
    BY <2>1 DEF Init
  <2>8. /\ acked \subseteq 1..begun /\ delivered \subseteq 1..begun
        /\ recovered \subseteq 1..begun /\ dropped \subseteq 1..begun
        /\ lost \subseteq 1..begun
    BY DEF Init
  <2> QED BY <2>1, <2>2, <2>3, <2>4, <2>5, <2>6, <2>7, <2>8 DEF Typed
<1>2. /\ \A o \in Objects : pending[o] = {} /\ inflight[o] = {} /\ failed[o] = {} /\ origin[o] = None
      /\ \A w \in Writers : writer[w].pc = "idle" /\ writer[w].gen = {} /\ writer[w].old = {}
      /\ \A f \in Flushers : flusher[f].pc = "idle" /\ flusher[f].gen = {}
      /\ \A b \in Writes : call[b].after = {}
      /\ running /\ acked = {} /\ delivered = {}
      /\ dir.meta = {} /\ dir.data = {} /\ since = {dir}
  BY DEF Init, Idle, Rest
<1>3. \A g \in Gens : ~Has(g) /\ ~Upcoming(g) /\ ~Dying(g)
  <2>1. \A g \in Gens : g.obj \in Objects
    BY GenFields
  <2> QED BY <1>2, <2>1 DEF Has, Upcoming, Dying, Early
<1>4. \A b \in Writes : ~Owed(b)
  BY <1>2 DEF Owed, Inserted
<1>5. MapInv /\ QueueInv /\ CallInv /\ DownInv
  BY <1>2 DEF MapInv, QueueInv, CallInv, DownInv
<1>6. WriterInv /\ FlusherInv
  BY <1>2, Zenon DEF WriterInv, FlusherInv, Early, Busy
<1>7. DirInv /\ FileInv /\ NumberInv
  BY <1>2, <1>3 DEF DirInv, FileInv, NumberInv
<1>8. CoverInv /\ StageInv /\ AgeInv /\ OriginInv
  BY <1>2, <1>3, <1>4 DEF CoverInv, StageInv, AgeInv, OriginInv
<1> QED BY <1>1, <1>5, <1>6, <1>7, <1>8 DEF WriteBackInv

(* A stage call begins.                                                    *)
LEMMA InvBegin ==
  ASSUME WriteBackInv, NEW w \in Writers, NEW o \in Objects, Begin(w, o)
  PROVE  WriteBackInv'
<1>1. /\ Typed /\ MapInv /\ WriterInv /\ FlusherInv /\ DownInv /\ CallInv /\ DirInv
      /\ FileInv /\ NumberInv /\ CoverInv /\ StageInv /\ AgeInv /\ OriginInv /\ QueueInv
  BY DEF WriteBackInv
<1>2. /\ begun' = begun + 1 /\ pending' = pending /\ inflight' = inflight /\ failed' = failed
      /\ flusher' = flusher /\ delivered' = delivered /\ queue' = queue
  BY DEF Begin
<1>3. Known \subseteq Known'
  BY <1>1, <1>2, KnownGrows
<1>4. Typed' /\ WriterInv' /\ CallInv' /\ DirInv'
  BY <1>1, TypedBegin, WriterBegins, CallBegins, DirBegins
<1>5. MapInv'
  BY <1>1, <1>2 DEF MapInv
<1>6. FlusherInv'
  BY <1>1, <1>2, <1>3, FlusherFrame
<1>7. QueueInv'
  BY <1>1, <1>2, QueueFrame
<1>8. DownInv'
  <2>1. Next
    BY DEF Next
  <2> QED BY <1>1, <2>1, DownStep
<1>9. FileInv' /\ NumberInv' /\ CoverInv'
  BY <1>1, FilesBegin, NumberBegins, CoverBegins
<1>10. StageInv' /\ AgeInv' /\ OriginInv'
  BY <1>1, StageBegins
<1> QED BY <1>4, <1>5, <1>6, <1>7, <1>8, <1>9, <1>10 DEF WriteBackInv

(* What a later step of a stage call leaves alone.                         *)
LEMMA WriterView ==
  ASSUME Typed, WriterInv, NEW w \in Writers, Stage(w) \/ StageFails(w)
  PROVE  /\ begun' = begun /\ call' = call /\ acked \subseteq acked'
         /\ inflight' = inflight /\ flusher' = flusher /\ delivered' = delivered
         /\ ~Insert(w) => MapsSame /\ queue' = queue
         /\ ~CommitMeta(w) /\ ~Drop(w) => since' \subseteq since
<1>1. CASE CommitMeta(w)
  BY <1>1 DEF CommitMeta, memory, ghosts, MapsSame
<1>2. CASE SyncDir(w)
  BY <1>2 DEF SyncDir, memory, ghosts, MapsSame, Typed
<1>3. CASE StageFails(w)
  BY <1>3 DEF StageFails, memory, ghosts, MapsSame
<1>4. CASE Insert(w)
  BY <1>4 DEF Insert, ghosts
<1>5. CASE Drop(w)
  BY <1>5 DEF Drop, memory, ghosts, MapsSame
<1>6. CASE Acknowledge(w)
  BY <1>6 DEF Acknowledge, memory, MapsSame
<1> QED BY <1>1, <1>2, <1>3, <1>4, <1>5, <1>6 DEF Stage

(* A later step of a stage call.                                           *)
LEMMA InvWriter ==
  ASSUME WriteBackInv, NEW w \in Writers, Stage(w) \/ StageFails(w)
  PROVE  WriteBackInv'
<1>1. /\ Typed /\ MapInv /\ WriterInv /\ FlusherInv /\ DownInv /\ CallInv /\ DirInv
      /\ FileInv /\ NumberInv /\ CoverInv /\ StageInv /\ AgeInv /\ OriginInv /\ QueueInv
  BY DEF WriteBackInv
<1>2. /\ begun' = begun /\ call' = call /\ acked \subseteq acked'
      /\ inflight' = inflight /\ flusher' = flusher /\ delivered' = delivered
      /\ ~Insert(w) => MapsSame /\ queue' = queue
      /\ ~CommitMeta(w) /\ ~Drop(w) => since' \subseteq since
  BY <1>1, WriterView
<1>3. Known \subseteq Known'
  BY <1>1, <1>2, KnownGrows
<1>4. Typed' /\ WriterInv' /\ NumberInv'
  BY <1>1, TypedWriters, WriterMoves, NumberWriters
<1>5. FlusherInv' /\ CallInv'
  BY <1>1, <1>2, <1>3, FlusherFrame, CallFrame
<1>6. MapInv' /\ QueueInv'
  <2>1. CASE Insert(w)
    BY <1>1, <2>1, MapsInsert, QueueInsert
  <2>2. CASE ~Insert(w)
    <3>1. MapsSame /\ queue' = queue
      BY <1>2, <2>2
    <3>2. MapInv'
      BY <1>1, <3>1 DEF MapInv, MapsSame
    <3> QED BY <1>1, <3>1, <3>2, QueueFrame DEF MapsSame
  <2> QED BY <2>1, <2>2
<1>7. DownInv'
  <2>1. Next
    BY DEF Next
  <2> QED BY <1>1, <2>1, DownStep
<1>8. DirInv'
  <2>1. CASE CommitMeta(w)
    BY <1>1, <2>1, DirCommits
  <2>2. CASE Drop(w)
    <3>1. Removed(writer[w].old)
      BY <1>1, <2>2, DropView
    <3> QED BY <1>1, <1>2, <3>1, DirRemove
  <2>3. CASE ~CommitMeta(w) /\ ~Drop(w)
    <3>1. \A d \in since' : d \in since
      BY <1>2, <2>3
    <3> QED BY <1>1, <1>2, <3>1, DirFrame
  <2> QED BY <2>1, <2>2, <2>3
<1>9. FileInv'
  BY <1>1, FilesCommit, FilesSync, FilesInsert, FilesLeave, FilesDrop DEF Stage
<1>10. CoverInv'
  BY <1>1, CoverWriters, CoverInsert DEF Stage
<1>11. StageInv' /\ AgeInv' /\ OriginInv'
  BY <1>1, StageWriters, StageInsert DEF Stage
<1> QED BY <1>4, <1>5, <1>6, <1>7, <1>8, <1>9, <1>10, <1>11 DEF WriteBackInv

(* What a step of an upload leaves alone.                                  *)
LEMMA TaskView ==
  ASSUME NEW f \in Flushers, Quiet(f) \/ Ends(f) \/ Retire(f)
  PROVE  /\ begun' = begun /\ call' = call /\ acked' = acked /\ writer' = writer
         /\ ~Retire(f) => dir' = dir /\ since' = since
<1>1. CASE Take(f) \/ TakeNone(f) \/ ReadStaged(f)
  BY <1>1 DEF Take, TakeNone, ReadStaged, ghosts
<1>2. CASE PutOk(f) \/ PutFails(f)
  BY <1>2 DEF PutOk, PutFails, ghosts
<1>3. CASE Complete(f) \/ ReadFails(f)
  BY <1>3 DEF Complete, ReadFails, ghosts
<1>4. CASE Requeue(f) \/ ParkFailed(f)
  BY <1>4 DEF Requeue, ParkFailed, ghosts
<1>5. CASE Retire(f)
  BY <1>5 DEF Retire, ghosts
<1> QED BY <1>1, <1>2, <1>3, <1>4, <1>5 DEF Quiet, Ends

(* A step of an upload.                                                    *)
LEMMA InvFlusher ==
  ASSUME WriteBackInv, NEW f \in Flushers, Flush(f) \/ TakeNone(f) \/ ReadFails(f) \/ PutFails(f)
  PROVE  WriteBackInv'
<1>1. /\ Typed /\ MapInv /\ WriterInv /\ FlusherInv /\ DownInv /\ CallInv /\ DirInv
      /\ FileInv /\ NumberInv /\ CoverInv /\ StageInv /\ AgeInv /\ OriginInv /\ QueueInv
  BY DEF WriteBackInv
<1>2. Quiet(f) \/ Ends(f) \/ Retire(f)
  BY DEF Quiet, Ends, Flush
<1>3. /\ begun' = begun /\ call' = call /\ acked' = acked /\ writer' = writer
      /\ ~Retire(f) => dir' = dir /\ since' = since
  BY <1>2, TaskView
<1>4. Typed' /\ NumberInv' /\ QueueInv'
  BY <1>1, TypedFlushers, NumberFlushers, QueueFlush
<1>5. WriterInv' /\ CallInv'
  BY <1>1, <1>3, WriterFrame, CallFrame
<1>6. DownInv'
  <2>1. Next
    BY DEF Next
  <2> QED BY <1>1, <2>1, DownStep
<1>7. MapInv'
  <2>1. CASE Flush(f) \/ ReadFails(f)
    BY <1>1, <2>1, MapsFlush
  <2>2. CASE TakeNone(f) \/ PutFails(f)
    <3>1. MapsSame
      BY <2>2 DEF TakeNone, PutFails, memory, MapsSame
    <3> QED BY <1>1, <3>1 DEF MapInv, MapsSame
  <2> QED BY <2>1, <2>2
<1>8. FlusherInv'
  <2>1. CASE TakeNone(f)
    <3>1. flusher' = flusher /\ inflight' = inflight /\ delivered' = delivered /\ Known \subseteq Known'
      BY <1>1, <1>3, <2>1, KnownGrows DEF TakeNone
    <3> QED BY <1>1, <3>1, FlusherFrame
  <2> QED BY <1>1, <1>2, <2>1, FlusherTakes, FlusherKeeps, FlusherEnds, FlusherRetires DEF Quiet, Ends
<1>9. DirInv'
  <2>1. CASE Retire(f)
    <3>1. Removed(flusher[f].gen)
      BY <1>1, <2>1, RetireView
    <3> QED BY <1>1, <1>3, <3>1, DirRemove
  <2>2. CASE ~Retire(f)
    <3>1. \A d \in since' : d \in since
      BY <1>3, <2>2
    <3> QED BY <1>1, <1>3, <3>1, DirFrame
  <2> QED BY <2>1, <2>2
<1>10. FileInv'
  BY <1>1, <1>2, FilesQuiet, FilesEnd, FilesRetire
<1>11. CoverInv'
  BY <1>1, <1>2, CoverQuiet, CoverEnds, CoverRetire
<1>12. StageInv' /\ AgeInv' /\ OriginInv'
  BY <1>1, <1>2, StageQuiet, StageEnds, StageRetire
<1> QED BY <1>4, <1>5, <1>6, <1>7, <1>8, <1>9, <1>10, <1>11, <1>12 DEF WriteBackInv

(* A re-arm, a crash, a power loss or a recovery.                          *)
LEMMA InvProcess ==
  ASSUME WriteBackInv, RetryFailed \/ Crash \/ PowerLoss \/ Recover
  PROVE  WriteBackInv'
<1>1. /\ Typed /\ MapInv /\ WriterInv /\ FlusherInv /\ DownInv /\ CallInv /\ DirInv
      /\ FileInv /\ NumberInv /\ CoverInv /\ StageInv /\ AgeInv /\ OriginInv /\ QueueInv
  BY DEF WriteBackInv
<1>2. Typed' /\ MapInv' /\ WriterInv' /\ FlusherInv' /\ FileInv' /\ QueueInv'
  BY <1>1, TypedProcess, MapsProcess, WriterProcess, FlusherProcess, FilesProcess, QueueProcess
<1>3. DownInv'
  <2>1. Next
    BY DEF Next
  <2> QED BY <1>1, <2>1, DownStep
<1>4. call' = call /\ acked' = acked
  BY DEF RetryFailed, Crash, PowerLoss, Recover, Stop, ghosts
<1>5. CallInv'
  BY <1>1, <1>4, CallFrame
<1>6. NumberInv'
  BY <1>1, NumberRetry, NumberProcess
<1>7. DirInv'
  <2>1. CASE RetryFailed
    <3>1. PICK dead : Removed(dead)
      BY <1>1, <2>1, RetryFailedView, Zenon
    <3> QED BY <1>1, <1>4, <3>1, DirRemove
  <2>2. CASE Recover
    BY <1>1, <2>2, DirRecovers
  <2>3. CASE Crash \/ PowerLoss
    <3>1. \A d \in since' : d \in since
      BY <2>3 DEF Crash, PowerLoss
    <3> QED BY <1>1, <1>4, <3>1, DirFrame
  <2> QED BY <2>1, <2>2, <2>3
<1>8. CoverInv'
  BY <1>1, CoverRetry, CoverStop, CoverRecovers
<1>9. StageInv' /\ AgeInv' /\ OriginInv'
  BY <1>1, StageRetry, StageStop, StageRecovers
<1> QED BY <1>2, <1>3, <1>5, <1>6, <1>7, <1>8, <1>9 DEF WriteBackInv

(* Every step keeps the invariant.                                         *)
LEMMA InvStep == WriteBackInv /\ [Next]_vars => WriteBackInv'
<1> SUFFICES ASSUME WriteBackInv, [Next]_vars PROVE WriteBackInv'
  OBVIOUS
<1>1. CASE Next
  BY <1>1, InvBegin, InvWriter, InvFlusher, InvProcess DEF Next
<1>2. CASE UNCHANGED vars
  <2>1. /\ UNCHANGED <<dir, since, running, nextSeq, pending, inflight, failed, queue>>
        /\ UNCHANGED <<attempts, origin, writer, flusher, begun, acked, call, delivered>>
        /\ UNCHANGED <<recovered, dropped, lost, faults>>
    BY <1>2 DEF vars, memory, ghosts, log
  <2>2. /\ Typed /\ MapInv /\ WriterInv /\ FlusherInv /\ DownInv /\ CallInv /\ DirInv
        /\ FileInv /\ NumberInv /\ CoverInv /\ StageInv /\ AgeInv /\ OriginInv /\ QueueInv
    BY DEF WriteBackInv
  <2>3. Typed'
    BY <2>1, <2>2 DEF Typed, Known
  <2>4. MapInv' /\ WriterInv' /\ FlusherInv' /\ DownInv' /\ CallInv' /\ DirInv' /\ QueueInv'
    BY <2>1, <2>2 DEF MapInv, WriterInv, FlusherInv, DownInv, CallInv, DirInv, QueueInv, Known
  <2>5. FileInv' /\ NumberInv'
    BY <2>1, <2>2 DEF FileInv, NumberInv, Has, Dying, Upcoming
  <2>6. CoverInv' /\ StageInv' /\ AgeInv' /\ OriginInv'
    BY <2>1, <2>2 DEF CoverInv, StageInv, AgeInv, OriginInv, Has, Dying, Owed, Inserted, Settled, NotOlder
  <2> QED BY <2>3, <2>4, <2>5, <2>6 DEF WriteBackInv
<1> QED BY <1>1, <1>2

(* The invariant holds in every reachable state.                           *)
LEMMA InvHolds == Spec => []WriteBackInv
BY InvInit, InvStep, PTL DEF Spec

----------------------------------------------------------------------------
(* The properties                                                          *)

(* A set all of whose elements are one has at most one.                    *)
LEMMA AtMostOne ==
  ASSUME NEW S, \A g \in S : \A h \in S : h = g
  PROVE  Cardinality(S) <= 1
<1>1. CASE S = {}
  BY <1>1, FS_EmptySet
<1>2. CASE S # {}
  <2>1. PICK g \in S : TRUE
    BY <1>2
  <2>2. S = {g}
    BY <2>1
  <2> QED BY <2>2, FS_Singleton
<1> QED BY <1>1, <1>2

(* What Staged has is what one of the maps has.                            *)
LEMMA StagedHas ==
  ASSUME Typed, MapInv
  PROVE  /\ \A g \in Staged : g \in Gens /\ Has(g)
         /\ \A g \in Gens : Has(g) => g \in Staged
<1>1. ASSUME NEW g \in Staged PROVE g \in Gens /\ Has(g)
  <2>1. PICK o \in Objects : g \in pending[o] \cup failed[o] \cup inflight[o]
    BY DEF Staged
  <2> QED BY <2>1, PendingHas
<1>2. ASSUME NEW g \in Gens, Has(g) PROVE g \in Staged
  BY <1>2, GenFields DEF Has, Staged
<1> QED BY <1>1, <1>2

(* Every variable keeps its type; an object has at most one generation     *)
(* that waits, one in flight and one parked.                               *)
THEOREM TypesHold == Spec => []TypeOK
<1>1. WriteBackInv => TypeOK
  <2> SUFFICES ASSUME WriteBackInv PROVE TypeOK
    OBVIOUS
  <2>1. Typed /\ MapInv
    BY DEF WriteBackInv
  <2>2. Known \subseteq Gens /\ 0..begun \subseteq Writes \cup {None} /\ begun \in Nat
    BY <2>1, GensKnown, BoundsAssumption DEF Typed, Writes, None
  <2>3. dir.data \subseteq Gens /\ dir.meta \subseteq Gens
    BY <2>1, <2>2 DEF Typed
  <2>4. ASSUME NEW m \in {pending, inflight, failed}, NEW o \in Objects
        PROVE  m[o] \subseteq {g \in Gens : g.obj = o} /\ Cardinality(m[o]) <= 1
    <3>1. m[o] \subseteq Known
      BY <2>1, <2>4 DEF Typed
    <3>2. \A g \in m[o] : g.obj = o /\ \A h \in m[o] : h = g
      BY <2>1, <2>4 DEF MapInv
    <3>3. m[o] \subseteq {g \in Gens : g.obj = o}
      BY <2>2, <3>1, <3>2
    <3>4. Cardinality(m[o]) <= 1
      BY <3>2, AtMostOne
    <3> QED BY <3>3, <3>4
  <2>5. origin \in [Objects -> Writes \cup {None}]
    BY <2>1, <2>2 DEF Typed
  <2>6. /\ \A w \in Writers : writer[w].gen \subseteq Gens
        /\ \A f \in Flushers : flusher[f].gen \subseteq Gens
    BY <2>1, <2>2 DEF Typed
  <2>7. /\ dir \in since /\ running \in BOOLEAN /\ nextSeq \in Nat /\ queue \in Seq(Objects)
        /\ attempts \in [Objects -> 0..(MaxAttempts - 1)] /\ faults.errors \in 0..MaxErrors
    BY <2>1, <2>2 DEF Typed
  <2>8. /\ begun \in 0..MaxWrites
        /\ acked \subseteq 1..begun /\ delivered \subseteq 1..begun
        /\ recovered \subseteq 1..begun /\ dropped \subseteq 1..begun
        /\ lost \subseteq 1..begun
    BY <2>1 DEF Typed
  <2> QED BY <2>3, <2>4, <2>5, <2>6, <2>7, <2>8 DEF TypeOK
<1> QED BY <1>1, InvHolds, PTL

(* A staged generation can be read back: what stage, the flusher and       *)
(* retry_failed remove outside the lock is dead, so take_next never has to *)
(* drop an acknowledged write.                                             *)
THEOREM StagedFilesStay == Spec => []StagedReadable
<1>1. WriteBackInv => StagedReadable
  <2> SUFFICES ASSUME WriteBackInv PROVE StagedReadable
    OBVIOUS
  <2>1. Typed /\ MapInv /\ DirInv /\ FileInv
    BY DEF WriteBackInv
  <2>2. ASSUME NEW g \in Staged PROVE g \in dir.data
    <3>1. g \in Gens /\ Has(g)
      BY <2>1, StagedHas
    <3>2. g \in dir.meta /\ dir \in since
      BY <2>1, <3>1, HasFile DEF Typed
    <3> QED BY <2>1, <3>2 DEF DirInv
  <2> QED BY <2>2 DEF StagedReadable, Readable
<1> QED BY <1>1, InvHolds, PTL

(* No staged write is forgotten: what waits is in the queue that take_next *)
(* reads, and what is in flight has a task that will complete, requeue or  *)
(* park it.                                                                *)
THEOREM NothingForgotten == Spec => []NotForgotten
<1>1. WriteBackInv => NotForgotten
  <2> SUFFICES ASSUME WriteBackInv, NEW o \in Objects
               PROVE  /\ pending[o] # {} => \E i \in 1..Len(queue) : queue[i] = o
                      /\ inflight[o] # {} => \E f \in Flushers :
                           /\ flusher[f].gen = inflight[o]
                           /\ flusher[f].pc \in {"read", "put", "complete", "fail"}
    BY DEF NotForgotten
  <2>1. Typed /\ MapInv /\ FlusherInv /\ QueueInv
    BY DEF WriteBackInv
  <2>2. pending[o] # {} => \E i \in 1..Len(queue) : queue[i] = o
    BY <2>1 DEF QueueInv
  <2>3. ASSUME inflight[o] # {}
        PROVE  \E f \in Flushers : flusher[f].gen = inflight[o] /\ flusher[f].pc \in Busy
    <3>1. PICK g \in inflight[o] : TRUE
      BY <2>3
    <3>2. inflight[o] = {g}
      BY <2>1, <3>1 DEF MapInv
    <3>3. PICK f \in Flushers : flusher[f].pc \in Busy /\ g \in flusher[f].gen
      BY <2>1, <3>1 DEF FlusherInv
    <3>4. flusher[f].pc # "idle"
      BY <3>3 DEF Busy
    <3>5. PICK h \in Known : flusher[f].gen = {h}
      BY <2>1, <3>4 DEF FlusherInv
    <3> QED BY <3>2, <3>3, <3>5
  <2> QED BY <2>2, <2>3 DEF Busy
<1> QED BY <1>1, InvHolds, PTL

(* What is settled has a witness in what was delivered or dropped.         *)
LEMMA AckedOwed ==
  ASSUME Typed, NEW b \in acked \ lost
  PROVE  b \in Writes /\ b \in Nat /\ Owed(b)
<1>1. b \in 1..begun /\ begun \in 0..MaxWrites
  BY DEF Typed
<1>2. b \in Writes /\ b \in Nat
  BY <1>1, BoundsAssumption DEF Writes
<1> QED BY <1>2 DEF Owed, Inserted

(* Whatever directory a crash or a power loss would leave, an acknowledged *)
(* write that no lower numbered stage call took the place of, or one that  *)
(* is not older, has been at the origin, is what recovery queues for its   *)
(* object or was given up as unreadable.                                   *)
THEOREM AcksAreDurable == Spec => []AckedDurable
<1>1. WriteBackInv => AckedDurable
  <2> SUFFICES ASSUME WriteBackInv, NEW b \in acked \ lost, NEW d \in since
               PROVE  \E v \in delivered \cup dropped \cup Bodies(Newest(d) \cap d.data) :
                        NotOlder(v, b)
    BY DEF AckedDurable
  <2>1. Typed /\ CallInv /\ DirInv /\ CoverInv
    BY DEF WriteBackInv
  <2>2. b \in Writes /\ b \in Nat /\ Owed(b)
    BY <2>1, AckedOwed
  <2>3. Settled(b) \/ \E s \in d.meta : s.obj = call[b].obj /\ s.body >= b
    BY <2>1, <2>2 DEF CoverInv
  <2>4. CASE Settled(b)
    BY <2>4 DEF Settled
  <2>5. CASE \E s \in d.meta : s.obj = call[b].obj /\ s.body >= b
    <3>1. PICK s \in d.meta : s.obj = call[b].obj /\ s.body >= b
      BY <2>5
    <3>2. PICK n \in Newest(d) : n.obj = s.obj /\ n.body >= s.body
      BY <2>1, NewestIn
    <3>3. n \in d.meta /\ n \in d.data
      BY <2>1 DEF DirInv, Newest
    <3>4. n \in Known /\ s \in Known /\ begun \in Nat
      BY <2>1, <3>3 DEF Typed
    <3>5. n.body \in 1..begun /\ s.body \in 1..begun
      BY <3>4, KnownFields
    <3>6. n.body \in Nat /\ n.body >= b
      BY <2>2, <3>1, <3>2, <3>4, <3>5
    <3>7. n.body \notin call[b].after
      BY <2>1, <2>2, <3>6, NotAfter
    <3>8. call[n.body].obj = n.obj
      BY <2>1, <3>3 DEF DirInv
    <3>9. NotOlder(n.body, b)
      BY <3>1, <3>2, <3>7, <3>8 DEF NotOlder
    <3>10. n.body \in Bodies(Newest(d) \cap d.data)
      BY <3>3 DEF Bodies
    <3> QED BY <3>9, <3>10
  <2> QED BY <2>3, <2>4, <2>5
<1> QED BY <1>1, InvHolds, PTL

(* While the process runs, such a write, or one that is not older, has     *)
(* been at the origin, waits, is being uploaded, is parked or was given up *)
(* as unreadable.                                                          *)
THEOREM AcksStayQueued == Spec => []AckedQueued
<1>1. WriteBackInv => AckedQueued
  <2> SUFFICES ASSUME WriteBackInv, running, NEW b \in acked \ lost
               PROVE  \E v \in delivered \cup dropped \cup Bodies(Staged) : NotOlder(v, b)
    BY DEF AckedQueued
  <2>1. Typed /\ MapInv /\ CallInv /\ DirInv /\ FileInv /\ StageInv
    BY DEF WriteBackInv
  <2>2. b \in Writes /\ b \in Nat /\ Owed(b)
    BY <2>1, AckedOwed
  <2>3. Settled(b) => \E v \in delivered \cup dropped : NotOlder(v, b)
    BY DEF Settled
  <2>4. InHand(b) /\ \A x \in Gens : Fresh(x, b)
    BY <2>1, <2>2, StageNow
  <2>5. ASSUME NEW s \in Gens, Has(s), s.obj = call[b].obj, s.body \notin call[b].after
        PROVE  \E v \in Bodies(Staged) : NotOlder(v, b)
    <3>1. s \in dir.meta
      BY <2>1, <2>5, HasFile
    <3>2. call[s.body].obj = s.obj
      BY <2>1, <3>1, FileCall
    <3>3. s.body \in Bodies(Staged)
      BY <2>1, <2>5, StagedHas DEF Bodies
    <3> QED BY <2>5, <3>2, <3>3 DEF NotOlder
  <2>6. ASSUME NEW s \in Gens, Has(s), s.obj = call[b].obj, s.body \in call[b].after, ~Settled(b)
        PROVE  \E v \in Bodies(Staged) : NotOlder(v, b)
    <3>1. PICK q \in pending[s.obj] : q.body >= b
      BY <2>4, <2>6 DEF Fresh
    <3>2. s.obj \in Objects
      BY GenFields
    <3>3. q \in Gens /\ q.obj = s.obj /\ Has(q)
      BY <2>1, <3>2, PendingHas
    <3>4. q.body \in Nat
      BY <3>3, GenFields
    <3>5. q.body \notin call[b].after
      BY <2>1, <2>2, <3>1, <3>4, NotAfter
    <3> QED BY <2>5, <2>6, <3>3, <3>5
  <2> QED BY <2>3, <2>4, <2>5, <2>6 DEF InHand
<1> QED BY <1>1, InvHolds, PTL

(* What staged_bytes answers is not older than such a write, unless        *)
(* recovery had found that older write on disk.                            *)
THEOREM ReadsSeeWrites == Spec => []ReadYourWrites
<1>1. WriteBackInv => ReadYourWrites
  <2> SUFFICES ASSUME WriteBackInv, NEW b \in acked \ lost, NEW g \in StagedBytes(call[b].obj)
               PROVE  NotOlder(g.body, b) \/ g.body \in recovered
    BY DEF ReadYourWrites
  <2>1. Typed /\ MapInv /\ CallInv /\ DirInv /\ FileInv /\ StageInv
    BY DEF WriteBackInv
  <2>2. b \in Writes /\ b \in Nat /\ Owed(b)
    BY <2>1, AckedOwed
  <2>3. g \in Staged /\ g.obj = call[b].obj /\ \A h \in Staged : h.obj = g.obj => h.seq <= g.seq
    BY DEF StagedBytes
  <2>4. g \in Gens /\ Has(g)
    BY <2>1, <2>3, StagedHas
  <2>5. g \in dir.meta /\ g.obj \in Objects
    BY <2>1, <2>4, HasFile
  <2>6. CASE g.body \notin call[b].after
    <3>1. call[g.body].obj = g.obj
      BY <2>1, <2>5, FileCall
    <3> QED BY <2>3, <2>6, <3>1 DEF NotOlder
  <2>7. CASE g.body \in call[b].after /\ g.body \notin recovered
    <3>1. PICK q \in pending[g.obj] : q.body >= b
      BY <2>1, <2>2, <2>3, <2>4, <2>7, StageNow DEF Fresh
    <3>2. q \in Gens /\ q.obj = g.obj /\ Has(q)
      BY <2>1, <2>5, PendingHas
    <3>3. g.body < b
      BY <2>1, <2>2, <2>7 DEF CallInv
    <3>4. q.body \in Nat /\ g.body \in Nat /\ q.seq \in Nat /\ g.seq \in Nat
      BY <2>4, <3>2, GenFields
    <3>5. g.body < q.body
      BY <2>2, <3>1, <3>3, <3>4
    <3>6. q \in dir.meta
      BY <2>1, <3>2, HasFile
    <3>7. g.seq < q.seq
      BY <2>1, <2>5, <3>2, <3>5, <3>6, DirOrder
    <3>8. q.seq <= g.seq
      BY <2>1, <2>3, <3>2, StagedHas
    <3> QED BY <3>4, <3>7, <3>8
  <2> QED BY <2>6, <2>7
<1> QED BY <1>1, InvHolds, PTL

(* The origin's copies change when an upload lands.                        *)
LEMMA OriginMoves ==
  ASSUME Next, origin' # origin
  PROVE  \E f \in Flushers : PutOk(f) \/ PutFails(f)
<1>1. ASSUME NEW w \in Writers, Stage(w) \/ StageFails(w) \/ \E o \in Objects : Begin(w, o)
      PROVE  FALSE
  BY <1>1 DEF Stage, StageFails, Begin, CommitMeta, SyncDir, Insert, Drop, Acknowledge
<1>2. ASSUME NEW f \in Flushers, Flush(f) \/ TakeNone(f) \/ ReadFails(f) \/ PutFails(f)
      PROVE  PutOk(f) \/ PutFails(f)
  BY <1>2 DEF Flush, TakeNone, ReadFails, Take, ReadStaged, Complete, Requeue, ParkFailed, Retire
<1>3. ~RetryFailed /\ ~Crash /\ ~PowerLoss /\ ~Recover
  BY DEF RetryFailed, Crash, PowerLoss, Stop, Recover
<1> QED BY <1>1, <1>2, <1>3 DEF Next

(* Without a restart the origin never goes back to an older write: an      *)
(* older body lands only when recovery had found it on disk.               *)
THEOREM OriginAdvances == Spec => BackOnlyByRestart
<1> DEFINE Kept ==
      \A o \in Objects :
        origin'[o] # origin[o] /\ origin[o] # None =>
          NotOlder(origin'[o], origin[o]) \/ origin'[o] \in recovered
<1>1. WriteBackInv /\ [Next]_vars => [Kept]_vars
  <2> SUFFICES ASSUME WriteBackInv, Next, NEW o \in Objects,
                      origin'[o] # origin[o], origin[o] # None
               PROVE  NotOlder(origin'[o], origin[o]) \/ origin'[o] \in recovered
    OBVIOUS
  <2>1. Typed /\ MapInv /\ FlusherInv /\ DirInv /\ FileInv /\ OriginInv
    BY DEF WriteBackInv
  <2>2. PICK f \in Flushers : PutOk(f) \/ PutFails(f)
    BY OriginMoves
  <2>3. PICK g \in Known : flusher[f].gen = {g} /\ flusher[f].pc = "put" /\
                           (Landed(g) \/ (origin' = origin /\ delivered' = delivered))
    BY <2>1, <2>2, PutOkView, PutFailsView
  <2>4. g.obj = o /\ origin'[o] = g.body
    BY <2>3 DEF Landed
  <2>5. g \in Gens
    BY <2>1, GensKnown
  <2>6. Has(g)
    BY <2>1, <2>3 DEF FlusherInv, Busy, Has
  <2>7. call[g.body].obj = o
    BY <2>1, <2>4, <2>5, <2>6, HasFile, FileCall
  <2>8. origin[o] \in delivered /\ call[origin[o]].obj = o
    BY <2>1 DEF OriginInv
  <2>9. g.body \in call[origin[o]].after => g.body \in recovered
    BY <2>1, <2>4, <2>5, <2>6, <2>8 DEF OriginInv
  <2> QED BY <2>4, <2>7, <2>8, <2>9 DEF NotOlder
<1> QED BY <1>1, InvHolds, PTL DEF Spec, BackOnlyByRestart

============================================================================
