--------------------------- MODULE HeartbeatsProofs ---------------------------
(***************************************************************************)
(* Leases, cached approvals and readiness are bounded by what was really   *)
(* received, stored and observed, for any number of coordinators,          *)
(* instances, reports and faults, and any timing that TimingAssumption     *)
(* allows.                                                                 *)
(***************************************************************************)
EXTENDS Heartbeats, FiniteSetTheorems, TLAPS

\* A report costs a move, so sequences stay below the moves.
SeqSpent == \A i \in Instances : worker[i].seq <= moves

\* A coordinator has a buffer only after its first discovery.
OpenInv == \A c \in Coordinators, i \in Instances : entry[c][i] # Nobody => disc[c] # Nobody

TypeInv == TypeOK /\ SeqSpent /\ OpenInv

-----------------------------------------------------------------------------
(* What the operators compute                                              *)

\* The timing constants are numbers in this order.
LEMMA Timing ==
  /\ TTL \in Nat /\ MAX_AGE \in Nat /\ REQUEST_TIMEOUT \in Nat /\ HOLD \in Nat
  /\ 0 < REQUEST_TIMEOUT /\ REQUEST_TIMEOUT < MAX_AGE /\ MAX_AGE < TTL /\ 0 < HOLD
  /\ ROUND \in Nat /\ 0 < ROUND
  /\ LongAccepted \in Nat /\ HOLD <= LongAccepted /\ ROUND <= LongAccepted
  /\ MaxMoves \in Nat /\ Seqs \subseteq Nat
BY TimingAssumption DEF Seqs, LongAccepted

\* Nothing is none of the values.
LEMMA NobodyIsNone ==
  /\ Nobody \notin RecordType /\ Nobody \notin EntryType /\ Nobody \notin ViewType
  /\ Nobody \notin ReadType /\ Nobody \notin FlushType /\ Nobody \notin HolderType
  /\ Nobody \notin Instances /\ Nobody \notin 0..MAX_AGE
BY NobodyAssumption

\* Verdict is one of five answers; only a fresh buffer that says so serves.
LEMMA VerdictIs ==
  ASSUME NEW c, NEW e, NEW r
  PROVE  /\ Verdict(c, e, r) \in {"admit", "refuse", "serve", "decline"}
         /\ Verdict(c, e, r) = "serve" => e # Nobody /\ e.serving /\ Fresh(c)
         /\ Verdict(c, e, r) \in {"serve", "decline"} => e # Nobody /\ ~(r.seq < e.seq)
BY DEF Verdict

\* What a receipt leaves of an entry: the marks of the publication and who
\* serves; a newer report is dated now.
LEMMA ReceivedIs ==
  ASSUME NEW c, NEW e \in EntryType, NEW r, r.seq \in Seqs, r.ready \in BOOLEAN
  PROVE  LET n == Received(c, e, r) IN
         /\ n \in EntryType
         /\ n.pseq = e.pseq /\ n.per = e.per /\ n.serving = e.serving
         /\ \/ n.seq = e.seq /\ n.rcv = e.rcv
            \/ n.seq = r.seq /\ n.rcv = 0 /\ e.seq < r.seq
<1> DEFINE V == Verdict(c, e, r)
           g == [e EXCEPT !.own = TRUE, !.seq = r.seq, !.rcv = IF r.seq > e.seq THEN 0 ELSE @]
           d == [e EXCEPT !.admitted = FALSE]
<1>1. V \in {"serve", "decline"} => ~(r.seq < e.seq)
  BY VerdictIs
<1>2. g \in EntryType /\ d \in EntryType
  <2>1. PICK k : k = IF r.seq > e.seq THEN 0 ELSE e.rcv
    OBVIOUS
  <2>2. k \in 0..TTL /\ g = [e EXCEPT !.own = TRUE, !.seq = r.seq, !.rcv = k]
    BY <2>1, Timing DEF EntryType
  <2> HIDE DEF g
  <2> QED BY <2>2 DEF EntryType
<1>3. g.pseq = e.pseq /\ g.per = e.per /\ g.serving = e.serving /\ g.seq = r.seq
      /\ g.rcv = IF r.seq > e.seq THEN 0 ELSE e.rcv
  BY DEF EntryType
<1>4. d.pseq = e.pseq /\ d.per = e.per /\ d.serving = e.serving /\ d.seq = e.seq /\ d.rcv = e.rcv
  BY DEF EntryType
<1>5. e.seq \in Nat /\ r.seq \in Nat
  BY Timing DEF EntryType
<1>6. \/ V \in {"serve", "decline"} /\ Received(c, e, r) = g
      \/ Received(c, e, r) = d
      \/ Received(c, e, r) = e
  BY DEF Received
<1> HIDE DEF V, g, d
<1>7. CASE V \in {"serve", "decline"} /\ Received(c, e, r) = g
  BY <1>1, <1>2, <1>3, <1>5, <1>7
<1>8. CASE Received(c, e, r) = d
  BY <1>2, <1>4, <1>8
<1>9. CASE Received(c, e, r) = e
  BY <1>9
<1> QED BY <1>6, <1>7, <1>8, <1>9

\* A receipt without an entry leaves none.
LEMMA ReceivedNone ==
  ASSUME NEW c, NEW r
  PROVE  Received(c, Nobody, r) = Nobody
BY DEF Received, Verdict

\* An admission is an entry.
LEMMA AdmitIs ==
  ASSUME NEW r, r.seq \in Seqs, r.ready \in BOOLEAN, NEW own \in BOOLEAN, NEW age \in 0..TTL,
         NEW serving \in BOOLEAN
  PROVE  LET n == admit(r, own, age, serving) IN
         /\ n \in EntryType /\ n.seq = r.seq /\ n.pseq = r.seq /\ n.rcv = age /\ n.per = age
         /\ n.serving = serving
BY DEF admit, EntryType

\* What a discovery leaves of an entry: every date is the old one or the age
\* of the snapshot, and only what was buffered before is newer than published.
LEMMA InstallIs ==
  ASSUME NEW e \in Maybe(EntryType), NEW i \in Instances,
         NEW snap \in [Instances -> Maybe(ViewType)], NEW age \in 0..REQUEST_TIMEOUT
  PROVE  LET n == install(e, i, snap, age)
             s == snap[i]
         IN  n # Nobody =>
             /\ n \in EntryType
             /\ n.serving = (retained(snap) = i)
             /\ \/ e # Nobody /\ n.seq = e.seq /\ n.rcv = e.rcv
                \/ s # Nobody /\ n.seq = s.seq /\ n.rcv = age /\ n.seq <= n.pseq
             /\ \/ e # Nobody /\ n.pseq = e.pseq /\ n.per = e.per /\ (s = Nobody \/ s.seq <= e.pseq)
                \/ s # Nobody /\ n.pseq = s.seq /\ n.per = age /\ (e = Nobody \/ s.seq > e.pseq)
<1> DEFINE s == snap[i]
           warm == IF s = Nobody THEN e
                   ELSE IF e = Nobody THEN admit(s, FALSE, age, FALSE) ELSE Observed(e, s, age)
           n == install(e, i, snap, age)
           sv == (retained(snap) = i)
           Dates(x) == /\ \/ e # Nobody /\ x.seq = e.seq /\ x.rcv = e.rcv
                          \/ s # Nobody /\ x.seq = s.seq /\ x.rcv = age /\ x.seq <= x.pseq
                       /\ \/ /\ e # Nobody /\ x.pseq = e.pseq /\ x.per = e.per
                             /\ s = Nobody \/ s.seq <= e.pseq
                          \/ s # Nobody /\ x.pseq = s.seq /\ x.per = age
                             /\ (e = Nobody \/ s.seq > e.pseq)
<1>1. s \in Maybe(ViewType) /\ age \in 0..TTL /\ age \in Nat /\ sv \in BOOLEAN
  BY Timing
<1>2. n = Nobody \/ (warm # Nobody /\ n = [warm EXCEPT !.serving = sv])
  BY DEF install
<1>3. ASSUME s = Nobody, warm # Nobody PROVE warm \in EntryType /\ Dates(warm)
  <2>1. warm = e
    BY <1>3
  <2> HIDE DEF s, warm
  <2> QED BY <1>3, <2>1 DEF Maybe
<1>4. ASSUME s # Nobody, e = Nobody PROVE warm \in EntryType /\ Dates(warm)
  <2>1. warm = admit(s, FALSE, age, FALSE)
    BY <1>4
  <2> HIDE DEF s, warm
  <2>2. s \in ViewType
    BY <1>1, <1>4 DEF Maybe
  <2>3. s.seq \in Seqs /\ s.ready \in BOOLEAN /\ s.seq \in Nat
    BY <2>2, Timing DEF ViewType
  <2>4. /\ warm \in EntryType /\ warm.seq = s.seq /\ warm.pseq = s.seq /\ warm.rcv = age
        /\ warm.per = age
    BY <1>1, <2>1, <2>3 DEF admit, EntryType
  <2> QED BY <1>4, <2>3, <2>4
<1>5. ASSUME s # Nobody, e # Nobody PROVE warm \in EntryType /\ Dates(warm)
  <2> DEFINE pub == IF s.seq > e.pseq THEN [e EXCEPT !.pseq = s.seq, !.per = age] ELSE e
  <2>1. warm = IF s.seq > e.seq
               THEN [pub EXCEPT !.seq = s.seq, !.ready = s.ready, !.rcv = age] ELSE pub
    BY <1>5 DEF Observed
  <2> HIDE DEF s, warm
  <2>2. s \in ViewType /\ e \in EntryType
    BY <1>1, <1>5 DEF Maybe
  <2>3. s.seq \in Seqs /\ s.ready \in BOOLEAN /\ s.seq \in Nat /\ e.seq \in Nat /\ e.pseq \in Nat
    BY <2>2, Timing DEF ViewType, EntryType
  <2>4. /\ pub \in EntryType /\ pub.seq = e.seq /\ pub.rcv = e.rcv
        /\ \/ pub.pseq = e.pseq /\ pub.per = e.per /\ s.seq <= e.pseq
           \/ pub.pseq = s.seq /\ pub.per = age /\ s.seq > e.pseq
    <3>1. CASE s.seq > e.pseq
      <4>1. pub = [e EXCEPT !.pseq = s.seq, !.per = age]
        BY <3>1
      <4> HIDE DEF pub, sv, n, Dates
      <4> QED BY <1>1, <2>2, <2>3, <3>1, <4>1 DEF EntryType
    <3>2. CASE ~(s.seq > e.pseq)
      <4>1. pub = e
        BY <3>2
      <4> HIDE DEF pub, sv, n, Dates
      <4> QED BY <2>2, <2>3, <3>2, <4>1
    <3> QED BY <3>1, <3>2
  <2> HIDE DEF pub
  <2>5. /\ warm \in EntryType /\ warm.pseq = pub.pseq /\ warm.per = pub.per
        /\ \/ s.seq <= e.seq /\ warm.seq = pub.seq /\ warm.rcv = pub.rcv
           \/ s.seq > e.seq /\ warm.seq = s.seq /\ warm.rcv = age
    <3>1. CASE s.seq > e.seq
      <4>1. warm = [pub EXCEPT !.seq = s.seq, !.ready = s.ready, !.rcv = age]
        BY <2>1, <3>1
      <4> HIDE DEF sv, n, Dates
      <4> QED BY <1>1, <2>3, <2>4, <3>1, <4>1 DEF EntryType
    <3>2. CASE ~(s.seq > e.seq)
      BY <2>1, <2>3, <2>4, <3>2
    <3> QED BY <3>1, <3>2
  <2> QED BY <1>5, <2>3, <2>4, <2>5
<1> HIDE DEF s, warm
<1>6. warm # Nobody => warm \in EntryType /\ Dates(warm)
  BY <1>3, <1>4, <1>5
<1> HIDE DEF sv, n
<1>7. n # Nobody => /\ n \in EntryType /\ n.serving = sv
                    /\ n.seq = warm.seq /\ n.rcv = warm.rcv /\ n.pseq = warm.pseq
                    /\ n.per = warm.per /\ Dates(warm)
  BY <1>1, <1>2, <1>6 DEF EntryType
<1>8. n # Nobody => n \in EntryType /\ n.serving = sv /\ Dates(n)
  BY <1>7
<1> QED BY <1>8 DEF s, sv, n

\* A completed publication moves the marks to the report it wrote, or not.
LEMMA PersistedIs ==
  ASSUME NEW e \in EntryType, NEW f \in FlushType
  PROVE  LET n == persisted(e, f) IN
         /\ n \in EntryType
         /\ n.seq = e.seq /\ n.rcv = e.rcv /\ n.serving = e.serving
         /\ n = e \/ (n.pseq = f.seq /\ n.per = f.rcv /\ e.pseq <= f.seq)
<1> DEFINE d == [e EXCEPT !.pseq = f.seq, !.per = f.rcv]
<1>1. e.pseq \in Nat /\ f.seq \in Nat
  BY Timing DEF EntryType, FlushType
<1>2. persisted(e, f) = e \/ (persisted(e, f) = d /\ ~(e.pseq > f.seq))
  BY DEF persisted
<1>3. /\ d \in EntryType /\ d.seq = e.seq /\ d.rcv = e.rcv /\ d.serving = e.serving
      /\ d.pseq = f.seq /\ d.per = f.rcv
  BY DEF EntryType, FlushType
<1> HIDE DEF d
<1> QED BY <1>1, <1>2, <1>3

\* What a write leaves in the store, and the highest sequence stored.
LEMMA UpsertIs ==
  ASSUME TypeInv, NEW i \in Instances, NEW seq \in Seqs, NEW ready \in BOOLEAN,
         NEW ttl \in 1..TTL, upsert_instance(i, seq, ready, ttl)
  PROVE  /\ store' \in [Instances -> Maybe(RecordType)]
         /\ top' \in [Instances -> Seqs]
         /\ sole' \in [Instances -> 0..LongLost]
         /\ sole' = SoleSince(store', sole)
         /\ \A j \in Instances : j # i => store'[j] = store[j]
         /\ \A j \in Instances : top'[j] >= top[j]
         /\ top'[i] >= seq
         /\ store'[i] # Nobody
         /\ \/ store'[i] = store[i] /\ store[i].seq >= seq
            \/ /\ store'[i] = [seq |-> seq, ready |-> ready, left |-> ttl]
               /\ store[i] = Nobody \/ seq > store[i].seq
<1> DEFINE new == [seq |-> seq, ready |-> ready, left |-> ttl]
           next == IF Disposition(i, seq) = "applied" THEN [store EXCEPT ![i] = new] ELSE store
<1>1. /\ store \in [Instances -> Maybe(RecordType)] /\ top \in [Instances -> Seqs]
      /\ sole \in [Instances -> 0..LongLost]
  BY DEF TypeInv, TypeOK
<1>2. store' = next /\ top' = [top EXCEPT ![i] = IF seq > @ THEN seq ELSE @]
      /\ sole' = SoleSince(next, sole)
  BY DEF upsert_instance
<1>3. new \in RecordType /\ new # Nobody
  BY NobodyIsNone DEF RecordType
<1>4. seq \in Nat /\ (store[i] # Nobody => store[i].seq \in Nat)
  BY <1>1, Timing DEF Maybe, RecordType
<1>5. \/ Disposition(i, seq) = "applied" /\ (store[i] = Nobody \/ seq > store[i].seq)
      \/ Disposition(i, seq) # "applied" /\ store[i] # Nobody /\ store[i].seq >= seq
  BY <1>4 DEF Disposition
<1>6. /\ next \in [Instances -> Maybe(RecordType)]
      /\ \A j \in Instances : j # i => next[j] = store[j]
      /\ next[i] # Nobody
      /\ \/ next[i] = store[i] /\ store[i].seq >= seq
         \/ next[i] = new /\ (store[i] = Nobody \/ seq > store[i].seq)
  <2> HIDE DEF new
  <2>1. CASE Disposition(i, seq) = "applied"
    <3>1. next = [store EXCEPT ![i] = new]
      BY <2>1
    <3> HIDE DEF next
    <3> QED BY <1>1, <1>3, <1>5, <2>1, <3>1 DEF Maybe
  <2>2. CASE Disposition(i, seq) # "applied"
    <3>1. next = store
      BY <2>2
    <3> HIDE DEF next
    <3> QED BY <1>1, <1>5, <2>2, <3>1
  <2> QED BY <2>1, <2>2
<1> HIDE DEF next, new
<1>7. /\ top' \in [Instances -> Seqs] /\ top'[i] >= seq
      /\ \A j \in Instances : top'[j] >= top[j]
  <2>1. \A j \in Instances : top[j] \in Nat
    BY <1>1, Timing
  <2>2. top'[i] = IF seq > top[i] THEN seq ELSE top[i]
    BY <1>1, <1>2
  <2>3. \A j \in Instances : j # i => top'[j] = top[j]
    BY <1>1, <1>2
  <2>4. top' \in [Instances -> Seqs]
    <3>1. PICK k : k = IF seq > top[i] THEN seq ELSE top[i]
      OBVIOUS
    <3>2. k \in Seqs /\ top' = [top EXCEPT ![i] = k]
      BY <1>1, <1>2, <3>1
    <3> QED BY <1>1, <3>2
  <2> QED BY <1>4, <2>1, <2>2, <2>3, <2>4
<1>8. sole' \in [Instances -> 0..LongLost]
  BY <1>1, <1>2, Timing DEF SoleSince, LongLost
<1> QED BY <1>2, <1>6, <1>7, <1>8 DEF new

-----------------------------------------------------------------------------
(* Types                                                                   *)

\* An answer registers the instance or ends its registration.
LEMMA RegisteredIs ==
  ASSUME NEW w \in WorkerType, NEW serving \in BOOLEAN
  PROVE  /\ Registered(w, serving) \in WorkerType /\ Registered(w, serving).seq = w.seq
         /\ \/ Registered(w, serving).reg = "no"
            \/ serving /\ Registered(w, serving).reg = "yes" /\ Registered(w, serving).ok = 0
<1> DEFINE x == Registered(w, serving)
<1>1. /\ w = [f \in {"seq", "wait", "reg", "ok"} |-> w[f]]
      /\ w.seq \in Seqs
  BY DEF WorkerType
<1>2. /\ x.seq = w.seq /\ x.wait = FALSE /\ x.reg = (IF serving THEN "yes" ELSE "no")
      /\ x.ok = (IF serving THEN 0 ELSE LongAccepted)
      /\ x = [f \in {"seq", "wait", "reg", "ok"} |-> x[f]]
  BY <1>1 DEF Registered
<1>3. x.ok \in 0..LongAccepted
  BY <1>2, Timing
<1>4. x = [seq |-> x.seq, wait |-> x.wait, reg |-> x.reg, ok |-> x.ok]
  BY <1>2
<1> QED BY <1>1, <1>2, <1>3, <1>4 DEF WorkerType

\* An acknowledgement touches the registration and the wait of its instance only.
LEMMA AckedIs ==
  ASSUME TypeInv, NEW i \in Instances, NEW seq, NEW reply, worker' = Acked(i, seq, reply)
  PROVE  /\ worker' \in [Instances -> WorkerType]
         /\ \A j \in Instances : worker'[j].seq = worker[j].seq
         /\ \A j \in Instances : j # i => worker'[j] = worker[j]
         /\ \/ worker'[i] = worker[i]
            \/ worker'[i].reg = "no"
            \/ worker'[i].reg = "yes" /\ worker'[i].ok = 0 /\ reply = "serve"
<1> DEFINE w == worker[i]
<1>1. worker \in [Instances -> WorkerType] /\ w \in WorkerType
  BY DEF TypeInv, TypeOK
<1>2. PICK n : n = Registered(w, reply = "serve")
  OBVIOUS
<1>3. /\ n \in WorkerType /\ n.seq = w.seq
      /\ n.reg = "no" \/ (n.reg = "yes" /\ n.ok = 0 /\ reply = "serve")
  <2>1. (reply = "serve") \in BOOLEAN
    OBVIOUS
  <2> HIDE DEF w
  <2> QED BY <1>1, <1>2, <2>1, RegisteredIs
<1>4. worker' = [worker EXCEPT ![i] = w] \/ worker' = [worker EXCEPT ![i] = n]
  BY <1>2 DEF Acked
<1>5. CASE worker' = [worker EXCEPT ![i] = w]
  BY <1>1, <1>5
<1>6. CASE worker' = [worker EXCEPT ![i] = n]
  <2>1. /\ worker' \in [Instances -> WorkerType] /\ worker'[i] = n
        /\ \A j \in Instances : j # i => worker'[j] = worker[j]
    BY <1>1, <1>3, <1>6
  <2> QED BY <1>3, <2>1
<1> QED BY <1>4, <1>5, <1>6

\* What a report leaves of the instance that sends it.
Sent(w) == [w EXCEPT !.seq = @ + 1, !.wait = TRUE]
Reported(w, verdict, read) ==
  IF verdict = "admit" \/ ~read THEN Sent(w) ELSE Registered(Sent(w), verdict = "serve")

LEMMA ReportedIs ==
  ASSUME NEW w \in WorkerType, NEW verdict, NEW read \in BOOLEAN, w.seq + 1 \in Seqs
  PROVE  LET n == Reported(w, verdict, read)
         IN  /\ n \in WorkerType /\ n.seq = w.seq + 1
             /\ \/ n.reg = w.reg /\ n.ok = w.ok
                \/ n.reg = "no"
                \/ n.reg = "yes" /\ n.ok = 0 /\ verdict = "serve"
<1>1. PICK v : v = Sent(w)
  OBVIOUS
<1>2. v \in WorkerType /\ v.seq = w.seq + 1 /\ v.reg = w.reg /\ v.ok = w.ok
  BY <1>1 DEF Sent, WorkerType
<1>3. CASE verdict = "admit" \/ ~read
  BY <1>1, <1>2, <1>3 DEF Reported
<1>4. CASE ~(verdict = "admit" \/ ~read)
  <2>1. PICK n : n = Registered(v, verdict = "serve")
    OBVIOUS
  <2>2. Reported(w, verdict, read) = n
    BY <1>1, <1>4, <2>1 DEF Reported
  <2>3. (verdict = "serve") \in BOOLEAN
    OBVIOUS
  <2>4. /\ n \in WorkerType /\ n.seq = v.seq
        /\ n.reg = "no" \/ (n.reg = "yes" /\ n.ok = 0 /\ verdict = "serve")
    BY <1>2, <2>1, <2>3, RegisteredIs
  <2> QED BY <1>2, <2>2, <2>4
<1> QED BY <1>3, <1>4

\* A receipt keeps the buffer's type.
LEMMA BufferIs ==
  ASSUME TypeInv, NEW c \in Coordinators, NEW i \in Instances, NEW r, r.seq \in Seqs,
         r.ready \in BOOLEAN, entry' = [entry EXCEPT ![c][i] = Received(c, @, r)]
  PROVE  /\ entry' \in [Coordinators -> [Instances -> Maybe(EntryType)]]
         /\ entry'[c][i] = Received(c, entry[c][i], r)
         /\ entry'[c][i] # Nobody => entry[c][i] # Nobody
         /\ \A d \in Coordinators, j \in Instances :
              d # c \/ j # i => entry'[d][j] = entry[d][j]
<1>1. entry \in [Coordinators -> [Instances -> Maybe(EntryType)]]
  BY DEF TypeInv, TypeOK
<1>2. PICK n : n = Received(c, entry[c][i], r)
  OBVIOUS
<1>3. entry' = [entry EXCEPT ![c][i] = n]
  BY <1>2
<1>4. n \in Maybe(EntryType) /\ (n # Nobody => entry[c][i] # Nobody)
  <2>1. CASE entry[c][i] = Nobody
    BY <1>2, <2>1, ReceivedNone DEF Maybe
  <2>2. CASE entry[c][i] # Nobody
    <3>1. entry[c][i] \in EntryType
      BY <1>1, <2>2 DEF Maybe
    <3>2. n \in EntryType
      BY <1>2, <3>1, ReceivedIs
    <3> QED BY <2>2, <3>2 DEF Maybe
  <2> QED BY <2>1, <2>2
<1>5. /\ entry' \in [Coordinators -> [Instances -> Maybe(EntryType)]] /\ entry'[c][i] = n
      /\ \A d \in Coordinators, j \in Instances : d # c \/ j # i => entry'[d][j] = entry[d][j]
  BY <1>1, <1>3, <1>4
<1> QED BY <1>2, <1>4, <1>5

\* A report and its receipt keep the types.
LEMMA BeatType ==
  ASSUME TypeInv, NEW i \in Instances, NEW c \in Coordinators, NEW ready \in BOOLEAN,
         NEW read \in BOOLEAN, Beat(i, c, ready, read)
  PROVE  TypeInv'
<1> DEFINE w == worker[i]
           r == [c |-> c, i |-> i, seq |-> w.seq, ready |-> ready, pc |-> "queued",
                 age |-> 0, applied |-> FALSE]
           verdict == Verdict(c, entry[c][i], r)
<1>1. /\ worker \in [Instances -> WorkerType] /\ w \in WorkerType /\ reqs \subseteq RequestType
      /\ moves \in 0..MaxMoves /\ w.seq <= moves /\ w.seq \in Seqs
      /\ heard \in [Instances -> 0..LongSilent]
  BY DEF TypeInv, TypeOK, SeqSpent, WorkerType
<1>2. /\ Spend((IF ready THEN 1 ELSE 2) + (IF read THEN 0 ELSE 1)) /\ disc[c] # Nobody
      /\ heard' = [heard EXCEPT ![i] = 0]
      /\ entry' = [entry EXCEPT ![c][i] = Received(c, @, r)]
      /\ reqs' = (IF verdict = "admit" THEN reqs \cup {r} ELSE reqs)
      /\ worker' = [worker EXCEPT ![i] = Reported(w, verdict, read)]
      /\ UNCHANGED <<store, disc, lock, rec, flush, sole, top, lent>>
  BY DEF Beat, Reported, Sent
<1>3. moves' \in 0..MaxMoves /\ moves' >= moves + 1 /\ moves' \in Nat
  BY <1>1, <1>2, Timing DEF Spend
<1>4. r \in RequestType /\ r.seq \in Seqs /\ r.ready \in BOOLEAN
  BY <1>1, Timing DEF RequestType
<1>5. /\ entry' \in [Coordinators -> [Instances -> Maybe(EntryType)]]
      /\ entry'[c][i] # Nobody => entry[c][i] # Nobody
      /\ \A d \in Coordinators, j \in Instances : d # c \/ j # i => entry'[d][j] = entry[d][j]
  <2> HIDE DEF r
  <2> QED BY <1>2, <1>4, BufferIs
<1>6. w.seq + 1 \in Seqs
  BY <1>1, <1>3, Timing DEF Seqs
<1>7. PICK n : n = Reported(w, verdict, read)
  OBVIOUS
<1>8. n \in WorkerType /\ n.seq = w.seq + 1
  <2> HIDE DEF verdict, w
  <2> QED BY <1>1, <1>6, <1>7, ReportedIs
<1>9. /\ worker' \in [Instances -> WorkerType] /\ worker'[i].seq = w.seq + 1
      /\ \A j \in Instances : j # i => worker'[j] = worker[j]
  <2> HIDE DEF verdict, w
  <2> QED BY <1>1, <1>2, <1>7, <1>8
<1>10. SeqSpent'
  <2>1. ASSUME NEW j \in Instances PROVE worker'[j].seq <= moves'
    <3>1. worker[j].seq \in Nat /\ worker[j].seq <= moves
      BY <1>1, Timing DEF TypeInv, TypeOK, SeqSpent, WorkerType
    <3> QED BY <1>1, <1>3, <1>9, <3>1
  <2> QED BY <2>1 DEF SeqSpent
<1>11. OpenInv'
  BY <1>2, <1>5 DEF OpenInv, TypeInv
<1>12. reqs' \subseteq RequestType /\ heard' \in [Instances -> 0..LongSilent]
  <2>1. 0 \in 0..LongSilent
    BY Timing DEF LongSilent
  <2> HIDE DEF r, verdict
  <2> QED BY <1>1, <1>2, <1>4, <2>1
<1>13. TypeOK'
  <2> HIDE DEF r, verdict, w
  <2> QED BY <1>2, <1>3, <1>5, <1>9, <1>12 DEF TypeInv, TypeOK
<1> QED BY <1>10, <1>11, <1>13 DEF TypeInv

\* What a failure leaves of the registration.
LEMMA ControlFailsIs ==
  ASSUME TypeInv, NEW i \in Instances, ControlFails(i)
  PROVE  /\ worker' \in [Instances -> WorkerType]
         /\ \A j \in Instances : worker'[j].seq = worker[j].seq
         /\ \A j \in Instances : j # i => worker'[j] = worker[j]
         /\ \/ worker'[i].reg = "no"
            \/ /\ worker[i].reg # "no" /\ worker[i].ok < HOLD
               /\ worker'[i].reg = "until" /\ worker'[i].ok = worker[i].ok
         /\ moves' = moves \/ (moves' = moves + 1 /\ moves + 1 <= MaxMoves)
         /\ UNCHANGED <<reqs, store, entry, disc, lock, rec, flush, heard, sole, top, lent>>
<1>1. worker \in [Instances -> WorkerType] /\ worker[i] \in WorkerType
  BY DEF TypeInv, TypeOK
<1>2. PICK w : w = [worker[i] EXCEPT !.wait = FALSE]
  OBVIOUS
<1>3. /\ w \in WorkerType /\ w.seq = worker[i].seq /\ w.reg = worker[i].reg /\ w.ok = worker[i].ok
  BY <1>1, <1>2 DEF WorkerType
<1>4. PICK n : n = IF w.reg # "no" /\ w.ok < HOLD THEN [w EXCEPT !.reg = "until"]
                   ELSE Registered(w, FALSE)
  OBVIOUS
<1>5. worker' = [worker EXCEPT ![i] = n]
  BY <1>2, <1>4 DEF ControlFails
<1>6. /\ n \in WorkerType /\ n.seq = w.seq
      /\ \/ n.reg = "no"
         \/ w.reg # "no" /\ w.ok < HOLD /\ n.reg = "until" /\ n.ok = w.ok
  <2>1. CASE w.reg # "no" /\ w.ok < HOLD
    BY <1>3, <1>4, <2>1 DEF WorkerType
  <2>2. CASE ~(w.reg # "no" /\ w.ok < HOLD)
    BY <1>3, <1>4, <2>2, RegisteredIs
  <2> QED BY <2>1, <2>2
<1>7. /\ worker' \in [Instances -> WorkerType] /\ worker'[i] = n
      /\ \A j \in Instances : j # i => worker'[j] = worker[j]
  BY <1>1, <1>5, <1>6
<1>8. /\ moves' = moves \/ (moves' = moves + 1 /\ moves + 1 <= MaxMoves)
      /\ UNCHANGED <<reqs, store, entry, disc, lock, rec, flush, heard, sole, top, lent>>
  BY DEF ControlFails, Fault, Spend, caches, history
<1> QED BY <1>3, <1>6, <1>7, <1>8

\* A failure keeps the types.
LEMMA ControlFailsType ==
  ASSUME TypeInv, NEW i \in Instances, ControlFails(i)
  PROVE  TypeInv'
<1>1. /\ worker' \in [Instances -> WorkerType]
      /\ \A j \in Instances : worker'[j].seq = worker[j].seq
      /\ moves' = moves \/ (moves' = moves + 1 /\ moves + 1 <= MaxMoves)
      /\ UNCHANGED <<reqs, store, entry, disc, lock, rec, flush, heard, sole, top, lent>>
  BY ControlFailsIs
<1>2. worker \in [Instances -> WorkerType] /\ moves \in 0..MaxMoves
  BY DEF TypeInv, TypeOK
<1>3. moves' \in 0..MaxMoves /\ moves <= moves'
  BY <1>1, <1>2, Timing
<1>4. SeqSpent'
  <2>1. ASSUME NEW j \in Instances PROVE worker'[j].seq <= moves'
    <3>1. worker[j].seq \in Nat /\ worker[j].seq <= moves
      BY <1>2, Timing DEF TypeInv, SeqSpent, WorkerType
    <3> QED BY <1>1, <1>2, <1>3, <3>1
  <2> QED BY <2>1 DEF SeqSpent
<1> QED BY <1>1, <1>3, <1>4 DEF TypeInv, TypeOK, OpenInv

\* The request that holds the lock is the one whose publication it follows.
LEMMA PublishType ==
  ASSUME TypeInv, NEW r \in reqs, Publish(r)
  PROVE  TypeInv'
<1> DEFINE verdict == Verdict(r.c, entry[r.c][r.i], r)
           result == Disposition(r.i, r.seq)
           n == [r EXCEPT !.pc = "refresh", !.applied = (result = "applied")]
<1>1. r \in RequestType /\ reqs \subseteq RequestType
  BY DEF TypeInv, TypeOK
<1>2. /\ r.c \in Coordinators /\ r.i \in Instances /\ r.seq \in Seqs /\ r.ready \in BOOLEAN
      /\ r.age \in 0..REQUEST_TIMEOUT
  BY <1>1 DEF RequestType
<1>3. /\ lock[r.c] = Nobody
      /\ entry' = [entry EXCEPT ![r.c][r.i] = Received(r.c, @, r)]
      /\ IF verdict = "admit"
         THEN upsert_instance(r.i, r.seq, r.ready, Remaining(r.age))
         ELSE UNCHANGED <<store, top, sole>>
      /\ IF verdict = "admit" /\ result # "stale"
         THEN /\ reqs' = (reqs \ {r}) \cup {n}
              /\ lock' = [lock EXCEPT ![r.c] = <<r.i, r.seq>>]
              /\ UNCHANGED worker
         ELSE Answer(r, verdict) /\ UNCHANGED lock
      /\ UNCHANGED <<moves, disc, rec, flush, heard, lent>>
  BY DEF Publish
<1>4. Remaining(r.age) \in 1..TTL
  BY <1>2, Timing DEF Remaining
<1>5. /\ store' \in [Instances -> Maybe(RecordType)] /\ top' \in [Instances -> Seqs]
      /\ sole' \in [Instances -> 0..LongLost]
  <2> HIDE DEF verdict, result
  <2>1. CASE verdict = "admit"
    BY <1>2, <1>3, <1>4, <2>1, UpsertIs
  <2>2. CASE verdict # "admit"
    BY <1>3, <2>2 DEF TypeInv, TypeOK
  <2> QED BY <2>1, <2>2
<1>6. /\ entry' \in [Coordinators -> [Instances -> Maybe(EntryType)]]
      /\ entry'[r.c][r.i] # Nobody => entry[r.c][r.i] # Nobody
      /\ \A d \in Coordinators, j \in Instances : d # r.c \/ j # r.i => entry'[d][j] = entry[d][j]
  BY <1>2, <1>3, BufferIs
<1>7. n \in RequestType
  BY <1>1 DEF RequestType
<1>8. <<r.i, r.seq>> \in Maybe(HolderType) /\ <<r.i, r.seq>> # Nobody
  BY <1>2, NobodyIsNone DEF Maybe, HolderType
<1> HIDE DEF verdict, result, n
<1>9. /\ reqs' \subseteq RequestType /\ lock' \in [Coordinators -> Maybe(HolderType)]
      /\ worker' \in [Instances -> WorkerType] /\ \A j \in Instances : worker'[j].seq = worker[j].seq
      /\ \A c \in Coordinators : lock[c] # Nobody => lock'[c] # Nobody
  <2>1. CASE verdict = "admit" /\ result # "stale"
    <3>1. reqs' = (reqs \ {r}) \cup {n} /\ lock' = [lock EXCEPT ![r.c] = <<r.i, r.seq>>]
          /\ worker' = worker
      BY <1>3, <2>1
    <3> QED BY <1>1, <1>2, <1>3, <1>7, <1>8, <3>1 DEF TypeInv, TypeOK
  <2>2. CASE ~(verdict = "admit" /\ result # "stale")
    <3>1. reqs' = reqs \ {r} /\ worker' = Acked(r.i, r.seq, verdict) /\ lock' = lock
      BY <1>3, <2>2 DEF Answer
    <3>2. worker' \in [Instances -> WorkerType] /\ \A j \in Instances : worker'[j].seq = worker[j].seq
      BY <1>2, <3>1, AckedIs
    <3> QED BY <1>1, <3>1, <3>2 DEF TypeInv, TypeOK
  <2> QED BY <2>1, <2>2
<1>10. TypeOK'
  BY <1>3, <1>5, <1>6, <1>9 DEF TypeInv, TypeOK
<1>11. SeqSpent' /\ OpenInv'
  BY <1>3, <1>6, <1>9 DEF TypeInv, SeqSpent, OpenInv
<1> QED BY <1>10, <1>11 DEF TypeInv

\* A failed request keeps the types.
LEMMA AbandonType ==
  ASSUME TypeInv, NEW r \in reqs, Abandon(r)
  PROVE  TypeInv'
<1> DEFINE held == lock[r.c] = <<r.i, r.seq>>
<1>1. r \in RequestType /\ reqs \subseteq RequestType /\ moves \in 0..MaxMoves
      /\ lock \in [Coordinators -> Maybe(HolderType)]
      /\ rec \in [Coordinators -> Maybe(ReadType)]
      /\ \A c \in Coordinators : rec[c] # Nobody => lock[c] # Nobody
  BY DEF TypeInv, TypeOK
<1>2. r.c \in Coordinators /\ r.i \in Instances
  BY <1>1 DEF RequestType
<1>3. /\ reqs' = reqs \ {r} /\ worker' = Acked(r.i, r.seq, "refuse")
      /\ moves' = moves + 1 /\ moves + 1 <= MaxMoves
      /\ lock' = (IF held THEN [lock EXCEPT ![r.c] = Nobody] ELSE lock)
      /\ rec' = (IF held THEN [rec EXCEPT ![r.c] = Nobody] ELSE rec)
      /\ UNCHANGED <<store, entry, disc, flush, history>>
  BY DEF Abandon, Answer, Fault, Spend
<1>4. worker' \in [Instances -> WorkerType] /\ \A j \in Instances : worker'[j].seq = worker[j].seq
  BY <1>2, <1>3, AckedIs
<1> HIDE DEF held
<1>5. /\ lock' \in [Coordinators -> Maybe(HolderType)] /\ rec' \in [Coordinators -> Maybe(ReadType)]
      /\ \A c \in Coordinators : rec'[c] # Nobody => lock'[c] # Nobody
  <2>1. CASE held
    BY <1>1, <1>2, <1>3, <2>1 DEF Maybe
  <2>2. CASE ~held
    BY <1>1, <1>3, <2>2
  <2> QED BY <2>1, <2>2
<1>6. moves' \in 0..MaxMoves
  BY <1>1, <1>3, Timing
<1>7. SeqSpent'
  <2>1. ASSUME NEW j \in Instances PROVE worker'[j].seq <= moves'
    <3>1. worker[j].seq \in Nat /\ worker[j].seq <= moves
      BY Timing DEF TypeInv, TypeOK, WorkerType, SeqSpent
    <3> QED BY <1>1, <1>3, <1>4, <3>1
  <2> QED BY <2>1 DEF SeqSpent
<1> QED BY <1>1, <1>3, <1>4, <1>5, <1>6, <1>7 DEF TypeInv, TypeOK, OpenInv, history

\* A snapshot of the store: its records without what is left of the leases.
LEMMA SnapshotIs ==
  ASSUME TypeInv
  PROVE  /\ Snapshot \in [Instances -> Maybe(ViewType)]
         /\ \A i \in Instances : Snapshot[i] = Nobody <=> store[i] = Nobody
         /\ \A i \in Instances : store[i] # Nobody =>
              Snapshot[i].seq = store[i].seq /\ Snapshot[i].ready = store[i].ready
<1>1. ASSUME NEW i \in Instances
      PROVE  /\ Snapshot[i] \in Maybe(ViewType)
             /\ Snapshot[i] = Nobody <=> store[i] = Nobody
             /\ store[i] # Nobody =>
                  Snapshot[i].seq = store[i].seq /\ Snapshot[i].ready = store[i].ready
  <2>1. Snapshot[i] = IF store[i] = Nobody THEN Nobody
                      ELSE [seq |-> store[i].seq, ready |-> store[i].ready]
    BY <1>1 DEF Snapshot
  <2>2. CASE store[i] = Nobody
    BY <2>1, <2>2 DEF Maybe
  <2>3. CASE store[i] # Nobody
    <3>1. store[i] \in RecordType
      BY <1>1, <2>3 DEF TypeInv, TypeOK, Maybe
    <3>2. [seq |-> store[i].seq, ready |-> store[i].ready] \in ViewType
      BY <3>1 DEF RecordType, ViewType
    <3> QED BY <2>1, <2>3, <3>2, NobodyIsNone DEF Maybe
  <2> QED BY <2>2, <2>3
<1>2. Snapshot = [i \in Instances |-> Snapshot[i]]
  BY DEF Snapshot
<1>3. Snapshot \in [Instances -> Maybe(ViewType)]
  BY <1>1, <1>2
<1> QED BY <1>1, <1>3

\* A read of the store keeps the types.
LEMMA ReadTypes ==
  ASSUME TypeInv, NEW c \in Coordinators, Read(c)
  PROVE  TypeInv'
<1>1. /\ lock' = (IF lock[c] = Nobody THEN [lock EXCEPT ![c] = Timer] ELSE lock)
      /\ rec' = [rec EXCEPT ![c] = [snap |-> Snapshot, age |-> 0]]
      /\ UNCHANGED <<moves, clients, store, entry, disc, flush, history>>
  BY DEF Read
<1>2. /\ lock \in [Coordinators -> Maybe(HolderType)] /\ rec \in [Coordinators -> Maybe(ReadType)]
      /\ \A d \in Coordinators : rec[d] # Nobody => lock[d] # Nobody
  BY DEF TypeInv, TypeOK
<1>3. [snap |-> Snapshot, age |-> 0] \in ReadType
  BY SnapshotIs, Timing DEF ReadType
<1>4. Timer \in HolderType /\ Timer # Nobody
  BY NobodyIsNone DEF HolderType
<1>5. rec' \in [Coordinators -> Maybe(ReadType)]
      /\ \A d \in Coordinators : d # c => rec'[d] = rec[d]
  <2>1. PICK k : k = [snap |-> Snapshot, age |-> 0]
    OBVIOUS
  <2> QED BY <1>1, <1>2, <1>3, <2>1 DEF Maybe
<1>6. lock' \in [Coordinators -> Maybe(HolderType)] /\ lock'[c] # Nobody
      /\ \A d \in Coordinators : d # c => lock'[d] = lock[d]
  BY <1>1, <1>2, <1>4 DEF Maybe
<1>7. \A d \in Coordinators : rec'[d] # Nobody => lock'[d] # Nobody
  BY <1>2, <1>5, <1>6
<1>8. UNCHANGED <<worker, reqs, store, entry, disc, flush, moves, heard, sole, top, lent>>
  BY <1>1 DEF clients, history
<1> QED BY <1>5, <1>6, <1>7, <1>8 DEF TypeInv, TypeOK, SeqSpent, OpenInv

\* A failed read keeps the types.
LEMMA ReadFailsType ==
  ASSUME TypeInv, NEW c \in Coordinators, ReadFails(c)
  PROVE  TypeInv'
<1>1. /\ lock' = [lock EXCEPT ![c] = Nobody] /\ rec' = [rec EXCEPT ![c] = Nobody]
      /\ moves' = moves + 1 /\ moves + 1 <= MaxMoves
      /\ UNCHANGED <<worker, reqs, store, entry, disc, flush, heard, sole, top, lent>>
  BY DEF ReadFails, Fault, Spend, clients, history
<1>2. /\ lock \in [Coordinators -> Maybe(HolderType)] /\ rec \in [Coordinators -> Maybe(ReadType)]
      /\ \A d \in Coordinators : rec[d] # Nobody => lock[d] # Nobody
      /\ moves \in 0..MaxMoves
  BY DEF TypeInv, TypeOK
<1>3. /\ lock' \in [Coordinators -> Maybe(HolderType)] /\ rec' \in [Coordinators -> Maybe(ReadType)]
      /\ \A d \in Coordinators : rec'[d] # Nobody => lock'[d] # Nobody
      /\ moves' \in 0..MaxMoves
  BY <1>1, <1>2, Timing DEF Maybe
<1>4. SeqSpent'
  <2>1. ASSUME NEW j \in Instances PROVE worker'[j].seq <= moves'
    <3>1. worker[j].seq \in Nat /\ worker[j].seq <= moves
      BY Timing DEF TypeInv, TypeOK, WorkerType, SeqSpent
    <3> QED BY <1>1, <1>2, <3>1
  <2> QED BY <2>1 DEF SeqSpent
<1> QED BY <1>1, <1>3, <1>4 DEF TypeInv, TypeOK, OpenInv

\* The holder of a lock is a report of the coordinator that waits for the
\* snapshot.
LEMMA HolderIs ==
  ASSUME TypeInv, NEW c \in Coordinators, NEW r \in Holder(c), NEW q \in Holder(c)
  PROVE  /\ r \in reqs /\ r \in RequestType /\ r.c = c /\ r.pc = "refresh" /\ r.i \in Instances
         /\ r.seq \in Seqs /\ r.i = q.i /\ r.seq = q.seq
<1>1. /\ r \in reqs /\ r.c = c /\ r.pc = "refresh" /\ q \in reqs
      /\ lock[c] = <<r.i, r.seq>> /\ lock[c] = <<q.i, q.seq>>
  BY DEF Holder
<1>2. r \in RequestType
  BY <1>1 DEF TypeInv, TypeOK
<1> QED BY <1>1, <1>2 DEF RequestType

\* What an installed discovery leaves of each entry: a newly admitted report
\* of this coordinator, or what install makes of the old one.
LEMMA InstallView ==
  ASSUME TypeInv, NEW c \in Coordinators, Install(c)
  PROVE  /\ rec[c] \in ReadType
         /\ entry' \in [Coordinators -> [Instances -> Maybe(EntryType)]]
         /\ \A d \in Coordinators, i \in Instances : d # c => entry'[d][i] = entry[d][i]
         /\ \A i \in Instances :
              \/ \E r \in Holder(c) :
                   /\ r.i = i /\ <<c, i>> \notin lent'
                   /\ entry'[c][i] = admit(r, TRUE, r.age, retained(rec[c].snap) = i)
              \/ /\ entry'[c][i] = install(entry[c][i], i, rec[c].snap, rec[c].age)
                 /\ <<c, i>> \notin lent' =>
                      /\ <<c, i>> \notin lent
                      /\ ~(rec[c].snap[i] # Nobody /\
                           (entry[c][i] = Nobody \/ rec[c].snap[i].seq > entry[c][i].pseq))
         /\ \A d \in Coordinators, i \in Instances :
              d # c => (<<d, i>> \in lent' <=> <<d, i>> \in lent)
         /\ lent' \subseteq Coordinators \X Instances
         /\ disc' = [disc EXCEPT ![c] = rec[c].age]
         /\ lock' = [lock EXCEPT ![c] = Nobody]
         /\ rec' = [rec EXCEPT ![c] = Nobody]
         /\ \/ UNCHANGED clients
            \/ \E r \in Holder(c) :
                 Answer(r, IF retained(rec[c].snap) = r.i THEN "serve" ELSE "decline")
         /\ UNCHANGED <<moves, store, flush, heard, sole, top>>
<1> DEFINE snap == rec[c].snap
           age == rec[c].age
           installed == [i \in Instances |-> install(entry[c][i], i, snap, age)]
           dated == {i \in Instances : snap[i] # Nobody /\
                       (entry[c][i] = Nobody \/ snap[i].seq > entry[c][i].pseq)}
           mine == {r \in Holder(c) : r.applied}
           new(i) == IF \E r \in mine : r.i = i
                     THEN LET r == CHOOSE x \in mine : TRUE
                          IN  admit(r, TRUE, r.age, retained(snap) = i)
                     ELSE installed[i]
<1>1. /\ rec[c] # Nobody
      /\ entry' = [entry EXCEPT ![c] = [i \in Instances |-> new(i)]]
      /\ lent' = ((lent \cup {<<c, i>> : i \in dated}) \ {<<c, r.i>> : r \in mine})
      /\ disc' = [disc EXCEPT ![c] = age]
      /\ lock' = [lock EXCEPT ![c] = Nobody]
      /\ rec' = [rec EXCEPT ![c] = Nobody]
      /\ IF Holder(c) = {} THEN UNCHANGED clients
         ELSE \E r \in Holder(c) :
                  Answer(r, IF retained(snap) = r.i THEN "serve" ELSE "decline")
      /\ UNCHANGED <<moves, store, flush, heard, sole, top>>
  BY DEF Install
<1>2. rec[c] \in ReadType
  BY <1>1 DEF TypeInv, TypeOK, Maybe
<1>3. snap \in [Instances -> Maybe(ViewType)] /\ age \in 0..REQUEST_TIMEOUT
  BY <1>2 DEF ReadType
<1>4. entry \in [Coordinators -> [Instances -> Maybe(EntryType)]]
      /\ lent \subseteq Coordinators \X Instances
  BY DEF TypeInv, TypeOK
<1> HIDE DEF snap, age
<1>5. ASSUME NEW i \in Instances
      PROVE  /\ new(i) \in Maybe(EntryType)
             /\ \/ \E r \in Holder(c) : r.i = i /\ <<c, i>> \notin lent'
                                        /\ new(i) = admit(r, TRUE, r.age, retained(snap) = i)
                \/ /\ new(i) = install(entry[c][i], i, snap, age)
                   /\ <<c, i>> \notin lent' => <<c, i>> \notin lent /\ i \notin dated
  <2>1. CASE \E r \in mine : r.i = i
    <3>1. PICK r : r = CHOOSE x \in mine : TRUE
      OBVIOUS
    <3>2. r \in mine
      BY <2>1, <3>1
    <3>3. r \in Holder(c)
      BY <3>2
    <3>4. PICK q \in mine : q.i = i
      BY <2>1
    <3>5. r.i = i /\ r \in RequestType
      BY <3>3, <3>4, HolderIs
    <3>6. new(i) = admit(r, TRUE, r.age, retained(snap) = i)
      BY <2>1, <3>1
    <3>7. <<c, i>> \notin lent'
      BY <1>1, <3>2, <3>5
    <3>8. admit(r, TRUE, r.age, retained(snap) = i) \in EntryType
      <4>1. PICK v \in BOOLEAN : v = (retained(snap) = i)
        OBVIOUS
      <4>2. r.seq \in Seqs /\ r.ready \in BOOLEAN /\ r.age \in 0..TTL
        BY <3>5, Timing DEF RequestType
      <4>3. admit(r, TRUE, r.age, v) \in EntryType
        BY <4>2 DEF admit, EntryType
      <4> QED BY <4>1, <4>3
    <3> HIDE DEF new
    <3> QED BY <3>3, <3>5, <3>6, <3>7, <3>8 DEF Maybe
  <2>2. CASE ~\E r \in mine : r.i = i
    <3>1. new(i) = install(entry[c][i], i, snap, age)
      BY <1>5, <2>2
    <3>2. <<c, i>> \notin {<<c, r.i>> : r \in mine}
      BY <2>2
    <3>3. <<c, i>> \notin lent' => <<c, i>> \notin lent /\ i \notin dated
      <4> HIDE DEF mine, dated
      <4> QED BY <1>1, <3>2
    <3>4. install(entry[c][i], i, snap, age) \in Maybe(EntryType)
      BY <1>3, <1>4, <1>5, InstallIs DEF Maybe
    <3> HIDE DEF new, dated
    <3> QED BY <3>1, <3>3, <3>4
  <2> QED BY <2>1, <2>2
<1> HIDE DEF new
<1>6. /\ entry' \in [Coordinators -> [Instances -> Maybe(EntryType)]]
      /\ \A d \in Coordinators, i \in Instances : d # c => entry'[d][i] = entry[d][i]
      /\ \A i \in Instances : entry'[c][i] = new(i)
  BY <1>1, <1>4, <1>5
<1>7. /\ lent' \subseteq Coordinators \X Instances
      /\ \A d \in Coordinators, i \in Instances :
              d # c => (<<d, i>> \in lent' <=> <<d, i>> \in lent)
  BY <1>1, <1>4
<1>8. \/ UNCHANGED clients
      \/ \E r \in Holder(c) : Answer(r, IF retained(snap) = r.i THEN "serve" ELSE "decline")
  BY <1>1
<1>9. ASSUME NEW i \in Instances
      PROVE  \/ \E r \in Holder(c) :
                   /\ r.i = i /\ <<c, i>> \notin lent'
                   /\ entry'[c][i] = admit(r, TRUE, r.age, retained(snap) = i)
             \/ /\ entry'[c][i] = install(entry[c][i], i, snap, age)
                /\ <<c, i>> \notin lent' =>
                      /\ <<c, i>> \notin lent
                      /\ ~(snap[i] # Nobody /\
                           (entry[c][i] = Nobody \/ snap[i].seq > entry[c][i].pseq))
  BY <1>5, <1>6, <1>9
<1> QED BY <1>1, <1>2, <1>6, <1>7, <1>8, <1>9 DEF snap, age

\* Installing a snapshot keeps the types.
LEMMA InstallType ==
  ASSUME TypeInv, NEW c \in Coordinators, Install(c)
  PROVE  TypeInv'
<1>1. /\ rec[c] \in ReadType
      /\ entry' \in [Coordinators -> [Instances -> Maybe(EntryType)]]
      /\ \A d \in Coordinators, i \in Instances : d # c => entry'[d][i] = entry[d][i]
      /\ lent' \subseteq Coordinators \X Instances
      /\ disc' = [disc EXCEPT ![c] = rec[c].age]
      /\ lock' = [lock EXCEPT ![c] = Nobody]
      /\ rec' = [rec EXCEPT ![c] = Nobody]
      /\ \/ UNCHANGED clients
         \/ \E r \in Holder(c) :
              Answer(r, IF retained(rec[c].snap) = r.i THEN "serve" ELSE "decline")
      /\ UNCHANGED <<moves, store, flush, heard, sole, top>>
  BY InstallView
<1>2. /\ lock \in [Coordinators -> Maybe(HolderType)] /\ rec \in [Coordinators -> Maybe(ReadType)]
      /\ \A d \in Coordinators : rec[d] # Nobody => lock[d] # Nobody
      /\ disc \in [Coordinators -> Maybe(0..MAX_AGE)]
      /\ worker \in [Instances -> WorkerType] /\ reqs \subseteq RequestType
  BY DEF TypeInv, TypeOK
<1>3. rec[c].age \in 0..MAX_AGE /\ rec[c].age # Nobody
  BY <1>1, Timing, NobodyIsNone DEF ReadType
<1>4. /\ lock' \in [Coordinators -> Maybe(HolderType)] /\ rec' \in [Coordinators -> Maybe(ReadType)]
      /\ \A d \in Coordinators : rec'[d] # Nobody => lock'[d] # Nobody
  BY <1>1, <1>2 DEF Maybe
<1>5. disc' \in [Coordinators -> Maybe(0..MAX_AGE)] /\ disc'[c] # Nobody
      /\ \A d \in Coordinators : d # c => disc'[d] = disc[d]
  BY <1>1, <1>2, <1>3 DEF Maybe
<1>6. /\ worker' \in [Instances -> WorkerType] /\ \A j \in Instances : worker'[j].seq = worker[j].seq
      /\ reqs' \subseteq RequestType
  <2>1. CASE UNCHANGED clients
    BY <1>2, <2>1 DEF clients
  <2>2. CASE \E r \in Holder(c) :
              Answer(r, IF retained(rec[c].snap) = r.i THEN "serve" ELSE "decline")
    <3>1. PICK r \in Holder(c) :
              Answer(r, IF retained(rec[c].snap) = r.i THEN "serve" ELSE "decline")
      BY <2>2
    <3>2. r.i \in Instances
      BY HolderIs
    <3>3. PICK reply : Answer(r, reply)
      BY <3>1
    <3> QED BY <1>2, <3>2, <3>3, AckedIs DEF Answer
  <2> QED BY <1>1, <2>1, <2>2
<1>7. TypeOK'
  BY <1>1, <1>4, <1>5, <1>6 DEF TypeInv, TypeOK
<1>8. SeqSpent'
  BY <1>1, <1>6 DEF TypeInv, SeqSpent
<1>9. OpenInv'
  BY <1>1, <1>5 DEF TypeInv, OpenInv
<1> QED BY <1>7, <1>8, <1>9 DEF TypeInv

\* What a pass of the flusher starts with: each entry is kept or dropped, and
\* a publication is of a kept entry that is due, with what is left of its lease.
LEMMA StartFlushView ==
  ASSUME TypeInv, NEW c \in Coordinators, StartFlush(c)
  PROVE  /\ entry' \in [Coordinators -> [Instances -> Maybe(EntryType)]]
         /\ flush' \in [Coordinators -> [Instances -> Maybe(FlushType)]]
         /\ \A d \in Coordinators, i \in Instances :
              d # c => entry'[d][i] = entry[d][i] /\ flush'[d][i] = flush[d][i]
         /\ \A i \in Instances : entry'[c][i] = entry[c][i] \/ entry'[c][i] = Nobody
         /\ \A i \in Instances : flush'[c][i] # Nobody =>
              LET e == entry[c][i]
                  f == flush'[c][i]
              IN  /\ e \in EntryType /\ f \in FlushType /\ e.seq > e.pseq /\ e.rcv < TTL
                  /\ f.seq = e.seq /\ f.rcv = e.rcv /\ f.left = TTL - e.rcv /\ f.age = 0
                  /\ f.pc = "write"
         /\ UNCHANGED <<moves, worker, reqs, store, disc, lock, rec, heard, sole, top, lent>>
<1> DEFINE kept == [i \in Instances |-> IF Kept(entry[c][i]) THEN entry[c][i] ELSE Nobody]
           due == {i \in Instances : kept[i] # Nobody /\ Due(kept[i])}
           pub(i) == [seq |-> kept[i].seq, ready |-> kept[i].ready, rcv |-> kept[i].rcv,
                      left |-> Remaining(kept[i].rcv), age |-> 0, pc |-> "write"]
           new == [i \in Instances |-> IF i \in due THEN pub(i) ELSE Nobody]
<1>1. /\ entry' = [entry EXCEPT ![c] = kept]
      /\ flush' = [flush EXCEPT ![c] = new]
      /\ UNCHANGED <<moves, worker, reqs, store, disc, lock, rec, heard, sole, top, lent>>
  BY DEF StartFlush, clients, history
<1>2. /\ entry \in [Coordinators -> [Instances -> Maybe(EntryType)]]
      /\ flush \in [Coordinators -> [Instances -> Maybe(FlushType)]]
  BY DEF TypeInv, TypeOK
<1>3. ASSUME NEW i \in Instances
      PROVE  /\ kept[i] \in Maybe(EntryType) /\ (kept[i] = entry[c][i] \/ kept[i] = Nobody)
             /\ kept[i] # Nobody => Kept(entry[c][i])
  <2>1. kept[i] = IF Kept(entry[c][i]) THEN entry[c][i] ELSE Nobody
    BY <1>3
  <2> HIDE DEF kept
  <2> QED BY <1>2, <1>3, <2>1 DEF Maybe
<1>4. ASSUME NEW i \in Instances, new[i] # Nobody
      PROVE  LET e == entry[c][i]
                 f == new[i]
             IN  /\ e \in EntryType /\ f \in FlushType /\ e.seq > e.pseq /\ e.rcv < TTL
                 /\ f.seq = e.seq /\ f.rcv = e.rcv /\ f.left = TTL - e.rcv /\ f.age = 0
                 /\ f.pc = "write"
  <2>1. i \in due /\ new[i] = pub(i)
    BY <1>4
  <2>2. kept[i] # Nobody /\ Due(kept[i])
    BY <2>1
  <2> HIDE DEF kept, due, new
  <2>3. kept[i] = entry[c][i] /\ Kept(entry[c][i])
    BY <1>3, <2>2
  <2> DEFINE e == entry[c][i]
  <2>4. e \in EntryType
    BY <1>2, <2>2, <2>3 DEF Maybe
  <2>5. e.own /\ e.seq > e.pseq /\ (~e.own \/ e.rcv < TTL)
    BY <2>2, <2>3 DEF Due, Kept
  <2>6. e.rcv \in 0..TTL /\ e.seq \in Seqs /\ e.ready \in BOOLEAN
    BY <2>4 DEF EntryType
  <2>7. Remaining(e.rcv) = TTL - e.rcv /\ Remaining(e.rcv) \in 1..TTL
    BY <2>5, <2>6, Timing DEF Remaining
  <2>8. new[i] = [seq |-> e.seq, ready |-> e.ready, rcv |-> e.rcv,
                  left |-> Remaining(e.rcv), age |-> 0, pc |-> "write"]
    BY <2>1, <2>3
  <2> HIDE DEF e
  <2>9. /\ new[i] \in FlushType
        /\ new[i].seq = e.seq /\ new[i].rcv = e.rcv /\ new[i].left = TTL - e.rcv
        /\ new[i].age = 0 /\ new[i].pc = "write"
    BY <2>6, <2>7, <2>8, Timing DEF FlushType
  <2> QED BY <2>4, <2>5, <2>9 DEF e
<1>5. \A i \in Instances : new[i] \in Maybe(FlushType)
  BY <1>4 DEF Maybe
<1>6. kept = [i \in Instances |-> kept[i]] /\ new = [i \in Instances |-> new[i]]
  OBVIOUS
<1> HIDE DEF kept, due, new
<1>7. kept \in [Instances -> Maybe(EntryType)] /\ new \in [Instances -> Maybe(FlushType)]
  BY <1>3, <1>5, <1>6
<1>8. /\ entry' \in [Coordinators -> [Instances -> Maybe(EntryType)]]
      /\ flush' \in [Coordinators -> [Instances -> Maybe(FlushType)]]
      /\ \A d \in Coordinators : d # c => entry'[d] = entry[d] /\ flush'[d] = flush[d]
      /\ entry'[c] = kept /\ flush'[c] = new
  BY <1>1, <1>2, <1>7
<1> QED BY <1>1, <1>3, <1>4, <1>8

\* Starting a publication pass keeps the types.
LEMMA StartFlushType ==
  ASSUME TypeInv, NEW c \in Coordinators, StartFlush(c)
  PROVE  TypeInv'
<1>1. /\ entry' \in [Coordinators -> [Instances -> Maybe(EntryType)]]
      /\ flush' \in [Coordinators -> [Instances -> Maybe(FlushType)]]
      /\ \A d \in Coordinators, i \in Instances : entry'[d][i] # Nobody => entry[d][i] # Nobody
      /\ UNCHANGED <<moves, worker, reqs, store, disc, lock, rec, heard, sole, top, lent>>
  BY StartFlushView
<1> QED BY <1>1 DEF TypeInv, TypeOK, SeqSpent, OpenInv

\* A failed pass keeps the types.
LEMMA FlushFailsType ==
  ASSUME TypeInv, NEW c \in Coordinators, FlushFails(c)
  PROVE  TypeInv'
<1>1. /\ flush' = [flush EXCEPT ![c] = [i \in Instances |-> Nobody]]
      /\ moves' = moves + 1 /\ moves + 1 <= MaxMoves
      /\ UNCHANGED <<worker, reqs, store, entry, disc, lock, rec, heard, sole, top, lent>>
  BY DEF FlushFails, Fault, Spend, clients, history
<1>2. /\ flush \in [Coordinators -> [Instances -> Maybe(FlushType)]] /\ moves \in 0..MaxMoves
  BY DEF TypeInv, TypeOK
<1>3. [i \in Instances |-> Nobody] \in [Instances -> Maybe(FlushType)]
  BY DEF Maybe
<1>4. flush' \in [Coordinators -> [Instances -> Maybe(FlushType)]] /\ moves' \in 0..MaxMoves
  BY <1>1, <1>2, <1>3, Timing
<1>5. SeqSpent'
  <2>1. ASSUME NEW j \in Instances PROVE worker'[j].seq <= moves'
    <3>1. worker[j].seq \in Nat /\ worker[j].seq <= moves
      BY Timing DEF TypeInv, TypeOK, WorkerType, SeqSpent
    <3> QED BY <1>1, <1>2, <3>1
  <2> QED BY <2>1 DEF SeqSpent
<1> QED BY <1>1, <1>4, <1>5 DEF TypeInv, TypeOK, OpenInv

\* What a restart leaves: nothing of the coordinator, all of the others.
LEMMA RestartView ==
  ASSUME TypeInv, NEW c \in Coordinators, Restart(c)
  PROVE  /\ reqs' \subseteq reqs
         /\ entry' \in [Coordinators -> [Instances -> Maybe(EntryType)]]
         /\ flush' \in [Coordinators -> [Instances -> Maybe(FlushType)]]
         /\ rec' \in [Coordinators -> Maybe(ReadType)]
         /\ disc' \in [Coordinators -> Maybe(0..MAX_AGE)]
         /\ lock' \in [Coordinators -> Maybe(HolderType)]
         /\ \A d \in Coordinators : d # c =>
              /\ entry'[d] = entry[d] /\ flush'[d] = flush[d] /\ rec'[d] = rec[d]
              /\ disc'[d] = disc[d] /\ lock'[d] = lock[d]
         /\ \A i \in Instances : entry'[c][i] = Nobody /\ flush'[c][i] = Nobody
         /\ rec'[c] = Nobody
         /\ \A d \in Coordinators, i \in Instances :
              d # c => (<<d, i>> \in lent' <=> <<d, i>> \in lent)
         /\ lent' \subseteq lent
         /\ moves' = moves + 1 /\ moves' \in 0..MaxMoves
         /\ UNCHANGED <<worker, store, heard, sole, top>>
<1>1. /\ reqs' = {r \in reqs : r.c # c}
      /\ entry' = [entry EXCEPT ![c] = [i \in Instances |-> Nobody]]
      /\ disc' = [disc EXCEPT ![c] = Nobody]
      /\ lock' = [lock EXCEPT ![c] = Nobody]
      /\ rec' = [rec EXCEPT ![c] = Nobody]
      /\ flush' = [flush EXCEPT ![c] = [i \in Instances |-> Nobody]]
      /\ lent' = {x \in lent : x[1] # c}
      /\ moves' = moves + 1 /\ moves + 1 <= MaxMoves
      /\ UNCHANGED <<worker, store, heard, sole, top>>
  BY DEF Restart, Fault, Spend
<1>2. /\ entry \in [Coordinators -> [Instances -> Maybe(EntryType)]]
      /\ flush \in [Coordinators -> [Instances -> Maybe(FlushType)]]
      /\ disc \in [Coordinators -> Maybe(0..MAX_AGE)]
      /\ lock \in [Coordinators -> Maybe(HolderType)]
      /\ rec \in [Coordinators -> Maybe(ReadType)]
      /\ moves \in 0..MaxMoves
  BY DEF TypeInv, TypeOK
<1> DEFINE none == [i \in Instances |-> Nobody]
<1>3. none \in [Instances -> Maybe(FlushType)] /\ none \in [Instances -> Maybe(EntryType)]
      /\ \A i \in Instances : none[i] = Nobody
  BY DEF Maybe
<1> HIDE DEF none
<1>4. /\ entry' \in [Coordinators -> [Instances -> Maybe(EntryType)]] /\ entry'[c] = none
      /\ \A d \in Coordinators : d # c => entry'[d] = entry[d]
  BY <1>1, <1>2, <1>3 DEF none
<1>5. /\ flush' \in [Coordinators -> [Instances -> Maybe(FlushType)]] /\ flush'[c] = none
      /\ \A d \in Coordinators : d # c => flush'[d] = flush[d]
  BY <1>1, <1>2, <1>3 DEF none
<1>6. /\ disc' \in [Coordinators -> Maybe(0..MAX_AGE)]
      /\ lock' \in [Coordinators -> Maybe(HolderType)]
      /\ rec' \in [Coordinators -> Maybe(ReadType)] /\ rec'[c] = Nobody
      /\ \A d \in Coordinators : d # c => disc'[d] = disc[d] /\ lock'[d] = lock[d] /\ rec'[d] = rec[d]
  BY <1>1, <1>2 DEF Maybe
<1>7. moves' \in 0..MaxMoves
  BY <1>1, <1>2, Timing
<1>8. /\ \A d \in Coordinators, i \in Instances : d # c => (<<d, i>> \in lent' <=> <<d, i>> \in lent)
      /\ lent' \subseteq lent /\ reqs' \subseteq reqs
  BY <1>1
<1> QED BY <1>1, <1>3, <1>4, <1>5, <1>6, <1>7, <1>8

\* A restart keeps the types.
LEMMA RestartType ==
  ASSUME TypeInv, NEW c \in Coordinators, Restart(c)
  PROVE  TypeInv'
<1>1. /\ reqs' \subseteq reqs
      /\ entry' \in [Coordinators -> [Instances -> Maybe(EntryType)]]
      /\ flush' \in [Coordinators -> [Instances -> Maybe(FlushType)]]
      /\ rec' \in [Coordinators -> Maybe(ReadType)]
      /\ disc' \in [Coordinators -> Maybe(0..MAX_AGE)]
      /\ lock' \in [Coordinators -> Maybe(HolderType)]
      /\ \A d \in Coordinators : d # c =>
              /\ entry'[d] = entry[d] /\ flush'[d] = flush[d] /\ rec'[d] = rec[d]
              /\ disc'[d] = disc[d] /\ lock'[d] = lock[d]
      /\ \A i \in Instances : entry'[c][i] = Nobody /\ flush'[c][i] = Nobody
      /\ rec'[c] = Nobody
      /\ lent' \subseteq lent
      /\ moves' = moves + 1 /\ moves' \in 0..MaxMoves
      /\ UNCHANGED <<worker, store, heard, sole, top>>
  BY RestartView
<1>2. TypeOK'
  BY <1>1 DEF TypeInv, TypeOK
<1>3. SeqSpent'
  <2>1. ASSUME NEW j \in Instances PROVE worker'[j].seq <= moves'
    <3>1. worker[j].seq \in Nat /\ worker[j].seq <= moves
      BY Timing DEF TypeInv, TypeOK, WorkerType, SeqSpent
    <3>2. moves \in 0..MaxMoves
      BY DEF TypeInv, TypeOK
    <3> QED BY <1>1, <3>1, <3>2
  <2> QED BY <2>1 DEF SeqSpent
<1>4. OpenInv'
  BY <1>1 DEF TypeInv, OpenInv
<1> QED BY <1>2, <1>3, <1>4 DEF TypeInv

\* A publication ends as written or stale; its report and dates stay.
LEMMA FlushWriteView ==
  ASSUME TypeInv, NEW c \in Coordinators, NEW i \in Instances, FlushWrite(c, i)
  PROVE  LET f == flush[c][i] IN
         /\ f \in FlushType /\ f.pc = "write" /\ upsert_instance(i, f.seq, f.ready, f.left)
         /\ flush' \in [Coordinators -> [Instances -> Maybe(FlushType)]]
         /\ \A d \in Coordinators, j \in Instances :
              d # c \/ j # i => flush'[d][j] = flush[d][j]
         /\ flush'[c][i] \in FlushType /\ flush'[c][i].seq = f.seq /\ flush'[c][i].rcv = f.rcv
         /\ flush'[c][i].left = f.left /\ flush'[c][i].age = f.age
         /\ UNCHANGED <<moves, worker, reqs, entry, disc, lock, rec, heard, lent>>
<1> DEFINE f == flush[c][i]
<1>1. PICK p \in {"stale", "written"} :
         /\ f # Nobody /\ f.pc = "write" /\ upsert_instance(i, f.seq, f.ready, f.left)
         /\ flush' = [flush EXCEPT ![c][i].pc = p]
         /\ UNCHANGED <<moves, worker, reqs, entry, disc, lock, rec, heard, lent>>
  BY DEF FlushWrite, clients
<1>2. flush \in [Coordinators -> [Instances -> Maybe(FlushType)]] /\ f \in FlushType
  BY <1>1 DEF TypeInv, TypeOK, Maybe
<1> DEFINE n == [f EXCEPT !.pc = p]
<1>3. /\ n \in FlushType /\ n.seq = f.seq /\ n.rcv = f.rcv /\ n.left = f.left /\ n.age = f.age
  BY <1>2 DEF FlushType
<1>4. flush' = [flush EXCEPT ![c][i] = n]
  BY <1>1
<1> HIDE DEF n
<1>5. /\ flush' \in [Coordinators -> [Instances -> Maybe(FlushType)]] /\ flush'[c][i] = n
      /\ \A d \in Coordinators, j \in Instances : d # c \/ j # i => flush'[d][j] = flush[d][j]
  BY <1>2, <1>3, <1>4 DEF Maybe
<1> QED BY <1>1, <1>2, <1>3, <1>5

\* A publication keeps the types.
LEMMA FlushWriteType ==
  ASSUME TypeInv, NEW c \in Coordinators, NEW i \in Instances, FlushWrite(c, i)
  PROVE  TypeInv'
<1> DEFINE f == flush[c][i]
<1>1. /\ f \in FlushType /\ upsert_instance(i, f.seq, f.ready, f.left)
      /\ flush' \in [Coordinators -> [Instances -> Maybe(FlushType)]]
      /\ UNCHANGED <<moves, worker, reqs, entry, disc, lock, rec, heard, lent>>
  BY FlushWriteView
<1>2. f.seq \in Seqs /\ f.ready \in BOOLEAN /\ f.left \in 1..TTL
  BY <1>1 DEF FlushType
<1>3. /\ store' \in [Instances -> Maybe(RecordType)] /\ top' \in [Instances -> Seqs]
      /\ sole' \in [Instances -> 0..LongLost]
  BY <1>1, <1>2, UpsertIs
<1> QED BY <1>1, <1>3 DEF TypeInv, TypeOK, SeqSpent, OpenInv

\* What a completed publication does to the buffer: mark the report it wrote, or forget it.
LEMMA FlushDoneView ==
  ASSUME TypeInv, NEW c \in Coordinators, NEW i \in Instances, FlushDone(c, i)
  PROVE  LET f == flush[c][i]
             e == entry[c][i]
         IN  /\ f \in FlushType /\ f.pc # "write"
             /\ entry' \in [Coordinators -> [Instances -> Maybe(EntryType)]]
             /\ \A d \in Coordinators, j \in Instances :
                  d # c \/ j # i => entry'[d][j] = entry[d][j]
             /\ entry'[c][i] # Nobody =>
                  e \in EntryType /\ (entry'[c][i] = e \/ entry'[c][i] = persisted(e, f))
             /\ lent' = lent \/ (lent' = lent \ {<<c, i>>} /\ entry'[c][i] = persisted(e, f)
                                 /\ persisted(e, f) # e)
             /\ flush' \in [Coordinators -> [Instances -> Maybe(FlushType)]]
             /\ \A d \in Coordinators, j \in Instances :
                  flush'[d][j] = flush[d][j] \/ flush'[d][j] = Nobody
             /\ UNCHANGED <<moves, worker, reqs, store, disc, lock, rec, heard, sole, top>>
<1> DEFINE f == flush[c][i]
           e == entry[c][i]
<1>1. /\ f # Nobody /\ f.pc # "write"
      /\ entry' = [entry EXCEPT ![c][i] =
                        IF f.pc = "written" THEN persisted(e, f) ELSE forget(e, f)]
      /\ lent' = (IF f.pc = "written" /\ e # Nobody /\ persisted(e, f) # e
                  THEN lent \ {<<c, i>>} ELSE lent)
      /\ flush' = [flush EXCEPT ![c][i] = Nobody]
      /\ UNCHANGED <<moves, worker, reqs, store, disc, lock, rec, heard, sole, top>>
  BY DEF FlushDone, clients
<1>2. /\ entry \in [Coordinators -> [Instances -> Maybe(EntryType)]] /\ e \in Maybe(EntryType)
      /\ flush \in [Coordinators -> [Instances -> Maybe(FlushType)]] /\ f \in FlushType
  BY <1>1 DEF TypeInv, TypeOK, Maybe
<1> HIDE DEF e, f
<1>3. PICK n : n = IF f.pc = "written" THEN persisted(e, f) ELSE forget(e, f)
  OBVIOUS
<1>4. /\ n \in Maybe(EntryType) /\ (n # Nobody => e \in EntryType /\ (n = e \/ n = persisted(e, f)))
  <2>1. CASE e = Nobody
    BY <1>3, <2>1 DEF persisted, forget, Maybe
  <2>2. CASE e # Nobody
    <3>1. e \in EntryType
      BY <1>2, <2>2 DEF Maybe
    <3>2. persisted(e, f) \in EntryType
      BY <1>2, <3>1, PersistedIs
    <3>3. forget(e, f) = e \/ forget(e, f) = Nobody
      BY DEF forget
    <3> QED BY <1>3, <3>1, <3>2, <3>3 DEF Maybe
  <2> QED BY <2>1, <2>2
<1>5. entry' = [entry EXCEPT ![c][i] = n]
  BY <1>1, <1>3
<1>6. /\ entry' \in [Coordinators -> [Instances -> Maybe(EntryType)]] /\ entry'[c][i] = n
      /\ \A d \in Coordinators, j \in Instances : d # c \/ j # i => entry'[d][j] = entry[d][j]
  BY <1>2, <1>4, <1>5
<1>7. lent' = lent \/ (lent' = lent \ {<<c, i>>} /\ n = persisted(e, f) /\ persisted(e, f) # e)
  BY <1>1, <1>3
<1>8. /\ flush' \in [Coordinators -> [Instances -> Maybe(FlushType)]]
      /\ \A d \in Coordinators, j \in Instances :
           flush'[d][j] = flush[d][j] \/ flush'[d][j] = Nobody
  BY <1>1, <1>2 DEF Maybe
<1> QED BY <1>1, <1>2, <1>4, <1>6, <1>7, <1>8 DEF e, f

\* A completed publication keeps the types.
LEMMA FlushDoneType ==
  ASSUME TypeInv, NEW c \in Coordinators, NEW i \in Instances, FlushDone(c, i)
  PROVE  TypeInv'
<1>1. /\ entry' \in [Coordinators -> [Instances -> Maybe(EntryType)]]
      /\ \A d \in Coordinators, j \in Instances : d # c \/ j # i => entry'[d][j] = entry[d][j]
      /\ entry'[c][i] # Nobody => entry[c][i] \in EntryType
      /\ lent' = lent \/ lent' = lent \ {<<c, i>>}
      /\ flush' \in [Coordinators -> [Instances -> Maybe(FlushType)]]
      /\ UNCHANGED <<moves, worker, reqs, store, disc, lock, rec, heard, sole, top>>
  BY FlushDoneView
<1>2. \A d \in Coordinators, j \in Instances : entry'[d][j] # Nobody => entry[d][j] # Nobody
  BY <1>1, NobodyIsNone
<1>3. lent' \subseteq Coordinators \X Instances
  BY <1>1 DEF TypeInv, TypeOK
<1> QED BY <1>1, <1>2, <1>3 DEF TypeInv, TypeOK, SeqSpent, OpenInv

\* The least of two numbers.
LEMMA LeastIs ==
  ASSUME NEW a \in Nat, NEW b \in Nat
  PROVE  /\ Least(a, b) \in Nat /\ Least(a, b) <= a /\ Least(a, b) <= b
         /\ Least(a, b) = a \/ Least(a, b) = b
BY DEF Least

\* What a tick leaves of each variable.
LEMMA TickWorkers ==
  ASSUME TypeInv, Tick
  PROVE  /\ worker' \in [Instances -> WorkerType]
         /\ \A i \in Instances : /\ worker'[i].seq = worker[i].seq
                                 /\ worker'[i].reg = worker[i].reg
                                 /\ worker'[i].ok = Least(worker[i].ok + 1, LongAccepted)
                                 /\ worker[i].reg = "yes" => worker[i].ok < ROUND
         /\ heard' \in [Instances -> 0..LongSilent]
         /\ \A i \in Instances : heard'[i] = Least(heard[i] + 1, LongSilent)
         /\ UNCHANGED <<moves, lock, top, lent>>
<1>1. /\ worker' = [i \in Instances |-> [worker[i] EXCEPT !.ok = Older(@, LongAccepted)]]
      /\ \A i \in Instances : ~Overdue(i)
      /\ heard' = [i \in Instances |-> Older(heard[i], LongSilent)]
      /\ UNCHANGED <<moves, lock, top, lent>>
  BY DEF Tick
<1>2. worker \in [Instances -> WorkerType] /\ heard \in [Instances -> 0..LongSilent]
  BY DEF TypeInv, TypeOK
<1>3. ASSUME NEW i \in Instances
      PROVE  /\ worker'[i] \in WorkerType /\ worker'[i].seq = worker[i].seq
             /\ worker'[i].reg = worker[i].reg
             /\ worker'[i].ok = Least(worker[i].ok + 1, LongAccepted)
             /\ worker[i].reg = "yes" => worker[i].ok < ROUND
  <2>1. PICK k : k = Least(worker[i].ok + 1, LongAccepted)
    OBVIOUS
  <2>2. worker[i] \in WorkerType /\ worker[i].ok \in Nat /\ worker[i].ok + 1 \in Nat
    BY <1>2 DEF WorkerType
  <2>3. k \in 0..LongAccepted
    BY <2>1, <2>2, LeastIs, Timing
  <2>4. worker'[i] = [worker[i] EXCEPT !.ok = k]
    BY <1>1, <1>3, <2>1 DEF Older
  <2>5. worker[i].reg = "yes" => worker[i].ok < ROUND
    BY <1>1, <2>2, Timing DEF Overdue
  <2>6. /\ worker'[i] \in WorkerType /\ worker'[i].seq = worker[i].seq
        /\ worker'[i].reg = worker[i].reg /\ worker'[i].ok = k
    BY <2>2, <2>3, <2>4 DEF WorkerType
  <2> QED BY <2>1, <2>5, <2>6
<1>4. ASSUME NEW i \in Instances
      PROVE  heard'[i] \in 0..LongSilent /\ heard'[i] = Least(heard[i] + 1, LongSilent)
  <2>1. heard[i] + 1 \in Nat /\ LongSilent \in Nat
    BY <1>2, Timing DEF LongSilent
  <2>2. heard'[i] = Least(heard[i] + 1, LongSilent)
    BY <1>1, <1>4 DEF Older
  <2>3. heard'[i] \in Nat /\ heard'[i] <= LongSilent
    BY <2>1, <2>2, LeastIs
  <2> QED BY <2>1, <2>2, <2>3
<1>5. worker' = [i \in Instances |-> worker'[i]] /\ heard' = [i \in Instances |-> heard'[i]]
  BY <1>1
<1>6. worker' \in [Instances -> WorkerType] /\ heard' \in [Instances -> 0..LongSilent]
  BY <1>3, <1>4, <1>5
<1> QED BY <1>1, <1>3, <1>4, <1>6

\* A tick ages the requests.
LEMMA TickReqs ==
  ASSUME TypeInv, Tick
  PROVE  /\ reqs' \subseteq RequestType
         /\ \A q \in reqs' : \E r \in reqs :
              /\ r \in RequestType /\ q.c = r.c /\ q.i = r.i /\ q.seq = r.seq /\ q.pc = r.pc
              /\ q.age = r.age + 1
<1>1. /\ reqs' = {[r EXCEPT !.age = @ + 1] : r \in reqs}
      /\ \A r \in reqs : r.age < REQUEST_TIMEOUT
  BY DEF Tick
<1>2. ASSUME NEW q \in reqs'
      PROVE  /\ q \in RequestType
             /\ \E r \in reqs :
                  /\ r \in RequestType /\ q.c = r.c /\ q.i = r.i /\ q.seq = r.seq /\ q.pc = r.pc
                  /\ q.age = r.age + 1
  <2>1. PICK r \in reqs : q = [r EXCEPT !.age = r.age + 1]
    BY <1>1
  <2>2. r \in RequestType
    BY DEF TypeInv, TypeOK
  <2>3. r.age + 1 \in 0..REQUEST_TIMEOUT
    BY <1>1, <2>2, Timing DEF RequestType
  <2>4. /\ q \in RequestType /\ q.c = r.c /\ q.i = r.i /\ q.seq = r.seq /\ q.pc = r.pc
        /\ q.age = r.age + 1
    BY <2>1, <2>2, <2>3 DEF RequestType
  <2> QED BY <2>2, <2>4
<1> QED BY <1>2

\* A tick runs the leases down and ages who was sole.
LEMMA TickStore ==
  ASSUME TypeInv, Tick
  PROVE  /\ store' \in [Instances -> Maybe(RecordType)]
         /\ \A i \in Instances : store'[i] # Nobody =>
              /\ store[i] \in RecordType /\ store'[i] \in RecordType
              /\ store'[i].seq = store[i].seq /\ store'[i].left = store[i].left - 1
         /\ \A i \in Instances : store[i] # Nobody /\ store'[i] = Nobody => store[i].left = 1
         /\ sole' = SoleSince(store', [i \in Instances |-> Older(sole[i], LongLost)])
         /\ sole' \in [Instances -> 0..LongLost]
         /\ \A i \in Instances : sole'[i] <= sole[i] + 1
<1>1. /\ store' = [i \in Instances |-> IF store[i] = Nobody \/ store[i].left = 1 THEN Nobody
                                       ELSE [store[i] EXCEPT !.left = @ - 1]]
      /\ sole' = SoleSince(store', [i \in Instances |-> Older(sole[i], LongLost)])
  BY DEF Tick
<1>2. store \in [Instances -> Maybe(RecordType)] /\ sole \in [Instances -> 0..LongLost]
  BY DEF TypeInv, TypeOK
<1>3. ASSUME NEW i \in Instances
      PROVE  /\ store'[i] \in Maybe(RecordType)
             /\ store'[i] # Nobody =>
                  /\ store[i] \in RecordType /\ store'[i] \in RecordType
                  /\ store'[i].seq = store[i].seq /\ store'[i].left = store[i].left - 1
             /\ store[i] # Nobody /\ store'[i] = Nobody => store[i].left = 1
  <2>1. store'[i] = IF store[i] = Nobody \/ store[i].left = 1 THEN Nobody
                    ELSE [store[i] EXCEPT !.left = store[i].left - 1]
    BY <1>1, <1>3
  <2>2. CASE store[i] = Nobody \/ store[i].left = 1
    BY <2>1, <2>2 DEF Maybe
  <2>3. CASE ~(store[i] = Nobody \/ store[i].left = 1)
    <3>1. store[i] \in RecordType
      BY <1>2, <2>3 DEF Maybe
    <3>2. store[i].left - 1 \in 1..TTL
      BY <2>3, <3>1, Timing DEF RecordType
    <3>3. store'[i] = [store[i] EXCEPT !.left = store[i].left - 1]
      BY <2>1, <2>3
    <3>4. /\ store'[i] \in RecordType /\ store'[i].seq = store[i].seq
          /\ store'[i].left = store[i].left - 1
      BY <3>1, <3>2, <3>3 DEF RecordType
    <3> QED BY <3>1, <3>4, NobodyIsNone DEF Maybe
  <2> QED BY <2>2, <2>3
<1>4. store' = [i \in Instances |-> store'[i]]
  BY <1>1
<1>5. store' \in [Instances -> Maybe(RecordType)]
  BY <1>3, <1>4
<1>6. ASSUME NEW i \in Instances
      PROVE  sole'[i] \in 0..LongLost /\ sole'[i] <= sole[i] + 1
  <2>1. sole'[i] = 0 \/ sole'[i] = Older(sole[i], LongLost)
    BY <1>1, <1>6 DEF SoleSince
  <2>2. sole[i] + 1 \in Nat /\ LongLost \in Nat
    BY <1>2, Timing DEF LongLost
  <2>3. /\ Older(sole[i], LongLost) \in Nat /\ Older(sole[i], LongLost) <= LongLost
        /\ Older(sole[i], LongLost) <= sole[i] + 1
    BY <2>2, LeastIs DEF Older
  <2> QED BY <2>1, <2>2, <2>3
<1>7. sole' = [i \in Instances |-> sole'[i]]
  BY <1>1 DEF SoleSince
<1>8. sole' \in [Instances -> 0..LongLost]
  BY <1>6, <1>7
<1> QED BY <1>1, <1>3, <1>5, <1>6, <1>8

\* A tick ages the buffered reports, up to a TTL.
LEMMA TickEntries ==
  ASSUME TypeInv, Tick
  PROVE  /\ entry' \in [Coordinators -> [Instances -> Maybe(EntryType)]]
         /\ \A c \in Coordinators, i \in Instances : entry'[c][i] # Nobody =>
              LET e == entry[c][i]
                  n == entry'[c][i]
              IN  /\ e \in EntryType /\ n.seq = e.seq /\ n.pseq = e.pseq /\ n.serving = e.serving
                  /\ n.rcv = Least(e.rcv + 1, TTL) /\ n.per = Least(e.per + 1, TTL)
<1>1. entry' = [c \in Coordinators |-> [i \in Instances |->
            IF entry[c][i] = Nobody THEN Nobody
            ELSE [entry[c][i] EXCEPT !.rcv = Older(@, TTL), !.per = Older(@, TTL)]]]
  BY DEF Tick
<1>2. entry \in [Coordinators -> [Instances -> Maybe(EntryType)]]
  BY DEF TypeInv, TypeOK
<1>3. ASSUME NEW c \in Coordinators, NEW i \in Instances
      PROVE  /\ entry'[c][i] \in Maybe(EntryType)
             /\ entry'[c][i] # Nobody =>
                LET e == entry[c][i]
                    n == entry'[c][i]
                IN  /\ e \in EntryType /\ n.seq = e.seq /\ n.pseq = e.pseq /\ n.serving = e.serving
                    /\ n.rcv = Least(e.rcv + 1, TTL) /\ n.per = Least(e.per + 1, TTL)
  <2> DEFINE e == entry[c][i]
  <2>1. PICK k : k = Least(e.rcv + 1, TTL)
    OBVIOUS
  <2>2. PICK p : p = Least(e.per + 1, TTL)
    OBVIOUS
  <2>3. entry'[c][i] = IF e = Nobody THEN Nobody ELSE [e EXCEPT !.rcv = k, !.per = p]
    BY <1>1, <1>3, <2>1, <2>2 DEF Older
  <2>4. e \in Maybe(EntryType)
    BY <1>2, <1>3
  <2> HIDE DEF e
  <2>5. CASE e = Nobody
    BY <2>3, <2>5 DEF Maybe
  <2>6. CASE e # Nobody
    <3>1. e \in EntryType
      BY <2>4, <2>6 DEF Maybe
    <3>2. e.rcv + 1 \in Nat /\ e.per + 1 \in Nat
      BY <3>1 DEF EntryType
    <3>3. k \in 0..TTL /\ p \in 0..TTL
      BY <2>1, <2>2, <3>2, Timing DEF Least
    <3>4. entry'[c][i] = [e EXCEPT !.rcv = k, !.per = p]
      BY <2>3, <2>6
    <3>5. /\ entry'[c][i] \in EntryType /\ entry'[c][i].seq = e.seq /\ entry'[c][i].pseq = e.pseq
          /\ entry'[c][i].serving = e.serving /\ entry'[c][i].rcv = k /\ entry'[c][i].per = p
      BY <3>1, <3>3, <3>4 DEF EntryType
    <3> QED BY <2>1, <2>2, <3>1, <3>5 DEF Maybe, e
  <2> QED BY <2>5, <2>6
<1>4. entry' = [c \in Coordinators |-> [i \in Instances |-> entry'[c][i]]]
  BY <1>1
<1>5. entry' \in [Coordinators -> [Instances -> Maybe(EntryType)]]
  BY <1>3, <1>4
<1> QED BY <1>3, <1>5

\* A tick ages the publications in flight.
LEMMA TickFlushes ==
  ASSUME TypeInv, Tick
  PROVE  /\ flush' \in [Coordinators -> [Instances -> Maybe(FlushType)]]
         /\ \A c \in Coordinators, i \in Instances : flush'[c][i] # Nobody =>
              LET f == flush[c][i]
                  n == flush'[c][i]
              IN  /\ f \in FlushType /\ n.seq = f.seq /\ n.left = f.left /\ n.pc = f.pc
                  /\ n.rcv = Least(f.rcv + 1, TTL) /\ n.age = f.age + 1
<1>1. flush' = [c \in Coordinators |-> [i \in Instances |->
            IF flush[c][i] = Nobody THEN Nobody
            ELSE [flush[c][i] EXCEPT !.rcv = Older(@, TTL), !.age = @ + 1]]]
      /\ \A c \in Coordinators : \A i \in Instances :
            flush[c][i] # Nobody => flush[c][i].age < REQUEST_TIMEOUT
  BY DEF Tick
<1>2. flush \in [Coordinators -> [Instances -> Maybe(FlushType)]]
  BY DEF TypeInv, TypeOK
<1>3. ASSUME NEW c \in Coordinators, NEW i \in Instances
      PROVE  /\ flush'[c][i] \in Maybe(FlushType)
             /\ flush'[c][i] # Nobody =>
                LET f == flush[c][i]
                    n == flush'[c][i]
                IN  /\ f \in FlushType /\ n.seq = f.seq /\ n.left = f.left /\ n.pc = f.pc
                    /\ n.rcv = Least(f.rcv + 1, TTL) /\ n.age = f.age + 1
  <2> DEFINE f == flush[c][i]
  <2>1. PICK k : k = Least(f.rcv + 1, TTL)
    OBVIOUS
  <2>2. f # Nobody => f.age < REQUEST_TIMEOUT
    BY <1>1, <1>3
  <2>3. flush'[c][i] = IF f = Nobody THEN Nobody ELSE [f EXCEPT !.rcv = k, !.age = f.age + 1]
    BY <1>1, <1>3, <2>1 DEF Older
  <2>4. f \in Maybe(FlushType)
    BY <1>2, <1>3
  <2> HIDE DEF f
  <2>5. CASE f = Nobody
    BY <2>3, <2>5 DEF Maybe
  <2>6. CASE f # Nobody
    <3>1. f \in FlushType
      BY <2>4, <2>6 DEF Maybe
    <3>2. f.rcv + 1 \in Nat /\ f.age + 1 \in 0..REQUEST_TIMEOUT
      BY <2>2, <2>6, <3>1, Timing DEF FlushType
    <3>3. k \in 0..TTL
      BY <2>1, <3>2, Timing DEF Least
    <3>4. flush'[c][i] = [f EXCEPT !.rcv = k, !.age = f.age + 1]
      BY <2>3, <2>6
    <3>5. /\ flush'[c][i] \in FlushType /\ flush'[c][i].seq = f.seq /\ flush'[c][i].left = f.left
          /\ flush'[c][i].pc = f.pc /\ flush'[c][i].rcv = k /\ flush'[c][i].age = f.age + 1
      BY <3>1, <3>2, <3>3, <3>4 DEF FlushType
    <3> QED BY <2>1, <3>1, <3>5 DEF Maybe, f
  <2> QED BY <2>5, <2>6
<1>4. flush' = [c \in Coordinators |-> [i \in Instances |-> flush'[c][i]]]
  BY <1>1
<1>5. flush' \in [Coordinators -> [Instances -> Maybe(FlushType)]]
  BY <1>3, <1>4
<1> QED BY <1>3, <1>5

\* A tick ages what was read and the last discovery.
LEMMA TickReads ==
  ASSUME TypeInv, Tick
  PROVE  /\ rec' \in [Coordinators -> Maybe(ReadType)]
         /\ disc' \in [Coordinators -> Maybe(0..MAX_AGE)]
         /\ \A c \in Coordinators : rec'[c] # Nobody =>
              /\ rec[c] \in ReadType /\ rec'[c].snap = rec[c].snap /\ rec'[c].age = rec[c].age + 1
         /\ \A c \in Coordinators : disc'[c] = Nobody <=> disc[c] = Nobody
         /\ \A c \in Coordinators : disc[c] # Nobody =>
              disc[c] \in 0..MAX_AGE /\ disc'[c] = Least(disc[c] + 1, MAX_AGE)
<1>1. /\ rec' = [c \in Coordinators |->
            IF rec[c] = Nobody THEN Nobody ELSE [rec[c] EXCEPT !.age = @ + 1]]
      /\ disc' = [c \in Coordinators |->
            IF disc[c] = Nobody THEN Nobody ELSE Older(disc[c], MAX_AGE)]
      /\ \A c \in Coordinators : rec[c] # Nobody => rec[c].age < REQUEST_TIMEOUT
  BY DEF Tick
<1>2. rec \in [Coordinators -> Maybe(ReadType)] /\ disc \in [Coordinators -> Maybe(0..MAX_AGE)]
  BY DEF TypeInv, TypeOK
<1>3. ASSUME NEW c \in Coordinators
      PROVE  /\ rec'[c] \in Maybe(ReadType)
             /\ rec'[c] # Nobody =>
              /\ rec[c] \in ReadType /\ rec'[c].snap = rec[c].snap /\ rec'[c].age = rec[c].age + 1
  <2>1. CASE rec[c] = Nobody
    BY <1>1, <1>3, <2>1 DEF Maybe
  <2>2. CASE rec[c] # Nobody
    <3>1. rec[c] \in ReadType /\ rec[c].age < REQUEST_TIMEOUT
      BY <1>1, <1>2, <2>2 DEF Maybe
    <3>2. rec'[c] = [rec[c] EXCEPT !.age = rec[c].age + 1]
      BY <1>1, <2>2
    <3>3. rec[c].age + 1 \in 0..REQUEST_TIMEOUT
      BY <3>1, Timing DEF ReadType
    <3> QED BY <3>1, <3>2, <3>3 DEF ReadType, Maybe
  <2> QED BY <2>1, <2>2
<1>4. ASSUME NEW c \in Coordinators
      PROVE  /\ disc'[c] \in Maybe(0..MAX_AGE) /\ (disc'[c] = Nobody <=> disc[c] = Nobody)
             /\ disc[c] # Nobody => disc[c] \in 0..MAX_AGE /\ disc'[c] = Least(disc[c] + 1, MAX_AGE)
  <2>1. CASE disc[c] = Nobody
    BY <1>1, <1>4, <2>1 DEF Maybe
  <2>2. CASE disc[c] # Nobody
    <3>1. disc[c] \in 0..MAX_AGE
      BY <1>2, <2>2 DEF Maybe
    <3>2. disc'[c] = Least(disc[c] + 1, MAX_AGE)
      BY <1>1, <2>2 DEF Older
    <3>3. disc'[c] \in 0..MAX_AGE
      BY <3>1, <3>2, Timing DEF Least
    <3> QED BY <2>2, <3>1, <3>2, <3>3, NobodyIsNone DEF Maybe
  <2> QED BY <2>1, <2>2
<1>5. rec' = [c \in Coordinators |-> rec'[c]] /\ disc' = [c \in Coordinators |-> disc'[c]]
  BY <1>1
<1>6. rec' \in [Coordinators -> Maybe(ReadType)] /\ disc' \in [Coordinators -> Maybe(0..MAX_AGE)]
  BY <1>3, <1>4, <1>5
<1> QED BY <1>3, <1>4, <1>6

\* A tick keeps the types.
LEMMA TickType ==
  ASSUME TypeInv, Tick
  PROVE  TypeInv'
<1>1. /\ worker' \in [Instances -> WorkerType]
      /\ \A i \in Instances : worker'[i].seq = worker[i].seq
      /\ heard' \in [Instances -> 0..LongSilent]
      /\ UNCHANGED <<moves, lock, top, lent>>
  BY TickWorkers
<1>2. reqs' \subseteq RequestType
  BY TickReqs
<1>3. store' \in [Instances -> Maybe(RecordType)] /\ sole' \in [Instances -> 0..LongLost]
  BY TickStore
<1>4. /\ entry' \in [Coordinators -> [Instances -> Maybe(EntryType)]]
      /\ \A c \in Coordinators, i \in Instances : entry'[c][i] # Nobody => entry[c][i] \in EntryType
  BY TickEntries
<1>5. flush' \in [Coordinators -> [Instances -> Maybe(FlushType)]]
  BY TickFlushes
<1>6. /\ rec' \in [Coordinators -> Maybe(ReadType)] /\ disc' \in [Coordinators -> Maybe(0..MAX_AGE)]
      /\ \A c \in Coordinators : rec'[c] # Nobody => rec[c] \in ReadType
      /\ \A c \in Coordinators : disc'[c] = Nobody <=> disc[c] = Nobody
  BY TickReads
<1>7. \A c \in Coordinators : rec'[c] # Nobody => lock'[c] # Nobody
  BY <1>1, <1>6, NobodyIsNone DEF TypeInv, TypeOK
<1>8. TypeOK'
  BY <1>1, <1>2, <1>3, <1>4, <1>5, <1>6, <1>7 DEF TypeInv, TypeOK
<1>9. SeqSpent'
  BY <1>1 DEF TypeInv, SeqSpent
<1>10. OpenInv'
  BY <1>4, <1>6, NobodyIsNone DEF TypeInv, OpenInv
<1> QED BY <1>8, <1>9, <1>10 DEF TypeInv

\* Every step keeps the types.
LEMMA TypeStep ==
  ASSUME TypeInv, Next
  PROVE  TypeInv'
<1>1. ASSUME NEW i \in Instances, NEW c \in Coordinators, NEW ready \in BOOLEAN,
             NEW read \in BOOLEAN, Beat(i, c, ready, read)
      PROVE  TypeInv'
  BY <1>1, BeatType
<1>2. ASSUME NEW i \in Instances, ControlFails(i) PROVE TypeInv'
  BY <1>2, ControlFailsType
<1>3. ASSUME NEW r \in reqs, Publish(r) \/ Abandon(r) PROVE TypeInv'
  BY <1>3, PublishType, AbandonType
<1>4. ASSUME NEW c \in Coordinators, Read(c) \/ Install(c) \/ ReadFails(c) PROVE TypeInv'
  BY <1>4, ReadTypes, InstallType, ReadFailsType
<1>5. ASSUME NEW c \in Coordinators, StartFlush(c) \/ FlushFails(c) \/ Restart(c) PROVE TypeInv'
  BY <1>5, StartFlushType, FlushFailsType, RestartType
<1>6. ASSUME NEW c \in Coordinators, NEW i \in Instances, FlushWrite(c, i) \/ FlushDone(c, i)
      PROVE  TypeInv'
  BY <1>6, FlushWriteType, FlushDoneType
<1> QED BY <1>1, <1>2, <1>3, <1>4, <1>5, <1>6, TickType DEF Next

\* A state that no step changes keeps its types.
LEMMA TypeStutter ==
  ASSUME TypeInv, UNCHANGED vars
  PROVE  TypeInv'
BY DEF vars, TypeInv, TypeOK, SeqSpent, OpenInv

\* The initial state has the types.
LEMMA TypeInit ==
  ASSUME Init
  PROVE  TypeInv
<1>1. worker \in [Instances -> WorkerType]
      /\ \A i \in Instances : worker[i].seq = 0
  <2>1. 0 \in Seqs /\ LongAccepted \in 0..LongAccepted
    BY Timing DEF Seqs
  <2> QED BY <2>1 DEF Init, WorkerType
<1>2. /\ store \in [Instances -> Maybe(RecordType)]
      /\ entry \in [Coordinators -> [Instances -> Maybe(EntryType)]]
      /\ flush \in [Coordinators -> [Instances -> Maybe(FlushType)]]
      /\ disc \in [Coordinators -> Maybe(0..MAX_AGE)]
      /\ lock \in [Coordinators -> Maybe(HolderType)]
      /\ rec \in [Coordinators -> Maybe(ReadType)]
  BY DEF Init, Maybe
<1>3. /\ moves \in 0..MaxMoves /\ moves = 0
      /\ heard \in [Instances -> 0..LongSilent] /\ sole \in [Instances -> 0..LongLost]
      /\ top \in [Instances -> Seqs] /\ lent \subseteq Coordinators \X Instances
  BY Timing DEF Init, LongSilent, LongLost, Seqs
<1>4. /\ reqs \subseteq RequestType /\ \A c \in Coordinators : rec[c] = Nobody
      /\ \A c \in Coordinators, i \in Instances : entry[c][i] = Nobody
  BY DEF Init
<1>5. TypeOK
  BY <1>1, <1>2, <1>3, <1>4 DEF TypeOK
<1>6. SeqSpent
  BY <1>1, <1>3 DEF SeqSpent
<1>7. OpenInv
  BY <1>4 DEF OpenInv
<1> QED BY <1>5, <1>6, <1>7 DEF TypeInv

(***************************************************************************)
(* Every variable keeps its type, and no store lease, buffered age or      *)
(* request outlives the timeout that bounds it.                            *)
(***************************************************************************)
THEOREM TypesHold == Spec => []TypeOK
<1>1. TypeInv /\ [Next]_vars => TypeInv'
  BY TypeStep, TypeStutter
<1>2. TypeInv => TypeOK
  BY DEF TypeInv
<1> QED BY TypeInit, <1>1, <1>2, PTL DEF Spec

-----------------------------------------------------------------------------
(* How old a report is                                                     *)

\* The true age of every report of every instance: the ticks since some
\* coordinator received it, 0 for what is not sent yet.  No variable holds it;
\* the invariant is that there are such ages.
Ages == [Instances -> [Seqs -> Nat]]

\* While the report can still back a lease the store holds it or a newer one.
Covered(b, i, s) == b[i][s] < TTL => store[i] # Nobody /\ store[i].seq >= s

\* A date that is late by no more than the wait for the lock.
Close(b, i, s, age) == b[i][s] <= age + REQUEST_TIMEOUT \/ age = TTL

\* Sequences are received in order.
Ordered(b) == \A i \in Instances : \A s, t \in Seqs : s <= t => b[i][t] <= b[i][s]
Unsent(b) == \A i \in Instances : \A s \in Seqs : worker[i].seq <= s => b[i][s] = 0
HeardOf(b) == \A i \in Instances : \A s \in Seqs : s < worker[i].seq => heard[i] <= b[i][s]

Known(i, s) == s < worker[i].seq /\ s <= top[i]

\* The lease of a record is what its age leaves of a TTL, plus the two waits.
StoreAge(b, i) ==
  store[i] # Nobody =>
    /\ Known(i, store[i].seq)
    /\ TTL <= store[i].left + b[i][store[i].seq]
    /\ store[i].left + b[i][store[i].seq] <= TTL + 2 * REQUEST_TIMEOUT

RequestAge(b, r) ==
  /\ r.seq < worker[r.i].seq
  /\ r.age = b[r.i][r.seq]
  /\ r.pc = "refresh" => r.seq <= top[r.i] /\ Covered(b, r.i, r.seq)

\* A buffered report is dated at its receipt or later, one not yet published
\* at most a wait later; so is the last publication, unless it was observed.
EntryAge(b, c, i, e) ==
  /\ e.seq < worker[i].seq /\ Known(i, e.pseq)
  /\ e.rcv <= b[i][e.seq]
  /\ e.pseq < e.seq => Close(b, i, e.seq, e.rcv)
  /\ <<c, i>> \notin lent => Close(b, i, e.pseq, e.per) /\ Covered(b, i, e.pseq)

FlushAge(b, i, f) ==
  /\ f.seq < worker[i].seq
  /\ Close(b, i, f.seq, f.rcv)
  /\ TTL <= f.left + b[i][f.seq]
  /\ f.left + b[i][f.seq] <= TTL + REQUEST_TIMEOUT + f.age
  /\ f.pc # "write" => f.seq <= top[i] /\ Covered(b, i, f.seq)

\* What a snapshot shows is at least as old as the snapshot.
ReadAge(b, i, snapped, age) ==
  snapped # Nobody => Known(i, snapped.seq) /\ age <= b[i][snapped.seq]

EntryAges(b, c, i) == entry[c][i] # Nobody => EntryAge(b, c, i, entry[c][i])
FlushAges(b, c, i) == flush[c][i] # Nobody => FlushAge(b, i, flush[c][i])
ReadAges(b, c, i) == rec[c] # Nobody => ReadAge(b, i, rec[c].snap[i], rec[c].age)

AgeInv(b) ==
  /\ Ordered(b) /\ Unsent(b) /\ HeardOf(b)
  /\ \A i \in Instances : StoreAge(b, i)
  /\ \A r \in reqs : RequestAge(b, r)
  /\ \A c \in Coordinators, i \in Instances :
       EntryAges(b, c, i) /\ FlushAges(b, c, i) /\ ReadAges(b, c, i)

\* What a step may do to the facts that ages are compared with.
Grows(b) ==
  \A i \in Instances :
    /\ worker[i].seq <= worker'[i].seq
    /\ top[i] <= top'[i]
    /\ \A s \in Seqs : Covered(b, i, s) => Covered(b, i, s)'

\* Sequences are numbers.
LEMMA SeqNats ==
  ASSUME TypeInv, TypeInv', NEW i \in Instances
  PROVE  /\ worker[i].seq \in Nat /\ worker'[i].seq \in Nat
         /\ top[i] \in Nat /\ top'[i] \in Nat
<1>1. worker[i].seq \in Seqs /\ top[i] \in Seqs
  BY DEF TypeInv, TypeOK, WorkerType
<1>2. worker'[i].seq \in Seqs /\ top'[i] \in Seqs
  BY DEF TypeInv, TypeOK, WorkerType
<1> QED BY <1>1, <1>2, Timing

\* What is known stays known.
LEMMA KnownStays ==
  ASSUME TypeInv, TypeInv', NEW b, Grows(b), NEW i \in Instances, NEW s \in Seqs
  PROVE  /\ Known(i, s) => Known(i, s)'
         /\ s < worker[i].seq => s < worker'[i].seq
         /\ s <= top[i] => s <= top'[i]
         /\ Covered(b, i, s) => Covered(b, i, s)'
<1>1. s \in Nat
  BY Timing
<1>2. worker[i].seq <= worker'[i].seq /\ top[i] <= top'[i]
      /\ (Covered(b, i, s) => Covered(b, i, s)')
  BY DEF Grows
<1>3. /\ s < worker[i].seq => s < worker'[i].seq
      /\ s <= top[i] => s <= top'[i]
  BY <1>1, <1>2, SeqNats
<1> QED BY <1>2, <1>3 DEF Known

\* A request, an entry, a publication or a snapshot that stays keeps its age.
LEMMA AgeStays ==
  ASSUME TypeInv, TypeInv', NEW b, Grows(b), NEW c, NEW i \in Instances
  PROVE  /\ \A r \in RequestType : RequestAge(b, r) => RequestAge(b, r)'
         /\ \A e \in EntryType :
              EntryAge(b, c, i, e) /\ (<<c, i>> \in lent => <<c, i>> \in lent')
                => EntryAge(b, c, i, e)'
         /\ \A f \in FlushType : FlushAge(b, i, f) => FlushAge(b, i, f)'
         /\ \A v \in Maybe(ViewType), age \in Nat : ReadAge(b, i, v, age) => ReadAge(b, i, v, age)'
<1>1. ASSUME NEW r \in RequestType, RequestAge(b, r) PROVE RequestAge(b, r)'
  <2>1. r.i \in Instances /\ r.seq \in Seqs
    BY DEF RequestType
  <2>2. /\ r.seq < worker[r.i].seq => r.seq < worker'[r.i].seq
        /\ r.seq <= top[r.i] => r.seq <= top'[r.i]
        /\ Covered(b, r.i, r.seq) => Covered(b, r.i, r.seq)'
    BY <2>1, KnownStays
  <2> QED BY <1>1, <2>2 DEF RequestAge
<1>2. ASSUME NEW e \in EntryType, EntryAge(b, c, i, e), <<c, i>> \in lent => <<c, i>> \in lent'
      PROVE  EntryAge(b, c, i, e)'
  <2>1. e.seq \in Seqs /\ e.pseq \in Seqs
    BY DEF EntryType
  <2>2. /\ e.seq < worker[i].seq => e.seq < worker'[i].seq
        /\ Known(i, e.pseq) => Known(i, e.pseq)'
        /\ Covered(b, i, e.pseq) => Covered(b, i, e.pseq)'
    BY <2>1, KnownStays
  <2> QED BY <1>2, <2>2 DEF EntryAge, Close
<1>3. ASSUME NEW f \in FlushType, FlushAge(b, i, f) PROVE FlushAge(b, i, f)'
  <2>1. f.seq \in Seqs
    BY DEF FlushType
  <2>2. /\ f.seq < worker[i].seq => f.seq < worker'[i].seq
        /\ f.seq <= top[i] => f.seq <= top'[i]
        /\ Covered(b, i, f.seq) => Covered(b, i, f.seq)'
    BY <2>1, KnownStays
  <2> QED BY <1>3, <2>2 DEF FlushAge, Close
<1>4. ASSUME NEW v \in Maybe(ViewType), NEW age \in Nat, ReadAge(b, i, v, age)
      PROVE  ReadAge(b, i, v, age)'
  <2>1. v # Nobody => v.seq \in Seqs
    BY DEF Maybe, ViewType
  <2>2. v # Nobody => (Known(i, v.seq) => Known(i, v.seq)')
    BY <2>1, KnownStays
  <2> QED BY <1>4, <2>2 DEF ReadAge
<1> QED BY <1>1, <1>2, <1>3, <1>4

\* A step that is no tick keeps the ages: what it leaves stays as old, and what
\* it changes has to have its age.
LEMMA AgesKept ==
  ASSUME TypeInv, TypeInv', NEW b \in Ages, AgeInv(b), Grows(b),
         HeardOf(b)',
         \A i \in Instances : store'[i] = store[i] \/ StoreAge(b, i)',
         \A r \in reqs' : r \in reqs \/ RequestAge(b, r)',
         \A c \in Coordinators, i \in Instances :
           /\ \/ entry'[c][i] = entry[c][i] /\ (<<c, i>> \in lent => <<c, i>> \in lent')
              \/ EntryAges(b, c, i)'
           /\ flush'[c][i] = flush[c][i] \/ FlushAges(b, c, i)'
           /\ rec'[c] = rec[c] \/ ReadAges(b, c, i)'
  PROVE  AgeInv(b)'
<1>1. Ordered(b)'
  BY DEF AgeInv, Ordered
<1>2. Unsent(b)'
  <2>1. ASSUME NEW i \in Instances, NEW s \in Seqs, worker'[i].seq <= s PROVE b[i][s] = 0
    <3>1. s \in Nat /\ worker[i].seq <= worker'[i].seq
      BY Timing DEF Grows
    <3>2. worker[i].seq <= s
      BY <2>1, <3>1, SeqNats
    <3> QED BY <3>2 DEF AgeInv, Unsent
  <2> QED BY <2>1 DEF Unsent
<1>3. ASSUME NEW i \in Instances PROVE StoreAge(b, i)'
  <2>1. CASE store'[i] = store[i]
    <3>1. StoreAge(b, i)
      BY DEF AgeInv
    <3>2. store[i] # Nobody => store[i].seq \in Seqs
      BY DEF TypeInv, TypeOK, Maybe, RecordType
    <3>3. PICK k : k = store[i].seq
      OBVIOUS
    <3>4. store[i] # Nobody => (Known(i, k) => Known(i, k)')
      BY <3>2, <3>3, KnownStays
    <3> QED BY <2>1, <3>1, <3>3, <3>4 DEF StoreAge, Known
  <2> QED BY <2>1
<1>4. ASSUME NEW r \in reqs' PROVE RequestAge(b, r)'
  <2>1. CASE r \in reqs
    <3>1. r \in RequestType /\ RequestAge(b, r)
      BY <2>1 DEF TypeInv, TypeOK, AgeInv
    <3>2. r.i \in Instances
      BY <3>1 DEF RequestType
    <3> QED BY <3>1, <3>2, AgeStays
  <2> QED BY <1>4, <2>1
<1>5. ASSUME NEW c \in Coordinators, NEW i \in Instances PROVE EntryAges(b, c, i)'
  <2>1. CASE entry'[c][i] = entry[c][i] /\ (<<c, i>> \in lent => <<c, i>> \in lent')
    <3>1. CASE entry[c][i] # Nobody
      <4>1. entry[c][i] \in EntryType /\ EntryAge(b, c, i, entry[c][i])
        BY <3>1 DEF TypeInv, TypeOK, Maybe, AgeInv, EntryAges
      <4>2. PICK e : e = entry[c][i]
        OBVIOUS
      <4>3. EntryAge(b, c, i, e)'
        BY <2>1, <4>1, <4>2, AgeStays
      <4> QED BY <2>1, <4>2, <4>3 DEF EntryAges, EntryAge, Known, Close, Covered
    <3>2. CASE entry[c][i] = Nobody
      BY <2>1, <3>2 DEF EntryAges
    <3> QED BY <3>1, <3>2
  <2> QED BY <2>1
<1>6. ASSUME NEW c \in Coordinators, NEW i \in Instances PROVE FlushAges(b, c, i)'
  <2>1. CASE flush'[c][i] = flush[c][i]
    <3>1. CASE flush[c][i] # Nobody
      <4>1. flush[c][i] \in FlushType /\ FlushAge(b, i, flush[c][i])
        BY <3>1 DEF TypeInv, TypeOK, Maybe, AgeInv, FlushAges
      <4>2. PICK f : f = flush[c][i]
        OBVIOUS
      <4>3. FlushAge(b, i, f)'
        BY <4>1, <4>2, AgeStays
      <4> QED BY <2>1, <4>2, <4>3 DEF FlushAges, FlushAge, Close, Covered
    <3>2. CASE flush[c][i] = Nobody
      BY <2>1, <3>2 DEF FlushAges
    <3> QED BY <3>1, <3>2
  <2> QED BY <2>1
<1>7. ASSUME NEW c \in Coordinators, NEW i \in Instances PROVE ReadAges(b, c, i)'
  <2>1. CASE rec'[c] = rec[c]
    <3>1. CASE rec[c] # Nobody
      <4>1. rec[c] \in ReadType /\ ReadAge(b, i, rec[c].snap[i], rec[c].age)
        BY <3>1 DEF TypeInv, TypeOK, Maybe, AgeInv, ReadAges
      <4>2. PICK v : v = rec[c].snap[i]
        OBVIOUS
      <4>3. PICK age : age = rec[c].age
        OBVIOUS
      <4>4. v \in Maybe(ViewType) /\ age \in Nat
        BY <4>1, <4>2, <4>3, Timing DEF ReadType
      <4>5. ReadAge(b, i, v, age)'
        BY <4>1, <4>2, <4>3, <4>4, AgeStays
      <4> QED BY <2>1, <4>2, <4>3, <4>5 DEF ReadAges, ReadAge, Known
    <3>2. CASE rec[c] = Nobody
      BY <2>1, <3>2 DEF ReadAges
    <3> QED BY <3>1, <3>2
  <2> QED BY <2>1
<1> QED BY <1>1, <1>2, <1>3, <1>4, <1>5, <1>6, <1>7 DEF AgeInv

\* Without a write or a report nothing that ages are compared with changes.
LEMMA QuietGrows ==
  ASSUME TypeInv, TypeInv', NEW b \in Ages, AgeInv(b), store' = store, top' = top, heard' = heard,
         \A i \in Instances : worker'[i].seq = worker[i].seq
  PROVE  Grows(b) /\ HeardOf(b)'
<1>1. \A i \in Instances : worker[i].seq <= worker'[i].seq /\ top[i] <= top'[i]
  BY SeqNats
<1>2. \A i \in Instances, s \in Seqs : Covered(b, i, s) => Covered(b, i, s)'
  BY DEF Covered
<1>3. HeardOf(b)'
  BY DEF AgeInv, HeardOf
<1> QED BY <1>1, <1>2, <1>3 DEF Grows

\* A write of a report, for a lease that its age allows.
LEMMA UpsertAges ==
  ASSUME TypeInv, TypeInv', NEW b \in Ages, AgeInv(b), NEW i \in Instances, NEW seq \in Seqs,
         NEW ready \in BOOLEAN, NEW ttl \in 1..TTL, upsert_instance(i, seq, ready, ttl),
         seq < worker[i].seq, TTL <= ttl + b[i][seq],
         ttl + b[i][seq] <= TTL + 2 * REQUEST_TIMEOUT, heard' = heard,
         \A j \in Instances : worker'[j].seq = worker[j].seq
  PROVE  /\ Grows(b) /\ HeardOf(b)'
         /\ \A j \in Instances : store'[j] = store[j] \/ StoreAge(b, j)'
         /\ seq <= top'[i] /\ Covered(b, i, seq)'
<1>1. /\ \A j \in Instances : j # i => store'[j] = store[j]
      /\ \A j \in Instances : top'[j] >= top[j]
      /\ top'[i] >= seq
      /\ store'[i] # Nobody
      /\ \/ store'[i] = store[i] /\ store[i].seq >= seq
         \/ /\ store'[i] = [seq |-> seq, ready |-> ready, left |-> ttl]
            /\ store[i] = Nobody \/ seq > store[i].seq
  BY UpsertIs
<1>2. /\ seq \in Nat /\ (store[i] # Nobody => store[i].seq \in Nat)
  BY Timing DEF TypeInv, TypeOK, Maybe, RecordType
<1>3. store'[i] # Nobody /\ store'[i].seq >= seq /\ store'[i].seq \in Nat
      /\ (store[i] # Nobody => store'[i].seq >= store[i].seq)
  <2>1. CASE store'[i] = store[i] /\ store[i].seq >= seq
    BY <1>1, <1>2, <2>1
  <2>2. CASE store'[i] = [seq |-> seq, ready |-> ready, left |-> ttl]
             /\ (store[i] = Nobody \/ seq > store[i].seq)
    BY <1>1, <1>2, <2>2
  <2> QED BY <1>1, <2>1, <2>2
<1>4. Covered(b, i, seq)'
  BY <1>3 DEF Covered
<1>5. ASSUME NEW j \in Instances, NEW s \in Seqs, Covered(b, j, s) PROVE Covered(b, j, s)'
  <2>1. CASE j # i
    BY <1>1, <1>5, <2>1 DEF Covered
  <2>2. CASE j = i
    <3>1. s \in Nat
      BY Timing
    <3>2. store[i] # Nobody /\ store[i].seq >= s => store'[i] # Nobody /\ store'[i].seq >= s
      BY <1>2, <1>3, <3>1
    <3> QED BY <1>5, <2>2, <3>2 DEF Covered
  <2> QED BY <2>1, <2>2
<1>6. Grows(b)
  <2>1. \A j \in Instances : worker[j].seq <= worker'[j].seq /\ top[j] <= top'[j]
    BY <1>1, SeqNats
  <2> QED BY <1>5, <2>1 DEF Grows
<1>7. ASSUME NEW j \in Instances PROVE store'[j] = store[j] \/ StoreAge(b, j)'
  <2>1. CASE j = i /\ store'[i] = [seq |-> seq, ready |-> ready, left |-> ttl]
    <3>1. store'[i].seq = seq /\ store'[i].left = ttl
      BY <2>1
    <3>2. seq < worker'[i].seq /\ seq <= top'[i]
      BY <1>1, <1>2, SeqNats
    <3> QED BY <2>1, <3>1, <3>2 DEF StoreAge, Known
  <2> QED BY <1>1, <2>1
<1>8. HeardOf(b)'
  BY DEF AgeInv, HeardOf
<1>9. seq <= top'[i]
  BY <1>1, <1>2, SeqNats
<1> QED BY <1>4, <1>6, <1>7, <1>8, <1>9

\* What a receipt leaves of an entry has its age, for a report that waited no
\* longer than the timeout.
LEMMA ReceivedAges ==
  ASSUME TypeInv, TypeInv', NEW b \in Ages, Grows(b), NEW c \in Coordinators, NEW i \in Instances,
         NEW r, r.seq \in Seqs, r.ready \in BOOLEAN, NEW e \in EntryType, EntryAge(b, c, i, e),
         r.seq < worker'[i].seq, b[i][r.seq] <= REQUEST_TIMEOUT,
         <<c, i>> \in lent => <<c, i>> \in lent',
         NEW n, n = Received(c, e, r)
  PROVE  EntryAge(b, c, i, n)'
<1>1. EntryAge(b, c, i, e)'
  BY AgeStays
<1>2. /\ n \in EntryType /\ n.pseq = e.pseq /\ n.per = e.per
      /\ \/ n.seq = e.seq /\ n.rcv = e.rcv
         \/ n.seq = r.seq /\ n.rcv = 0 /\ e.seq < r.seq
  BY ReceivedIs
<1>3. b[i][r.seq] \in Nat
  BY DEF Ages
<1>4. CASE n.seq = e.seq /\ n.rcv = e.rcv
  BY <1>1, <1>2, <1>4 DEF EntryAge, Close, Covered, Known
<1>5. CASE n.seq = r.seq /\ n.rcv = 0 /\ e.seq < r.seq
  <2>1. 0 <= b[i][n.seq] /\ b[i][n.seq] <= 0 + REQUEST_TIMEOUT
    BY <1>3, <1>5, Timing
  <2>2. Close(b, i, n.seq, n.rcv)'
    BY <1>5, <2>1 DEF Close
  <2>3. <<c, i>> \notin lent' => Close(b, i, n.pseq, n.per)' /\ Covered(b, i, n.pseq)'
    BY <1>1, <1>2 DEF EntryAge, Close, Covered
  <2>4. Known(i, n.pseq)'
    BY <1>1, <1>2 DEF EntryAge, Known
  <2> QED BY <1>5, <2>1, <2>2, <2>3, <2>4 DEF EntryAge
<1> QED BY <1>2, <1>4, <1>5

\* A report is received now: its age is 0, as of everything unsent.
LEMMA BeatAges ==
  ASSUME TypeInv, TypeInv', NEW b \in Ages, AgeInv(b), NEW i \in Instances, NEW c \in Coordinators,
         NEW ready \in BOOLEAN, NEW read \in BOOLEAN, Beat(i, c, ready, read)
  PROVE  AgeInv(b)'
<1> DEFINE w == worker[i]
           r == [c |-> c, i |-> i, seq |-> w.seq, ready |-> ready, pc |-> "queued",
                 age |-> 0, applied |-> FALSE]
           verdict == Verdict(c, entry[c][i], r)
<1>1. /\ heard' = [heard EXCEPT ![i] = 0]
      /\ entry' = [entry EXCEPT ![c][i] = Received(c, @, r)]
      /\ reqs' = (IF verdict = "admit" THEN reqs \cup {r} ELSE reqs)
      /\ worker' = [worker EXCEPT ![i] = Reported(w, verdict, read)]
      /\ UNCHANGED <<store, disc, lock, rec, flush, sole, top, lent>>
  BY DEF Beat, Reported, Sent
<1>2. /\ DOMAIN worker = Instances /\ worker = [j \in Instances |-> worker[j]]
      /\ heard \in [Instances -> 0..LongSilent] /\ w.seq \in Seqs /\ w.seq \in Nat
  BY Timing DEF TypeInv, TypeOK, WorkerType
<1>3. /\ worker'[i].seq = w.seq + 1 /\ \A j \in Instances : j # i => worker'[j] = worker[j]
  <2>1. w \in WorkerType /\ (Reported(w, verdict, read)).seq = w.seq + 1
    BY DEF Reported, Sent, Registered, TypeInv, TypeOK, WorkerType
  <2> HIDE DEF verdict, w
  <2> QED BY <1>1, <1>2, <2>1
<1>4. r.seq = w.seq /\ r.i = i /\ r.age = 0 /\ r.pc = "queued" /\ r.ready \in BOOLEAN
  OBVIOUS
<1>5. b[i][w.seq] = 0
  BY <1>2 DEF AgeInv, Unsent
<1> HIDE DEF r, verdict, w
<1>6. Grows(b)
  <2>1. \A j \in Instances : worker[j].seq <= worker'[j].seq /\ top[j] <= top'[j]
    BY <1>1, <1>2, <1>3, SeqNats DEF w
  <2>2. \A j \in Instances, s \in Seqs : Covered(b, j, s) => Covered(b, j, s)'
    BY <1>1 DEF Covered
  <2> QED BY <2>1, <2>2 DEF Grows
<1>7. HeardOf(b)'
  <2>1. ASSUME NEW j \in Instances, NEW s \in Seqs, s < worker'[j].seq PROVE heard'[j] <= b[j][s]
    <3>1. CASE j = i
      <4>1. heard'[j] = 0 /\ b[j][s] \in Nat
        BY <1>1, <1>2, <3>1 DEF Ages
      <4> QED BY <4>1
    <3>2. CASE j # i
      <4>1. heard'[j] = heard[j] /\ worker'[j] = worker[j]
        BY <1>1, <1>2, <1>3, <3>2
      <4> QED BY <2>1, <4>1 DEF AgeInv, HeardOf
    <3> QED BY <3>1, <3>2
  <2> QED BY <2>1 DEF HeardOf
<1>8. ASSUME NEW q \in reqs' PROVE q \in reqs \/ RequestAge(b, q)'
  <2>1. CASE q = r
    <3>1. q.seq = worker[i].seq /\ q.i = i /\ q.age = 0 /\ q.pc = "queued"
      BY <1>4, <2>1 DEF w
    <3>2. q.seq < worker'[i].seq /\ b[i][q.seq] = 0
      BY <1>2, <1>3, <1>5, <3>1 DEF w
    <3> QED BY <3>1, <3>2 DEF RequestAge
  <2> QED BY <1>1, <1>8, <2>1
<1>9. ASSUME NEW d \in Coordinators, NEW j \in Instances
      PROVE  /\ \/ entry'[d][j] = entry[d][j] /\ (<<d, j>> \in lent => <<d, j>> \in lent')
                \/ EntryAges(b, d, j)'
             /\ flush'[d][j] = flush[d][j] /\ rec'[d] = rec[d]
  <2>1. /\ entry'[c][i] = Received(c, entry[c][i], r)
        /\ \A x \in Coordinators, y \in Instances : x # c \/ y # i => entry'[x][y] = entry[x][y]
    <3>1. r.seq \in Seqs /\ r.ready \in BOOLEAN
      BY <1>2, <1>4
    <3>2. entry' = [entry EXCEPT ![c][i] = Received(c, @, r)]
      BY <1>1
    <3> QED BY <3>1, <3>2, BufferIs
  <2>2. CASE d = c /\ j = i /\ entry[c][i] # Nobody
    <3>1. entry[c][i] \in EntryType /\ EntryAge(b, c, i, entry[c][i])
      BY <2>2 DEF TypeInv, TypeOK, Maybe, AgeInv, EntryAges
    <3>2. r.seq < worker'[i].seq /\ b[i][r.seq] <= REQUEST_TIMEOUT /\ r.seq \in Seqs
      BY <1>2, <1>3, <1>4, <1>5, Timing
    <3>3. PICK n : n = Received(c, entry[c][i], r)
      OBVIOUS
    <3>4. lent' = lent
      BY <1>1
    <3>5. EntryAge(b, c, i, n)'
      BY <1>4, <1>6, <3>1, <3>2, <3>3, <3>4, ReceivedAges
    <3>6. entry'[c][i] = n
      BY <2>1, <3>3
    <3>7. EntryAges(b, c, i)'
      BY <3>5, <3>6 DEF EntryAges, EntryAge, Close, Covered, Known
    <3> QED BY <1>1, <2>2, <3>7
  <2>3. CASE d = c /\ j = i /\ entry[c][i] = Nobody
    BY <1>1, <2>1, <2>3, ReceivedNone
  <2>4. CASE d # c \/ j # i
    BY <1>1, <2>1, <2>4
  <2> QED BY <2>2, <2>3, <2>4
<1>10. \A j \in Instances : store'[j] = store[j]
  BY <1>1
<1> QED BY <1>6, <1>7, <1>8, <1>9, <1>10, AgesKept

\* Publishing under the lock: the lease is what the wait left of a TTL.
LEMMA PublishAges ==
  ASSUME TypeInv, TypeInv', NEW b \in Ages, AgeInv(b), NEW r \in reqs, Publish(r)
  PROVE  AgeInv(b)'
<1> DEFINE verdict == Verdict(r.c, entry[r.c][r.i], r)
           result == Disposition(r.i, r.seq)
           n == [r EXCEPT !.pc = "refresh", !.applied = (result = "applied")]
           c == r.c
           i == r.i
<1>1. r \in RequestType /\ RequestAge(b, r)
  BY DEF TypeInv, TypeOK, AgeInv
<1>2. /\ c \in Coordinators /\ i \in Instances /\ r.seq \in Seqs /\ r.ready \in BOOLEAN
      /\ r.age \in 0..REQUEST_TIMEOUT
  BY <1>1 DEF RequestType
<1>3. /\ entry' = [entry EXCEPT ![c][i] = Received(c, @, r)]
      /\ IF verdict = "admit"
         THEN upsert_instance(i, r.seq, r.ready, Remaining(r.age))
         ELSE UNCHANGED <<store, top, sole>>
      /\ IF verdict = "admit" /\ result # "stale"
         THEN /\ reqs' = (reqs \ {r}) \cup {n}
              /\ UNCHANGED worker
         ELSE Answer(r, verdict) /\ UNCHANGED lock
      /\ UNCHANGED <<moves, disc, rec, flush, heard, lent>>
  BY DEF Publish
<1>4. n.i = i /\ n.seq = r.seq /\ n.age = r.age
  BY <1>1 DEF RequestType
<1>5. Remaining(r.age) \in 1..TTL /\ Remaining(r.age) + r.age = TTL
  BY <1>2, Timing DEF Remaining
<1>6. r.seq < worker[i].seq /\ r.age = b[i][r.seq]
  BY <1>1 DEF RequestAge
<1> HIDE DEF verdict, result, n
<1>7. \A j \in Instances : worker'[j].seq = worker[j].seq
  <2>1. CASE verdict = "admit" /\ result # "stale"
    BY <1>3, <2>1
  <2>2. CASE ~(verdict = "admit" /\ result # "stale")
    <3>1. worker' = Acked(r.i, r.seq, verdict)
      BY <1>3, <2>2 DEF Answer
    <3> QED BY <1>2, <3>1, AckedIs
  <2> QED BY <2>1, <2>2
<1> HIDE DEF c, i
<1>8. /\ Grows(b) /\ HeardOf(b)'
      /\ \A j \in Instances : store'[j] = store[j] \/ StoreAge(b, j)'
      /\ verdict = "admit" => r.seq <= top'[i] /\ Covered(b, i, r.seq)'
  <2>1. CASE verdict = "admit"
    <3>1. PICK ttl : ttl = Remaining(r.age)
      OBVIOUS
    <3>2. upsert_instance(i, r.seq, r.ready, ttl) /\ heard' = heard
      BY <1>3, <2>1, <3>1
    <3>3. ttl \in 1..TTL /\ TTL <= ttl + b[i][r.seq] /\ ttl + b[i][r.seq] <= TTL + 2 * REQUEST_TIMEOUT
      BY <1>2, <1>5, <1>6, <3>1, Timing
    <3> QED BY <1>2, <1>6, <1>7, <3>2, <3>3, UpsertAges
  <2>2. CASE verdict # "admit"
    <3>1. store' = store /\ top' = top /\ heard' = heard
      BY <1>3, <2>2
    <3> QED BY <1>7, <2>2, <3>1, QuietGrows
  <2> QED BY <2>1, <2>2
<1>9. ASSUME NEW q \in reqs' PROVE q \in reqs \/ RequestAge(b, q)'
  <2>1. CASE verdict = "admit" /\ result # "stale"
    <3>1. q \in reqs \/ q = n
      BY <1>3, <1>9, <2>1
    <3>2. r.seq < worker'[i].seq
      BY <1>2, <1>6, <1>7
    <3>3. CASE q = n
      <4>1. q.i = i /\ q.seq = r.seq /\ q.age = r.age
        BY <1>4, <3>3
      <4>2. q.seq <= top'[q.i] /\ q.seq < worker'[q.i].seq /\ q.age = b[q.i][q.seq]
        BY <1>6, <1>8, <2>1, <3>2, <4>1
      <4>3. Covered(b, q.i, q.seq)'
        BY <1>8, <2>1, <4>1 DEF Covered
      <4> QED BY <4>2, <4>3 DEF RequestAge
    <3> QED BY <3>1, <3>3
  <2>2. CASE ~(verdict = "admit" /\ result # "stale")
    BY <1>3, <1>9, <2>2 DEF Answer
  <2> QED BY <2>1, <2>2
<1>10. ASSUME NEW d \in Coordinators, NEW j \in Instances
      PROVE  /\ \/ entry'[d][j] = entry[d][j] /\ (<<d, j>> \in lent => <<d, j>> \in lent')
                \/ EntryAges(b, d, j)'
             /\ flush'[d][j] = flush[d][j] /\ rec'[d] = rec[d]
  <2>1. /\ entry'[c][i] = Received(c, entry[c][i], r)
        /\ \A x \in Coordinators, y \in Instances : x # c \/ y # i => entry'[x][y] = entry[x][y]
    BY <1>2, <1>3, BufferIs
  <2>2. CASE d = c /\ j = i /\ entry[c][i] # Nobody
    <3>1. entry[c][i] \in EntryType /\ EntryAge(b, c, i, entry[c][i])
      BY <1>2, <2>2 DEF TypeInv, TypeOK, Maybe, AgeInv, EntryAges
    <3>2. r.seq < worker'[i].seq /\ b[i][r.seq] <= REQUEST_TIMEOUT
      BY <1>2, <1>6, <1>7, Timing
    <3>3. PICK m : m = Received(c, entry[c][i], r)
      OBVIOUS
    <3>4. lent' = lent
      BY <1>3
    <3>5. EntryAge(b, c, i, m)'
      BY <1>2, <1>8, <3>1, <3>2, <3>3, <3>4, ReceivedAges
    <3>6. entry'[c][i] = m
      BY <2>1, <3>3
    <3>7. EntryAges(b, c, i)'
      BY <3>5, <3>6 DEF EntryAges, EntryAge, Close, Covered, Known
    <3> QED BY <1>3, <2>2, <3>7
  <2>3. CASE d = c /\ j = i /\ entry[c][i] = Nobody
    BY <1>3, <2>1, <2>3, ReceivedNone
  <2>4. CASE d # c \/ j # i
    BY <1>3, <2>1, <2>4
  <2> QED BY <2>2, <2>3, <2>4
<1> QED BY <1>8, <1>9, <1>10, AgesKept

\* Steps that only drop things, or change what has no age.
LEMMA QuietAges ==
  ASSUME TypeInv, TypeInv', NEW b \in Ages, AgeInv(b), store' = store, top' = top, heard' = heard,
         \A i \in Instances : worker'[i].seq = worker[i].seq, reqs' \subseteq reqs,
         \A c \in Coordinators, i \in Instances :
           /\ \/ entry'[c][i] = entry[c][i] /\ (<<c, i>> \in lent => <<c, i>> \in lent')
              \/ entry'[c][i] = Nobody
           /\ flush'[c][i] = flush[c][i] \/ flush'[c][i] = Nobody
           /\ rec'[c] = rec[c] \/ rec'[c] = Nobody
  PROVE  AgeInv(b)'
<1>1. Grows(b) /\ HeardOf(b)'
  BY QuietGrows
<1>2. ASSUME NEW c \in Coordinators, NEW i \in Instances
      PROVE  /\ entry'[c][i] = Nobody => EntryAges(b, c, i)'
             /\ flush'[c][i] = Nobody => FlushAges(b, c, i)'
             /\ rec'[c] = Nobody => ReadAges(b, c, i)'
  BY DEF EntryAges, FlushAges, ReadAges
<1>3. \A c \in Coordinators, i \in Instances :
           /\ \/ entry'[c][i] = entry[c][i] /\ (<<c, i>> \in lent => <<c, i>> \in lent')
              \/ EntryAges(b, c, i)'
           /\ flush'[c][i] = flush[c][i] \/ FlushAges(b, c, i)'
           /\ rec'[c] = rec[c] \/ ReadAges(b, c, i)'
  BY <1>2
<1>4. \A r \in reqs' : r \in reqs
  OBVIOUS
<1> QED BY <1>1, <1>3, <1>4, AgesKept

\* A failure of the instance's report changes no age.
LEMMA ControlFailsAges ==
  ASSUME TypeInv, TypeInv', NEW b \in Ages, AgeInv(b), NEW i \in Instances, ControlFails(i)
  PROVE  AgeInv(b)'
<1>1. /\ \A j \in Instances : worker'[j].seq = worker[j].seq
      /\ UNCHANGED <<reqs, store, entry, disc, lock, rec, flush, heard, sole, top, lent>>
  BY ControlFailsIs
<1> QED BY <1>1, QuietAges

\* A failed request changes no age.
LEMMA AbandonAges ==
  ASSUME TypeInv, TypeInv', NEW b \in Ages, AgeInv(b), NEW r \in reqs, Abandon(r)
  PROVE  AgeInv(b)'
<1>1. /\ reqs' = reqs \ {r} /\ worker' = Acked(r.i, r.seq, "refuse")
      /\ rec' = rec \/ rec' = [rec EXCEPT ![r.c] = Nobody]
      /\ UNCHANGED <<store, entry, disc, flush, heard, sole, top, lent>>
  BY DEF Abandon, Answer, history
<1>2. r.i \in Instances
  BY DEF TypeInv, TypeOK, RequestType
<1>3. \A j \in Instances : worker'[j].seq = worker[j].seq
  BY <1>1, <1>2, AckedIs
<1>4. \A d \in Coordinators : rec'[d] = rec[d] \/ rec'[d] = Nobody
  BY <1>1 DEF TypeInv, TypeOK
<1> QED BY <1>1, <1>3, <1>4, QuietAges

\* A failed read changes no age.
LEMMA ReadFailsAges ==
  ASSUME TypeInv, TypeInv', NEW b \in Ages, AgeInv(b), NEW c \in Coordinators, ReadFails(c)
  PROVE  AgeInv(b)'
<1>1. /\ rec' = [rec EXCEPT ![c] = Nobody]
      /\ UNCHANGED <<worker, reqs, store, entry, disc, flush, heard, sole, top, lent>>
  BY DEF ReadFails, clients, history
<1>2. \A d \in Coordinators : rec'[d] = rec[d] \/ rec'[d] = Nobody
  BY <1>1 DEF TypeInv, TypeOK
<1> QED BY <1>1, <1>2, QuietAges

\* A failed pass changes no age.
LEMMA FlushFailsAges ==
  ASSUME TypeInv, TypeInv', NEW b \in Ages, AgeInv(b), NEW c \in Coordinators, FlushFails(c)
  PROVE  AgeInv(b)'
<1>1. /\ flush' = [flush EXCEPT ![c] = [j \in Instances |-> Nobody]]
      /\ UNCHANGED <<worker, reqs, store, entry, disc, lock, rec, heard, sole, top, lent>>
  BY DEF FlushFails, clients, history
<1>2. \A d \in Coordinators, j \in Instances : flush'[d][j] = flush[d][j] \/ flush'[d][j] = Nobody
  BY <1>1 DEF TypeInv, TypeOK
<1> QED BY <1>1, <1>2, QuietAges

\* A restart changes no age.
LEMMA RestartAges ==
  ASSUME TypeInv, TypeInv', NEW b \in Ages, AgeInv(b), NEW c \in Coordinators, Restart(c)
  PROVE  AgeInv(b)'
<1>1. /\ reqs' \subseteq reqs
      /\ \A d \in Coordinators : d # c =>
            /\ entry'[d] = entry[d] /\ flush'[d] = flush[d] /\ rec'[d] = rec[d]
      /\ \A j \in Instances : entry'[c][j] = Nobody /\ flush'[c][j] = Nobody
      /\ rec'[c] = Nobody
      /\ \A d \in Coordinators, j \in Instances :
            d # c => (<<d, j>> \in lent' <=> <<d, j>> \in lent)
      /\ UNCHANGED <<worker, store, heard, sole, top>>
  BY RestartView
<1>2. ASSUME NEW d \in Coordinators, NEW j \in Instances
      PROVE  /\ \/ entry'[d][j] = entry[d][j] /\ (<<d, j>> \in lent => <<d, j>> \in lent')
                \/ entry'[d][j] = Nobody
             /\ flush'[d][j] = flush[d][j] \/ flush'[d][j] = Nobody
             /\ rec'[d] = rec[d] \/ rec'[d] = Nobody
  BY <1>1
<1> QED BY <1>1, <1>2, QuietAges

\* A snapshot is as old as nothing when it is read.
LEMMA ReadAgesKept ==
  ASSUME TypeInv, TypeInv', NEW b \in Ages, AgeInv(b), NEW c \in Coordinators, Read(c)
  PROVE  AgeInv(b)'
<1>1. /\ rec' = [rec EXCEPT ![c] = [snap |-> Snapshot, age |-> 0]]
      /\ UNCHANGED <<worker, reqs, store, entry, disc, flush, heard, sole, top, lent>>
  BY DEF Read, clients, history
<1>2. Grows(b) /\ HeardOf(b)'
  BY <1>1, QuietGrows
<1>3. rec'[c].snap = Snapshot /\ rec'[c].age = 0 /\ \A d \in Coordinators : d # c => rec'[d] = rec[d]
  BY <1>1 DEF TypeInv, TypeOK
<1>4. ASSUME NEW i \in Instances PROVE ReadAges(b, c, i)'
  <2>1. CASE Snapshot[i] = Nobody
    <3>1. rec'[c].snap[i] = Nobody
      BY <1>3, <2>1
    <3> QED BY <3>1 DEF ReadAges, ReadAge
  <2>2. CASE Snapshot[i] # Nobody
    <3>1. store[i] # Nobody /\ Snapshot[i].seq = store[i].seq
      BY <2>2, SnapshotIs
    <3>2. Known(i, store[i].seq) /\ store[i].seq \in Seqs
      BY <3>1 DEF AgeInv, StoreAge, TypeInv, TypeOK, Maybe, RecordType
    <3>3. PICK k : k = store[i].seq
      OBVIOUS
    <3>4. Known(i, k)' /\ b[i][k] \in Nat
      BY <1>1, <3>2, <3>3 DEF Known, Ages
    <3>5. rec'[c].snap[i].seq = k /\ rec'[c].age = 0
      BY <1>3, <3>1, <3>3
    <3> QED BY <3>4, <3>5 DEF ReadAges, ReadAge, Known
  <2> QED BY <2>1, <2>2
<1>5. ASSUME NEW d \in Coordinators, NEW i \in Instances
      PROVE  /\ \/ entry'[d][i] = entry[d][i] /\ (<<d, i>> \in lent => <<d, i>> \in lent')
                \/ EntryAges(b, d, i)'
             /\ flush'[d][i] = flush[d][i] \/ FlushAges(b, d, i)'
             /\ rec'[d] = rec[d] \/ ReadAges(b, d, i)'
  BY <1>1, <1>3, <1>4
<1>6. /\ \A i \in Instances : store'[i] = store[i] \/ StoreAge(b, i)'
      /\ \A r \in reqs' : r \in reqs \/ RequestAge(b, r)'
  BY <1>1
<1> QED BY <1>2, <1>5, <1>6, AgesKept

\* What a discovery leaves of an entry has its age.
LEMMA InstallEntryAge ==
  ASSUME TypeInv, TypeInv', NEW b \in Ages, AgeInv(b), Grows(b), NEW c \in Coordinators,
         NEW i \in Instances, rec[c] \in ReadType, NEW n, n # Nobody,
         n = install(entry[c][i], i, rec[c].snap, rec[c].age),
         <<c, i>> \notin lent' =>
           /\ <<c, i>> \notin lent
           /\ ~(rec[c].snap[i] # Nobody /\
                (entry[c][i] = Nobody \/ rec[c].snap[i].seq > entry[c][i].pseq))
  PROVE  EntryAge(b, c, i, n)'
<1>1. PICK e : e = entry[c][i]
  OBVIOUS
<1>2. PICK v : v = rec[c].snap[i]
  OBVIOUS
<1>3. PICK age : age = rec[c].age
  OBVIOUS
<1>4. /\ e \in Maybe(EntryType) /\ rec[c].snap \in [Instances -> Maybe(ViewType)]
      /\ age \in 0..REQUEST_TIMEOUT /\ v \in Maybe(ViewType)
  BY <1>1, <1>2, <1>3 DEF TypeInv, TypeOK, ReadType
<1>5. /\ n \in EntryType
      /\ \/ e # Nobody /\ n.seq = e.seq /\ n.rcv = e.rcv
         \/ v # Nobody /\ n.seq = v.seq /\ n.rcv = age /\ n.seq <= n.pseq
      /\ \/ e # Nobody /\ n.pseq = e.pseq /\ n.per = e.per /\ (v = Nobody \/ v.seq <= e.pseq)
         \/ v # Nobody /\ n.pseq = v.seq /\ n.per = age /\ (e = Nobody \/ v.seq > e.pseq)
  BY <1>1, <1>2, <1>3, <1>4, InstallIs
<1>6. n.seq \in Nat /\ n.pseq \in Nat /\ n.seq \in Seqs /\ n.pseq \in Seqs
      /\ (e # Nobody => e \in EntryType /\ e.seq \in Nat /\ e.pseq \in Nat)
      /\ (v # Nobody => v.seq \in Seqs /\ v.seq \in Nat)
  BY <1>4, <1>5, Timing DEF EntryType, ViewType, Maybe
<1>7. e # Nobody => EntryAge(b, c, i, e)
  BY <1>1 DEF AgeInv, EntryAges
<1>8. v # Nobody => Known(i, v.seq) /\ age <= b[i][v.seq]
  <2>1. rec[c] # Nobody
    BY NobodyIsNone
  <2> QED BY <1>2, <1>3, <2>1 DEF AgeInv, ReadAges, ReadAge
<1>9. n.seq < worker'[i].seq /\ n.rcv <= b[i][n.seq]
  <2>1. n.seq < worker[i].seq /\ n.rcv <= b[i][n.seq]
    <3>1. CASE e # Nobody /\ n.seq = e.seq /\ n.rcv = e.rcv
      BY <1>7, <3>1 DEF EntryAge
    <3>2. CASE v # Nobody /\ n.seq = v.seq /\ n.rcv = age
      BY <1>8, <3>2 DEF Known
    <3> QED BY <1>5, <3>1, <3>2
  <2> QED BY <1>6, <2>1, KnownStays
<1>10. Known(i, n.pseq)'
  <2>1. Known(i, n.pseq)
    <3>1. CASE e # Nobody /\ n.pseq = e.pseq
      BY <1>7, <3>1 DEF EntryAge
    <3>2. CASE v # Nobody /\ n.pseq = v.seq
      BY <1>8, <3>2
    <3> QED BY <1>5, <3>1, <3>2
  <2> QED BY <1>6, <2>1, KnownStays
<1>11. n.pseq < n.seq => Close(b, i, n.seq, n.rcv)
  <2> SUFFICES ASSUME n.pseq < n.seq PROVE Close(b, i, n.seq, n.rcv)
    OBVIOUS
  <2>1. e # Nobody /\ n.seq = e.seq /\ n.rcv = e.rcv
    BY <1>5, <1>6
  <2>2. e.pseq < e.seq
    <3>1. CASE n.pseq = e.pseq
      BY <2>1, <3>1
    <3>2. CASE v # Nobody /\ n.pseq = v.seq /\ v.seq > e.pseq
      BY <1>6, <2>1, <3>2
    <3> QED BY <1>5, <2>1, <3>1, <3>2
  <2> QED BY <1>7, <2>1, <2>2 DEF EntryAge
<1>12. <<c, i>> \notin lent' => Close(b, i, n.pseq, n.per)' /\ Covered(b, i, n.pseq)'
  <2> SUFFICES ASSUME <<c, i>> \notin lent'
               PROVE  Close(b, i, n.pseq, n.per)' /\ Covered(b, i, n.pseq)'
    OBVIOUS
  <2>1. <<c, i>> \notin lent /\ ~(v # Nobody /\ (e = Nobody \/ v.seq > e.pseq))
    BY <1>1, <1>2
  <2>2. e # Nobody /\ n.pseq = e.pseq /\ n.per = e.per
    BY <1>5, <2>1
  <2>3. Close(b, i, n.pseq, n.per) /\ Covered(b, i, n.pseq)
    BY <1>7, <2>1, <2>2 DEF EntryAge
  <2>4. Covered(b, i, n.pseq)'
    BY <1>6, <2>3, KnownStays
  <2> QED BY <2>3, <2>4 DEF Close
<1> QED BY <1>9, <1>10, <1>11, <1>12 DEF EntryAge, Close

\* A report's own admission has its age.
LEMMA AdmitEntryAge ==
  ASSUME TypeInv, TypeInv', NEW b \in Ages, AgeInv(b), Grows(b), NEW c \in Coordinators,
         NEW r \in Holder(c), NEW n, NEW serving \in BOOLEAN, n = admit(r, TRUE, r.age, serving)
  PROVE  EntryAge(b, c, r.i, n)'
<1>1. r \in reqs /\ r \in RequestType /\ r.pc = "refresh" /\ r.i \in Instances /\ r.seq \in Seqs
  BY HolderIs
<1>2. /\ r.seq < worker[r.i].seq /\ r.age = b[r.i][r.seq]
      /\ r.seq <= top[r.i] /\ Covered(b, r.i, r.seq)
  BY <1>1 DEF AgeInv, RequestAge
<1>3. r.seq < worker'[r.i].seq /\ r.seq <= top'[r.i] /\ Covered(b, r.i, r.seq)'
  BY <1>1, <1>2, KnownStays
<1>4. n.seq = r.seq /\ n.pseq = r.seq /\ n.rcv = r.age /\ n.per = r.age
  BY DEF admit
<1>5. r.seq \in Nat /\ r.age \in Nat
  <2>1. r.age \in 0..REQUEST_TIMEOUT
    BY <1>1 DEF RequestType
  <2>2. r.seq \in Nat
    BY <1>1, Timing
  <2> QED BY <2>1, <2>2, Timing
<1>6. n.rcv <= b[r.i][n.seq] /\ ~(n.pseq < n.seq)
      /\ b[r.i][n.pseq] <= n.per + REQUEST_TIMEOUT
  <2>1. PICK k : k = r.seq
    OBVIOUS
  <2>2. PICK a : a = r.age
    OBVIOUS
  <2>3. n.seq = k /\ n.pseq = k /\ n.rcv = a /\ n.per = a /\ a = b[r.i][k] /\ k \in Nat /\ a \in Nat
    BY <1>2, <1>4, <1>5, <2>1, <2>2
  <2>4. ~(k < k) /\ a <= a /\ a <= a + REQUEST_TIMEOUT
    BY <2>3, Timing
  <2> QED BY <2>3, <2>4
<1>7. n.seq < worker'[r.i].seq /\ Known(r.i, n.pseq)' /\ Covered(b, r.i, n.pseq)'
  BY <1>3, <1>4 DEF Known, Covered
<1>8. Close(b, r.i, n.pseq, n.per)'
  BY <1>6 DEF Close
<1> QED BY <1>6, <1>7, <1>8 DEF EntryAge

\* Installing dates what is new by the snapshot, and an admission by its receipt.
LEMMA InstallAges ==
  ASSUME TypeInv, TypeInv', NEW b \in Ages, AgeInv(b), NEW c \in Coordinators, Install(c)
  PROVE  AgeInv(b)'
<1>1. /\ rec[c] \in ReadType
      /\ \A d \in Coordinators, i \in Instances : d # c => entry'[d][i] = entry[d][i]
      /\ \A i \in Instances :
              \/ \E r \in Holder(c) :
                   /\ r.i = i /\ <<c, i>> \notin lent'
                   /\ entry'[c][i] = admit(r, TRUE, r.age, retained(rec[c].snap) = i)
              \/ /\ entry'[c][i] = install(entry[c][i], i, rec[c].snap, rec[c].age)
                 /\ <<c, i>> \notin lent' =>
                      /\ <<c, i>> \notin lent
                      /\ ~(rec[c].snap[i] # Nobody /\
                           (entry[c][i] = Nobody \/ rec[c].snap[i].seq > entry[c][i].pseq))
      /\ \A d \in Coordinators, i \in Instances :
              d # c => (<<d, i>> \in lent' <=> <<d, i>> \in lent)
      /\ rec' = [rec EXCEPT ![c] = Nobody]
      /\ \/ UNCHANGED clients
         \/ \E r \in Holder(c) :
                 Answer(r, IF retained(rec[c].snap) = r.i THEN "serve" ELSE "decline")
      /\ UNCHANGED <<moves, store, flush, heard, sole, top>>
  BY InstallView
<1>2. reqs' \subseteq reqs /\ \A i \in Instances : worker'[i].seq = worker[i].seq
  <2>1. CASE UNCHANGED clients
    BY <2>1 DEF clients
  <2>2. CASE \E r \in Holder(c) :
                 Answer(r, IF retained(rec[c].snap) = r.i THEN "serve" ELSE "decline")
    <3>1. PICK r \in Holder(c) :
                 Answer(r, IF retained(rec[c].snap) = r.i THEN "serve" ELSE "decline")
      BY <2>2
    <3>2. PICK reply : Answer(r, reply)
      BY <3>1
    <3>3. r.i \in Instances
      BY HolderIs
    <3> QED BY <3>2, <3>3, AckedIs DEF Answer
  <2> QED BY <1>1, <2>1, <2>2
<1>3. Grows(b) /\ HeardOf(b)'
  BY <1>1, <1>2, QuietGrows
<1>4. ASSUME NEW i \in Instances PROVE EntryAges(b, c, i)'
  <2>1. PICK n : n = entry'[c][i]
    OBVIOUS
  <2>2. CASE \E r \in Holder(c) :
                   /\ r.i = i /\ <<c, i>> \notin lent'
                   /\ entry'[c][i] = admit(r, TRUE, r.age, retained(rec[c].snap) = i)
    <3>1. PICK r \in Holder(c) : /\ r.i = i
                   /\ entry'[c][i] = admit(r, TRUE, r.age, retained(rec[c].snap) = i)
      BY <2>2
    <3>2. PICK v \in BOOLEAN : n = admit(r, TRUE, r.age, v)
      BY <2>1, <3>1
    <3>3. EntryAge(b, c, r.i, n)'
      BY <1>3, <3>2, AdmitEntryAge
    <3> QED BY <2>1, <3>1, <3>3 DEF EntryAges, EntryAge, Close, Covered, Known
  <2>3. CASE /\ entry'[c][i] = install(entry[c][i], i, rec[c].snap, rec[c].age)
             /\ <<c, i>> \notin lent' =>
                      /\ <<c, i>> \notin lent
                      /\ ~(rec[c].snap[i] # Nobody /\
                           (entry[c][i] = Nobody \/ rec[c].snap[i].seq > entry[c][i].pseq))
    <3>1. CASE n = Nobody
      BY <2>1, <3>1 DEF EntryAges
    <3>2. CASE n # Nobody
      <4>1. n = install(entry[c][i], i, rec[c].snap, rec[c].age)
        BY <2>1, <2>3
      <4>2. EntryAge(b, c, i, n)'
        BY <1>1, <1>3, <2>3, <3>2, <4>1, InstallEntryAge
      <4> QED BY <2>1, <4>2 DEF EntryAges, EntryAge, Close, Covered, Known
    <3> QED BY <3>1, <3>2
  <2> QED BY <1>1, <2>2, <2>3
<1>5. \A d \in Coordinators : rec'[d] = rec[d] \/ rec'[d] = Nobody
  BY <1>1 DEF TypeInv, TypeOK
<1>6. ASSUME NEW d \in Coordinators, NEW i \in Instances
      PROVE  /\ \/ entry'[d][i] = entry[d][i] /\ (<<d, i>> \in lent => <<d, i>> \in lent')
                \/ EntryAges(b, d, i)'
             /\ flush'[d][i] = flush[d][i] \/ FlushAges(b, d, i)'
             /\ rec'[d] = rec[d] \/ ReadAges(b, d, i)'
  BY <1>1, <1>4, <1>5 DEF ReadAges
<1>7. /\ \A i \in Instances : store'[i] = store[i] \/ StoreAge(b, i)'
      /\ \A r \in reqs' : r \in reqs \/ RequestAge(b, r)'
  BY <1>1, <1>2
<1> QED BY <1>3, <1>6, <1>7, AgesKept

\* A publication starts with what the buffered receipt leaves of a TTL.
LEMMA StartFlushAges ==
  ASSUME TypeInv, TypeInv', NEW b \in Ages, AgeInv(b), NEW c \in Coordinators, StartFlush(c)
  PROVE  AgeInv(b)'
<1>1. /\ \A d \in Coordinators, i \in Instances :
              d # c => entry'[d][i] = entry[d][i] /\ flush'[d][i] = flush[d][i]
      /\ \A i \in Instances : entry'[c][i] = entry[c][i] \/ entry'[c][i] = Nobody
      /\ \A i \in Instances : flush'[c][i] # Nobody =>
              LET e == entry[c][i]
                  f == flush'[c][i]
              IN  /\ e \in EntryType /\ f \in FlushType /\ e.seq > e.pseq /\ e.rcv < TTL
                  /\ f.seq = e.seq /\ f.rcv = e.rcv /\ f.left = TTL - e.rcv /\ f.age = 0
                  /\ f.pc = "write"
      /\ UNCHANGED <<moves, worker, reqs, store, disc, lock, rec, heard, sole, top, lent>>
  BY StartFlushView
<1>2. Grows(b) /\ HeardOf(b)'
  BY <1>1, QuietGrows
<1>3. ASSUME NEW i \in Instances, flush'[c][i] # Nobody PROVE FlushAges(b, c, i)'
  <2>1. PICK e : e = entry[c][i]
    OBVIOUS
  <2>2. PICK f : f = flush'[c][i]
    OBVIOUS
  <2>3. /\ e \in EntryType /\ f \in FlushType /\ e.seq > e.pseq /\ e.rcv < TTL
        /\ f.seq = e.seq /\ f.rcv = e.rcv /\ f.left = TTL - e.rcv /\ f.age = 0
        /\ f.pc = "write"
    BY <1>1, <1>3, <2>1, <2>2
  <2>4. e.seq \in Seqs /\ e.seq \in Nat /\ e.pseq \in Nat /\ e.rcv \in Nat
    <3>1. e \in EntryType
      BY <2>3
    <3>2. e.seq \in Seqs /\ e.pseq \in Seqs /\ e.rcv \in 0..TTL
      BY <3>1 DEF EntryType
    <3>3. Seqs \subseteq Nat
      BY Timing
    <3>4. e.rcv \in Nat
      BY <3>2
    <3> QED BY <3>2, <3>3, <3>4
  <2>5. EntryAge(b, c, i, e)
    BY <2>1, <2>3, NobodyIsNone DEF AgeInv, EntryAges
  <2>6. e.seq < worker[i].seq /\ e.rcv <= b[i][e.seq] /\ Close(b, i, e.seq, e.rcv)
    BY <2>3, <2>4, <2>5 DEF EntryAge
  <2>7. b[i][e.seq] <= e.rcv + REQUEST_TIMEOUT /\ b[i][e.seq] \in Nat
    <3>1. b[i][e.seq] \in Nat
      BY <2>4 DEF Ages
    <3>2. e.rcv # TTL
      BY <2>3, <2>4, Timing
    <3> QED BY <2>6, <3>1, <3>2 DEF Close
  <2>8. /\ TTL <= f.left + b[i][f.seq]
        /\ f.left + b[i][f.seq] <= TTL + REQUEST_TIMEOUT + f.age
    <3>1. PICK k : k = b[i][e.seq]
      OBVIOUS
    <3>2. TTL <= (TTL - e.rcv) + k /\ (TTL - e.rcv) + k <= TTL + REQUEST_TIMEOUT + 0
      BY <2>4, <2>6, <2>7, <3>1, Timing
    <3> QED BY <2>3, <3>1, <3>2
  <2>9. f.seq < worker'[i].seq /\ Close(b, i, f.seq, f.rcv)'
    BY <1>1, <2>3, <2>6 DEF Close
  <2>10. FlushAge(b, i, f)'
    BY <2>3, <2>8, <2>9 DEF FlushAge
  <2> QED BY <2>2, <2>10 DEF FlushAges, FlushAge, Close, Covered
<1>4. ASSUME NEW d \in Coordinators, NEW i \in Instances
      PROVE  /\ \/ entry'[d][i] = entry[d][i] /\ (<<d, i>> \in lent => <<d, i>> \in lent')
                \/ EntryAges(b, d, i)'
             /\ flush'[d][i] = flush[d][i] \/ FlushAges(b, d, i)'
             /\ rec'[d] = rec[d] \/ ReadAges(b, d, i)'
  <2>1. entry'[d][i] = Nobody => EntryAges(b, d, i)'
    BY DEF EntryAges
  <2>2. flush'[d][i] = Nobody => FlushAges(b, d, i)'
    BY DEF FlushAges
  <2> QED BY <1>1, <1>3, <2>1, <2>2
<1>5. /\ \A i \in Instances : store'[i] = store[i] \/ StoreAge(b, i)'
      /\ \A r \in reqs' : r \in reqs \/ RequestAge(b, r)'
  BY <1>1
<1> QED BY <1>2, <1>4, <1>5, AgesKept

\* A publication covers its report in the store.
LEMMA FlushWriteAges ==
  ASSUME TypeInv, TypeInv', NEW b \in Ages, AgeInv(b), NEW c \in Coordinators, NEW i \in Instances,
         FlushWrite(c, i)
  PROVE  AgeInv(b)'
<1>1. PICK f : f = flush[c][i]
  OBVIOUS
<1>2. /\ f \in FlushType /\ f.pc = "write" /\ upsert_instance(i, f.seq, f.ready, f.left)
      /\ \A d \in Coordinators, j \in Instances : d # c \/ j # i => flush'[d][j] = flush[d][j]
      /\ flush'[c][i] \in FlushType /\ flush'[c][i].seq = f.seq /\ flush'[c][i].rcv = f.rcv
      /\ flush'[c][i].left = f.left /\ flush'[c][i].age = f.age
      /\ UNCHANGED <<moves, worker, reqs, entry, disc, lock, rec, heard, lent>>
  BY <1>1, FlushWriteView
<1>3. f.seq \in Seqs /\ f.ready \in BOOLEAN /\ f.left \in 1..TTL /\ f.age \in 0..REQUEST_TIMEOUT
  BY <1>2 DEF FlushType
<1>4. FlushAge(b, i, f)
  BY <1>1, <1>2, NobodyIsNone DEF AgeInv, FlushAges
<1>5. f.seq < worker[i].seq /\ TTL <= f.left + b[i][f.seq]
      /\ f.left + b[i][f.seq] <= TTL + 2 * REQUEST_TIMEOUT
  <2>1. f.seq < worker[i].seq /\ TTL <= f.left + b[i][f.seq]
        /\ f.left + b[i][f.seq] <= TTL + REQUEST_TIMEOUT + f.age
    BY <1>4 DEF FlushAge
  <2>2. b[i][f.seq] \in Nat
    BY <1>3 DEF Ages
  <2> QED BY <1>3, <2>1, <2>2, Timing
<1>6. /\ Grows(b) /\ HeardOf(b)'
      /\ \A j \in Instances : store'[j] = store[j] \/ StoreAge(b, j)'
      /\ f.seq <= top'[i] /\ Covered(b, i, f.seq)'
  BY <1>2, <1>3, <1>5, UpsertAges
<1>7. FlushAges(b, c, i)'
  <2>1. FlushAge(b, i, f)'
    BY <1>2, <1>4, <1>6, AgeStays
  <2> QED BY <1>2, <1>6, <2>1 DEF FlushAges, FlushAge, Close, Covered
<1>8. ASSUME NEW d \in Coordinators, NEW j \in Instances
      PROVE  /\ \/ entry'[d][j] = entry[d][j] /\ (<<d, j>> \in lent => <<d, j>> \in lent')
                \/ EntryAges(b, d, j)'
             /\ flush'[d][j] = flush[d][j] \/ FlushAges(b, d, j)'
             /\ rec'[d] = rec[d] \/ ReadAges(b, d, j)'
  BY <1>2, <1>7
<1>9. \A r \in reqs' : r \in reqs \/ RequestAge(b, r)'
  BY <1>2
<1> QED BY <1>6, <1>8, <1>9, AgesKept

\* A completed publication is dated by the receipt it wrote.
LEMMA FlushDoneAges ==
  ASSUME TypeInv, TypeInv', NEW b \in Ages, AgeInv(b), NEW c \in Coordinators, NEW i \in Instances,
         FlushDone(c, i)
  PROVE  AgeInv(b)'
<1>1. PICK f : f = flush[c][i]
  OBVIOUS
<1>2. PICK e : e = entry[c][i]
  OBVIOUS
<1>3. /\ f \in FlushType /\ f.pc # "write"
      /\ \A d \in Coordinators, j \in Instances : d # c \/ j # i => entry'[d][j] = entry[d][j]
      /\ entry'[c][i] # Nobody =>
                  e \in EntryType /\ (entry'[c][i] = e \/ entry'[c][i] = persisted(e, f))
      /\ lent' = lent \/ (lent' = lent \ {<<c, i>>} /\ entry'[c][i] = persisted(e, f)
                                 /\ persisted(e, f) # e)
      /\ \A d \in Coordinators, j \in Instances :
                  flush'[d][j] = flush[d][j] \/ flush'[d][j] = Nobody
      /\ UNCHANGED <<moves, worker, reqs, store, disc, lock, rec, heard, sole, top>>
  BY <1>1, <1>2, FlushDoneView
<1>4. Grows(b) /\ HeardOf(b)'
  BY <1>3, QuietGrows
<1>5. FlushAge(b, i, f)
  BY <1>1, <1>3, NobodyIsNone DEF AgeInv, FlushAges
<1>6. FlushAge(b, i, f)'
  BY <1>3, <1>4, <1>5, AgeStays
<1>7. EntryAges(b, c, i)'
  <2> SUFFICES ASSUME entry'[c][i] # Nobody PROVE EntryAges(b, c, i)'
    BY DEF EntryAges
  <2>1. e \in EntryType /\ EntryAge(b, c, i, e)
    BY <1>2, <1>3, NobodyIsNone DEF AgeInv, EntryAges
  <2>2. CASE entry'[c][i] = e /\ lent' = lent
    <3>1. EntryAge(b, c, i, e)'
      BY <1>4, <2>1, <2>2, AgeStays
    <3> QED BY <2>2, <3>1 DEF EntryAges, EntryAge, Close, Covered, Known
  <2>3. CASE entry'[c][i] = persisted(e, f) /\ persisted(e, f) # e
    <3>1. PICK n : n = persisted(e, f)
      OBVIOUS
    <3>2. /\ n.seq = e.seq /\ n.rcv = e.rcv
          /\ n.pseq = f.seq /\ n.per = f.rcv /\ e.pseq <= f.seq
      BY <1>3, <2>1, <2>3, <3>1, PersistedIs
    <3>3. e.pseq \in Nat /\ e.seq \in Nat /\ f.seq \in Nat /\ f.seq \in Seqs
      BY <1>3, <2>1, Timing DEF EntryType, FlushType
    <3>4. /\ f.seq < worker'[i].seq /\ Close(b, i, f.seq, f.rcv)'
          /\ f.seq <= top'[i] /\ Covered(b, i, f.seq)'
      BY <1>3, <1>6 DEF FlushAge
    <3>5. Known(i, n.pseq)' /\ Close(b, i, n.pseq, n.per)' /\ Covered(b, i, n.pseq)'
      BY <3>2, <3>4 DEF Known, Close, Covered
    <3>6. e.seq < worker'[i].seq /\ e.rcv <= b[i][e.seq]
          /\ (e.pseq < e.seq => Close(b, i, e.seq, e.rcv))
      BY <1>3, <2>1 DEF EntryAge
    <3>7. n.seq < worker'[i].seq /\ n.rcv <= b[i][n.seq]
          /\ (n.pseq < n.seq => Close(b, i, n.seq, n.rcv)')
      BY <3>2, <3>3, <3>6 DEF Close
    <3>8. EntryAge(b, c, i, n)'
      BY <3>5, <3>7 DEF EntryAge
    <3> QED BY <2>3, <3>1, <3>8 DEF EntryAges, EntryAge, Close, Covered, Known
  <2> QED BY <1>3, <2>2, <2>3
<1>8. ASSUME NEW d \in Coordinators, NEW j \in Instances
      PROVE  /\ \/ entry'[d][j] = entry[d][j] /\ (<<d, j>> \in lent => <<d, j>> \in lent')
                \/ EntryAges(b, d, j)'
             /\ flush'[d][j] = flush[d][j] \/ FlushAges(b, d, j)'
             /\ rec'[d] = rec[d] \/ ReadAges(b, d, j)'
  <2>1. flush'[d][j] = Nobody => FlushAges(b, d, j)'
    BY DEF FlushAges
  <2>2. d # c \/ j # i => (<<d, j>> \in lent => <<d, j>> \in lent')
    BY <1>3
  <2> QED BY <1>3, <1>7, <2>1, <2>2
<1>9. /\ \A j \in Instances : store'[j] = store[j] \/ StoreAge(b, j)'
      /\ \A r \in reqs' : r \in reqs \/ RequestAge(b, r)'
  BY <1>3
<1> QED BY <1>4, <1>8, <1>9, AgesKept

\* A tick later every report is a tick older.
Aged(b) == [i \in Instances |-> [s \in Seqs |-> IF s < worker[i].seq THEN b[i][s] + 1 ELSE 0]]

\* A date that a tick moves up to its cap stays as close.
LEMMA CloseLater ==
  ASSUME NEW x \in Nat, NEW a \in Nat, x <= a + REQUEST_TIMEOUT \/ a = TTL, a <= TTL
  PROVE  x + 1 <= Least(a + 1, TTL) + REQUEST_TIMEOUT \/ Least(a + 1, TTL) = TTL
BY Timing DEF Least

\* Every date keeps its distance from the true age when both grow.
LEMMA TickAges ==
  ASSUME TypeInv, TypeInv', NEW b \in Ages, AgeInv(b), Tick
  PROVE  \E a \in Ages : AgeInv(a)'
<1>1. PICK a : a = Aged(b)
  OBVIOUS
<1>2. /\ \A i \in Instances : worker[i].seq \in Nat /\ worker'[i].seq = worker[i].seq
      /\ \A i \in Instances : heard'[i] = Least(heard[i] + 1, LongSilent) /\ heard[i] \in Nat
      /\ top' = top /\ lent' = lent
  <2>1. /\ \A i \in Instances : worker'[i].seq = worker[i].seq
        /\ \A i \in Instances : heard'[i] = Least(heard[i] + 1, LongSilent)
        /\ top' = top /\ lent' = lent
    BY TickWorkers
  <2>2. ASSUME NEW i \in Instances PROVE worker[i].seq \in Nat
    <3>1. worker[i].seq \in Seqs
      BY DEF TypeInv, TypeOK, WorkerType
    <3> QED BY <3>1, Timing
  <2>3. ASSUME NEW i \in Instances PROVE heard[i] \in Nat
    <3>1. heard[i] \in 0..LongSilent
      BY DEF TypeInv, TypeOK
    <3> QED BY <3>1
  <2> QED BY <2>1, <2>2, <2>3
<1>3. \A i \in Instances, s \in Seqs : b[i][s] \in Nat /\ s \in Nat
  BY Timing DEF Ages
<1>4. \A i \in Instances, s \in Seqs : a[i][s] = IF s < worker[i].seq THEN b[i][s] + 1 ELSE 0
  BY <1>1 DEF Aged
<1>5. a \in Ages
  BY <1>1, <1>3 DEF Aged, Ages
<1>6. \A i \in Instances, s \in Seqs : s < worker[i].seq => a[i][s] = b[i][s] + 1
  BY <1>4
<1>7. Ordered(a)'
  <2>1. ASSUME NEW i \in Instances, NEW s \in Seqs, NEW t \in Seqs, s <= t PROVE a[i][t] <= a[i][s]
    <3>1. b[i][t] <= b[i][s]
      BY <2>1 DEF AgeInv, Ordered
    <3>2. /\ a[i][t] = IF t < worker[i].seq THEN b[i][t] + 1 ELSE 0
          /\ a[i][s] = IF s < worker[i].seq THEN b[i][s] + 1 ELSE 0
      BY <1>4
    <3> QED BY <1>2, <1>3, <2>1, <3>1, <3>2
  <2> QED BY <2>1 DEF Ordered
<1>8. Unsent(a)'
  <2>1. ASSUME NEW i \in Instances, NEW s \in Seqs, worker'[i].seq <= s PROVE a[i][s] = 0
    BY <1>2, <1>3, <1>4, <2>1
  <2> QED BY <2>1 DEF Unsent
<1>9. HeardOf(a)'
  <2>1. ASSUME NEW i \in Instances, NEW s \in Seqs, s < worker'[i].seq PROVE heard'[i] <= a[i][s]
    <3>1. heard[i] <= b[i][s] /\ a[i][s] = b[i][s] + 1
      BY <1>2, <1>6, <2>1 DEF AgeInv, HeardOf
    <3>2. heard'[i] <= heard[i] + 1 /\ heard'[i] \in Nat
      <4>1. LongSilent \in Nat
        BY Timing DEF LongSilent
      <4> QED BY <1>2, <4>1 DEF Least
    <3> QED BY <1>2, <1>3, <3>1, <3>2
  <2> QED BY <2>1 DEF HeardOf
<1>10. /\ \A i \in Instances : store'[i] # Nobody =>
              /\ store[i] \in RecordType /\ store'[i] \in RecordType
              /\ store'[i].seq = store[i].seq /\ store'[i].left = store[i].left - 1
       /\ \A i \in Instances : store[i] # Nobody /\ store'[i] = Nobody => store[i].left = 1
  BY TickStore
<1>11. ASSUME NEW i \in Instances PROVE StoreAge(a, i)'
  <2> SUFFICES ASSUME store'[i] # Nobody PROVE StoreAge(a, i)'
    BY DEF StoreAge
  <2>1. store[i] \in RecordType /\ store'[i].seq = store[i].seq /\ store'[i].left = store[i].left - 1
    BY <1>10
  <2>2. PICK s : s = store[i].seq
    OBVIOUS
  <2>3. PICK l : l = store[i].left
    OBVIOUS
  <2>4. s \in Seqs /\ l \in Nat
    BY <2>1, <2>2, <2>3, Timing DEF RecordType
  <2>5. /\ s < worker[i].seq /\ s <= top[i] /\ TTL <= l + b[i][s]
        /\ l + b[i][s] <= TTL + 2 * REQUEST_TIMEOUT
    BY <2>1, <2>2, <2>3, NobodyIsNone DEF AgeInv, StoreAge, Known
  <2>6. (l - 1) + a[i][s] = l + b[i][s]
    BY <1>3, <1>6, <2>4, <2>5
  <2>7. store'[i].seq = s /\ store'[i].left = l - 1 /\ s < worker'[i].seq /\ s <= top'[i]
    BY <1>2, <2>1, <2>2, <2>3, <2>5
  <2>8. TTL <= (l - 1) + a[i][s] /\ (l - 1) + a[i][s] <= TTL + 2 * REQUEST_TIMEOUT
    BY <2>5, <2>6
  <2> QED BY <2>7, <2>8 DEF StoreAge, Known
<1>12. ASSUME NEW i \in Instances, NEW s \in Seqs, s < worker[i].seq, Covered(b, i, s)
       PROVE  Covered(a, i, s)'
  <2>1. a[i][s] = b[i][s] + 1 /\ b[i][s] \in Nat /\ s \in Nat
    BY <1>3, <1>6, <1>12
  <2> SUFFICES ASSUME a[i][s] < TTL PROVE store'[i] # Nobody /\ store'[i].seq >= s
    BY DEF Covered
  <2>2. b[i][s] < TTL - 1
    BY <2>1, Timing
  <2>3. store[i] # Nobody /\ store[i].seq >= s
    BY <1>12, <2>1, <2>2, Timing DEF Covered
  <2>4. PICK t : t = store[i].seq
    OBVIOUS
  <2>5. t \in Seqs /\ t \in Nat /\ store[i].left \in Nat
    <3>1. store[i] \in RecordType
      BY <2>3 DEF TypeInv, TypeOK, Maybe
    <3>2. t \in Seqs /\ store[i].left \in 1..TTL
      BY <2>4, <3>1 DEF RecordType
    <3>3. Seqs \subseteq Nat
      BY Timing
    <3> QED BY <3>2, <3>3
  <2>6. TTL <= store[i].left + b[i][t]
    BY <2>3, <2>4 DEF AgeInv, StoreAge
  <2>7. b[i][t] <= b[i][s] /\ b[i][t] \in Nat
    BY <1>3, <2>1, <2>3, <2>4, <2>5 DEF AgeInv, Ordered
  <2>8. store[i].left # 1
    BY <2>1, <2>2, <2>5, <2>6, <2>7, Timing
  <2> QED BY <1>10, <2>3, <2>8
<1>13. ASSUME NEW q \in reqs' PROVE RequestAge(a, q)'
  <2>1. PICK r \in reqs : /\ r \in RequestType /\ q.c = r.c /\ q.i = r.i /\ q.seq = r.seq
                          /\ q.pc = r.pc /\ q.age = r.age + 1
    BY TickReqs
  <2>2. r.i \in Instances /\ r.seq \in Seqs
    BY <2>1 DEF RequestType
  <2>3. /\ r.seq < worker[r.i].seq /\ r.age = b[r.i][r.seq]
        /\ r.pc = "refresh" => r.seq <= top[r.i] /\ Covered(b, r.i, r.seq)
    BY DEF AgeInv, RequestAge
  <2>4. a[r.i][r.seq] = r.age + 1
    BY <1>6, <2>2, <2>3
  <2>5. r.pc = "refresh" => Covered(a, r.i, r.seq)'
    BY <1>12, <2>2, <2>3
  <2>6. q.seq < worker'[q.i].seq /\ q.age = a[q.i][q.seq]
        /\ (q.pc = "refresh" => q.seq <= top'[q.i])
    BY <1>2, <2>1, <2>2, <2>3, <2>4
  <2>7. q.pc = "refresh" => Covered(a, q.i, q.seq)'
    BY <2>1, <2>5 DEF Covered
  <2> QED BY <2>6, <2>7 DEF RequestAge
<1>14. ASSUME NEW c \in Coordinators, NEW i \in Instances PROVE EntryAges(a, c, i)'
  <2> SUFFICES ASSUME entry'[c][i] # Nobody PROVE EntryAges(a, c, i)'
    BY DEF EntryAges
  <2>1. PICK e : e = entry[c][i]
    OBVIOUS
  <2>2. PICK n : n = entry'[c][i]
    OBVIOUS
  <2>3. /\ e \in EntryType /\ n.seq = e.seq /\ n.pseq = e.pseq
        /\ n.rcv = Least(e.rcv + 1, TTL) /\ n.per = Least(e.per + 1, TTL)
    BY <2>1, <2>2, TickEntries
  <2>4. /\ e.seq \in Seqs /\ e.pseq \in Seqs /\ e.rcv \in 0..TTL /\ e.per \in 0..TTL
    BY <2>3 DEF EntryType
  <2>5. EntryAge(b, c, i, e)
    BY <2>1, <2>3, NobodyIsNone DEF AgeInv, EntryAges
  <2>6. e.seq < worker[i].seq /\ e.pseq < worker[i].seq /\ e.pseq <= top[i]
    BY <2>5 DEF EntryAge, Known
  <2>7. a[i][e.seq] = b[i][e.seq] + 1 /\ a[i][e.pseq] = b[i][e.pseq] + 1
    BY <1>6, <2>4, <2>6
  <2>8. n.rcv <= a[i][n.seq]
    <3>1. e.rcv <= b[i][e.seq]
      BY <2>5 DEF EntryAge
    <3>2. Least(e.rcv + 1, TTL) <= e.rcv + 1 /\ Least(e.rcv + 1, TTL) \in Nat
      BY <2>4, Timing DEF Least
    <3> QED BY <1>3, <2>3, <2>4, <2>7, <3>1, <3>2
  <2>9. n.pseq < n.seq => Close(a, i, n.seq, n.rcv)'
    <3> SUFFICES ASSUME n.pseq < n.seq PROVE Close(a, i, n.seq, n.rcv)'
      OBVIOUS
    <3>1. b[i][e.seq] <= e.rcv + REQUEST_TIMEOUT \/ e.rcv = TTL
      BY <2>3, <2>5 DEF EntryAge, Close
    <3>2. \/ b[i][e.seq] + 1 <= Least(e.rcv + 1, TTL) + REQUEST_TIMEOUT
          \/ Least(e.rcv + 1, TTL) = TTL
      BY <1>3, <2>4, <3>1, CloseLater
    <3> QED BY <2>3, <2>7, <3>2 DEF Close
  <2>10. <<c, i>> \notin lent' => Close(a, i, n.pseq, n.per)' /\ Covered(a, i, n.pseq)'
    <3> SUFFICES ASSUME <<c, i>> \notin lent
                 PROVE  Close(a, i, n.pseq, n.per)' /\ Covered(a, i, n.pseq)'
      BY <1>2
    <3>1. b[i][e.pseq] <= e.per + REQUEST_TIMEOUT \/ e.per = TTL
      BY <2>5 DEF EntryAge, Close
    <3>2. \/ b[i][e.pseq] + 1 <= Least(e.per + 1, TTL) + REQUEST_TIMEOUT
          \/ Least(e.per + 1, TTL) = TTL
      BY <1>3, <2>4, <3>1, CloseLater
    <3>3. Covered(b, i, e.pseq)
      BY <2>5 DEF EntryAge
    <3>4. Covered(a, i, e.pseq)'
      BY <1>12, <2>4, <2>6, <3>3
    <3> QED BY <2>3, <2>7, <3>2, <3>4 DEF Close, Covered
  <2>11. n.seq < worker'[i].seq /\ n.pseq < worker'[i].seq /\ n.pseq <= top'[i]
    BY <1>2, <2>3, <2>6
  <2>12. EntryAge(a, c, i, n)'
    BY <2>8, <2>9, <2>10, <2>11 DEF EntryAge, Known
  <2> QED BY <2>2, <2>12 DEF EntryAges, EntryAge, Close, Covered, Known
<1>15. ASSUME NEW c \in Coordinators, NEW i \in Instances PROVE FlushAges(a, c, i)'
  <2> SUFFICES ASSUME flush'[c][i] # Nobody PROVE FlushAges(a, c, i)'
    BY DEF FlushAges
  <2>1. PICK f : f = flush[c][i]
    OBVIOUS
  <2>2. PICK n : n = flush'[c][i]
    OBVIOUS
  <2>3. /\ f \in FlushType /\ n.seq = f.seq /\ n.left = f.left /\ n.pc = f.pc
        /\ n.rcv = Least(f.rcv + 1, TTL) /\ n.age = f.age + 1
    BY <2>1, <2>2, TickFlushes
  <2>4. /\ f.seq \in Seqs /\ f.rcv \in 0..TTL /\ f.left \in 1..TTL /\ f.age \in 0..REQUEST_TIMEOUT
    BY <2>3 DEF FlushType
  <2>5. FlushAge(b, i, f)
    BY <2>1, <2>3, NobodyIsNone DEF AgeInv, FlushAges
  <2>6. /\ f.seq < worker[i].seq /\ TTL <= f.left + b[i][f.seq]
        /\ f.left + b[i][f.seq] <= TTL + REQUEST_TIMEOUT + f.age
        /\ b[i][f.seq] <= f.rcv + REQUEST_TIMEOUT \/ f.rcv = TTL
        /\ f.pc # "write" => f.seq <= top[i] /\ Covered(b, i, f.seq)
    BY <2>5 DEF FlushAge, Close
  <2>7. PICK k : k = b[i][f.seq]
    OBVIOUS
  <2>8. k \in Nat /\ a[i][f.seq] = k + 1
    BY <1>3, <1>6, <2>4, <2>6, <2>7
  <2>9. /\ TTL <= f.left + (k + 1)
        /\ f.left + (k + 1) <= TTL + REQUEST_TIMEOUT + (f.age + 1)
    BY <2>4, <2>6, <2>7, <2>8, Timing
  <2>10. \/ k + 1 <= Least(f.rcv + 1, TTL) + REQUEST_TIMEOUT
         \/ Least(f.rcv + 1, TTL) = TTL
    BY <2>4, <2>6, <2>7, <2>8, CloseLater
  <2>11. f.pc # "write" => Covered(a, i, f.seq)'
    BY <1>12, <2>4, <2>6
  <2>12. /\ n.seq < worker'[i].seq /\ Close(a, i, n.seq, n.rcv)'
         /\ TTL <= n.left + a[i][n.seq]
         /\ n.left + a[i][n.seq] <= TTL + REQUEST_TIMEOUT + n.age
         /\ n.pc # "write" => n.seq <= top'[i]
    BY <1>2, <2>3, <2>6, <2>8, <2>9, <2>10 DEF Close
  <2>13. n.pc # "write" => Covered(a, i, n.seq)'
    BY <2>3, <2>11 DEF Covered
  <2>14. FlushAge(a, i, n)'
    BY <2>12, <2>13 DEF FlushAge
  <2> QED BY <2>2, <2>14 DEF FlushAges, FlushAge, Close, Covered
<1>16. ASSUME NEW c \in Coordinators, NEW i \in Instances PROVE ReadAges(a, c, i)'
  <2> SUFFICES ASSUME rec'[c] # Nobody PROVE ReadAges(a, c, i)'
    BY DEF ReadAges
  <2>1. rec[c] \in ReadType /\ rec'[c].snap = rec[c].snap /\ rec'[c].age = rec[c].age + 1
    BY TickReads
  <2>2. PICK v : v = rec[c].snap[i]
    OBVIOUS
  <2>3. PICK age : age = rec[c].age
    OBVIOUS
  <2>4. v \in Maybe(ViewType) /\ age \in Nat
    BY <2>1, <2>2, <2>3, Timing DEF ReadType
  <2>5. rec'[c].snap[i] = v /\ rec'[c].age = age + 1
    BY <2>1, <2>2, <2>3
  <2>6. ASSUME v # Nobody PROVE Known(i, v.seq)' /\ age + 1 <= a[i][v.seq]
    <3>1. v.seq \in Seqs
      BY <2>4, <2>6 DEF Maybe, ViewType
    <3>2. Known(i, v.seq) /\ age <= b[i][v.seq]
      BY <2>1, <2>2, <2>3, <2>6, NobodyIsNone DEF AgeInv, ReadAges, ReadAge
    <3>3. v.seq < worker[i].seq
      BY <3>2 DEF Known
    <3>4. a[i][v.seq] = b[i][v.seq] + 1 /\ b[i][v.seq] \in Nat
      BY <1>3, <1>6, <3>1, <3>3
    <3>5. Known(i, v.seq)'
      BY <1>2, <3>2 DEF Known
    <3> QED BY <2>4, <3>2, <3>4, <3>5
  <2> QED BY <2>5, <2>6 DEF ReadAges, ReadAge, Known
<1>17. AgeInv(a)'
  BY <1>7, <1>8, <1>9, <1>11, <1>13, <1>14, <1>15, <1>16 DEF AgeInv
<1> QED BY <1>5, <1>17

\* Every step has true ages that fit what it leaves.
LEMMA AgeStep ==
  ASSUME TypeInv, TypeInv', NEW b \in Ages, AgeInv(b), Next
  PROVE  \E a \in Ages : AgeInv(a)'
<1>1. ASSUME NEW i \in Instances, NEW c \in Coordinators, NEW ready \in BOOLEAN,
             NEW read \in BOOLEAN, Beat(i, c, ready, read)
      PROVE  AgeInv(b)'
  BY <1>1, BeatAges
<1>2. ASSUME NEW i \in Instances, ControlFails(i) PROVE AgeInv(b)'
  BY <1>2, ControlFailsAges
<1>3. ASSUME NEW r \in reqs, Publish(r) \/ Abandon(r) PROVE AgeInv(b)'
  BY <1>3, PublishAges, AbandonAges
<1>4. ASSUME NEW c \in Coordinators, Read(c) \/ Install(c) \/ ReadFails(c) PROVE AgeInv(b)'
  BY <1>4, ReadAgesKept, InstallAges, ReadFailsAges
<1>5. ASSUME NEW c \in Coordinators, StartFlush(c) \/ FlushFails(c) \/ Restart(c)
      PROVE  AgeInv(b)'
  BY <1>5, StartFlushAges, FlushFailsAges, RestartAges
<1>6. ASSUME NEW c \in Coordinators, NEW i \in Instances, FlushWrite(c, i) \/ FlushDone(c, i)
      PROVE  AgeInv(b)'
  BY <1>6, FlushWriteAges, FlushDoneAges
<1>7. Tick \/ AgeInv(b)'
  BY <1>1, <1>2, <1>3, <1>4, <1>5, <1>6 DEF Next
<1> QED BY <1>7, TickAges

\* A state that no step changes keeps its ages.
LEMMA AgeStutter ==
  ASSUME TypeInv, TypeInv', NEW b \in Ages, AgeInv(b), UNCHANGED vars
  PROVE  AgeInv(b)'
BY QuietAges DEF vars

\* At the start nothing was received.
LEMMA AgeInit ==
  ASSUME Init
  PROVE  \E b \in Ages : AgeInv(b)
<1>1. PICK b : b = [i \in Instances |-> [s \in Seqs |-> 0]]
  OBVIOUS
<1>2. b \in Ages /\ \A i \in Instances, s \in Seqs : b[i][s] = 0
  BY <1>1 DEF Ages
<1>3. /\ reqs = {}
      /\ \A i \in Instances : store[i] = Nobody /\ worker[i].seq = 0
      /\ \A c \in Coordinators, i \in Instances :
            entry[c][i] = Nobody /\ flush[c][i] = Nobody /\ rec[c] = Nobody
  BY DEF Init
<1>4. Ordered(b) /\ Unsent(b)
  BY <1>2 DEF Ordered, Unsent
<1>5. HeardOf(b)
  <2>1. \A s \in Seqs : ~(s < 0)
    BY Timing
  <2> QED BY <1>3, <2>1 DEF HeardOf
<1>6. AgeInv(b)
  BY <1>3, <1>4, <1>5 DEF AgeInv, StoreAge, EntryAges, FlushAges, ReadAges
<1> QED BY <1>2, <1>6

LeaseInv == TypeInv /\ \E b \in Ages : AgeInv(b)

\* Some true ages fit every reachable state.
LEMMA LeaseInvHolds == Spec => []LeaseInv
<1>1. Init => LeaseInv
  BY TypeInit, AgeInit DEF LeaseInv
<1>2. LeaseInv /\ [Next]_vars => LeaseInv'
  <2> SUFFICES ASSUME LeaseInv, [Next]_vars PROVE LeaseInv'
    OBVIOUS
  <2>1. TypeInv /\ TypeInv'
    BY TypeStep, TypeStutter DEF LeaseInv
  <2>2. PICK b \in Ages : AgeInv(b)
    BY DEF LeaseInv
  <2>3. \E a \in Ages : AgeInv(a)'
    BY <2>1, <2>2, AgeStep, AgeStutter
  <2> QED BY <2>1, <2>3 DEF LeaseInv
<1> QED BY <1>1, <1>2, PTL DEF Spec

(***************************************************************************)
(* Buffering does not extend a dead process's life: the lease in the store *)
(* ends a TTL after some coordinator last heard from the instance, plus    *)
(* the wait for the lock and the wait for the write.                       *)
(***************************************************************************)
THEOREM LeasesBounded == Spec => []LeaseBounded
<1>1. LeaseInv => LeaseBounded
  <2> SUFFICES ASSUME LeaseInv, NEW i \in Instances, store[i] # Nobody
               PROVE  store[i].left + heard[i] <= TTL + 2 * REQUEST_TIMEOUT
    BY DEF LeaseBounded
  <2>1. PICK b \in Ages : AgeInv(b)
    BY DEF LeaseInv
  <2>2. PICK s : s = store[i].seq
    OBVIOUS
  <2>3. store[i] \in RecordType
    BY DEF LeaseInv, TypeInv, TypeOK, Maybe
  <2>4. s \in Seqs /\ store[i].left \in 1..TTL
    BY <2>2, <2>3 DEF RecordType
  <2>5. s < worker[i].seq /\ store[i].left + b[i][s] <= TTL + 2 * REQUEST_TIMEOUT
    BY <2>1, <2>2 DEF AgeInv, StoreAge, Known
  <2>6. heard[i] <= b[i][s] /\ b[i][s] \in Nat
    BY <2>1, <2>4, <2>5 DEF AgeInv, HeardOf, Ages
  <2>7. heard[i] \in 0..LongSilent
    BY DEF LeaseInv, TypeInv, TypeOK
  <2> QED BY <2>4, <2>5, <2>6, <2>7, Timing
<1> QED BY <1>1, LeaseInvHolds, PTL

(***************************************************************************)
(* What a coordinator believes of the store is true: it counts no report   *)
(* as published that never reached the store, and while it may approve     *)
(* from memory an instance it published itself, the store holds a lease at *)
(* least as long as its own reckoning.  A call may take half a lease at    *)
(* most, as the defaults (3 s of 30 s) have it; the code does not check it.*)
(***************************************************************************)
THEOREM ApprovalsBacked ==
  ASSUME 2 * REQUEST_TIMEOUT <= TTL
  PROVE  Spec => []AdmissionBacked
<1>1. ASSUME LeaseInv, NEW c \in Coordinators, NEW i \in Instances, entry[c][i] # Nobody
      PROVE  LET e == entry[c][i]
             IN  /\ e.pseq <= top[i]
                 /\ <<c, i>> \notin lent /\ e.admitted /\ 2 * e.per < TTL =>
                      store[i] # Nobody /\ store[i].left + e.per + REQUEST_TIMEOUT >= TTL
  <2>1. PICK b \in Ages : AgeInv(b)
    BY <1>1 DEF LeaseInv
  <2>2. PICK e : e = entry[c][i]
    OBVIOUS
  <2>3. e \in EntryType
    BY <1>1, <2>2 DEF LeaseInv, TypeInv, TypeOK, Maybe
  <2>4. e.pseq \in Seqs /\ e.per \in 0..TTL
    BY <2>3 DEF EntryType
  <2>5. EntryAge(b, c, i, e)
    BY <1>1, <2>1, <2>2 DEF AgeInv, EntryAges
  <2>6. e.pseq <= top[i]
    BY <2>5 DEF EntryAge, Known
  <2>7. ASSUME <<c, i>> \notin lent, 2 * e.per < TTL
        PROVE  store[i] # Nobody /\ store[i].left + e.per + REQUEST_TIMEOUT >= TTL
    <3>1. PICK k : k = b[i][e.pseq]
      OBVIOUS
    <3>2. k \in Nat
      BY <2>4, <3>1 DEF Ages
    <3>3. (k <= e.per + REQUEST_TIMEOUT \/ e.per = TTL) /\ Covered(b, i, e.pseq)
      BY <2>5, <2>7, <3>1 DEF EntryAge, Close
    <3>4. k <= e.per + REQUEST_TIMEOUT /\ k < TTL
      BY <2>4, <2>7, <3>2, <3>3, Timing
    <3>5. store[i] # Nobody /\ store[i].seq >= e.pseq
      BY <3>1, <3>3, <3>4 DEF Covered
    <3>6. PICK t : t = store[i].seq
      OBVIOUS
    <3>7. store[i] \in RecordType
      BY <1>1, <3>5 DEF LeaseInv, TypeInv, TypeOK, Maybe
    <3>8. t \in Seqs /\ store[i].left \in 1..TTL
      BY <3>6, <3>7 DEF RecordType
    <3>9. b[i][t] \in Nat /\ t \in Nat /\ e.pseq \in Nat
      <4>1. b[i][t] \in Nat
        BY <3>8 DEF Ages
      <4>2. Seqs \subseteq Nat
        BY Timing
      <4> QED BY <2>4, <3>8, <4>1, <4>2
    <3>10. b[i][t] <= k
      BY <2>1, <2>4, <3>1, <3>5, <3>6, <3>8, <3>9 DEF AgeInv, Ordered
    <3>11. TTL <= store[i].left + b[i][t]
      BY <2>1, <3>5, <3>6 DEF AgeInv, StoreAge
    <3> QED BY <2>4, <3>2, <3>4, <3>5, <3>8, <3>9, <3>10, <3>11, Timing
  <2> QED BY <2>2, <2>6, <2>7
<1>2. LeaseInv => AdmissionBacked
  BY <1>1 DEF AdmissionBacked
<1> QED BY <1>2, LeaseInvHolds, PTL

-----------------------------------------------------------------------------
(* Who serves                                                              *)

\* The store's only ready instance is sole now.
SoleNow(i) == {j \in Live(store) : store[j].ready} = {i} => sole[i] = 0

\* Whoever a snapshot shows as sole was so when the snapshot was read ...
SeenSole(c, i) == rec[c] # Nobody /\ retained(rec[c].snap) = i => sole[i] <= rec[c].age

\* ... whoever a coordinator serves was so at its last discovery ...
CachedSole(c, i) ==
  entry[c][i] # Nobody /\ entry[c][i].serving => disc[c] = MAX_AGE \/ sole[i] <= disc[c]

\* ... and whoever is ready was approved from a fresh discovery.
\* A registration without a deadline is no older than a round.
ReadySole(i) ==
  /\ Ready(i) => sole[i] <= (MAX_AGE - 1) + worker[i].ok
  /\ worker[i].reg = "yes" => worker[i].ok <= ROUND

ServeInv ==
  /\ \A i \in Instances : SoleNow(i) /\ ReadySole(i)
  /\ \A c \in Coordinators, i \in Instances : SeenSole(c, i) /\ CachedSole(c, i)

\* retained names an instance only when it is the one ready instance.
LEMMA RetainedIs ==
  ASSUME NEW snap, NEW i \in Instances, retained(snap) = i
  PROVE  {j \in Live(snap) : snap[j].ready} = {i}
<1> DEFINE ready == {j \in Live(snap) : snap[j].ready}
<1>1. ready \subseteq Instances
  BY DEF Live
<1>2. IsFiniteSet(ready)
  BY <1>1, NobodyAssumption, FS_Subset
<1>3. Cardinality(ready) = 1
  BY NobodyIsNone DEF retained
<1>4. PICK j : ready = {j}
  <2> HIDE DEF ready
  <2> QED BY <1>2, <1>3, FS_Singleton
<1>5. retained(snap) = CHOOSE x \in ready : TRUE
  BY <1>3 DEF retained
<1>6. (CHOOSE x \in ready : TRUE) \in ready
  BY <1>4
<1> QED BY <1>4, <1>5, <1>6

\* A step leaves the registration of an instance alone.
SameReg(i) == worker'[i].reg = worker[i].reg /\ worker'[i].ok = worker[i].ok

\* A step without time keeps what it does not touch.
LEMMA ServeKept ==
  ASSUME TypeInv, TypeInv', ServeInv,
         \A i \in Instances : sole'[i] <= sole[i] /\ SoleNow(i)',
         \A i \in Instances : SameReg(i) \/ ReadySole(i)',
         \A c \in Coordinators, i \in Instances :
           /\ rec'[c] = rec[c] \/ rec'[c] = Nobody \/ SeenSole(c, i)'
           /\ \/ /\ disc'[c] = disc[c]
                 /\ entry'[c][i] # Nobody =>
                      entry[c][i] # Nobody /\ entry'[c][i].serving = entry[c][i].serving
              \/ CachedSole(c, i)'
  PROVE  ServeInv'
<1>1. \A i \in Instances : sole[i] \in Nat /\ sole'[i] \in Nat
  <2>1. \A i \in Instances : sole[i] \in 0..LongLost /\ sole'[i] \in 0..LongLost
    BY DEF TypeInv, TypeOK
  <2> QED BY <2>1
<1>2. ASSUME NEW i \in Instances PROVE ReadySole(i)'
  <2>1. worker[i].ok \in Nat
    <3>1. worker[i].ok \in 0..LongAccepted
      BY DEF TypeInv, TypeOK, WorkerType
    <3> QED BY <3>1
  <2>2. ReadySole(i)
    BY DEF ServeInv
  <2>3. CASE SameReg(i)
    BY <1>1, <2>1, <2>2, <2>3, Timing DEF ReadySole, Ready, SameReg
  <2> QED BY <2>3
<1>3. ASSUME NEW c \in Coordinators, NEW i \in Instances PROVE SeenSole(c, i)'
  <2>1. CASE rec'[c] = rec[c] /\ rec[c] # Nobody /\ retained(rec[c].snap) = i
    <3>1. sole[i] <= rec[c].age
      BY <2>1 DEF ServeInv, SeenSole
    <3>2. rec[c].age \in Nat
      <4>1. rec[c] \in ReadType
        BY <2>1 DEF TypeInv, TypeOK, Maybe
      <4>2. rec[c].age \in 0..REQUEST_TIMEOUT
        BY <4>1 DEF ReadType
      <4> QED BY <4>2
    <3>3. sole'[i] <= rec[c].age
      BY <1>1, <3>1, <3>2
    <3> QED BY <2>1, <3>3 DEF SeenSole
  <2>2. CASE rec'[c] = rec[c] /\ ~(rec[c] # Nobody /\ retained(rec[c].snap) = i)
    BY <2>2 DEF SeenSole, retained, Live
  <2>3. CASE rec'[c] = Nobody
    BY <2>3 DEF SeenSole
  <2> QED BY <2>1, <2>2, <2>3
<1>4. ASSUME NEW c \in Coordinators, NEW i \in Instances PROVE CachedSole(c, i)'
  <2>1. CASE /\ disc'[c] = disc[c] /\ entry'[c][i] # Nobody /\ entry'[c][i].serving
             /\ entry[c][i] # Nobody /\ entry'[c][i].serving = entry[c][i].serving
    <3>1. disc[c] = MAX_AGE \/ sole[i] <= disc[c]
      BY <2>1 DEF ServeInv, CachedSole
    <3>2. disc[c] \in Nat
      <4>1. disc[c] \in 0..MAX_AGE
        BY <2>1 DEF TypeInv, TypeOK, OpenInv, Maybe
      <4> QED BY <4>1
    <3>3. disc[c] = MAX_AGE \/ sole'[i] <= disc[c]
      BY <1>1, <3>1, <3>2
    <3> QED BY <2>1, <3>3 DEF CachedSole
  <2> QED BY <2>1 DEF CachedSole
<1> QED BY <1>2, <1>3, <1>4 DEF ServeInv

\* A write to the store.
LEMMA UpsertSole ==
  ASSUME TypeInv, NEW ages, ages \in [Instances -> Nat], sole' = SoleSince(store', ages)
  PROVE  \A i \in Instances : sole'[i] <= ages[i] /\ SoleNow(i)'
<1> SUFFICES ASSUME NEW i \in Instances PROVE sole'[i] <= ages[i] /\ SoleNow(i)'
  OBVIOUS
<1> DEFINE alone(j) == {k \in Live(store') : store'[k].ready} = {j}
<1>1. sole'[i] = IF alone(i) THEN 0 ELSE ages[i]
  BY DEF SoleSince
<1>2. alone(i) => sole'[i] = 0
  BY <1>1
<1>3. sole'[i] <= ages[i]
  <2>1. ages[i] \in Nat
    OBVIOUS
  <2> HIDE DEF alone
  <2> QED BY <1>1, <2>1
<1>4. SoleNow(i)'
  BY <1>2 DEF SoleNow, Live
<1> QED BY <1>3, <1>4

\* A step that leaves the store alone.
LEMMA SoleStays ==
  ASSUME TypeInv, ServeInv, store' = store, sole' = sole
  PROVE  \A i \in Instances : sole'[i] <= sole[i] /\ SoleNow(i)'
<1> SUFFICES ASSUME NEW i \in Instances PROVE sole'[i] <= sole[i] /\ SoleNow(i)'
  OBVIOUS
<1>1. sole[i] \in 0..LongLost
  BY DEF TypeInv, TypeOK
<1>2. sole'[i] <= sole[i]
  BY <1>1
<1>3. SoleNow(i)'
  BY DEF ServeInv, SoleNow, Live
<1> QED BY <1>2, <1>3

\* Only a coordinator with a fresh discovery serves.
LEMMA ServeIsFresh ==
  ASSUME TypeInv, ServeInv, NEW c \in Coordinators, NEW i \in Instances, NEW r,
         Verdict(c, entry[c][i], r) = "serve"
  PROVE  sole[i] <= MAX_AGE - 1
<1>1. entry[c][i] # Nobody /\ entry[c][i].serving /\ disc[c] < MAX_AGE
  BY VerdictIs DEF Fresh
<1>2. disc[c] \in 0..MAX_AGE /\ sole[i] \in 0..LongLost
  BY <1>1 DEF TypeInv, TypeOK, OpenInv, Maybe
<1>3. disc[c] = MAX_AGE \/ sole[i] <= disc[c]
  BY <1>1 DEF ServeInv, CachedSole
<1> QED BY <1>1, <1>2, <1>3, Timing

\* An approval is worth what its coordinator has seen.
LEMMA ApprovalIs ==
  ASSUME NEW i \in Instances,
         \/ worker'[i].reg = "no"
         \/ worker'[i].reg = "yes" /\ worker'[i].ok = 0 /\ sole'[i] <= MAX_AGE - 1
  PROVE  ReadySole(i)'
BY Timing DEF ReadySole, Ready

\* A receipt keeps who serves.
LEMMA BufferServe ==
  ASSUME TypeInv, NEW c \in Coordinators, NEW i \in Instances, NEW r, r.seq \in Seqs,
         r.ready \in BOOLEAN, entry' = [entry EXCEPT ![c][i] = Received(c, @, r)]
  PROVE  \A d \in Coordinators, j \in Instances : entry'[d][j] # Nobody =>
            entry[d][j] # Nobody /\ entry'[d][j].serving = entry[d][j].serving
<1>1. /\ entry'[c][i] = Received(c, entry[c][i], r)
      /\ entry'[c][i] # Nobody => entry[c][i] # Nobody
      /\ \A d \in Coordinators, j \in Instances : d # c \/ j # i => entry'[d][j] = entry[d][j]
  BY BufferIs
<1>2. ASSUME entry[c][i] # Nobody PROVE entry'[c][i].serving = entry[c][i].serving
  <2>1. entry[c][i] \in EntryType
    BY <1>2 DEF TypeInv, TypeOK, Maybe
  <2> QED BY <1>1, <2>1, ReceivedIs
<1> QED BY <1>1, <1>2

\* An answer from memory comes from a fresh discovery.
LEMMA BeatServe ==
  ASSUME TypeInv, TypeInv', ServeInv, NEW i \in Instances, NEW c \in Coordinators,
         NEW ready \in BOOLEAN, NEW read \in BOOLEAN, Beat(i, c, ready, read)
  PROVE  ServeInv'
<1> DEFINE w == worker[i]
           r == [c |-> c, i |-> i, seq |-> w.seq, ready |-> ready, pc |-> "queued",
                 age |-> 0, applied |-> FALSE]
           verdict == Verdict(c, entry[c][i], r)
<1>1. /\ entry' = [entry EXCEPT ![c][i] = Received(c, @, r)]
      /\ worker' = [worker EXCEPT ![i] = Reported(w, verdict, read)]
      /\ UNCHANGED <<store, disc, lock, rec, flush, sole, top, lent>>
  BY DEF Beat, Reported, Sent
<1>2. /\ r.seq = w.seq /\ r.ready = ready /\ w.seq \in Seqs /\ DOMAIN worker = Instances
      /\ w \in WorkerType /\ worker' \in [Instances -> WorkerType]
  BY DEF TypeInv, TypeOK, WorkerType
<1>3. w.seq + 1 \in Seqs
  <2>1. w.seq <= moves /\ moves + 1 <= MaxMoves /\ moves \in Nat /\ w.seq \in Nat
    <3> DEFINE n == (IF ready THEN 1 ELSE 2) + (IF read THEN 0 ELSE 1)
    <3>1. moves + n <= MaxMoves /\ moves \in 0..MaxMoves /\ w.seq <= moves
      BY DEF Beat, Spend, TypeInv, TypeOK, SeqSpent
    <3>2. n \in 1..3
      OBVIOUS
    <3> HIDE DEF n
    <3>3. w.seq \in Nat
      BY <1>2, Timing
    <3>4. moves \in Nat /\ moves + 1 <= MaxMoves
      BY <3>1, <3>2, Timing
    <3> QED BY <3>1, <3>3, <3>4
  <2> QED BY <2>1, Timing DEF Seqs
<1>4. verdict = "serve" => sole[i] <= MAX_AGE - 1
  <2> HIDE DEF r
  <2> QED BY ServeIsFresh
<1> HIDE DEF r, verdict, w
<1>5. PICK n : n = Reported(w, verdict, read)
  OBVIOUS
<1>6. /\ worker'[i] = n /\ \A j \in Instances : j # i => worker'[j] = worker[j]
      /\ \/ n.reg = w.reg /\ n.ok = w.ok
         \/ n.reg = "no"
         \/ n.reg = "yes" /\ n.ok = 0 /\ verdict = "serve"
  BY <1>1, <1>2, <1>3, <1>5, ReportedIs
<1>7. \A j \in Instances : SameReg(j) \/ ReadySole(j)'
  <2>1. SameReg(i) \/ ReadySole(i)'
    BY <1>1, <1>4, <1>6, ApprovalIs DEF w, SameReg
  <2> QED BY <1>6, <2>1 DEF SameReg
<1>8. \A d \in Coordinators, j \in Instances : entry'[d][j] # Nobody =>
         entry[d][j] # Nobody /\ entry'[d][j].serving = entry[d][j].serving
  BY <1>1, <1>2, BufferServe
<1>9. \A j \in Instances : sole'[j] <= sole[j] /\ SoleNow(j)'
  BY <1>1, SoleStays
<1> QED BY <1>1, <1>7, <1>8, <1>9, ServeKept

\* So does one given under the lock; a write may make an instance sole.
LEMMA PublishServe ==
  ASSUME TypeInv, TypeInv', ServeInv, NEW r \in reqs, Publish(r)
  PROVE  ServeInv'
<1> DEFINE verdict == Verdict(r.c, entry[r.c][r.i], r)
           result == Disposition(r.i, r.seq)
           c == r.c
           i == r.i
<1>1. r \in RequestType
  BY DEF TypeInv, TypeOK
<1>2. /\ c \in Coordinators /\ i \in Instances /\ r.seq \in Seqs /\ r.ready \in BOOLEAN
      /\ r.age \in 0..REQUEST_TIMEOUT
  BY <1>1 DEF RequestType
<1>3. /\ entry' = [entry EXCEPT ![c][i] = Received(c, @, r)]
      /\ IF verdict = "admit"
         THEN upsert_instance(i, r.seq, r.ready, Remaining(r.age))
         ELSE UNCHANGED <<store, top, sole>>
      /\ worker' = worker \/ worker' = Acked(i, r.seq, verdict)
      /\ UNCHANGED <<moves, disc, rec, flush, heard, lent>>
  BY DEF Publish, Answer
<1>4. Remaining(r.age) \in 1..TTL
  BY <1>2, Timing DEF Remaining
<1>5. verdict = "serve" => sole[i] <= MAX_AGE - 1
  BY <1>2, ServeIsFresh
<1> HIDE DEF verdict, result, c, i
<1>6. \A j \in Instances : sole'[j] <= sole[j] /\ SoleNow(j)'
  <2>1. CASE verdict = "admit"
    <3>1. upsert_instance(i, r.seq, r.ready, Remaining(r.age))
      BY <1>3, <2>1
    <3>2. sole' = SoleSince(store', sole)
      BY <1>2, <1>4, <3>1, UpsertIs
    <3>3. sole \in [Instances -> Nat]
      <4>1. sole \in [Instances -> 0..LongLost]
        BY DEF TypeInv, TypeOK
      <4> QED BY <4>1
    <3> QED BY <3>2, <3>3, UpsertSole
  <2>2. CASE verdict # "admit"
    <3>1. store' = store /\ sole' = sole
      BY <1>3, <2>2
    <3> QED BY <3>1, SoleStays
  <2> QED BY <2>1, <2>2
<1>7. ASSUME NEW j \in Instances PROVE SameReg(j) \/ ReadySole(j)'
  <2>1. CASE worker' = worker
    BY <2>1 DEF SameReg
  <2>2. CASE worker' = Acked(i, r.seq, verdict)
    <3>1. /\ j # i => worker'[j] = worker[j]
          /\ \/ worker'[i] = worker[i]
             \/ worker'[i].reg = "no"
             \/ worker'[i].reg = "yes" /\ worker'[i].ok = 0 /\ verdict = "serve"
      BY <1>2, <2>2, AckedIs
    <3>2. verdict = "serve" => sole'[i] <= MAX_AGE - 1
      <4>1. sole[i] \in 0..LongLost /\ sole'[i] \in 0..LongLost
        BY <1>2 DEF TypeInv, TypeOK
      <4>2. sole'[i] <= sole[i]
        BY <1>2, <1>6
      <4> QED BY <1>5, <4>1, <4>2, Timing
    <3> QED BY <1>2, <3>1, <3>2, ApprovalIs DEF SameReg
  <2> QED BY <1>3, <2>1, <2>2
<1>8. \A d \in Coordinators, j \in Instances : entry'[d][j] # Nobody =>
         entry[d][j] # Nobody /\ entry'[d][j].serving = entry[d][j].serving
  BY <1>2, <1>3, BufferServe
<1> QED BY <1>3, <1>6, <1>7, <1>8, ServeKept

\* Steps that neither approve nor observe: the store, what is cached of it and
\* who was approved stay or go.
LEMMA QuietServe ==
  ASSUME TypeInv, TypeInv', ServeInv, store' = store, sole' = sole,
         \A i \in Instances : SameReg(i) \/ worker'[i].reg = "no",
         \A c \in Coordinators : rec'[c] = rec[c] \/ rec'[c] = Nobody,
         \A c \in Coordinators, i \in Instances :
           \/ entry'[c][i] = Nobody
           \/ disc'[c] = disc[c] /\ entry'[c][i] = entry[c][i]
  PROVE  ServeInv'
<1>1. \A i \in Instances : sole'[i] <= sole[i] /\ SoleNow(i)'
  BY SoleStays
<1>2. \A i \in Instances : SameReg(i) \/ ReadySole(i)'
  BY ApprovalIs
<1>3. \A c \in Coordinators, i \in Instances :
        \/ /\ disc'[c] = disc[c]
           /\ entry'[c][i] # Nobody =>
                entry[c][i] # Nobody /\ entry'[c][i].serving = entry[c][i].serving
        \/ CachedSole(c, i)'
  BY DEF CachedSole
<1> QED BY <1>1, <1>2, <1>3, ServeKept

\* A failure shortens a registration or ends it.
LEMMA ControlFailsServe ==
  ASSUME TypeInv, TypeInv', ServeInv, NEW i \in Instances, ControlFails(i)
  PROVE  ServeInv'
<1>1. /\ \A j \in Instances : j # i => worker'[j] = worker[j]
      /\ \/ worker'[i].reg = "no"
         \/ /\ worker[i].reg # "no" /\ worker[i].ok < HOLD
            /\ worker'[i].reg = "until" /\ worker'[i].ok = worker[i].ok
      /\ UNCHANGED <<reqs, store, entry, disc, lock, rec, flush, heard, sole, top, lent>>
  BY ControlFailsIs
<1>2. ReadySole(i)'
  <2>1. ReadySole(i) /\ worker[i].reg \in {"no", "yes", "until"}
    BY DEF ServeInv, TypeInv, TypeOK, WorkerType
  <2> QED BY <1>1, <2>1 DEF ReadySole, Ready
<1>3. \A j \in Instances : SameReg(j) \/ ReadySole(j)'
  BY <1>1, <1>2 DEF SameReg
<1>4. \A j \in Instances : sole'[j] <= sole[j] /\ SoleNow(j)'
  BY <1>1, SoleStays
<1> QED BY <1>1, <1>3, <1>4, ServeKept

\* A failed request approves nobody.
LEMMA AbandonServe ==
  ASSUME TypeInv, TypeInv', ServeInv, NEW r \in reqs, Abandon(r)
  PROVE  ServeInv'
<1>1. /\ worker' = Acked(r.i, r.seq, "refuse")
      /\ rec' = rec \/ rec' = [rec EXCEPT ![r.c] = Nobody]
      /\ UNCHANGED <<store, entry, disc, flush, heard, sole, top, lent>>
  BY DEF Abandon, Answer, history
<1>2. r.i \in Instances
  BY DEF TypeInv, TypeOK, RequestType
<1>3. \A j \in Instances : SameReg(j) \/ worker'[j].reg = "no"
  BY <1>1, <1>2, AckedIs DEF SameReg
<1>4. \A d \in Coordinators : rec'[d] = rec[d] \/ rec'[d] = Nobody
  BY <1>1 DEF TypeInv, TypeOK
<1> QED BY <1>1, <1>3, <1>4, QuietServe

\* A failure, a restart and the start of a pass only drop what is cached.
LEMMA DropServe ==
  ASSUME TypeInv, TypeInv', ServeInv, NEW c \in Coordinators,
         ReadFails(c) \/ FlushFails(c) \/ Restart(c) \/ StartFlush(c)
  PROVE  ServeInv'
<1>1. CASE ReadFails(c)
  <2>1. /\ rec' = [rec EXCEPT ![c] = Nobody]
        /\ UNCHANGED <<worker, reqs, store, entry, disc, flush, heard, sole, top, lent>>
    BY <1>1 DEF ReadFails, clients, history
  <2>2. \A d \in Coordinators : rec'[d] = rec[d] \/ rec'[d] = Nobody
    BY <2>1 DEF TypeInv, TypeOK
  <2> QED BY <2>1, <2>2, QuietServe DEF SameReg
<1>2. CASE FlushFails(c)
  <2>1. UNCHANGED <<worker, store, entry, disc, rec, sole>>
    BY <1>2 DEF FlushFails, clients, history
  <2> QED BY <2>1, QuietServe DEF SameReg
<1>3. CASE Restart(c)
  <2>1. /\ \A d \in Coordinators : d # c =>
              entry'[d] = entry[d] /\ rec'[d] = rec[d] /\ disc'[d] = disc[d]
        /\ \A j \in Instances : entry'[c][j] = Nobody
        /\ rec'[c] = Nobody
        /\ UNCHANGED <<worker, store, heard, sole, top>>
    BY <1>3, RestartView
  <2> QED BY <2>1, QuietServe DEF SameReg
<1>4. CASE StartFlush(c)
  <2>1. /\ \A d \in Coordinators, i \in Instances : d # c => entry'[d][i] = entry[d][i]
        /\ \A i \in Instances : entry'[c][i] = entry[c][i] \/ entry'[c][i] = Nobody
        /\ UNCHANGED <<moves, worker, reqs, store, disc, lock, rec, heard, sole, top, lent>>
    BY <1>4, StartFlushView
  <2>2. \A d \in Coordinators, i \in Instances :
          entry'[d][i] = Nobody \/ (disc'[d] = disc[d] /\ entry'[d][i] = entry[d][i])
    BY <2>1
  <2> QED BY <2>1, <2>2, QuietServe DEF SameReg
<1> QED BY <1>1, <1>2, <1>3, <1>4

\* Whoever a new snapshot shows as sole is so now.
LEMMA ReadServe ==
  ASSUME TypeInv, TypeInv', ServeInv, NEW c \in Coordinators, Read(c)
  PROVE  ServeInv'
<1>1. /\ rec' = [rec EXCEPT ![c] = [snap |-> Snapshot, age |-> 0]]
      /\ UNCHANGED <<worker, reqs, store, entry, disc, flush, heard, sole, top, lent>>
  BY DEF Read, clients, history
<1>2. PICK snap : snap = Snapshot
  OBVIOUS
<1>3. /\ rec'[c].snap = snap /\ rec'[c].age = 0
      /\ \A d \in Coordinators : d # c => rec'[d] = rec[d]
  BY <1>1, <1>2 DEF TypeInv, TypeOK
<1>4. ASSUME NEW i \in Instances PROVE SeenSole(c, i)'
  <2>1. CASE retained(snap) = i
    <3>1. {j \in Live(snap) : snap[j].ready} = {i}
      BY <2>1, RetainedIs
    <3>2. \A j \in Instances : /\ snap[j] = Nobody <=> store[j] = Nobody
                               /\ store[j] # Nobody => snap[j].ready = store[j].ready
      BY <1>2, SnapshotIs
    <3>3. {j \in Live(store) : store[j].ready} = {i}
      BY <3>1, <3>2 DEF Live
    <3>4. sole[i] = 0
      BY <3>3 DEF ServeInv, SoleNow
    <3> QED BY <1>1, <1>3, <3>4 DEF SeenSole
  <2>2. CASE retained(snap) # i
    BY <1>3, <2>2 DEF SeenSole, retained, Live
  <2> QED BY <2>1, <2>2
<1>5. \A d \in Coordinators, i \in Instances :
        rec'[d] = rec[d] \/ rec'[d] = Nobody \/ SeenSole(d, i)'
  BY <1>3, <1>4
<1>6. \A i \in Instances : sole'[i] <= sole[i] /\ SoleNow(i)'
  BY <1>1, SoleStays
<1> QED BY <1>1, <1>5, <1>6, ServeKept DEF SameReg

\* Installing serves whoever the snapshot shows as sole, and nobody else.
LEMMA InstallServe ==
  ASSUME TypeInv, TypeInv', ServeInv, NEW c \in Coordinators, Install(c)
  PROVE  ServeInv'
<1>1. /\ rec[c] \in ReadType
      /\ \A d \in Coordinators, i \in Instances : d # c => entry'[d][i] = entry[d][i]
      /\ \A i \in Instances :
              \/ \E r \in Holder(c) :
                   /\ r.i = i
                   /\ entry'[c][i] = admit(r, TRUE, r.age, retained(rec[c].snap) = i)
              \/ entry'[c][i] = install(entry[c][i], i, rec[c].snap, rec[c].age)
      /\ disc' = [disc EXCEPT ![c] = rec[c].age]
      /\ rec' = [rec EXCEPT ![c] = Nobody]
      /\ \/ UNCHANGED clients
         \/ \E r \in Holder(c) :
              Answer(r, IF retained(rec[c].snap) = r.i THEN "serve" ELSE "decline")
      /\ UNCHANGED <<moves, store, flush, heard, sole, top>>
  BY InstallView
<1>2. PICK snap : snap = rec[c].snap
  OBVIOUS
<1>3. PICK age : age = rec[c].age
  OBVIOUS
<1>4. snap \in [Instances -> Maybe(ViewType)] /\ age \in 0..REQUEST_TIMEOUT
  BY <1>1, <1>2, <1>3 DEF ReadType
<1>5. ASSUME NEW i \in Instances, retained(snap) = i PROVE sole[i] <= age
  BY <1>1, <1>2, <1>3, <1>5, NobodyIsNone DEF ServeInv, SeenSole
<1>6. disc'[c] = age /\ rec'[c] = Nobody
      /\ \A d \in Coordinators : d # c => disc'[d] = disc[d] /\ rec'[d] = rec[d]
  BY <1>1, <1>3 DEF TypeInv, TypeOK
<1>7. ASSUME NEW i \in Instances, entry'[c][i] # Nobody
      PROVE  entry'[c][i].serving = (retained(snap) = i)
  <2>1. CASE entry'[c][i] = install(entry[c][i], i, snap, age)
    <3>1. entry[c][i] \in Maybe(EntryType)
      BY DEF TypeInv, TypeOK
    <3> QED BY <1>4, <1>7, <2>1, <3>1, InstallIs
  <2>2. CASE \E r \in Holder(c) :
               r.i = i /\ entry'[c][i] = admit(r, TRUE, r.age, retained(snap) = i)
    BY <2>2 DEF admit
  <2> QED BY <1>1, <1>2, <1>3, <2>1, <2>2
<1>8. ASSUME NEW i \in Instances PROVE CachedSole(c, i)'
  BY <1>1, <1>5, <1>6, <1>7 DEF CachedSole
<1>9. ASSUME NEW i \in Instances PROVE SameReg(i) \/ ReadySole(i)'
  <2>1. CASE UNCHANGED clients
    BY <2>1 DEF clients, SameReg
  <2>2. CASE \E r \in Holder(c) : Answer(r, IF retained(snap) = r.i THEN "serve" ELSE "decline")
    <3>1. PICK r \in Holder(c) : Answer(r, IF retained(snap) = r.i THEN "serve" ELSE "decline")
      BY <2>2
    <3>2. PICK reply : reply = IF retained(snap) = r.i THEN "serve" ELSE "decline"
      OBVIOUS
    <3>3. r.i \in Instances
      BY HolderIs
    <3>4. worker' = Acked(r.i, r.seq, reply)
      BY <3>1, <3>2 DEF Answer
    <3>5. /\ i # r.i => worker'[i] = worker[i]
          /\ \/ worker'[r.i] = worker[r.i]
             \/ worker'[r.i].reg = "no"
             \/ worker'[r.i].reg = "yes" /\ worker'[r.i].ok = 0 /\ reply = "serve"
      BY <3>3, <3>4, AckedIs
    <3>6. reply = "serve" => sole'[r.i] <= MAX_AGE - 1
      <4>1. sole[r.i] \in 0..LongLost
        BY <3>3 DEF TypeInv, TypeOK
      <4>2. reply = "serve" => sole[r.i] <= age
        BY <1>5, <3>2, <3>3
      <4> QED BY <1>1, <1>4, <4>1, <4>2, Timing
    <3> QED BY <3>3, <3>5, <3>6, ApprovalIs DEF SameReg
  <2> QED BY <1>1, <1>2, <2>1, <2>2
<1>10. \A i \in Instances : sole'[i] <= sole[i] /\ SoleNow(i)'
  BY <1>1, SoleStays
<1>11. ASSUME NEW d \in Coordinators, NEW i \in Instances
       PROVE  /\ rec'[d] = rec[d] \/ rec'[d] = Nobody \/ SeenSole(d, i)'
              /\ \/ /\ disc'[d] = disc[d]
                    /\ entry'[d][i] # Nobody =>
                         entry[d][i] # Nobody /\ entry'[d][i].serving = entry[d][i].serving
                 \/ CachedSole(d, i)'
  <2>1. CASE d = c
    BY <1>6, <1>8, <2>1
  <2>2. CASE d # c
    BY <1>1, <1>6, <2>2
  <2> QED BY <2>1, <2>2
<1> QED BY <1>9, <1>10, <1>11, ServeKept

\* A publication may make an instance sole and takes that from no one's past.
LEMMA FlushWriteServe ==
  ASSUME TypeInv, TypeInv', ServeInv, NEW c \in Coordinators, NEW i \in Instances,
         FlushWrite(c, i)
  PROVE  ServeInv'
<1>1. PICK f : f = flush[c][i]
  OBVIOUS
<1>2. /\ f \in FlushType /\ upsert_instance(i, f.seq, f.ready, f.left)
      /\ UNCHANGED <<moves, worker, reqs, entry, disc, lock, rec, heard, lent>>
  BY <1>1, FlushWriteView
<1>3. f.seq \in Seqs /\ f.ready \in BOOLEAN /\ f.left \in 1..TTL
  BY <1>2 DEF FlushType
<1>4. sole' = SoleSince(store', sole)
  BY <1>2, <1>3, UpsertIs
<1>5. sole \in [Instances -> Nat]
  <2>1. sole \in [Instances -> 0..LongLost]
    BY DEF TypeInv, TypeOK
  <2> QED BY <2>1
<1>6. \A j \in Instances : sole'[j] <= sole[j] /\ SoleNow(j)'
  BY <1>4, <1>5, UpsertSole
<1> QED BY <1>2, <1>6, ServeKept DEF SameReg

\* A completed publication does not change who serves.
LEMMA FlushDoneServe ==
  ASSUME TypeInv, TypeInv', ServeInv, NEW c \in Coordinators, NEW i \in Instances,
         FlushDone(c, i)
  PROVE  ServeInv'
<1>1. PICK f : f = flush[c][i]
  OBVIOUS
<1>2. PICK e : e = entry[c][i]
  OBVIOUS
<1>3. /\ f \in FlushType
      /\ \A d \in Coordinators, j \in Instances : d # c \/ j # i => entry'[d][j] = entry[d][j]
      /\ entry'[c][i] # Nobody =>
           e \in EntryType /\ (entry'[c][i] = e \/ entry'[c][i] = persisted(e, f))
      /\ UNCHANGED <<moves, worker, reqs, store, disc, lock, rec, heard, sole, top>>
  BY <1>1, <1>2, FlushDoneView
<1>4. entry'[c][i] # Nobody =>
         entry[c][i] # Nobody /\ entry'[c][i].serving = entry[c][i].serving
  BY <1>2, <1>3, PersistedIs, NobodyIsNone
<1>5. \A d \in Coordinators, j \in Instances : entry'[d][j] # Nobody =>
         entry[d][j] # Nobody /\ entry'[d][j].serving = entry[d][j].serving
  BY <1>3, <1>4
<1>6. \A j \in Instances : sole'[j] <= sole[j] /\ SoleNow(j)'
  BY <1>3, SoleStays
<1> QED BY <1>3, <1>5, <1>6, ServeKept DEF SameReg

\* A tick makes every observation a tick older.
LEMMA TickServe ==
  ASSUME TypeInv, TypeInv', ServeInv, Tick
  PROVE  ServeInv'
<1>1. /\ sole' = SoleSince(store', [i \in Instances |-> Older(sole[i], LongLost)])
      /\ \A i \in Instances : sole'[i] <= sole[i] + 1
  BY TickStore
<1>2. \A i \in Instances : sole[i] \in Nat /\ sole'[i] \in Nat
  <2>1. \A i \in Instances : sole[i] \in 0..LongLost /\ sole'[i] \in 0..LongLost
    BY DEF TypeInv, TypeOK
  <2> QED BY <2>1
<1>3. \A i \in Instances : SoleNow(i)'
  <2>1. LongLost \in Nat
    BY Timing DEF LongLost
  <2>2. [i \in Instances |-> Older(sole[i], LongLost)] \in [Instances -> Nat]
    BY <1>2, <2>1 DEF Older, Least
  <2> QED BY <1>1, <2>2, UpsertSole
<1>4. ASSUME NEW i \in Instances PROVE ReadySole(i)'
  <2>1. /\ worker[i].ok \in Nat /\ worker'[i].ok = Least(worker[i].ok + 1, LongAccepted)
        /\ worker'[i].reg = worker[i].reg /\ (worker[i].reg = "yes" => worker[i].ok < ROUND)
    <3>1. worker[i].ok \in 0..LongAccepted
      BY DEF TypeInv, TypeOK, WorkerType
    <3> QED BY <3>1, TickWorkers
  <2>2. worker'[i].reg = "yes" => worker'[i].ok <= ROUND
    BY <2>1, Timing DEF Least
  <2>3. ASSUME Ready(i)' PROVE sole'[i] <= (MAX_AGE - 1) + worker'[i].ok
    <3>1. worker'[i].ok = worker[i].ok + 1
      BY <2>1, <2>3, Timing DEF Least, Ready
    <3>2. Ready(i)
      BY <2>1, <2>3, <3>1, Timing DEF Ready
    <3>3. sole[i] <= (MAX_AGE - 1) + worker[i].ok
      BY <3>2 DEF ServeInv, ReadySole
    <3> QED BY <1>1, <1>2, <2>1, <3>1, <3>3, Timing
  <2> QED BY <2>2, <2>3 DEF ReadySole
<1>5. ASSUME NEW c \in Coordinators, NEW i \in Instances PROVE SeenSole(c, i)'
  <2>1. CASE rec'[c] # Nobody
    <3>1. rec[c] \in ReadType /\ rec'[c].snap = rec[c].snap /\ rec'[c].age = rec[c].age + 1
      BY <2>1, TickReads
    <3>2. PICK snap : snap = rec[c].snap
      OBVIOUS
    <3>3. rec[c].age \in Nat
      <4>1. rec[c].age \in 0..REQUEST_TIMEOUT
        BY <3>1 DEF ReadType
      <4> QED BY <4>1
    <3>4. CASE retained(snap) = i
      <4>1. sole[i] <= rec[c].age
        BY <3>1, <3>2, <3>4, NobodyIsNone DEF ServeInv, SeenSole
      <4>2. sole'[i] <= rec'[c].age
        BY <1>1, <1>2, <3>1, <3>3, <4>1
      <4> QED BY <4>2 DEF SeenSole
    <3>5. CASE retained(snap) # i
      BY <3>1, <3>2, <3>5 DEF SeenSole, retained, Live
    <3> QED BY <3>4, <3>5
  <2> QED BY <2>1 DEF SeenSole
<1>6. ASSUME NEW c \in Coordinators, NEW i \in Instances PROVE CachedSole(c, i)'
  <2> SUFFICES ASSUME entry'[c][i] # Nobody, entry'[c][i].serving
               PROVE  disc'[c] = MAX_AGE \/ sole'[i] <= disc'[c]
    BY DEF CachedSole
  <2>1. entry[c][i] \in EntryType /\ entry[c][i].serving
    BY TickEntries
  <2>2. entry[c][i] # Nobody
    BY <2>1, NobodyIsNone
  <2>3. disc[c] # Nobody
    BY <2>2 DEF TypeInv, OpenInv
  <2>4. disc[c] \in 0..MAX_AGE /\ disc'[c] = Least(disc[c] + 1, MAX_AGE)
    BY <2>3, TickReads
  <2>5. disc[c] = MAX_AGE \/ sole[i] <= disc[c]
    BY <2>1, <2>2 DEF ServeInv, CachedSole
  <2> QED BY <1>1, <1>2, <2>4, <2>5, Timing DEF Least
<1> QED BY <1>3, <1>4, <1>5, <1>6 DEF ServeInv

\* Every step keeps who serves within what was observed.
LEMMA ServeStep ==
  ASSUME TypeInv, TypeInv', ServeInv, Next
  PROVE  ServeInv'
<1>1. ASSUME NEW i \in Instances, NEW c \in Coordinators, NEW ready \in BOOLEAN,
             NEW read \in BOOLEAN, Beat(i, c, ready, read)
      PROVE  ServeInv'
  BY <1>1, BeatServe
<1>2. ASSUME NEW i \in Instances, ControlFails(i) PROVE ServeInv'
  BY <1>2, ControlFailsServe
<1>3. ASSUME NEW r \in reqs, Publish(r) \/ Abandon(r) PROVE ServeInv'
  BY <1>3, PublishServe, AbandonServe
<1>4. ASSUME NEW c \in Coordinators, Read(c) \/ Install(c) \/ ReadFails(c) PROVE ServeInv'
  BY <1>4, ReadServe, InstallServe, DropServe
<1>5. ASSUME NEW c \in Coordinators, StartFlush(c) \/ FlushFails(c) \/ Restart(c)
      PROVE  ServeInv'
  BY <1>5, DropServe
<1>6. ASSUME NEW c \in Coordinators, NEW i \in Instances, FlushWrite(c, i) \/ FlushDone(c, i)
      PROVE  ServeInv'
  BY <1>6, FlushWriteServe, FlushDoneServe
<1> QED BY <1>1, <1>2, <1>3, <1>4, <1>5, <1>6, TickServe DEF Next

\* So does no step.
LEMMA ServeStutter ==
  ASSUME TypeInv, TypeInv', ServeInv, UNCHANGED vars
  PROVE  ServeInv'
BY QuietServe DEF vars, SameReg

\* At the start nobody serves.
LEMMA ServeInit ==
  ASSUME Init
  PROVE  ServeInv
<1>1. /\ \A i \in Instances : store[i] = Nobody /\ worker[i].reg = "no"
      /\ \A c \in Coordinators, i \in Instances : entry[c][i] = Nobody /\ rec[c] = Nobody
  BY DEF Init
<1>2. \A i \in Instances : SoleNow(i)
  <2>1. Live(store) = {}
    BY <1>1 DEF Live
  <2> QED BY <2>1 DEF SoleNow
<1>3. \A i \in Instances : ReadySole(i)
  BY <1>1, Timing DEF ReadySole, Ready
<1> QED BY <1>1, <1>2, <1>3 DEF ServeInv, SeenSole, CachedSole

(***************************************************************************)
(* An instance serves only after it was accepted as the sole one.  It      *)
(* stops serving, counted from the last tick at which the store held it    *)
(* as the only ready one, within the age of a discovery and a round of     *)
(* its reports, or after a failure within that age and its own grace,      *)
(* whatever requests, reads and publications were delayed or lost.         *)
(***************************************************************************)
THEOREM ServesOnlyIfSole == Spec => []ReadyOnlyIfSole
<1> DEFINE Inv == TypeInv /\ ServeInv
<1>1. Init => Inv
  BY TypeInit, ServeInit
<1>2. Inv /\ [Next]_vars => Inv'
  <2> SUFFICES ASSUME TypeInv, ServeInv, [Next]_vars PROVE TypeInv' /\ ServeInv'
    OBVIOUS
  <2>1. TypeInv'
    BY TypeStep, TypeStutter
  <2> QED BY <2>1, ServeStep, ServeStutter
<1>3. Inv => ReadyOnlyIfSole
  <2> SUFFICES ASSUME TypeInv, ServeInv, NEW i \in Instances, Ready(i)
               PROVE  sole[i] <= (MAX_AGE - 1) +
                                   (IF worker[i].reg = "until" THEN HOLD - 1 ELSE ROUND)
    BY DEF ReadyOnlyIfSole
  <2>1. /\ sole[i] <= (MAX_AGE - 1) + worker[i].ok
        /\ worker[i].reg = "yes" => worker[i].ok <= ROUND
    BY DEF ServeInv, ReadySole
  <2>2. worker[i].ok \in Nat /\ sole[i] \in Nat
    <3>1. worker[i].ok \in 0..LongAccepted /\ sole[i] \in 0..LongLost
      BY DEF TypeInv, TypeOK, WorkerType
    <3> QED BY <3>1
  <2> QED BY <2>1, <2>2, Timing DEF Ready
<1> QED BY <1>1, <1>2, <1>3, PTL DEF Spec
=============================================================================
