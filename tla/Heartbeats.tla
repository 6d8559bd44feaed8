------------------------------ MODULE Heartbeats ------------------------------
(***************************************************************************)
(* Worker instances, active-active coordinators and the leases in the      *)
(* shared store (talon-coordinator observability/heartbeats.rs and         *)
(* state.rs, state_store/memory.rs; talon-worker main.rs).                 *)
(*                                                                         *)
(* One logical worker, several instances (incarnations) of it.  An         *)
(* instance reports to any coordinator; a coordinator writes a new or      *)
(* changed instance to the store before it answers, and approves an        *)
(* unchanged one from memory, writing the coalesced report later.  Routing *)
(* sends clients to the sole ready instance the store holds.               *)
(*                                                                         *)
(* Every Instant of the code is an age here: the ticks since that instant, *)
(* which is what the code reads (elapsed()), up to a cap past which no     *)
(* test of the code tells two ages apart.                                  *)
(***************************************************************************)
EXTENDS Naturals, FiniteSets

CONSTANTS
    Coordinators,
    Instances,
    Nobody,          \* no value: no entry, no lock holder, no serving instance
    Timer,           \* the periodic reconcile, as a holder of membership_refresh
    TTL,             \* lease_ttl
    MAX_AGE,         \* discovery_max_age (unhealthy_after)
    REQUEST_TIMEOUT, \* request_timeout of the coordinator
    HOLD,            \* failure_grace of the worker
    ROUND,           \* heartbeat_interval plus CONTROL_OPERATION_TIMEOUT of the worker
    MaxMoves,        \* bound: a ready report or a fault counts one, another report two
    MaxReads         \* bound: periodic reconciles in flight at a time

ASSUME TimingAssumption ==
    /\ {TTL, MAX_AGE, REQUEST_TIMEOUT, HOLD, ROUND} \subseteq Nat \ {0}
    /\ MAX_AGE < TTL /\ REQUEST_TIMEOUT < MAX_AGE
    /\ MaxMoves \in Nat /\ MaxReads \in Nat \ {0}

VARIABLES
    worker,   \* per instance: next sequence, outstanding report, registration, age
              \* of the last accepted report
    reqs,     \* reports waiting for, or holding, membership_refresh
    store,    \* the instance records of the shared store, with what is left of the lease
    entry,    \* Heartbeats.entries of each coordinator
    disc,     \* age of the last_discovery of each coordinator
    lock,     \* holder of each coordinator's membership_refresh
    rec,      \* the instance snapshot the holder has read and not yet installed
    flush,    \* publications in flight, per coordinator and instance
    moves,    \* what MaxMoves bounds
    heard,    \* history: ticks since a coordinator last received a report of it
    sole,     \* history: ticks since it was last the store's only ready instance
    top,      \* history: highest sequence of it ever stored
    lent      \* history: entries whose publication time is an observation's

clients == <<worker, reqs>>
caches == <<entry, disc, lock, rec, flush>>
history == <<heard, sole, top, lent>>
vars == <<worker, reqs, store, entry, disc, lock, rec, flush, moves, heard, sole, top, lent>>

-----------------------------------------------------------------------------
\* Ages

Least(a, b) == IF a < b THEN a ELSE b

Older(x, cap) == Least(x + 1, cap)

\* Caps of an accepted report's age and of the history's ages: the longest
\* that a test of the code or a property tells apart.
LongAccepted == IF HOLD > ROUND THEN HOLD ELSE ROUND
LongSilent == TTL + 2 * REQUEST_TIMEOUT + 1
LongLost == MAX_AGE + LongAccepted

\* control_is_registered: registered, without a deadline ("yes") or before the
\* one that a failure has set, which is HOLD after the last accepted report.
Ready(i) == worker[i].reg = "yes" \/ (worker[i].reg = "until" /\ worker[i].ok < HOLD)

\* set_control_registered, after an answer.  Once unregistered only another
\* accepted report counts, so the age of the last is forgotten.
Registered(w, serving) ==
    [w EXCEPT !.wait = FALSE, !.reg = IF serving THEN "yes" ELSE "no",
              !.ok = IF serving THEN 0 ELSE LongAccepted]

-----------------------------------------------------------------------------
\* The shared store

Live(snap) == {i \in Instances : snap[i] # Nobody}

\* History: since when an instance is not the only ready one of the records.
SoleSince(records, ages) ==
    [j \in Instances |-> IF {i \in Live(records) : records[i].ready} = {j} THEN 0 ELSE ages[j]]

\* Mutant: two ready instances are no conflict.
AnyCandidate(snap) ==
    LET candidates == {i \in Live(snap) : snap[i].ready}
    IN  IF candidates # {} THEN CHOOSE i \in candidates : TRUE ELSE Nobody

\* WorkerDiscovery::retained for the one member: the sole ready instance, or
\* nobody when none is ready (Offline) or several are (Conflict).
retained(snap) ==
    LET candidates == {i \in Live(snap) : snap[i].ready}
    IN  IF Cardinality(candidates) = 1 THEN CHOOSE i \in candidates : TRUE ELSE Nobody

\* What a reader of the store sees of it.
Snapshot == [i \in Instances |->
    IF store[i] = Nobody THEN Nobody ELSE [seq |-> store[i].seq, ready |-> store[i].ready]]

\* upsert_instance: a record is replaced only by a higher sequence, and
\* neither a stale nor a duplicate report touches its lease.
Disposition(i, seq) ==
    IF store[i] = Nobody \/ seq > store[i].seq THEN "applied"
    ELSE IF seq = store[i].seq THEN "duplicate" ELSE "stale"

upsert_instance(i, seq, ready, ttl) ==
    LET next == IF Disposition(i, seq) = "applied"
                THEN [store EXCEPT ![i] = [seq |-> seq, ready |-> ready, left |-> ttl]]
                ELSE store
    IN  /\ store' = next
        /\ top' = [top EXCEPT ![i] = IF seq > @ THEN seq ELSE @]
        /\ sole' = SoleSince(next, sole)

-----------------------------------------------------------------------------
\* Heartbeats: one coordinator's buffer

\* Mutant: every write of a report is a whole lease.
WholeLease(received) == TTL

\* What is left of the lease of a report received so long ago.
Remaining(received) == TTL - received

Fresh(c) == disc[c] < MAX_AGE

\* What the buffer alone can answer (is_stale, then buffer_instance and
\* Heartbeats::receive): a refusal, its cached grant, or "admit", when the
\* store has to be asked.
Verdict(c, e, r) ==
    IF e = Nobody THEN "admit"
    ELSE IF r.seq < e.seq THEN "refuse"
    ELSE IF ~Fresh(c) THEN "admit"
    ELSE IF r.ready # e.ready THEN IF r.seq = e.seq THEN "refuse" ELSE "admit"
    ELSE IF 2 * e.per >= TTL \/ ~e.admitted THEN "admit"
    ELSE IF e.serving THEN "serve" ELSE "decline"

\* ... and what it leaves behind: a grant to a newer report is its new
\* receipt; a report that needs admission ends the grants until then.
Received(c, e, r) ==
    CASE Verdict(c, e, r) \in {"serve", "decline"} ->
            [e EXCEPT !.own = TRUE, !.seq = r.seq, !.rcv = IF r.seq > e.seq THEN 0 ELSE @]
      [] Verdict(c, e, r) = "admit" /\ e # Nobody /\ Fresh(c) -> [e EXCEPT !.admitted = FALSE]
      [] OTHER -> e

\* admit: a published report, timed from its receipt.
admit(r, own, age, serving) ==
    [seq |-> r.seq, ready |-> r.ready, own |-> own, rcv |-> age, per |-> age,
     pseq |-> r.seq, serving |-> serving, admitted |-> TRUE]

\* install: take the newer facts of a snapshot, never re-date a known one,
\* drop what is neither in the store nor freshly received, and set who serves.
Observed(e, s, age) ==
    LET pub == IF s.seq > e.pseq THEN [e EXCEPT !.pseq = s.seq, !.per = age] ELSE e
    IN  IF s.seq > e.seq
        THEN [pub EXCEPT !.seq = s.seq, !.ready = s.ready, !.rcv = age] ELSE pub

install(e, i, snap, age) ==
    LET s == snap[i]
        warm == IF s = Nobody THEN e
                ELSE IF e = Nobody THEN admit(s, FALSE, age, FALSE) ELSE Observed(e, s, age)
    IN  IF warm = Nobody \/ (s = Nobody /\ ~(warm.own /\ warm.rcv < TTL)) THEN Nobody
        ELSE [warm EXCEPT !.serving = (retained(snap) = i)]

\* Mutant: a silent instance's report is never dropped.
KeptForever(e) == e # Nobody

\* pending: what is kept, and of that what is due for publication.
Kept(e) == e # Nobody /\ (~e.own \/ e.rcv < TTL)
Due(e) == e.admitted /\ e.own /\ e.seq > e.pseq /\ 3 * e.per >= TTL

\* Mutant: dated by the write.
PersistedAtFlush(e, f) ==
    IF e = Nobody \/ e.pseq > f.seq \/ e.ready # f.ready THEN e
    ELSE [e EXCEPT !.pseq = f.seq, !.per = 0]

\* persisted: a completed publication moves the marks to the report it wrote
\* and to that report's receipt, unless the entry has moved past it.
persisted(e, f) ==
    IF e = Nobody \/ e.pseq > f.seq \/ e.ready # f.ready THEN e
    ELSE [e EXCEPT !.pseq = f.seq, !.per = f.rcv]

forget(e, f) == IF e # Nobody /\ e.seq <= f.seq THEN Nobody ELSE e

-----------------------------------------------------------------------------
Spend(n) == moves + n <= MaxMoves /\ moves' = moves + n
Fault == Spend(1)   \* a call that fails or times out, a coordinator that dies

Init ==
    /\ worker = [i \in Instances |-> [seq |-> 0, wait |-> FALSE, reg |-> "no", ok |-> LongAccepted]]
    /\ reqs = {}
    /\ store = [i \in Instances |-> Nobody]
    /\ entry = [c \in Coordinators |-> [i \in Instances |-> Nobody]]
    /\ disc = [c \in Coordinators |-> Nobody]
    /\ lock = [c \in Coordinators |-> Nobody]
    /\ rec = [c \in Coordinators |-> Nobody]
    /\ flush = [c \in Coordinators |-> [i \in Instances |-> Nobody]]
    /\ moves = 0
    /\ heard = [i \in Instances |-> LongSilent]
    /\ sole = [i \in Instances |-> LongLost]
    /\ top = [i \in Instances |-> 0]
    /\ lent = {}

-----------------------------------------------------------------------------
\* A worker instance (spawn_control_plane) and the arrival of its report

\* The acknowledgement, if the instance still waits for it: it serves only when
\* accepted as the sole instance.
Acked(i, seq, reply) ==
    LET w == worker[i]
    IN  [worker EXCEPT ![i] = IF ~w.wait \/ w.seq # seq + 1 THEN w
                              ELSE Registered(w, reply = "serve")]

\* A report and its receipt: answered from memory, or queued for
\* membership_refresh.  ready = FALSE is a report of local trouble, or the
\* final one of a process that drains.  A report that no coordinator receives
\* is in ControlFails; an answer given at once may get lost (read = FALSE).
Beat(i, c, ready, read) ==
    LET w == worker[i]
        r == [c |-> c, i |-> i, seq |-> w.seq, ready |-> ready, pc |-> "queued",
              age |-> 0, applied |-> FALSE]
        verdict == Verdict(c, entry[c][i], r)
    IN  /\ ~w.wait /\ Spend((IF ready THEN 1 ELSE 2) + (IF read THEN 0 ELSE 1))
        /\ verdict = "admit" => read
        /\ disc[c] # Nobody
        /\ heard' = [heard EXCEPT ![i] = 0]
        /\ entry' = [entry EXCEPT ![c][i] = Received(c, @, r)]
        /\ reqs' = IF verdict = "admit" THEN reqs \cup {r} ELSE reqs
        /\ worker' = [worker EXCEPT ![i] =
                LET sent == [w EXCEPT !.seq = @ + 1, !.wait = TRUE]
                IN  IF verdict = "admit" \/ ~read THEN sent
                    ELSE Registered(sent, verdict = "serve")]
        /\ UNCHANGED <<store, disc, lock, rec, flush, sole, top, lent>>

\* The report after an accepted one has to end by now.
Overdue(i) == worker[i].reg = "yes" /\ worker[i].ok >= ROUND

\* Mutant: the grace is counted from the failure.
GraceFromFailure(i) ==
    /\ worker[i].wait \/ worker[i].reg # "no"
    /\ IF Overdue(i) THEN UNCHANGED moves ELSE Fault
    /\ worker' = [worker EXCEPT ![i].wait = FALSE,
                                ![i].reg = IF @ = "no" THEN "no" ELSE "until", ![i].ok = 0]
    /\ UNCHANGED <<reqs, store, caches, history>>

\* A report gets no answer, in time or at all (a report that reached nobody
\* included): registration ends HOLD after the last accepted report, or now if
\* that is past (retain_readiness_after_control_failure).
ControlFails(i) ==
    LET w == [worker[i] EXCEPT !.wait = FALSE]
    IN  /\ worker[i].wait \/ worker[i].reg # "no"
        /\ IF Overdue(i) THEN UNCHANGED moves ELSE Fault
        /\ worker' = [worker EXCEPT ![i] =
                IF w.reg # "no" /\ w.ok < HOLD THEN [w EXCEPT !.reg = "until"]
                ELSE Registered(w, FALSE)]
        /\ UNCHANGED <<reqs, store, caches, history>>

-----------------------------------------------------------------------------
\* receive_instance, past the buffer

Answer(r, reply) == reqs' = reqs \ {r} /\ worker' = Acked(r.i, r.seq, reply)

\* Under the lock the buffer is asked again; a report it cannot answer is
\* published, for what the wait left of the lease (publish_instance).
Publish(r) ==
    LET verdict == Verdict(r.c, entry[r.c][r.i], r)
        result == Disposition(r.i, r.seq)
    IN  /\ r.pc = "queued" /\ lock[r.c] = Nobody
        /\ entry' = [entry EXCEPT ![r.c][r.i] = Received(r.c, @, r)]
        /\ IF verdict = "admit"
           THEN upsert_instance(r.i, r.seq, r.ready, Remaining(r.age))
           ELSE UNCHANGED <<store, top, sole>>
        /\ IF verdict = "admit" /\ result # "stale"
           THEN /\ reqs' = (reqs \ {r}) \cup
                           {[r EXCEPT !.pc = "refresh", !.applied = (result = "applied")]}
                /\ lock' = [lock EXCEPT ![r.c] = <<r.i, r.seq>>]
                /\ UNCHANGED worker
           ELSE Answer(r, verdict) /\ UNCHANGED lock
        /\ UNCHANGED <<moves, disc, rec, flush, heard, lent>>

Holder(c) == {r \in reqs : r.c = c /\ r.pc = "refresh" /\ lock[c] = <<r.i, r.seq>>}

\* reconcile_membership_inner reads the store, after a publication or by the
\* timer, at most once in a tick ...
Read(c) ==
    /\ rec[c] = Nobody
    /\ \/ Holder(c) # {}
       \/ /\ lock[c] = Nobody /\ (disc[c] # Nobody => disc[c] > 0)
          /\ Cardinality({d \in Coordinators : lock[d] = Timer}) < MaxReads
    /\ lock' = IF lock[c] = Nobody THEN [lock EXCEPT ![c] = Timer] ELSE lock
    /\ rec' = [rec EXCEPT ![c] = [snap |-> Snapshot, age |-> 0]]
    /\ UNCHANGED <<moves, clients, store, entry, disc, flush, history>>

\* ... and installs it later; an applied report becomes its own admission.
Install(c) ==
    LET snap == rec[c].snap
        age == rec[c].age
        installed == [i \in Instances |-> install(entry[c][i], i, snap, age)]
        dated == {i \in Instances : snap[i] # Nobody /\
                    (entry[c][i] = Nobody \/ snap[i].seq > entry[c][i].pseq)}
        mine == {r \in Holder(c) : r.applied}
    IN  /\ rec[c] # Nobody
        /\ entry' = [entry EXCEPT ![c] = [i \in Instances |->
                        IF \E r \in mine : r.i = i
                        THEN LET r == CHOOSE x \in mine : TRUE
                             IN  admit(r, TRUE, r.age, retained(snap) = i)
                        ELSE installed[i]]]
        /\ lent' = ((lent \cup {<<c, i>> : i \in dated}) \ {<<c, r.i>> : r \in mine})
        /\ disc' = [disc EXCEPT ![c] = age]
        /\ lock' = [lock EXCEPT ![c] = Nobody]
        /\ rec' = [rec EXCEPT ![c] = Nobody]
        /\ IF Holder(c) = {} THEN UNCHANGED clients
           ELSE \E r \in Holder(c) :
                    Answer(r, IF retained(snap) = r.i THEN "serve" ELSE "decline")
        /\ UNCHANGED <<moves, store, flush, heard, sole, top>>

\* The request times out, or the store fails it: an error, and the lock is free.
Abandon(r) ==
    LET held == lock[r.c] = <<r.i, r.seq>>
    IN  /\ Answer(r, "refuse") /\ Fault
        /\ lock' = IF held THEN [lock EXCEPT ![r.c] = Nobody] ELSE lock
        /\ rec' = IF held THEN [rec EXCEPT ![r.c] = Nobody] ELSE rec
        /\ UNCHANGED <<store, entry, disc, flush, history>>

ReadFails(c) ==
    /\ lock[c] = Timer /\ Fault
    /\ lock' = [lock EXCEPT ![c] = Nobody]
    /\ rec' = [rec EXCEPT ![c] = Nobody]
    /\ UNCHANGED <<clients, store, entry, disc, flush, history>>

-----------------------------------------------------------------------------
\* publish_buffered_instances: the coalesced reports

StartFlush(c) ==
    /\ disc[c] # Nobody /\ \A i \in Instances : flush[c][i] = Nobody
    /\ LET kept == [i \in Instances |-> IF Kept(entry[c][i]) THEN entry[c][i] ELSE Nobody]
           due == {i \in Instances : kept[i] # Nobody /\ Due(kept[i])}
       IN  /\ due # {} \/ kept # entry[c]
           /\ entry' = [entry EXCEPT ![c] = kept]
           /\ flush' = [flush EXCEPT ![c] = [i \in Instances |->
                IF i \in due
                THEN [seq |-> kept[i].seq, ready |-> kept[i].ready, rcv |-> kept[i].rcv,
                      left |-> Remaining(kept[i].rcv), age |-> 0, pc |-> "write"]
                ELSE Nobody]]
    /\ UNCHANGED <<moves, clients, store, disc, lock, rec, history>>

FlushWrite(c, i) ==
    LET f == flush[c][i]
    IN  /\ f # Nobody /\ f.pc = "write"
        /\ upsert_instance(i, f.seq, f.ready, f.left)
        /\ flush' = [flush EXCEPT ![c][i].pc =
                        IF Disposition(i, f.seq) = "stale" THEN "stale" ELSE "written"]
        /\ UNCHANGED <<moves, clients, entry, disc, lock, rec, heard, lent>>

FlushDone(c, i) ==
    LET f == flush[c][i]
        e == entry[c][i]
    IN  /\ f # Nobody /\ f.pc # "write"
        /\ entry' = [entry EXCEPT ![c][i] =
                        IF f.pc = "written" THEN persisted(e, f) ELSE forget(e, f)]
        /\ lent' = IF f.pc = "written" /\ e # Nobody /\ persisted(e, f) # e
                   THEN lent \ {<<c, i>>} ELSE lent
        /\ flush' = [flush EXCEPT ![c][i] = Nobody]
        /\ UNCHANGED <<moves, clients, store, disc, lock, rec, heard, sole, top>>

\* One publication fails: the pass ends and the others are dropped with it.
FlushFails(c) ==
    /\ (\E i \in Instances : flush[c][i] # Nobody) /\ Fault
    /\ flush' = [flush EXCEPT ![c] = [i \in Instances |-> Nobody]]
    /\ UNCHANGED <<clients, store, entry, disc, lock, rec, history>>

\* A coordinator process dies with its memory and its requests; a new one
\* opens its listeners after its first reconcile.
Restart(c) ==
    /\ disc[c] # Nobody /\ Fault
    /\ reqs' = {r \in reqs : r.c # c}
    /\ entry' = [entry EXCEPT ![c] = [i \in Instances |-> Nobody]]
    /\ disc' = [disc EXCEPT ![c] = Nobody]
    /\ lock' = [lock EXCEPT ![c] = Nobody]
    /\ rec' = [rec EXCEPT ![c] = Nobody]
    /\ flush' = [flush EXCEPT ![c] = [i \in Instances |-> Nobody]]
    /\ lent' = {x \in lent : x[1] # c}
    /\ UNCHANGED <<worker, store, heard, sole, top>>

-----------------------------------------------------------------------------
\* Time passes: leases run down (prune_expired), everything else gets older.
\* Nothing outlives its timeout: an overdue step has to end first.  So has,
\* an interval and its timeout after an accepted report, the one after it.

Tick ==
    /\ \A i \in Instances : ~Overdue(i)
    /\ \A r \in reqs : r.age < REQUEST_TIMEOUT
    /\ \A c \in Coordinators :
        /\ rec[c] # Nobody => rec[c].age < REQUEST_TIMEOUT
        /\ \A i \in Instances : flush[c][i] # Nobody => flush[c][i].age < REQUEST_TIMEOUT
    /\ worker' = [i \in Instances |->
            [worker[i] EXCEPT !.ok = Older(@, LongAccepted)]]
    /\ reqs' = {[r EXCEPT !.age = @ + 1] : r \in reqs}
    /\ store' = [i \in Instances |->
            IF store[i] = Nobody \/ store[i].left = 1 THEN Nobody
            ELSE [store[i] EXCEPT !.left = @ - 1]]
    /\ entry' = [c \in Coordinators |-> [i \in Instances |->
            IF entry[c][i] = Nobody THEN Nobody
            ELSE [entry[c][i] EXCEPT !.rcv = Older(@, TTL), !.per = Older(@, TTL)]]]
    /\ disc' = [c \in Coordinators |->
            IF disc[c] = Nobody THEN Nobody ELSE Older(disc[c], MAX_AGE)]
    /\ rec' = [c \in Coordinators |->
            IF rec[c] = Nobody THEN Nobody ELSE [rec[c] EXCEPT !.age = @ + 1]]
    /\ flush' = [c \in Coordinators |-> [i \in Instances |->
            IF flush[c][i] = Nobody THEN Nobody
            ELSE [flush[c][i] EXCEPT !.rcv = Older(@, TTL), !.age = @ + 1]]]
    /\ heard' = [i \in Instances |-> Older(heard[i], LongSilent)]
    /\ sole' = SoleSince(store', [i \in Instances |-> Older(sole[i], LongLost)])
    /\ UNCHANGED <<moves, lock, top, lent>>

Next ==
    \/ \E i \in Instances, c \in Coordinators, ready, read \in BOOLEAN : Beat(i, c, ready, read)
    \/ \E i \in Instances : ControlFails(i)
    \/ \E r \in reqs : Publish(r) \/ Abandon(r)
    \/ \E c \in Coordinators : Read(c) \/ Install(c) \/ ReadFails(c)
    \/ \E c \in Coordinators : StartFlush(c) \/ FlushFails(c) \/ Restart(c)
    \/ \E c \in Coordinators, i \in Instances : FlushWrite(c, i) \/ FlushDone(c, i)
    \/ Tick

Spec == Init /\ [][Next]_vars
-----------------------------------------------------------------------------
\* Properties

Seqs == 0..MaxMoves
Maybe(S) == S \cup {Nobody}

WorkerType ==
    [seq : Seqs, wait : BOOLEAN, reg : {"no", "yes", "until"}, ok : 0..LongAccepted]
RequestType ==
    [c : Coordinators, i : Instances, seq : Seqs, ready : BOOLEAN,
     pc : {"queued", "refresh"}, age : 0..REQUEST_TIMEOUT,
     applied : BOOLEAN]
RecordType == [seq : Seqs, ready : BOOLEAN, left : 1..TTL]
EntryType ==
    [seq : Seqs, ready : BOOLEAN, own : BOOLEAN, rcv : 0..TTL, per : 0..TTL, pseq : Seqs,
     serving : BOOLEAN, admitted : BOOLEAN]
ViewType == [seq : Seqs, ready : BOOLEAN]
ReadType == [snap : [Instances -> Maybe(ViewType)], age : 0..REQUEST_TIMEOUT]
FlushType ==
    [seq : Seqs, ready : BOOLEAN, rcv : 0..TTL, left : 1..TTL, age : 0..REQUEST_TIMEOUT,
     pc : {"write", "written", "stale"}]
HolderType == {Timer} \cup (Instances \X Seqs)

\* Instances are finitely many, and no value is both something and nothing.
ASSUME NobodyAssumption ==
    /\ IsFiniteSet(Instances)
    /\ \A S \in {RecordType, EntryType, ViewType, ReadType, FlushType, HolderType,
                 Instances, 0..MAX_AGE} : Nobody \notin S
    /\ Timer \notin Instances \X Seqs

\* Every variable keeps its type, and no store lease, buffered age or request
\* outlives the timeout that bounds it.
TypeOK ==
    /\ worker \in [Instances -> WorkerType]
    /\ reqs \subseteq RequestType
    /\ store \in [Instances -> Maybe(RecordType)]
    /\ entry \in [Coordinators -> [Instances -> Maybe(EntryType)]]
    /\ flush \in [Coordinators -> [Instances -> Maybe(FlushType)]]
    /\ disc \in [Coordinators -> Maybe(0..MAX_AGE)]
    /\ lock \in [Coordinators -> Maybe(HolderType)]
    /\ rec \in [Coordinators -> Maybe(ReadType)]
    /\ \A c \in Coordinators : rec[c] # Nobody => lock[c] # Nobody
    /\ moves \in 0..MaxMoves
    /\ heard \in [Instances -> 0..LongSilent] /\ sole \in [Instances -> 0..LongLost]
    /\ top \in [Instances -> Seqs] /\ lent \subseteq Coordinators \X Instances

\* Buffering does not extend a dead process's life (heartbeats.rs:121): the
\* lease in the store ends a TTL after some coordinator last heard from the
\* instance, plus the wait for the lock and the wait for the write, whatever
\* was queued, coalesced, flushed, repeated or observed in between.
LeaseBounded ==
    \A i \in Instances : store[i] # Nobody =>
        store[i].left + heard[i] <= TTL + 2 * REQUEST_TIMEOUT

\* An instance serves only after it was accepted as the sole one, and stops
\* serving in time when it no longer is, cut off, expired or in conflict with
\* another.  An approval is as old as a discovery may be; a healthy one has no
\* deadline and holds until the next report ends, and after a failure it
\* holds for the grace, counted from the last accepted report.
ReadyOnlyIfSole ==
    \A i \in Instances : Ready(i) =>
        sole[i] <= (MAX_AGE - 1) + (IF worker[i].reg = "until" THEN HOLD - 1 ELSE ROUND)

\* What a coordinator believes of the store is true.  No report counts as
\* published that never reached it: a newer report buffered while an older one
\* is flushed stays pending.  And an approval from memory is covered: while a
\* coordinator may approve an instance it published itself, the store holds a
\* lease at least as long as its own reckoning from the receipt.
AdmissionBacked ==
    \A c \in Coordinators, i \in Instances :
        LET e == entry[c][i]
        IN  e # Nobody =>
            /\ e.pseq <= top[i]
            /\ <<c, i>> \notin lent /\ e.admitted /\ 2 * e.per < TTL =>
                 store[i] # Nobody /\ store[i].left + e.per + REQUEST_TIMEOUT >= TTL
=============================================================================
