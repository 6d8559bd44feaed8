--------------------------- MODULE SingleFlight ---------------------------
(***************************************************************************)
(* Concurrent misses of one block (talon-worker: miss.rs, and the paths of *)
(* runtime.rs that use it: load_block_range for a whole block,             *)
(* paged_block_range_inner for the pages of a read, small_object_range for *)
(* a small object).                                                        *)
(*                                                                         *)
(* A request that misses asks InFlightLoads for the key of a unit: the     *)
(* block, or a page of it.  Who finds the key vacant leads: it fetches,    *)
(* commits and drops a guard that removes the key and wakes the waiters.   *)
(* The others wait and probe the cache again.  A read of several pages     *)
(* leads some and follows others: consecutive pages that it leads are one  *)
(* run, and it follows only after its runs have ended.                     *)
(* A request may be cancelled at its await points; a commit that has begun *)
(* runs on in a task of its own.                                           *)
(*                                                                         *)
(* Steps.  Each critical section of the map's mutex is one step, and so is *)
(* each step of wait between two of them.  A flight is one life of a key,  *)
(* from its insertion to its removal, and has a Notify of its own.  The    *)
(* commit and the probe are one step each: what arbitrates them is in      *)
(* PageArbitration.                                                        *)
(***************************************************************************)
EXTENDS Naturals, FiniteSets

CONSTANTS
  Callers,     \* requests, one read each
  Pages,       \* numbers of the pages that are read; a whole block is page 1
  Reads,       \* the ranges of pages each request may read
  Concurrency, \* paged_miss_run_concurrency
  MaxFaults    \* bound of the model: failures, cancellations and evictions

ASSUME BoundsAssumption ==
  /\ IsFiniteSet(Callers) /\ Pages \subseteq Nat /\ 1 \in Pages
  /\ \A c \in Callers : Reads[c] \subseteq SUBSET Pages
  /\ Concurrency \in Nat \ {0} /\ MaxFaults \in Nat

None == 0

VARIABLES
  kind,      \* the path the requests take: "whole", "small" or "paged"
  want,      \* the units each request reads
  entry,     \* the flight of each key in InFlightLoads, or None
  started,   \* number of flights admitted so far
  signalled, \* flights whose Notify had notify_waiters called
  cached,    \* the units a probe finds, in the index and on disk
  caller,    \* each request: its place, and what it follows
  lead,      \* each request: the units it loads itself, and its guards
  detached,  \* commits of cancelled requests that still run
  faults     \* number of failures, cancellations and evictions so far

config == <<kind, want>>
flights == <<entry, started, signalled>>
vars == <<config, flights, cached, caller, lead, detached, faults>>

Places == {"probe", "admit", "settle", "lookup", "create", "recheck",
           "await", "reprobe", "done"}
Stages == {"none", "fetch", "commit", "kept", "remove", "signal", "free"}

\* A request: the unit it is at, those it has found in flight, those it has
\* still to wait for, the waits it began, the flight it waits for, whether its
\* Notified came after the signal of that flight, and whether it has failed.
Fresh == [pc |-> "probe", unit |-> 1, follows |-> {}, left |-> {}, waits |-> 0,
          on |-> None, late |-> FALSE, err |-> FALSE]

Idle == [at |-> "none", flight |-> None]

Lowest(S) == CHOOSE u \in S : \A v \in S : u <= v

\* touched_pages: the consecutive pages of a read, none of an empty one.
Begin(units) == IF units = {} THEN [Fresh EXCEPT !.pc = "done"]
                ELSE [Fresh EXCEPT !.unit = Lowest(units)]

Init ==
  /\ kind \in {"whole", "small", "paged"}
  /\ want \in [Callers -> SUBSET Pages]
  /\ \A c \in Callers : want[c] \in IF kind = "paged" THEN Reads[c] ELSE {{1}}
  /\ entry = [u \in Pages |-> None] /\ started = 0 /\ signalled = {}
  /\ cached = {}
  /\ caller = [c \in Callers |-> Begin(want[c])]
  /\ lead = [c \in Callers |-> [u \in Pages |-> Idle]]
  /\ detached = {}
  /\ faults = 0

At(c, place)  == caller[c].pc = place
Goto(c, place) == caller' = [caller EXCEPT ![c].pc = place]
Unit(c) == caller[c].unit

Fault == faults < MaxFaults /\ faults' = faults + 1

-----------------------------------------------------------------------------
(***************************************************************************)
(* What a request loads itself.                                            *)
(***************************************************************************)

Active(c) == {u \in Pages : lead[c][u].at \notin {"none", "free"}}

\* The run of consecutive units that u belongs to.
Run(c, u) == {v \in Active(c) : \A w \in Pages :
                (u < w /\ w < v) \/ (v < w /\ w < u) => w \in Active(c)}

\* The runs of a request, by their first units; they start in this order, at
\* most Concurrency at a time, and the request awaits them all.
Runs(c) == {u \in Active(c) : \A v \in Run(c, u) : u <= v}
Started(c, u) == /\ At(c, "settle") /\ u \in Runs(c)
                 /\ Cardinality({v \in Runs(c) : v < u}) < Concurrency

\* The units R are finished with, loaded or not: their guards are dropped
\* next; a fetch without the key has none.
Ended(c, R) ==
  [u \in Pages |->
     IF u \notin R \/ lead[c][u].at \in {"remove", "signal"} THEN lead[c][u]
     ELSE IF lead[c][u].flight = None THEN [Idle EXCEPT !.at = "free"]
     ELSE [lead[c][u] EXCEPT !.at = "remove"]]

\* The request fails: it drops every guard it has and ends.
Drop(c) ==
  /\ lead' = [lead EXCEPT ![c] = Ended(c, Active(c))]
  /\ caller' = [caller EXCEPT ![c].pc = "settle", ![c].err = TRUE]

-----------------------------------------------------------------------------
(***************************************************************************)
(* The request: probe the cache and ask for the key of what it misses, one *)
(* unit after the other, then settle.                                      *)
(***************************************************************************)

\* cached_block_range, cached_page and cached_small_range find the unit in the
\* index and read it.  An entry whose file is gone is an Evict before.
Hit(c) == Unit(c) \in cached

\* The read of a resident unit fails, and the request with it.
ReadFails(c) ==
  /\ At(c, "probe") \/ At(c, "reprobe")
  /\ Hit(c)
  /\ Drop(c)
  /\ Fault
  /\ UNCHANGED <<config, flights, cached, detached>>

\* One unit has been looked at: the next, or what was led and followed.
Probed(c, request) ==
  LET rest == {u \in want[c] : u > request.unit} IN
  caller' = [caller EXCEPT ![c] =
    IF rest = {} THEN [request EXCEPT !.pc = "settle"]
    ELSE [request EXCEPT !.pc = "probe", !.unit = Lowest(rest)]]

Probe(c) ==
  /\ At(c, "probe")
  /\ IF Hit(c) THEN Probed(c, caller[c]) ELSE Goto(c, "admit")
  /\ UNCHANGED <<config, flights, cached, lead, detached, faults>>

\* admit_traced: a vacant key gets a new Notify and this request its guard.
Lead(c) ==
  /\ At(c, "admit")
  /\ entry[Unit(c)] = None
  /\ started' = started + 1
  /\ entry' = [entry EXCEPT ![Unit(c)] = started']
  /\ lead' = [lead EXCEPT ![c][Unit(c)] = [at |-> "fetch", flight |-> started']]
  /\ Probed(c, caller[c])
  /\ UNCHANGED <<config, signalled, cached, detached, faults>>

\* admit_traced: the key is occupied, so the request has to wait for it.
Follow(c) ==
  /\ At(c, "admit")
  /\ entry[Unit(c)] # None
  /\ Probed(c, [caller[c] EXCEPT !.follows = @ \cup {Unit(c)},
                                 !.left = @ \cup {Unit(c)},
                                 !.waits = IF @ < 2 THEN @ + 1 ELSE @])
  /\ UNCHANGED <<config, flights, cached, lead, detached, faults>>

\* Mutant: a read waits for the pages of others before it loads its own.
FollowFirst(c) ==
  /\ At(c, "settle")
  /\ Active(c) = {} \/ (caller[c].left # {} /\ ~caller[c].err)
  /\ caller' = [caller EXCEPT ![c] =
       IF caller[c].err \/ caller[c].left = {} THEN [@ EXCEPT !.pc = "done"]
       ELSE [@ EXCEPT !.pc = "lookup", !.unit = Lowest(caller[c].left)]]
  /\ UNCHANGED <<config, flights, cached, lead, detached, faults>>

\* Nothing that the request loads itself is left: it fails, follows the next
\* unit, or has all.
Settle(c) ==
  /\ At(c, "settle") /\ Active(c) = {}
  /\ caller' = [caller EXCEPT ![c] =
       IF caller[c].err \/ caller[c].left = {} THEN [@ EXCEPT !.pc = "done"]
       ELSE [@ EXCEPT !.pc = "lookup", !.unit = Lowest(caller[c].left)]]
  /\ UNCHANGED <<config, flights, cached, lead, detached, faults>>

(***************************************************************************)
(* InFlightLoads::wait.                                                    *)
(***************************************************************************)

\* The lookup under the mutex clones the Notify.
Lookup(c) ==
  /\ At(c, "lookup")
  /\ caller' = IF entry[Unit(c)] = None
               THEN [caller EXCEPT ![c].pc = "reprobe"]
               ELSE [caller EXCEPT ![c].pc = "create", ![c].on = entry[Unit(c)]]
  /\ UNCHANGED <<config, flights, cached, lead, detached, faults>>

\* tokio's Notify::notified and enable: the future sees the notify_waiters
\* calls that come after its creation, never an earlier one.
Create(c) ==
  /\ At(c, "create")
  /\ caller' = [caller EXCEPT ![c].pc = "recheck",
                              ![c].late = caller[c].on \in signalled]
  /\ UNCHANGED <<config, flights, cached, lead, detached, faults>>

\* wait goes on without its Notified.
Woken(c, place) ==
  [caller[c] EXCEPT !.pc = place, !.on = None, !.late = FALSE]

\* is_in_flight asks for the key, whichever flight holds it now.
Recheck(c) ==
  /\ At(c, "recheck")
  /\ caller' = [caller EXCEPT ![c] =
       IF entry[Unit(c)] = None THEN Woken(c, "reprobe") ELSE [@ EXCEPT !.pc = "await"]]
  /\ UNCHANGED <<config, flights, cached, lead, detached, faults>>

\* The Notified completes, and wait looks the key up again.
Wake(c) ==
  /\ At(c, "await")
  /\ caller[c].on \in signalled /\ ~caller[c].late
  /\ caller' = [caller EXCEPT ![c] = Woken(c, "lookup")]
  /\ UNCHANGED <<config, flights, cached, lead, detached, faults>>

\* Whether a miss after the wait asks for the key again: once for a whole
\* block, always for a small object, never for a page.
AsksAgain(c) == kind = "small" \/ (kind = "whole" /\ caller[c].waits = 1)

\* Probe after the wait.  A request that does not ask again fetches without
\* the key.
Reprobe(c) ==
  /\ At(c, "reprobe")
  /\ caller' = [caller EXCEPT ![c].left = @ \ {Unit(c)},
                  ![c].pc = IF ~Hit(c) /\ AsksAgain(c) THEN "admit" ELSE "settle"]
  /\ lead' = IF Hit(c) \/ AsksAgain(c) THEN lead
             ELSE [lead EXCEPT ![c][Unit(c)] = [Idle EXCEPT !.at = "fetch"]]
  /\ UNCHANGED <<config, flights, cached, detached, faults>>

-----------------------------------------------------------------------------
(***************************************************************************)
(* fetch_and_commit and fetch_and_commit_pages, for the run that starts    *)
(* with u.                                                                 *)
(***************************************************************************)

\* Mutant: the leader gives its keys up when it has the bytes, and commits in
\* the background.
FetchEarlyDrop(c, u) ==
  /\ Started(c, u) /\ lead[c][u].at = "fetch"
  /\ detached' = detached \cup ({c} \X Run(c, u))
  /\ lead' = [lead EXCEPT ![c] = Ended(c, Run(c, u))]
  /\ UNCHANGED <<config, flights, cached, caller, faults>>

\* fetch_range_if_match returns the bytes of the run.
Fetch(c, u) ==
  /\ Started(c, u) /\ lead[c][u].at = "fetch"
  /\ lead' = [lead EXCEPT ![c] = [v \in Pages |->
       IF v \in Run(c, u) /\ @[v].at = "fetch"
       THEN [@[v] EXCEPT !.at = "commit"] ELSE @[v]]]
  /\ UNCHANGED <<config, flights, cached, caller, detached, faults>>

\* The run fails; the others go on, and then the request fails.
RunFails(c, u) ==
  /\ lead' = [lead EXCEPT ![c] = Ended(c, Run(c, u))]
  /\ caller' = [caller EXCEPT ![c].err = TRUE]
  /\ Fault

\* The backend fails, or the object has changed (If-Match).
FetchFails(c, u) ==
  /\ Started(c, u) /\ lead[c][u].at = "fetch"
  /\ RunFails(c, u)
  /\ UNCHANGED <<config, flights, cached, detached>>

\* The unit whose commit the run awaits: its pages are committed in order.
Committing(c, u) ==
  /\ lead[c][u].at = "commit"
  /\ \A v \in Run(c, u) : v < u => lead[c][v].at = "kept"

\* commit_cached_block and commit_fetched_page.
Commit(c, u) ==
  /\ At(c, "settle") /\ Committing(c, u)
  /\ cached' = cached \cup {u}
  /\ lead' = [lead EXCEPT ![c] = IF \A v \in Run(c, u) : v <= u
                                 THEN Ended(c, Run(c, u))
                                 ELSE [@ EXCEPT ![u].at = "kept"]]
  /\ UNCHANGED <<config, flights, caller, detached, faults>>

CommitFails(c, u) ==
  /\ At(c, "settle") /\ Committing(c, u)
  /\ RunFails(c, u)
  /\ UNCHANGED <<config, flights, cached, detached>>

\* The commit of a cancelled request goes on in its own task.
CommitDetached(c, u) ==
  /\ <<c, u>> \in detached
  /\ detached' = detached \ {<<c, u>>}
  /\ \/ cached' = cached \cup {u} /\ UNCHANGED faults
     \/ Fault /\ UNCHANGED cached
  /\ UNCHANGED <<config, flights, caller, lead>>

-----------------------------------------------------------------------------
(***************************************************************************)
(* complete, called by a guard's drop: the key leaves the map under the    *)
(* mutex, and the waiters are woken after it is released.  The guards of a *)
(* run are dropped one after the other.                                    *)
(***************************************************************************)
Dropping(c) == {u \in Pages : lead[c][u].at \in {"remove", "signal"}}
NextGuard(c, u) == u \in Dropping(c) /\ \A v \in Dropping(c) : u <= v

Remove(c, u) ==
  /\ NextGuard(c, u) /\ lead[c][u].at = "remove"
  /\ entry' = [entry EXCEPT ![u] = None]
  /\ lead' = [lead EXCEPT ![c][u].at = "signal"]
  /\ UNCHANGED <<config, started, signalled, cached, caller, detached,
                 faults>>

Signal(c, u) ==
  /\ NextGuard(c, u) /\ lead[c][u].at = "signal"
  /\ signalled' = signalled \cup {lead[c][u].flight}
  /\ lead' = [lead EXCEPT ![c][u] = [at |-> "free", flight |-> None]]
  /\ UNCHANGED <<config, entry, started, cached, caller, detached,
                 faults>>

\* The client goes away at an await point: the commits that have begun are
\* not dropped with the request.  A small object is loaded in a task.
Leaves(c) ==
  /\ kind # "small" /\ Fault
  /\ caller[c].pc \in {"probe", "settle", "await", "reprobe"}
  /\ At(c, "settle") => Active(c) # {} /\ Dropping(c) = {}
  /\ detached' = detached \cup ({c} \X {u \in Pages : Committing(c, u)})
  /\ Drop(c)

\* Mutant: every request clears its key on its way out, leader or not.
CancelAnyClears(c) ==
  /\ Leaves(c)
  /\ entry' = [entry EXCEPT ![Unit(c)] = None]
  /\ UNCHANGED <<config, started, signalled, cached>>

Cancel(c) ==
  /\ Leaves(c)
  /\ UNCHANGED <<config, flights, cached>>

\* A unit leaves the index (capacity, TTI, or a file found missing).
Evict(u) ==
  /\ u \in cached /\ Fault
  /\ cached' = cached \ {u}
  /\ UNCHANGED <<config, flights, caller, lead, detached>>

-----------------------------------------------------------------------------
\* The steps a scheduled request takes.
Step(c) ==
  \/ Probe(c) \/ ReadFails(c) \/ Lead(c) \/ Follow(c) \/ Settle(c)
  \/ Lookup(c) \/ Create(c) \/ Recheck(c) \/ Wake(c) \/ Reprobe(c)
  \/ \E u \in Pages :
       \/ Fetch(c, u) \/ FetchFails(c, u) \/ Commit(c, u) \/ CommitFails(c, u)
       \/ Remove(c, u) \/ Signal(c, u)

Next ==
  \/ \E c \in Callers : Step(c) \/ Cancel(c)
  \/ \E c \in Callers, u \in Pages : CommitDetached(c, u)
  \/ \E u \in Pages : Evict(u)

Spec == Init /\ [][Next]_vars

(***************************************************************************)
(* The executor polls every task that is ready, and the backend answers or *)
(* times out.  Nobody has to cancel, and nothing has to be evicted.        *)
(***************************************************************************)
FairSpec == Spec /\ \A c \in Callers : WF_vars(Step(c))

-----------------------------------------------------------------------------
(***************************************************************************)
(* Properties                                                              *)
(***************************************************************************)

\* Requests with an InFlightGuard of u whose complete has not removed the key.
Guards(u) == {c \in Callers : lead[c][u].flight # None /\ lead[c][u].at # "signal"}

\* A key is in the map exactly while one request owns its guard, and it is
\* that request's flight: complete removes by key, not by flight, so a guard
\* that outlived its flight would let two leaders load the unit at once, and
\* a lost guard would leave an orphan that every later reader waits for (#162).
KeyOwned ==
  \A u \in Pages :
    IF entry[u] = None THEN Guards(u) = {}
    ELSE \E c \in Callers : Guards(u) = {c} /\ lead[c][u].flight = entry[u]

\* A request that found a load in flight does not fetch that unit again when
\* nothing failed, was cancelled or was evicted: the leader's guard outlives
\* its commit, and that of every page of its run, so a woken follower hits.
FollowersNeverFetch ==
  faults = 0 =>
    \A c \in Callers : \A u \in caller[c].follows : lead[c][u] = Idle

\* A waiter whose Notified came after its flight's only notify_waiters.
Stranded(c) == At(c, "await") /\ caller[c].late

\* Every request ends, whoever fails or goes away, with the one exception of
\* a waiter that missed its wakeup: reads that lead some pages and follow each
\* other's do not wait in a circle, and no other order of removal, signal, new
\* admission and second wait leaves a request behind.
RequestsEnd ==
  \A c \in Callers : []<>(At(c, "done") \/ Stranded(c))

\* What miss.rs says of wait: a complete that races between the lookup and
\* the await cannot cause a missed wakeup, so a sleeping waiter is woken.
WaiterWakes ==
  \A c \in Callers : At(c, "await") ~> ~At(c, "await")
=============================================================================
