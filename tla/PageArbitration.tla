-------------------------- MODULE PageArbitration --------------------------
(***************************************************************************)
(* Readers, fills and deletions of the pages of one block                  *)
(* (talon-worker: page_lifecycle.rs, runtime/page_maintenance.rs, the page *)
(* commit of runtime.rs and the page table of index.rs).                   *)
(*                                                                         *)
(* Every page has a handle with one atomic word that counts its readers    *)
(* and carries the flags of its deletion.  A reader takes no lock.  A      *)
(* collector selects a page under the block lock, waits for permits and    *)
(* for the block's mutation gate, and then claims the page with one CAS on *)
(* the word.  A stale block is claimed page by page.  Fills admit pages    *)
(* under the same gate.  The lifecycle record that owns the gate is        *)
(* retired when nobody uses the block.                                     *)
(*                                                                         *)
(* Abstractions.  Time is reduced to whether a page's last access is older *)
(* than the TTI; the policy's block activity to whether it changed since   *)
(* the stale block was chosen.  Loads and compare-exchanges on one word    *)
(* are one step: a compare-exchange that fails leaves nothing behind.      *)
(***************************************************************************)
EXTENDS Naturals, FiniteSets

CONSTANTS
  Pages,       \* page numbers of the block
  Readers,     \* read requests
  Collectors,  \* page evictions in flight
  Evictor,     \* the eviction of the whole block
  Fillers,     \* page commits in flight
  WarmFillers, \* the fills that share the gate (lock_page_fill)
  Tti,         \* page TTI, and with it access tracking, is enabled
  MaxHandles,  \* bound of the model: PageState objects
  MaxLives,    \* bound of the model: BlockState objects
  MaxSelect    \* bound of the model: selections of one page entry

Procs   == Collectors \cup {Evictor} \cup Fillers
Handles == 1..MaxHandles
Lives   == 1..MaxLives

ASSUME ConstantsAssumption ==
  /\ MaxHandles \in Nat \ {0}
  /\ MaxLives \in Nat \ {0}
  /\ MaxSelect \in Nat
  /\ Tti \in BOOLEAN
  /\ WarmFillers \subseteq Fillers
  /\ Collectors \cap Fillers = {}
  /\ Evictor \notin Collectors \cup Fillers
  /\ Readers \cap Fillers = {}
  /\ IsFiniteSet(Pages) /\ Pages # {}
  /\ IsFiniteSet(Readers) /\ IsFiniteSet(Fillers)

VARIABLES
  word,      \* PageState.state of each handle
  idle,      \* whether a handle's last access is older than the TTI
  entry,     \* the handle in the page table, or 0
  selection, \* PageEntry.selection
  resident,  \* pages the index calls present
  file,      \* pages whose file exists
  retries,   \* BlockPages.retries
  cleanup,   \* BlockPages.cleanup_pending
  queued,    \* the block's slot is in ShardWork.pending
  life,      \* the block's BlockState in the registry, or 0
  gate,      \* who holds the mutation gate of each BlockState
  rd,        \* readers
  job,       \* collectors, the block evictor and fills; "quiet": the policy
             \* saw no use of the block since it was chosen; "used" is a
             \* history of uses of the target since it was selected
  handles,   \* handles created
  lives,     \* BlockStates created
  torn       \* history: pages a failed directory removal took away

tableVars == <<entry, selection, resident>>
lifeVars  == <<retries, cleanup, queued, life, lives>>
vars == <<word, idle, entry, selection, resident, file, retries, cleanup,
          queued, life, gate, rd, job, handles, lives, torn>>

-----------------------------------------------------------------------------

FreshWord == [readers |-> 0, retry |-> 0, closed |-> FALSE, accessed |-> FALSE]
NoRead    == [at |-> "idle", page |-> CHOOSE p \in Pages : TRUE, handle |-> 0]
NoJob     == [at |-> "idle", page |-> CHOOSE p \in Pages : TRUE, handle |-> 0,
              sel |-> 0, reason |-> 0, life |-> 0, claimed |-> {},
              quiet |-> FALSE, used |-> FALSE]

Resident == {p \in Pages : entry[p] # 0}

(* A job keeps the BlockState it was given alive.                          *)
Owners(l) == {x \in Procs : job[x].at # "idle" /\ job[x].life = l}

(* PageLifecycle::block: the BlockState in the registry, or a new one.     *)
Obtain ==
  IF life # 0 THEN UNCHANGED <<life, lives, queued, cleanup, retries>>
  ELSE /\ lives < MaxLives
       /\ lives' = lives + 1
       /\ life' = lives + 1
       /\ queued' = TRUE
       /\ cleanup' = FALSE
       /\ retries' = {}

(* The candidate of another selection, or of a removed entry, is stale.    *)
Current(c) ==
  /\ entry[job[c].page] = job[c].handle
  /\ selection[job[c].page] = job[c].sel

(* Collectors whose target is the page, and the evictor once it has one.   *)
Collecting(p) == {c \in Collectors : job[c].at # "idle" /\ job[c].page = p}
Evicting      == {x \in {Evictor} : job[x].at # "idle"}
Use(D)        == [x \in Procs |-> IF x \in D THEN [job[x] EXCEPT !.used = TRUE]
                                             ELSE job[x]]

Leave(x) ==
  /\ job' = [job EXCEPT ![x] = NoJob]
  /\ gate' = [gate EXCEPT ![job[x].life] = @ \ {x}]

-----------------------------------------------------------------------------
(* Readers.                                                                *)

(* BlockIndex::page_reads_and_touch, PageState::acquire.                   *)
Acquire(r, p) ==
  /\ rd[r].at = "idle"
  /\ entry[p] # 0
  /\ p \in resident
  /\ ~word[entry[p]].closed
  /\ word' = [word EXCEPT ![entry[p]].readers = @ + 1]
  /\ rd' = [rd EXCEPT ![r] = [at |-> "acquired", page |-> p,
                              handle |-> entry[p]]]
  /\ job' = Use(Evicting)
  /\ UNCHANGED <<idle, tableVars, file, lifeVars, gate, handles, torn>>

(* The policy learns of the use after the page is protected.               *)
TouchPolicy(r) ==
  /\ rd[r].at = "acquired"
  /\ rd' = [rd EXCEPT ![r].at = "reading"]
  /\ job' = [job EXCEPT ![Evictor].quiet = FALSE]
  /\ UNCHANGED <<word, idle, tableVars, file, lifeVars, gate, handles, torn>>

(* The bytes were read: PageState::touch, if TTI is enabled.               *)
Touch(r) ==
  /\ rd[r].at = "reading"
  /\ rd[r].page \in file
  /\ rd' = [rd EXCEPT ![r].at = "touched"]
  /\ idle' = IF Tti THEN [idle EXCEPT ![rd[r].handle] = FALSE] ELSE idle
  /\ UNCHANGED <<word, tableVars, file, lifeVars, gate, job, handles, torn>>

(* PageState::release after a successful read cancels a retry.             *)
Release(r) ==
  /\ rd[r].at = "touched"
  /\ word' = [word EXCEPT ![rd[r].handle].readers = @ - 1,
                          ![rd[r].handle].retry = 0,
                          ![rd[r].handle].accessed = TRUE]
  /\ rd' = [rd EXCEPT ![r] = NoRead]
  /\ job' = Use(Collecting(rd[r].page))
  /\ UNCHANGED <<idle, tableVars, file, lifeVars, gate, handles, torn>>

(* An error or a dropped request releases without having read.             *)
Abandon(r) ==
  /\ rd[r].at = "reading"
  /\ word' = [word EXCEPT ![rd[r].handle].readers = @ - 1]
  /\ rd' = [rd EXCEPT ![r] = NoRead]
  /\ UNCHANGED <<idle, tableVars, file, lifeVars, gate, job, handles, torn>>

(* Time passes.                                                            *)
Age(h) ==
  /\ Tti
  /\ h <= handles
  /\ ~idle[h]
  /\ idle' = [idle EXCEPT ![h] = TRUE]
  /\ UNCHANGED <<word, tableVars, file, lifeVars, gate, rd, job, handles,
                 torn>>

-----------------------------------------------------------------------------
(* Selection of pages.                                                     *)

(* Mutant: a selection does not make older candidates stale.               *)
SelectUncounted(c, p, reason, l) ==
  /\ job[c].at = "idle"
  /\ selection[p] < MaxSelect
  /\ word' = [word EXCEPT ![entry[p]].accessed = FALSE]
  /\ job' = [job EXCEPT ![c] = [NoJob EXCEPT !.at = "picked", !.page = p,
       !.handle = entry[p], !.sel = selection[p], !.reason = reason,
       !.life = l]]
  /\ UNCHANGED <<entry, selection, resident>>

(* BlockState::select: the access bit is consumed and the candidate gets   *)
(* the next selection number.                                              *)
Select(c, p, reason, l) ==
  /\ job[c].at = "idle"
  /\ selection[p] < MaxSelect
  /\ word' = [word EXCEPT ![entry[p]].accessed = FALSE]
  /\ selection' = [selection EXCEPT ![p] = @ + 1]
  /\ job' = [job EXCEPT ![c] = [NoJob EXCEPT !.at = "picked", !.page = p,
       !.handle = entry[p], !.sel = selection[p] + 1, !.reason = reason,
       !.life = l]]
  /\ UNCHANGED <<entry, resident>>

(* Capacity pressure: BlockState::candidate.                               *)
Candidate(c, p) ==
  /\ entry[p] # 0
  /\ ~word[entry[p]].closed
  /\ Obtain
  /\ Select(c, p, 1, life')
  /\ UNCHANGED <<idle, file, gate, rd, handles, torn>>

(* BlockState::retirement_ready, with nobody outside the registry.         *)
Retirable ==
  /\ life # 0
  /\ Tti => Resident = {}
  /\ ~cleanup
  /\ retries = {}
  /\ Owners(life) = {}

(* Which pages a scan visits, and what makes it select one.                *)
Visited == IF Tti THEN Resident ELSE IF queued THEN retries ELSE {}
Expired(h)   == Tti /\ idle[h]
Retryable(h) == word[h].retry > IF Tti THEN 0 ELSE 1
Selectable(h) ==
  /\ ~word[h].closed
  /\ word[h].readers = 0
  /\ Expired(h) \/ Retryable(h)

(* Mutant: a block leaves the pending set with retries outstanding.        *)
SettleEarly(p) ==
  /\ retries' = retries \ {p}
  /\ queued' = (queued /\ ~(Tti /\ ~cleanup))

(* A retry that a read cancelled leaves the retry set, and a block without *)
(* work leaves the pending set.                                            *)
Settle(p) ==
  /\ retries' = IF word[entry[p]].retry = 0 THEN retries \ {p} ELSE retries
  /\ queued' = (queued /\ ~(Tti /\ retries' = {} /\ ~cleanup))

(* PageLifecycle::scan, one page of it.                                    *)
Scan(c, p) ==
  /\ life # 0
  /\ ~Retirable
  /\ p \in Visited
  /\ Selectable(entry[p])
  /\ Select(c, p, IF Expired(entry[p]) THEN 0 ELSE word[entry[p]].retry - 1,
            life)
  /\ Settle(p)
  /\ UNCHANGED <<idle, file, cleanup, life, lives, gate, rd, handles, torn>>

ScanPast(p) ==
  /\ life # 0
  /\ ~Retirable
  /\ p \in Visited
  /\ ~Selectable(entry[p])
  /\ Settle(p)
  /\ UNCHANGED <<word, idle, tableVars, file, cleanup, life, lives, gate, rd,
                 job, handles, torn>>

(* The scan also finds empty blocks whose directory must still be removed. *)
ScanEmpty(c) ==
  /\ job[c].at = "idle"
  /\ life # 0
  /\ queued \/ Tti
  /\ Resident = {}
  /\ cleanup
  /\ job' = [job EXCEPT ![c] = [NoJob EXCEPT !.at = "sweep", !.life = life]]
  /\ UNCHANGED <<word, idle, tableVars, file, lifeVars, gate, rd, handles,
                 torn>>

(* Mutant: the registry forgets a block that a job still owns.             *)
RetireOwned ==
  /\ life # 0
  /\ Tti => Resident = {}
  /\ ~cleanup
  /\ retries = {}
  /\ life' = 0
  /\ queued' = FALSE
  /\ UNCHANGED <<word, idle, tableVars, file, retries, cleanup, lives, gate,
                 rd, job, handles, torn>>

(* BlockIndex::retire_lifecycle, by the scan or after an eviction.         *)
Retire ==
  /\ Retirable
  /\ life' = 0
  /\ queued' = FALSE
  /\ UNCHANGED <<word, idle, tableVars, file, retries, cleanup, lives, gate,
                 rd, job, handles, torn>>

-----------------------------------------------------------------------------
(* Deletion of one page: evict_page_candidate_to_target.                   *)

(* PageMutationGate::lock.                                                 *)
Lock(x, from, to) ==
  /\ job[x].at = from
  /\ gate[job[x].life] = {}
  /\ gate' = [gate EXCEPT ![job[x].life] = {x}]
  /\ job' = [job EXCEPT ![x].at = to]
  /\ UNCHANGED <<word, idle, tableVars, file, lifeVars, rd, handles, torn>>

LockPage(c) == Lock(c, "picked", "gated")

(* Mutant: the claim does not look at the readers.                         *)
ClaimableRead(c) ==
  /\ Current(c)
  /\ ~word[job[c].handle].closed
  /\ ~word[job[c].handle].accessed
  /\ job[c].reason = 0 => Expired(job[c].handle)

(* BlockState::claim: the candidate is current, nobody reads the page,     *)
(* nobody used it since the selection and, for TTI, it is still expired.   *)
Claimable(c) ==
  /\ Current(c)
  /\ word[job[c].handle].readers = 0
  /\ ~word[job[c].handle].closed
  /\ ~word[job[c].handle].accessed
  /\ job[c].reason = 0 => Expired(job[c].handle)

(* Mutant: the page is not closed before its file is unlinked.             *)
ClaimOpen(c) ==
  /\ job[c].at = "gated"
  /\ Claimable(c)
  /\ job' = [job EXCEPT ![c].at = "claimed"]
  /\ UNCHANGED <<word, idle, tableVars, file, lifeVars, gate, rd, handles, torn>>

Claim(c) ==
  /\ job[c].at = "gated"
  /\ Claimable(c)
  /\ word' = [word EXCEPT ![job[c].handle].closed = TRUE]
  /\ job' = [job EXCEPT ![c].at = "claimed"]
  /\ UNCHANGED <<idle, tableVars, file, lifeVars, gate, rd, handles, torn>>

(* The claim fails, or usage fell below the target before the gate was     *)
(* free.                                                                   *)
GiveUp(c) ==
  /\ job[c].at = "gated"
  /\ ~Claimable(c) \/ job[c].reason = 1
  /\ Leave(c)
  /\ UNCHANGED <<word, idle, tableVars, file, lifeVars, rd, handles, torn>>

Unlink(c) ==
  /\ job[c].at = "claimed"
  /\ file' = file \ {job[c].page}
  /\ job' = [job EXCEPT ![c].at = "unlinked"]
  /\ UNCHANGED <<word, idle, tableVars, lifeVars, gate, rd, handles, torn>>

(* BlockState::abort: the page is open again and the unlink is retried.    *)
UnlinkFails(c) ==
  /\ job[c].at = "claimed"
  /\ Leave(c)
  /\ IF Current(c)
     THEN /\ word' = [word EXCEPT ![job[c].handle].closed = FALSE,
                                  ![job[c].handle].retry = job[c].reason + 1]
          /\ retries' = retries \cup {job[c].page}
          /\ queued' = TRUE
     ELSE UNCHANGED <<word, retries, queued>>
  /\ UNCHANGED <<idle, tableVars, file, cleanup, life, lives, rd, handles,
                 torn>>

(* BlockIndex::clear_page.                                                 *)
ClearPage(c) ==
  /\ job[c].at = "unlinked"
  /\ resident' = resident \ {job[c].page}
  /\ job' = [job EXCEPT ![c].at = "cleared"]
  /\ UNCHANGED <<word, idle, entry, selection, file, lifeVars, gate, rd,
                 handles, torn>>

(* BlockState::finish: the handle leaves the table and stays closed.       *)
Finish(c) ==
  /\ job[c].at = "cleared"
  /\ job' = [job EXCEPT ![c].at = "finished"]
  /\ IF Current(c) /\ word[job[c].handle].closed
     THEN /\ entry' = [entry EXCEPT ![job[c].page] = 0]
          /\ selection' = [selection EXCEPT ![job[c].page] = 0]
          /\ retries' = retries \ {job[c].page}
          /\ cleanup' = (Resident \ {job[c].page} = {})
          /\ queued' = (queued \/ cleanup')
     ELSE UNCHANGED <<entry, selection, retries, cleanup, queued>>
  /\ UNCHANGED <<word, idle, resident, file, life, lives, gate, rd, handles,
                 torn>>

(* delete_block_async: an error may leave some of the files.               *)
DropFiles == file' = {} /\ torn' = torn
DropSome  == \E lost \in SUBSET file : file' = file \ lost /\ torn' = torn \cup lost

(* The directory of a block without pages is removed, after its last page  *)
(* or when a scan found it.                                                *)
SweepAt(c) == job[c].at \in {"finished", "sweeping"}

LockSweep(c) == Lock(c, "sweep", "sweeping")

Sweep(c) ==
  /\ SweepAt(c)
  /\ Resident = {}
  /\ DropFiles
  /\ cleanup' = FALSE
  /\ resident' = {}
  /\ Leave(c)
  /\ UNCHANGED <<word, idle, entry, selection, retries, queued, life, lives,
                 rd, handles>>

SweepFails(c) ==
  /\ SweepAt(c)
  /\ Resident = {}
  /\ DropSome
  /\ Leave(c)
  /\ UNCHANGED <<word, idle, tableVars, lifeVars, rd, handles>>

SkipSweep(c) ==
  /\ SweepAt(c)
  /\ Resident # {}
  /\ Leave(c)
  /\ UNCHANGED <<word, idle, tableVars, file, lifeVars, rd, handles, torn>>

-----------------------------------------------------------------------------
(* Deletion of the whole block: unlink_stale_block_inner.                  *)

E0 == job[Evictor]

ChooseBlock ==
  /\ E0.at = "idle"
  /\ Resident # {}
  /\ job' = [job EXCEPT ![Evictor].at = "chosen", ![Evictor].quiet = TRUE]
  /\ UNCHANGED <<word, idle, tableVars, file, lifeVars, gate, rd, handles,
                 torn>>

ObtainBlock ==
  /\ E0.at = "chosen"
  /\ Obtain
  /\ job' = [job EXCEPT ![Evictor].at = "waiting", ![Evictor].life = life']
  /\ UNCHANGED <<word, idle, tableVars, file, gate, rd, handles, torn>>

LockBlock == Lock(Evictor, "waiting", "claiming")

(* lru.stale_candidate_is_current: the block is known to the policy, which *)
(* saw no use of it, and no fill holds a pin.                              *)
StillStale ==
  /\ Resident # {}
  /\ E0.quiet
  /\ \A f \in Fillers : job[f].at # "guarding"

(* claim_all_pages closes one page after the other.                        *)
ClaimNext(p) ==
  /\ E0.at = "claiming"
  /\ E0.claimed = {} => StillStale
  /\ p \in Resident
  /\ entry[p] \notin E0.claimed
  /\ word[entry[p]].readers = 0
  /\ ~word[entry[p]].closed
  /\ word' = [word EXCEPT ![entry[p]].closed = TRUE]
  /\ job' = [job EXCEPT ![Evictor].claimed = @ \cup {entry[p]}]
  /\ UNCHANGED <<idle, tableVars, file, lifeVars, gate, rd, handles, torn>>

(* A read may have ended while the pages were being closed.                *)
ClaimedAll ==
  /\ E0.at = "claiming"
  /\ E0.claimed = {entry[p] : p \in Resident}
  /\ StillStale
  /\ job' = [job EXCEPT ![Evictor].at = "claimed"]
  /\ UNCHANGED <<word, idle, tableVars, file, lifeVars, gate, rd, handles,
                 torn>>

(* Mutant: a dropped claim leaves its pages closed.                        *)
ReopenNone == word' = word

(* Drop of BlockPageClaim: every page the claim closed is open again.      *)
Reopen ==
  word' = [h \in Handles |-> IF h \in E0.claimed
                             THEN [word[h] EXCEPT !.closed = FALSE]
                             ELSE word[h]]

DropClaim ==
  /\ E0.at = "claiming"
  /\ \/ ~StillStale
     \/ \E p \in Resident : /\ entry[p] \notin E0.claimed
                            /\ word[entry[p]].readers > 0 \/ word[entry[p]].closed
  /\ Reopen
  /\ Leave(Evictor)
  /\ UNCHANGED <<idle, tableVars, file, lifeVars, rd, handles, torn>>

(* The removal fails part way: accounting and pages stay.                  *)
DeleteFails ==
  /\ E0.at = "claimed"
  /\ DropSome
  /\ Reopen
  /\ Leave(Evictor)
  /\ UNCHANGED <<idle, tableVars, lifeVars, rd, handles>>

DeleteBlock ==
  /\ E0.at = "claimed"
  /\ DropFiles
  /\ job' = [job EXCEPT ![Evictor].at = "deleted"]
  /\ UNCHANGED <<word, idle, tableVars, lifeVars, gate, rd, handles>>

(* Mutant: the committed claim reopens its handles.                        *)
FinishReopened ==
  /\ E0.at = "deleted"
  /\ Reopen
  /\ entry' = [p \in Pages |-> 0]
  /\ selection' = [p \in Pages |-> 0]
  /\ resident' = {}
  /\ retries' = {}
  /\ cleanup' = FALSE
  /\ queued' = TRUE
  /\ Leave(Evictor)
  /\ UNCHANGED <<idle, file, life, lives, rd, handles, torn>>

(* index.remove and BlockPageClaim::finish.                                *)
FinishBlock ==
  /\ E0.at = "deleted"
  /\ entry' = [p \in Pages |-> 0]
  /\ selection' = [p \in Pages |-> 0]
  /\ resident' = {}
  /\ retries' = {}
  /\ cleanup' = FALSE
  /\ queued' = TRUE
  /\ Leave(Evictor)
  /\ UNCHANGED <<word, idle, file, life, lives, rd, handles, torn>>

-----------------------------------------------------------------------------
(* Admission of a page: commit_fetched_page_inner.                         *)

(* Warm fills of different pages share the gate; the single-flight guard   *)
(* of the page keeps two fills of one page apart.                          *)
StartFill(f, p) ==
  /\ job[f].at = "idle"
  /\ \A g \in Fillers : job[g].at # "idle" => job[g].page # p
  /\ Obtain
  /\ job' = [job EXCEPT ![f] = [NoJob EXCEPT !.at = "waiting", !.page = p,
                                             !.life = life']]
  /\ UNCHANGED <<word, idle, tableVars, file, gate, rd, handles, torn>>

LockFill(f) ==
  /\ job[f].at = "waiting"
  /\ gate[job[f].life] \subseteq IF f \in WarmFillers THEN WarmFillers ELSE {}
  /\ gate' = [gate EXCEPT ![job[f].life] = @ \cup {f}]
  /\ job' = [job EXCEPT ![f].at = "writing"]
  /\ UNCHANGED <<word, idle, tableVars, file, lifeVars, rd, handles, torn>>

WriteFile(f) ==
  /\ job[f].at = "writing"
  /\ file' = file \cup {job[f].page}
  /\ torn' = torn \ {job[f].page}
  /\ job' = [job EXCEPT ![f].at = "written"]
  /\ UNCHANGED <<word, idle, tableVars, lifeVars, gate, rd, handles>>

WriteFails(f) ==
  /\ job[f].at = "writing"
  /\ Leave(f)
  /\ UNCHANGED <<word, idle, tableVars, file, lifeVars, rd, handles, torn>>

(* BlockState::register: a page that is already there keeps its handle.    *)
Register(f) ==
  LET p == job[f].page
      new == entry[p] = 0
      h == IF new THEN handles + 1 ELSE entry[p]
  IN  /\ job[f].at = "written"
      /\ h \in Handles
      /\ entry' = [entry EXCEPT ![p] = h]
      /\ handles' = IF new THEN h ELSE handles
      /\ word' = [word EXCEPT ![h].accessed = TRUE]
      /\ idle' = IF Tti THEN [idle EXCEPT ![h] = FALSE] ELSE idle
      /\ cleanup' = FALSE
      /\ job' = [Use(Collecting(p) \cup Evicting) EXCEPT ![f].at = "registered"]
      /\ UNCHANGED <<selection, resident, file, retries, queued, life, lives,
                     gate, rd, torn>>

(* mark_page_allocated and lru.insert.                                     *)
MarkPage(f) ==
  /\ job[f].at = "registered"
  /\ resident' = resident \cup {job[f].page}
  /\ job' = [job EXCEPT ![f].at = "marked", ![Evictor].quiet = FALSE]
  /\ UNCHANGED <<word, idle, entry, selection, file, lifeVars, gate, rd,
                 handles, torn>>

(* The fill protects its page while it makes room for it.                  *)
ProtectPage(f) ==
  /\ job[f].at = "marked"
  /\ word' = [word EXCEPT ![entry[job[f].page]].readers = @ + 1]
  /\ gate' = [gate EXCEPT ![job[f].life] = @ \ {f}]
  /\ job' = [job EXCEPT ![f].at = "guarding", ![f].handle = entry[job[f].page]]
  /\ UNCHANGED <<idle, tableVars, file, lifeVars, rd, handles, torn>>

EndFill(f) ==
  /\ job[f].at = "guarding"
  /\ word' = [word EXCEPT ![job[f].handle].readers = @ - 1]
  /\ job' = [job EXCEPT ![f] = NoJob]
  /\ UNCHANGED <<idle, tableVars, file, lifeVars, gate, rd, handles, torn>>

-----------------------------------------------------------------------------

Init ==
  /\ word = [h \in Handles |-> FreshWord]
  /\ idle = [h \in Handles |-> FALSE]
  /\ entry = [p \in Pages |-> 0]
  /\ selection = [p \in Pages |-> 0]
  /\ resident = {}
  /\ file = {}
  /\ retries = {}
  /\ cleanup = FALSE
  /\ queued = FALSE
  /\ life = 0
  /\ gate = [l \in Lives |-> {}]
  /\ rd = [r \in Readers |-> NoRead]
  /\ job = [x \in Procs |-> NoJob]
  /\ handles = 0
  /\ lives = 0
  /\ torn = {}

Reader(r) ==
  \/ \E p \in Pages : Acquire(r, p)
  \/ TouchPolicy(r) \/ Touch(r) \/ Release(r) \/ Abandon(r)

Collector(c) ==
  \/ \E p \in Pages : Candidate(c, p) \/ Scan(c, p)
  \/ ScanEmpty(c) \/ LockPage(c) \/ Claim(c) \/ GiveUp(c)
  \/ Unlink(c) \/ UnlinkFails(c) \/ ClearPage(c) \/ Finish(c)
  \/ LockSweep(c) \/ Sweep(c) \/ SweepFails(c) \/ SkipSweep(c)

BlockEvictor ==
  \/ ChooseBlock \/ ObtainBlock \/ LockBlock
  \/ \E p \in Pages : ClaimNext(p)
  \/ ClaimedAll \/ DropClaim \/ DeleteFails \/ DeleteBlock \/ FinishBlock

Filler(f) ==
  \/ \E p \in Pages : StartFill(f, p)
  \/ LockFill(f) \/ WriteFile(f) \/ WriteFails(f) \/ Register(f)
  \/ MarkPage(f) \/ ProtectPage(f) \/ EndFill(f)

Next ==
  \/ \E r \in Readers : Reader(r)
  \/ \E c \in Collectors : Collector(c)
  \/ BlockEvictor
  \/ \E f \in Fillers : Filler(f)
  \/ \E p \in Pages : ScanPast(p)
  \/ \E h \in Handles : Age(h)
  \/ Retire

Spec == Init /\ [][Next]_vars

-----------------------------------------------------------------------------
(* Properties.                                                             *)

(* A page the index offers to readers has its file, whatever deletions and *)
(* fills are in progress, unless a failed directory removal took it.       *)
ReadableHasFile ==
  \A p \in resident :
    entry[p] # 0 /\ ~word[entry[p]].closed => p \in file \cup torn

(* A read guard protects the file: no step deletes the file of a page      *)
(* while a reader, or a fill that makes room for it, holds its handle.     *)
Guarded == {rd[r].page : r \in {q \in Readers : rd[q].at # "idle"}}
             \cup {job[f].page : f \in {g \in Fillers : job[g].at = "guarding"}}

GuardProtectsFile == [][file \cap Guarded \subseteq file']_vars

(* A deletion that has claimed its target deletes nothing that was used    *)
(* since it was selected: a collector no page whose read succeeded or that *)
(* was admitted again, the evictor no block with a page that a reader      *)
(* acquired.  Neither a later selection, a retry, a duplicate fill nor a   *)
(* read that ended between two checks revives a stale candidate.           *)
OnlyUnusedDeleted ==
  \A x \in Collectors \cup {Evictor} : job[x].at = "claimed" => ~job[x].used

(* A handle that left the page table is closed for good and has no reader, *)
(* so that an old handle cannot pin, or delete, a page admitted again.     *)
RemovedStaysClosed ==
  \A h \in 1..handles :
    (\A p \in Pages : entry[p] # h) => word[h].closed /\ word[h].readers = 0

(* Mutations of one block exclude each other even when its BlockState, and *)
(* with it the gate, was retired and created again in between.             *)
Mutating(x) == \E l \in Lives : x \in gate[l]
GateExclusive ==
  \A x, y \in Procs :
    x # y /\ Mutating(x) /\ Mutating(y) =>
      x \in WarmFillers /\ y \in WarmFillers /\ job[x].page # job[y].page

(* Deferred work is not stranded: a page whose unlink must be retried and  *)
(* a directory that must be removed can be found by the next scan, also    *)
(* with TTI disabled, when a scan visits only pending blocks.              *)
DeferredWorkQueued ==
  /\ \A p \in Resident : word[entry[p]].retry # 0 =>
       p \in retries /\ queued /\ life # 0
  /\ cleanup => queued /\ life # 0

(* At rest no page is left closed: every claim that ended was either       *)
(* committed or undone, also when a claim of several pages stopped half    *)
(* way.                                                                    *)
NoPageLeftClosed ==
  (\A x \in Procs : job[x].at \in {"idle", "picked", "gated", "chosen",
                                    "waiting", "guarding"}) =>
    \A p \in Resident : ~word[entry[p]].closed

=============================================================================
