------------------------------- MODULE Restart -------------------------------
(***************************************************************************)
(* The life of a GenericStore across process restarts: open() recovers the *)
(* device (GenericStore::recover and recover_region, generic.rs:457-524,   *)
(* RegionEntryIter, generic.rs:849-958), sets the sequence past every      *)
(* sequence found and spawns the flushers and reclaimers; the store then   *)
(* runs as in Store; close() stops the flushers, which drain their queues  *)
(* and seal their active region (spec.md 4.6 step 5 and section 5), then   *)
(* the reclaimers (generic.rs:330-349); and the process may go down at any *)
(* moment, or be reopened after close, keeping only the device.            *)
(*                                                                         *)
(* During recovery nothing but the recover_region tasks runs: the flushers *)
(* and reclaimers are spawned after recover() returns and no caller holds  *)
(* the store yet, so the load_range reads of the tasks meet no other user  *)
(* of the region and their reader counters are left out.                   *)
(***************************************************************************)
EXTENDS Store

CONSTANTS
    RecoverConcurrency,  \* config.recover_concurrency: the semaphore's permits
    MaxRestarts,         \* bound on process restarts
    MagicChecked,        \* whether reading the RegionHeader rejects a block without the magic
    CloseAfterInserts    \* callers let their inserts return before they call close()

ASSUME RecoverConcurrency >= 1 /\ MaxRestarts \in Nat
ASSUME MagicChecked \in BOOLEAN /\ CloseAfterInserts \in BOOLEAN

VARIABLES
    phase,      \* "recovering", "running", "closing" or "closed"
    rec,        \* per region: its recover_region task
    permits,    \* the recovery semaphore's free permits
    restarts,   \* restarts so far
    survivors,  \* ghost: the live values the last restart must not lose
    held        \* ghost: the values the catalog addressed when the store went down

lifeVars == <<phase, rec, permits, restarts, survivors, held>>
allVars == <<vars, lifeVars>>

IoOutcomes == IF ShortReads THEN BOOLEAN ELSE {TRUE}   \* a load_range may read short

(* RegionHeader::read, as RegionEntryIter::open uses it. *)
RegionHeaderValid(b) == ~ MagicChecked \/ b = RegionHeaderBlock

SpawnedTask == [pc |-> "spawned", cursor |-> 0, seq |-> 0, valid |-> FALSE]

TypeOKRestart ==
    /\ TypeOKStore
    /\ phase \in {"recovering", "running", "closing", "closed"}
    /\ rec \in [RegionIds -> [pc : {"spawned", "open", "next", "done"},
                              cursor : Slots, seq : 0 .. MaxSeq, valid : BOOLEAN]]
    /\ permits \in 0 .. RecoverConcurrency
    /\ restarts \in 0 .. MaxRestarts
    /\ survivors \subseteq admitted /\ held \subseteq Payloads

(* Everything a process holds in memory, as GenericStore::open builds it   *)
(* before it calls recover(): Region::new for every region (version 0, no  *)
(* buffer, counters 0), an empty catalog, sequence 0, idle flushers and    *)
(* runners, no caller, and the spawned recover_region tasks.               *)
ZeroPerRegion == [r \in RegionIds |-> 0]
IdleInserters == [i \in Inserters |-> [pc |-> "idle", key |-> None, seq |-> 0]]
IdleFlushers == [f \in Flushers |-> [pc |-> "acquire", region |-> None, offset |-> 0, version |-> 0]]
NoRunnerRegion == [i \in Runners |-> None]
SpawnedTasks == [r \in RegionIds |-> SpawnedTask]

Volatile ==
    /\ version = ZeroPerRegion /\ buffer = [r \in RegionIds |-> NoBuffer] /\ len = ZeroPerRegion
    /\ writers = ZeroPerRegion /\ buffered_readers = ZeroPerRegion
    /\ physical_readers = ZeroPerRegion
    /\ catalog = [k \in Keys |-> NoItem] /\ sequence = 0
    /\ ins = IdleInserters /\ queue = [f \in Flushers |-> <<>>] /\ fl = IdleFlushers
    /\ clean = <<>> /\ evictable = {}
    /\ tasks = NoRunnerRegion /\ submittee = 0 /\ reclaiming = NoRunnerRegion
    /\ lk = [l \in Lookups |-> IdleLookup]
    /\ phase = "recovering" /\ rec = SpawnedTasks /\ permits = RecoverConcurrency

(* open() on a device that was never written. *)
OpenInit ==
    /\ Volatile
    /\ disk = [r \in RegionIds |-> [s \in Slots |-> Zeroes]]
    /\ admitted = {} /\ dead = {} /\ ioErrors = 0
    /\ restarts = 0 /\ survivors = {} /\ held = {}

-----------------------------------------------------------------------------
(* recover(): one task per region, each under a semaphore permit.          *)

RecUnchanged == UNCHANGED <<regionState, sequence, ins, queue, fl, tasks, submittee,
                            reclaiming, lk, ghosts, phase, restarts, survivors, held>>

RecoverAcquire(r) ==
    /\ rec[r].pc = "spawned"
    /\ permits > 0
    /\ permits' = permits - 1
    /\ rec' = [rec EXCEPT ![r].pc = "open"]
    /\ UNCHANGED <<catalog, clean, evictable>>
    /\ RecUnchanged

(* Fault variant: a valid region is never pushed to the eviction policy. *)
EndTaskNoPush(r, valid) ==
    /\ rec' = [rec EXCEPT ![r].pc = "done", ![r].valid = valid]
    /\ permits' = permits + 1
    /\ IF valid THEN UNCHANGED <<clean, evictable>>
                ELSE /\ clean' = Append(clean, r) /\ UNCHANGED evictable

(* The task ends and drops its permit: a valid region is pushed to the     *)
(* eviction policy and reports its largest sequence, any other region is   *)
(* released to the clean queue.                                            *)
EndTask(r, valid) ==
    /\ rec' = [rec EXCEPT ![r].pc = "done", ![r].valid = valid]
    /\ permits' = permits + 1
    /\ IF valid THEN /\ evictable' = evictable \union {r} /\ UNCHANGED clean
                ELSE /\ clean' = Append(clean, r) /\ UNCHANGED evictable

(* Fault variant: the walk starts at offset 0 instead of align. *)
RecoverOpenAtZero(r) ==
    /\ rec[r].pc = "open"
    /\ \E ok \in IoOutcomes :
        IF ok /\ RegionHeaderValid(disk[r][0])
        THEN /\ rec' = [rec EXCEPT ![r].pc = "next", ![r].cursor = 0]
             /\ UNCHANGED <<permits, clean, evictable>>
        ELSE EndTask(r, FALSE)
    /\ UNCHANGED catalog
    /\ RecUnchanged

(* RegionEntryIter::open: load_range(..align), then RegionHeader::read.   *)
RecoverOpen(r) ==
    /\ rec[r].pc = "open"
    /\ \E ok \in IoOutcomes :
        IF ok /\ RegionHeaderValid(disk[r][0])
        THEN /\ rec' = [rec EXCEPT ![r].pc = "next", ![r].cursor = Align]
             /\ UNCHANGED <<permits, clean, evictable>>
        ELSE EndTask(r, FALSE)
    /\ UNCHANGED catalog
    /\ RecUnchanged

(* Fault variant: the footer check stops one block early. *)
RecoverNextStopEarly(r) ==
    LET c == rec[r].cursor
        b == disk[r][c]
    IN /\ rec[r].pc = "next"
       /\ \E ok \in IoOutcomes :
           IF c + 2 * Align >= RegionSize \/ ~ ok \/ b \notin EntryHeads \/ c + b.len > RegionSize
           THEN /\ EndTask(r, TRUE)
                /\ UNCHANGED catalog
           ELSE /\ CatalogInsert(b.payload.key,
                     Item(b.payload.seq, InRegion([region |-> r, offset |-> c, len |-> b.len,
                                                   version |-> version[r]])))
                /\ rec' = [rec EXCEPT ![r].cursor = c + b.len,
                                      ![r].seq = IF b.payload.seq > @ THEN b.payload.seq ELSE @]
                /\ UNCHANGED <<permits, clean, evictable>>
       /\ RecUnchanged

(* Fault variant: the loop of recover_region drops the running maximum. *)
RecoverNextNoMax(r) ==
    LET c == rec[r].cursor
        b == disk[r][c]
    IN /\ rec[r].pc = "next"
       /\ \E ok \in IoOutcomes :
           IF c + Align >= RegionSize \/ ~ ok \/ b \notin EntryHeads \/ c + b.len > RegionSize
           THEN /\ EndTask(r, TRUE)
                /\ UNCHANGED catalog
           ELSE /\ CatalogInsert(b.payload.key,
                     Item(b.payload.seq, InRegion([region |-> r, offset |-> c, len |-> b.len,
                                                   version |-> version[r]])))
                /\ rec' = [rec EXCEPT ![r].cursor = c + b.len]
                /\ UNCHANGED <<permits, clean, evictable>>
       /\ RecUnchanged

(* Fault variant: the view is taken after the cursor has moved on. *)
RecoverNextViewAfterAdvance(r) ==
    LET c == rec[r].cursor
        b == disk[r][c]
    IN /\ rec[r].pc = "next"
       /\ \E ok \in IoOutcomes :
           IF c + Align >= RegionSize \/ ~ ok \/ b \notin EntryHeads \/ c + b.len > RegionSize
           THEN /\ EndTask(r, TRUE)
                /\ UNCHANGED catalog
           ELSE /\ CatalogInsert(b.payload.key,
                     Item(b.payload.seq, InRegion([region |-> r, offset |-> c + b.len, len |-> b.len,
                                                   version |-> version[r]])))
                /\ rec' = [rec EXCEPT ![r].cursor = c + b.len,
                                      ![r].seq = IF b.payload.seq > @ THEN b.payload.seq ELSE @]
                /\ UNCHANGED <<permits, clean, evictable>>
       /\ RecUnchanged

(* Fault variant: the iterator does not move its cursor past the entry. *)
RecoverNextNoAdvance(r) ==
    LET c == rec[r].cursor
        b == disk[r][c]
    IN /\ rec[r].pc = "next"
       /\ \E ok \in IoOutcomes :
           IF c + Align >= RegionSize \/ ~ ok \/ b \notin EntryHeads \/ c + b.len > RegionSize
           THEN /\ EndTask(r, TRUE)
                /\ UNCHANGED catalog
           ELSE /\ CatalogInsert(b.payload.key,
                     Item(b.payload.seq, InRegion([region |-> r, offset |-> c, len |-> b.len,
                                                   version |-> version[r]])))
                /\ rec' = [rec EXCEPT ![r].seq = IF b.payload.seq > @ THEN b.payload.seq ELSE @]
                /\ UNCHANGED <<permits, clean, evictable>>
       /\ RecUnchanged

(* RegionEntryIter::next, and the loop body of recover_region: stop at the *)
(* footer, on a short read, on a block that is no entry header or on an    *)
(* entry running past the region; otherwise insert the entry's item with a *)
(* view at the cursor and move the cursor past the entry.                  *)
RecoverNext(r) ==
    LET c == rec[r].cursor
        b == disk[r][c]
    IN /\ rec[r].pc = "next"
       /\ \E ok \in IoOutcomes :
           IF c + Align >= RegionSize \/ ~ ok \/ b \notin EntryHeads \/ c + b.len > RegionSize
           THEN /\ EndTask(r, TRUE)
                /\ UNCHANGED catalog
           ELSE /\ CatalogInsert(b.payload.key,
                     Item(b.payload.seq, InRegion([region |-> r, offset |-> c, len |-> b.len,
                                                   version |-> version[r]])))
                /\ rec' = [rec EXCEPT ![r].cursor = c + b.len,
                                      ![r].seq = IF b.payload.seq > @ THEN b.payload.seq ELSE @]
                /\ UNCHANGED <<permits, clean, evictable>>
       /\ RecUnchanged

(* recover() returns the largest sequence of the valid regions and open()  *)
(* stores it + 1; the flushers and reclaimers are spawned.  The flash()    *)
(* of the clean queue when every region was valid wakes no one: no        *)
(* flusher is running yet.                                                 *)
RecoveredSequence == Max({rec[r].seq : r \in {x \in RegionIds : rec[x].valid}} \union {0})

(* Fault variant: open() stores the recovered maximum itself. *)
RecoverFinishNoIncrement ==
    /\ phase = "recovering"
    /\ \A r \in RegionIds : rec[r].pc = "done"
    /\ sequence' = RecoveredSequence
    /\ phase' = "running"
    /\ UNCHANGED <<regionState, catalog, ins, queue, fl, clean, evictable, tasks, submittee,
                   reclaiming, lk, ghosts, rec, permits, restarts, survivors, held>>

RecoverFinish ==
    /\ phase = "recovering"
    /\ \A r \in RegionIds : rec[r].pc = "done"
    /\ sequence' = RecoveredSequence + 1
    /\ phase' = "running"
    /\ UNCHANGED <<regionState, catalog, ins, queue, fl, clean, evictable, tasks, submittee,
                   reclaiming, lk, ghosts, rec, permits, restarts, survivors, held>>

-----------------------------------------------------------------------------
(* The running store, close() and the stop path of the flushers.           *)

(* Fault variant: a stopped flusher takes no new region for its queue. *)
FlusherMayAcquireNoDrain(f) == phase = "running"

(* After the stop a flusher takes a new clean region only while it still   *)
(* has entries to write.                                                   *)
FlusherMayAcquire(f) == phase = "running" \/ queue[f] # <<>>

(* A Store step while the store serves, and one of the reclaimers, which  *)
(* run until close() stops them.                                          *)
InService(A) == phase \in {"running", "closing", "closed"} /\ A /\ UNCHANGED lifeVars
Reclaiming(A) == phase \in {"running", "closing"} /\ A /\ UNCHANGED lifeVars

(* The steps of Store.  New calls are made only before close(); a call     *)
(* already started runs on.  A flusher takes a new clean region after the  *)
(* stop only while it still has entries to drain; the reclaimers run until *)
(* close() stops them.                                                     *)
StoreStep ==
    /\ phase \in {"running", "closing", "closed"}
    /\ \/ phase = "running" /\ \E i \in Inserters, k \in Keys : MintSequence(i, k)
       \/ \E i \in Inserters : InsertAndSend(i)
       \/ \E f \in Flushers :
           \/ FlusherAcquire(f) /\ FlusherMayAcquire(f)
           \/ FlusherAllocate(f) \/ FlusherWrite(f) \/ FlusherSealFooter(f)
           \/ FlusherFlush(f) \/ FlusherDetach(f)
       \/ phase \in {"running", "closing"} /\ SubmitReclaim
       \/ phase \in {"running", "closing"} /\ \E i \in Runners : RunnerReceive(i) \/ RunnerReclaim(i)
       \/ \E l \in Lookups :
           \/ \E k \in Keys : LookupCatalog(l, k)
           \/ LookupLoad(l) \/ LookupRead(l) \/ LookupParse(l) \/ LookupReset(l)
       \/ \E k \in Keys : StoreRemove(k)
       \/ StoreClear
    /\ UNCHANGED lifeVars

LifeUnchanged == UNCHANGED <<rec, permits, restarts, survivors, held>>

(* close(): flushers_stop_tx.send(()).  A second close() finds no handles  *)
(* and does nothing.                                                       *)
Close ==
    /\ phase = "running"
    /\ CloseAfterInserts => \A i \in Inserters : ins[i].pc = "idle"
    /\ phase' = "closing"
    /\ UNCHANGED vars
    /\ LifeUnchanged

(* A stopped flusher with nothing left to write seals its active region as *)
(* if it were full: the rest of the buffer is handed out as the footer     *)
(* slice, then zeroed, flushed and detached as in Store.                   *)
FlusherStopSeal(f) ==
    /\ phase = "closing"
    /\ fl[f].pc = "ready"
    /\ queue[f] = <<>>
    /\ AllocateFull(fl[f].region, RegionSize)
    /\ fl' = [fl EXCEPT ![f].pc = "full"]
    /\ UNCHANGED <<catalog, queue, clean, evictable>>
    /\ FlUnchanged
    /\ UNCHANGED phase /\ LifeUnchanged

(* Its region handed over, the stopped flusher returns; its receiver is    *)
(* dropped.                                                                *)
FlusherExit(f) ==
    /\ phase = "closing"
    /\ fl[f].pc = "acquire"
    /\ queue[f] = <<>>
    /\ fl' = [fl EXCEPT ![f].pc = "exited"]
    /\ UNCHANGED <<regionState, catalog, queue, clean, evictable>>
    /\ FlUnchanged
    /\ UNCHANGED phase /\ LifeUnchanged

(* Every flusher handle joined: reclaimers_stop_tx.send(()), and close()   *)
(* returns once the reclaimers have returned.                              *)
CloseDone ==
    /\ phase = "closing"
    /\ \A f \in Flushers : fl[f].pc = "exited"
    /\ phase' = "closed"
    /\ UNCHANGED vars
    /\ LifeUnchanged

-----------------------------------------------------------------------------
(* The process goes down, or is reopened after close(): only the device    *)
(* survives, and open() starts again from Volatile.                        *)

(* The live values a reopened store must still address: after a completed *)
(* close() every live value, after a crash those already on the device.    *)
OnDevice(a) ==
    \E r \in RegionIds, s \in Slots :
        disk[r][0] = RegionHeaderBlock /\ disk[r][s] = EntryHead(a, EntrySize)
Addressed == {Value(k, catalog[k].sequence) : k \in {x \in Keys : catalog[x] # NoItem}}

Restart ==
    /\ restarts < MaxRestarts
    /\ restarts' = restarts + 1
    /\ survivors' = IF phase = "closed" THEN admitted \ dead
                    ELSE {a \in admitted \ dead : OnDevice(a)}
    /\ held' = IF phase = "closed" THEN Addressed ELSE admitted
    /\ version' = ZeroPerRegion /\ buffer' = [r \in RegionIds |-> NoBuffer]
    /\ len' = ZeroPerRegion /\ writers' = ZeroPerRegion
    /\ buffered_readers' = ZeroPerRegion /\ physical_readers' = ZeroPerRegion
    /\ catalog' = [k \in Keys |-> NoItem] /\ sequence' = 0
    /\ ins' = IdleInserters /\ queue' = [f \in Flushers |-> <<>>] /\ fl' = IdleFlushers
    /\ clean' = <<>> /\ evictable' = {}
    /\ tasks' = NoRunnerRegion /\ submittee' = 0 /\ reclaiming' = NoRunnerRegion
    /\ lk' = [l \in Lookups |-> IdleLookup]
    /\ phase' = "recovering" /\ rec' = SpawnedTasks /\ permits' = RecoverConcurrency
    /\ UNCHANGED disk
    /\ UNCHANGED ghosts

-----------------------------------------------------------------------------

LifeNext ==
    \/ \E r \in RegionIds : RecoverAcquire(r) \/ RecoverOpen(r) \/ RecoverNext(r)
    \/ RecoverFinish
    \/ StoreStep
    \/ Close
    \/ \E f \in Flushers : FlusherStopSeal(f) \/ FlusherExit(f)
    \/ CloseDone
    \/ Restart

(* The recovery tasks are tokio tasks joined by try_join_all, and the stop *)
(* path is run by the flusher tasks and close(): all weakly fair, on top   *)
(* of the fairness Store gives its steps, taken while the store serves.   *)
(* Close and Restart are the caller's and the environment's and get none. *)
LifeFairness ==
    /\ \A i \in Inserters : WF_allVars(InService(InsertAndSend(i)))
    /\ \A f \in Flushers :
        /\ WF_allVars(InService(FlusherAcquire(f) /\ FlusherMayAcquire(f)))
        /\ WF_allVars(InService(FlusherAllocate(f))) /\ WF_allVars(InService(FlusherWrite(f)))
        /\ WF_allVars(InService(FlusherSealFooter(f)))
        /\ SF_allVars(InService(FlusherFlush(f))) /\ SF_allVars(InService(FlusherDetach(f)))
    /\ WF_allVars(Reclaiming(SubmitReclaim))
    /\ \A i \in Runners : WF_allVars(Reclaiming(RunnerReceive(i)))
                         /\ SF_allVars(Reclaiming(RunnerReclaim(i)))
    /\ \A l \in Lookups : WF_allVars(InService(LookupLoad(l))) /\ WF_allVars(InService(LookupRead(l)))
                         /\ WF_allVars(InService(LookupParse(l)))
    /\ \A r \in RegionIds : WF_allVars(RecoverAcquire(r)) /\ WF_allVars(RecoverOpen(r))
                           /\ WF_allVars(RecoverNext(r))
    /\ WF_allVars(RecoverFinish)
    /\ \A f \in Flushers : WF_allVars(FlusherStopSeal(f)) /\ WF_allVars(FlusherExit(f))
    /\ WF_allVars(CloseDone)

LifeSpec == OpenInit /\ [][LifeNext]_allVars /\ LifeFairness

-----------------------------------------------------------------------------
(* Properties.                                                             *)

(* Recovery hands every region to exactly one place: each recover_region   *)
(* task either pushes its region to the eviction policy or releases it to  *)
(* the clean queue, so once open() returns clean + sealed regions are all  *)
(* regions, and Store keeps the partition from there, through close().     *)
RegionPartitionServing == phase # "recovering" => RegionPartition

(* open() stores the recovered maximum + 1 (generic.rs:312-313): every     *)
(* item the catalog holds has a sequence below the next one minted, so     *)
(* the first insert of a key after a restart supersedes the recovered item *)
(* under the catalog's sequence rule instead of being dropped.             *)
SequenceAheadOfCatalog ==
    phase # "recovering" =>
        \A k \in Keys : catalog[k] # NoItem => catalog[k].sequence < sequence

(* spec.md section 8, recovery round trip: when open() returns, the        *)
(* catalog addresses, for every live value that survived the restart (all *)
(* of them after a completed close(), those already written back after a   *)
(* crash), that value or a newer one of its key.  This needs every         *)
(* recover_region task to walk its region to the last entry, concurrent    *)
(* tasks to insert in any order, and close() to seal every active region.  *)
RecoveryRestoresSurvivors ==
    [][phase = "recovering" /\ phase' = "running" =>
         \A a \in survivors :
             catalog'[a.key] # NoItem /\ catalog'[a.key].sequence >= a.seq]_allVars

(* A reference for recovery, written as one sequential walk: the entries   *)
(* RegionEntryIter yields for region r from block c on, read whole (spec.md *)
(* 4.9 step 2), and the item the catalog should end with for key k: the     *)
(* newest entry of k among all regions whose first block passes the header *)
(* check, with a view at its offset.                                       *)
RECURSIVE WalkFrom(_, _)
WalkFrom(r, c) ==
    IF c + Align >= RegionSize \/ disk[r][c] \notin EntryHeads \/ c + disk[r][c].len > RegionSize
    THEN {}
    ELSE {[region |-> r, offset |-> c, block |-> disk[r][c]]} \union WalkFrom(r, c + disk[r][c].len)

WalkedEntries ==
    UNION {WalkFrom(r, Align) : r \in {x \in RegionIds : RegionHeaderValid(disk[x][0])}}

NewestWalked(k) ==
    LET E == {e \in WalkedEntries : e.block.payload.key = k}
        e == CHOOSE x \in E : \A y \in E : y.block.payload.seq <= x.block.payload.seq
    IN IF E = {} THEN NoItem
       ELSE Item(e.block.payload.seq,
                 InRegion([region |-> e.region, offset |-> e.offset, len |-> e.block.len,
                           version |-> version[e.region]]))

(* With whole reads, the concurrent recovery of generic.rs:458-524 ends    *)
(* with the catalog the sequential walk gives: however the recover_region  *)
(* tasks interleave their inserts, each key addresses its newest entry on  *)
(* the device, at the offset it was found, and nothing else.               *)
RecoveryMatchesWalk ==
    [][phase = "recovering" /\ phase' = "running" =>
         \A k \in Keys : catalog'[k] = NewestWalked(k)]_allVars

(* spec.md section 8 boundary rule: a region whose first block does not    *)
(* carry the magic is treated as clean at recovery, never as a valid       *)
(* (sealed) region.                                                        *)
RegionWithoutMagicIsClean ==
    \A r \in RegionIds :
        (rec[r].pc = "done" /\ disk[r][0] # RegionHeaderBlock) => ~ rec[r].valid

(* spec.md section 8 scenario 3: after close() and a reopen, lookup(k)     *)
(* returns a value only for the keys that remained: recovery restores no    *)
(* value the catalog no longer addressed at close() (removed, overwritten   *)
(* or in a reclaimed region).  After a crash it restores no value that was  *)
(* never admitted (spec.md section 1 allows an older value to come back).   *)
RecoveryRestoresOnlyHeld ==
    [][phase = "recovering" /\ phase' = "running" =>
         \A k \in Keys : catalog'[k] # NoItem => Value(k, catalog'[k].sequence) \in held]_allVars

(* spec.md section 5: after close() no new work is accepted.  No entry     *)
(* is left with, or sent to, a flusher that has already returned: a        *)
(* stopped flusher drains its queue before it returns, and an insert that  *)
(* sends to a dropped receiver panics on the unwrap (generic.rs:585).      *)
(* When callers let their inserts return before close()                    *)
(* (CloseAfterInserts) the guards of Close and MintSequence already ensure  *)
(* it; MCRestartClosePanic.cfg drops that discipline and finds it violated. *)
NoSendToExitedFlusher ==
    \A f \in Flushers : fl[f].pc = "exited" => queue[f] = <<>>

(* close() returns unless the process goes down first: once stopped, every *)
(* flusher drains its queue, seals its region and exits, which needs clean *)
(* regions from the reclaimers while they still run.                       *)
CloseCompletes == phase = "closing" ~> phase \in {"closed", "recovering"}

(* Every entry sent to a flusher is eventually written, also after an     *)
(* open() that found every region valid (generic.rs:496-499): the clean    *)
(* queue is then empty and the flusher waits on it until a reclaimer       *)
(* evicts one of the recovered regions, which recover_region must have     *)
(* pushed to the eviction policy.  A crash may drop a queue instead.       *)
QueuesDrainAcrossRestart ==
    \A f \in Flushers : Len(queue[f]) > 0 ~> Len(queue[f]) = 0

(* open() returns: recover() spawns one task per region, each waits for a  *)
(* semaphore permit, walks its region to the end and drops the permit, and *)
(* try_join_all returns once every task has.  A crash during recovery     *)
(* starts it again, but once the process stays up the store serves.       *)
OpenCompletes == phase = "recovering" ~> phase = "running"

=============================================================================
