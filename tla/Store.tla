-------------------------------- MODULE Store --------------------------------
(***************************************************************************)
(* GenericStore of foyer-storage composed with its background tasks:       *)
(*                                                                         *)
(*  - writers: GenericStore::apply_writer (generic.rs:535-594) mints a     *)
(*    sequence, inserts an Inflight item into the catalog and sends the    *)
(*    entry to flusher sequence % flushers;                                *)
(*  - flushers: append each entry to their region's buffer, move the       *)
(*    catalog item to Region { view }, seal a full region in two exclusive *)
(*    steps and take the next clean region (flusher.rs is not among the    *)
(*    sources: written from spec.md 4.6 and the doc comment of Region);    *)
(*  - the region manager: when fewer than Threshold regions are clean it   *)
(*    takes a victim out of the eviction policy and submits a ReclaimTask  *)
(*    (region_manager.rs is not among the sources: spec.md 4.7, 4.8);      *)
(*  - reclaim runners: Runner::run (reclaimer.rs:170-210);                 *)
(*  - lookups: GenericStore::lookup (generic.rs:364-429), remove, clear.   *)
(*                                                                         *)
(* Every entry is one aligned block long.  The store starts as opened on   *)
(* an empty device: recover() finds no valid region, releases all of them  *)
(* to the clean queue in whatever order its tasks finish, and sets the     *)
(* sequence to 0 + 1 (generic.rs:312-313, 504-524).                        *)
(***************************************************************************)
EXTENDS Naturals, Sequences, FiniteSets, SequencesExt

CONSTANTS
    Keys,
    RegionIds, RegionSize,
    FlusherCount,   \* config.flushers
    RunnerCount,    \* reclaimer runners
    Threshold,      \* clean_region_threshold
    Inserters,      \* concurrent callers of writer().finish()
    Lookups,        \* concurrent callers of lookup()
    MaxSeq,         \* bound on the sequences minted
    ShortReads,     \* whether the device may return a short read
    MaxDeviceErrors, \* bound on the device reads that fail with an error
    NoBuffer, NoItem, None

ASSUME FlusherCount >= 1 /\ RunnerCount >= 1
ASSUME Cardinality(RegionIds) >= 2 * FlusherCount   \* generic.rs:227
ASSUME ShortReads \in BOOLEAN /\ MaxDeviceErrors \in Nat

Flushers == 0 .. FlusherCount - 1
Runners == 0 .. RunnerCount - 1
EntrySize == 1
Sequence == 1 .. MaxSeq

VARIABLES
    version, buffer, len, writers, buffered_readers, physical_readers, disk,
    catalog,
    sequence,    \* GenericStoreInner.sequence, the next sequence to mint
    ins,         \* per inserter: pc, key, minted sequence
    queue,       \* per flusher: its unbounded entry channel
    fl,          \* per flusher: pc, active region, offset and version of its slice
    clean,       \* the clean-region queue (AsyncQueue, FIFO)
    evictable,   \* sealed regions held by the eviction policy
    tasks,       \* per runner: its ReclaimTask channel of capacity 1
    submittee,   \* Reclaimer sequence % runners
    reclaiming,  \* per runner: the region it is reclaiming
    lk,          \* per lookup: pc, key, view, block read, result
    admitted,    \* ghost: every value whose insert has finished
    dead,        \* ghost: admitted values since superseded, removed or evicted
    ioErrors     \* the device read errors so far, bounded by MaxDeviceErrors

Payloads == [key : Keys, seq : Sequence]

INSTANCE Region
INSTANCE Catalog

regionState == <<version, buffer, len, writers, buffered_readers, physical_readers, disk>>
ghosts == <<admitted, dead, ioErrors>>
vars == <<regionState, catalog, sequence, ins, queue, fl, clean, evictable,
          tasks, submittee, reclaiming, lk, ghosts>>

IsView(v) ==
    /\ DOMAIN v = {"region", "offset", "len", "version"}
    /\ v.region \in RegionIds /\ v.offset \in Slots /\ v.len = EntrySize /\ v.version \in Nat
IsItem(item) ==
    /\ DOMAIN item = {"sequence", "index"}
    /\ item.sequence \in Sequence
    /\ item.index = Inflight \/ (IsRegionItem(item) /\ IsView(item.index.view))
Value(k, s) == [key |-> k, seq |-> s]
(* The values of key k that a later admission of k has superseded.        *)
Superseded(values, k) ==
    LET mine == {a \in values : a.key = k}
    IN {a \in mine : \E b \in mine : b.seq > a.seq}

Result == {Decoded(p) : p \in Payloads} \union {DecodeError, DecodeOverrun}
Miss == [kind |-> "miss", payload |-> NoBuffer]
IoError == [kind |-> "io", payload |-> NoBuffer]

IdleLookup == [pc |-> "idle", key |-> None, view |-> None, via |-> None,
               block |-> None, res |-> None, dead |-> {}]

TypeOKStore ==
    /\ TypeOK
    /\ \A k \in Keys : catalog[k] = NoItem \/ IsItem(catalog[k])
    /\ sequence \in 0 .. MaxSeq + 1   \* 0 while open() recovers
    /\ ins \in [Inserters -> [pc : {"idle", "minted"}, key : Keys \union {None},
                              seq : Sequence \union {0}]]
    /\ queue \in [Flushers -> Seq(Payloads)]
    /\ fl \in [Flushers -> [pc : {"acquire", "ready", "write", "full", "flush", "detach", "exited"},
                            region : RegionIds \union {None},
                            offset : Slots, version : Nat]]
    /\ clean \in Seq(RegionIds)
    /\ evictable \subseteq RegionIds
    /\ tasks \in [Runners -> RegionIds \union {None}]
    /\ submittee \in Runners
    /\ reclaiming \in [Runners -> RegionIds \union {None}]
    /\ \A l \in Lookups :
        /\ DOMAIN lk[l] = {"pc", "key", "view", "via", "block", "res", "dead"}
        /\ lk[l].pc \in {"idle", "load", "read", "parse", "done"}
        /\ lk[l].key \in Keys \union {None}
        /\ lk[l].view = None \/ IsView(lk[l].view)
        /\ lk[l].via \in {"buffered", "physical", None}
        /\ lk[l].block \in Block \union {None}
        /\ lk[l].res \in Result \union {Miss, IoError, None}
        /\ lk[l].dead \subseteq dead
    /\ admitted \subseteq Payloads
    /\ dead \subseteq admitted
    /\ ioErrors \in 0 .. MaxDeviceErrors

Init ==
    /\ InitRegions([r \in RegionIds |-> [s \in Slots |-> Zeroes]])
    /\ catalog = [k \in Keys |-> NoItem]
    /\ sequence = 1
    /\ ins = [i \in Inserters |-> [pc |-> "idle", key |-> None, seq |-> 0]]
    /\ queue = [f \in Flushers |-> <<>>]
    /\ fl = [f \in Flushers |-> [pc |-> "acquire", region |-> None, offset |-> 0, version |-> 0]]
    /\ clean \in SetToSeqs(RegionIds)
    /\ evictable = {}
    /\ tasks = [i \in Runners |-> None]
    /\ submittee = 0
    /\ reclaiming = [i \in Runners |-> None]
    /\ lk = [l \in Lookups |-> IdleLookup]
    /\ admitted = {}
    /\ dead = {}
    /\ ioErrors = 0

-----------------------------------------------------------------------------
(* apply_writer, for a writer whose judge() admitted it.                  *)

(* sequence.fetch_add(1) *)
MintSequence(i, k) ==
    /\ ins[i].pc = "idle"
    /\ sequence <= MaxSeq
    /\ sequence' = sequence + 1
    /\ ins' = [ins EXCEPT ![i] = [pc |-> "minted", key |-> k, seq |-> sequence]]
    /\ UNCHANGED <<regionState, catalog, queue, fl, clean, evictable, tasks,
                   submittee, reclaiming, lk, ghosts>>

(* catalog.insert(key, Inflight), then send to flusher sequence % n.      *)
InsertAndSend(i) ==
    LET k == ins[i].key
        s == ins[i].seq
        f == s % FlusherCount
    IN /\ ins[i].pc = "minted"
       /\ CatalogInsert(k, Item(s, Inflight))
       /\ queue' = [queue EXCEPT ![f] = Append(@, Value(k, s))]
       /\ ins' = [ins EXCEPT ![i] = [pc |-> "idle", key |-> None, seq |-> 0]]
       /\ admitted' = admitted \union {Value(k, s)}
       /\ dead' = dead \union Superseded(admitted \union {Value(k, s)}, k)
       /\ UNCHANGED <<regionState, sequence, fl, clean, evictable, tasks,
                      submittee, reclaiming, lk, ioErrors>>

-----------------------------------------------------------------------------
(* Flushers.                                                               *)

FlUnchanged == UNCHANGED <<sequence, ins, tasks, submittee, reclaiming, lk, ghosts>>

(* Fault variant: the clean queue is popped from the back. *)
FlusherAcquireLifo(f) ==
    /\ fl[f].pc = "acquire"
    /\ clean # <<>>
    /\ AttachBuffer(Last(clean))
    /\ fl' = [fl EXCEPT ![f] = [pc |-> "ready", region |-> Last(clean),
                                offset |-> 0, version |-> 0]]
    /\ clean' = Front(clean)
    /\ UNCHANGED <<catalog, queue, evictable>>
    /\ FlUnchanged

(* clean_regions.acquire(), then attach a buffer to the region.            *)
FlusherAcquire(f) ==
    /\ fl[f].pc = "acquire"
    /\ clean # <<>>
    /\ AttachBuffer(Head(clean))
    /\ fl' = [fl EXCEPT ![f] = [pc |-> "ready", region |-> Head(clean),
                                offset |-> 0, version |-> 0]]
    /\ clean' = Tail(clean)
    /\ UNCHANGED <<catalog, queue, evictable>>
    /\ FlUnchanged

FlusherAllocate(f) ==
    LET r == fl[f].region IN
    /\ fl[f].pc = "ready"
    /\ queue[f] # <<>>
    /\ \/ /\ AllocateOk(r, EntrySize)
          /\ fl' = [fl EXCEPT ![f].pc = "write", ![f].offset = len[r],
                              ![f].version = version[r]]
       \/ /\ AllocateFull(r, EntrySize)
          /\ fl' = [fl EXCEPT ![f].pc = "full"]
    /\ UNCHANGED <<catalog, queue, clean, evictable>>
    /\ FlUnchanged

(* Write the entry into the slice, drop it, move the catalog item to the   *)
(* region view under the sequence rule.                                    *)
FlusherWrite(f) ==
    LET e == Head(queue[f])
        view == [region |-> fl[f].region, offset |-> fl[f].offset,
                 len |-> EntrySize, version |-> fl[f].version]
    IN /\ fl[f].pc = "write"
       /\ WriteEntry(fl[f].region, fl[f].offset, EntrySize, e)
       /\ CatalogInsert(e.key, Item(e.seq, InRegion(view)))
       /\ queue' = [queue EXCEPT ![f] = Tail(@)]
       /\ fl' = [fl EXCEPT ![f].pc = "ready"]
       /\ UNCHANGED <<clean, evictable>>
       /\ FlUnchanged

FlusherSealFooter(f) ==
    /\ fl[f].pc = "full"
    /\ ZeroFooter(fl[f].region)
    /\ fl' = [fl EXCEPT ![f].pc = "flush"]
    /\ UNCHANGED <<catalog, queue, clean, evictable>>
    /\ FlUnchanged

(* exclusive(false, true, false), then device.write of the buffer.         *)
FlusherFlush(f) ==
    /\ fl[f].pc = "flush"
    /\ ExclusiveReady(fl[f].region, FALSE, TRUE, FALSE)
    /\ WriteBack(fl[f].region)
    /\ fl' = [fl EXCEPT ![f].pc = "detach"]
    /\ UNCHANGED <<catalog, queue, clean, evictable>>
    /\ FlUnchanged

(* exclusive(false, false, true), detach the buffer, hand the sealed       *)
(* region to the eviction policy.                                          *)
(* Fault variant: step 2 waits with the flags of step 1. *)
FlusherDetachUnderReaders(f) ==
    /\ fl[f].pc = "detach"
    /\ ExclusiveReady(fl[f].region, FALSE, TRUE, FALSE)
    /\ DetachBuffer(fl[f].region)
    /\ evictable' = evictable \union {fl[f].region}
    /\ fl' = [fl EXCEPT ![f] = [pc |-> "acquire", region |-> None, offset |-> 0, version |-> 0]]
    /\ UNCHANGED <<catalog, queue, clean>>
    /\ FlUnchanged

FlusherDetach(f) ==
    /\ fl[f].pc = "detach"
    /\ ExclusiveReady(fl[f].region, FALSE, FALSE, TRUE)
    /\ DetachBuffer(fl[f].region)
    /\ evictable' = evictable \union {fl[f].region}
    /\ fl' = [fl EXCEPT ![f] = [pc |-> "acquire", region |-> None, offset |-> 0, version |-> 0]]
    /\ UNCHANGED <<catalog, queue, clean>>
    /\ FlUnchanged

-----------------------------------------------------------------------------
(* Reclamation.                                                            *)

RcUnchanged == UNCHANGED <<sequence, ins, queue, fl, lk, ghosts>>

(* Below the threshold the eviction policy gives up a victim, and          *)
(* Reclaimer::submit sends it to runner sequence % runners, waiting while  *)
(* that runner's channel is full.                                          *)
(* Fault variant: the victim is sent but stays in the eviction policy. *)
SubmitReclaimKeepVictim ==
    /\ Len(clean) < Threshold
    /\ tasks[submittee] = None
    /\ \E r \in evictable : tasks' = [tasks EXCEPT ![submittee] = r]
    /\ submittee' = (submittee + 1) % RunnerCount
    /\ UNCHANGED <<regionState, catalog, clean, reclaiming, evictable>>
    /\ RcUnchanged

SubmitReclaim ==
    /\ Len(clean) < Threshold
    /\ tasks[submittee] = None
    /\ \E r \in evictable :
        /\ tasks' = [tasks EXCEPT ![submittee] = r]
        /\ evictable' = evictable \ {r}
    /\ submittee' = (submittee + 1) % RunnerCount
    /\ UNCHANGED <<regionState, catalog, clean, reclaiming>>
    /\ RcUnchanged

(* task_rx.recv() *)
RunnerReceive(i) ==
    /\ reclaiming[i] = None
    /\ tasks[i] # None
    /\ reclaiming' = [reclaiming EXCEPT ![i] = tasks[i]]
    /\ tasks' = [tasks EXCEPT ![i] = None]
    /\ UNCHANGED <<regionState, catalog, clean, evictable, submittee>>
    /\ RcUnchanged

(* Under exclusive(false, false, false): take_region, release the region  *)
(* to the clean queue, drop the guard.  The version is not advanced.      *)
(* Fault variant: step 1, take_region, left out. *)
RunnerReclaimKeepIndices(i) ==
    LET r == reclaiming[i] IN
    /\ r # None
    /\ ExclusiveReady(r, FALSE, FALSE, FALSE)
    /\ clean' = Append(clean, r)
    /\ reclaiming' = [reclaiming EXCEPT ![i] = None]
    /\ UNCHANGED <<regionState, catalog, evictable, tasks, submittee>>
    /\ UNCHANGED <<sequence, ins, queue, fl, lk, ghosts>>

RunnerReclaim(i) ==
    LET r == reclaiming[i] IN
    /\ r # None
    /\ ExclusiveReady(r, FALSE, FALSE, FALSE)
    /\ TakeRegion(r)
    /\ dead' = dead \union {a \in admitted :
                  /\ IsRegionItem(catalog[a.key])
                  /\ catalog[a.key].index.view.region = r
                  /\ a.seq <= catalog[a.key].sequence}
    /\ UNCHANGED <<admitted, ioErrors>>
    /\ clean' = Append(clean, r)
    /\ reclaiming' = [reclaiming EXCEPT ![i] = None]
    /\ UNCHANGED <<regionState, evictable, tasks, submittee>>
    /\ UNCHANGED <<sequence, ins, queue, fl, lk>>

-----------------------------------------------------------------------------
(* lookup, remove, clear.                                                  *)

LkUnchanged == UNCHANGED <<sequence, ins, queue, fl, clean, evictable, tasks,
                           submittee, reclaiming>>

Finish(l, res) == lk' = [lk EXCEPT ![l].pc = "done", ![l].res = res]

(* Ghost: the values of k already dead when a lookup of k starts.         *)
DeadOf(k) == {a \in dead : a.key = k}

(* catalog.lookup(key): a miss, the Inflight value, or a view to load;    *)
(* record_access only reorders the eviction policy, which is a set here.  *)
LookupCatalog(l, k) ==
    LET item == catalog[k] IN
    /\ lk[l].pc = "idle"
    /\ \/ /\ item = NoItem
          /\ lk' = [lk EXCEPT ![l].pc = "done", ![l].key = k, ![l].res = Miss,
                              ![l].dead = DeadOf(k)]
       \/ /\ item # NoItem /\ item.index = Inflight
          /\ lk' = [lk EXCEPT ![l].pc = "done", ![l].key = k,
                              ![l].res = Decoded(Value(k, item.sequence)), ![l].dead = DeadOf(k)]
       \/ /\ IsRegionItem(item)
          /\ lk' = [lk EXCEPT ![l].pc = "load", ![l].key = k, ![l].view = item.index.view,
                              ![l].dead = DeadOf(k)]
    /\ UNCHANGED <<regionState, catalog, ghosts>>
    /\ LkUnchanged

(* region.load(view) under the region lock: a version mismatch returns     *)
(* None and lookup removes the key; with a buffer attached the slice is    *)
(* a pointer into the buffer (buffered_readers += 1); without one,         *)
(* physical_readers += 1 and the lock is dropped before the device read.   *)
LookupLoad(l) ==
    LET v == lk[l].view IN
    /\ lk[l].pc = "load"
    /\ IF ~ VersionMatches(v.region, v.version)
       THEN /\ CatalogRemove(lk[l].key)
            /\ Finish(l, Miss)
            /\ UNCHANGED regionState
       ELSE /\ \/ /\ LoadBuffered(v.region)
                  /\ lk' = [lk EXCEPT ![l].pc = "parse", ![l].via = "buffered"]
               \/ /\ LoadPhysical(v.region)
                  /\ lk' = [lk EXCEPT ![l].pc = "read", ![l].via = "physical"]
            /\ UNCHANGED catalog
    /\ UNCHANGED ghosts
    /\ LkUnchanged

(* The device read of a physical load.  A short read takes the lock,       *)
(* physical_readers -= 1, returns None, and lookup removes the key.  A     *)
(* read that fails returns the error through the `?` of device.read and   *)
(* of lookup (region.rs:255-258, generic.rs:394) before the cleanup that   *)
(* would decrement physical_readers exists (region.rs:269): the count     *)
(* stays raised and the catalog is left alone.                            *)

LookupRead(l) ==
    LET v == lk[l].view IN
    /\ lk[l].pc = "read"
    /\ \/ /\ lk' = [lk EXCEPT ![l].pc = "parse", ![l].block = disk[v.region][v.offset]]
          /\ UNCHANGED <<regionState, catalog, ghosts>>
       \/ /\ ShortReads
          /\ ReleasePhysical(v.region)
          /\ CatalogRemove(lk[l].key)
          /\ Finish(l, Miss)
          /\ UNCHANGED ghosts
       \/ /\ ioErrors < MaxDeviceErrors
          /\ ioErrors' = ioErrors + 1
          /\ Finish(l, IoError)
          /\ UNCHANGED <<regionState, catalog, admitted, dead>>
    /\ LkUnchanged

(* read_entry on the slice (the live buffer for a buffered read, the      *)
(* bytes read for a physical one); the decoded key is ignored; on error    *)
(* lookup removes the key; then the ReadSlice is dropped and its cleanup   *)
(* decrements the counter its load incremented.                           *)
LoadedBlock(l) ==
    IF lk[l].via = "buffered"
    THEN buffer[lk[l].view.region][lk[l].view.offset]
    ELSE lk[l].block

LookupParse(l) ==
    LET v == lk[l].view
        res == ReadEntry(LoadedBlock(l), v.len)
    IN /\ lk[l].pc = "parse"
       /\ Finish(l, res)
       /\ IF res.kind = "value" THEN UNCHANGED catalog ELSE CatalogRemove(lk[l].key)
       /\ IF lk[l].via = "buffered"
          THEN ReleaseBuffered(v.region)
          ELSE ReleasePhysical(v.region)
       /\ UNCHANGED ghosts
       /\ LkUnchanged

LookupReset(l) ==
    /\ lk[l].pc = "done"
    /\ lk' = [lk EXCEPT ![l] = IdleLookup]
    /\ UNCHANGED <<regionState, catalog, ghosts>>
    /\ LkUnchanged

StoreRemove(k) ==
    /\ CatalogRemove(k)
    /\ dead' = dead \union {a \in admitted : a.key = k}
    /\ UNCHANGED <<admitted, ioErrors>>
    /\ UNCHANGED <<regionState, lk>>
    /\ LkUnchanged

StoreClear ==
    /\ CatalogClear
    /\ dead' = admitted
    /\ UNCHANGED <<admitted, ioErrors>>
    /\ UNCHANGED <<regionState, lk>>
    /\ LkUnchanged


-----------------------------------------------------------------------------

Next ==
    \/ \E i \in Inserters, k \in Keys : MintSequence(i, k)
    \/ \E i \in Inserters : InsertAndSend(i)
    \/ \E f \in Flushers :
        \/ FlusherAcquire(f) \/ FlusherAllocate(f) \/ FlusherWrite(f)
        \/ FlusherSealFooter(f) \/ FlusherFlush(f) \/ FlusherDetach(f)
    \/ SubmitReclaim
    \/ \E i \in Runners : RunnerReceive(i) \/ RunnerReclaim(i)
    \/ \E l \in Lookups :
        \/ \E k \in Keys : LookupCatalog(l, k)
        \/ LookupLoad(l) \/ LookupRead(l) \/ LookupParse(l) \/ LookupReset(l)
    \/ \E k \in Keys : StoreRemove(k)
    \/ StoreClear

(* Background tasks and the rest of a started call run whenever they can.  *)
(* The steps behind exclusive() poll a condition that readers and writers  *)
(* make true and false again, so they need strong fairness; callers        *)
(* (MintSequence, LookupCatalog, Remove, Clear) need none.                  *)
Fairness ==
    /\ \A i \in Inserters : WF_vars(InsertAndSend(i))
    /\ \A f \in Flushers :
        /\ WF_vars(FlusherAcquire(f)) /\ WF_vars(FlusherAllocate(f))
        /\ WF_vars(FlusherWrite(f)) /\ WF_vars(FlusherSealFooter(f))
        /\ SF_vars(FlusherFlush(f)) /\ SF_vars(FlusherDetach(f))
    /\ WF_vars(SubmitReclaim)
    /\ \A i \in Runners : WF_vars(RunnerReceive(i)) /\ SF_vars(RunnerReclaim(i))
    /\ \A l \in Lookups :
        WF_vars(LookupLoad(l)) /\ WF_vars(LookupRead(l)) /\ WF_vars(LookupParse(l))

Spec == Init /\ [][Next]_vars /\ Fairness

-----------------------------------------------------------------------------
(* Properties.                                                             *)

ActiveRegions == {fl[f].region : f \in Flushers} \ {None}
QueuedRegions == {tasks[i] : i \in Runners} \ {None}
ReclaimingRegions == {reclaiming[i] : i \in Runners} \ {None}

(* spec.md section 8: clean + active + sealed regions = all regions.  No   *)
(* region is ever in two places at once (two flushers filling the same     *)
(* region, a region both clean and evictable, queued twice) and none is    *)
(* lost between the flusher's detach, the eviction policy, the runner's    *)
(* channel and release to the clean queue.                                 *)
RegionPartition ==
    LET places == <<Range(clean), ActiveRegions, evictable, QueuedRegions, ReclaimingRegions>>
    IN /\ Len(clean) = Cardinality(Range(clean))
       /\ Cardinality(ActiveRegions) = Cardinality({f \in Flushers : fl[f].region # None})
       /\ Cardinality(QueuedRegions) = Cardinality({i \in Runners : tasks[i] # None})
       /\ Cardinality(ReclaimingRegions) = Cardinality({i \in Runners : reclaiming[i] # None})
       /\ \A a, b \in 1 .. 5 : a # b => places[a] \cap places[b] = {}
       /\ UNION {places[a] : a \in 1 .. 5} = RegionIds

(* Every Region { view } in the catalog points at the entry of its own key *)
(* and sequence: in the attached buffer while the region is being filled   *)
(* and flushed, on the device after detach.  Reclaim (take_region under    *)
(* exclusive) must have dropped every view before a flusher re-attaches    *)
(* and overwrites the region.                                              *)
CatalogViewsValid ==
    \A k \in Keys : IsRegionItem(catalog[k]) =>
        LET v == catalog[k].index.view
            blocks == IF HasBuffer(v.region) THEN buffer[v.region] ELSE disk[v.region]
        IN blocks[v.offset] = EntryHead(Value(k, catalog[k].sequence), v.len)

(* A buffered ReadSlice is a raw pointer into the attached buffer          *)
(* (region.rs:217-233): the buffer is never detached while a buffered      *)
(* reader holds one, which is what the second flush step's                 *)
(* exclusive(false, false, true) is for.                                   *)
NoBufferedReaderWithoutBuffer ==
    \A r \in RegionIds : buffered_readers[r] > 0 => HasBuffer(r)

(* The assertions of attach_buffer (region.rs:287-288, 347) never fire:    *)
(* a step that attaches a fresh buffer to a region finds no buffer there,  *)
(* no writer and no buffered reader.                                       *)
AttachAssertionsHold ==
    [][\A r \in RegionIds :
         (len'[r] = Align /\ len[r] # Align /\ buffer'[r] = FreshBuffer) =>
             /\ buffer[r] = NoBuffer
             /\ writers[r] = 0
             /\ buffered_readers[r] = 0]_vars

(* spec.md 4.6 and section 8 scenario 4: the catalog never points at a     *)
(* region generation that has been reclaimed, and a lookup stalled between *)
(* its catalog hit and region.load must miss after a concurrent reclaim.   *)
(* So a lookup of k that returns a value returns a value of k.             *)
LookupReturnsOwnKey ==
    \A l \in Lookups :
        (lk[l].pc = "done" /\ lk[l].res.kind = "value") => lk[l].res.payload.key = lk[l].key

(* spec.md section 8: a lookup returns the most recently admitted value of *)
(* its key not yet evicted.  It never returns a value of its key that was  *)
(* already superseded, removed or evicted when the lookup began.           *)
LookupReturnsLive ==
    \A l \in Lookups :
        (lk[l].pc = "done" /\ lk[l].res.kind = "value" /\ lk[l].res.payload.key = lk[l].key)
            => lk[l].res.payload \notin lk[l].dead

(* spec.md section 5: after a successful finish() a lookup of the key      *)
(* returns the inflight or the stored value, never nothing, until the key  *)
(* is removed or its region evicted.  The catalog keeps an item for every  *)
(* key with an admitted value that is still live.                          *)
FinishedInsertVisible ==
    \A k \in Keys : (\E a \in admitted \ dead : a.key = k) => catalog[k] # NoItem

(* spec.md 4.3 and section 8 scenario 6, latest admission wins: the       *)
(* catalog never addresses an older value of a key than one still live.   *)
(* A flusher migrates Inflight to Region { view } with a catalog insert    *)
(* long after apply_writer's own insert (generic.rs:567-577); if a newer   *)
(* insert of the key came in between, the sequence guard must drop the     *)
(* migration of the older entry.  It fails when a lookup's short read      *)
(* removes the newer item by key (generic.rs:400) before that migration    *)
(* (MCStoreLatestWins.cfg).                                                *)
LatestAdmissionWins ==
    \A a \in admitted \ dead :
        catalog[a.key] # NoItem => catalog[a.key].sequence >= a.seq

(* spec.md section 5, ordering guarantees: entries admitted with s1 < s2   *)
(* to the same flusher are persisted in that order.  A flusher writes its  *)
(* queue in order, so every queue holds increasing sequences.  apply_writer *)
(* mints with fetch_add and sends later (generic.rs:547, 579), with        *)
(* nothing in between that orders two inserters.                            *)
SameFlusherInSequenceOrder ==
    \A f \in Flushers :
        \A i, j \in DOMAIN queue[f] : i < j => queue[f][i].seq < queue[f][j].seq

(* Every entry sent to a flusher is eventually written: the flusher's      *)
(* queue drains, which needs the clean queue to be refilled by reclaim     *)
(* and every exclusive() to succeed in the end.  A lookup whose device     *)
(* read fails leaves physical_readers raised (region.rs:255-258), so that  *)
(* exclusive() never succeeds again (MCStoreReaderLeak.cfg).               *)
QueuesDrain ==
    \A f \in Flushers : Len(queue[f]) > 0 ~> Len(queue[f]) = 0

=============================================================================
