# TLA+ models of the foyer disk cache (foyer-storage)

These modules model the storage engine of foyer as it is in `src/`. The engine is a
region-structured disk cache: entries are appended into regions, a catalog maps keys
to regions, and background tasks flush and reclaim regions. The models are checked
with TLC. Each definition is translated from the Rust source. `PROJECT.json` maps
every definition to the lines it models.

The sources are a snapshot that mixes revisions, and the models follow the source as
it is:
- `reclaimer.rs` is the older push-based reclaimer, and it never calls
  `Region::advance`.
- `generic.rs` calls `region.load(view)`, while `region.rs` has `load(range, version)`.
- `catalog.rs`, `flusher.rs`, `region_manager.rs` and `judge.rs` are not among the
  sources. Their parts are written from `spec.md` and marked `spec_modelled` in the map.

## 1. Inventory

### The parts of the system

| Part | Source | State | Operations |
|---|---|---|---|
| Region + ErwLock | region.rs | `version, buffer, len, writers, buffered_readers, physical_readers`, plus the device bytes | `allocate` (Ok / Full), `load` (version check, buffered / physical, short read), ReadSlice and WriteSlice cleanups, `attach_buffer`, `detach_buffer`, `exclusive`, `advance` |
| Catalog | (spec 4.3) | key → `Item{sequence, Inflight \| Region{view}}` | `insert` with the sequence rule, `remove`, `clear`, `take_region` |
| Writer / admission | generic.rs 597-744, lib.rs | per writer: `judges, is_judged, mask, is_inserted` | `new`, `judge`, `force`, `set_judge_mask`, `finish` = `apply_writer`, `Drop`, and the `insert*` helpers |
| Store facade | generic.rs | `sequence`, the catalog, the flusher channels | `open`, `apply_writer`, `lookup`, `remove`, `clear`, `recover` |
| Flusher | (spec 4.6) | active region, its slice | allocate → write → migrate the catalog item; on Full: zero the footer, flush step 1, flush step 2, acquire a new region |
| Reclaimer | reclaimer.rs | `sequence`, one `channel(1)` per runner | `submit` (round robin), `Runner::run` (`exclusive(false,false,false)`, `take_region`, release to the clean queue) |
| RegionManager | (spec 4.8) | the clean queue (FIFO), the eviction policy | acquire / release, eviction push, victim |
| Entry framing | generic.rs 751-977 | — | `EntryHeader`, `read_entry`, `RegionEntryIter` |
| RatedTicket reinsertion | reinsertion/rated_ticket.rs | `last` | `judge` |
| store.rs | store.rs | — | dispatch over the eviction variants |

### How the parts interact

1. A caller's writer is judged by the admission policies.
2. `apply_writer` mints a sequence and puts an Inflight item in the catalog. It then
   sends the entry to flusher `sequence % F`.
3. The flusher appends the entry to its region's buffer and replaces the catalog item
   with a `Region{view}`. When the region is full, the flusher seals it in two
   exclusive steps and hands it to the eviction policy.
4. When the clean queue runs short, a victim goes to a reclaim runner. The runner waits
   for exclusive access, drops the region's catalog items and returns the region to the
   clean queue.
5. A lookup reads the catalog, then `region.load`, then `read_entry`. On a failed load
   or decode, it removes the key.

### What makes it hard

- **Interleavings.** A lookup races reclaim and region reuse between its catalog hit
  and its load. `remove()` races the flusher's catalog migration. Lookups race the
  two flush steps, and readers race `exclusive()`.
- **Polling.** `exclusive()` polls the counters in a loop, so it can starve.
- **Admission notifications.** Each writer path must notify every policy exactly once.
- **Recovery and close.** Concurrent recovery tasks insert into one catalog. A crash can
  land between any two steps. `close()` stops the flushers while inserts are still in
  progress.
- **Relaxed atomics.** `RatedTicket::judge` reads and writes `last` in separate steps.
- **Boundaries.** The footer reservation in `allocate`. The version-0 wildcard in
  `load`. `% task_txs.len()` in `submit`.

Every hazard is listed in `PROJECT.json` at the line where it bites, with the
properties that cover it or the reason none does.

## 2. Modules

| Module | Models | Checked by |
|---|---|---|
| `Region` | region.rs: one operator per critical section under the region lock, and `read_entry`. Offsets are in units of `align`. Slot 0 holds the RegionHeader and the last slot is the footer. A block is zeroes, the header, an entry head (its payload and length) or an entry body. | via the two modules below |
| `RegionClients` | The Region driven by the callers its doc comment (region.rs:99-110) names: one appender with both flush steps, a reclaimer that advances the version, and readers that load any view ever handed out. | `MCRegion` |
| `Catalog` | The catalog operations (spec_modelled). | via `Store` |
| `Store` | The composition: inserters (`apply_writer`), F flushers, `submit`, runners, lookups, `remove`, `clear`. The state is Region's variables plus `catalog, sequence, ins, queue, fl, clean, evictable, tasks, submittee, reclaiming, lk`. The ghosts `admitted` and `dead` record which values are still live. | `MCStore` |
| `Writer` | The writer API and every insert helper of lib.rs, each helper as one step, dispatched through store.rs's `Store` enum: `Store::open` picks a generic store or `Store::None`, whose writer judges false, ignores `set_force`, finishes with `Ok(false)`, and whose `exists` answers false. | `MCWriter` |
| `Restart` | Extends `Store` with the store's life: `open` (one `recover_region` task per region under a semaphore of `RecoverConcurrency` permits, `RegionEntryIter::open`/`next` over the device, sequence = max + 1), `close` (stop and drain the flushers, seal their active regions, join them, then the reclaimers) and a restart that keeps only the device. | `MCRestart` |
| `RegionLifecycle` | An abstract specification: a region is clean, active, sealed or reclaiming and moves only around that cycle; clean regions are taken in release order. | via `StoreLifecycle` |
| `StoreLifecycle` | The refinement mapping from `Store` to `RegionLifecycle` (`INSTANCE ... WITH stage <- ...`), and `LifecycleRefined == LC!Spec`. | `MCStore` |
| `RatedTicket` | `RatedTicketReinsertionPolicy::judge` as its three atomic steps, run by several threads, with the reinsertion counter bumped by the environment. | `MCRatedTicket` |

### How the actions correspond to the code

Each action models a whole handler:

- **`InsertAndSend`** is the catalog insert followed by the channel send of
  `apply_writer`.
- **`RunnerReclaim`** runs under `exclusive(false,false,false)`: it does `take_region`
  and then releases the region to the clean queue. As in the source, it does not
  advance the version.
- **`LookupLoad`** is the locked part of `load`:
  - If the version does not match, it removes the key and misses.
  - Otherwise it either starts a buffered read (`buffered_readers += 1`), or starts a
    physical read (`physical_readers += 1`) and drops the lock.
- **`LookupRead`** is the device read. A short read decrements the counter, removes
  the key and misses.
- **`LookupParse`** is `read_entry`. On error it removes the key. Either way it then
  drops the slice, whose cleanup decrements the right counter.
- **A buffered slice** points into the live buffer and is read at parse time.

`Store` starts as `open` leaves an empty device: `recover` releases every region to
the clean queue in any order, and `sequence = 1`. `Restart` models `open` itself:

- **`RecoverAcquire`** is `semaphore.acquire()` in a recovery task.
- **`RecoverOpen`** is `RegionEntryIter::open`: the read of the first block. A short
  read, or (with `MagicChecked`) a block that is not the region header, ends the task
  with the region released to the clean queue.
- **`RecoverNext`** is one call of `next` and the loop body of `recover_region`. It
  stops at `cursor + align >= region_size`, on a short read, on a block that is not an
  entry head, or on an entry that overruns the region; the task then pushes the region
  to the eviction policy. Otherwise it inserts `(key, Item{seq, Region{view}})` with
  the view taken at the cursor, and advances the cursor.
- **`EndTask`** is the end of `recover_region` and `drop(permit)`.
- **`RecoverFinish`** is the rest of `recover` and `open`: sequence = max + 1.
- **`Close`**, **`FlusherStopSeal`**, **`FlusherExit`** and **`CloseDone`** are
  `close()` and the flusher's stop path (spec.md 4.6 step 5): a stopped flusher keeps
  draining its queue, seals its active region as if it were full, and returns.
- **`Restart`** resets every volatile variable and keeps `disk`. The ghosts record what
  the reopened store must address (`survivors`) and may address (`held`).

`MagicChecked` says whether `RegionHeader::read` compares the magic. The generic.rs
caller expects a `Result`, but region.rs returns the bytes unchecked. So
`MagicChecked = FALSE` is the code, and `TRUE` is what spec.md 4.9 asks for.

## 3. Runs

| Run | Config | Expect | What it shows |
|---|---|---|---|
| `region_alloc` | MCRegion.cfg | pass | `AllocationsDisjoint`: over repeated fill/seal/reclaim cycles with readers in flight, no slice overlaps the header, the footer or another slice. |
| `region_stale_view` | MCRegionStaleView.cfg | violation | `ViewReadsOwnEntry`: even with `advance()`, a version-0 view matches the refilled region (F2). |
| `region_largest_entry` | MCRegionLargestEntry.cfg | violation | `LargestEntryFits`: an entry of `region_size - align` gets Full on a fresh region (F3). |
| `store_safety` | MCStore.cfg | pass | `RegionPartition` (spec §8: clean + active + sealed = all regions, with no duplicates), `CatalogViewsValid` (every Region view points at its own entry, in the buffer or on disk), `NoBufferedReaderWithoutBuffer`, and `AttachAssertionsHold` (an action property: the asserts of `attach_buffer` never fire), with short reads and one failing device read. |
| `store_lifecycle` | MCStoreLiveness.cfg | pass | `LifecycleRefined`: every step of Store, with a lookup whose reads may come back short or fail, implements `RegionLifecycle`. |
| `store_stale_lookup` | MCStoreStaleLookup.cfg | violation | `LookupReturnsOwnKey`: a lookup that stalls across a reclaim returns another key's value (F1). |
| `store_remove_resurrect` | MCStoreRemoveResurrect.cfg | violation | `LookupReturnsLive`: a `remove()` issued while the value is inflight is undone by the flusher's migration (F5). |
| `store_lost_insert` | MCStoreLostInsert.cfg | violation | `FinishedInsertVisible`: a lookup whose read of a reused region fails removes the item of a newer, finished insert (F4). |
| `restart_core` | MCRestart.cfg | pass | `RegionPartitionServing`, `CatalogViewsValid`, `SequenceAheadOfCatalog` (every recovered sequence is below the next one minted), `RecoveryRestoresSurvivors` (when `open()` returns, every live value that reached the device, or all of them after a completed `close()`, is addressed), and `RecoveryMatchesWalk` (the catalog `open()` returns is exactly the newest entry of each key found by walking every region with a valid header, a recursive definition independent of the recovery tasks), over open, inserts, close or a crash, and a second open with two concurrent recovery tasks; `CloseCompletes`: `close()` returns unless the process goes down first; `OpenCompletes`: every `open()` ends with a running store; and `QueuesDrainAcrossRestart`: every entry sent to a flusher is written, also after an `open()` that found every region valid and so left the clean queue empty (generic.rs:496-499), which needs the reclaimer to evict a recovered region. |
| `restart_resurrect` | MCRestartResurrect.cfg | violation | `RecoveryRestoresOnlyHeld`: a value removed before `close()` is back after `open()` (F6). |
| `ticket_double_charge` | MCRatedTicketDoubleCharge.cfg | violation | `ChargedAtMostOnce`: two concurrent `judge()` calls charge the same bytes twice (F7). |
| `writer_notify` | MCWriter.cfg | pass | `NotifyExactlyOnce`: on every path, each policy gets exactly one of `on_insert`/`on_drop` after `judge()`, and `on_insert` exactly when `finish` returned true. |

Every property of a passing run has a mutant in `PROJECT.json`. A mutant is a "fault
variant" operator in the module that makes a plausible bug, and TLC finds the property
violated with it:
- a cleanup that decrements the wrong counter;
- `Fits` without the footer;
- the victim left in the eviction policy;
- reclaim without `take_region`;
- detach under buffered readers;
- a detach that keeps the buffer;
- `apply_writer` marking the writer inserted before judging;
- recovery that drops the running maximum, that forgets the `+ 1`, that stops one block
  early, that takes the view after the cursor moved, that never pushes a valid
  region to the eviction policy, whose cursor never advances, or that starts the walk
  at offset 0 instead of after the header;
- a stopped flusher that takes no region for its queued entries;
- a clean queue popped from the back;
- a judge that charges only granted probes.

### Findings

- **F1.** `Runner::run` never advances the region version, so a lookup stalled across a
  reclaim reads the new generation. This breaks spec §4.7 step 2 and §8 scenario 4.
- **F2.** `load` treats version 0 as "any version", and regions start at version 0. So
  first-generation views are never invalidated, even if reclaim did call `advance`.
- **F3.** After the header, `len = align`. So `len + size + align > capacity` holds for
  `size = region_size - align`, against spec §8's boundary rule. A flusher given such
  an entry seals empty regions forever.
- **F4.** Lookup's error paths (generic.rs:400, 416) remove by key, not by the item
  they read. This removes a concurrent newer insert, against spec §5.
- **F5.** `remove()` does not fence inflight values. The flusher's guarded insert finds
  no item and puts the removed value back. The spec does not say how remove and
  inflight entries interact. `clear()` (generic.rs:442) has the same effect: with `remove()`
  excluded, TLC reaches the violation through `clear()`.

- **F6.** `remove()` and reclaim only drop catalog items, and `recover_region` inserts
  every entry it finds (generic.rs:515). After `close()` and `open()` a removed value
  is returned again, against §8 scenario 3. After a crash, an older value coming back
  is allowed (§1: no strong durability), so the property asks this only after a
  completed `close()`.
- **F7.** `judge()` loads `last` and stores `current` as two Relaxed operations
  (rated_ticket.rs:74-78). Two calls that load the same `last` both charge the same
  delta, and a late store moves `last` back, against §5 (policies are thread safe).
- **F8.** Two inserters can send to one flusher out of sequence order (see
  `MCStoreSendOrder.cfg` below), against spec §5.
- **F10.** A physical read that fails returns its error through `?` (region.rs:255-258,
  generic.rs:394) after `physical_readers += 1` (region.rs:238) and before the cleanup
  that decrements it is built (region.rs:269). The count never returns to zero.
  Reclaim's `exclusive(false, false, false)` (reclaimer.rs:181) never succeeds, and
  `submit` then waits on the runner's full channel under the mutex. The clean queue
  runs dry and the flushers stop writing. Spec §7 says a DeviceIo error is surfaced to
  the caller, so the path is real. `MCStoreReaderLeak.cfg` (one lookup, one device
  error) violates `QueuesDrain` after 30 states; with no device error it holds.
- **F9.** A lookup whose device read comes back short removes its key
  (generic.rs:400) while a newer insert of the key is still inflight. The flusher's
  migration of an older, superseded entry then finds no item and lands, so lookups
  return the older value until the newer entry is written, against spec §4.3 (latest
  admission wins). See `MCStoreLatestWins.cfg` below.

### Further configurations

These configurations are not among the runs in `PROJECT.json`. Each one reproduces a
disagreement with `tlc -config <cfg> MCRestart` (or `RatedTicket`):

- **`MCRestartMagic.cfg`** violates `RegionWithoutMagicIsClean` after four states.
  `RegionHeader::read` (region.rs:63) returns the magic without checking it, so a
  region of zeroes is recovered as a valid, empty region, against spec.md 4.9 step 1.
- **`MCRestartClosePanic.cfg`** violates `NoSendToExitedFlusher` after twelve states.
  With callers that let their inserts return before `close()`, the guards of `Close`
  and `MintSequence` ensure the property, so no listed run checks it.
  `close()` joins the flushers while an insert is between its sequence and its send,
  and `apply_writer` unwraps the failed send (generic.rs:585).
- **`MCRestartShortRead.cfg`** violates `RecoveryRestoresSurvivors` after 21 states.
  A short read of a region's first block at recovery (generic.rs:871) counts as an
  invalid region: the region is released as clean and its entries are lost. A short
  read in `next` (generic.rs:895) drops the rest of the region.
- **`MCStoreSendOrder.cfg`** (module `MCStore`) violates `SameFlusherInSequenceOrder`
  after five states (F8). `apply_writer` takes its sequence with `fetch_add`
  (generic.rs:547) and sends to the flusher later (generic.rs:579). Two inserters that
  pick the same flusher can send in the opposite order of their sequences, so the
  flusher writes the larger sequence first, against spec §5 (entries sent to one
  flusher are persisted in sequence order).
- **`MCStoreLatestWins.cfg`** (module `MCStore`) violates `LatestAdmissionWins` after
  20 states (F9): one key, one lookup and short reads. With whole reads, or with two
  keys and a reused region instead, the property holds.
- **`MCStoreLifecycle.cfg`** checks `LifecycleRefined` on a larger instance: four
  regions, two flushers, two runners and two inserters (99,304 states).
- **`MCRestartLiveness.cfg`** checks `CloseCompletes` with two keys and two sequences.
- **`MCRatedTicket.cfg`** checks `ReinsertedBytesCharged`: when no `judge()` is
  running, the ticket was charged at least `last`.

The catalog's sequence rule is a spec gap that the model had to settle. The flusher
migrates an Inflight item to `Region{view}` under the same sequence. §4.3 drops an
insert whose sequence is not greater, which would drop every migration, but §4.6 says
the migration lands. `Catalog` lets an equal sequence replace the item. With the strict
rule, nothing would leave Inflight and `restart_core` fails.

## 4. Bounds, symmetry and fairness

**Store bounds:**
- 2 keys and 3 sequences.
- 2 regions of 3 blocks each (header, one entry, footer). Two regions is the fewest
  `open` accepts for F = 1.
- One flusher, one runner, `Threshold = 1`, one inserter and two lookups.
- `MaxDeviceErrors = 1` in `store_safety` and `store_lifecycle`: one physical read
  may fail and leak its reader count (F10). The violation runs and the Restart runs,
  which have no lookups, use 0.

These bounds are the smallest in which a region is filled, sealed, evicted, reclaimed
and refilled while a lookup holds a view into it: the third entry lands in the reused
region. The violation traces are 16 to 30 steps long. Larger bounds (two inserters)
take more than three minutes and show nothing new.

**Restart bounds:** one key, two regions of two entries each, one flusher, one runner,
one inserter, no lookups and five sequences. Two entries per region let the recovery
walk move its cursor past a first entry, which `RecoveryMatchesWalk` and
`OpenCompletes` need. With a single key, two regions can still hold
two values of it, which is the case recovery order matters for. Lookups move no region
and take nothing from recovery. `MaxRestarts = 1` gives one close or crash, then a
second open. `RecoverConcurrency = 2` lets both recovery tasks run at once.

The run uses no symmetry, because it also checks liveness. `MagicChecked = FALSE`, as
in region.rs. `ShortReads = FALSE`: a short read at recovery always loses a region (see
`MCRestartShortRead.cfg`), which would hide every other question. `restart_resurrect`
uses two keys and symmetry.

**Lifecycle bounds:** `LifecycleRefined` is checked with the `store_lifecycle` bounds.
Both regions are acquired, sealed, evicted and released, and the released one is
acquired again.

**RatedTicket bounds:** two threads, increments of 1 or 2, and at most 4 bytes. A
stale `current` and an interleaved store both occur.

**Region bounds:** `MCRegion` uses 2 regions of 5 blocks, entry sizes 1 and 2, two
readers and up to two advances per region. This covers slices that end exactly at the
footer.

**Symmetry:** keys, regions, readers, writer slots and policies are model values and
interchangeable, so the safety runs use symmetry over them. The liveness run does not
use symmetry.

**Fairness:**
- The steps of background tasks (flushers, submit, runners) and the rest of a started
  call (`InsertAndSend`, the lookup steps) are weakly fair. They are tokio tasks that
  run whenever they can.
- The steps behind `exclusive()` are strongly fair: `FlusherFlush`, `FlusherDetach`
  and `RunnerReclaim`. `exclusive()` re-polls every millisecond, and its condition is
  made true and false again by readers.
- Callers (`MintSequence`, `LookupCatalog`, `remove`, `clear`) get no fairness.
- In `Restart`, the same steps are fair only while the store serves (`InService`,
  `Reclaiming`). The recovery tasks, the stop path and `CloseDone` are weakly fair.
  `Close` and `Restart` get no fairness.

No listed run checks that the flush and reclaim pipeline drains while lookups run.
With lookups, `QueuesDrain` fails through the reader leak of F10
(`MCStoreReaderLeak.cfg`). With two lookups that overlap forever, `buffered_readers`
never reaches zero either; the code gives no guarantee against that starvation. Both
are listed as hazards. `QueuesDrainAcrossRestart` checks the pipeline without lookups.

`MCWriter` does not check deadlock, because all writer slots really do finish.
The Store and Region runs check deadlock.

## 5. Not modelled, and why

- **Device I/O** beyond whole-region writes and block reads. A block read may come back
  short, and a lookup's physical read may fail (F10). Read errors during recovery make
  `open()` fail, and write errors end the flusher; neither is modelled.
- **Compression, checksums and byte encoding.** Entries are abstracted to block kinds,
  so a corrupt mid-region header is a block that is not an entry head.
- **Metrics**, except `op_bytes_reinsert` in `RatedTicket`.
- **`store.rs` beyond the writer path**: `lookup`, `remove`, `clear` and `close` of
  `Store::None` answer constants; the LRU, LFU and FIFO variants differ only in the
  eviction policy, which is a set here.
- **foyer-common's `lib.rs`**: module declarations only.
- **Eviction order**, which is a set here.
- **`try_submit`**, which no modelled caller uses.
- **`AsyncQueue::flash`** (generic.rs:498). `AsyncQueue` is not among the sources. In
  the model a flusher waits on the clean queue as a guard, so no wake-up can be lost;
  `QueuesDrainAcrossRestart` checks the case the flash is for.
- **The division by zero in `submit` before `run`.**
- **The `insert_if_not_exists` check-then-act race**, because spec.md claims no
  atomicity for it.
- **The inner `RatedTicket`** (foyer-common, not among the sources), reduced to the
  bytes charged.
- **Reinsertion**, a TODO in `Runner::run`.
