------------------------------- MODULE Region -------------------------------
(***************************************************************************)
(* The Region of foyer-storage (src/foyer-storage/src/region.rs): a        *)
(* contiguous range of the device, an optional attached dirty buffer, a    *)
(* version and the writers / buffered_readers / physical_readers counters, *)
(* all kept in RegionInner behind one RwLock (ErwLock).                    *)
(*                                                                         *)
(* Offsets and lengths are counted in units of device.align(): slot 0 of a *)
(* region holds the RegionHeader, slot RegionSize-1 is the footer that     *)
(* allocate() reserves.  The bytes of a slot are abstracted to what the    *)
(* entry reader tells apart: zeroes, the region header, the first block of *)
(* an entry (its payload and aligned length) or a later block of an entry. *)
(*                                                                         *)
(* Every operator below is one critical section under the region lock, so *)
(* a composing specification takes each as one atomic step and conjoins   *)
(* its own variables.                                                      *)
(***************************************************************************)
EXTENDS Naturals

CONSTANTS
    RegionIds,    \* the regions of the device, 0..device.regions()-1
    RegionSize,   \* device.region_size() in units of device.align()
    Payloads,     \* what an entry carries (key, value, sequence)
    NoBuffer      \* RegionInner.buffer = None

ASSUME RegionSize \in Nat /\ RegionSize >= 3

VARIABLES
    version,            \* RegionInner.version
    buffer,             \* RegionInner.buffer: NoBuffer or the slots of the dirty buffer
    len,                \* RegionInner.len
    writers,            \* RegionInner.writers
    buffered_readers,   \* RegionInner.buffered_readers
    physical_readers,   \* RegionInner.physical_readers
    disk                \* the region's bytes on the device

Align == 1
Slots == 0 .. RegionSize - 1
Footer == RegionSize - Align

(* Contents of one aligned block. *)
Zeroes == [kind |-> "zeroes", payload |-> NoBuffer, len |-> 0]
RegionHeaderBlock == [kind |-> "region_header", payload |-> NoBuffer, len |-> 0]
EntryBody == [kind |-> "entry_body", payload |-> NoBuffer, len |-> 0]
EntryHead(p, n) == [kind |-> "entry", payload |-> p, len |-> n]
EntryHeads == [kind : {"entry"}, payload : Payloads, len : 1 .. RegionSize]
Block == {Zeroes, RegionHeaderBlock, EntryBody} \union EntryHeads

(* A buffer handed out by the device: RegionHeader written at offset 0 by  *)
(* attach_buffer, zeroes elsewhere.                                        *)
FreshBuffer == [s \in Slots |-> IF s = 0 THEN RegionHeaderBlock ELSE Zeroes]

TypeOK ==
    /\ version \in [RegionIds -> Nat]
    /\ buffer \in [RegionIds -> {NoBuffer} \union [Slots -> Block]]
    /\ len \in [RegionIds -> 0 .. RegionSize]
    /\ writers \in [RegionIds -> Nat]
    /\ buffered_readers \in [RegionIds -> Nat]
    /\ physical_readers \in [RegionIds -> Nat]
    /\ disk \in [RegionIds -> [Slots -> Block]]

(* Region::new: version 0, no buffer, all counters zero.  The device is    *)
(* given as its initial contents.                                          *)
InitRegions(initialDisk) ==
    /\ version = [r \in RegionIds |-> 0]
    /\ buffer = [r \in RegionIds |-> NoBuffer]
    /\ len = [r \in RegionIds |-> 0]
    /\ writers = [r \in RegionIds |-> 0]
    /\ buffered_readers = [r \in RegionIds |-> 0]
    /\ physical_readers = [r \in RegionIds |-> 0]
    /\ disk = initialDisk

HasBuffer(r) == buffer[r] # NoBuffer

(*************************** allocate ***************************************)
(* One align is reserved for the footer: the request does not fit when     *)
(* len + size + align > capacity.                                          *)
(* Fault variant: the footer reservation forgotten. *)
FitsWithoutFooter(r, size) == len[r] + size <= RegionSize

Fits(r, size) == len[r] + size + Align <= RegionSize

(* Ok: writers += 1 and len += size; the slice is [len, len + size).       *)
AllocateOk(r, size) ==
    /\ HasBuffer(r)
    /\ Fits(r, size)
    /\ writers' = [writers EXCEPT ![r] = @ + 1]
    /\ len' = [len EXCEPT ![r] = @ + size]
    /\ UNCHANGED <<version, buffer, buffered_readers, physical_readers, disk>>

(* Full: writers += 1, len := region_size, the slice is the footer block.  *)
AllocateFull(r, size) ==
    /\ HasBuffer(r)
    /\ ~ Fits(r, size)
    /\ writers' = [writers EXCEPT ![r] = @ + 1]
    /\ len' = [len EXCEPT ![r] = RegionSize]
    /\ UNCHANGED <<version, buffer, buffered_readers, physical_readers, disk>>

(* The holder of an Ok slice fills it with one entry and drops it: the     *)
(* WriteSlice cleanup decrements writers.                                  *)
WriteEntry(r, off, size, p) ==
    /\ buffer' = [buffer EXCEPT ![r] =
                    [s \in Slots |-> CASE s = off -> EntryHead(p, size)
                                       [] s \in off + 1 .. off + size - 1 -> EntryBody
                                       [] OTHER -> @[s]]]
    /\ writers' = [writers EXCEPT ![r] = @ - 1]
    /\ UNCHANGED <<version, len, buffered_readers, physical_readers, disk>>

(* The holder of a Full slice zeroes the footer and drops the slice.       *)
ZeroFooter(r) ==
    /\ buffer' = [buffer EXCEPT ![r][Footer] = Zeroes]
    /\ writers' = [writers EXCEPT ![r] = @ - 1]
    /\ UNCHANGED <<version, len, buffered_readers, physical_readers, disk>>

(***************************** load ****************************************)
(* Version 0 matches any version.                                          *)
VersionMatches(r, v) == v = 0 \/ v = version[r]

(* Buffer attached: buffered read, buffered_readers += 1.                  *)
LoadBuffered(r) ==
    /\ HasBuffer(r)
    /\ buffered_readers' = [buffered_readers EXCEPT ![r] = @ + 1]
    /\ UNCHANGED <<version, buffer, len, writers, physical_readers, disk>>

(* Buffer detached: physical read, physical_readers += 1 before the lock   *)
(* is dropped and the device is read.                                      *)
LoadPhysical(r) ==
    /\ ~ HasBuffer(r)
    /\ physical_readers' = [physical_readers EXCEPT ![r] = @ + 1]
    /\ UNCHANGED <<version, buffer, len, writers, buffered_readers, disk>>

(* The ReadSlice cleanups, and the short-read early return.                *)
(* Fault variant: the buffered cleanup decrements the physical counter. *)
ReleaseBufferedWrongCounter(r) ==
    /\ physical_readers' = [physical_readers EXCEPT ![r] = @ - 1]
    /\ UNCHANGED <<version, buffer, len, writers, buffered_readers, disk>>

ReleaseBuffered(r) ==
    /\ buffered_readers' = [buffered_readers EXCEPT ![r] = @ - 1]
    /\ UNCHANGED <<version, buffer, len, writers, physical_readers, disk>>

(* Fault variant: the physical cleanup decrements the buffered counter. *)
ReleasePhysicalWrongCounter(r) ==
    /\ buffered_readers' = [buffered_readers EXCEPT ![r] = @ - 1]
    /\ UNCHANGED <<version, buffer, len, writers, physical_readers, disk>>

ReleasePhysical(r) ==
    /\ physical_readers' = [physical_readers EXCEPT ![r] = @ - 1]
    /\ UNCHANGED <<version, buffer, len, writers, buffered_readers, disk>>

(*************************** buffer ****************************************)
(* attach_buffer: RegionInner::attach_buffer asserts there is no buffer,   *)
(* Region::attach_buffer asserts writers = 0 and buffered_readers = 0;     *)
(* the header is written and len := align.  The assertions are left to a  *)
(* property of the composing specification, not made guards here.         *)
AttachBuffer(r) ==
    /\ buffer' = [buffer EXCEPT ![r] = FreshBuffer]
    /\ len' = [len EXCEPT ![r] = Align]
    /\ UNCHANGED <<version, writers, buffered_readers, physical_readers, disk>>

(* Fault variant: detach forgets to take the buffer out of RegionInner. *)
DetachBufferKeepBuffer(r) ==
    /\ HasBuffer(r)
    /\ UNCHANGED <<version, buffer, len, writers, buffered_readers, physical_readers, disk>>

DetachBuffer(r) ==
    /\ HasBuffer(r)
    /\ buffer' = [buffer EXCEPT ![r] = NoBuffer]
    /\ UNCHANGED <<version, len, writers, buffered_readers, physical_readers, disk>>

(* device.write of the whole dirty buffer over the region.                 *)
WriteBack(r) ==
    /\ HasBuffer(r)
    /\ disk' = [disk EXCEPT ![r] = buffer[r]]
    /\ UNCHANGED <<version, buffer, len, writers, buffered_readers, physical_readers>>

(* ErwLock::exclusive: the write lock is kept only when every counter the  *)
(* caller does not allow is zero; otherwise it sleeps and tries again.     *)
ExclusiveReady(r, canWrite, canBufferedRead, canPhysicalRead) ==
    /\ canWrite \/ writers[r] = 0
    /\ canBufferedRead \/ buffered_readers[r] = 0
    /\ canPhysicalRead \/ physical_readers[r] = 0

Advance(r) ==
    /\ version' = [version EXCEPT ![r] = @ + 1]
    /\ UNCHANGED <<buffer, len, writers, buffered_readers, physical_readers, disk>>

(************************** read_entry *************************************)
(* What read_entry (generic.rs) makes of the first block of a view of      *)
(* n blocks: the entry's value when the block is an entry header whose     *)
(* entry lies inside the view (magic and checksum hold), an error for any  *)
(* other block, and an out-of-range slice index when the entry is longer   *)
(* than the view.                                                          *)
Decoded(p) == [kind |-> "value", payload |-> p]
DecodeError == [kind |-> "error", payload |-> NoBuffer]
DecodeOverrun == [kind |-> "overrun", payload |-> NoBuffer]
ReadEntry(b, n) ==
    IF b \in EntryHeads
    THEN IF b.len <= n THEN Decoded(b.payload) ELSE DecodeOverrun
    ELSE DecodeError

=============================================================================
