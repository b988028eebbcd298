---------------------------- MODULE RegionClients ----------------------------
(***************************************************************************)
(* The Region of region.rs driven by the callers its doc comment names     *)
(* (region.rs:99-110): one appender that fills a region and seals it in    *)
(* the two flush steps the comment prescribes, a reclaimer that takes a    *)
(* sealed region back with exclusive(false, false, false) and advances its *)
(* version, and readers that load any view ever handed out by allocate,    *)
(* stale ones included (what a lookup holding an old catalog entry does).  *)
(*                                                                         *)
(* The callers are written from the contract in region.rs and spec.md      *)
(* (sections 4.2, 4.6, 4.7); Store.tla composes the callers of this        *)
(* repository instead.                                                     *)
(***************************************************************************)
EXTENDS Naturals, FiniteSets

CONSTANTS
    RegionIds, RegionSize, NoBuffer,
    Readers,      \* concurrent readers
    EntrySizes,   \* aligned entry lengths the appender writes
    MaxWrites,    \* bound on the entries written
    MaxVersion    \* bound on advance() per region

VARIABLES
    version, buffer, len, writers, buffered_readers, physical_readers, disk,
    appender,   \* the appender: pc, region, and the slice it holds
    clean,      \* regions free for the appender
    sealed,     \* regions written back and detached, candidates for reclaim
    rd,         \* per reader: pc, the view it loads, what it read
    views,      \* every view allocate has handed out
    extents,    \* per region: the [offset, len] allocated since attach
    written     \* number of entries written; an entry's payload is its number

Payloads == 1 .. MaxWrites

INSTANCE Region

(* The region variables, listed here for UNCHANGED. *)
regionState == <<version, buffer, len, writers, buffered_readers, physical_readers, disk>>

vars == <<regionState, appender, clean, sealed, rd, views, extents, written>>

NoRegion == "no_region"
NoView == [region |-> NoRegion, offset |-> 0, len |-> 0, version |-> 0, payload |-> 0]
View == [region : RegionIds, offset : Slots, len : EntrySizes,
         version : 0 .. MaxVersion, payload : Payloads]
Missing == [kind |-> "missing", payload |-> NoBuffer]
Nothing == [kind |-> "nothing", payload |-> NoBuffer]

TypeOKClients ==
    /\ TypeOK
    /\ appender \in [pc : {"acquire", "ready", "write", "full", "flush", "detach"},
                     region : RegionIds \union {NoRegion},
                     slice : View \union {NoView}]
    /\ clean \subseteq RegionIds
    /\ sealed \subseteq RegionIds
    /\ rd \in [Readers -> [pc : {"idle", "buffered", "physical", "done"},
                           view : View \union {NoView},
                           res : {Decoded(p) : p \in Payloads} \union {Missing, Nothing, DecodeError, DecodeOverrun}]]
    /\ views \subseteq View
    /\ extents \in [RegionIds -> SUBSET [offset : Slots, len : EntrySizes]]
    /\ written \in 0 .. MaxWrites

Init ==
    /\ InitRegions([r \in RegionIds |-> [s \in Slots |-> Zeroes]])
    /\ appender = [pc |-> "acquire", region |-> NoRegion, slice |-> NoView]
    /\ clean = RegionIds
    /\ sealed = {}
    /\ rd = [i \in Readers |-> [pc |-> "idle", view |-> NoView, res |-> Nothing]]
    /\ views = {}
    /\ extents = [r \in RegionIds |-> {}]
    /\ written = 0

-----------------------------------------------------------------------------
(* The appender (the caller of allocate and of the two flush steps).       *)

SetPc(pc) == appender' = [appender EXCEPT !.pc = pc]

AppenderAcquire ==
    /\ appender.pc = "acquire"
    /\ \E r \in clean :
        /\ AttachBuffer(r)
        /\ appender' = [pc |-> "ready", region |-> r, slice |-> NoView]
        /\ clean' = clean \ {r}
        /\ extents' = [extents EXCEPT ![r] = {}]
    /\ UNCHANGED <<sealed, rd, views, written>>

AppenderAllocate ==
    LET r == appender.region IN
    /\ appender.pc = "ready"
    /\ written < MaxWrites
    /\ \E size \in EntrySizes :
        LET slice == [region |-> r, offset |-> len[r], len |-> size,
                      version |-> version[r], payload |-> written + 1]
        IN \/ /\ AllocateOk(r, size)
              /\ appender' = [appender EXCEPT !.pc = "write", !.slice = slice]
              /\ extents' = [extents EXCEPT ![r] = @ \union {[offset |-> len[r], len |-> size]}]
           \/ /\ AllocateFull(r, size)
              /\ appender' = [appender EXCEPT !.pc = "full", !.slice = slice]
              /\ UNCHANGED extents
    /\ UNCHANGED <<clean, sealed, rd, views, written>>

AppenderWrite ==
    LET s == appender.slice IN
    /\ appender.pc = "write"
    /\ WriteEntry(s.region, s.offset, s.len, s.payload)
    /\ appender' = [appender EXCEPT !.pc = "ready", !.slice = NoView]
    /\ views' = views \union {s}
    /\ written' = written + 1
    /\ UNCHANGED <<clean, sealed, rd, extents>>

AppenderSealFooter ==
    /\ appender.pc = "full"
    /\ ZeroFooter(appender.region)
    /\ appender' = [appender EXCEPT !.pc = "flush", !.slice = NoView]
    /\ UNCHANGED <<clean, sealed, rd, views, extents, written>>

(* Flush step 1: no writers or physical readers, write the buffer back.    *)
AppenderFlush ==
    /\ appender.pc = "flush"
    /\ ExclusiveReady(appender.region, FALSE, TRUE, FALSE)
    /\ WriteBack(appender.region)
    /\ SetPc("detach")
    /\ UNCHANGED <<clean, sealed, rd, views, extents, written>>

(* Flush step 2: no writers or buffered readers, detach the buffer.        *)
AppenderDetach ==
    /\ appender.pc = "detach"
    /\ ExclusiveReady(appender.region, FALSE, FALSE, TRUE)
    /\ DetachBuffer(appender.region)
    /\ appender' = [pc |-> "acquire", region |-> NoRegion, slice |-> NoView]
    /\ sealed' = sealed \union {appender.region}
    /\ UNCHANGED <<clean, rd, views, extents, written>>

(* Reclaim: totally exclusive, advance the version, return to clean.       *)
Reclaim ==
    \E r \in sealed :
        /\ version[r] < MaxVersion
        /\ ExclusiveReady(r, FALSE, FALSE, FALSE)
        /\ Advance(r)
        /\ sealed' = sealed \ {r}
        /\ clean' = clean \union {r}
        /\ UNCHANGED <<appender, rd, views, extents, written>>

-----------------------------------------------------------------------------
(* Readers: Region::load with the view's version, then read_entry.        *)

ReaderLoad(i) ==
    /\ rd[i].pc \in {"idle", "done"}
    /\ \E v \in views :
        \/ /\ ~ VersionMatches(v.region, v.version)
           /\ rd' = [rd EXCEPT ![i] = [pc |-> "done", view |-> v, res |-> Missing]]
           /\ UNCHANGED regionState
        \/ /\ VersionMatches(v.region, v.version)
           /\ LoadBuffered(v.region)
           /\ rd' = [rd EXCEPT ![i] = [pc |-> "buffered", view |-> v, res |-> Nothing]]
        \/ /\ VersionMatches(v.region, v.version)
           /\ LoadPhysical(v.region)
           /\ rd' = [rd EXCEPT ![i] = [pc |-> "physical", view |-> v, res |-> Nothing]]
    /\ UNCHANGED <<appender, clean, sealed, views, extents, written>>

ReaderReadBuffered(i) ==
    LET v == rd[i].view IN
    /\ rd[i].pc = "buffered"
    /\ rd' = [rd EXCEPT ![i].pc = "done",
                        ![i].res = ReadEntry(buffer[v.region][v.offset], v.len)]
    /\ ReleaseBuffered(v.region)
    /\ UNCHANGED <<appender, clean, sealed, views, extents, written>>

ReaderReadPhysical(i) ==
    LET v == rd[i].view IN
    /\ rd[i].pc = "physical"
    /\ rd' = [rd EXCEPT ![i].pc = "done",
                        ![i].res = ReadEntry(disk[v.region][v.offset], v.len)]
    /\ ReleasePhysical(v.region)
    /\ UNCHANGED <<appender, clean, sealed, views, extents, written>>

Next ==
    \/ AppenderAcquire \/ AppenderAllocate \/ AppenderWrite
    \/ AppenderSealFooter \/ AppenderFlush \/ AppenderDetach
    \/ Reclaim
    \/ \E i \in Readers :
        ReaderLoad(i) \/ ReaderReadBuffered(i) \/ ReaderReadPhysical(i)

Spec == Init /\ [][Next]_vars

-----------------------------------------------------------------------------
(* Properties.                                                             *)

(* allocate() hands out slices that never overlap one another, never cover *)
(* the RegionHeader block and never reach into the footer block it        *)
(* reserves (region.rs:155-186), however the entry sizes fall.             *)
AllocationsDisjoint ==
    \A r \in RegionIds : \A e, f \in extents[r] :
        /\ e.offset >= Align
        /\ e.offset + e.len <= Footer
        /\ e # f => (e.offset + e.len <= f.offset \/ f.offset + f.len <= e.offset)

(* The doc comment of Region (region.rs:109-110) says reclaim guards       *)
(* against in-flight readers by version: a reader that loads an old view   *)
(* after the region was reclaimed and refilled must not be handed the      *)
(* entry written in the new generation.  A successful read returns the     *)
(* view's own entry.                                                       *)
ViewReadsOwnEntry ==
    \A i \in Readers :
        (rd[i].pc = "done" /\ rd[i].res.kind = "value") => rd[i].res.payload = rd[i].view.payload

(* spec.md section 8: an entry whose aligned size is region_size - align   *)
(* fills exactly one region; so allocate never answers Full on a region    *)
(* that has just had its buffer attached.                                  *)
LargestEntryFits ==
    appender.pc = "full" => appender.slice.offset > Align

=============================================================================
