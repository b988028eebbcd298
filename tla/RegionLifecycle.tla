--------------------------- MODULE RegionLifecycle ---------------------------
(***************************************************************************)
(* What the region manager and its clients promise about a region (spec.md *)
(* sections 2, 4.6-4.8): a region is clean, the active region of one       *)
(* flusher, sealed and held by the eviction policy, or being reclaimed,    *)
(* and it moves only around that cycle.  Flushers take clean regions in    *)
(* the order they were released (the clean queue is FIFO); a reclaimed     *)
(* region goes to the back of the queue.  Nothing here says who does what: *)
(* Store is shown to implement this specification in StoreLifecycle.      *)
(***************************************************************************)
EXTENDS Sequences, SequencesExt

CONSTANTS RegionIds

VARIABLES
    clean,   \* the clean queue
    stage    \* per region: "clean", "active", "sealed" or "reclaiming"

Stages == {"clean", "active", "sealed", "reclaiming"}

(* After open() every region is clean and queued once, in any order. *)
Init ==
    /\ clean \in SetToSeqs(RegionIds)
    /\ stage = [r \in RegionIds |-> "clean"]

Move(r, from, to) ==
    /\ stage[r] = from
    /\ stage' = [stage EXCEPT ![r] = to]

(* A flusher takes the region at the head of the clean queue. *)
Acquire ==
    /\ clean # <<>>
    /\ Move(Head(clean), "clean", "active")
    /\ clean' = Tail(clean)

(* The active region is sealed and handed to the eviction policy. *)
Seal(r) == Move(r, "active", "sealed") /\ UNCHANGED clean

(* The eviction policy gives up a victim for reclamation. *)
Evict(r) == Move(r, "sealed", "reclaiming") /\ UNCHANGED clean

(* The reclaimed region is released to the back of the clean queue. *)
Release(r) ==
    /\ Move(r, "reclaiming", "clean")
    /\ clean' = Append(clean, r)

Next == Acquire \/ \E r \in RegionIds : Seal(r) \/ Evict(r) \/ Release(r)

Spec == Init /\ [][Next]_<<clean, stage>>

=============================================================================
