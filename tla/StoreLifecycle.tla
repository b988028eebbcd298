--------------------------- MODULE StoreLifecycle ---------------------------
(***************************************************************************)
(* Store implements RegionLifecycle.  The stage of a region is read off    *)
(* where Store keeps it: the clean queue, a flusher's active region (from  *)
(* acquire until the detach hands it on, through both flush steps), the    *)
(* eviction policy, or a reclaim task (in a runner's channel or under its  *)
(* exclusive guard).                                                       *)
(***************************************************************************)
EXTENDS Store

RegionStage(r) ==
    CASE r \in Range(clean)                -> "clean"
      [] \E f \in Flushers : fl[f].region = r -> "active"
      [] r \in evictable                   -> "sealed"
      [] OTHER                             -> "reclaiming"

LC == INSTANCE RegionLifecycle WITH stage <- [r \in RegionIds |-> RegionStage(r)]

(* Every step of the flushers, submit() and the runners moves a region     *)
(* only one stage around the cycle, takes clean regions in release order   *)
(* and releases to the back of the queue; no lookup, insert or remove      *)
(* moves a region at all.                                                  *)
LifecycleRefined == LC!Spec

=============================================================================
