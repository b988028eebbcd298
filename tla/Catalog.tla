------------------------------- MODULE Catalog -------------------------------
(***************************************************************************)
(* The Catalog: the map from key to Item { sequence, index } that is the   *)
(* only source of truth for what is addressable.  index is Inflight (the   *)
(* value is still in memory, on its way to a flusher) or Region { view }.  *)
(*                                                                         *)
(* catalog.rs is not among the sources of this repository; the operations  *)
(* are written from spec.md section 4.3 and from the way generic.rs and    *)
(* reclaimer.rs call them.  Each operation holds one shard mutex, so each  *)
(* is one atomic step; shards are not told apart.                          *)
(***************************************************************************)
EXTENDS Naturals

CONSTANTS
    Keys,
    NoItem     \* no entry for the key

VARIABLE catalog

Inflight == [kind |-> "inflight"]
InRegion(view) == [kind |-> "region", view |-> view]
Item(sequence, index) == [sequence |-> sequence, index |-> index]

IsRegionItem(item) == item # NoItem /\ item.index.kind = "region"

(* insert: an item of a smaller sequence than the one held is dropped.     *)
(* spec.md 4.3 drops an equal sequence too, but 4.6 step 4 migrates an     *)
(* entry from Inflight to Region { view } through the same insert under    *)
(* the same sequence, which must take effect: the equal sequence of the    *)
(* same entry replaces the item.                                           *)
Supersedes(item, old) == old = NoItem \/ item.sequence >= old.sequence

CatalogInsert(k, item) ==
    catalog' = IF Supersedes(item, catalog[k])
               THEN [catalog EXCEPT ![k] = item]
               ELSE catalog

CatalogRemove(k) ==
    catalog' = [catalog EXCEPT ![k] = NoItem]

CatalogClear ==
    catalog' = [k \in Keys |-> NoItem]

(* take_region: remove every item whose view points into region r.        *)
TakeRegion(r) ==
    catalog' = [k \in Keys |->
                  IF IsRegionItem(catalog[k]) /\ catalog[k].index.view.region = r
                  THEN NoItem ELSE catalog[k]]

=============================================================================
