---------------------------- MODULE MCRegion ----------------------------
(* Model-checking instance of RegionClients.                              *)
EXTENDS RegionClients, TLC

(* Regions and readers are interchangeable: no operator tells two apart. *)
MCSymmetry == Permutations(RegionIds) \union Permutations(Readers)
=============================================================================
