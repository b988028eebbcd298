------------------------------ MODULE MCRestart ------------------------------
(* Restart instantiated for TLC, with symmetry over the model values of   *)
(* the keys and the regions.                                               *)
EXTENDS Restart, TLC

MCSymmetry == Permutations(Keys) \union Permutations(RegionIds)

=============================================================================
