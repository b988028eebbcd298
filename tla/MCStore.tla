------------------------------- MODULE MCStore -------------------------------
(* Store instantiated for TLC: the keys and regions are model values and  *)
(* are interchangeable, so the model may use symmetry over them.           *)
EXTENDS StoreLifecycle, TLC

MCSymmetry == Permutations(Keys) \union Permutations(RegionIds)

=============================================================================
