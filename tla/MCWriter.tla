------------------------------- MODULE MCWriter -------------------------------
(* Writer instantiated for TLC: writer slots and policies are model        *)
(* values and interchangeable.                                             *)
EXTENDS Writer, TLC

MCSymmetry == Permutations(Writers) \union Permutations(Policies)

=============================================================================
