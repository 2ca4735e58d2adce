---------------------------- MODULE MCSessions ----------------------------
(* Sessions, with its model values.                                          *)
EXTENDS Sessions, TLC
Symmetry == Permutations(Calls) \cup Permutations(Browsers)
=============================================================================
