----------------------------- MODULE MCUpkeep -----------------------------
(* Upkeep, with its model values.                                            *)
EXTENDS Upkeep
=============================================================================
