----------------------------- MODULE MCCatalog -----------------------------
(* Catalog with the one sort the main list and the ranking share.              *)
EXTENDS Catalog

TiedQueries == {[sort |-> "popular", among |-> Rows]}
=============================================================================
