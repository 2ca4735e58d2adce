--------------------------- MODULE MCAuctionClock ---------------------------
(* Symmetric instances of AuctionClock for TLC. *)
EXTENDS AuctionClock, TLC

Symmetry == Permutations(Auctions) \cup Permutations(Requests) \cup Permutations(Crons)
=============================================================================
