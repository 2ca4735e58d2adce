--------------------------- MODULE MCAuctionHouse ---------------------------
(* Symmetric instances of AuctionHouse for TLC. *)
EXTENDS AuctionHouse, TLC

Symmetry == Permutations(Users \ Bots) \cup Permutations(Bids)
              \cup Permutations(Requests)
=============================================================================
