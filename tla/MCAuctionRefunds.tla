-------------------------- MODULE MCAuctionRefunds --------------------------
(* Symmetric instances of AuctionRefunds for TLC. *)
EXTENDS AuctionRefunds, TLC

Symmetry == Permutations(Users \ Bots) \cup Permutations(Bids)
              \cup Permutations(Requests)
=============================================================================
