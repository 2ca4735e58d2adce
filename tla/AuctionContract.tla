-------------------------- MODULE AuctionContract --------------------------
(***************************************************************************)
(* What the backend promises about the sale of an auction, without bids,   *)
(* holds, finalizes or requests: an auction is awarded to one buyer at one *)
(* price, the award is withdrawn or paid, and a paid sale is final.        *)
(***************************************************************************)
EXTENDS Naturals

CONSTANTS Auctions, Users, Nobody

VARIABLE sale   \* the phase of each auction and its buyer and price, if any

Phases == {"unlisted", "open", "awarded", "sold", "unsold", "removed"}
Sale == [phase : Phases, buyer : Users \cup {Nobody}, price : Nat]
Without(phase) == [phase |-> phase, buyer |-> Nobody, price |-> 0]

Init == sale = [a \in Auctions |-> Without("unlisted")]

Move(a, from, to) ==
  /\ sale[a].phase \in from
  /\ sale' = [sale EXCEPT ![a] = to]

List(a) == Move(a, {"unlisted"}, Without("open"))
Award(a, u) ==
  /\ sale'[a].price \in Nat
  /\ Move(a, {"open"}, [phase |-> "awarded", buyer |-> u, price |-> sale'[a].price])
Lapse(a) == Move(a, {"open"}, Without("unsold"))
Withdraw(a) == Move(a, {"awarded"}, Without("open"))
Settle(a) == Move(a, {"awarded"}, [sale[a] EXCEPT !.phase = "sold"])
Remove(a) == Move(a, {"open", "unsold"}, Without("removed"))

Next == \E a \in Auctions :
  \/ List(a) \/ Lapse(a) \/ Withdraw(a) \/ Settle(a) \/ Remove(a)
  \/ \E u \in Users : Award(a, u)

Spec == Init /\ [][Next]_sale
=============================================================================
