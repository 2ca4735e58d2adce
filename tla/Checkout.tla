------------------------------ MODULE Checkout ------------------------------
(***************************************************************************)
(* Buying at once and paying, as the detail page and the user's own bids   *)
(* offer it: the window that leads through the calls, which go on when the *)
(* page is left, the cached list of the user's orders, and the review of a *)
(* paid order.  One auction, one user, several attempts.                   *)
(***************************************************************************)
EXTENDS Integers, FiniteSets

CONSTANTS
  Flows,     \* attempts at paying, each of which the user makes at most once
  MaxMoves,  \* bound on changes of the page and on lists that grow old
  MaxLosses  \* bound on calls and events that are lost

ASSUME CheckoutBounds == {MaxMoves, MaxLosses} \subseteq Nat

VARIABLES
  sale,     \* the auction while it is open, then the user's order if it is the user's
  place,    \* the page the user is on
  offered,  \* whether the detail page takes the auction for active
  event,    \* whether the end of the auction is on its way to the detail page
  modal,    \* the window: its step, and the flow it follows
  flow,     \* how far the calls of each flow are, and for which page
  orders,   \* the cached list of orders: the status shown, and the call for it
  review,   \* the form of the card, the calls, and whether there is a Review row
  moves, losses,
  blind     \* history: nothing will tell the list of orders what it has missed

checkoutVars ==
  <<sale, place, offered, event, modal, flow, orders, review, moves, losses, blind>>

OrderStatuses == {"PENDING", "PAID", "CANCELLED"}
Closed == [step |-> "closed", of |-> {}]
AtRest(shown, stale) ==
  [shown |-> shown, call |-> "none", got |-> shown, stale |-> stale, failed |-> FALSE]

CheckoutInit ==
  /\ sale = "open" /\ place = "detail" /\ offered = TRUE /\ event = FALSE
  /\ modal = Closed
  /\ flow = [f \in Flows |-> [step |-> "unused", from |-> "detail"]]
  /\ orders = AtRest("none", TRUE)
  /\ review = [card |-> "button", calls |-> {}, row |-> FALSE]
  /\ moves = 0 /\ losses = 0 /\ blind = FALSE

Loss == losses < MaxLosses /\ losses' = losses + 1
OrdersStay == UNCHANGED <<orders, review, moves, blind>>
SaleStays == UNCHANGED <<sale, event, offered>>

(* What GET /orders/me says of the auction.                                    *)
Order == IF sale \in OrderStatuses THEN sale ELSE "none"

(* useQuery and invalidateQueries: a list in front is read again at once, one  *)
(* that is not is marked, and a call that is under way for it goes on.         *)
Reread == [AtRest(orders.shown, FALSE) EXCEPT !.call = "asked", !.failed = orders.failed]
OrdersInvalidated == IF place = "bids" THEN Reread ELSE [orders EXCEPT !.stale = TRUE]

-----------------------------------------------------------------------------
(* The detail page and the page of the user's bids                             *)

CardGone ==
  [review EXCEPT !.card = "button", !.calls = {[c EXCEPT !.ours = FALSE] : c \in @}]

(* The window goes with the page, the calls do not; the detail page is loaded  *)
(* anew, the orders only if they are stale; an event finds nobody any more.    *)
Visits(page) ==
  /\ page # place /\ moves < MaxMoves
  /\ moves' = moves + 1
  /\ place' = page
  /\ modal' = Closed
  /\ offered' = (page = "detail" /\ sale = "open")
  /\ event' = FALSE
  /\ IF page = "bids" /\ orders.stale /\ orders.call = "none"
     THEN orders' = Reread /\ blind' = FALSE
     ELSE UNCHANGED orders /\ blind' = (blind \/ event)
  /\ review' = CardGone
  /\ UNCHANGED <<sale, flow, losses>>

(* staleTime                                                                   *)
GrowsOld ==
  /\ orders.call = "none" /\ ~orders.stale /\ moves < MaxMoves
  /\ moves' = moves + 1
  /\ orders' = [orders EXCEPT !.stale = TRUE]
  /\ SaleStays /\ UNCHANGED <<place, modal, flow, review, losses, blind>>

OrdersServed ==
  /\ orders.call = "asked"
  /\ orders' = [orders EXCEPT !.call = "served", !.got = Order]
  /\ SaleStays /\ UNCHANGED <<place, modal, flow, review, moves, losses, blind>>
OrdersArrive ==
  /\ orders.call = "served"
  /\ orders' = AtRest(orders.got, FALSE)
  /\ blind' = (blind \/ orders.stale)
  /\ SaleStays /\ UNCHANGED <<place, modal, flow, review, moves, losses>>
(* The page shows a message in place of the orders, and their windows go.      *)
OrdersLost ==
  /\ orders.call # "none" /\ Loss
  /\ orders' = [AtRest(orders.shown, TRUE) EXCEPT !.failed = TRUE]
  /\ blind' = TRUE
  /\ IF place = "bids" THEN modal' = Closed /\ review' = CardGone ELSE UNCHANGED <<modal, review>>
  /\ SaleStays /\ UNCHANGED <<place, flow, moves>>

Card(status) == place = "bids" /\ orders.shown = status /\ ~orders.failed

(* DetailBidControl: "buy now" while the auction is active; WonCard: "pay"     *)
(* while the order shown is to be paid.                                        *)
OpensWindow ==
  /\ modal = Closed
  /\ offered \/ Card("PENDING")
  /\ modal' = [Closed EXCEPT !.step = "confirm"]
  /\ SaleStays /\ OrdersStay /\ UNCHANGED <<place, flow, losses>>

-----------------------------------------------------------------------------
(* PaymentFlowModal                                                            *)

(* The window can be closed in these steps and in no other.                    *)
Closable == {"confirm", "complete", "error"}
ClosesWindow ==
  /\ modal.step \in Closable
  /\ modal' = Closed
  /\ SaleStays /\ OrdersStay /\ UNCHANGED <<place, flow, losses>>

Goes(f, step) == flow' = [flow EXCEPT ![f].step = step]
Shows(f, step) == modal' = IF f \in modal.of THEN [modal EXCEPT !.step = step] ELSE modal

(* handleConfirm, with handlePaymentConfirm of the detail page or onConfirm of *)
(* the card.                                                                   *)
Confirms(f) ==
  /\ modal.step = "confirm" /\ flow[f].step = "unused"
  /\ flow' = [flow EXCEPT ![f] =
       [step |-> IF place = "detail" THEN "buying" ELSE "paying", from |-> place]]
  /\ modal' = [step |-> IF place = "detail" THEN "creating" ELSE "paying", of |-> {f}]
  /\ SaleStays /\ OrdersStay /\ UNCHANGED <<place, losses>>

(* The auction's end is told to whoever is on its page.                        *)
SaleEnds(as) ==
  /\ sale = "open"
  /\ sale' = as
  /\ event' = offered
  /\ blind' = (blind \/ ~offered)
  /\ UNCHANGED <<offered, orders, review, moves>>

BuyServed(f) ==
  /\ flow[f].step = "buying"
  /\ \/ SaleEnds("PENDING") /\ Goes(f, "bought")
     \/ sale # "open" /\ Goes(f, "failed") /\ SaleStays /\ OrdersStay
  /\ UNCHANGED <<place, modal, losses>>

Bought(f) ==
  /\ flow[f].step = "bought"
  /\ Goes(f, "paying") /\ Shows(f, "paying")
  /\ SaleStays /\ OrdersStay /\ UNCHANGED <<place, losses>>

(* payOrder: what is not PENDING is refused, any other failure cancels.        *)
PayServed(f) ==
  /\ flow[f].step = "paying"
  /\ \/ /\ sale = "PENDING"
        /\ \E paid \in BOOLEAN :
             /\ sale' = IF paid THEN "PAID" ELSE "CANCELLED"
             /\ Goes(f, IF paid THEN "paid" ELSE "failed")
        /\ blind' = TRUE
     \/ sale # "PENDING" /\ Goes(f, "failed") /\ UNCHANGED <<sale, blind>>
  /\ UNCHANGED <<event, offered, orders, review, moves, place, modal, losses>>

(* The card has the list of orders read again when the payment is made.        *)
Tells_Marks(f) == [orders EXCEPT !.stale = TRUE]   \* bug: a list in front is not read
Tells(f) == OrdersInvalidated
Concluded_Anyhow(f) == "complete"   \* bug: the answer is not looked at
Concluded(f) == IF flow[f].step = "paid" THEN "complete" ELSE "error"
Answered(f) ==
  /\ flow[f].step \in {"paid", "failed"}
  /\ Goes(f, "done") /\ Shows(f, Concluded(f))
  /\ IF flow[f] = [step |-> "paid", from |-> "bids"]
     THEN orders' = Tells(f) /\ blind' = FALSE
     ELSE UNCHANGED <<orders, blind>>
  /\ SaleStays /\ UNCHANGED <<place, review, moves, losses>>

(* A call that is lost on its way or on its way back throws.                   *)
Throws_Uncaught(f) == UNCHANGED modal   \* bug: no catch around onConfirm
Throws(f) == Shows(f, "error")
CallLost(f) ==
  /\ flow[f].step \in {"buying", "bought", "paying", "paid", "failed"} /\ Loss
  /\ Goes(f, "done") /\ Throws(f)
  /\ SaleStays /\ OrdersStay /\ UNCHANGED place

-----------------------------------------------------------------------------
(* What else happens to the auction and the order                              *)

(* The user wins it, or somebody else has it.                                  *)
AuctionEnds == \E as \in {"PENDING", "taken"} :
  SaleEnds(as) /\ UNCHANGED <<place, modal, flow, losses>>

(* The user did not pay in time.                                               *)
Expires ==
  /\ sale = "PENDING"
  /\ sale' = "CANCELLED"
  /\ blind' = TRUE
  /\ UNCHANGED <<event, offered, orders, review, moves, place, modal, flow, losses>>

(* useAuctionClosedCacheInvalidation                                           *)
EventComes ==
  /\ event /\ event' = FALSE
  /\ offered' = FALSE
  /\ orders' = OrdersInvalidated /\ blind' = FALSE
  /\ UNCHANGED <<sale, place, modal, flow, review, moves, losses>>
EventLost ==
  /\ event /\ Loss /\ event' = FALSE
  /\ blind' = TRUE
  /\ UNCHANGED <<sale, offered, place, modal, flow, orders, review, moves>>

-----------------------------------------------------------------------------
(* The review of a paid order                                                  *)

Reviews(card, calls) ==
  /\ review' = [review EXCEPT !.card = card, !.calls = calls]
  /\ SaleStays /\ UNCHANGED <<place, modal, flow, moves>>

OpensForm ==
  /\ Card("PAID") /\ review.card = "button"
  /\ Reviews("form", review.calls) /\ UNCHANGED <<orders, losses, blind>>
(* The form can be left while it is sent, and sent again if it is opened again *)
(* only once that is over.                                                     *)
ClosesForm ==
  /\ review.card = "form"
  /\ Reviews("button", review.calls) /\ UNCHANGED <<orders, losses, blind>>
SendsReview ==
  /\ review.card = "form" /\ \A c \in review.calls : ~c.ours
  /\ Reviews("form", review.calls \cup {[ours |-> TRUE, step |-> "asked"]})
  /\ UNCHANGED <<orders, losses, blind>>

(* createForOrder                                                              *)
ReviewServed(c) ==
  /\ c \in review.calls /\ c.step = "asked"
  /\ LET accepted == sale = "PAID" /\ ~review.row
     IN  review' = [review EXCEPT
           !.row = @ \/ accepted,
           !.calls = (@ \ {c}) \cup {[c EXCEPT !.step = IF accepted THEN "done" ELSE "refused"]}]
  /\ SaleStays /\ UNCHANGED <<place, modal, flow, moves, orders, losses, blind>>

(* onSuccess, onError                                                          *)
ReviewAnswered(c) ==
  /\ c \in review.calls /\ c.step # "asked"
  /\ Reviews(IF c.ours /\ c.step = "done" THEN "done" ELSE review.card, review.calls \ {c})
  /\ IF c.step = "done" THEN orders' = OrdersInvalidated /\ blind' = FALSE
     ELSE UNCHANGED <<orders, blind>>
  /\ UNCHANGED losses
ReviewLost(c) ==
  /\ c \in review.calls /\ Loss
  /\ Reviews(review.card, review.calls \ {c}) /\ UNCHANGED <<orders, blind>>

CheckoutNext ==
  \/ \E page \in {"detail", "bids", "other"} : Visits(page)
  \/ GrowsOld \/ OrdersServed \/ OrdersArrive \/ OrdersLost
  \/ OpensWindow \/ ClosesWindow
  \/ \E f \in Flows : \/ Confirms(f) \/ BuyServed(f) \/ Bought(f)
                      \/ PayServed(f) \/ Answered(f) \/ CallLost(f)
  \/ AuctionEnds \/ Expires \/ EventComes \/ EventLost
  \/ OpensForm \/ ClosesForm \/ SendsReview
  \/ \E c \in review.calls : ReviewServed(c) \/ ReviewAnswered(c) \/ ReviewLost(c)

(* Every call and every event ends, one way or another.                        *)
CheckoutFairness ==
  /\ WF_checkoutVars(OrdersServed) /\ WF_checkoutVars(OrdersArrive)
  /\ \A f \in Flows :
       WF_checkoutVars(BuyServed(f) \/ Bought(f) \/ PayServed(f) \/ Answered(f))

CheckoutSpec == CheckoutInit /\ [][CheckoutNext]_checkoutVars /\ CheckoutFairness

-----------------------------------------------------------------------------
(* Properties *)

CheckoutTypeOK ==
  /\ sale \in OrderStatuses \cup {"open", "taken"}
  /\ place \in {"detail", "bids", "other"}
  /\ {offered, event, blind, review.row} \subseteq BOOLEAN
  /\ event \/ offered => place = "detail"
  /\ modal.step \in Closable \cup {"closed", "creating", "paying"}
  /\ modal.of \subseteq Flows /\ (modal.step \in {"closed", "confirm"} <=> modal.of = {})
  /\ \A f \in Flows :
       /\ flow[f].step \in {"unused", "buying", "bought", "paying", "paid", "failed", "done"}
       /\ flow[f].from \in {"detail", "bids"}
       /\ f \in modal.of => flow[f].from = place
  /\ orders.shown \in OrderStatuses \cup {"none"}
  /\ orders.call \in {"none", "asked", "served"} /\ {orders.stale, orders.failed} \subseteq BOOLEAN
  /\ review.card \in {"button", "form", "done"}
  /\ review.calls \subseteq [ours : BOOLEAN, step : {"asked", "done", "refused"}]
  /\ moves \in 0 .. MaxMoves /\ losses \in 0 .. MaxLosses

(* A window that says the payment is complete, and a card that says the review *)
(* is written, are right, whatever other attempts and other pages did.         *)
WhatIsSaidIsSo ==
  /\ modal.step = "complete" => sale = "PAID"
  /\ review.card = "done" => review.row /\ sale = "PAID"

(* A window that cannot be closed has a call under way that will lead it on.   *)
WindowHasCall ==
  /\ modal.step = "creating" =>
       \E f \in modal.of : flow[f].step \in {"buying", "bought", "failed"}
  /\ modal.step = "paying" =>
       \E f \in modal.of : flow[f].step \in {"paying", "paid", "failed"}

(* While the list of orders in front is wrong it is being read: whichever      *)
(* comes first, the event of the close, the payment, the review or the page,   *)
(* and whatever call was under way when it came; unless nothing tells it: the  *)
(* order was paid on the detail page or ran out, an answer or the event was    *)
(* lost, or the page was left before the event came.                           *)
OrdersAreRight == orders.shown = Order \/ blind \/ place # "bids"
OrdersRestRight == orders.call = "none" => OrdersAreRight

(* What the window and the page of the orders may show meanwhile.              *)
CheckoutHolds == WhatIsSaidIsSo /\ WindowHasCall /\ OrdersRestRight

(* A window that cannot be closed does not stay: each of its calls ends, in    *)
(* the next step, in success or in an error.                                   *)
WindowFrees == modal.step \in {"creating", "paying"} ~> modal.step \notin {"creating", "paying"}

(* The list of orders in front comes to show the order as it is.               *)
OrdersCatchUp == ~OrdersAreRight ~> OrdersAreRight

(* Nobody is left with a window that stays or with a list that is wrong.       *)
CheckoutSettles == WindowFrees /\ OrdersCatchUp
=============================================================================
