------------------------ MODULE AuctionHouse_proofs ------------------------
(***************************************************************************)
(* Theorems about AuctionHouse, for any sets of auctions, users, bids and  *)
(* requests, any prices and any faults.                                    *)
(***************************************************************************)
EXTENDS AuctionRefunds, Sums, TLAPS

-----------------------------------------------------------------------------
(* The operators the actions are built from *)

(* The first bid of a set, ordered as the queries order it, is a member of the *)
(* set, or None for a set without members.                                     *)
LEMMA FirstIsMember ==
  ASSUME NEW S, NEW top \in FirstOf(S)
  PROVE  top \in S \/ (S = {} /\ top = None)
BY DEF FirstOf

(* The rows that stand for nothing are rows.                                   *)
LEMMA EmptyRows ==
  NoAuction \in AuctionRow /\ NoBid \in BidRow /\ NoOrder \in OrderRow
BY ExtensionsAreNat DEF NoAuction, NoBid, NoOrder, AuctionRow, BidRow, OrderRow

(* What bidding, closing and reopening read from the first bid has a price.    *)
LEMMA PriceOfType ==
  ASSUME TypeOK, NEW S \in SUBSET Bids, NEW top \in FirstOf(S), NEW p \in Nat
  PROVE  PriceOf(top, p) \in Nat
<1>1. CASE top \in S
  BY <1>1, PricesAreNat, NoneIsNoRow DEF PriceOf, TypeOK, BidRow
<1>2. CASE top = None
  BY <1>2 DEF PriceOf
<1> QED BY <1>1, <1>2, FirstIsMember

(* Bids only ever leave the race through Disqualify; nothing but the status of *)
(* the named bids changes.                                                     *)
LEMMA DisqualifyType ==
  ASSUME TypeOK, NEW S
  PROVE  Disqualify(S) \in [Bids -> BidRow]
BY DEF Disqualify, TypeOK, BidRow

(* An auction that is extended is one extension nearer the limit, never over.  *)
LEMMA AfterBidType ==
  ASSUME TypeOK, NEW a \in Auctions, NEW p \in Nat, NEW near \in BOOLEAN
  PROVE  AfterBid(a, p, near) \in AuctionRow
<1> DEFINE row == auction[a]
<1>1. row \in AuctionRow
  BY DEF TypeOK
<1>2. row.extends < MaxExtensions => row.extends + 1 \in 0 .. MaxExtensions
  BY <1>1, ExtensionsAreNat DEF AuctionRow
<1> QED BY <1>1, <1>2 DEF AfterBid, AuctionRow

(* A write of the finalize payload keeps the Auction table well-formed.        *)
LEMMA SetPayloadType ==
  ASSUME TypeOK, NEW a \in Auctions, NEW payload \in SUBSET SUBSET Bids,
         SetPayload(a, payload)
  PROVE  auction' \in [Auctions -> AuctionRow]
BY DEF TypeOK, SetPayload, AuctionRow

(* A patch moves the prices and the increment of one auction and leaves who    *)
(* sells it, who won it and what is left to finalize of it.                    *)
Patched(new, old) == IF new = None THEN old ELSE new

LEMMA PatchOnly ==
  ASSUME auction \in [Auctions -> AuctionRow], NEW a \in Auctions, NEW p, NEW n, NEW i,
         NEW moveEnd, PatchAuction(a, p, n, i, moveEnd)
  PROVE  /\ auction[a].status = "OPEN" /\ UNCHANGED <<bid, order, wallet, memory>>
         /\ auction'[a].status = auction[a].status
         /\ auction'[a].seller = auction[a].seller
         /\ auction'[a].winner = auction[a].winner
         /\ auction'[a].payload = auction[a].payload
         /\ auction'[a].start = Patched(p, auction[a].start)
         /\ auction'[a].price = Patched(p, auction[a].price)
         /\ auction'[a].inc = Patched(i, auction[a].inc)
         /\ \A x \in Auctions \ {a} : auction'[x] = auction[x]
<1> DEFINE row == [auction[a] EXCEPT !.start = Patched(p, auction[a].start),
                     !.price = Patched(p, auction[a].price),
                     !.buyNow = Patched(n, auction[a].buyNow),
                     !.inc = Patched(i, auction[a].inc),
                     !.over = auction[a].over /\ ~moveEnd]
<1>1. auction' = [auction EXCEPT ![a] = row]
  BY DEF PatchAuction, Patched
<1>2. /\ row.status = auction[a].status /\ row.seller = auction[a].seller
      /\ row.winner = auction[a].winner /\ row.payload = auction[a].payload
      /\ row.start = Patched(p, auction[a].start)
      /\ row.price = Patched(p, auction[a].price)
      /\ row.inc = Patched(i, auction[a].inc)
  <2>1. auction[a] \in AuctionRow
    OBVIOUS
  <2> QED BY <2>1 DEF AuctionRow
<1>3. auction[a].status = "OPEN" /\ UNCHANGED <<bid, order, wallet, memory>>
  BY DEF PatchAuction
<1> HIDE DEF row
<1>4. auction'[a] = row /\ \A x \in Auctions \ {a} : auction'[x] = auction[x]
  BY <1>1
<1> QED BY <1>2, <1>3, <1>4

-----------------------------------------------------------------------------
(* Type correctness *)

(* Reopening, by the cron or after a failed payment, keeps the rows typed.     *)
LEMMA ReopenType ==
  ASSUME TypeOK, NEW a \in Auctions, Reopen(a)
  PROVE  /\ auction' \in [Auctions -> AuctionRow] /\ bid' \in [Bids -> BidRow]
         /\ order' \in [Auctions -> OrderRow]
         /\ DOMAIN balance' = Users /\ released' \subseteq Bids
         /\ held' \subseteq Bids /\ finalizing' \subseteq Finalize
<1>1. PICK top \in FirstOf(LiveBids(a)) :
        LET isAuctionWinner == /\ top # None
                               /\ bid[top].user = order[a].buyer
                               /\ bid[top].price = order[a].price
            out == IF isAuctionWinner THEN {top} ELSE {}
        IN  /\ \E next \in FirstOf(LiveBids(a) \ out) :
                 LET row == [auction[a] EXCEPT !.status = "OPEN", !.winner = None,
                               !.over = FALSE, !.payload = {},
                               !.price = PriceOf(next, auction[a].start)]
                 IN  PriceChecks(row) /\ auction' = [auction EXCEPT ![a] = row]
            /\ bid' = Disqualify(out)
            /\ balance' = Refund(out)
            /\ released' = released \cup out
  BY DEF Reopen
<1> DEFINE out == IF /\ top # None
                     /\ bid[top].user = order[a].buyer
                     /\ bid[top].price = order[a].price
                  THEN {top} ELSE {}
<1>2. out \subseteq Bids
  BY FirstIsMember DEF LiveBids, BidsOn
<1>3. PICK next \in FirstOf(LiveBids(a) \ out) :
        auction' = [auction EXCEPT ![a] =
          [auction[a] EXCEPT !.status = "OPEN", !.winner = None, !.over = FALSE,
             !.payload = {}, !.price = PriceOf(next, auction[a].start)]]
  BY <1>1
<1>4. auction[a] \in AuctionRow /\ auction[a].start \in Nat
  BY DEF TypeOK, AuctionRow
<1>5. PriceOf(next, auction[a].start) \in Nat
  <2>1. LiveBids(a) \ out \in SUBSET Bids
    BY DEF LiveBids, BidsOn
  <2> QED BY <2>1, <1>4, PriceOfType
<1>6. auction' \in [Auctions -> AuctionRow]
  BY <1>3, <1>4, <1>5 DEF TypeOK, AuctionRow
<1>7. bid' \in [Bids -> BidRow]
  BY <1>1, DisqualifyType
<1>8. order' \in [Auctions -> OrderRow]
  BY DEF Reopen, TypeOK, OrderRow
<1>9. DOMAIN balance' = Users
  BY <1>1 DEF Refund
<1>10. released' \subseteq Bids
  BY <1>1, <1>2 DEF TypeOK
<1>11. held' \subseteq Bids /\ finalizing' \subseteq Finalize
  BY DEF Reopen, TypeOK
<1> QED BY <1>6, <1>7, <1>8, <1>9, <1>10, <1>11

(* Closing keeps the rows typed, and hands the finalize bids of the table.     *)
LEMMA CloseType ==
  ASSUME TypeOK, NEW a \in Auctions, Close(a)
  PROVE  TypeOK'
<1> DEFINE losers(w) == {b \in LiveBids(a) : bid[b].user # w}
           winner(t) == IF t = None THEN None ELSE bid[t].user
           final(t) == PriceOf(t, auction[a].price)
<1>1. PICK top \in FirstOf(LiveBids(a)) :
        /\ auction' = [auction EXCEPT ![a] =
             [auction[a] EXCEPT !.status = "CLOSED", !.winner = winner(top),
                !.price = final(top), !.payload = {}]]
        /\ \/ UNCHANGED order
           \/ order' = [order EXCEPT ![a] =
                [NoOrder EXCEPT !.status = "PENDING", !.buyer = winner(top),
                   !.price = final(top)]]
        /\ bid' = Disqualify(losers(winner(top)))
        /\ finalizing' = finalizing \cup
             {[auction |-> a, losers |-> losers(winner(top)), step |-> "RELEASE",
               retry |-> FALSE]}
  BY DEF Close
<1>2. LiveBids(a) \in SUBSET Bids
  BY DEF LiveBids, BidsOn
<1>3. auction[a] \in AuctionRow /\ auction[a].price \in Nat
  BY DEF TypeOK, AuctionRow
<1>4. final(top) \in Nat
  BY <1>2, <1>3, PriceOfType
<1>5. winner(top) \in Users \cup {None}
  BY <1>2, FirstIsMember DEF TypeOK, BidRow
<1>6. auction' \in [Auctions -> AuctionRow]
  BY <1>1, <1>3, <1>4, <1>5 DEF TypeOK, AuctionRow
<1>7. order' \in [Auctions -> OrderRow]
  <2>1. [NoOrder EXCEPT !.status = "PENDING", !.buyer = winner(top),
           !.price = final(top)] \in OrderRow
    BY <1>4, <1>5, EmptyRows DEF OrderRow
  <2> QED BY <1>1, <2>1 DEF TypeOK
<1>8. bid' \in [Bids -> BidRow]
  BY <1>1, DisqualifyType
<1>9. finalizing' \subseteq Finalize
  <2>1. losers(winner(top)) \in SUBSET Bids
    BY <1>2
  <2>2. [auction |-> a, losers |-> losers(winner(top)), step |-> "RELEASE",
         retry |-> FALSE] \in Finalize
    BY <2>1 DEF Finalize
  <2> QED BY <1>1, <2>2 DEF TypeOK
<1> QED BY <1>6, <1>7, <1>8, <1>9 DEF Close, TypeOK, wallet

(* The steps of a finalize and of its retry keep everything typed.             *)
LEMMA FinalizeStepType ==
  ASSUME TypeOK, NEW f \in finalizing, FinalizeStep(f)
  PROVE  TypeOK'
<1> USE DEF wallet
<1>1. f \in Finalize
  BY DEF TypeOK
<1>2. CASE FinalizeRelease(f)
  <2>1. [f EXCEPT !.step = "CLEAR"] \in Finalize
    BY <1>1 DEF Finalize
  <2>2. f.losers \subseteq Bids
    BY <1>1 DEF Finalize
  <2> QED BY <1>2, <2>1, <2>2 DEF FinalizeRelease, TypeOK, Refund
<1>3. CASE FinalizeFails(f)
  <2>1. [f EXCEPT !.step = "PERSIST"] \in Finalize
    BY <1>1 DEF Finalize
  <2> QED BY <1>3, <2>1 DEF FinalizeFails, TypeOK
<1>4. CASE FinalizePersist(f)
  <2>1. f.auction \in Auctions /\ {f.losers} \in SUBSET SUBSET Bids
    BY <1>1 DEF Finalize
  <2>2. auction' \in [Auctions -> AuctionRow]
    BY <1>4, <2>1, SetPayloadType DEF FinalizePersist
  <2> QED BY <1>4, <2>2 DEF FinalizePersist, TypeOK
<1>5. CASE FinalizeClear(f)
  <2>1. f.auction \in Auctions
    BY <1>1 DEF Finalize
  <2>2. auction' \in [Auctions -> AuctionRow]
    BY <1>5, <2>1, SetPayloadType DEF FinalizeClear
  <2> QED BY <1>5, <2>2 DEF FinalizeClear, TypeOK
<1>6. CASE PayloadWriteFails(f)
  BY <1>6 DEF PayloadWriteFails, TypeOK
<1> QED BY <1>2, <1>3, <1>4, <1>5, <1>6 DEF FinalizeStep

(* A request writes, at the price it carries, rows of the right type.          *)
LEMMA RequestStepType ==
  ASSUME TypeOK, NEW r \in Requests, RequestStep(r)
  PROVE  TypeOK'
<1> USE DEF wallet
<1> DEFINE q == request[r]
           a == q.auction
<1>0. q.step # "IDLE" =>
        q \in Request /\ a \in Auctions /\ q.user \in Users /\ q.price \in Nat
  BY DEF TypeOK, Request, Idle
<1>1. Finish(r) => request' \in [Requests -> Request \cup {Idle}]
  BY DEF Finish, TypeOK
<1>2. ASSUME NEW u \in Users, NEW x \in Auctions, BuyNowRead(r, u, x)
      PROVE  TypeOK'
  <2>1. auction[x].buyNow \in Nat
    BY <1>2, NoneIsNoRow DEF BuyNowRead, TypeOK, AuctionRow
  <2>2. [Idle EXCEPT !.step = "BUY", !.user = u, !.auction = x,
           !.price = auction[x].buyNow] \in Request
    BY <2>1 DEF Idle, Request
  <2> QED BY <1>2, <2>2 DEF BuyNowRead, TypeOK
<1>3. ASSUME NEW u \in Users, NEW x \in Auctions, PayRead(r, u, x)
      PROVE  TypeOK'
  <2>1. order[x].price \in Nat
    BY DEF TypeOK, OrderRow
  <2>2. ASSUME NEW h \in BOOLEAN
        PROVE  [step |-> "PAY", user |-> u, auction |-> x,
                price |-> order[x].price, byHold |-> h] \in Request
    BY <2>1 DEF Request
  <2> QED BY <1>3, <2>2 DEF PayRead, TypeOK
<1>4. CASE BuyNowCommit(r)
  <2>0. a \in Auctions /\ q.user \in Users /\ q.price \in Nat
    BY <1>0, <1>4 DEF BuyNowCommit
  <2>1. BoughtRow(r) \in AuctionRow
    <3>1. auction[a] \in AuctionRow
      BY <2>0 DEF TypeOK
    <3> QED BY <2>0, <3>1 DEF BoughtRow, AuctionRow
  <2>2. auction' \in [Auctions -> AuctionRow]
    BY <1>4, <2>1 DEF BuyNowCommit, TypeOK
  <2>3. order' \in [Auctions -> OrderRow]
    <3>1. [NoOrder EXCEPT !.status = "PENDING", !.buyer = q.user,
             !.price = q.price] \in OrderRow
      BY <2>0, EmptyRows DEF OrderRow
    <3> QED BY <1>4, <3>1 DEF BuyNowCommit, TypeOK
  <2> QED BY <1>1, <1>4, <2>2, <2>3 DEF BuyNowCommit, TypeOK
<1>5. CASE BuyNowRejected(r)
  BY <1>1, <1>5 DEF BuyNowRejected, TypeOK
<1>6. CASE PayCommit(r)
  <2>1. PICK out \in SUBSET Bids :
          bid' = Disqualify(out) /\ released' = released \cup out
    BY <1>6 DEF PayCommit, LiveBids, BidsOn
  <2>2. bid' \in [Bids -> BidRow]
    BY <2>1, DisqualifyType
  <2>3. order' \in [Auctions -> OrderRow]
    <3>1. q.byHold \in BOOLEAN /\ a \in Auctions
      BY <1>0, <1>6 DEF PayCommit, Request
    <3>2. order[a] \in OrderRow
      BY <3>1 DEF TypeOK
    <3>3. [order[a] EXCEPT !.status = "PAID", !.byHold = q.byHold] \in OrderRow
      BY <3>1, <3>2 DEF OrderRow
    <3>4. order' = [order EXCEPT ![a] =
            [order[a] EXCEPT !.status = "PAID", !.byHold = q.byHold]]
      BY <1>6, <3>2 DEF PayCommit, TypeOK
    <3> QED BY <3>3, <3>4 DEF TypeOK
  <2>4. DOMAIN balance' = Users
    BY <1>6 DEF PayCommit
  <2> QED BY <1>1, <1>6, <2>1, <2>2, <2>3, <2>4 DEF PayCommit, TypeOK
<1>7. CASE PayConflict(r)
  BY <1>1, <1>7 DEF PayConflict, TypeOK
<1>8. CASE PayFails(r)
  <2>1. [q EXCEPT !.step = "REOPEN"] \in Request
    BY <1>0, <1>8 DEF PayFails, Request
  <2>2. request' = [request EXCEPT ![r] = [q EXCEPT !.step = "REOPEN"]]
    BY <1>8 DEF PayFails, TypeOK
  <2> QED BY <1>8, <2>1, <2>2 DEF PayFails, TypeOK
<1>9. CASE PayReopen(r)
  <2>1. a \in Auctions
    BY <1>0, <1>9 DEF PayReopen
  <2> QED BY <1>1, <1>9, <2>1, ReopenType DEF PayReopen, TypeOK
<1>10. CASE PayGivesUp(r)
  BY <1>1, <1>10 DEF PayGivesUp, TypeOK
<1> QED BY <1>2, <1>3, <1>4, <1>5, <1>6, <1>7, <1>8, <1>9, <1>10 DEF RequestStep

(* Every step of every operation, failure and crash leaves the tables and the  *)
(* memory of the processes well-formed: the soft-close count stays within its  *)
(* limit, prices stay amounts, and no finalize names a bid that is no bid.     *)
THEOREM TypeCorrect == Spec => []TypeOK
<1>1. Init => TypeOK
  BY EmptyRows DEF Init, TypeOK
<1>2. TypeOK /\ [Next]_vars => TypeOK'
  <2> SUFFICES ASSUME TypeOK, [Next]_vars PROVE TypeOK'
    OBVIOUS
  <2> USE DEF wallet, memory
  <2>1. ASSUME NEW a \in Auctions, NEW s \in Users, NEW p \in Prices,
               NEW n \in Prices \cup {None}, NEW i \in Increments,
               CreateAuction(a, s, p, n, i)
        PROVE  TypeOK'
    <3>1. [NoAuction EXCEPT !.status = "OPEN", !.seller = s, !.start = p,
             !.price = p, !.buyNow = n, !.inc = i] \in AuctionRow
      BY PricesAreNat, IncrementsArePositive, EmptyRows DEF AuctionRow
    <3> QED BY <2>1, <3>1 DEF CreateAuction, TypeOK
  <2>2. ASSUME NEW a \in Auctions, NEW u \in Users, NEW p \in Prices,
               NEW near \in BOOLEAN, PlaceBid(a, u, p, near)
        PROVE  TypeOK'
    <3>1. p \in Nat /\ AfterBid(a, p, near) \in AuctionRow
      BY PricesAreNat, AfterBidType
    <3> QED BY <2>2, <3>1 DEF PlaceBid, RecordBid, HoldAndRaise, TypeOK, BidRow
  <2>3. ASSUME NEW a \in Auctions, NEW u \in Users, NEW p \in Prices,
               NEW near \in BOOLEAN, PlaceBidAsBot(a, u, p, near)
        PROVE  TypeOK'
    <3>1. p \in Nat /\ AfterBid(a, p, near) \in AuctionRow
      BY PricesAreNat, AfterBidType
    <3>2. PICK b \in Bids :
            /\ RecordBid(a, u, p, b)
            /\ \/ HoldAndRaise(a, u, p, near, b)
               \/ ~CanAfford(u, p) /\ UNCHANGED <<auction, wallet>>
      BY <2>3 DEF PlaceBidAsBot
    <3>3. bid' \in [Bids -> BidRow]
      BY <3>1, <3>2 DEF RecordBid, TypeOK, BidRow
    <3>4. CASE HoldAndRaise(a, u, p, near, b)
      BY <2>3, <3>1, <3>3, <3>4 DEF PlaceBidAsBot, HoldAndRaise, TypeOK
    <3>5. CASE UNCHANGED <<auction, wallet>>
      BY <2>3, <3>3, <3>5 DEF PlaceBidAsBot, TypeOK
    <3> QED BY <3>2, <3>4, <3>5
  <2>4. ASSUME NEW a \in Auctions, NEW p \in Prices \cup {None},
               NEW n \in Prices \cup {None}, NEW i \in Increments \cup {None},
               NEW moveEnd \in BOOLEAN, PatchAuction(a, p, n, i, moveEnd)
        PROVE  TypeOK'
    <3> DEFINE patched(new, old) == IF new = None THEN old ELSE new
    <3> DEFINE row == [auction[a] EXCEPT !.start = patched(p, @),
                 !.price = patched(p, @), !.buyNow = patched(n, @),
                 !.inc = patched(i, @), !.over = @ /\ ~moveEnd]
    <3>1. auction[a] \in AuctionRow
      BY DEF TypeOK
    <3>2. row \in AuctionRow
      <4>1. /\ patched(p, auction[a].start) \in Nat
            /\ patched(p, auction[a].price) \in Nat
            /\ patched(n, auction[a].buyNow) \in Nat \cup {None}
            /\ patched(i, auction[a].inc) \in Nat
        BY <3>1, PricesAreNat, IncrementsArePositive DEF AuctionRow
      <4>2. (auction[a].over /\ ~moveEnd) \in BOOLEAN
        BY <3>1 DEF AuctionRow
      <4> HIDE DEF patched
      <4> QED BY <3>1, <4>1, <4>2 DEF AuctionRow
    <3>3. auction' = [auction EXCEPT ![a] = row]
      BY <2>4 DEF PatchAuction
    <3> QED BY <2>4, <3>2, <3>3 DEF PatchAuction, TypeOK
  <2>5. ASSUME NEW a \in Auctions, DeleteAuction(a) PROVE TypeOK'
    <3>1. [NoAuction EXCEPT !.status = "DELETED"] \in AuctionRow
      BY EmptyRows DEF AuctionRow
    <3> QED BY <2>5, <3>1, EmptyRows DEF DeleteAuction, TypeOK
  <2>6. ASSUME NEW a \in Auctions, EndTimePasses(a) PROVE TypeOK'
    <3>1. auction[a] \in AuctionRow
      BY DEF TypeOK
    <3>2. [auction[a] EXCEPT !.over = TRUE] \in AuctionRow
      BY <3>1 DEF AuctionRow
    <3>3. auction' = [auction EXCEPT ![a] = [auction[a] EXCEPT !.over = TRUE]]
      BY <2>6 DEF EndTimePasses, TypeOK
    <3> QED BY <2>6, <3>2, <3>3 DEF EndTimePasses, TypeOK
  <2>7. ASSUME NEW a \in Auctions, Close(a) PROVE TypeOK'
    BY <2>7, CloseType
  <2>8. ASSUME NEW a \in Auctions, RetryFinalize(a) PROVE TypeOK'
    <3>1. PICK losers \in auction[a].payload :
            finalizing' = finalizing \cup
              {[auction |-> a, losers |-> losers, step |-> "RELEASE", retry |-> TRUE]}
      BY <2>8 DEF RetryFinalize
    <3>2. losers \in SUBSET Bids
      BY DEF TypeOK, AuctionRow
    <3>3. [auction |-> a, losers |-> losers, step |-> "RELEASE", retry |-> TRUE]
            \in Finalize
      BY <3>2 DEF Finalize
    <3> QED BY <3>1, <2>8, <3>3 DEF RetryFinalize, TypeOK
  <2>9. ASSUME NEW a \in Auctions, CancelExpiredPendingOrder(a) PROVE TypeOK'
    BY <2>9, ReopenType DEF CancelExpiredPendingOrder, TypeOK
  <2>10. ASSUME NEW f \in finalizing, FinalizeStep(f) PROVE TypeOK'
    BY <2>10, FinalizeStepType
  <2>11. ASSUME NEW r \in Requests, RequestStep(r) PROVE TypeOK'
    BY <2>11, RequestStepType
  <2>12. ASSUME Crash PROVE TypeOK'
    BY <2>12 DEF Crash, TypeOK
  <2>13. ASSUME UNCHANGED vars PROVE TypeOK'
    BY <2>13 DEF vars, TypeOK
  <2> QED
    BY <2>1, <2>2, <2>3, <2>4, <2>5, <2>6, <2>7, <2>8, <2>9, <2>10, <2>11,
       <2>12, <2>13
       DEF Next, AuctionStep, CloseExpired, CloseForAdmin
<1> QED BY <1>1, <1>2, PTL DEF Spec

-----------------------------------------------------------------------------
(* Live bids are backed *)

(* Who may be paid back has left the race: the bids released, those a running  *)
(* finalize names and those a persisted payload names are all disqualified.    *)
(* LiveBidsAreBacked is not inductive without it: a retry would release a bid  *)
(* that a stale payload names and that still competes.                         *)
RefundableAreOut ==
  /\ \A b \in released : bid[b].status = "OUT"
  /\ \A f \in finalizing : \A b \in f.losers : bid[b].status = "OUT"
  /\ \A a \in Auctions : \A b \in UNION auction[a].payload : bid[b].status = "OUT"

PeopleHold ==
  \A b \in Bids : bid[b].status = "LIVE" /\ bid[b].user \notin Bots => b \in held

BackedInv == TypeOK /\ RefundableAreOut /\ PeopleHold

(* Disqualifying bids that take part keeps everybody out who was out, keeps    *)
(* owners, and adds no bid to the race.                                        *)
LEMMA DisqualifyOnly ==
  ASSUME TypeOK, NEW S \in SUBSET Bids, NEW b \in Bids
  PROVE  /\ Disqualify(S)[b].status = IF b \in S THEN "OUT" ELSE bid[b].status
         /\ Disqualify(S)[b].user = bid[b].user
         /\ Disqualify(S)[b].auction = bid[b].auction
         /\ Disqualify(S)[b].price = bid[b].price
BY DEF Disqualify, TypeOK, BidRow

(* A step that disqualifies bids of the table, and releases, puts in a         *)
(* finalize and leaves in a payload only bids that are out, keeps the two      *)
(* invariants.                                                                 *)
LEMMA DisqualifyKeeps ==
  ASSUME BackedInv, NEW S \in SUBSET Bids,
         bid' = Disqualify(S), held' = held,
         \A b \in released' : b \in released \cup S,
         \A f \in finalizing' : f \in finalizing \/ f.losers \subseteq S,
         \A a \in Auctions : auction'[a].payload \in {{}, auction[a].payload},
         released' \subseteq Bids, finalizing' \subseteq Finalize
  PROVE  RefundableAreOut' /\ PeopleHold'
<1> USE DEF BackedInv
<1>1. \A b \in Bids : bid[b].status = "OUT" \/ b \in S => bid'[b].status = "OUT"
  BY DisqualifyOnly
<1>2. \A b \in released' : bid'[b].status = "OUT"
  BY <1>1 DEF RefundableAreOut
<1>3. \A f \in finalizing' : \A b \in f.losers : bid'[b].status = "OUT"
  BY <1>1 DEF RefundableAreOut, Finalize
<1>4. \A a \in Auctions : \A b \in UNION auction'[a].payload : bid'[b].status = "OUT"
  <2>1. \A a \in Auctions : \A b \in UNION auction[a].payload : b \in Bids
    BY DEF TypeOK, AuctionRow
  <2> QED BY <1>1, <2>1 DEF RefundableAreOut
<1>5. PeopleHold'
  BY DisqualifyOnly DEF PeopleHold
<1> QED BY <1>2, <1>3, <1>4, <1>5 DEF RefundableAreOut

(* So does a step that inserts a bid backed by a hold, or a bot's bid.         *)
LEMMA RecordBidKeeps ==
  ASSUME BackedInv, NEW a, NEW u, NEW p, NEW b \in Bids, RecordBid(a, u, p, b),
         held \subseteq held', b \in held' \/ u \in Bots,
         UNCHANGED <<released, finalizing>>,
         \A x \in Auctions : auction'[x].payload = auction[x].payload
  PROVE  RefundableAreOut' /\ PeopleHold'
<1> USE DEF BackedInv
<1>1. \A c \in Bids : bid[c].status = "OUT" => bid'[c].status = "OUT"
  BY DEF RecordBid, TypeOK
<1>2. \A c \in released : c \in Bids
  BY DEF TypeOK
<1>3. \A f \in finalizing : \A c \in f.losers : c \in Bids
  BY DEF TypeOK, Finalize
<1>4. \A x \in Auctions : \A c \in UNION auction[x].payload : c \in Bids
  BY DEF TypeOK, AuctionRow
<1>5. RefundableAreOut'
  BY <1>1, <1>2, <1>3, <1>4 DEF RefundableAreOut
<1>6. PeopleHold'
  BY DEF RecordBid, TypeOK, PeopleHold
<1> QED BY <1>5, <1>6

(* So does a step that leaves the bids alone and moves bids that are out       *)
(* between finalizes, payloads and the ledger.                                 *)
LEMMA MoveKeeps ==
  ASSUME BackedInv, UNCHANGED <<bid, held>>,
         \A b \in released' : bid[b].status = "OUT",
         \A f \in finalizing' : \A b \in f.losers : bid[b].status = "OUT",
         \A a \in Auctions : \A b \in UNION auction'[a].payload : bid[b].status = "OUT"
  PROVE  RefundableAreOut' /\ PeopleHold'
BY DEF BackedInv, RefundableAreOut, PeopleHold

(* A reopening takes at most the winner's bid out, and pays back that one.     *)
LEMMA ReopenKeeps ==
  ASSUME BackedInv, NEW a \in Auctions, Reopen(a)
  PROVE  RefundableAreOut' /\ PeopleHold'
<1>1. PICK out \in SUBSET LiveBids(a) :
        bid' = Disqualify(out) /\ released' = released \cup out
  <2>1. PICK top \in FirstOf(LiveBids(a)) :
          LET out == IF /\ top # None
                        /\ bid[top].user = order[a].buyer
                        /\ bid[top].price = order[a].price
                     THEN {top} ELSE {}
          IN  bid' = Disqualify(out) /\ released' = released \cup out
    BY DEF Reopen
  <2>2. top # None => top \in LiveBids(a)
    BY FirstIsMember
  <2> QED BY <2>1, <2>2
<1>2. out \in SUBSET Bids
  BY DEF LiveBids, BidsOn
<1>3. \A x \in Auctions : auction'[x].payload \in {{}, auction[x].payload}
  <2>1. PICK p :
          auction' = [auction EXCEPT ![a] =
            [auction[a] EXCEPT !.status = "OPEN", !.winner = None, !.over = FALSE,
               !.payload = {}, !.price = p]]
    BY DEF Reopen
  <2> QED BY <2>1 DEF BackedInv, TypeOK, AuctionRow
<1>4. released' \subseteq Bids /\ finalizing' = finalizing /\ held' = held
  BY <1>1, <1>2 DEF Reopen, BackedInv, TypeOK
<1> QED BY <1>1, <1>2, <1>3, <1>4, DisqualifyKeeps DEF BackedInv, TypeOK

(* A close disqualifies exactly the bids it hands to its finalize.             *)
LEMMA CloseKeeps ==
  ASSUME BackedInv, NEW a \in Auctions, Close(a)
  PROVE  RefundableAreOut' /\ PeopleHold'
<1>1. PICK losers \in SUBSET LiveBids(a) :
        /\ \E w, p : auction' = [auction EXCEPT ![a] =
             [auction[a] EXCEPT !.status = "CLOSED", !.winner = w, !.price = p,
                !.payload = {}]]
        /\ bid' = Disqualify(losers)
        /\ finalizing' = finalizing \cup
             {[auction |-> a, losers |-> losers, step |-> "RELEASE", retry |-> FALSE]}
  <2>1. PICK top \in FirstOf(LiveBids(a)) :
          LET winner == IF top = None THEN None ELSE bid[top].user
              losers == {b \in LiveBids(a) : bid[b].user # winner}
          IN  /\ auction' = [auction EXCEPT ![a] =
                   [auction[a] EXCEPT !.status = "CLOSED", !.winner = winner,
                      !.price = PriceOf(top, auction[a].price), !.payload = {}]]
              /\ bid' = Disqualify(losers)
              /\ finalizing' = finalizing \cup
                   {[auction |-> a, losers |-> losers, step |-> "RELEASE",
                     retry |-> FALSE]}
    BY DEF Close
  <2> DEFINE winner == IF top = None THEN None ELSE bid[top].user
             losers == {b \in LiveBids(a) : bid[b].user # winner}
             price == PriceOf(top, auction[a].price)
  <2>2. losers \in SUBSET LiveBids(a)
    OBVIOUS
  <2>3. /\ auction' = [auction EXCEPT ![a] =
             [auction[a] EXCEPT !.status = "CLOSED", !.winner = winner,
                !.price = price, !.payload = {}]]
        /\ bid' = Disqualify(losers)
        /\ finalizing' = finalizing \cup
             {[auction |-> a, losers |-> losers, step |-> "RELEASE", retry |-> FALSE]}
    BY <2>1
  <2> HIDE DEF winner, losers, price
  <2> QED BY <2>2, <2>3
<1>2. losers \in SUBSET Bids
  BY DEF LiveBids, BidsOn
<1>3. \A x \in Auctions : auction'[x].payload \in {{}, auction[x].payload}
  BY <1>1 DEF BackedInv, TypeOK, AuctionRow
<1>4. /\ released' = released /\ released' \subseteq Bids /\ held' = held
      /\ \A f \in finalizing' : f \in finalizing \/ f.losers \subseteq losers
      /\ finalizing' \subseteq Finalize
  <2>1. finalizing' \subseteq Finalize
    BY CloseType DEF BackedInv, TypeOK
  <2>2. released' = released /\ released' \subseteq Bids /\ held' = held
    BY DEF Close, wallet, BackedInv, TypeOK
  <2> QED BY <1>1, <2>1, <2>2
<1> QED BY <1>1, <1>2, <1>3, <1>4, DisqualifyKeeps

(* A finalize pays back, persists and clears only what it was handed.          *)
LEMMA FinalizeStepKeeps ==
  ASSUME BackedInv, NEW f \in finalizing, FinalizeStep(f)
  PROVE  RefundableAreOut' /\ PeopleHold'
<1> USE DEF wallet
<1>1. f \in Finalize /\ \A b \in f.losers : bid[b].status = "OUT"
  BY DEF BackedInv, TypeOK, RefundableAreOut
<1>2. /\ \A b \in released : bid[b].status = "OUT"
      /\ \A g \in finalizing : \A b \in g.losers : bid[b].status = "OUT"
      /\ \A a \in Auctions : \A b \in UNION auction[a].payload : bid[b].status = "OUT"
  BY DEF BackedInv, RefundableAreOut
<1>3. ASSUME NEW step
      PROVE  [f EXCEPT !.step = step].losers = f.losers
  BY <1>1 DEF Finalize
<1>4. ASSUME NEW payload, SetPayload(f.auction, payload), payload \in {{}, {f.losers}}
      PROVE  \A a \in Auctions : \A b \in UNION auction'[a].payload :
               bid[b].status = "OUT"
  <2>0. auction \in [Auctions -> AuctionRow]
    BY DEF BackedInv, TypeOK
  <2>1. \A a \in Auctions : auction'[a].payload \in {auction[a].payload, payload}
    BY <1>4, <2>0 DEF SetPayload, AuctionRow
  <2>2. \A b \in UNION payload : bid[b].status = "OUT"
    BY <1>1, <1>4
  <2>3. ASSUME NEW a \in Auctions, NEW b \in UNION auction'[a].payload
        PROVE  bid[b].status = "OUT"
    <3>1. b \in UNION auction[a].payload \/ b \in UNION payload
      BY <2>1
    <3> QED BY <1>2, <2>2, <3>1
  <2> QED BY <2>3
<1>5. CASE FinalizeRelease(f)
  <2>1. \A g \in finalizing' : g \in finalizing \/ g.losers = f.losers
    BY <1>3, <1>5 DEF FinalizeRelease
  <2>2. released' = released \cup f.losers /\ UNCHANGED <<auction, bid, held>>
    BY <1>5 DEF FinalizeRelease
  <2> QED BY <1>1, <1>2, <2>1, <2>2, MoveKeeps
<1>6. CASE FinalizeFails(f)
  <2>1. \A g \in finalizing' : g \in finalizing \/ g.losers = f.losers
    BY <1>3, <1>6 DEF FinalizeFails
  <2>2. UNCHANGED <<auction, bid, held, released>>
    BY <1>6 DEF FinalizeFails
  <2> QED BY <1>1, <1>2, <2>1, <2>2, MoveKeeps
<1>7. CASE FinalizePersist(f)
  BY <1>1, <1>2, <1>4, <1>7, MoveKeeps DEF FinalizePersist
<1>8. CASE FinalizeClear(f)
  BY <1>1, <1>2, <1>4, <1>8, MoveKeeps DEF FinalizeClear
<1>9. CASE PayloadWriteFails(f)
  BY <1>1, <1>2, <1>9, MoveKeeps DEF PayloadWriteFails
<1> QED BY <1>5, <1>6, <1>7, <1>8, <1>9 DEF FinalizeStep

(* Of a request's steps, only a payment past the hold and a reopening touch    *)
(* bids, and they pay back the bids they disqualify.                           *)
LEMMA RequestStepKeeps ==
  ASSUME BackedInv, NEW r \in Requests, RequestStep(r)
  PROVE  RefundableAreOut' /\ PeopleHold'
<1> USE DEF wallet
<1>2. /\ \A b \in released : bid[b].status = "OUT"
      /\ \A g \in finalizing : \A b \in g.losers : bid[b].status = "OUT"
      /\ \A a \in Auctions : \A b \in UNION auction[a].payload : bid[b].status = "OUT"
  BY DEF BackedInv, RefundableAreOut
<1>3. ASSUME UNCHANGED <<auction, bid, wallet, finalizing>>
      PROVE  RefundableAreOut' /\ PeopleHold'
  BY <1>2, <1>3, MoveKeeps
<1>4. CASE BuyNowCommit(r)
  <2>1. \A a \in Auctions : auction'[a].payload \in {{}, auction[a].payload}
    BY <1>4 DEF BuyNowCommit, BoughtRow, BackedInv, TypeOK, AuctionRow
  <2>2. \A a \in Auctions : \A b \in UNION auction'[a].payload : bid[b].status = "OUT"
    BY <1>2, <2>1
  <2> QED BY <1>2, <1>4, <2>2, MoveKeeps DEF BuyNowCommit
<1>5. CASE PayCommit(r)
  <2>1. PICK out \in SUBSET Bids :
          bid' = Disqualify(out) /\ released' = released \cup out
    BY <1>5 DEF PayCommit, LiveBids, BidsOn
  <2>2. UNCHANGED <<auction, held, finalizing>> /\ released' \subseteq Bids
    BY <1>5, <2>1 DEF PayCommit, BackedInv, TypeOK
  <2> QED BY <2>1, <2>2, DisqualifyKeeps DEF BackedInv, TypeOK
<1>6. CASE PayReopen(r)
  <2>1. request[r].auction \in Auctions
    BY <1>6 DEF PayReopen, BackedInv, TypeOK, Request, Idle
  <2> QED BY <1>6, <2>1, ReopenKeeps DEF PayReopen
<1> QED
  BY <1>3, <1>4, <1>5, <1>6
     DEF RequestStep, BuyNowRead, PayRead, BuyNowRejected, PayConflict, PayFails,
         PayGivesUp

(* The strengthened invariant holds in every reachable state.                  *)
THEOREM BackedInvariant == Spec => []BackedInv
<1>1. Init => BackedInv
  <2> SUFFICES ASSUME Init PROVE BackedInv
    OBVIOUS
  <2>1. TypeOK
    BY EmptyRows DEF Init, TypeOK
  <2>2. RefundableAreOut
    BY DEF Init, NoAuction, RefundableAreOut
  <2>3. PeopleHold
    BY DEF Init, NoBid, PeopleHold
  <2> QED BY <2>1, <2>2, <2>3 DEF BackedInv
<1>2. BackedInv /\ TypeOK' /\ [Next]_vars => BackedInv'
  <2> SUFFICES ASSUME BackedInv, TypeOK', [Next]_vars
               PROVE  RefundableAreOut' /\ PeopleHold'
    BY DEF BackedInv
  <2> USE DEF wallet, memory
  <2>0. /\ \A b \in released : bid[b].status = "OUT"
        /\ \A f \in finalizing : \A b \in f.losers : bid[b].status = "OUT"
        /\ \A x \in Auctions : \A b \in UNION auction[x].payload : bid[b].status = "OUT"
        /\ auction \in [Auctions -> AuctionRow]
    BY DEF BackedInv, RefundableAreOut, TypeOK
  <2>1. ASSUME NEW a \in Auctions, NEW s \in Users, NEW p \in Prices,
               NEW n \in Prices \cup {None}, NEW i \in Increments,
               CreateAuction(a, s, p, n, i)
        PROVE  RefundableAreOut' /\ PeopleHold'
    <3>1. \A x \in Auctions : auction'[x].payload \in {{}, auction[x].payload}
      BY <2>0, <2>1 DEF CreateAuction, NoAuction
    <3> QED BY <2>0, <2>1, <3>1, MoveKeeps DEF CreateAuction
  <2>2. ASSUME NEW a \in Auctions, NEW u \in Users, NEW p \in Prices,
               NEW near \in BOOLEAN,
               PlaceBid(a, u, p, near) \/ PlaceBidAsBot(a, u, p, near)
        PROVE  RefundableAreOut' /\ PeopleHold'
    <3>1. PICK b \in Bids :
            /\ RecordBid(a, u, p, b)
            /\ \/ HoldAndRaise(a, u, p, near, b)
               \/ u \in Bots /\ UNCHANGED <<auction, wallet>>
      BY <2>2 DEF PlaceBid, PlaceBidAsBot
    <3>2. AfterBid(a, p, near).payload = auction[a].payload
      BY <2>0 DEF AfterBid, AuctionRow
    <3>3. \A x \in Auctions : auction'[x].payload = auction[x].payload
      BY <2>0, <3>1, <3>2 DEF HoldAndRaise
    <3>4. /\ held \subseteq held' /\ (b \in held' \/ u \in Bots)
          /\ UNCHANGED <<released, finalizing>>
      BY <2>2, <3>1 DEF HoldAndRaise, PlaceBid, PlaceBidAsBot
    <3> QED BY <3>1, <3>3, <3>4, RecordBidKeeps
  <2>3. ASSUME NEW a \in Auctions, NEW p \in Prices \cup {None},
               NEW n \in Prices \cup {None}, NEW i \in Increments \cup {None},
               NEW moveEnd \in BOOLEAN, PatchAuction(a, p, n, i, moveEnd)
        PROVE  RefundableAreOut' /\ PeopleHold'
    <3>1. \A x \in Auctions : auction'[x].payload = auction[x].payload
      BY <2>0, <2>3, PatchOnly
    <3>2. UNCHANGED <<bid, held, released, finalizing>>
      BY <2>3 DEF PatchAuction
    <3> QED BY <2>0, <3>1, <3>2, MoveKeeps
  <2>4. ASSUME NEW a \in Auctions, DeleteAuction(a)
        PROVE  RefundableAreOut' /\ PeopleHold'
    <3>1. \A x \in Auctions : auction'[x].payload \in {{}, auction[x].payload}
      BY <2>0, <2>4 DEF DeleteAuction, NoAuction
    <3> QED BY <2>0, <2>4, <3>1, MoveKeeps DEF DeleteAuction
  <2>5. ASSUME NEW a \in Auctions, EndTimePasses(a)
        PROVE  RefundableAreOut' /\ PeopleHold'
    <3>1. \A x \in Auctions : auction'[x].payload = auction[x].payload
      BY <2>0, <2>5 DEF EndTimePasses, AuctionRow
    <3> QED BY <2>0, <2>5, <3>1, MoveKeeps DEF EndTimePasses
  <2>6. ASSUME NEW a \in Auctions, Close(a)
        PROVE  RefundableAreOut' /\ PeopleHold'
    BY <2>6, CloseKeeps
  <2>7. ASSUME NEW a \in Auctions, RetryFinalize(a)
        PROVE  RefundableAreOut' /\ PeopleHold'
    BY <2>0, <2>7, MoveKeeps DEF RetryFinalize
  <2>8. ASSUME NEW a \in Auctions, CancelExpiredPendingOrder(a)
        PROVE  RefundableAreOut' /\ PeopleHold'
    BY <2>8, ReopenKeeps DEF CancelExpiredPendingOrder
  <2>9. ASSUME NEW f \in finalizing, FinalizeStep(f)
        PROVE  RefundableAreOut' /\ PeopleHold'
    BY <2>9, FinalizeStepKeeps
  <2>10. ASSUME NEW r \in Requests, RequestStep(r)
         PROVE  RefundableAreOut' /\ PeopleHold'
    BY <2>10, RequestStepKeeps
  <2>11. CASE Crash
    BY <2>0, <2>11, MoveKeeps DEF Crash
  <2>12. CASE UNCHANGED vars
    BY <2>0, <2>12, MoveKeeps DEF vars
  <2> QED
    BY <2>1, <2>2, <2>3, <2>4, <2>5, <2>6, <2>7, <2>8, <2>9, <2>10, <2>11, <2>12
       DEF Next, AuctionStep, CloseExpired, CloseForAdmin
<1> QED BY <1>1, <1>2, TypeCorrect, PTL DEF Spec

(* No close, retry, reopening, direct payment, failure or crash ever pays back *)
(* the bid of a person who may still win with it, nor lets one in without its  *)
(* hold: whatever the instance, the bid that wins can be paid for.             *)
THEOREM LiveBidsBacked == Spec => []LiveBidsAreBacked
<1>1. BackedInv => LiveBidsAreBacked
  BY DEF BackedInv, RefundableAreOut, PeopleHold, LiveBidsAreBacked
<1> QED BY <1>1, BackedInvariant, PTL

-----------------------------------------------------------------------------
(* The sale of an auction *)

(* What a step may do to an auction and its order, as far as a sale goes.      *)
Keeps(x) ==
  /\ order'[x] = order[x]
  /\ auction'[x].status = auction[x].status
  /\ auction'[x].winner = auction[x].winner
  /\ auction[x].status = "OPEN" \/ auction'[x].price = auction[x].price
Lists(x) ==
  /\ auction[x].status = "ABSENT" /\ auction'[x].status = "OPEN"
  /\ order'[x] = order[x]
Awards(x) ==
  /\ auction[x].status = "OPEN" /\ auction'[x].status = "CLOSED"
  /\ auction'[x].winner \in Users
  /\ order[x].status = "ABSENT" /\ order'[x].status = "PENDING"
  /\ order'[x].buyer = auction'[x].winner
  /\ order'[x].price = auction'[x].price /\ order'[x].price \in Nat
Lapses(x) ==
  /\ auction[x].status = "OPEN" /\ auction'[x].status = "CLOSED"
  /\ auction'[x].winner = None
  /\ order'[x] = order[x]
Withdraws(x) ==
  /\ auction[x].status = "CLOSED" /\ auction'[x].status = "OPEN"
  /\ order[x].status = "PENDING" /\ order'[x].status = "CANCELLED"
Settles(x) ==
  /\ auction'[x] = auction[x]
  /\ order[x].status = "PENDING" /\ order'[x].status = "PAID"
  /\ order'[x].buyer = order[x].buyer /\ order'[x].price = order[x].price
Removes(x) ==
  /\ auction[x].status \in {"OPEN", "CLOSED"} /\ auction'[x].status = "DELETED"
  /\ order[x].status \notin {"PENDING", "PAID"} /\ order'[x].status = "ABSENT"
  /\ BidsOn(x) = {} /\ bid' = bid

Moves(x) ==
  \/ Keeps(x) \/ Lists(x) \/ Awards(x) \/ Lapses(x)
  \/ Withdraws(x) \/ Settles(x) \/ Removes(x)

OneMoves == \E a \in Auctions : Moves(a) /\ \A x \in Auctions \ {a} : Keeps(x)
SaleStep == (\A x \in Auctions : Keeps(x)) \/ OneMoves

(* A close awards the auction or lets it lapse.                                *)
LEMMA CloseMoves ==
  ASSUME TypeOK, TypeOK', NEW a \in Auctions, Close(a)
  PROVE  OneMoves
<1>1. PICK top \in FirstOf(LiveBids(a)) :
        LET winner == IF top = None THEN None ELSE bid[top].user
            final == PriceOf(top, auction[a].price)
        IN  /\ auction' = [auction EXCEPT ![a] =
                 [auction[a] EXCEPT !.status = "CLOSED", !.winner = winner,
                    !.price = final, !.payload = {}]]
            /\ IF winner = None THEN UNCHANGED order
               ELSE /\ order[a].status = "ABSENT"
                    /\ order' = [order EXCEPT ![a] =
                         [NoOrder EXCEPT !.status = "PENDING", !.buyer = winner,
                            !.price = final]]
  BY DEF Close
<1> DEFINE winner == IF top = None THEN None ELSE bid[top].user
           final == PriceOf(top, auction[a].price)
<1>2. /\ auction' = [auction EXCEPT ![a] =
           [auction[a] EXCEPT !.status = "CLOSED", !.winner = winner,
              !.price = final, !.payload = {}]]
      /\ IF winner = None THEN UNCHANGED order
         ELSE /\ order[a].status = "ABSENT"
              /\ order' = [order EXCEPT ![a] =
                   [NoOrder EXCEPT !.status = "PENDING", !.buyer = winner,
                      !.price = final]]
  BY <1>1
<1> HIDE DEF winner, final
<1>3. /\ auction'[a].status = "CLOSED" /\ auction'[a].winner = winner
      /\ auction'[a].price = final
      /\ \A x \in Auctions \ {a} : auction'[x] = auction[x]
  BY <1>2 DEF TypeOK, AuctionRow
<1>4. auction'[a].winner \in Users \cup {None} /\ auction'[a].price \in Nat
  BY DEF TypeOK, AuctionRow
<1>5. auction[a].status = "OPEN"
  BY DEF Close
<1>6. CASE winner = None
  BY <1>2, <1>3, <1>5, <1>6 DEF OneMoves, Moves, Lapses, Keeps
<1>7. CASE winner # None
  <2>1. /\ order[a].status = "ABSENT"
        /\ order'[a].status = "PENDING" /\ order'[a].buyer = winner
        /\ order'[a].price = final
        /\ \A x \in Auctions \ {a} : order'[x] = order[x]
    <3> DEFINE row == [NoOrder EXCEPT !.status = "PENDING", !.buyer = winner,
                         !.price = final]
    <3>1. row.status = "PENDING" /\ row.buyer = winner /\ row.price = final
      BY EmptyRows DEF OrderRow
    <3>2. order[a].status = "ABSENT" /\ order' = [order EXCEPT ![a] = row]
      BY <1>2, <1>7
    <3> HIDE DEF row
    <3> QED BY <3>1, <3>2 DEF TypeOK
  <2> QED BY <1>3, <1>4, <1>5, <1>7, <2>1 DEF OneMoves, Moves, Awards, Keeps
<1> QED BY <1>6, <1>7

(* A reopening withdraws the award.                                            *)
LEMMA ReopenMoves ==
  ASSUME TypeOK, NEW a \in Auctions, Reopen(a)
  PROVE  OneMoves
<1>1. PICK p :
        auction' = [auction EXCEPT ![a] =
          [auction[a] EXCEPT !.status = "OPEN", !.winner = None, !.over = FALSE,
             !.payload = {}, !.price = p]]
  BY DEF Reopen
<1>2. auction'[a].status = "OPEN" /\ \A x \in Auctions \ {a} : auction'[x] = auction[x]
  BY <1>1 DEF TypeOK, AuctionRow
<1>3. order'[a].status = "CANCELLED" /\ \A x \in Auctions \ {a} : order'[x] = order[x]
  BY DEF Reopen, TypeOK, OrderRow
<1> QED BY <1>2, <1>3 DEF OneMoves, Moves, Withdraws, Keeps, Reopen, MayReopen

(* A finalize touches nothing of a sale but its payload.                       *)
LEMMA FinalizeStepMoves ==
  ASSUME TypeOK, NEW f \in finalizing, FinalizeStep(f)
  PROVE  \A x \in Auctions : Keeps(x)
<1>1. ASSUME NEW payload, SetPayload(f.auction, payload)
      PROVE  \A x \in Auctions :
               /\ auction'[x].status = auction[x].status
               /\ auction'[x].winner = auction[x].winner
               /\ auction'[x].price = auction[x].price
  BY <1>1 DEF SetPayload, TypeOK, AuctionRow
<1> QED
  BY <1>1 DEF FinalizeStep, FinalizeRelease, FinalizeFails, FinalizePersist,
       FinalizeClear, PayloadWriteFails, Keeps

(* Of a request's steps, buyNow's transaction awards, payOrder's settles, its  *)
(* reopening withdraws, and the rest leave every sale alone.                   *)
LEMMA RequestStepMoves ==
  ASSUME TypeOK, TypeOK', NEW r \in Requests, RequestStep(r)
  PROVE  SaleStep
<1> DEFINE q == request[r]
           a == q.auction
<1>1. q.step # "IDLE" => a \in Auctions /\ q.user \in Users /\ q.price \in Nat
  BY DEF TypeOK, Request, Idle
<1>2. ASSUME UNCHANGED <<auction, order>> PROVE SaleStep
  BY <1>2 DEF SaleStep, Keeps
<1>3. CASE BuyNowCommit(r)
  <2>1. a \in Auctions /\ q.user \in Users /\ q.price \in Nat
    BY <1>1, <1>3 DEF BuyNowCommit
  <2>2. /\ auction'[a].status = "CLOSED" /\ auction'[a].winner = q.user
        /\ auction'[a].price = q.price
        /\ \A x \in Auctions \ {a} : auction'[x] = auction[x]
    BY <1>3, <2>1 DEF BuyNowCommit, BoughtRow, TypeOK, AuctionRow
  <2>3. /\ order'[a].status = "PENDING" /\ order'[a].buyer = q.user
        /\ order'[a].price = q.price
        /\ \A x \in Auctions \ {a} : order'[x] = order[x]
    BY <1>3, <2>1, EmptyRows DEF BuyNowCommit, TypeOK, OrderRow
  <2>4. auction[a].status = "OPEN" /\ order[a].status = "ABSENT"
    BY <1>3 DEF BuyNowCommit, BuyNowPossible
  <2> QED BY <2>1, <2>2, <2>3, <2>4 DEF SaleStep, OneMoves, Moves, Awards, Keeps
<1>4. CASE PayCommit(r)
  <2>1. a \in Auctions
    BY <1>1, <1>4 DEF PayCommit
  <2>2. order' = [order EXCEPT ![a].status = "PAID", ![a].byHold = q.byHold]
    BY <1>4 DEF PayCommit
  <2>3. /\ order'[a].status = "PAID" /\ order'[a].buyer = order[a].buyer
        /\ order'[a].price = order[a].price
        /\ \A x \in Auctions \ {a} : order'[x] = order[x]
    BY <2>1, <2>2 DEF TypeOK, OrderRow
  <2>4. order[a].status = "PENDING" /\ auction' = auction
    BY <1>4 DEF PayCommit
  <2> QED BY <2>1, <2>3, <2>4 DEF SaleStep, OneMoves, Moves, Settles, Keeps
<1>5. CASE PayReopen(r)
  <2>1. a \in Auctions
    BY <1>1, <1>5 DEF PayReopen
  <2> QED BY <1>5, <2>1, ReopenMoves DEF PayReopen, SaleStep
<1> QED
  BY <1>2, <1>3, <1>4, <1>5
     DEF RequestStep, BuyNowRead, PayRead, BuyNowRejected, PayConflict, PayFails,
         PayGivesUp

(* Every step of the backend moves the sale of at most one auction.            *)
LEMMA NextMoves ==
  ASSUME TypeOK, TypeOK', [Next]_vars
  PROVE  SaleStep
<1> USE DEF wallet, memory
<1>0. auction \in [Auctions -> AuctionRow] /\ order \in [Auctions -> OrderRow]
  BY DEF TypeOK
<1>1. ASSUME NEW a \in Auctions, NEW s \in Users, NEW p \in Prices,
             NEW n \in Prices \cup {None}, NEW i \in Increments,
             CreateAuction(a, s, p, n, i)
      PROVE  SaleStep
  <2>1. auction'[a].status = "OPEN" /\ \A x \in Auctions \ {a} : auction'[x] = auction[x]
    BY <1>0, <1>1, EmptyRows DEF CreateAuction, AuctionRow
  <2> QED BY <1>1, <2>1
          DEF CreateAuction, SaleStep, OneMoves, Moves, Lists, Keeps
<1>2. ASSUME NEW a \in Auctions, NEW u \in Users, NEW p \in Prices,
             NEW near \in BOOLEAN,
             PlaceBid(a, u, p, near) \/ PlaceBidAsBot(a, u, p, near)
      PROVE  SaleStep
  <2>1. auction' = auction \/ auction' = [auction EXCEPT ![a] = AfterBid(a, p, near)]
    BY <1>2 DEF PlaceBid, PlaceBidAsBot, HoldAndRaise
  <2>2. /\ AfterBid(a, p, near).status = auction[a].status
        /\ AfterBid(a, p, near).winner = auction[a].winner
    BY <1>0 DEF AfterBid, AuctionRow
  <2>3. auction[a].status = "OPEN" /\ order' = order
    BY <1>2 DEF PlaceBid, PlaceBidAsBot, MayBid
  <2> QED BY <1>0, <2>1, <2>2, <2>3 DEF SaleStep, Keeps
<1>3. ASSUME NEW a \in Auctions, NEW p \in Prices \cup {None},
             NEW n \in Prices \cup {None}, NEW i \in Increments \cup {None},
             NEW moveEnd \in BOOLEAN, PatchAuction(a, p, n, i, moveEnd)
      PROVE  SaleStep
  <2>1. /\ auction[a].status = "OPEN" /\ order' = order
        /\ auction'[a].status = auction[a].status
        /\ auction'[a].winner = auction[a].winner
        /\ \A x \in Auctions \ {a} : auction'[x] = auction[x]
    BY <1>0, <1>3, PatchOnly
  <2> QED BY <2>1 DEF SaleStep, Keeps
<1>4. ASSUME NEW a \in Auctions, DeleteAuction(a) PROVE SaleStep
  <2>1. NoOrder.status = "ABSENT"
    BY DEF NoOrder
  <2>2. /\ auction'[a].status = "DELETED"
        /\ \A x \in Auctions \ {a} : auction'[x] = auction[x]
    BY <1>0, <1>4, EmptyRows DEF DeleteAuction, AuctionRow
  <2>3. order'[a].status = "ABSENT" /\ \A x \in Auctions \ {a} : order'[x] = order[x]
    BY <1>0, <1>4, <2>1 DEF DeleteAuction
  <2> QED BY <1>4, <2>2, <2>3
          DEF DeleteAuction, SaleStep, OneMoves, Moves, Removes, Keeps
<1>5. ASSUME NEW a \in Auctions, EndTimePasses(a) PROVE SaleStep
  BY <1>0, <1>5 DEF EndTimePasses, SaleStep, Keeps, AuctionRow
<1>6. ASSUME NEW a \in Auctions, Close(a) PROVE SaleStep
  BY <1>6, CloseMoves DEF SaleStep
<1>7. ASSUME NEW a \in Auctions, CancelExpiredPendingOrder(a) PROVE SaleStep
  BY <1>7, ReopenMoves DEF CancelExpiredPendingOrder, SaleStep
<1>8. ASSUME NEW f \in finalizing, FinalizeStep(f) PROVE SaleStep
  BY <1>8, FinalizeStepMoves DEF SaleStep
<1>9. ASSUME NEW r \in Requests, RequestStep(r) PROVE SaleStep
  BY <1>9, RequestStepMoves
<1>10. ASSUME UNCHANGED <<auction, order>> PROVE SaleStep
  BY <1>10 DEF SaleStep, Keeps
<1> QED
  BY <1>1, <1>2, <1>3, <1>4, <1>5, <1>6, <1>7, <1>8, <1>9, <1>10
     DEF Next, AuctionStep, CloseExpired, CloseForAdmin, RetryFinalize, Crash, vars

(* What the invariant says of one auction survives every move of its sale.     *)
LEMMA MoveKeepsMatch ==
  ASSUME TypeOK, TypeOK', OrderMatchesAuction, NEW x \in Auctions, Moves(x)
  PROVE  /\ order'[x].status \in {"PENDING", "PAID"}
              <=> auction'[x].status = "CLOSED" /\ auction'[x].winner # None
         /\ order'[x].status \in {"PENDING", "PAID"}
              => /\ order'[x].buyer = auction'[x].winner
                 /\ order'[x].price = auction'[x].price
<1>1. /\ order[x].status \in {"PENDING", "PAID"}
           <=> auction[x].status = "CLOSED" /\ auction[x].winner # None
      /\ order[x].status \in {"PENDING", "PAID"}
           => order[x].buyer = auction[x].winner /\ order[x].price = auction[x].price
  BY DEF OrderMatchesAuction
<1>2. None \notin Users
  BY NoneIsNoRow
<1> QED BY <1>1, <1>2 DEF Moves, Keeps, Lists, Awards, Lapses, Withdraws, Settles, Removes

MatchInv == TypeOK /\ OrderMatchesAuction

(* Whatever closes, purchases, payments, cancellations, reopenings, deletions  *)
(* and failures interleave, an active order and a closed auction with a winner *)
(* are the same fact at the same price, in every instance.                     *)
THEOREM OrdersMatch == Spec => []OrderMatchesAuction
<1>1. Init => OrderMatchesAuction
  BY DEF Init, OrderMatchesAuction, NoOrder, NoAuction
<1>2. TypeOK /\ TypeOK' /\ OrderMatchesAuction /\ [Next]_vars => OrderMatchesAuction'
  <2> SUFFICES ASSUME TypeOK, TypeOK', OrderMatchesAuction, [Next]_vars,
                      NEW x \in Auctions
               PROVE  Moves(x)
    BY MoveKeepsMatch DEF OrderMatchesAuction
  <2> QED BY NextMoves DEF SaleStep, OneMoves, Moves
<1> QED BY <1>1, <1>2, TypeCorrect, PTL DEF Spec

(* A paid order is never unpaid, re-sold or deleted, and its auction keeps its *)
(* winner: no late cancellation, retry, second payment or reopening that still *)
(* believes in an older state can undo a sale, in any instance.                *)
THEOREM PaidStaysPaid == Spec => PaidIsFinal
<1>1. TypeOK /\ TypeOK' /\ OrderMatchesAuction /\ [Next]_vars =>
        PaidStays
  <2> SUFFICES ASSUME TypeOK, TypeOK', OrderMatchesAuction, [Next]_vars,
                      NEW a \in Auctions, order[a].status = "PAID"
               PROVE  /\ order'[a] = order[a]
                      /\ auction'[a].status = "CLOSED"
                      /\ auction'[a].winner = auction[a].winner
    BY DEF PaidStays
  <2>1. Moves(a)
    BY NextMoves DEF SaleStep, OneMoves, Moves
  <2>2. auction[a].status = "CLOSED" /\ auction[a].winner # None
    BY DEF OrderMatchesAuction
  <2>3. CASE Keeps(a)
    BY <2>2, <2>3 DEF Keeps
  <2>4. ~(Lists(a) \/ Awards(a) \/ Lapses(a) \/ Withdraws(a) \/ Settles(a) \/ Removes(a))
    BY <2>2 DEF Lists, Awards, Lapses, Withdraws, Settles, Removes
  <2> QED BY <2>1, <2>3, <2>4 DEF Moves
<1> QED BY <1>1, TypeCorrect, OrdersMatch, PTL DEF Spec, PaidIsFinal

-----------------------------------------------------------------------------
(* The backend implements the contract *)

(* A move of a sale is a step of the contract for that auction, or no change.  *)
LEMMA KeepsSale ==
  ASSUME TypeOK, OrderMatchesAuction, NEW x \in Auctions, Keeps(x)
  PROVE  SaleOf(x)' = SaleOf(x)
BY DEF Keeps, SaleOf

(* The phases of a sale, read from the rows.                                   *)
LEMMA SaleOfRows ==
  ASSUME OrderMatchesAuction, NEW x \in Auctions
  PROVE  /\ auction[x].status = "ABSENT" => SaleOf(x) = Contract!Without("unlisted")
         /\ auction[x].status = "OPEN" => SaleOf(x) = Contract!Without("open")
         /\ auction[x].status = "DELETED" => SaleOf(x) = Contract!Without("removed")
         /\ auction[x].status = "CLOSED" /\ auction[x].winner = None
              => SaleOf(x) = Contract!Without("unsold")
         /\ order[x].status = "PENDING" => SaleOf(x) =
              [phase |-> "awarded", buyer |-> order[x].buyer, price |-> order[x].price]
         /\ order[x].status = "PAID" => SaleOf(x) =
              [phase |-> "sold", buyer |-> order[x].buyer, price |-> order[x].price]
<1>1. /\ order[x].status \in {"PENDING", "PAID"}
           <=> auction[x].status = "CLOSED" /\ auction[x].winner # None
  BY DEF OrderMatchesAuction
<1> QED BY <1>1 DEF SaleOf, Contract!Without

(* The same after a step.                                                      *)
LEMMA SaleOfRowsNext ==
  ASSUME OrderMatchesAuction', NEW x \in Auctions
  PROVE  /\ auction'[x].status = "OPEN" => SaleOf(x)' = Contract!Without("open")
         /\ auction'[x].status = "DELETED" => SaleOf(x)' = Contract!Without("removed")
         /\ auction'[x].status = "CLOSED" /\ auction'[x].winner = None
              => SaleOf(x)' = Contract!Without("unsold")
         /\ order'[x].status = "PENDING" => SaleOf(x)' =
              [phase |-> "awarded", buyer |-> order'[x].buyer, price |-> order'[x].price]
         /\ order'[x].status = "PAID" => SaleOf(x)' =
              [phase |-> "sold", buyer |-> order'[x].buyer, price |-> order'[x].price]
<1>1. /\ order'[x].status \in {"PENDING", "PAID"}
           <=> auction'[x].status = "CLOSED" /\ auction'[x].winner # None
  BY DEF OrderMatchesAuction
<1> QED BY <1>1 DEF SaleOf, Contract!Without

(* A moving sale makes a step the contract allows.                             *)
LEMMA MoveIsContractStep ==
  ASSUME TypeOK, TypeOK', OrderMatchesAuction, OrderMatchesAuction',
         NEW a \in Auctions, Moves(a), \A x \in Auctions \ {a} : Keeps(x)
  PROVE  \/ [x \in Auctions |-> SaleOf(x)]' = [x \in Auctions |-> SaleOf(x)]
         \/ Contract!Next
<1> DEFINE sale == [x \in Auctions |-> SaleOf(x)]
<1>1. \A x \in Auctions \ {a} : SaleOf(x)' = SaleOf(x)
  BY KeepsSale
<1>2. sale' = [sale EXCEPT ![a] = SaleOf(a)']
  BY <1>1
<1>3. sale[a] = SaleOf(a) /\ sale'[a] = SaleOf(a)'
  OBVIOUS
<1>4. \A from : SaleOf(a).phase \in from => Contract!Move(a, from, SaleOf(a)')
  BY <1>2, <1>3 DEF Contract!Move
<1>5. \A phase : Contract!Without(phase).phase = phase
  BY DEF Contract!Without
<1>6. CASE Keeps(a)
  <2>1. SaleOf(a)' = SaleOf(a)
    BY <1>6, KeepsSale
  <2> QED BY <1>1, <2>1
<1>7. CASE Lists(a)
  <2>1. SaleOf(a).phase = "unlisted" /\ SaleOf(a)' = Contract!Without("open")
    BY <1>5, <1>7, SaleOfRows, SaleOfRowsNext DEF Lists
  <2>2. Contract!List(a)
    BY <1>4, <2>1 DEF Contract!List
  <2> QED BY <2>2 DEF Contract!Next
<1>8. CASE Awards(a)
  <2> DEFINE u == order'[a].buyer
             p == order'[a].price
  <2>1. SaleOf(a).phase = "open"
    BY <1>5, <1>8, SaleOfRows DEF Awards
  <2>2. SaleOf(a)' = [phase |-> "awarded", buyer |-> u, price |-> p]
    BY <1>8, SaleOfRowsNext DEF Awards
  <2>3. u \in Users /\ p \in Nat
    BY <1>8 DEF Awards
  <2> HIDE DEF u, p
  <2>4. sale'[a].price = p
    BY <1>3, <2>2
  <2>5. Contract!Award(a, u)
    BY <1>4, <2>1, <2>2, <2>3, <2>4 DEF Contract!Award
  <2> QED BY <2>3, <2>5 DEF Contract!Next
<1>9. CASE Lapses(a)
  <2>1. SaleOf(a).phase = "open" /\ SaleOf(a)' = Contract!Without("unsold")
    BY <1>5, <1>9, SaleOfRows, SaleOfRowsNext DEF Lapses
  <2>2. Contract!Lapse(a)
    BY <1>4, <2>1 DEF Contract!Lapse
  <2> QED BY <2>2 DEF Contract!Next
<1>10. CASE Withdraws(a)
  <2>1. SaleOf(a).phase = "awarded" /\ SaleOf(a)' = Contract!Without("open")
    BY <1>10, SaleOfRows, SaleOfRowsNext DEF Withdraws
  <2>2. Contract!Withdraw(a)
    BY <1>4, <2>1 DEF Contract!Withdraw
  <2> QED BY <2>2 DEF Contract!Next
<1>11. CASE Settles(a)
  <2> DEFINE u == order[a].buyer
             p == order[a].price
  <2>1. SaleOf(a) = [phase |-> "awarded", buyer |-> u, price |-> p]
    BY <1>11, SaleOfRows DEF Settles
  <2>2. SaleOf(a)' = [phase |-> "sold", buyer |-> u, price |-> p]
    BY <1>11, SaleOfRowsNext DEF Settles
  <2> HIDE DEF u, p
  <2>3. SaleOf(a)' = [sale[a] EXCEPT !.phase = "sold"] /\ SaleOf(a).phase = "awarded"
    BY <1>3, <2>1, <2>2
  <2>4. Contract!Settle(a)
    BY <1>4, <2>3 DEF Contract!Settle
  <2> QED BY <2>4 DEF Contract!Next
<1>12. CASE Removes(a)
  <2>1. SaleOf(a).phase \in {"open", "unsold"}
    BY <1>5, <1>12, SaleOfRows DEF Removes, OrderMatchesAuction
  <2>2. SaleOf(a)' = Contract!Without("removed")
    BY <1>12, SaleOfRowsNext DEF Removes
  <2>3. Contract!Remove(a)
    BY <1>4, <2>1, <2>2 DEF Contract!Remove
  <2> QED BY <2>3 DEF Contract!Next
<1> QED BY <1>6, <1>7, <1>8, <1>9, <1>10, <1>11, <1>12 DEF Moves

(* The backend implements the sale contract, for any number of auctions, users *)
(* and requests in flight: an auction is awarded to one buyer at one price,    *)
(* only an unpaid award is withdrawn, and a paid sale is final.                *)
THEOREM BackendImplementsContract == Spec => ImplementsContract
<1> DEFINE sale == [x \in Auctions |-> SaleOf(x)]
<1>1. Init => Contract!Init
  <2> SUFFICES ASSUME Init PROVE Contract!Init
    OBVIOUS
  <2>1. OrderMatchesAuction
    BY DEF Init, OrderMatchesAuction, NoOrder, NoAuction
  <2>2. \A x \in Auctions : auction[x].status = "ABSENT"
    BY DEF Init, NoAuction
  <2> QED BY <2>1, <2>2, SaleOfRows DEF Contract!Init
<1>2. /\ TypeOK /\ TypeOK' /\ OrderMatchesAuction /\ OrderMatchesAuction'
      /\ [Next]_vars
      => [Contract!Next]_([a \in Auctions |-> SaleOf(a)])
  <2> SUFFICES ASSUME TypeOK, TypeOK', OrderMatchesAuction, OrderMatchesAuction',
                      [Next]_vars
               PROVE  sale' = sale \/ Contract!Next
    OBVIOUS
  <2>1. CASE \A x \in Auctions : Keeps(x)
    BY <2>1, KeepsSale
  <2>2. CASE OneMoves
    BY <2>2, MoveIsContractStep DEF OneMoves
  <2> QED BY <2>1, <2>2, NextMoves DEF SaleStep
<1> QED
  BY <1>1, <1>2, TypeCorrect, OrdersMatch, PTL
     DEF Spec, ImplementsContract, Contract!Spec


-----------------------------------------------------------------------------
(* The current price *)

(* A bid is on an auction that was listed: an auction that is yet to be        *)
(* created starts without bids, and so at its start price.                     *)
BidsAreListed ==
  \A b \in Bids : bid[b].auction \in Auctions => auction[bid[b].auction].status # "ABSENT"

PricesTrack == \A a \in Auctions : PriceTracks(a)

(* The prices and what they need, which say nothing once a bot has bid what it *)
(* could not hold.                                                             *)
TracksIfHeld == EveryBidIsHeld => BidsAreListed /\ PricesTrack

(* Holds are those of bids.                                                    *)
HoldsHaveBids == \A b \in held : bid[b].status # "ABSENT"

PriceInv ==
  /\ TypeOK /\ OrderMatchesAuction
  /\ HoldsHaveBids /\ EveryBidIsHeld /\ BidsAreListed /\ PricesTrack

(* What a reopening leaves: a subset of the live bids of the auction is out,   *)
(* and the auction is open at the best of the rest.                            *)
LEMMA ReopenParts ==
  ASSUME TypeOK, NEW a \in Auctions, Reopen(a)
  PROVE  \E out \in SUBSET LiveBids(a) : \E next \in FirstOf(LiveBids(a) \ out) :
           /\ bid' = Disqualify(out)
           /\ auction' = [auction EXCEPT ![a] =
                [auction[a] EXCEPT !.status = "OPEN", !.winner = None, !.over = FALSE,
                   !.payload = {}, !.price = PriceOf(next, auction[a].start)]]
<1>1. PICK top \in FirstOf(LiveBids(a)) :
        LET out == IF /\ top # None
                      /\ bid[top].user = order[a].buyer
                      /\ bid[top].price = order[a].price
                   THEN {top} ELSE {}
        IN  /\ bid' = Disqualify(out)
            /\ \E next \in FirstOf(LiveBids(a) \ out) :
                 auction' = [auction EXCEPT ![a] =
                   [auction[a] EXCEPT !.status = "OPEN", !.winner = None,
                      !.over = FALSE, !.payload = {},
                      !.price = PriceOf(next, auction[a].start)]]
  BY DEF Reopen
<1> DEFINE out == IF /\ top # None
                     /\ bid[top].user = order[a].buyer
                     /\ bid[top].price = order[a].price
                  THEN {top} ELSE {}
<1>2. out \in SUBSET LiveBids(a)
  BY FirstIsMember
<1>3. /\ bid' = Disqualify(out)
      /\ \E next \in FirstOf(LiveBids(a) \ out) :
           auction' = [auction EXCEPT ![a] =
             [auction[a] EXCEPT !.status = "OPEN", !.winner = None, !.over = FALSE,
                !.payload = {}, !.price = PriceOf(next, auction[a].start)]]
  BY <1>1
<1> HIDE DEF out
<1> QED BY <1>2, <1>3

(* What a step does to the bids and their holds: nothing; or one bid is        *)
(* recorded, with its hold or, a bot's, without; or bids of one auction that   *)
(* still compete are disqualified, for good unless it is still to be won.      *)
Records(a, u, p, b) ==
  /\ MayBid(a, u, p) /\ RecordBid(a, u, p, b)
  /\ held' = held \cup {b} \/ (u \in Bots /\ held' = held)
TakesOut(a, S) ==
  /\ bid' = Disqualify(S) /\ held' = held
  /\ auction[a].status = "OPEN" \/ order'[a].status \in {"CANCELLED", "PAID"}
BidStep ==
  \/ UNCHANGED <<bid, held>>
  \/ \E a \in Auctions, u \in Users, p \in Prices, b \in Bids : Records(a, u, p, b)
  \/ \E a \in Auctions : \E S \in SUBSET LiveBids(a) : TakesOut(a, S)

LEMMA StepOnBids ==
  ASSUME TypeOK, [Next]_vars
  PROVE  BidStep
<1> USE DEF wallet, memory
<1>0. order \in [Auctions -> OrderRow]
  BY DEF TypeOK
<1>1. ASSUME NEW a \in Auctions, NEW u \in Users, NEW p \in Prices,
             NEW near \in BOOLEAN,
             PlaceBid(a, u, p, near) \/ PlaceBidAsBot(a, u, p, near)
      PROVE  BidStep
  <2>1. PICK b \in Bids : /\ RecordBid(a, u, p, b)
                          /\ held' = held \cup {b} \/ (u \in Bots /\ held' = held)
    BY <1>1 DEF PlaceBid, PlaceBidAsBot, HoldAndRaise
  <2>2. MayBid(a, u, p)
    BY <1>1 DEF PlaceBid, PlaceBidAsBot
  <2> QED BY <2>1, <2>2 DEF BidStep, Records
<1>2. ASSUME NEW a \in Auctions, Close(a)
      PROVE  BidStep
  <2>1. PICK out \in SUBSET LiveBids(a) : bid' = Disqualify(out)
    BY <1>2 DEF Close
  <2>2. held' = held /\ auction[a].status = "OPEN"
    BY <1>2 DEF Close
  <2> QED BY <2>1, <2>2 DEF BidStep, TakesOut
<1>3. ASSUME NEW a \in Auctions, Reopen(a)
      PROVE  BidStep
  <2>1. PICK out \in SUBSET LiveBids(a) : bid' = Disqualify(out)
    BY <1>3, ReopenParts
  <2>2. held' = held /\ order'[a].status = "CANCELLED"
    BY <1>0, <1>3 DEF Reopen, OrderRow
  <2> QED BY <2>1, <2>2 DEF BidStep, TakesOut
<1>4. ASSUME UNCHANGED <<bid, held>>
      PROVE  BidStep
  BY <1>4 DEF BidStep
<1>5. ASSUME NEW r \in Requests, RequestStep(r)
      PROVE  BidStep
  <2>1. CASE PayCommit(r)
    <3> DEFINE a == request[r].auction
    <3>1. a \in Auctions
      BY <2>1 DEF PayCommit, TypeOK, Request, Idle
    <3>2. PICK out \in SUBSET LiveBids(a) : bid' = Disqualify(out)
      BY <2>1 DEF PayCommit
    <3>3. held' = held /\ order'[a].status = "PAID"
      BY <1>0, <2>1, <3>1 DEF PayCommit, OrderRow
    <3> QED BY <3>1, <3>2, <3>3 DEF BidStep, TakesOut
  <2>2. CASE PayReopen(r)
    <3>1. request[r].auction \in Auctions
      BY <2>2 DEF PayReopen, TypeOK, Request, Idle
    <3> QED BY <1>3, <2>2, <3>1 DEF PayReopen
  <2>3. CASE ~PayCommit(r) /\ ~PayReopen(r)
    <3>1. UNCHANGED <<bid, held>>
      BY <1>5, <2>3
         DEF RequestStep, BuyNowRead, PayRead, BuyNowCommit, BuyNowRejected,
             PayConflict, PayFails, PayGivesUp
    <3> QED BY <1>4, <3>1
  <2> QED BY <2>1, <2>2, <2>3
<1>6. ASSUME NEW f \in finalizing, FinalizeStep(f)
      PROVE  BidStep
  <2>1. UNCHANGED <<bid, held>>
    BY <1>6
       DEF FinalizeStep, FinalizeRelease, FinalizeFails, FinalizePersist, FinalizeClear,
           PayloadWriteFails
  <2> QED BY <1>4, <2>1
<1>7. ASSUME NEW a \in Auctions, AuctionStep(a)
      PROVE  BidStep
  <2>1. \/ UNCHANGED <<bid, held>> \/ Close(a) \/ Reopen(a)
        \/ \E u \in Users, p \in Prices, near \in BOOLEAN :
             PlaceBid(a, u, p, near) \/ PlaceBidAsBot(a, u, p, near)
    BY <1>7
       DEF AuctionStep, CreateAuction, PatchAuction, DeleteAuction, EndTimePasses,
           CloseExpired, CloseForAdmin, RetryFinalize, CancelExpiredPendingOrder
  <2> QED BY <1>1, <1>2, <1>3, <1>4, <2>1
<1>8. CASE Crash \/ UNCHANGED vars
  <2>1. UNCHANGED <<bid, held>>
    BY <1>8 DEF Crash, vars
  <2> QED BY <1>4, <2>1
<1> QED BY <1>5, <1>6, <1>7, <1>8 DEF Next

(* So every bid was held if every bid is held after a step, and holds stay     *)
(* those of bids.                                                              *)
LEMMA HeldBefore ==
  ASSUME TypeOK, [Next]_vars, HoldsHaveBids
  PROVE  (EveryBidIsHeld' => EveryBidIsHeld) /\ HoldsHaveBids'
<1>0. held \subseteq Bids /\ bid \in [Bids -> BidRow]
  BY DEF TypeOK
<1>1. CASE UNCHANGED <<bid, held>>
  BY <1>1 DEF EveryBidIsHeld, HoldsHaveBids
<1>2. ASSUME NEW a, NEW u, NEW p, NEW b \in Bids, Records(a, u, p, b)
      PROVE  (EveryBidIsHeld' => EveryBidIsHeld) /\ HoldsHaveBids'
  <2>1. /\ bid[b].status = "ABSENT" /\ bid'[b].status = "LIVE"
        /\ \A c \in Bids \ {b} : bid'[c] = bid[c]
        /\ held' \in {held, held \cup {b}}
    BY <1>0, <1>2 DEF Records, RecordBid
  <2> QED BY <1>0, <2>1 DEF EveryBidIsHeld, HoldsHaveBids
<1>3. ASSUME NEW a, NEW S \in SUBSET LiveBids(a), TakesOut(a, S)
      PROVE  (EveryBidIsHeld' => EveryBidIsHeld) /\ HoldsHaveBids'
  <2>1. S \in SUBSET Bids /\ \A c \in S : bid[c].status = "LIVE"
    BY DEF LiveBids, BidsOn
  <2>2. /\ \A c \in Bids : bid'[c].status = IF c \in S THEN "OUT" ELSE bid[c].status
        /\ held' = held
    BY <1>3, <2>1, DisqualifyOnly DEF TakesOut
  <2> QED BY <1>0, <2>1, <2>2 DEF EveryBidIsHeld, HoldsHaveBids
<1> QED BY <1>1, <1>2, <1>3, StepOnBids DEF BidStep

(* Disqualifying bids takes exactly those out of the race, on every auction.   *)
LEMMA DisqualifyLive ==
  ASSUME TypeOK, NEW S \in SUBSET Bids, bid' = Disqualify(S), NEW x
  PROVE  /\ LiveBids(x)' = LiveBids(x) \ S
         /\ BidsOn(x)' = BidsOn(x)
         /\ \A b \in Bids : bid'[b].price = bid[b].price /\ bid'[b].auction = bid[b].auction
<1>1. \A b \in Bids : /\ bid'[b].status = IF b \in S THEN "OUT" ELSE bid[b].status
                      /\ bid'[b].auction = bid[b].auction
                      /\ bid'[b].price = bid[b].price
  BY DisqualifyOnly
<1> QED BY <1>1 DEF LiveBids, BidsOn

(* The first of a set of bids has the best price of it.                        *)
LEMMA FirstIsBest ==
  ASSUME TypeOK, NEW S \in SUBSET Bids, NEW top \in FirstOf(S), NEW p
  PROVE  IF S = {} THEN PriceOf(top, p) = p
         ELSE /\ top \in S /\ PriceOf(top, p) = bid[top].price
              /\ \A b \in S : bid[top].price >= bid[b].price
<1>1. CASE S = {}
  BY <1>1 DEF FirstOf, PriceOf
<1>2. CASE S # {}
  <2>1. top \in S /\ \A b \in S : bid[b].price <= bid[top].price
    BY <1>2 DEF FirstOf
  <2>2. top # None
    BY <2>1, NoneIsNoRow
  <2>3. \A b \in S : bid[b].price \in Nat
    BY DEF TypeOK, BidRow
  <2> QED BY <1>2, <2>1, <2>2, <2>3 DEF PriceOf
<1> QED BY <1>1, <1>2

(* An auction keeps its price for as long as neither it nor its bids change,   *)
(* and one that is not open has none to keep.                                  *)
LEMMA PriceStays ==
  ASSUME PriceInv, NEW x \in Auctions, LiveBids(x)' = LiveBids(x),
         \A b \in LiveBids(x) : bid'[b].price = bid[b].price,
         \/ auction'[x].status # "OPEN"
         \/ /\ auction[x].status = "OPEN" /\ auction'[x].price = auction[x].price
            /\ auction'[x].start = auction[x].start
  PROVE  PriceTracks(x)'
BY DEF PriceInv, PricesTrack, PriceTracks

(* Bids stay on auctions that were listed: no auction becomes one that was     *)
(* not, and a bid that is recorded is on an open one.                          *)
LEMMA ListedStays ==
  ASSUME PriceInv, TypeOK',
         \A b \in Bids : \/ bid'[b].auction = bid[b].auction
                         \/ /\ bid'[b].auction \in Auctions
                            /\ auction[bid'[b].auction].status = "OPEN",
         \A a \in Auctions : auction[a].status # "ABSENT" => auction'[a].status # "ABSENT"
  PROVE  BidsAreListed'
BY DEF PriceInv, BidsAreListed

(* A bid that is held is the best there is: it is over the current price.      *)
LEMMA HeldBidTracks ==
  ASSUME PriceInv, TypeOK', NEW a \in Auctions, NEW u \in Users, NEW p \in Prices,
         NEW near \in BOOLEAN, NEW b \in Bids, MayBid(a, u, p),
         RecordBid(a, u, p, b), HoldAndRaise(a, u, p, near, b)
  PROVE  BidsAreListed' /\ PricesTrack'
<1>0. /\ auction \in [Auctions -> AuctionRow] /\ bid \in [Bids -> BidRow] /\ p \in Nat
      /\ auction[a].status = "OPEN"
  BY PricesAreNat DEF PriceInv, TypeOK, MayBid
<1>1. /\ bid[b].status = "ABSENT"
      /\ bid' = [bid EXCEPT ![b] =
           [status |-> "LIVE", auction |-> a, user |-> u, price |-> p]]
      /\ auction' = [auction EXCEPT ![a] = AfterBid(a, p, near)]
  BY DEF RecordBid, HoldAndRaise
<1>2. /\ AfterBid(a, p, near).status = auction[a].status
      /\ AfterBid(a, p, near).price = p
  BY <1>0 DEF AfterBid, AuctionRow
<1>3. BidsAreListed'
  BY <1>0, <1>1, <1>2, ListedStays
<1>4. p >= auction[a].price
  <2>1. auction[a].price \in Nat /\ auction[a].inc \in Nat
    BY <1>0 DEF AuctionRow
  <2>2. p >= auction[a].price + auction[a].inc
    BY DEF MayBid
  <2> QED BY <1>0, <2>1, <2>2
<1>5. \A x \in Auctions : LiveBids(x)' = IF x = a THEN LiveBids(a) \cup {b} ELSE LiveBids(x)
  BY <1>0, <1>1 DEF LiveBids, BidsOn
<1>6. \A x \in Auctions : b \notin LiveBids(x)
  BY <1>1 DEF LiveBids
<1>7. ASSUME NEW x \in Auctions PROVE PriceTracks(x)'
  <2>1. CASE x # a
    BY <1>0, <1>1, <1>5, <1>6, <2>1, PriceStays
       DEF LiveBids, BidsOn
  <2>2. CASE x = a
    <3>1. auction'[a].price = p /\ bid'[b].price = p /\ b \in LiveBids(a)'
      BY <1>0, <1>1, <1>2, <1>5
    <3>2. \A c \in LiveBids(a) : p >= bid'[c].price
      <4>1. \A c \in LiveBids(a) : auction[a].price >= bid[c].price
        BY <1>0 DEF PriceInv, PricesTrack, PriceTracks
      <4>2. \A c \in LiveBids(a) : bid'[c].price = bid[c].price /\ bid[c].price \in Nat
        BY <1>0, <1>1, <1>6 DEF LiveBids, BidsOn, BidRow
      <4>3. auction[a].price \in Nat
        BY <1>0 DEF AuctionRow
      <4> QED BY <1>0, <1>4, <4>1, <4>2, <4>3
    <3>3. \A c \in LiveBids(a)' : auction'[a].price >= bid'[c].price
      BY <1>0, <1>5, <3>1, <3>2
    <3> QED BY <2>2, <3>1, <3>3 DEF PriceTracks
  <2> QED BY <2>1, <2>2
<1> QED BY <1>3, <1>7 DEF PricesTrack, PriceTracks

(* A seller who moves the start price moves the current one with it, and may   *)
(* do so only without bids.                                                    *)
LEMMA PatchTracks ==
  ASSUME PriceInv, TypeOK', NEW a \in Auctions, NEW p \in Prices \cup {None},
         NEW n \in Prices \cup {None}, NEW i \in Increments \cup {None},
         NEW moveEnd \in BOOLEAN, PatchAuction(a, p, n, i, moveEnd)
  PROVE  BidsAreListed' /\ PricesTrack'
<1>0. auction \in [Auctions -> AuctionRow]
  BY DEF PriceInv, TypeOK
<1>2. /\ auction[a].status = "OPEN" /\ bid' = bid
      /\ auction'[a].status = "OPEN"
      /\ auction'[a].start = Patched(p, auction[a].start)
      /\ auction'[a].price = Patched(p, auction[a].price)
      /\ \A x \in Auctions \ {a} : auction'[x] = auction[x]
  BY <1>0, PatchOnly
<1>3. BidsAreListed'
  BY <1>2, ListedStays
<1>4. \A x \in Auctions : LiveBids(x)' = LiveBids(x)
  BY <1>2 DEF LiveBids, BidsOn
<1>5. BidsOn(a) # {} => p = None
  BY DEF PatchAuction
<1>6. ASSUME NEW x \in Auctions PROVE PriceTracks(x)'
  <2>1. CASE x # a \/ p = None
    BY <1>2, <1>4, <2>1, PriceStays DEF Patched
  <2>2. CASE x = a /\ p # None
    <3>1. LiveBids(a)' = {}
      BY <1>4, <1>5, <2>2 DEF LiveBids
    <3>2. auction'[a].price = auction'[a].start
      BY <1>2, <2>2 DEF Patched
    <3> QED BY <2>2, <3>1, <3>2 DEF PriceTracks
  <2> QED BY <2>1, <2>2
<1> QED BY <1>3, <1>6 DEF PricesTrack, PriceTracks

(* A reopened auction starts again at the best bid that is left, or its start  *)
(* price.                                                                      *)
LEMMA ReopenTracks ==
  ASSUME PriceInv, TypeOK', NEW a \in Auctions, Reopen(a)
  PROVE  BidsAreListed' /\ PricesTrack'
<1>0. auction \in [Auctions -> AuctionRow] /\ TypeOK
  BY DEF PriceInv, TypeOK
<1>9. PICK out \in SUBSET LiveBids(a) : \E next \in FirstOf(LiveBids(a) \ out) :
        /\ bid' = Disqualify(out)
        /\ auction' = [auction EXCEPT ![a] =
             [auction[a] EXCEPT !.status = "OPEN", !.winner = None, !.over = FALSE,
                !.payload = {}, !.price = PriceOf(next, auction[a].start)]]
  BY <1>0, ReopenParts
<1>1. PICK next \in FirstOf(LiveBids(a) \ out) :
        /\ bid' = Disqualify(out)
        /\ auction' = [auction EXCEPT ![a] =
             [auction[a] EXCEPT !.status = "OPEN", !.winner = None, !.over = FALSE,
                !.payload = {}, !.price = PriceOf(next, auction[a].start)]]
  BY <1>9
<1>2. out \in SUBSET Bids /\ LiveBids(a) \ out \in SUBSET Bids
  BY DEF LiveBids, BidsOn
<1>3. /\ auction'[a].status = "OPEN" /\ auction'[a].start = auction[a].start
      /\ auction'[a].price = PriceOf(next, auction[a].start)
      /\ \A x \in Auctions \ {a} : auction'[x] = auction[x]
  BY <1>0, <1>1 DEF AuctionRow
<1>4. /\ \A x : LiveBids(x)' = LiveBids(x) \ out
      /\ \A b \in Bids : bid'[b].price = bid[b].price /\ bid'[b].auction = bid[b].auction
  BY <1>0, <1>1, <1>2, DisqualifyLive
<1>5. BidsAreListed'
  BY <1>3, <1>4, ListedStays
<1>6. ASSUME NEW x \in Auctions PROVE PriceTracks(x)'
  <2>1. CASE x # a
    <3>1. LiveBids(x)' = LiveBids(x)
      BY <1>4, <2>1 DEF LiveBids, BidsOn
    <3> QED BY <1>3, <1>4, <2>1, <3>1, PriceStays DEF LiveBids, BidsOn
  <2>2. CASE x = a
    <3>1. IF LiveBids(a) \ out = {} THEN PriceOf(next, auction[a].start) = auction[a].start
          ELSE /\ next \in LiveBids(a) \ out
               /\ PriceOf(next, auction[a].start) = bid[next].price
               /\ \A b \in LiveBids(a) \ out : bid[next].price >= bid[b].price
      BY <1>0, <1>2, FirstIsBest
    <3>2. LiveBids(a)' = LiveBids(a) \ out
      BY <1>4
    <3> QED BY <1>2, <1>3, <1>4, <2>2, <3>1, <3>2 DEF PriceTracks
  <2> QED BY <2>1, <2>2
<1> QED BY <1>5, <1>6 DEF PricesTrack, PriceTracks

(* A close takes the auction out of the statement, and the losers' bids are    *)
(* all on it.                                                                  *)
LEMMA CloseTracks ==
  ASSUME PriceInv, TypeOK', NEW a \in Auctions, Close(a)
  PROVE  BidsAreListed' /\ PricesTrack'
<1>0. auction \in [Auctions -> AuctionRow] /\ TypeOK
  BY DEF PriceInv, TypeOK
<1>1. PICK out \in SUBSET LiveBids(a) : bid' = Disqualify(out)
  BY DEF Close
<1>2. auction'[a].status = "CLOSED" /\ \A x \in Auctions \ {a} : auction'[x] = auction[x]
  <2>1. PICK winner, final :
          auction' = [auction EXCEPT ![a] =
            [auction[a] EXCEPT !.status = "CLOSED", !.winner = winner, !.price = final,
               !.payload = {}]]
    BY DEF Close
  <2> QED BY <1>0, <2>1 DEF AuctionRow
<1>3. out \in SUBSET Bids
  BY DEF LiveBids, BidsOn
<1>4. /\ \A x : LiveBids(x)' = LiveBids(x) \ out
      /\ \A b \in Bids : bid'[b].price = bid[b].price /\ bid'[b].auction = bid[b].auction
  BY <1>0, <1>1, <1>3, DisqualifyLive
<1>5. BidsAreListed'
  BY <1>2, <1>4, ListedStays
<1>6. ASSUME NEW x \in Auctions PROVE PriceTracks(x)'
  <2>1. CASE x # a
    <3>1. LiveBids(x)' = LiveBids(x)
      BY <1>4, <2>1 DEF LiveBids, BidsOn
    <3> QED BY <1>2, <1>4, <2>1, <3>1, PriceStays DEF LiveBids, BidsOn, PriceTracks
  <2>2. CASE x = a
    BY <1>2, <2>2 DEF PriceTracks
  <2> QED BY <2>1, <2>2
<1> QED BY <1>5, <1>6 DEF PricesTrack, PriceTracks

(* Bids that stay, on auctions that keep their prices or are not open.         *)
LEMMA StaysTracked ==
  ASSUME PriceInv, TypeOK', bid' = bid,
         \A x \in Auctions :
           /\ auction[x].status # "ABSENT" => auction'[x].status # "ABSENT"
           /\ \/ auction'[x].status # "OPEN"
              \/ /\ auction[x].status = "OPEN" /\ auction'[x].price = auction[x].price
                 /\ auction'[x].start = auction[x].start
  PROVE  BidsAreListed' /\ PricesTrack'
<1>1. BidsAreListed'
  BY ListedStays
<1>2. \A x \in Auctions : LiveBids(x)' = LiveBids(x)
  BY DEF LiveBids, BidsOn
<1>3. ASSUME NEW x \in Auctions PROVE PriceTracks(x)'
  BY <1>2, PriceStays
<1> QED BY <1>1, <1>3 DEF PricesTrack, PriceTracks

(* A new auction has no bids.                                                  *)
LEMMA CreateTracks ==
  ASSUME PriceInv, TypeOK', NEW a \in Auctions, NEW s \in Users, NEW p \in Prices,
         NEW n \in Prices \cup {None}, NEW i \in Increments, CreateAuction(a, s, p, n, i)
  PROVE  BidsAreListed' /\ PricesTrack'
<1>0. auction \in [Auctions -> AuctionRow] /\ bid' = bid /\ auction[a].status = "ABSENT"
  BY DEF PriceInv, TypeOK, CreateAuction
<1>1. /\ auction'[a].status = "OPEN" /\ auction'[a].price = p /\ auction'[a].start = p
      /\ \A x \in Auctions \ {a} : auction'[x] = auction[x]
  BY <1>0, EmptyRows DEF CreateAuction, AuctionRow
<1>2. BidsAreListed'
  BY <1>0, <1>1, ListedStays
<1>3. \A x \in Auctions : LiveBids(x)' = LiveBids(x)
  BY <1>0 DEF LiveBids, BidsOn
<1>4. LiveBids(a) = {}
  BY <1>0 DEF PriceInv, BidsAreListed, LiveBids, BidsOn
<1>5. ASSUME NEW x \in Auctions PROVE PriceTracks(x)'
  <2>1. CASE x # a
    BY <1>0, <1>1, <1>3, <2>1, PriceStays DEF PriceTracks
  <2>2. CASE x = a
    BY <1>1, <1>3, <1>4, <2>2 DEF PriceTracks
  <2> QED BY <2>1, <2>2
<1> QED BY <1>2, <1>5 DEF PricesTrack, PriceTracks

(* A payment past the hold takes bids out of a closed auction only.            *)
LEMMA PayTracks ==
  ASSUME PriceInv, TypeOK', NEW r \in Requests, PayCommit(r)
  PROVE  BidsAreListed' /\ PricesTrack'
<1> DEFINE a == request[r].auction
<1>0. TypeOK /\ auction' = auction /\ a \in Auctions
  BY DEF PriceInv, PayCommit, TypeOK, Request, Idle
<1>1. auction[a].status = "CLOSED"
  BY <1>0 DEF PriceInv, OrderMatchesAuction, PayCommit
<1>2. PICK out \in SUBSET LiveBids(a) : bid' = Disqualify(out)
  BY DEF PayCommit
<1>3. out \in SUBSET Bids
  BY DEF LiveBids, BidsOn
<1> HIDE DEF a
<1>4. /\ \A x : LiveBids(x)' = LiveBids(x) \ out
      /\ \A b \in Bids : bid'[b].price = bid[b].price /\ bid'[b].auction = bid[b].auction
  BY <1>0, <1>2, <1>3, DisqualifyLive
<1>5. BidsAreListed'
  BY <1>0, <1>4, ListedStays
<1>6. ASSUME NEW x \in Auctions PROVE PriceTracks(x)'
  <2>1. CASE x # a
    <3>1. LiveBids(x)' = LiveBids(x)
      BY <1>4, <2>1 DEF LiveBids, BidsOn
    <3> QED BY <1>0, <1>4, <3>1, PriceStays DEF LiveBids, BidsOn, PriceTracks
  <2>2. CASE x = a
    BY <1>0, <1>1, <2>2 DEF PriceTracks
  <2> QED BY <2>1, <2>2
<1> QED BY <1>5, <1>6 DEF PricesTrack, PriceTracks

(* As long as every bid was held - a bot that cannot pay leaves a bid and does *)
(* not raise the price - the current price of an open auction is that of its   *)
(* best live bid, or the start price, after any number of bids, closes,        *)
(* payments and reopenings, whatever fails and whatever requests decided on    *)
(* old rows.                                                                   *)
THEOREM TrackedIfHeld == Spec => [](HoldsHaveBids /\ TracksIfHeld)
<1>1. Init => HoldsHaveBids /\ TracksIfHeld
  BY NoneIsNoRow
     DEF Init, NoBid, NoAuction, BidsAreListed, TracksIfHeld, PricesTrack, PriceTracks,
         HoldsHaveBids
<1>2. /\ TypeOK /\ TypeOK' /\ OrderMatchesAuction /\ HoldsHaveBids /\ TracksIfHeld
      /\ [Next]_vars
      => HoldsHaveBids' /\ TracksIfHeld'
  <2> SUFFICES ASSUME PriceInv, TypeOK', [Next]_vars, EveryBidIsHeld'
               PROVE  BidsAreListed' /\ PricesTrack'
    BY HeldBefore DEF PriceInv, TracksIfHeld
  <2> USE DEF wallet, memory
  <2>0. auction \in [Auctions -> AuctionRow]
    BY DEF PriceInv, TypeOK
  <2>1. ASSUME NEW a \in Auctions, NEW s \in Users, NEW p \in Prices,
               NEW n \in Prices \cup {None}, NEW i \in Increments,
               CreateAuction(a, s, p, n, i)
        PROVE  BidsAreListed' /\ PricesTrack'
    BY <2>1, CreateTracks
  <2>2. ASSUME NEW a \in Auctions, NEW u \in Users, NEW p \in Prices,
               NEW near \in BOOLEAN,
               PlaceBid(a, u, p, near) \/ PlaceBidAsBot(a, u, p, near)
        PROVE  BidsAreListed' /\ PricesTrack'
    <3>1. PICK b \in Bids :
            /\ RecordBid(a, u, p, b)
            /\ HoldAndRaise(a, u, p, near, b) \/ UNCHANGED held
      BY <2>2 DEF PlaceBid, PlaceBidAsBot
    <3>2. HoldAndRaise(a, u, p, near, b)
      <4>1. bid[b].status = "ABSENT" /\ bid'[b].status = "LIVE"
        BY <3>1 DEF RecordBid, PriceInv, TypeOK
      <4>2. b \in held' /\ b \notin held
        BY <4>1 DEF EveryBidIsHeld, HoldsHaveBids, PriceInv
      <4> QED BY <3>1, <4>2
    <3>3. MayBid(a, u, p)
      BY <2>2 DEF PlaceBid, PlaceBidAsBot
    <3> QED BY <3>1, <3>2, <3>3, HeldBidTracks
  <2>3. ASSUME NEW a \in Auctions, NEW p \in Prices \cup {None},
               NEW n \in Prices \cup {None}, NEW i \in Increments \cup {None},
               NEW moveEnd \in BOOLEAN, PatchAuction(a, p, n, i, moveEnd)
        PROVE  BidsAreListed' /\ PricesTrack'
    BY <2>3, PatchTracks
  <2>4. ASSUME NEW a \in Auctions, DeleteAuction(a)
        PROVE  BidsAreListed' /\ PricesTrack'
    <3>1. /\ auction'[a].status = "DELETED"
          /\ \A x \in Auctions \ {a} : auction'[x] = auction[x]
      BY <2>0, <2>4, EmptyRows DEF DeleteAuction, AuctionRow
    <3> QED BY <2>4, <3>1, StaysTracked DEF DeleteAuction
  <2>5. ASSUME NEW a \in Auctions, EndTimePasses(a)
        PROVE  BidsAreListed' /\ PricesTrack'
    <3>1. /\ auction'[a].status = auction[a].status
          /\ auction'[a].price = auction[a].price /\ auction'[a].start = auction[a].start
          /\ \A x \in Auctions \ {a} : auction'[x] = auction[x]
      BY <2>0, <2>5 DEF EndTimePasses, AuctionRow
    <3> QED BY <2>5, <3>1, StaysTracked DEF EndTimePasses
  <2>6. ASSUME NEW a \in Auctions, Close(a)
        PROVE  BidsAreListed' /\ PricesTrack'
    BY <2>6, CloseTracks
  <2>7. ASSUME NEW a \in Auctions, CancelExpiredPendingOrder(a)
        PROVE  BidsAreListed' /\ PricesTrack'
    BY <2>7, ReopenTracks DEF CancelExpiredPendingOrder
  <2>8. ASSUME NEW f \in finalizing, FinalizeStep(f)
        PROVE  BidsAreListed' /\ PricesTrack'
    <3>1. ASSUME NEW payload, SetPayload(f.auction, payload)
          PROVE  \A x \in Auctions :
                   /\ auction'[x].status = auction[x].status
                   /\ auction'[x].price = auction[x].price
                   /\ auction'[x].start = auction[x].start
      BY <2>0, <3>1 DEF SetPayload, AuctionRow
    <3> QED
      BY <2>8, <3>1, StaysTracked
         DEF FinalizeStep, FinalizeRelease, FinalizeFails, FinalizePersist,
             FinalizeClear, PayloadWriteFails
  <2>9. ASSUME NEW r \in Requests, RequestStep(r)
        PROVE  BidsAreListed' /\ PricesTrack'
    <3>1. CASE BuyNowCommit(r)
      <4> DEFINE a == request[r].auction
      <4>1. a \in Auctions
        BY <3>1 DEF BuyNowCommit, PriceInv, TypeOK, Request, Idle
      <4>2. /\ auction'[a].status = "CLOSED"
            /\ \A x \in Auctions \ {a} : auction'[x] = auction[x]
        BY <2>0, <3>1, <4>1 DEF BuyNowCommit, BoughtRow, AuctionRow
      <4> QED BY <3>1, <4>2, StaysTracked DEF BuyNowCommit
    <3>2. CASE PayCommit(r)
      BY <3>2, PayTracks
    <3>3. CASE PayReopen(r)
      <4>1. request[r].auction \in Auctions
        BY <3>3 DEF PayReopen, PriceInv, TypeOK, Request, Idle
      <4> QED BY <3>3, <4>1, ReopenTracks DEF PayReopen
    <3>4. CASE UNCHANGED <<auction, bid>>
      BY <3>4, StaysTracked
    <3> QED
      BY <2>9, <3>1, <3>2, <3>3, <3>4
         DEF RequestStep, BuyNowRead, PayRead, BuyNowRejected, PayConflict, PayFails,
             PayGivesUp
  <2>10. CASE UNCHANGED <<auction, bid>>
    BY <2>10, StaysTracked
  <2> QED
    BY <2>1, <2>2, <2>3, <2>4, <2>5, <2>6, <2>7, <2>8, <2>9, <2>10
       DEF Next, AuctionStep, CloseExpired, CloseForAdmin, RetryFinalize, Crash, vars
<1> QED BY <1>1, <1>2, TypeCorrect, OrdersMatch, PTL DEF Spec

(* The part of it the runs check: minBid is computed from the best live bid.   *)
THEOREM PriceTracked == Spec => []PriceTracksTopBid
<1>1. TracksIfHeld => PriceTracksTopBid
  BY DEF TracksIfHeld, PricesTrack, PriceTracksTopBid
<1> QED BY <1>1, TrackedIfHeld, PTL

-----------------------------------------------------------------------------
(* Money *)

(* What the rows about money must say of each other, whatever bots do: a bid   *)
(* is somebody's on some auction, whoever sells has an account, an increment   *)
(* is one, and a payment that may still commit is of the order it will settle, *)
(* through a hold that is still there.                                         *)
Placed ==
  \A b \in Bids : bid[b].status # "ABSENT" =>
    bid[b].auction \in Auctions /\ bid[b].user \in Users

Listed(a) ==
  auction[a].status \in {"OPEN", "CLOSED"} =>
    auction[a].seller \in Users /\ auction[a].inc # 0
SellersAreUsers == \A a \in Auctions : Listed(a)

Fits(q) ==
  q.step = "PAY" =>
    /\ order[q.auction].status # "ABSENT" \/ auction[q.auction].status = "DELETED"
    /\ order[q.auction].status = "PENDING" =>
         /\ q.user = order[q.auction].buyer /\ q.price = order[q.auction].price
         /\ q.byHold => \E b \in LiveBids(q.auction) :
                          bid[b].user = q.user /\ bid[b].price = q.price
PaymentsFit == \A r \in Requests : Fits(request[r])

BooksInv == Placed /\ SellersAreUsers /\ PaymentsFit

(* A bid is placed when it is recorded and stays where it is.                  *)
LEMMA PlacedStays ==
  ASSUME TypeOK, [Next]_vars, Placed
  PROVE  Placed'
<1>0. bid \in [Bids -> BidRow]
  BY DEF TypeOK
<1>1. CASE UNCHANGED <<bid, held>>
  BY <1>1 DEF Placed
<1>2. ASSUME NEW a \in Auctions, NEW u \in Users, NEW p \in Prices, NEW b \in Bids,
             Records(a, u, p, b)
      PROVE  Placed'
  <2>1. /\ bid'[b].auction = a /\ bid'[b].user = u
        /\ \A c \in Bids \ {b} : bid'[c] = bid[c]
    BY <1>0, <1>2 DEF Records, RecordBid
  <2> QED BY <2>1 DEF Placed
<1>3. ASSUME NEW a, NEW S \in SUBSET LiveBids(a), TakesOut(a, S)
      PROVE  Placed'
  <2>1. S \in SUBSET Bids /\ \A c \in S : bid[c].status = "LIVE"
    BY DEF LiveBids, BidsOn
  <2>2. \A c \in Bids : /\ bid'[c].status = IF c \in S THEN "OUT" ELSE bid[c].status
                        /\ bid'[c].auction = bid[c].auction
                        /\ bid'[c].user = bid[c].user
    BY <1>3, <2>1, DisqualifyOnly DEF TakesOut
  <2> QED BY <2>1, <2>2 DEF Placed
<1> QED BY <1>1, <1>2, <1>3, StepOnBids DEF BidStep

(* An auction keeps its seller, and its increment unless it is patched.        *)
LEMMA SellersStay ==
  ASSUME TypeOK, [Next]_vars, SellersAreUsers
  PROVE  SellersAreUsers'
<1> USE DEF wallet, memory
<1>0. auction \in [Auctions -> AuctionRow]
  BY DEF TypeOK
<1>1. ASSUME \A x \in Auctions :
               \/ Listed(x)'
               \/ /\ auction[x].status \in {"OPEN", "CLOSED"}
                  /\ auction'[x].seller = auction[x].seller
                  /\ auction'[x].inc = auction[x].inc
               \/ auction'[x] = auction[x]
      PROVE  SellersAreUsers'
  BY <1>1 DEF SellersAreUsers, Listed
<1>2. ASSUME NEW a \in Auctions, NEW s \in Users, NEW p \in Prices,
             NEW n \in Prices \cup {None}, NEW i \in Increments,
             CreateAuction(a, s, p, n, i)
      PROVE  SellersAreUsers'
  <2>1. i # 0
    BY IncrementsArePositive
  <2>2. auction'[a].seller = s /\ auction'[a].inc = i
    BY <1>0, <1>2 DEF CreateAuction, NoAuction
  <2>3. \A x \in Auctions \ {a} : auction'[x] = auction[x]
    BY <1>0, <1>2 DEF CreateAuction
  <2> QED BY <1>1, <2>1, <2>2, <2>3 DEF Listed
<1>3. ASSUME NEW a \in Auctions, NEW u \in Users, NEW p \in Prices,
             NEW near \in BOOLEAN,
             PlaceBid(a, u, p, near) \/ PlaceBidAsBot(a, u, p, near)
      PROVE  SellersAreUsers'
  <2>1. auction' = auction \/ auction' = [auction EXCEPT ![a] = AfterBid(a, p, near)]
    BY <1>3 DEF PlaceBid, PlaceBidAsBot, HoldAndRaise
  <2>2. /\ AfterBid(a, p, near).seller = auction[a].seller
        /\ AfterBid(a, p, near).inc = auction[a].inc
    BY <1>0 DEF AfterBid, AuctionRow
  <2>3. auction[a].status = "OPEN"
    BY <1>3 DEF PlaceBid, PlaceBidAsBot, MayBid
  <2> QED BY <1>0, <1>1, <2>1, <2>2, <2>3
<1>4. ASSUME NEW a \in Auctions, NEW p \in Prices \cup {None},
             NEW n \in Prices \cup {None}, NEW i \in Increments \cup {None},
             NEW moveEnd \in BOOLEAN, PatchAuction(a, p, n, i, moveEnd)
      PROVE  SellersAreUsers'
  <2>1. /\ auction[a].status = "OPEN" /\ auction'[a].seller = auction[a].seller
        /\ auction'[a].inc = Patched(i, auction[a].inc)
        /\ \A x \in Auctions \ {a} : auction'[x] = auction[x]
    BY <1>0, <1>4, PatchOnly
  <2>2. auction[a].seller \in Users /\ auction[a].inc # 0
    BY <2>1 DEF SellersAreUsers, Listed
  <2>3. auction'[a].inc # 0
    BY <2>1, <2>2, IncrementsArePositive DEF Patched
  <2> QED BY <1>1, <2>1, <2>2, <2>3 DEF Listed
<1>5. ASSUME NEW a \in Auctions, DeleteAuction(a) PROVE SellersAreUsers'
  <2>1. /\ auction'[a].status = "DELETED"
        /\ \A x \in Auctions \ {a} : auction'[x] = auction[x]
    BY <1>0, <1>5 DEF DeleteAuction, NoAuction
  <2> QED BY <1>1, <2>1 DEF Listed
<1>6. ASSUME NEW a \in Auctions, EndTimePasses(a) PROVE SellersAreUsers'
  BY <1>0, <1>1, <1>6 DEF EndTimePasses, AuctionRow
<1>7. ASSUME NEW a \in Auctions, Close(a) PROVE SellersAreUsers'
  <2>1. PICK winner, final :
          auction' = [auction EXCEPT ![a] =
            [auction[a] EXCEPT !.status = "CLOSED", !.winner = winner,
               !.price = final, !.payload = {}]]
    BY <1>7 DEF Close
  <2>2. auction[a].status = "OPEN"
    BY <1>7 DEF Close
  <2> QED BY <1>0, <1>1, <2>1, <2>2 DEF AuctionRow
<1>8. ASSUME NEW a \in Auctions, Reopen(a) PROVE SellersAreUsers'
  <2>1. PICK price :
          auction' = [auction EXCEPT ![a] =
            [auction[a] EXCEPT !.status = "OPEN", !.winner = None, !.over = FALSE,
               !.payload = {}, !.price = price]]
    BY <1>8 DEF Reopen
  <2>2. auction[a].status = "CLOSED"
    BY <1>8 DEF Reopen, MayReopen
  <2> QED BY <1>0, <1>1, <2>1, <2>2 DEF AuctionRow
<1>9. ASSUME NEW f \in finalizing, NEW payload, SetPayload(f.auction, payload)
      PROVE  SellersAreUsers'
  <2>1. \A x \in Auctions : /\ auction'[x].status = auction[x].status
                            /\ auction'[x].seller = auction[x].seller
                            /\ auction'[x].inc = auction[x].inc
    BY <1>0, <1>9 DEF SetPayload, AuctionRow
  <2> QED BY <2>1 DEF SellersAreUsers, Listed
<1>10. ASSUME UNCHANGED auction PROVE SellersAreUsers'
  BY <1>10 DEF SellersAreUsers, Listed
<1>11. ASSUME NEW f \in finalizing, FinalizeStep(f) PROVE SellersAreUsers'
  BY <1>9, <1>10, <1>11
     DEF FinalizeStep, FinalizeRelease, FinalizeFails, FinalizePersist, FinalizeClear,
         PayloadWriteFails
<1>12. ASSUME NEW r \in Requests, RequestStep(r) PROVE SellersAreUsers'
  <2>1. CASE BuyNowCommit(r)
    <3> DEFINE a == request[r].auction
    <3>1. a \in Auctions
      BY <2>1 DEF BuyNowCommit, TypeOK, Request, Idle
    <3>2. auction' = [auction EXCEPT ![a] = BoughtRow(r)] /\ auction[a].status = "OPEN"
      BY <2>1 DEF BuyNowCommit, BuyNowPossible
    <3>3. BoughtRow(r).seller = auction[a].seller /\ BoughtRow(r).inc = auction[a].inc
      BY <1>0, <3>1 DEF BoughtRow, AuctionRow
    <3> QED BY <1>0, <1>1, <3>1, <3>2, <3>3
  <2>2. CASE PayReopen(r)
    <3>1. request[r].auction \in Auctions
      BY <2>2 DEF PayReopen, TypeOK, Request, Idle
    <3> QED BY <1>8, <2>2, <3>1 DEF PayReopen
  <2>3. CASE ~BuyNowCommit(r) /\ ~PayReopen(r)
    <3>1. UNCHANGED auction
      BY <1>12, <2>3
         DEF RequestStep, BuyNowRead, PayRead, PayCommit, BuyNowRejected,
             PayConflict, PayFails, PayGivesUp
    <3> QED BY <1>10, <3>1
  <2> QED BY <2>1, <2>2, <2>3
<1>13. CASE Crash \/ UNCHANGED vars
  BY <1>10, <1>13 DEF Crash, vars
<1>14. ASSUME NEW a \in Auctions, AuctionStep(a) PROVE SellersAreUsers'
  <2>1. CASE RetryFinalize(a)
    BY <1>10, <2>1 DEF RetryFinalize
  <2> QED
    BY <1>2, <1>3, <1>4, <1>5, <1>6, <1>7, <1>8, <1>14, <2>1
       DEF AuctionStep, CloseExpired, CloseForAdmin, CancelExpiredPendingOrder
<1> QED BY <1>11, <1>12, <1>13, <1>14 DEF Next

(* No bid leaves the race for an auction whose order awaits its payment.       *)
LEMMA LiveBidsStay ==
  ASSUME TypeOK, BidStep, NEW x \in Auctions, auction[x].status = "CLOSED",
         order'[x].status = "PENDING", NEW c \in LiveBids(x)
  PROVE  c \in LiveBids(x)' /\ bid'[c].user = bid[c].user /\ bid'[c].price = bid[c].price
<1>0. /\ bid \in [Bids -> BidRow] /\ c \in Bids
      /\ bid[c].status = "LIVE" /\ bid[c].auction = x
  BY DEF TypeOK, LiveBids, BidsOn
<1>1. CASE UNCHANGED <<bid, held>>
  BY <1>1 DEF LiveBids, BidsOn
<1>2. ASSUME NEW a \in Auctions, NEW u \in Users, NEW p \in Prices, NEW b \in Bids,
             Records(a, u, p, b)
      PROVE  bid'[c] = bid[c]
  BY <1>0, <1>2 DEF Records, RecordBid
<1>3. ASSUME NEW a \in Auctions, NEW S \in SUBSET LiveBids(a), TakesOut(a, S)
      PROVE  bid'[c].status = bid[c].status /\ bid'[c].auction = bid[c].auction
             /\ bid'[c].user = bid[c].user /\ bid'[c].price = bid[c].price
  <2>1. a # x
    BY <1>3 DEF TakesOut
  <2>2. S \in SUBSET Bids /\ c \notin S
    BY <1>0, <2>1 DEF LiveBids, BidsOn
  <2> QED BY <1>0, <1>3, <2>2, DisqualifyOnly DEF TakesOut
<1> QED BY <1>0, <1>1, <1>2, <1>3 DEF BidStep, LiveBids, BidsOn

(* A payment that was read goes on fitting its order: an auction has one order *)
(* in its life, and while it awaits the payment neither its buyer, its price   *)
(* nor the winning bid can change.                                             *)
LEMMA FitsStays ==
  ASSUME TypeOK, OrderMatchesAuction, SaleStep, BidStep, NEW q \in Request, Fits(q)
  PROVE  Fits(q)'
<1> DEFINE x == q.auction
<1>0. x \in Auctions
  BY DEF Request
<1>1. Moves(x)
  BY <1>0 DEF SaleStep, OneMoves, Moves
<1> SUFFICES ASSUME q.step = "PAY" PROVE Fits(q)'
  BY DEF Fits
<1>2. order[x].status # "ABSENT" \/ auction[x].status = "DELETED"
  BY DEF Fits
<1>3. order'[x].status # "ABSENT" \/ auction'[x].status = "DELETED"
  BY <1>1, <1>2
     DEF Moves, Keeps, Lists, Awards, Lapses, Withdraws, Settles, Removes
<1>4. ASSUME order'[x].status = "PENDING"
      PROVE  order'[x] = order[x] /\ auction[x].status = "CLOSED"
  <2>1. order'[x] = order[x]
    BY <1>1, <1>2, <1>4
       DEF Moves, Keeps, Lists, Awards, Lapses, Withdraws, Settles, Removes
  <2> QED BY <1>0, <1>4, <2>1 DEF OrderMatchesAuction
<1>5. ASSUME order'[x].status = "PENDING"
      PROVE  /\ q.user = order'[x].buyer /\ q.price = order'[x].price
             /\ q.byHold => \E b \in LiveBids(x)' :
                              bid'[b].user = q.user /\ bid'[b].price = q.price
  <2>1. /\ q.user = order[x].buyer /\ q.price = order[x].price
        /\ q.byHold => \E b \in LiveBids(x) :
                         bid[b].user = q.user /\ bid[b].price = q.price
    BY <1>4, <1>5 DEF Fits
  <2>2. \A b \in LiveBids(x) :
          b \in LiveBids(x)' /\ bid'[b].user = bid[b].user /\ bid'[b].price = bid[b].price
    BY <1>0, <1>4, <1>5, LiveBidsStay
  <2> QED BY <1>4, <1>5, <2>1, <2>2
<1> QED BY <1>3, <1>5 DEF Fits

(* What payOrder reads before its transaction fits.                            *)
LEMMA ReadFits ==
  ASSUME TypeOK, NEW r \in Requests, NEW u \in Users, NEW a \in Auctions, PayRead(r, u, a)
  PROVE  Fits(request[r])'
<1>1. PICK top \in FirstOf(LiveBids(a)) :
        request' = [request EXCEPT ![r] =
          [step |-> "PAY", user |-> u, auction |-> a, price |-> order[a].price,
           byHold |-> /\ top # None
                      /\ bid[top].user = u
                      /\ bid[top].price = order[a].price]]
  BY DEF PayRead
<1> DEFINE q == [step |-> "PAY", user |-> u, auction |-> a, price |-> order[a].price,
                 byHold |-> /\ top # None
                            /\ bid[top].user = u
                            /\ bid[top].price = order[a].price]
<1>2. request'[r] = q
  BY <1>1 DEF TypeOK
<1>3. order[a].status = "PENDING" /\ order[a].buyer = u /\ UNCHANGED <<auction, bid, order>>
  BY DEF PayRead
<1>4. /\ q.auction = a /\ q.user = u /\ q.price = order[a].price
      /\ q.byHold => \E b \in LiveBids(a) : bid[b].user = u /\ bid[b].price = order[a].price
  <2>1. top # None => top \in LiveBids(a)
    BY FirstIsMember
  <2> QED BY <2>1
<1> HIDE DEF q
<1>5. LiveBids(a)' = LiveBids(a)
  BY <1>3 DEF LiveBids, BidsOn
<1> QED BY <1>2, <1>3, <1>4, <1>5 DEF Fits

(* A slot holds a payment because it held it already or because it was read.   *)
LEMMA SlotsStep ==
  ASSUME TypeOK, [Next]_vars, NEW r \in Requests, request'[r].step = "PAY"
  PROVE  \/ request'[r] = request[r]
         \/ \E u \in Users, a \in Auctions : PayRead(r, u, a)
<1> USE DEF wallet, memory
<1>0. request \in [Requests -> Request \cup {Idle}] /\ Idle.step = "IDLE"
  BY DEF TypeOK, Idle
<1>1. ASSUME NEW a \in Auctions, AuctionStep(a) PROVE request' = request
  BY <1>1
     DEF AuctionStep, CreateAuction, PlaceBid, PlaceBidAsBot, PatchAuction, DeleteAuction,
         EndTimePasses, CloseExpired, CloseForAdmin, Close, RetryFinalize,
         CancelExpiredPendingOrder
<1>2. ASSUME NEW f \in finalizing, FinalizeStep(f) PROVE request' = request
  BY <1>2
     DEF FinalizeStep, FinalizeRelease, FinalizeFails, FinalizePersist, FinalizeClear,
         PayloadWriteFails
<1>3. ASSUME NEW s \in Requests, RequestStep(s)
      PROVE  \/ request'[r] = request[r]
             \/ \E u \in Users, a \in Auctions : PayRead(r, u, a)
  <2>1. CASE s = r
    <3>1. CASE \E u \in Users, a \in Auctions : PayRead(r, u, a)
      BY <3>1
    <3>2. ASSUME Finish(r) PROVE FALSE
      BY <1>0, <3>2 DEF Finish
    <3>3. ASSUME NEW u \in Users, NEW a \in Auctions, BuyNowRead(r, u, a) PROVE FALSE
      BY <1>0, <3>3 DEF BuyNowRead, Idle
    <3>4. ASSUME PayFails(r) PROVE FALSE
      <4>1. request[r] \in Request
        BY <1>0, <3>4 DEF PayFails
      <4> QED BY <1>0, <3>4, <4>1 DEF PayFails, Request
    <3> QED
      BY <1>3, <2>1, <3>1, <3>2, <3>3, <3>4
         DEF RequestStep, BuyNowCommit, BuyNowRejected, PayCommit, PayConflict,
             PayReopen, PayGivesUp
  <2>2. CASE s # r
    <3>1. \E q : request' = [request EXCEPT ![s] = q]
      <4>1. CASE \E u \in Users, a \in Auctions : PayRead(s, u, a)
        BY <4>1 DEF PayRead
      <4>2. CASE \E u \in Users, a \in Auctions : BuyNowRead(s, u, a)
        BY <4>2 DEF BuyNowRead
      <4>3. CASE PayFails(s)
        <5>1. request' = [request EXCEPT ![s] = [request[s] EXCEPT !.step = "REOPEN"]]
          BY <1>0, <4>3 DEF PayFails
        <5> QED BY <5>1
      <4>4. CASE Finish(s)
        BY <4>4 DEF Finish
      <4> QED
        BY <1>3, <4>1, <4>2, <4>3, <4>4
           DEF RequestStep, BuyNowCommit, BuyNowRejected, PayCommit, PayConflict,
               PayReopen, PayGivesUp
    <3> QED BY <1>0, <2>2, <3>1
  <2> QED BY <2>1, <2>2
<1>4. CASE Crash
  BY <1>0, <1>4 DEF Crash
<1>5. CASE UNCHANGED vars
  BY <1>5 DEF vars
<1> QED BY <1>1, <1>2, <1>3, <1>4, <1>5 DEF Next

(* Nobody pays for what is not theirs, at a price that is no longer asked, or  *)
(* through a hold that is gone: whatever was closed, cancelled, reopened, paid *)
(* or deleted since the payment was read, it fits its order or cannot commit.  *)
THEOREM PaymentsFitTheirOrders == Spec => []BooksInv
<1>1. Init => BooksInv
  BY DEF Init, NoBid, NoAuction, Idle, BooksInv, Placed, SellersAreUsers, Listed,
         PaymentsFit, Fits
<1>2. /\ TypeOK /\ TypeOK' /\ OrderMatchesAuction /\ OrderMatchesAuction' /\ BooksInv
      /\ [Next]_vars
      => BooksInv'
  <2> SUFFICES ASSUME TypeOK, TypeOK', OrderMatchesAuction, OrderMatchesAuction',
                      BooksInv, [Next]_vars
               PROVE  BooksInv'
    OBVIOUS
  <2>1. Placed' /\ SellersAreUsers'
    BY PlacedStays, SellersStay DEF BooksInv
  <2>2. SaleStep /\ BidStep
    BY NextMoves, StepOnBids
  <2>3. ASSUME NEW r \in Requests, request'[r].step = "PAY" PROVE Fits(request[r])'
    <3>1. CASE request'[r] = request[r]
      <4>1. request[r] \in Request /\ Fits(request[r])
        BY <2>3, <3>1 DEF TypeOK, Idle, BooksInv, PaymentsFit
      <4>2. \A q \in Request : Fits(q) => Fits(q)'
        BY <2>2, FitsStays
      <4> QED BY <3>1, <4>1, <4>2 DEF Fits
    <3>2. ASSUME NEW u \in Users, NEW a \in Auctions, PayRead(r, u, a)
          PROVE  Fits(request[r])'
      BY <3>2, ReadFits
    <3> QED BY <2>3, <3>1, <3>2, SlotsStep
  <2>4. PaymentsFit'
    BY <2>3 DEF PaymentsFit, Fits
  <2> QED BY <2>1, <2>4 DEF BooksInv
<1> QED BY <1>1, <1>2, TypeCorrect, OrdersMatch, PTL DEF Spec

(* The holds that are money: those that were neither released nor consumed.    *)
Holds == {b \in held \ released : ~Spent(b)}
MoneyTyped == balance \in [Users -> Int]
Unsettled(x) == ~(order[x].status = "PAID" /\ order[x].byHold)

LEMMA AmountsAreInt ==
  ASSUME TypeOK, NEW S \in SUBSET Bids
  PROVE  /\ IsFiniteSet(S) /\ OnHold(S) \in Int /\ OnHold({}) = 0
         /\ \A b \in S : Amounts[b] = bid[b].price /\ Amounts[b] \in Int
<1>1. IsFiniteSet(S)
  BY RowsAreFinite, FS_Subset
<1>2. \A b \in Bids : Amounts[b] = bid[b].price /\ Amounts[b] \in Int
  BY DEF Amounts, TypeOK, BidRow
<1>3. SumFunctionOnSet(Amounts, S) \in Int /\ SumFunctionOnSet(Amounts, {}) = 0
  BY <1>1, <1>2, SumTake
<1> QED BY <1>1, <1>2, <1>3 DEF OnHold

(* What a refund credits is what was on hold for the bids it releases.         *)
LEMMA RefundAdds ==
  ASSUME TypeOK, MoneyTyped, NEW S \in SUBSET Bids,
         \A b \in S \ released : bid[b].user \in Users
  PROVE  /\ Refund(S) \in [Users -> Int]
         /\ SumFunction(Refund(S)) = Owned + OnHold(S \ released)
<1> DEFINE R == S \ released
           Part(u) == {b \in S \ released : bid[b].user = u}
           o == [b \in R |-> bid[b].user]
           d == OwnerSums(Amounts, R, o, Users)
           f == Refund(S)
<1>1. R \in SUBSET Bids /\ \A u \in Users : Part(u) \in SUBSET Bids
  OBVIOUS
<1>2. IsFiniteSet(R) /\ IsFiniteSet(Users)
  BY <1>1, AmountsAreInt, RowsAreFinite
<1>3. \A b \in R : Amounts[b] \in Int /\ o[b] \in Users
  BY <1>1, AmountsAreInt
<1>4. f = [u \in Users |-> balance[u] + OnHold(Part(u))]
  BY DEF Refund
<1>5. \A u \in Users : d[u] = OnHold(Part(u))
  <2> SUFFICES ASSUME NEW u \in Users PROVE d[u] = OnHold(Part(u))
    OBVIOUS
  <2> DEFINE mine == {b \in R : o[b] = u}
  <2>1. d[u] = SumFunctionOnSet(Amounts, mine)
    BY DEF OwnerSums
  <2>2. mine = Part(u)
    OBVIOUS
  <2> HIDE DEF mine, Part, d
  <2> QED BY <2>1, <2>2 DEF OnHold
<1> HIDE DEF Part, f, o, d
<1>6. \A u \in Users : /\ balance[u] \in Int /\ d[u] \in Int
                       /\ f[u] = balance[u] + d[u]
  BY <1>1, <1>4, <1>5, AmountsAreInt DEF MoneyTyped
<1>7. f \in [Users -> Int] /\ DOMAIN f = Users /\ DOMAIN balance = Users
  BY <1>4, <1>6 DEF MoneyTyped
<1> HIDE DEF R
<1>8. SumFunctionOnSet(d, Users) = SumFunctionOnSet(Amounts, R)
  BY <1>2, <1>3, SumByOwner DEF d
<1>9. SumFunctionOnSet(f, Users) = SumFunctionOnSet(balance, Users) + SumFunctionOnSet(d, Users)
  BY <1>2, <1>6, SumPlus
<1> QED BY <1>7, <1>8, <1>9 DEF Owned, OnHold, SumFunction, f, R

(* What is charged to one account and credited to another.                     *)
Transfer(f, x, c, y, p) ==
  [u \in Users |-> f[u] - (IF u = x THEN c ELSE 0) + (IF u = y THEN p ELSE 0)]

LEMMA TransferAdds ==
  ASSUME NEW f \in [Users -> Int], NEW x \in Users, NEW y \in Users,
         NEW c \in Int, NEW p \in Int
  PROVE  /\ Transfer(f, x, c, y, p) \in [Users -> Int]
         /\ SumFunction(Transfer(f, x, c, y, p)) = SumFunction(f) - c + p
<1> DEFINE g == Transfer(f, x, c, y, p)
           h == [u \in Users |-> f[u] - (IF u = x THEN c ELSE 0)]
<1>1. /\ \A u \in Users : f[u] \in Int /\ h[u] \in Int /\ g[u] \in Int
      /\ h[x] = f[x] - c /\ \A u \in Users : u # x => h[u] = f[u]
      /\ g[y] = h[y] + p /\ \A u \in Users : u # y => g[u] = h[u]
  BY DEF Transfer
<1>2. DOMAIN f = Users /\ DOMAIN g = Users /\ g \in [Users -> Int]
  BY <1>1 DEF Transfer
<1> HIDE DEF g, h
<1>3. SumFunctionOnSet(h, Users) = SumFunctionOnSet(f, Users) + h[x] - f[x]
  <2>1. h[x] \in Int /\ IsFiniteSet(Users)
    BY <1>1, RowsAreFinite
  <2>2. \A u \in Users : f[u] \in Int
    BY <1>1
  <2>3. \A u \in Users : u # x => h[u] = f[u]
    BY <1>1
  <2> QED BY <2>1, <2>2, <2>3, SumChange
<1>4. SumFunctionOnSet(g, Users) = SumFunctionOnSet(h, Users) + g[y] - h[y]
  <2>1. g[y] \in Int /\ IsFiniteSet(Users)
    BY <1>1, RowsAreFinite
  <2>2. \A u \in Users : h[u] \in Int
    BY <1>1
  <2>3. \A u \in Users : u # y => g[u] = h[u]
    BY <1>1
  <2> QED BY <2>1, <2>2, <2>3, SumChange
<1>5. SumFunctionOnSet(f, Users) \in Int /\ SumFunctionOnSet(h, Users) \in Int
  BY <1>1, RowsAreFinite, SumTake
<1>6. SumFunctionOnSet(g, Users) = SumFunctionOnSet(f, Users) - c + p
  BY <1>1, <1>3, <1>4, <1>5
<1> QED BY <1>2, <1>6 DEF SumFunction, g

(* What is on hold once some holds are gone.                                   *)
LEMMA EscrowLess ==
  ASSUME TypeOK, TypeOK', NEW out \in SUBSET Holds, Holds' = Holds \ out,
         \A b \in Holds : bid'[b].price = bid[b].price
  PROVE  /\ Escrow \in Int /\ Escrow' \in Int /\ OnHold(out) \in Int
         /\ Escrow = Escrow' + OnHold(out)
<1> DEFINE rest == Holds \ out
           v == Amounts
           w == Amounts'
<1>1. /\ Holds \in SUBSET Bids /\ rest \in SUBSET Bids /\ out \in SUBSET Bids
      /\ rest \cap out = {} /\ rest \cup out = Holds
  BY DEF Holds, TypeOK
<1>2. /\ IsFiniteSet(rest) /\ IsFiniteSet(out)
      /\ \A b \in rest \cup out : v[b] \in Int
      /\ OnHold(Holds) \in Int /\ OnHold(out) \in Int
  BY <1>1, AmountsAreInt
<1>3. \A b \in rest : v[b] \in Int /\ w[b] = v[b]
  BY <1>1 DEF Amounts, TypeOK, BidRow
<1>4. Escrow = SumFunctionOnSet(v, Holds) /\ Escrow' = SumFunctionOnSet(w, rest)
  BY DEF Escrow, OnHold, Holds
<1>5. OnHold(out) = SumFunctionOnSet(v, out) /\ OnHold(rest) = SumFunctionOnSet(v, rest)
  BY DEF OnHold
<1>6. SumFunctionOnSet(v, rest) \in Int
  BY <1>1, <1>5, AmountsAreInt
<1> HIDE DEF rest, v, w
<1>7. SumFunctionOnSet(w, rest) = SumFunctionOnSet(v, rest)
  BY <1>2, <1>3, SumSame
<1>8. SumFunctionOnSet(v, rest \cup out) = SumFunctionOnSet(v, rest) + SumFunctionOnSet(v, out)
  BY <1>1, <1>2, SumUnion
<1>9. SumFunctionOnSet(v, Holds) = SumFunctionOnSet(v, rest) + SumFunctionOnSet(v, out)
  BY <1>1, <1>8
<1> QED BY <1>2, <1>4, <1>5, <1>6, <1>7, <1>9

(* A step that disqualifies bids no order was paid with and releases some,     *)
(* while no order is settled through a hold, leaves the other holds.           *)
LEMMA HoldsAfter ==
  ASSUME TypeOK, TypeOK', HoldsHaveBids, Placed, NEW S \in SUBSET Bids, NEW R,
         \A b \in Bids : /\ bid'[b].status = IF b \in S THEN "OUT" ELSE bid[b].status
                         /\ bid'[b].auction = bid[b].auction
                         /\ bid'[b].user = bid[b].user /\ bid'[b].price = bid[b].price,
         held' = held, released' = released \cup R,
         \A b \in S : Unsettled(bid[b].auction),
         \A x \in Auctions : \/ BidsOn(x) = {} \/ order'[x] = order[x]
                             \/ Unsettled(x) /\ Unsettled(x)'
  PROVE  Holds' = Holds \ R /\ \A b \in Holds : bid'[b].price = bid[b].price
<1>1. ASSUME NEW c \in held PROVE c \in Bids /\ (Spent(c)' <=> Spent(c))
  <2> DEFINE x == bid[c].auction
  <2>1. c \in Bids /\ x \in Auctions /\ c \in BidsOn(x)
    BY DEF TypeOK, HoldsHaveBids, Placed, BidsOn
  <2>2. CASE order'[x] = order[x]
    BY <2>1, <2>2 DEF Spent, Unsettled
  <2>3. CASE Unsettled(x) /\ Unsettled(x)'
    BY <2>1, <2>3 DEF Spent, Unsettled
  <2> QED BY <2>1, <2>2, <2>3
<1>2. Holds' = Holds \ R
  BY <1>1 DEF Holds
<1> QED BY <1>1, <1>2 DEF Holds

(* Live bids of an auction are told apart by their prices, so that the winning *)
(* bid of an order is one bid.                                                 *)
LiveBidsDiffer ==
  \A a \in Auctions : \A b, c \in LiveBids(a) : bid[b].price = bid[c].price => b = c

FundsInv ==
  EveryBidIsHeld =>
    /\ MoneyTyped /\ LiveBidsDiffer
    /\ Owned + Escrow = InitialBalance * Cardinality(Users)

MoneyInv ==
  /\ PriceInv /\ RefundableAreOut /\ BooksInv
  /\ MoneyTyped /\ LiveBidsDiffer

Conserves == MoneyTyped' /\ Owned' + Escrow' = Owned + Escrow

(* Holds that are released are credited to their bidders.                      *)
LEMMA PaidBackConserves ==
  ASSUME MoneyInv, TypeOK', NEW R \in SUBSET Bids, R \ released \subseteq Holds,
         Holds' = Holds \ R, \A b \in Holds : bid'[b].price = bid[b].price,
         balance' = Refund(R)
  PROVE  Conserves
<1> DEFINE out == R \ released
<1>0. TypeOK /\ MoneyTyped /\ out \in SUBSET Bids /\ out \in SUBSET Holds
  BY DEF MoneyInv, PriceInv
<1>1. Holds' = Holds \ out
  BY DEF Holds
<1>2. \A b \in out : bid[b].user \in Users
  BY DEF MoneyInv, PriceInv, HoldsHaveBids, BooksInv, Placed, Holds
<1>3. /\ Refund(R) \in [Users -> Int]
      /\ SumFunction(Refund(R)) = Owned + OnHold(out)
  BY <1>0, <1>2, RefundAdds
<1> HIDE DEF out
<1>4. /\ Escrow \in Int /\ Escrow' \in Int /\ OnHold(out) \in Int
      /\ Escrow = Escrow' + OnHold(out)
  BY <1>0, <1>1, EscrowLess
<1>5. Owned \in Int
  BY <1>0, RowsAreFinite, SumTake DEF Owned, SumFunction, MoneyTyped, TypeOK
<1>6. Owned' = Owned + OnHold(out)
  BY <1>3 DEF Owned
<1>7. MoneyTyped'
  BY <1>3 DEF MoneyTyped
<1> QED BY <1>4, <1>5, <1>6, <1>7 DEF Conserves

(* A step that leaves the accounts and the holds moves no money.               *)
LEMMA NothingMoves ==
  ASSUME MoneyInv, TypeOK', Holds' = Holds,
         \A b \in Holds : bid'[b].price = bid[b].price, balance' = balance
  PROVE  Conserves
<1> DEFINE out == {}
<1>1. TypeOK /\ out \in SUBSET Holds /\ out \in SUBSET Bids /\ Holds' = Holds \ out
  BY DEF MoneyInv, PriceInv
<1>2. OnHold(out) = 0
  BY <1>1, AmountsAreInt
<1> HIDE DEF out
<1>3. /\ Escrow \in Int /\ Escrow' \in Int /\ OnHold(out) \in Int
      /\ Escrow = Escrow' + OnHold(out)
  BY <1>1, EscrowLess
<1>4. Owned' = Owned /\ MoneyTyped'
  BY DEF Owned, MoneyTyped, MoneyInv
<1> QED BY <1>2, <1>3, <1>4 DEF Conserves

(* Most steps do not touch bids, orders or money at all.                       *)
LEMMA QuietConserves ==
  ASSUME MoneyInv, TypeOK', UNCHANGED <<bid, order, balance, held, released>>
  PROVE  Conserves
<1>1. Holds' = Holds
  BY DEF Holds, Spent
<1> QED BY <1>1, NothingMoves

(* A new bid puts its price on hold.                                           *)
LEMMA BidConserves ==
  ASSUME MoneyInv, TypeOK', NEW a \in Auctions, NEW u \in Users, NEW p \in Prices,
         NEW near \in BOOLEAN, NEW b \in Bids, order' = order, MayBid(a, u, p),
         RecordBid(a, u, p, b), HoldAndRaise(a, u, p, near, b)
  PROVE  Conserves
<1>0. /\ TypeOK /\ p \in Nat /\ balance \in [Users -> Int]
      /\ bid \in [Bids -> BidRow] /\ held \subseteq Bids
  BY PricesAreNat DEF MoneyInv, PriceInv, TypeOK, MoneyTyped
<1>1. /\ bid[b].status = "ABSENT" /\ bid'[b].auction = a /\ bid'[b].price = p
      /\ \A c \in Bids \ {b} : bid'[c] = bid[c]
  BY <1>0 DEF RecordBid
<1>2. /\ balance' = [balance EXCEPT ![u] = @ - p]
      /\ held' = held \cup {b} /\ released' = released
  BY DEF HoldAndRaise
<1>3. b \notin held /\ b \notin released
  BY <1>1 DEF MoneyInv, PriceInv, HoldsHaveBids, RefundableAreOut
<1>4. order[a].status # "PAID"
  BY DEF MoneyInv, PriceInv, OrderMatchesAuction, MayBid
<1>5. \A c \in held : c # b /\ (Spent(c)' <=> Spent(c))
  BY <1>0, <1>1, <1>3 DEF Spent
<1>6. ~Spent(b)'
  BY <1>1, <1>4 DEF Spent
<1>7. Holds' = Holds \cup {b} /\ b \notin Holds /\ Holds \in SUBSET Bids
  BY <1>0, <1>2, <1>3, <1>5, <1>6 DEF Holds
<1> DEFINE v == Amounts
           w == Amounts'
           H == Holds
<1>8. \A c \in H : v[c] \in Int /\ w[c] = v[c]
  BY <1>0, <1>1, <1>7 DEF Amounts, BidRow
<1>9. w[b] = p /\ \A c \in H \cup {b} : w[c] \in Int
  <2>1. w[b] = p
    BY <1>0, <1>1 DEF Amounts
  <2> HIDE DEF v, w, H
  <2> QED BY <1>0, <1>8, <2>1
<1>10. IsFiniteSet(H) /\ b \notin H
  BY <1>0, <1>7, AmountsAreInt
<1>11. Escrow = SumFunctionOnSet(v, H) /\ Escrow' = SumFunctionOnSet(w, H \cup {b})
  BY <1>7 DEF Escrow, OnHold, Holds
<1> HIDE DEF v, w, H
<1>12. SumFunctionOnSet(w, H \cup {b}) = SumFunctionOnSet(w, H) + w[b]
  BY <1>9, <1>10, SumAdd
<1>13. SumFunctionOnSet(w, H) = SumFunctionOnSet(v, H) /\ SumFunctionOnSet(v, H) \in Int
  BY <1>8, <1>10, SumSame, SumTake
<1>14. Escrow \in Int /\ Escrow' = Escrow + p
  BY <1>9, <1>11, <1>12, <1>13
<1>15. MoneyTyped' /\ Owned \in Int /\ Owned' = Owned - p
  <2> DEFINE f == balance
             g == [balance EXCEPT ![u] = @ - p]
  <2>1. /\ g[u] = f[u] - p /\ f[u] \in Int /\ g[u] \in Int
        /\ DOMAIN f = Users /\ DOMAIN g = Users /\ g \in [Users -> Int]
    BY <1>0
  <2>2. \A x \in Users : f[x] \in Int
    BY <1>0
  <2>3. \A x \in Users : x # u => g[x] = f[x]
    BY <1>0
  <2>4. balance' = g /\ balance = f
    BY <1>2
  <2> HIDE DEF f, g
  <2>5. SumFunctionOnSet(g, Users) = SumFunctionOnSet(f, Users) + g[u] - f[u]
    BY <2>1, <2>2, <2>3, RowsAreFinite, SumChange
  <2>6. SumFunctionOnSet(f, Users) \in Int
    BY <2>2, RowsAreFinite, SumTake
  <2>7. SumFunctionOnSet(g, Users) = SumFunctionOnSet(f, Users) - p
    BY <1>0, <2>1, <2>5, <2>6
  <2> QED BY <2>1, <2>4, <2>6, <2>7 DEF Owned, SumFunction, MoneyTyped
<1> QED BY <1>0, <1>14, <1>15 DEF Conserves

(* A close disqualifies bids no order was paid with.                           *)
LEMMA CloseConserves ==
  ASSUME MoneyInv, TypeOK', NEW a \in Auctions, Close(a)
  PROVE  Conserves
<1>0. /\ TypeOK /\ HoldsHaveBids /\ Placed
      /\ order \in [Auctions -> OrderRow] /\ order' \in [Auctions -> OrderRow]
  BY DEF MoneyInv, PriceInv, BooksInv, TypeOK
<1>1. PICK out \in SUBSET LiveBids(a) : bid' = Disqualify(out)
  BY DEF Close
<1>2. auction[a].status = "OPEN" /\ balance' = balance /\ held' = held
      /\ released' = released \cup {}
  BY DEF Close, wallet
<1>3. order' = order \/ (/\ \A x \in Auctions \ {a} : order'[x] = order[x]
                         /\ order'[a].status = "PENDING")
  <2>1. CASE order' = order
    BY <2>1
  <2>2. CASE order' # order
    <3>1. PICK w, p : order' = [order EXCEPT ![a] =
            [NoOrder EXCEPT !.status = "PENDING", !.buyer = w, !.price = p]]
      BY <2>2 DEF Close
    <3> DEFINE row == [NoOrder EXCEPT !.status = "PENDING", !.buyer = w, !.price = p]
    <3>2. row.status = "PENDING"
      BY DEF NoOrder
    <3>3. order' = [order EXCEPT ![a] = row]
      BY <3>1
    <3> HIDE DEF row
    <3> QED BY <1>0, <3>2, <3>3
  <2> QED BY <2>1, <2>2
<1>4. Unsettled(a)
  BY <1>2 DEF MoneyInv, PriceInv, OrderMatchesAuction, Unsettled
<1>5. \A x \in Auctions : \/ BidsOn(x) = {} \/ order'[x] = order[x]
                          \/ Unsettled(x) /\ Unsettled(x)'
  BY <1>3, <1>4 DEF Unsettled
<1>6. out \in SUBSET Bids /\ \A b \in out : Unsettled(bid[b].auction)
  BY <1>4 DEF LiveBids, BidsOn
<1>7. \A b \in Bids : /\ bid'[b].status = IF b \in out THEN "OUT" ELSE bid[b].status
                      /\ bid'[b].auction = bid[b].auction
                      /\ bid'[b].user = bid[b].user /\ bid'[b].price = bid[b].price
  BY <1>0, <1>1, <1>6, DisqualifyOnly
<1>8. Holds' = Holds \ {} /\ \A b \in Holds : bid'[b].price = bid[b].price
  BY <1>0, <1>2, <1>5, <1>6, <1>7, HoldsAfter
<1> QED BY <1>2, <1>8, NothingMoves

(* A step that disqualifies bids of one unsettled auction, pays all of them    *)
(* back and leaves the order unsettled.                                        *)
LEMMA WithdrawnConserves ==
  ASSUME MoneyInv, TypeOK', NEW a \in Auctions, NEW out \in SUBSET LiveBids(a),
         Unsettled(a), Unsettled(a)', \A x \in Auctions \ {a} : order'[x] = order[x],
         bid' = Disqualify(out), held' = held, released' = released \cup out
  PROVE  /\ out \in SUBSET Bids /\ out \ released \subseteq Holds
         /\ Holds' = Holds \ out /\ \A b \in Holds : bid'[b].price = bid[b].price
<1>0. TypeOK /\ HoldsHaveBids /\ Placed /\ EveryBidIsHeld
  BY DEF MoneyInv, PriceInv, BooksInv
<1>1. /\ out \in SUBSET Bids
      /\ \A b \in out : bid[b].status = "LIVE" /\ Unsettled(bid[b].auction)
  BY DEF LiveBids, BidsOn
<1>2. \A b \in Bids : /\ bid'[b].status = IF b \in out THEN "OUT" ELSE bid[b].status
                      /\ bid'[b].auction = bid[b].auction
                      /\ bid'[b].user = bid[b].user /\ bid'[b].price = bid[b].price
  BY <1>0, <1>1, DisqualifyOnly
<1>3. \A x \in Auctions : \/ BidsOn(x) = {} \/ order'[x] = order[x]
                          \/ Unsettled(x) /\ Unsettled(x)'
  OBVIOUS
<1>4. Holds' = Holds \ out /\ \A b \in Holds : bid'[b].price = bid[b].price
  BY <1>0, <1>1, <1>2, <1>3, HoldsAfter
<1>5. out \ released \subseteq Holds
  BY <1>0, <1>1 DEF Holds, Spent, Unsettled, EveryBidIsHeld
<1> QED BY <1>1, <1>4, <1>5

(* A reopening pays the withdrawn winner back.                                 *)
LEMMA ReopenConserves ==
  ASSUME MoneyInv, TypeOK', NEW a \in Auctions, Reopen(a)
  PROVE  Conserves
<1>1. PICK out \in SUBSET LiveBids(a) :
        bid' = Disqualify(out) /\ balance' = Refund(out) /\ released' = released \cup out
  <2>1. PICK top \in FirstOf(LiveBids(a)) :
          LET out == IF /\ top # None
                        /\ bid[top].user = order[a].buyer
                        /\ bid[top].price = order[a].price
                     THEN {top} ELSE {}
          IN  /\ bid' = Disqualify(out) /\ balance' = Refund(out)
              /\ released' = released \cup out
    BY DEF Reopen
  <2>2. top # None => top \in LiveBids(a)
    BY FirstIsMember
  <2> QED BY <2>1, <2>2
<1>2. /\ order[a].status = "PENDING" /\ held' = held
      /\ order'[a].status = "CANCELLED"
      /\ \A x \in Auctions \ {a} : order'[x] = order[x]
  <2>1. order \in [Auctions -> OrderRow]
    BY DEF MoneyInv, PriceInv, TypeOK
  <2> QED BY <2>1 DEF Reopen, MayReopen, OrderRow
<1>3. Unsettled(a) /\ Unsettled(a)'
  BY <1>2 DEF Unsettled
<1>4. /\ out \in SUBSET Bids /\ out \ released \subseteq Holds
      /\ Holds' = Holds \ out /\ \A b \in Holds : bid'[b].price = bid[b].price
  BY <1>1, <1>2, <1>3, WithdrawnConserves
<1> QED BY <1>1, <1>4, PaidBackConserves

(* A finalize pays the losers back.                                            *)
LEMMA FinalizeConserves ==
  ASSUME MoneyInv, TypeOK', NEW f \in finalizing, FinalizeRelease(f)
  PROVE  Conserves
<1> DEFINE R == f.losers
<1>0. TypeOK /\ EveryBidIsHeld /\ R \in SUBSET Bids
  BY DEF MoneyInv, PriceInv, TypeOK, Finalize
<1>1. \A b \in R : bid[b].status = "OUT"
  BY DEF MoneyInv, RefundableAreOut
<1>2. /\ UNCHANGED <<bid, order, held>> /\ balance' = Refund(R)
      /\ released' = released \cup R
  BY DEF FinalizeRelease
<1> HIDE DEF R
<1>3. R \ released \subseteq Holds
  BY <1>0, <1>1 DEF Holds, Spent, EveryBidIsHeld
<1>4. Holds' = Holds \ R
  BY <1>2 DEF Holds, Spent
<1> QED BY <1>0, <1>2, <1>3, <1>4, PaidBackConserves

(* A payment through the hold turns one hold into the seller's money: the      *)
(* winning bid's, which is there and is the only one of that price.            *)
LEMMA PayByHoldConserves ==
  ASSUME MoneyInv, TypeOK', NEW r \in Requests, NEW q, q = request[r],
         PayCommit(r), q.byHold
  PROVE  Conserves
<1> DEFINE a == q.auction
           seller == auction[a].seller
           none == {}
           f == Refund(none)
<1>0. /\ TypeOK /\ HoldsHaveBids /\ Placed /\ EveryBidIsHeld /\ MoneyTyped
      /\ LiveBidsDiffer /\ OrderMatchesAuction
      /\ bid \in [Bids -> BidRow] /\ order \in [Auctions -> OrderRow]
  BY DEF MoneyInv, PriceInv, BooksInv, TypeOK
<1>1. q \in Request /\ a \in Auctions /\ q.user \in Users /\ q.price \in Nat
  BY <1>0 DEF PayCommit, TypeOK, Request, Idle
<1>2. /\ order[a].status = "PENDING" /\ q.step = "PAY"
      /\ order' = [order EXCEPT ![a].status = "PAID", ![a].byHold = q.byHold]
      /\ bid' = Disqualify(none) /\ released' = released /\ held' = held
      /\ balance' = Transfer(f, q.user, 0, seller, q.price)
  BY DEF PayCommit, Transfer
<1>3. /\ order'[a].status = "PAID" /\ order'[a].byHold
      /\ order'[a].buyer = order[a].buyer /\ order'[a].price = order[a].price
      /\ \A x \in Auctions \ {a} : order'[x] = order[x]
  BY <1>0, <1>1, <1>2 DEF OrderRow
<1>4. bid' = bid
  BY <1>0, <1>2 DEF Disqualify
<1>5. seller \in Users
  BY <1>0, <1>1, <1>2 DEF OrderMatchesAuction, MoneyInv, BooksInv, SellersAreUsers, Listed
<1>6. /\ order[a].buyer = q.user /\ order[a].price = q.price
      /\ \E b \in LiveBids(a) : bid[b].user = q.user /\ bid[b].price = q.price
  BY <1>2 DEF MoneyInv, BooksInv, PaymentsFit, Fits
<1> HIDE DEF a, seller, f, none
<1>7. PICK b \in LiveBids(a) : bid[b].user = q.user /\ bid[b].price = q.price
  BY <1>6
<1>8. /\ b \in Bids /\ bid[b].status = "LIVE" /\ bid[b].auction = a
      /\ \A c \in LiveBids(a) : bid[c].price = q.price => c = b
  BY <1>0, <1>1, <1>7 DEF LiveBids, BidsOn, LiveBidsDiffer
<1>9. b \in Holds
  BY <1>0, <1>2, <1>8 DEF Holds, Spent, EveryBidIsHeld, MoneyInv, RefundableAreOut
<1>10. Spent(b)'
  BY <1>3, <1>4, <1>6, <1>7, <1>8 DEF Spent
<1>11. ASSUME NEW c \in held, c # b PROVE Spent(c)' <=> Spent(c)
  <2>1. c \in Bids /\ bid[c].auction \in Auctions
    BY <1>0 DEF TypeOK, HoldsHaveBids, Placed
  <2>2. CASE bid[c].auction # a
    BY <1>3, <1>4, <2>1, <2>2 DEF Spent
  <2>3. CASE bid[c].auction = a
    <3>1. ~Spent(c)
      BY <1>2, <2>3 DEF Spent
    <3>2. bid[c].status = "LIVE" => c \in LiveBids(a)
      BY <2>1, <2>3 DEF LiveBids, BidsOn
    <3>3. ~Spent(c)'
      BY <1>3, <1>4, <1>6, <1>8, <1>11, <2>3, <3>2 DEF Spent
    <3> QED BY <3>1, <3>3
  <2> QED BY <2>2, <2>3
<1> DEFINE out == {b}
<1>12. Holds' = Holds \ out
  BY <1>2, <1>10, <1>11 DEF Holds
<1>13. out \in SUBSET Holds /\ out \in SUBSET Bids
  BY <1>8, <1>9
<1>14. OnHold(out) = q.price
  <2>1. SumFunctionOnSet(Amounts, out) = Amounts[b] + SumFunctionOnSet(Amounts, out \ {b})
    <3>1. IsFiniteSet(out) /\ \A x \in out : Amounts[x] \in Int
      BY <1>0, <1>13, AmountsAreInt
    <3>2. b \in out
      OBVIOUS
    <3> HIDE DEF out
    <3> QED BY <3>1, <3>2, SumTake
  <2>2. out \ {b} = {}
    OBVIOUS
  <2>3. Amounts[b] = q.price /\ OnHold({}) = 0
    BY <1>0, <1>7, <1>8, <1>13, AmountsAreInt
  <2> HIDE DEF out
  <2>4. OnHold(out) = Amounts[b] + OnHold({})
    BY <2>1, <2>2 DEF OnHold
  <2> QED BY <1>1, <2>3, <2>4
<1> HIDE DEF out
<1>15. \A c \in Holds : bid'[c].price = bid[c].price
  BY <1>4
<1>16. Escrow \in Int /\ Escrow' \in Int /\ Escrow = Escrow' + q.price
  BY <1>0, <1>12, <1>13, <1>14, <1>15, EscrowLess
<1>17. f \in [Users -> Int] /\ SumFunction(f) = Owned /\ Owned \in Int
  <2> DEFINE m == none \ released
  <2>1. none \in SUBSET Bids /\ m = {}
    BY DEF none
  <2>2. f \in [Users -> Int] /\ SumFunction(f) = Owned + OnHold(m)
    BY <1>0, <2>1, RefundAdds DEF f
  <2>3. OnHold({}) = 0
    BY <1>0, <2>1, AmountsAreInt
  <2>4. Owned \in Int
    BY <1>0, RowsAreFinite, SumTake DEF Owned, SumFunction, MoneyTyped, TypeOK
  <2> HIDE DEF m
  <2> QED BY <2>1, <2>2, <2>3, <2>4
<1>18. balance' \in [Users -> Int] /\ SumFunction(balance') = SumFunction(f) - 0 + q.price
  <2> DEFINE x == q.user
             p == q.price
  <2>1. f \in [Users -> Int] /\ x \in Users /\ seller \in Users /\ 0 \in Int /\ p \in Int
    BY <1>1, <1>5, <1>17
  <2>2. balance' = Transfer(f, x, 0, seller, p)
    BY <1>2
  <2> HIDE DEF x, p
  <2>3. /\ Transfer(f, x, 0, seller, p) \in [Users -> Int]
        /\ SumFunction(Transfer(f, x, 0, seller, p)) = SumFunction(f) - 0 + p
    BY <2>1, TransferAdds
  <2> QED BY <2>2, <2>3 DEF p
<1> QED BY <1>1, <1>16, <1>17, <1>18 DEF Conserves, Owned, MoneyTyped

(* A direct payment pays every bidder back, charges the buyer and credits the  *)
(* seller as much.                                                             *)
LEMMA PayDirectlyConserves ==
  ASSUME MoneyInv, TypeOK', NEW r \in Requests, NEW q, q = request[r],
         PayCommit(r), ~q.byHold
  PROVE  Conserves
<1> DEFINE a == q.auction
           seller == auction[a].seller
           out == LiveBids(a)
           f == Refund(out)
<1>0. /\ TypeOK /\ MoneyTyped /\ OrderMatchesAuction /\ HoldsHaveBids /\ Placed
      /\ order \in [Auctions -> OrderRow]
  BY DEF MoneyInv, PriceInv, BooksInv, TypeOK
<1>1. q \in Request /\ a \in Auctions /\ q.user \in Users /\ q.price \in Nat
  BY <1>0 DEF PayCommit, TypeOK, Request, Idle
<1>2. /\ order[a].status = "PENDING"
      /\ order' = [order EXCEPT ![a].status = "PAID", ![a].byHold = q.byHold]
      /\ bid' = Disqualify(out) /\ released' = released \cup out /\ held' = held
      /\ balance' = Transfer(f, q.user, q.price, seller, q.price)
  BY DEF PayCommit, Transfer
<1>3. order'[a].byHold = q.byHold /\ \A x \in Auctions \ {a} : order'[x] = order[x]
  BY <1>0, <1>1, <1>2 DEF OrderRow
<1>4. Unsettled(a) /\ Unsettled(a)'
  BY <1>2, <1>3 DEF Unsettled
<1>5. seller \in Users
  BY <1>0, <1>1, <1>2 DEF OrderMatchesAuction, MoneyInv, BooksInv, SellersAreUsers, Listed
<1>6. out \in SUBSET LiveBids(a)
  OBVIOUS
<1> HIDE DEF a, seller, f, out
<1>7. /\ out \in SUBSET Bids /\ out \ released \subseteq Holds
      /\ Holds' = Holds \ out /\ \A b \in Holds : bid'[b].price = bid[b].price
  BY <1>1, <1>2, <1>3, <1>4, <1>6, WithdrawnConserves
<1> DEFINE gone == out \ released
<1>8. gone \in SUBSET Holds /\ gone \in SUBSET Bids /\ Holds' = Holds \ gone
  BY <1>7 DEF Holds
<1>9. \A b \in gone : bid[b].user \in Users
  BY <1>0, <1>8 DEF HoldsHaveBids, Placed, Holds
<1>10. f \in [Users -> Int] /\ SumFunction(f) = Owned + OnHold(gone)
  BY <1>0, <1>7, <1>9, RefundAdds DEF f
<1> HIDE DEF gone
<1>11. /\ Escrow \in Int /\ Escrow' \in Int /\ OnHold(gone) \in Int
       /\ Escrow = Escrow' + OnHold(gone)
  BY <1>0, <1>7, <1>8, EscrowLess
<1>12. Owned \in Int
  BY <1>0, RowsAreFinite, SumTake DEF Owned, SumFunction, MoneyTyped, TypeOK
<1>13. /\ balance' \in [Users -> Int]
       /\ SumFunction(balance') = SumFunction(f) - q.price + q.price
  <2> DEFINE x == q.user
             p == q.price
  <2>1. f \in [Users -> Int] /\ x \in Users /\ seller \in Users /\ p \in Int
    BY <1>1, <1>5, <1>10
  <2>2. balance' = Transfer(f, x, p, seller, p)
    BY <1>2
  <2> HIDE DEF x, p
  <2>3. /\ Transfer(f, x, p, seller, p) \in [Users -> Int]
        /\ SumFunction(Transfer(f, x, p, seller, p)) = SumFunction(f) - p + p
    BY <2>1, TransferAdds
  <2> QED BY <2>2, <2>3 DEF p
<1> QED BY <1>1, <1>10, <1>11, <1>12, <1>13 DEF Conserves, Owned, MoneyTyped

(* Live bids are told apart by their prices after a step that leaves every bid *)
(* held: a recorded bid is above the current price, which no live bid tops.    *)
LEMMA LiveBidsDifferStays ==
  ASSUME PriceInv, LiveBidsDiffer, SellersAreUsers, TypeOK', BidStep, EveryBidIsHeld'
  PROVE  LiveBidsDiffer'
<1>0. /\ TypeOK /\ EveryBidIsHeld /\ HoldsHaveBids /\ PricesTrack
      /\ bid \in [Bids -> BidRow] /\ auction \in [Auctions -> AuctionRow]
  BY DEF PriceInv, TypeOK
<1>1. CASE UNCHANGED <<bid, held>>
  BY <1>1 DEF LiveBidsDiffer, LiveBids, BidsOn
<1>2. ASSUME NEW a \in Auctions, NEW u \in Users, NEW p \in Prices, NEW b \in Bids,
             Records(a, u, p, b)
      PROVE  LiveBidsDiffer'
  <2>1. /\ bid[b].status = "ABSENT"
        /\ bid'[b].auction = a /\ bid'[b].price = p /\ bid'[b].status = "LIVE"
        /\ \A c \in Bids \ {b} : bid'[c] = bid[c]
    BY <1>0, <1>2 DEF Records, RecordBid
  <2>2. auction[a].status = "OPEN" /\ p >= auction[a].price + auction[a].inc
    BY <1>2 DEF Records, MayBid
  <2>3. /\ auction[a].price \in Nat /\ auction[a].inc \in Nat /\ auction[a].inc # 0
        /\ p \in Nat
    BY <1>0, <2>2, PricesAreNat DEF SellersAreUsers, Listed, AuctionRow
  <2>4. \A c \in LiveBids(a) : auction[a].price >= bid[c].price /\ bid[c].price \in Nat
    BY <1>0, <2>2 DEF PricesTrack, PriceTracks, LiveBids, BidsOn, BidRow
  <2>5. \A c \in LiveBids(a) : bid[c].price # p
    BY <2>2, <2>3, <2>4
  <2>6. \A x \in Auctions : /\ LiveBids(x)' = IF x = a THEN LiveBids(x) \cup {b} ELSE LiveBids(x)
                            /\ b \notin LiveBids(x)
                            /\ \A c \in LiveBids(x) : c \in Bids \ {b}
    BY <2>1 DEF LiveBids, BidsOn
  <2>7. ASSUME NEW x \in Auctions, NEW c \in LiveBids(x)', NEW d \in LiveBids(x)',
               bid'[c].price = bid'[d].price
        PROVE  c = d
    <3>1. CASE x # a
      BY <2>1, <2>6, <2>7, <3>1 DEF LiveBidsDiffer
    <3>2. CASE x = a
      <4>1. \A e \in LiveBids(a) : bid'[e].price # p /\ bid'[e].price = bid[e].price
        BY <2>1, <2>5, <2>6
      <4>2. c \in LiveBids(a) /\ d \in LiveBids(a) => c = d
        BY <2>7, <4>1 DEF LiveBidsDiffer
      <4> QED BY <2>1, <2>6, <2>7, <3>2, <4>1, <4>2
    <3> QED BY <3>1, <3>2
  <2> QED BY <2>7 DEF LiveBidsDiffer
<1>3. ASSUME NEW a \in Auctions, NEW S \in SUBSET LiveBids(a), TakesOut(a, S)
      PROVE  LiveBidsDiffer'
  <2>1. S \in SUBSET Bids /\ bid' = Disqualify(S)
    BY <1>3 DEF LiveBids, BidsOn, TakesOut
  <2>2. \A x : LiveBids(x)' = LiveBids(x) \ S
    BY <1>0, <2>1, DisqualifyLive
  <2>3. \A b \in Bids : bid'[b].price = bid[b].price
    BY <1>0, <2>1, DisqualifyLive
  <2>4. \A x : \A b \in LiveBids(x) : b \in Bids
    BY DEF LiveBids, BidsOn
  <2> QED BY <2>2, <2>3, <2>4 DEF LiveBidsDiffer
<1> QED BY <1>1, <1>2, <1>3 DEF BidStep

(* An order that is made or dropped where no hold paid moves no money.         *)
LEMMA OrdersConserve ==
  ASSUME MoneyInv, TypeOK', UNCHANGED <<bid, balance, held, released>>,
         \A x \in Auctions : \/ BidsOn(x) = {} \/ order'[x] = order[x]
                             \/ Unsettled(x) /\ Unsettled(x)'
  PROVE  Conserves
<1> DEFINE none == {}
<1>1. TypeOK /\ HoldsHaveBids /\ Placed
  BY DEF MoneyInv, PriceInv, BooksInv
<1>2. /\ none \in SUBSET Bids /\ \A b \in none : Unsettled(bid[b].auction)
      /\ held' = held /\ released' = released \cup none
      /\ \A b \in Bids : /\ bid'[b].status = IF b \in none THEN "OUT" ELSE bid[b].status
                         /\ bid'[b].auction = bid[b].auction
                         /\ bid'[b].user = bid[b].user /\ bid'[b].price = bid[b].price
  OBVIOUS
<1>3. Holds \ none = Holds
  OBVIOUS
<1> HIDE DEF none
<1>4. Holds' = Holds \ none /\ \A b \in Holds : bid'[b].price = bid[b].price
  BY <1>1, <1>2, HoldsAfter
<1>5. Holds' = Holds /\ \A b \in Holds : bid'[b].price = bid[b].price
  BY <1>3, <1>4
<1> QED BY <1>5, NothingMoves

(* Every step moves money from one place to another, and no more than there is *)
(* in the first.                                                               *)
LEMMA NextConserves ==
  ASSUME MoneyInv, TypeOK', [Next]_vars, EveryBidIsHeld'
  PROVE  Conserves
<1> USE DEF wallet, memory
<1>0. /\ TypeOK /\ order \in [Auctions -> OrderRow] /\ HoldsHaveBids
      /\ request \in [Requests -> Request \cup {Idle}]
  BY DEF MoneyInv, PriceInv, TypeOK
<1>1. CASE UNCHANGED <<bid, order, balance, held, released>>
  BY <1>1, QuietConserves
<1>2. ASSUME NEW a \in Auctions, NEW u \in Users, NEW p \in Prices, NEW near \in BOOLEAN,
             PlaceBid(a, u, p, near) \/ PlaceBidAsBot(a, u, p, near)
      PROVE  Conserves
  <2>1. PICK b \in Bids : /\ RecordBid(a, u, p, b)
                          /\ HoldAndRaise(a, u, p, near, b) \/ UNCHANGED held
    BY <1>2 DEF PlaceBid, PlaceBidAsBot
  <2>2. HoldAndRaise(a, u, p, near, b)
    <3>1. bid[b].status = "ABSENT" /\ bid'[b].status = "LIVE"
      BY <1>0, <2>1 DEF RecordBid, TypeOK
    <3>2. b \in held' /\ b \notin held
      BY <1>0, <3>1 DEF EveryBidIsHeld, HoldsHaveBids
    <3> QED BY <2>1, <3>2
  <2>3. MayBid(a, u, p) /\ order' = order
    BY <1>2 DEF PlaceBid, PlaceBidAsBot
  <2> QED BY <2>1, <2>2, <2>3, BidConserves
<1>3. ASSUME NEW a \in Auctions, DeleteAuction(a)
      PROVE  Conserves
  <2>1. /\ BidsOn(a) = {} /\ \A x \in Auctions \ {a} : order'[x] = order[x]
        /\ UNCHANGED <<bid, balance, held, released>>
    BY <1>0, <1>3 DEF DeleteAuction
  <2> QED BY <2>1, OrdersConserve
<1>4. ASSUME NEW r \in Requests, BuyNowCommit(r)
      PROVE  Conserves
  <2> DEFINE a == request[r].auction
             row == [NoOrder EXCEPT !.status = "PENDING", !.buyer = request[r].user,
                                    !.price = request[r].price]
  <2>1. row.status = "PENDING"
    BY DEF NoOrder
  <2>2. /\ order[a].status = "ABSENT" /\ order' = [order EXCEPT ![a] = row]
        /\ UNCHANGED <<bid, balance, held, released>>
    BY <1>4 DEF BuyNowCommit, BuyNowPossible
  <2> HIDE DEF a, row
  <2>3. \A x \in Auctions : order'[x] = order[x] \/ (Unsettled(x) /\ Unsettled(x)')
    <3> SUFFICES ASSUME NEW x \in Auctions, order'[x] # order[x]
                 PROVE  Unsettled(x) /\ Unsettled(x)'
      OBVIOUS
    <3>1. x = a /\ order'[x].status = "PENDING"
      BY <1>0, <2>1, <2>2
    <3> QED BY <2>2, <3>1 DEF Unsettled
  <2> QED BY <2>2, <2>3, OrdersConserve
<1>5. ASSUME NEW r \in Requests, PayCommit(r)
      PROVE  Conserves
  <2> DEFINE q == request[r]
  <2>1. q = request[r]
    OBVIOUS
  <2> HIDE DEF q
  <2> QED BY <1>5, <2>1, PayByHoldConserves, PayDirectlyConserves
<1>6. ASSUME NEW r \in Requests, PayReopen(r)
      PROVE  Conserves
  <2>1. request[r].auction \in Auctions
    BY <1>0, <1>6 DEF PayReopen, Request, Idle
  <2> QED BY <1>6, <2>1, ReopenConserves DEF PayReopen
<1>7. ASSUME NEW r \in Requests, RequestStep(r)
      PROVE  Conserves
  <2>1. \/ UNCHANGED <<bid, order, balance, held, released>>
        \/ BuyNowCommit(r) \/ PayCommit(r) \/ PayReopen(r)
    BY <1>7
       DEF RequestStep, BuyNowRead, PayRead, BuyNowRejected, PayConflict, PayFails,
           PayGivesUp
  <2> QED BY <1>1, <1>4, <1>5, <1>6, <2>1
<1>8. ASSUME NEW f \in finalizing, FinalizeStep(f)
      PROVE  Conserves
  <2>1. UNCHANGED <<bid, order, balance, held, released>> \/ FinalizeRelease(f)
    BY <1>8
       DEF FinalizeStep, FinalizeFails, FinalizePersist, FinalizeClear, PayloadWriteFails
  <2> QED BY <1>1, <1>8, <2>1, FinalizeConserves
<1>9. ASSUME NEW a \in Auctions, AuctionStep(a)
      PROVE  Conserves
  <2>1. ASSUME NEW s \in Users, NEW p \in Prices, NEW n \in Prices \cup {None},
               NEW i \in Increments, CreateAuction(a, s, p, n, i)
        PROVE  UNCHANGED <<bid, order, balance, held, released>>
    BY <2>1 DEF CreateAuction
  <2>2. ASSUME NEW p, NEW n, NEW i, NEW m, PatchAuction(a, p, n, i, m)
        PROVE  UNCHANGED <<bid, order, balance, held, released>>
    BY <2>2 DEF PatchAuction
  <2>3. ASSUME EndTimePasses(a) \/ RetryFinalize(a)
        PROVE  UNCHANGED <<bid, order, balance, held, released>>
    BY <2>3 DEF EndTimePasses, RetryFinalize
  <2>4. CASE CloseExpired(a) \/ CloseForAdmin(a)
    BY <2>4, CloseConserves DEF CloseExpired, CloseForAdmin
  <2>5. CASE CancelExpiredPendingOrder(a)
    BY <2>5, ReopenConserves DEF CancelExpiredPendingOrder
  <2> QED BY <1>1, <1>2, <1>3, <1>9, <2>1, <2>2, <2>3, <2>4, <2>5 DEF AuctionStep
<1>10. CASE Crash \/ UNCHANGED vars
  BY <1>1, <1>10 DEF Crash, vars
<1> QED BY <1>7, <1>8, <1>9, <1>10 DEF Next

(* What users own and what is on hold for them adds up to what they were       *)
(* given, in every state in which no bot has bid what it could not hold: no    *)
(* sequence of bids, closes, finalizes, reopenings, purchases and payments,    *)
(* whatever fails and however stale what a request read, makes or loses money. *)
THEOREM FundsAreConserved == Spec => []FundsConserved
<1>1. Init => FundsInv
  <2> SUFFICES ASSUME Init PROVE FundsInv
    OBVIOUS
  <2>1. /\ balance = [u \in Users |-> InitialBalance] /\ DOMAIN balance = Users
        /\ MoneyTyped
    BY BalanceIsNat DEF Init, MoneyTyped
  <2>2. LiveBidsDiffer
    BY DEF Init, LiveBidsDiffer, LiveBids, BidsOn, NoBid
  <2>3. Owned = InitialBalance * Cardinality(Users)
    <3>1. \A u \in Users : balance[u] = InitialBalance
      BY <2>1
    <3>2. SumFunctionOnSet(balance, Users) = InitialBalance * Cardinality(Users)
      BY <3>1, RowsAreFinite, BalanceIsNat, SumConstant
    <3> QED BY <2>1, <3>2 DEF Owned, SumFunction
  <2>4. Escrow = 0
    <3> DEFINE none == {b \in held \ released : ~Spent(b)}
    <3>1. none = {}
      BY DEF Init
    <3>2. OnHold({}) = 0
      BY SumTake, FS_EmptySet DEF OnHold
    <3>3. Escrow = OnHold(none)
      BY DEF Escrow
    <3> HIDE DEF none
    <3> QED BY <3>1, <3>2, <3>3
  <2>5. InitialBalance * Cardinality(Users) \in Int
    BY RowsAreFinite, BalanceIsNat, FS_CardinalityType
  <2> QED BY <2>1, <2>2, <2>3, <2>4, <2>5 DEF FundsInv
<1>2. /\ TypeOK /\ TypeOK' /\ OrderMatchesAuction /\ HoldsHaveBids /\ TracksIfHeld
      /\ BackedInv /\ BooksInv /\ FundsInv /\ [Next]_vars
      => FundsInv'
  <2> DEFINE total == InitialBalance * Cardinality(Users)
  <2> SUFFICES ASSUME TypeOK, TypeOK', OrderMatchesAuction, HoldsHaveBids, TracksIfHeld,
                      BackedInv, BooksInv, FundsInv, [Next]_vars, EveryBidIsHeld'
               PROVE  MoneyTyped' /\ LiveBidsDiffer' /\ Owned' + Escrow' = total
    BY DEF FundsInv
  <2>1. EveryBidIsHeld
    BY HeldBefore
  <2>2. PriceInv
    BY <2>1 DEF PriceInv, TracksIfHeld
  <2>3. MoneyInv /\ Owned + Escrow = total
    BY <2>1, <2>2 DEF MoneyInv, BackedInv, FundsInv
  <2> HIDE DEF total
  <2>4. Conserves
    BY <2>3, NextConserves
  <2>5. LiveBidsDiffer'
    BY <2>2, <2>3, StepOnBids, LiveBidsDifferStays DEF MoneyInv, BooksInv
  <2> QED BY <2>3, <2>4, <2>5 DEF Conserves
<1>3. FundsInv => FundsConserved
  BY DEF FundsInv, FundsConserved
<1> QED
  BY <1>1, <1>2, <1>3, TypeCorrect, OrdersMatch, TrackedIfHeld, BackedInvariant,
     PaymentsFitTheirOrders, PTL DEF Spec

(* What PriceTracksTopBid and FundsConserved say, without their condition.     *)
PeopleAreSound ==
  EveryBidIsHeld /\ (\A a \in Auctions : PriceTracks(a))
  /\ Owned + Escrow = InitialBalance * Cardinality(Users)

(* Without bots every bid is held, so that the prices always track the best    *)
(* bid and the money always adds up (placeBid, holdForBid and every operation  *)
(* that releases or pays).                                                     *)
THEOREM PeopleKeepTheBooks == ASSUME Bots = {} PROVE Spec => []PeopleAreSound
<1>1. Init => EveryBidIsHeld
  BY DEF Init, NoBid, EveryBidIsHeld
<1>2. TypeOK /\ EveryBidIsHeld /\ [Next]_vars => EveryBidIsHeld'
  <2> SUFFICES ASSUME TypeOK, EveryBidIsHeld, [Next]_vars PROVE EveryBidIsHeld'
    OBVIOUS
  <2>0. bid \in [Bids -> BidRow]
    BY DEF TypeOK
  <2>1. CASE UNCHANGED <<bid, held>>
    BY <2>1 DEF EveryBidIsHeld
  <2>2. ASSUME NEW a \in Auctions, NEW S \in SUBSET LiveBids(a), TakesOut(a, S)
        PROVE  EveryBidIsHeld'
    <3>1. S \in SUBSET Bids /\ \A c \in S : bid[c].status = "LIVE"
      BY DEF LiveBids, BidsOn
    <3>2. /\ \A c \in Bids : bid'[c].status = IF c \in S THEN "OUT" ELSE bid[c].status
          /\ held' = held
      BY <2>2, <3>1, DisqualifyOnly DEF TakesOut
    <3> QED BY <3>1, <3>2 DEF EveryBidIsHeld
  <2>3. ASSUME NEW a \in Auctions, NEW u \in Users, NEW p \in Prices, NEW b \in Bids,
               Records(a, u, p, b)
        PROVE  EveryBidIsHeld'
    <3>1. /\ held' = held \cup {b} /\ \A c \in Bids \ {b} : bid'[c] = bid[c]
      BY <2>0, <2>3 DEF Records, RecordBid
    <3> QED BY <3>1 DEF EveryBidIsHeld
  <2> QED BY <2>1, <2>2, <2>3, StepOnBids DEF BidStep
<1>3. EveryBidIsHeld /\ PriceTracksTopBid /\ FundsConserved => PeopleAreSound
  BY DEF PeopleAreSound, PriceTracksTopBid, FundsConserved
<1> QED BY <1>1, <1>2, <1>3, TypeCorrect, PriceTracked, FundsAreConserved, PTL DEF Spec

-----------------------------------------------------------------------------
(* Refunds are tracked *)

(* The sets of losers that the finalizes and the payload of an auction name.   *)
Names(x) ==
  {f.losers : f \in {g \in finalizing : g.auction = x}} \cup auction[x].payload

(* They are bids of that auction; those of an auction that has not sold and    *)
(* fallen through are one set at most, and none before its close; an auction   *)
(* that was deleted has no bids; a finalize only clears what it has released.  *)
NamesOwn == \A x \in Auctions : \A L \in Names(x) : L \subseteq BidsOn(x)
OneClose ==
  \A x \in Auctions : order[x].status # "CANCELLED" =>
    /\ \A L, M \in Names(x) : L = M
    /\ auction[x].status \in {"ABSENT", "OPEN"} => Names(x) = {}
DeletedHasNoBids ==
  \A x \in Auctions : auction[x].status = "DELETED" => BidsOn(x) = {}
Cleared == \A f \in finalizing : f.step = "CLEAR" => f.losers \subseteq released

RefundInv == BackedInv /\ NamesOwn /\ OneClose /\ DeletedHasNoBids /\ Cleared

(* What a step that is none of a close or a finalize does to refunds: payloads *)
(* stay, or go where there was none to make or the sale has fallen through;    *)
(* and whoever is put out of the race is paid back.                            *)
Drops(x) ==
  /\ auction'[x].payload = {}
  /\ \/ order'[x].status = "CANCELLED"
     \/ BidsOn(x) = {}
     \/ auction[x].status \in {"ABSENT", "OPEN"} /\ order[x].status # "CANCELLED"
PayloadsStay ==
  \A x \in Auctions : auction'[x].payload = auction[x].payload \/ Drops(x)
PaysBack ==
  /\ released \subseteq released'
  /\ \A b \in Bids : bid'[b].status = "OUT" /\ b \in held' \ released' =>
       bid[b].status = "OUT" /\ b \in held /\ bid'[b].auction = bid[b].auction
Quiet == finalizing' = finalizing /\ PayloadsStay /\ PaysBack

LEMMA ReopenPaysBack ==
  ASSUME TypeOK, NEW a \in Auctions, Reopen(a)
  PROVE  Quiet
<1>0. auction \in [Auctions -> AuctionRow] /\ order \in [Auctions -> OrderRow]
  BY DEF TypeOK
<1>1. PICK top \in FirstOf(LiveBids(a)) :
        LET out == IF /\ top # None
                      /\ bid[top].user = order[a].buyer
                      /\ bid[top].price = order[a].price
                   THEN {top} ELSE {}
        IN  bid' = Disqualify(out) /\ released' = released \cup out
  BY DEF Reopen
<1> DEFINE out == IF /\ top # None
                     /\ bid[top].user = order[a].buyer
                     /\ bid[top].price = order[a].price
                  THEN {top} ELSE {}
<1>2. bid' = Disqualify(out) /\ released' = released \cup out
  BY <1>1
<1>3. out \in SUBSET Bids
  BY FirstIsMember DEF LiveBids, BidsOn
<1> HIDE DEF out
<1>4. held' = held /\ finalizing' = finalizing
  BY DEF Reopen
<1>5. PaysBack
  BY <1>2, <1>3, <1>4, DisqualifyOnly DEF PaysBack
<1>6. PICK price :
        auction' = [auction EXCEPT ![a] =
          [auction[a] EXCEPT !.status = "OPEN", !.winner = None, !.over = FALSE,
             !.payload = {}, !.price = price]]
  BY DEF Reopen
<1>7. auction'[a].payload = {} /\ order'[a].status = "CANCELLED"
  BY <1>0, <1>6 DEF Reopen, AuctionRow, OrderRow
<1>8. PayloadsStay
  BY <1>0, <1>6, <1>7 DEF PayloadsStay, Drops
<1> QED BY <1>4, <1>5, <1>8 DEF Quiet

(* A close puts the losers out and starts the finalize that names them.        *)
LEMMA CloseParts ==
  ASSUME TypeOK, NEW a \in Auctions, Close(a)
  PROVE  /\ auction[a].status = "OPEN" /\ auction'[a].status = "CLOSED"
         /\ PayloadsStay /\ held' = held /\ released' = released
         /\ \E out \in SUBSET LiveBids(a) :
              /\ bid' = Disqualify(out)
              /\ finalizing' = finalizing \cup
                   {[auction |-> a, losers |-> out, step |-> "RELEASE", retry |-> FALSE]}
<1>0. auction \in [Auctions -> AuctionRow] /\ order \in [Auctions -> OrderRow]
  BY DEF TypeOK
<1>1. PICK top \in FirstOf(LiveBids(a)) :
        LET winner == IF top = None THEN None ELSE bid[top].user
            losers == {b \in LiveBids(a) : bid[b].user # winner}
        IN  /\ auction' = [auction EXCEPT ![a] =
                 [auction[a] EXCEPT !.status = "CLOSED", !.winner = winner,
                    !.price = PriceOf(top, auction[a].price), !.payload = {}]]
            /\ IF winner = None THEN UNCHANGED order ELSE order[a].status = "ABSENT"
            /\ bid' = Disqualify(losers)
            /\ finalizing' = finalizing \cup
                 {[auction |-> a, losers |-> losers, step |-> "RELEASE",
                   retry |-> FALSE]}
  BY DEF Close
<1> DEFINE winner == IF top = None THEN None ELSE bid[top].user
           losers == {b \in LiveBids(a) : bid[b].user # winner}
<1>2. losers \in SUBSET LiveBids(a)
  OBVIOUS
<1>3. /\ auction' = [auction EXCEPT ![a] =
           [auction[a] EXCEPT !.status = "CLOSED", !.winner = winner,
              !.price = PriceOf(top, auction[a].price), !.payload = {}]]
      /\ order' = order \/ order[a].status = "ABSENT"
      /\ bid' = Disqualify(losers)
      /\ finalizing' = finalizing \cup
           {[auction |-> a, losers |-> losers, step |-> "RELEASE", retry |-> FALSE]}
  BY <1>1
<1> HIDE DEF losers, winner
<1>4. /\ auction'[a].status = "CLOSED" /\ auction'[a].payload = {}
      /\ \A x \in Auctions \ {a} : auction'[x] = auction[x]
  BY <1>0, <1>3 DEF AuctionRow
<1>5. auction[a].status = "OPEN" /\ held' = held /\ released' = released
  BY DEF Close, wallet
<1>6. PayloadsStay
  BY <1>3, <1>4, <1>5 DEF PayloadsStay, Drops
<1> QED BY <1>2, <1>3, <1>4, <1>5, <1>6

(* Every step is quiet, or a close, a retry, a step of a finalize or a stop.   *)
LEMMA QuietSteps ==
  ASSUME TypeOK, [Next]_vars
  PROVE  \/ Quiet \/ Crash
         \/ \E a \in Auctions : Close(a) \/ RetryFinalize(a)
         \/ \E f \in finalizing : FinalizeStep(f)
<1> USE DEF wallet, memory
<1>0. /\ auction \in [Auctions -> AuctionRow] /\ order \in [Auctions -> OrderRow]
      /\ bid \in [Bids -> BidRow]
  BY DEF TypeOK
<1>1. ASSUME UNCHANGED <<bid, held, released, finalizing>>, PayloadsStay
      PROVE  Quiet
  BY <1>1 DEF Quiet, PaysBack
<1>2. ASSUME NEW a \in Auctions, AuctionStep(a), ~Close(a), ~RetryFinalize(a)
      PROVE  Quiet
  <2>1. ASSUME NEW s \in Users, NEW p \in Prices, NEW n \in Prices \cup {None},
               NEW i \in Increments, CreateAuction(a, s, p, n, i)
        PROVE  Quiet
    <3>1. /\ auction'[a].payload = {} /\ auction[a].status = "ABSENT" /\ order' = order
          /\ \A x \in Auctions \ {a} : auction'[x] = auction[x]
      BY <1>0, <2>1 DEF CreateAuction, NoAuction
    <3>2. PayloadsStay
      BY <3>1 DEF PayloadsStay, Drops
    <3> QED BY <1>1, <2>1, <3>2 DEF CreateAuction
  <2>2. ASSUME NEW u \in Users, NEW p \in Prices, NEW near \in BOOLEAN,
               PlaceBid(a, u, p, near) \/ PlaceBidAsBot(a, u, p, near)
        PROVE  Quiet
    <3>1. PICK b \in Bids :
            /\ RecordBid(a, u, p, b)
            /\ HoldAndRaise(a, u, p, near, b) \/ UNCHANGED <<auction, wallet>>
      BY <2>2 DEF PlaceBid, PlaceBidAsBot
    <3>2. AfterBid(a, p, near).payload = auction[a].payload
      BY <1>0 DEF AfterBid, AuctionRow
    <3>3. PayloadsStay
      BY <1>0, <3>1, <3>2 DEF HoldAndRaise, PayloadsStay
    <3>4. finalizing' = finalizing /\ released' = released
      BY <2>2, <3>1 DEF PlaceBid, PlaceBidAsBot, HoldAndRaise
    <3>5. \A c \in Bids : bid'[c].status = "OUT" => c # b /\ bid'[c] = bid[c]
      BY <1>0, <3>1 DEF RecordBid
    <3>6. held' = held \/ held' = held \cup {b}
      BY <3>1 DEF HoldAndRaise
    <3> QED BY <3>3, <3>4, <3>5, <3>6 DEF Quiet, PaysBack
  <2>3. ASSUME NEW p \in Prices \cup {None}, NEW n \in Prices \cup {None},
               NEW i \in Increments \cup {None}, NEW moveEnd \in BOOLEAN,
               PatchAuction(a, p, n, i, moveEnd)
        PROVE  Quiet
    <3>1. PayloadsStay
      BY <1>0, <2>3, PatchOnly DEF PayloadsStay
    <3>2. UNCHANGED <<bid, held, released, finalizing>>
      BY <2>3 DEF PatchAuction
    <3> QED BY <1>1, <3>1, <3>2
  <2>4. CASE DeleteAuction(a)
    <3>1. /\ auction'[a].payload = {} /\ BidsOn(a) = {}
          /\ \A x \in Auctions \ {a} : auction'[x] = auction[x]
      BY <1>0, <2>4 DEF DeleteAuction, NoAuction
    <3>2. PayloadsStay
      BY <3>1 DEF PayloadsStay, Drops
    <3> QED BY <1>1, <2>4, <3>2 DEF DeleteAuction
  <2>5. CASE EndTimePasses(a)
    <3>1. PayloadsStay
      BY <1>0, <2>5 DEF EndTimePasses, AuctionRow, PayloadsStay
    <3> QED BY <1>1, <2>5, <3>1 DEF EndTimePasses
  <2>6. CASE CancelExpiredPendingOrder(a)
    BY <2>6, ReopenPaysBack DEF CancelExpiredPendingOrder
  <2> QED
    BY <1>2, <2>1, <2>2, <2>3, <2>4, <2>5, <2>6
       DEF AuctionStep, CloseExpired, CloseForAdmin
<1>3. ASSUME NEW r \in Requests, RequestStep(r)
      PROVE  Quiet
  <2>1. CASE BuyNowCommit(r)
    <3> DEFINE a == request[r].auction
    <3>1. a \in Auctions
      BY <2>1 DEF BuyNowCommit, TypeOK, Request, Idle
    <3>2. /\ auction'[a].payload = {} /\ auction[a].status = "OPEN"
          /\ order[a].status # "CANCELLED"
          /\ \A x \in Auctions \ {a} : auction'[x] = auction[x]
      BY <1>0, <2>1, <3>1 DEF BuyNowCommit, BuyNowPossible, BoughtRow, AuctionRow
    <3>3. PayloadsStay
      BY <3>2 DEF PayloadsStay, Drops
    <3> QED BY <1>1, <2>1, <3>3 DEF BuyNowCommit
  <2>2. CASE PayCommit(r)
    <3>1. PICK out \in SUBSET Bids :
            bid' = Disqualify(out) /\ released' = released \cup out
      BY <2>2 DEF PayCommit, LiveBids, BidsOn
    <3>2. UNCHANGED <<auction, held, finalizing>>
      BY <2>2 DEF PayCommit
    <3>3. PaysBack
      BY <3>1, <3>2, DisqualifyOnly DEF PaysBack
    <3> QED BY <3>2, <3>3 DEF Quiet, PayloadsStay
  <2>3. CASE PayReopen(r)
    <3>1. request[r].auction \in Auctions
      BY <2>3 DEF PayReopen, TypeOK, Request, Idle
    <3> QED BY <2>3, <3>1, ReopenPaysBack DEF PayReopen
  <2>4. CASE UNCHANGED <<auction, bid, wallet, finalizing>>
    BY <1>1, <2>4 DEF PayloadsStay
  <2> QED
    BY <1>3, <2>1, <2>2, <2>3, <2>4
       DEF RequestStep, BuyNowRead, PayRead, BuyNowRejected, PayConflict, PayFails,
           PayGivesUp
<1>4. CASE UNCHANGED vars
  BY <1>1, <1>4 DEF vars, PayloadsStay
<1> QED BY <1>2, <1>3, <1>4 DEF Next
(* Nothing takes a release back.                                               *)
LEMMA ReleasesStay ==
  ASSUME TypeOK, [Next]_vars
  PROVE  released \subseteq released'
<1>1. \A a \in Auctions : Close(a) => released' = released
  BY CloseParts
<1> QED
  BY <1>1, QuietSteps
     DEF Quiet, PaysBack, RetryFinalize, Crash, FinalizeStep, FinalizeRelease,
         FinalizeFails, FinalizePersist, FinalizeClear, PayloadWriteFails, wallet

(* A finalize comes to its last write by releasing its losers.                 *)
LEMMA ClearsReleased ==
  ASSUME TypeOK, [Next]_vars, NEW f \in finalizing', f.step = "CLEAR"
  PROVE  f \in finalizing \/ f.losers \subseteq released'
<1>0. finalizing \subseteq Finalize
  BY DEF TypeOK
<1>1. ASSUME NEW a \in Auctions, Close(a)
      PROVE  f \in finalizing
  <2>1. PICK out : finalizing' = finalizing \cup
          {[auction |-> a, losers |-> out, step |-> "RELEASE", retry |-> FALSE]}
    BY <1>1, CloseParts
  <2> QED BY <2>1
<1>2. ASSUME NEW a \in Auctions, RetryFinalize(a)
      PROVE  f \in finalizing
  <2>1. PICK L : finalizing' = finalizing \cup
          {[auction |-> a, losers |-> L, step |-> "RELEASE", retry |-> TRUE]}
    BY <1>2 DEF RetryFinalize
  <2> QED BY <2>1
<1>3. ASSUME NEW g \in finalizing, FinalizeStep(g)
      PROVE  f \in finalizing \/ f.losers \subseteq released'
  <2>1. g \in Finalize
    BY <1>0
  <2> QED
    BY <1>3, <2>1
       DEF FinalizeStep, FinalizeRelease, FinalizeFails, FinalizePersist, FinalizeClear,
           PayloadWriteFails, Finalize
<1> QED BY <1>1, <1>2, <1>3, QuietSteps DEF Quiet, Crash

(* An auction is deleted without bids, and without touching any.               *)
LEMMA DeletesWithoutBids ==
  ASSUME TypeOK, TypeOK', [Next]_vars, NEW x \in Auctions,
         auction[x].status # "DELETED", auction'[x].status = "DELETED"
  PROVE  BidsOn(x) = {} /\ bid' = bid
<1>1. Moves(x)
  <2>1. SaleStep
    BY NextMoves
  <2> QED BY <2>1 DEF SaleStep, OneMoves, Moves
<1> QED BY <1>1 DEF Moves, Keeps, Lists, Awards, Lapses, Withdraws, Settles, Removes

(* A step leaves no name that was not there, but for the losers of a close.    *)
LEMMA NamesStep ==
  ASSUME TypeOK, [Next]_vars, NEW x \in Auctions
  PROVE  \/ Names(x)' \subseteq Names(x)
         \/ /\ auction[x].status = "OPEN" /\ auction'[x].status = "CLOSED"
            /\ \E out \in SUBSET LiveBids(x) : Names(x)' \subseteq Names(x) \cup {out}
<1>0. auction \in [Auctions -> AuctionRow] /\ finalizing \subseteq Finalize
  BY DEF TypeOK
<1>1. ASSUME auction'[x].payload \subseteq Names(x),
             \A g \in finalizing' : g.auction = x => g.losers \in Names(x)
      PROVE  Names(x)' \subseteq Names(x)
  BY <1>1 DEF Names
<1>2. \A g \in finalizing : g.auction = x => g.losers \in Names(x)
  BY DEF Names
<1>3. auction[x].payload \subseteq Names(x)
  BY DEF Names
<1>4. CASE Quiet
  <2>1. auction'[x].payload \subseteq Names(x)
    BY <1>3, <1>4 DEF Quiet, PayloadsStay, Drops
  <2> QED BY <1>1, <1>2, <1>4, <2>1 DEF Quiet
<1>5. CASE Crash
  BY <1>1, <1>3, <1>5 DEF Crash
<1>6. ASSUME NEW a \in Auctions, Close(a)
      PROVE  \/ Names(x)' \subseteq Names(x)
             \/ /\ auction[x].status = "OPEN" /\ auction'[x].status = "CLOSED"
                /\ \E out \in SUBSET LiveBids(x) :
                     Names(x)' \subseteq Names(x) \cup {out}
  <2>1. PICK out \in SUBSET LiveBids(a) :
          finalizing' = finalizing \cup
            {[auction |-> a, losers |-> out, step |-> "RELEASE", retry |-> FALSE]}
    BY <1>6, CloseParts
  <2> DEFINE f == [auction |-> a, losers |-> out, step |-> "RELEASE", retry |-> FALSE]
  <2>2. f.auction = a /\ f.losers = out /\ finalizing' = finalizing \cup {f}
    BY <2>1
  <2> HIDE DEF f
  <2>3. auction'[x].payload \subseteq Names(x)
    BY <1>3, <1>6, CloseParts DEF PayloadsStay, Drops
  <2>4. CASE x = a
    <3>1. auction[x].status = "OPEN" /\ auction'[x].status = "CLOSED"
      BY <1>6, <2>4, CloseParts
    <3>2. Names(x)' \subseteq Names(x) \cup {out}
      BY <1>2, <2>2, <2>3 DEF Names
    <3> QED BY <2>4, <3>1, <3>2
  <2>5. CASE x # a
    BY <1>1, <1>2, <2>2, <2>3, <2>5
  <2> QED BY <2>4, <2>5
<1>7. ASSUME NEW a \in Auctions, RetryFinalize(a)
      PROVE  Names(x)' \subseteq Names(x)
  <2>1. PICK L \in auction[a].payload :
          finalizing' = finalizing \cup
            {[auction |-> a, losers |-> L, step |-> "RELEASE", retry |-> TRUE]}
    BY <1>7 DEF RetryFinalize
  <2> DEFINE f == [auction |-> a, losers |-> L, step |-> "RELEASE", retry |-> TRUE]
  <2>2. f.auction = a /\ f.losers = L /\ finalizing' = finalizing \cup {f}
    BY <2>1
  <2> HIDE DEF f
  <2>3. auction' = auction
    BY <1>7 DEF RetryFinalize
  <2> QED BY <1>1, <1>2, <1>3, <2>2, <2>3
<1>8. ASSUME NEW f \in finalizing, FinalizeStep(f)
      PROVE  Names(x)' \subseteq Names(x)
  <2>1. f \in Finalize
    BY <1>0
  <2>2. \A g \in finalizing' : \E h \in finalizing :
          g.auction = h.auction /\ g.losers = h.losers
    BY <1>8, <2>1
       DEF FinalizeStep, FinalizeRelease, FinalizeFails, FinalizePersist, FinalizeClear,
           PayloadWriteFails, Finalize
  <2>3. auction'[x].payload \subseteq Names(x)
    <3>1. CASE FinalizePersist(f)
      BY <1>0, <1>2, <1>3, <2>1, <3>1 DEF FinalizePersist, SetPayload, AuctionRow
    <3>2. CASE FinalizeClear(f)
      BY <1>0, <1>3, <2>1, <3>2 DEF FinalizeClear, SetPayload, AuctionRow
    <3> QED
      BY <1>3, <1>8, <3>1, <3>2
         DEF FinalizeStep, FinalizeRelease, FinalizeFails, PayloadWriteFails
  <2> QED BY <1>1, <1>2, <2>2, <2>3
<1> QED BY <1>4, <1>5, <1>6, <1>7, <1>8, QuietSteps

(* A bid keeps its auction once it has one.                                    *)
LEMMA BidsStayOn ==
  ASSUME TypeOK, [Next]_vars, NEW b \in Bids, bid[b].status # "ABSENT"
  PROVE  bid'[b].auction = bid[b].auction /\ bid'[b].status # "ABSENT"
<1>1. BidStep
  BY StepOnBids
<1>2. CASE UNCHANGED <<bid, held>>
  BY <1>2
<1>3. ASSUME NEW a \in Auctions, NEW u \in Users, NEW p \in Prices, NEW c \in Bids,
             Records(a, u, p, c)
      PROVE  bid'[b] = bid[b]
  BY <1>3 DEF Records, RecordBid, TypeOK
<1>4. ASSUME NEW a \in Auctions, NEW S \in SUBSET LiveBids(a), TakesOut(a, S)
      PROVE  bid'[b].auction = bid[b].auction /\ bid'[b].status # "ABSENT"
  <2>1. S \in SUBSET Bids
    BY DEF LiveBids, BidsOn
  <2> QED BY <1>4, <2>1, DisqualifyOnly DEF TakesOut
<1> QED BY <1>1, <1>2, <1>3, <1>4 DEF BidStep

(* The part of the invariant that says what the names are survives every step. *)
LEMMA NamesKept ==
  ASSUME RefundInv, TypeOK', [Next]_vars
  PROVE  NamesOwn' /\ DeletedHasNoBids' /\ OneClose' /\ Cleared'
<1> USE DEF RefundInv, BackedInv
<1>1. NamesOwn'
  <2> SUFFICES ASSUME NEW x \in Auctions, NEW L \in Names(x)'
               PROVE  L \subseteq BidsOn(x)'
    BY DEF NamesOwn
  <2>1. CASE L \in Names(x)
    <3> SUFFICES ASSUME NEW b \in L PROVE b \in BidsOn(x)'
      OBVIOUS
    <3>1. b \in Bids /\ bid[b].auction = x
      BY <2>1 DEF NamesOwn, BidsOn
    <3>2. bid[b].status = "OUT"
      BY <2>1 DEF RefundableAreOut, Names
    <3> QED BY <3>1, <3>2, BidsStayOn DEF BidsOn
  <2>2. CASE L \notin Names(x)
    <3>1. L \in SUBSET LiveBids(x)
      BY <2>2, NamesStep
    <3> SUFFICES ASSUME NEW b \in L PROVE b \in BidsOn(x)'
      OBVIOUS
    <3>2. b \in Bids /\ bid[b].auction = x /\ bid[b].status = "LIVE"
      BY <3>1 DEF LiveBids, BidsOn
    <3> QED BY <3>2, BidsStayOn DEF BidsOn
  <2> QED BY <2>1, <2>2
<1>2. SaleStep
  BY NextMoves
<1>3. \A x \in Auctions : Moves(x)
  BY <1>2 DEF SaleStep, OneMoves, Moves
<1>4. DeletedHasNoBids'
  <2> SUFFICES ASSUME NEW x \in Auctions, auction'[x].status = "DELETED"
               PROVE  BidsOn(x)' = {}
    BY DEF DeletedHasNoBids
  <2>1. BidsOn(x) = {}
    <3>1. CASE auction[x].status = "DELETED"
      BY <3>1 DEF DeletedHasNoBids
    <3>2. CASE auction[x].status # "DELETED"
      BY <3>2, DeletesWithoutBids
    <3> QED BY <3>1, <3>2
  <2>2. auction[x].status # "OPEN" \/ bid' = bid
    <3>1. CASE auction[x].status = "DELETED"
      BY <3>1
    <3>2. CASE auction[x].status # "DELETED"
      BY <3>2, DeletesWithoutBids
    <3> QED BY <3>1, <3>2
  <2>3. BidStep
    BY StepOnBids
  <2>4. CASE bid' = bid
    BY <2>1, <2>4 DEF BidsOn
  <2>5. ASSUME NEW a \in Auctions, NEW u \in Users, NEW p \in Prices, NEW c \in Bids,
               Records(a, u, p, c), auction[x].status # "OPEN"
        PROVE  BidsOn(x)' = {}
    <3>1. a # x
      BY <2>5 DEF Records, MayBid
    <3>2. \A b \in Bids : bid'[b].auction = a \/ bid'[b] = bid[b]
      BY <2>5 DEF Records, RecordBid, TypeOK
    <3> QED BY <2>1, <3>1, <3>2 DEF BidsOn
  <2>6. ASSUME NEW a \in Auctions, NEW S \in SUBSET LiveBids(a), TakesOut(a, S)
        PROVE  BidsOn(x)' = {}
    <3>1. S \in SUBSET Bids
      BY DEF LiveBids, BidsOn
    <3>2. \A b \in Bids : bid'[b].auction = bid[b].auction
      BY <2>6, <3>1, DisqualifyOnly DEF TakesOut
    <3> QED BY <2>1, <3>2 DEF BidsOn
  <2> QED BY <2>2, <2>3, <2>4, <2>5, <2>6 DEF BidStep
<1>5. OneClose'
  <2> SUFFICES ASSUME NEW x \in Auctions, order'[x].status # "CANCELLED"
               PROVE  /\ \A L, M \in Names(x)' : L = M
                      /\ auction'[x].status \in {"ABSENT", "OPEN"} => Names(x)' = {}
    BY DEF OneClose
  <2>1. CASE Removes(x)
    <3>1. auction'[x].status = "DELETED" /\ BidsOn(x)' = {}
      BY <1>4, <2>1 DEF Removes, DeletedHasNoBids
    <3>2. \A L \in Names(x)' : L = {}
      BY <1>1, <3>1 DEF NamesOwn
    <3> QED BY <3>1, <3>2
  <2>2. CASE ~Removes(x)
    <3>1. /\ order[x].status # "CANCELLED"
          /\ auction'[x].status \in {"ABSENT", "OPEN"}
               => auction[x].status \in {"ABSENT", "OPEN"}
      BY <1>3, <2>2 DEF Moves, Keeps, Lists, Awards, Lapses, Withdraws, Settles
    <3>2. /\ \A L, M \in Names(x) : L = M
          /\ auction[x].status \in {"ABSENT", "OPEN"} => Names(x) = {}
      BY <3>1 DEF OneClose
    <3>3. CASE Names(x)' \subseteq Names(x)
      BY <3>1, <3>2, <3>3
    <3>4. ASSUME NEW out, Names(x)' \subseteq Names(x) \cup {out},
                 auction[x].status = "OPEN", auction'[x].status = "CLOSED"
          PROVE  /\ \A L, M \in Names(x)' : L = M
                 /\ auction'[x].status \in {"ABSENT", "OPEN"} => Names(x)' = {}
      BY <3>2, <3>4
    <3> QED BY <3>3, <3>4, NamesStep
  <2> QED BY <2>1, <2>2
<1>6. Cleared'
  <2>1. \A f \in finalizing' : f.step = "CLEAR" =>
          f.losers \subseteq released \/ f.losers \subseteq released'
    BY ClearsReleased DEF Cleared
  <2> QED BY <2>1, ReleasesStay DEF Cleared
<1> QED BY <1>1, <1>4, <1>5, <1>6

(* Whoever a step puts out of the race without paying back is a loser of the   *)
(* close it makes, and a finalize that has just begun names them.              *)
LEMMA PutOutTracks ==
  ASSUME RefundInv, [Next]_vars, NEW b \in Bids,
         bid'[b].status = "OUT", b \in held' \ released',
         ~(bid[b].status = "OUT" /\ b \in held)
  PROVE  \E f \in finalizing' : b \in f.losers /\ OnlyInMemory(f)
<1> USE DEF RefundInv, BackedInv
<1>1. CASE Quiet
  BY <1>1 DEF Quiet, PaysBack
<1>2. CASE \/ Crash \/ \E a \in Auctions : RetryFinalize(a)
           \/ \E f \in finalizing : FinalizeStep(f)
  <2>1. bid' = bid /\ held' = held
    BY <1>2
       DEF Crash, RetryFinalize, FinalizeStep, FinalizeRelease, FinalizeFails,
           FinalizePersist, FinalizeClear, PayloadWriteFails, wallet
  <2> QED BY <2>1
<1>3. ASSUME NEW a \in Auctions, Close(a)
      PROVE  \E f \in finalizing' : b \in f.losers /\ OnlyInMemory(f)
  <2>1. PICK out \in SUBSET LiveBids(a) :
          /\ bid' = Disqualify(out)
          /\ finalizing' = finalizing \cup
               {[auction |-> a, losers |-> out, step |-> "RELEASE", retry |-> FALSE]}
    BY <1>3, CloseParts
  <2>2. held' = held
    BY <1>3, CloseParts
  <2>3. out \in SUBSET Bids
    BY DEF LiveBids, BidsOn
  <2>4. b \in out
    BY <2>1, <2>2, <2>3, DisqualifyOnly
  <2> DEFINE f == [auction |-> a, losers |-> out, step |-> "RELEASE", retry |-> FALSE]
  <2>5. f.losers = out /\ f.step = "RELEASE" /\ ~f.retry /\ f \in finalizing'
    BY <2>1
  <2> HIDE DEF f
  <2> QED BY <2>4, <2>5 DEF OnlyInMemory
<1> QED BY <1>1, <1>2, <1>3, QuietSteps

(* A finalize, a payload or the record of the lost goes on to name every bid   *)
(* it names, or the bid is paid back.                                          *)
Tracked(b) ==
  \/ \E f \in finalizing : b \in f.losers /\ OnlyInMemory(f)
  \/ b \in UNION auction[bid[b].auction].payload
  \/ b \in lost

(* What a payload names stays named in it, is paid back, or is recorded as     *)
(* erased with it.                                                             *)
LEMMA PayloadTracks ==
  ASSUME RefundInv, TypeOK', [RecordedNext]_<<vars, lost>>,
         NEW x \in Auctions, NEW b \in UNION auction[x].payload
  PROVE  b \in UNION auction'[x].payload \/ b \in released' \/ b \in lost'
<1> USE DEF RefundInv, BackedInv
<1>0. auction \in [Auctions -> AuctionRow] /\ finalizing \subseteq Finalize
  BY DEF TypeOK
<1>1. [Next]_vars
  BY DEF RecordedNext, vars
<1>2. b \in Bids /\ bid[b].auction = x
  BY DEF NamesOwn, Names, BidsOn
<1>3. CASE order'[x].status = "CANCELLED" /\ RecordedNext
  <2>1. b \notin UNION auction'[x].payload => b \in Erased
    <3> SUFFICES ASSUME b \notin UNION auction'[x].payload
                 PROVE  b \in Erased
      OBVIOUS
    <3> DEFINE gone(y) == (UNION auction[y].payload) \ (UNION auction'[y].payload)
               fell == {y \in Auctions : order'[y].status = "CANCELLED"}
    <3>1. b \in gone(x) /\ x \in fell
      BY <1>3
    <3>2. Erased = UNION {gone(y) : y \in fell}
      BY DEF Erased
    <3> HIDE DEF gone, fell
    <3> QED BY <3>1, <3>2
  <2>2. b \in Erased => b \in lost'
    BY <1>3 DEF RecordedNext
  <2> QED BY <2>1, <2>2
<1>4. CASE order'[x].status # "CANCELLED"
  <2>1. order[x].status # "CANCELLED"
    <3>1. SaleStep
      BY <1>1, NextMoves
    <3>2. Moves(x)
      BY <3>1 DEF SaleStep, OneMoves, Moves
    <3>3. BidsOn(x) # {}
      BY <1>2 DEF BidsOn
    <3> QED
      BY <1>4, <3>2, <3>3
         DEF Moves, Keeps, Lists, Awards, Lapses, Withdraws, Settles, Removes
  <2>2. \A L, M \in Names(x) : L = M
    BY <2>1 DEF OneClose
  <2>3. Names(x) # {}
    BY DEF Names
  <2>4. auction[x].status \notin {"ABSENT", "OPEN"} /\ BidsOn(x) # {}
    BY <1>2, <2>1, <2>3 DEF OneClose, BidsOn
  <2>5. ~Drops(x)
    BY <1>4, <2>4 DEF Drops
  <2>6. CASE Quiet \/ \E a \in Auctions : Close(a)
    <3>1. PayloadsStay
      BY <2>6, CloseParts DEF Quiet
    <3>2. auction'[x].payload = auction[x].payload
      BY <2>5, <3>1 DEF PayloadsStay
    <3> QED BY <3>2
  <2>7. CASE Crash \/ \E a \in Auctions : RetryFinalize(a)
    BY <2>7 DEF Crash, RetryFinalize
  <2>8. ASSUME NEW f \in finalizing, FinalizeStep(f)
        PROVE  b \in UNION auction'[x].payload \/ b \in released'
    <3>1. CASE FinalizePersist(f)
      <4>1. CASE f.auction = x
        <5>1. f.losers \in Names(x)
          BY <4>1 DEF Names
        <5>2. PICK L \in auction[x].payload : b \in L
          OBVIOUS
        <5>3. L \in Names(x)
          BY <5>2 DEF Names
        <5>4. b \in f.losers
          BY <2>2, <5>1, <5>2, <5>3
        <5>5. auction'[x].payload = {f.losers} \/ auction' = auction
          BY <1>0, <3>1, <4>1 DEF FinalizePersist, SetPayload, AuctionRow
        <5> QED BY <5>4, <5>5
      <4>2. CASE f.auction # x
        <5>1. auction'[x] = auction[x]
          BY <1>0, <3>1, <4>2 DEF FinalizePersist, SetPayload
        <5> QED BY <5>1
      <4> QED BY <4>1, <4>2
    <3>2. CASE FinalizeClear(f)
      <4>1. CASE f.auction = x
        <5>1. f.losers \in Names(x)
          BY <4>1 DEF Names
        <5>2. PICK L \in auction[x].payload : b \in L
          OBVIOUS
        <5>3. L \in Names(x)
          BY <5>2 DEF Names
        <5>4. b \in f.losers
          BY <2>2, <5>1, <5>2, <5>3
        <5>5. f.losers \subseteq released
          BY <3>2 DEF FinalizeClear, Cleared
        <5> QED BY <1>1, <5>4, <5>5, ReleasesStay
      <4>2. CASE f.auction # x
        <5>1. auction'[x] = auction[x]
          BY <1>0, <3>2, <4>2 DEF FinalizeClear, SetPayload
        <5> QED BY <5>1
      <4> QED BY <4>1, <4>2
    <3> QED
      BY <2>8, <3>1, <3>2
         DEF FinalizeStep, FinalizeRelease, FinalizeFails, PayloadWriteFails
  <2> QED BY <1>1, <2>6, <2>7, <2>8, QuietSteps
<1>5. CASE UNCHANGED <<vars, lost>>
  BY <1>5 DEF vars
<1> QED BY <1>3, <1>4, <1>5

(* What a finalize names that goes on in memory only stays named by it, is paid *)
(* back, is persisted, or is recorded as cut off with it.                       *)
LEMMA MemoryTracks ==
  ASSUME RefundInv, TypeOK', [RecordedNext]_<<vars, lost>>,
         NEW f \in finalizing, OnlyInMemory(f), NEW b \in f.losers
  PROVE  \/ b \in released' \/ b \in lost'
         \/ \E g \in finalizing' : b \in g.losers /\ OnlyInMemory(g)
         \/ b \in UNION auction'[bid[b].auction].payload
<1> USE DEF RefundInv, BackedInv
<1>0. auction \in [Auctions -> AuctionRow] /\ finalizing \subseteq Finalize
  BY DEF TypeOK
<1>1. [Next]_vars
  BY DEF RecordedNext, vars
<1>2. f \in Finalize /\ f.auction \in Auctions
  BY <1>0 DEF Finalize
<1>3. b \in Bids /\ bid[b].auction = f.auction
  BY <1>2 DEF NamesOwn, Names, BidsOn
<1>4. CASE f \in finalizing'
  BY <1>4
<1>5. CASE f \notin finalizing'
  <2>1. RecordedNext
    BY <1>5 DEF vars
  <2>2. \/ Crash \/ FinalizeStep(f)
    <3>1. ~Quiet
      BY <1>5 DEF Quiet
    <3>2. \A a \in Auctions : ~Close(a)
      BY <1>5, CloseParts
    <3>3. \A a \in Auctions : ~RetryFinalize(a)
      BY <1>5 DEF RetryFinalize
    <3>4. \A g \in finalizing : FinalizeStep(g) => g = f
      BY <1>5
         DEF FinalizeStep, FinalizeRelease, FinalizeFails, FinalizePersist,
             FinalizeClear, PayloadWriteFails
    <3> QED BY <1>1, <3>1, <3>2, <3>3, <3>4, QuietSteps
  <2>3. CASE Crash \/ PayloadWriteFails(f)
    <3>1. b \in CutOff
      BY <2>3 DEF CutOff
    <3> QED BY <2>1, <3>1 DEF RecordedNext
  <2>4. CASE FinalizeRelease(f)
    BY <2>4 DEF FinalizeRelease
  <2>5. CASE FinalizeFails(f)
    <3> DEFINE g == [f EXCEPT !.step = "PERSIST"]
    <3>1. g.losers = f.losers /\ ~g.retry /\ g.step = "PERSIST"
      BY <1>2 DEF Finalize, OnlyInMemory
    <3>2. g \in finalizing'
      BY <2>5 DEF FinalizeFails, OnlyInMemory
    <3> HIDE DEF g
    <3> QED BY <3>1, <3>2 DEF OnlyInMemory
  <2>6. CASE FinalizePersist(f)
    <3>1. auction[f.auction].status # "DELETED"
      BY <1>2, <1>3 DEF DeletedHasNoBids, BidsOn
    <3>2. auction'[f.auction].payload = {f.losers}
      BY <1>0, <1>2, <2>6, <3>1 DEF FinalizePersist, SetPayload, AuctionRow
    <3> QED BY <1>3, <3>2
  <2>7. CASE FinalizeClear(f)
    BY <2>7 DEF FinalizeClear, OnlyInMemory
  <2> QED BY <2>2, <2>3, <2>4, <2>5, <2>6, <2>7 DEF FinalizeStep
<1> QED BY <1>4, <1>5

(* Whatever fails and whichever process stops, and whatever is closed, retried, *)
(* reopened, paid or deleted in between: a hold that is due back is in the      *)
(* hands of a finalize or a payload of its auction until it is back, unless     *)
(* the one was cut off or the other erased after the sale had fallen through.   *)
THEOREM RefundsTracked == RecordedSpec => []RefundsAreTracked
<1>1. Init /\ lost = {} => NamesOwn /\ OneClose /\ DeletedHasNoBids /\ Cleared
                           /\ RefundsAreTracked
  BY DEF Init, NoAuction, NoBid, NamesOwn, OneClose, DeletedHasNoBids, Cleared, Names,
         RefundsAreTracked
<1>2. /\ BackedInv /\ BooksInv /\ TypeOK' /\ NamesOwn /\ OneClose /\ DeletedHasNoBids /\ Cleared
      /\ RefundsAreTracked /\ [RecordedNext]_<<vars, lost>>
      => (NamesOwn /\ OneClose /\ DeletedHasNoBids /\ Cleared /\ RefundsAreTracked)'
  <2> SUFFICES ASSUME RefundInv, BooksInv, TypeOK', RefundsAreTracked,
                      [RecordedNext]_<<vars, lost>>
               PROVE  (NamesOwn /\ OneClose /\ DeletedHasNoBids /\ Cleared
                       /\ RefundsAreTracked)'
    BY DEF RefundInv
  <2> USE DEF RefundInv, BackedInv
  <2>1. [Next]_vars
    BY DEF RecordedNext, vars
  <2>2. NamesOwn' /\ OneClose' /\ DeletedHasNoBids' /\ Cleared'
    BY <2>1, NamesKept
  <2>3. RefundsAreTracked'
    <3> SUFFICES ASSUME NEW b \in Bids, bid'[b].status = "OUT", b \in held' \ released'
                 PROVE  Tracked(b)'
      BY DEF RefundsAreTracked, Tracked
    <3>1. lost \subseteq lost'
      BY DEF RecordedNext
    <3>2. CASE bid[b].status = "OUT" /\ b \in held
      <4>1. b \notin released
        BY <2>1, ReleasesStay
      <4>2. Tracked(b)
        BY <3>2, <4>1 DEF RefundsAreTracked, Tracked
      <4>3. bid'[b].auction = bid[b].auction
        BY <2>1, <3>2, BidsStayOn
      <4>7. bid[b].auction \in Auctions
        BY <3>2 DEF BooksInv, Placed
      <4>4. CASE b \in lost
        BY <3>1, <4>4 DEF Tracked
      <4>5. ASSUME NEW f \in finalizing, b \in f.losers, OnlyInMemory(f)
            PROVE  Tracked(b)'
        BY <4>3, <4>5, MemoryTracks DEF Tracked, OnlyInMemory
      <4>6. CASE b \in UNION auction[bid[b].auction].payload
        BY <4>3, <4>6, <4>7, PayloadTracks DEF Tracked
      <4> QED BY <4>2, <4>4, <4>5, <4>6 DEF Tracked
    <3>3. CASE ~(bid[b].status = "OUT" /\ b \in held)
      <4>1. PICK f \in finalizing' : b \in f.losers /\ OnlyInMemory(f)
        BY <2>1, <3>3, PutOutTracks
      <4> QED BY <4>1 DEF Tracked, OnlyInMemory
    <3> QED BY <3>2, <3>3
  <2> QED BY <2>2, <2>3
<1>3. RecordedSpec => Spec
  <2>1. [RecordedNext]_<<vars, lost>> => [Next]_vars
    BY DEF RecordedNext, vars
  <2> QED BY <2>1, PTL DEF RecordedSpec, Spec
<1> QED BY <1>1, <1>2, <1>3, TypeCorrect, BackedInvariant,
       PaymentsFitTheirOrders, PTL DEF RecordedSpec
=============================================================================
