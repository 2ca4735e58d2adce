---------------------------- MODULE AuctionHouse ----------------------------
(***************************************************************************)
(* The life of an auction in the LaceUp backend: AuctionsService (create,  *)
(* bid, patch, delete), OrdersService (close, post-commit finalize, buy    *)
(* now, pay, cancel, reopen) and the WalletService calls they make.        *)
(*                                                                         *)
(* One action is one database transaction together with every wallet call  *)
(* it makes, or one in-memory step between two transactions.  What a       *)
(* request read before its transaction stays in its slot of `request`, so  *)
(* stale reads are in the model; the clock is the flag `over`.             *)
(* Transactions are atomic here; WalletTx opens them up statement by       *)
(* statement.                                                              *)
(***************************************************************************)
EXTENDS Integers, FiniteSets, Functions

CONSTANTS
  Auctions,       \* identifiers of Auction rows
  Users,          \* identifiers of User rows, the bots' included
  Bots,           \* the users that bid through placeBidAsBot
  Bids,           \* identifiers of Bid rows: their number bounds the bids
  Requests,       \* slots for the HTTP requests in flight in payOrder, buyNow
  Prices,         \* amounts a seller or a bidder may name
  Increments,     \* values of minimumIncrement a seller may name
  InitialBalance, \* INITIAL_USER_BALANCE
  MaxExtensions,  \* SOFT_CLOSE_MAX_EXTEND_COUNT
  Faults,         \* which failures happen: "db" (a query fails), "crash"
  None            \* the NULL of the schema

ASSUME BotsAreUsers == Bots \subseteq Users
ASSUME RowsAreFinite == IsFiniteSet(Users) /\ IsFiniteSet(Bids)
ASSUME PricesAreNat == Prices \subseteq Nat
ASSUME IncrementsArePositive == Increments \subseteq Nat \ {0}
ASSUME BalanceIsNat == InitialBalance \in Nat
ASSUME ExtensionsAreNat == MaxExtensions \in Nat
ASSUME NoneIsNoRow == None \notin Users \cup Auctions \cup Bids \cup Nat

VARIABLES
  auction,   \* the Auction table
  bid,       \* the Bid table
  order,     \* the Order table: UNIQUE("auctionId") makes it a map
  balance,   \* User.balance
  held,      \* bids with a BID_HOLD row in WalletTransaction
  released,  \* bids with a BID_RELEASE row in WalletTransaction
  finalizing,\* post-commit finalizes running in the memory of a process
  request    \* payOrder and buyNow requests between their steps

vars == <<auction, bid, order, balance, held, released, finalizing, request>>

wallet  == <<balance, held, released>>
memory  == <<finalizing, request>>

-----------------------------------------------------------------------------
(* Rows *)

NoAuction == [status |-> "ABSENT", seller |-> None, start |-> 0, price |-> 0,
              buyNow |-> None, inc |-> 0, winner |-> None, extends |-> 0,
              over |-> FALSE, payload |-> {}]
NoBid   == [status |-> "ABSENT", auction |-> None, user |-> None, price |-> 0]
NoOrder == [status |-> "ABSENT", buyer |-> None, price |-> 0, byHold |-> FALSE]
Idle    == [step |-> "IDLE", user |-> None, auction |-> None, price |-> 0,
            byHold |-> FALSE]

AuctionRow ==
  [status : {"ABSENT", "OPEN", "CLOSED", "DELETED"}, seller : Users \cup {None},
   start : Nat, price : Nat, buyNow : Nat \cup {None}, inc : Nat,
   winner : Users \cup {None}, extends : 0 .. MaxExtensions, over : BOOLEAN,
   payload : SUBSET SUBSET Bids]   \* {} for NULL, {losers} when set
BidRow   == [status : {"ABSENT", "LIVE", "OUT"}, auction : Auctions \cup {None},
             user : Users \cup {None}, price : Nat]
OrderRow == [status : {"ABSENT", "PENDING", "PAID", "CANCELLED"},
             buyer : Users \cup {None}, price : Nat, byHold : BOOLEAN]
Finalize == [auction : Auctions, losers : SUBSET Bids,
             step : {"RELEASE", "PERSIST", "CLEAR"}, retry : BOOLEAN]
Request  == [step : {"BUY", "PAY", "REOPEN"}, user : Users, auction : Auctions,
             price : Nat, byHold : BOOLEAN]

(* Bids with disqualifiedAt NULL, and the bids ORDER BY "bidPrice" DESC may put *)
(* first in a set of them: None stands for `bids[0]` of no bids.               *)
BidsOn(a) == {b \in Bids : bid[b].auction = a}
LiveBids(a) == {b \in BidsOn(a) : bid[b].status = "LIVE"}
FirstOf(S) ==
  IF S = {} THEN {None}
  ELSE {b \in S : \A c \in S : bid[c].price <= bid[b].price}
PriceOf_Default(b, default) == default   \* bug: the remaining bids forgotten
PriceOf(b, default) == IF b = None THEN default ELSE bid[b].price

(* CHECK constraints of the Auction table: an UPDATE that breaks one aborts. *)
PriceChecks(row) ==
  /\ row.price >= row.start
  /\ row.buyNow # None => row.buyNow >= row.price

(* holdForBid's test and the amounts releaseBidHold credits for a set of bids. *)
CanAfford(u, amount) == balance[u] >= amount
Amounts == [b \in Bids |-> bid[b].price]
OnHold(S) == SumFunctionOnSet(Amounts, S)
Refund_Again(S) ==       \* bug: the BID_RELEASE rows are not counted first
  [u \in Users |-> balance[u] + OnHold({b \in S : bid[b].user = u})]
Refund_FirstOnly(S) ==   \* bug: the loop returns after the first bid
  IF S = {} THEN balance
  ELSE LET b == CHOOSE x \in S : TRUE
       IN  [balance EXCEPT ![bid[b].user] = @ + bid[b].price]
Refund(S) ==
  [u \in Users |-> balance[u] + OnHold({b \in S \ released : bid[b].user = u})]
Disqualify_Nothing(S) == bid   \* bug: released, yet left in the race
Disqualify(S) ==
  [b \in Bids |-> IF b \in S THEN [bid[b] EXCEPT !.status = "OUT"] ELSE bid[b]]

Init ==
  /\ auction = [a \in Auctions |-> NoAuction]
  /\ bid = [b \in Bids |-> NoBid]
  /\ order = [a \in Auctions |-> NoOrder]
  /\ balance = [u \in Users |-> InitialBalance]
  /\ held = {}
  /\ released = {}
  /\ finalizing = {}
  /\ request = [r \in Requests |-> Idle]

-----------------------------------------------------------------------------
(* AuctionsService *)

CreateAuction(a, seller, start, buyNow, inc) ==
  /\ auction[a].status = "ABSENT"
  /\ buyNow # None => buyNow >= start
  /\ auction' = [auction EXCEPT ![a] =
       [NoAuction EXCEPT !.status = "OPEN", !.seller = seller, !.start = start,
          !.price = start, !.buyNow = buyNow, !.inc = inc]]
  /\ UNCHANGED <<bid, order, wallet, memory>>

(* The checks both placeBid and placeBidAsBot make under the row lock.  `now`  *)
(* is read before the lock, so an OPEN auction may be past its end.           *)
MayBid(a, u, p) ==
  /\ auction[a].status = "OPEN"
  /\ auction[a].seller # u
  /\ \E top \in FirstOf(LiveBids(a)) : top # None => bid[top].user # u
  /\ p >= auction[a].price + auction[a].inc

(* buildBidUpdateData: `near` when the end is at most ten seconds away. *)
AfterBid_Unlimited(a, p, near) ==   \* bug: the number of extensions not tested
  [auction[a] EXCEPT !.price = p, !.extends = IF near THEN @ + 1 ELSE @,
     !.over = IF near THEN FALSE ELSE @]
AfterBid(a, p, near) ==
  LET extend == near /\ auction[a].extends < MaxExtensions
  IN  [auction[a] EXCEPT !.price = p,
         !.extends = IF extend THEN @ + 1 ELSE @,
         !.over = IF extend THEN FALSE ELSE @]

RecordBid(a, u, p, b) ==
  /\ bid[b].status = "ABSENT"
  /\ bid' = [bid EXCEPT ![b] =
       [status |-> "LIVE", auction |-> a, user |-> u, price |-> p]]

HoldAndRaise(a, u, p, near, b) ==
  /\ CanAfford(u, p)
  /\ PriceChecks(AfterBid(a, p, near))
  /\ balance' = [balance EXCEPT ![u] = @ - p]
  /\ held' = held \cup {b}
  /\ auction' = [auction EXCEPT ![a] = AfterBid(a, p, near)]
  /\ UNCHANGED released

PlaceBid(a, u, p, near) ==
  /\ u \notin Bots
  /\ MayBid(a, u, p)
  /\ \E b \in Bids : RecordBid(a, u, p, b) /\ HoldAndRaise(a, u, p, near, b)
  /\ UNCHANGED <<order, memory>>

(* A bot that cannot pay: `return null` leaves the transaction to commit with *)
(* the bid row it inserted.                                                   *)
PlaceBidAsBot(a, u, p, near) ==
  /\ u \in Bots
  /\ MayBid(a, u, p)
  /\ \E b \in Bids :
       /\ RecordBid(a, u, p, b)
       /\ \/ HoldAndRaise(a, u, p, near, b)
          \/ ~CanAfford(u, p) /\ UNCHANGED <<auction, wallet>>
  /\ UNCHANGED <<order, memory>>

(* A field of the request that is None is left alone; with any bid on the      *)
(* auction, disqualified ones included, the prices must be left alone.         *)
PatchAuction(a, start, buyNow, inc, moveEnd) ==
  LET patched(new, old) == IF new = None THEN old ELSE new
      row == [auction[a] EXCEPT !.start = patched(start, @), !.price = patched(start, @),
                !.buyNow = patched(buyNow, @), !.inc = patched(inc, @),
                !.over = @ /\ ~moveEnd]
  IN  /\ auction[a].status = "OPEN"
      /\ BidsOn(a) # {} => start = None /\ buyNow = None
      /\ PriceChecks(row)
      /\ auction' = [auction EXCEPT ![a] = row]
      /\ UNCHANGED <<bid, order, wallet, memory>>

DeleteAuction(a) ==
  /\ auction[a].status \in {"OPEN", "CLOSED"}
  /\ BidsOn(a) = {}
  /\ order[a].status \notin {"PENDING", "PAID"}
  /\ auction' = [auction EXCEPT ![a] = [NoAuction EXCEPT !.status = "DELETED"]]
  /\ order' = [order EXCEPT ![a] = NoOrder]
  /\ UNCHANGED <<bid, wallet, memory>>

EndTimePasses(a) ==
  /\ auction[a].status = "OPEN"
  /\ ~auction[a].over
  /\ auction' = [auction EXCEPT ![a].over = TRUE]
  /\ UNCHANGED <<bid, order, wallet, memory>>

-----------------------------------------------------------------------------
(* OrdersService: closing *)

(* executeCloseInTransaction.  The INSERT of the order fails, and the whole    *)
(* close with it, when the auction has an order already.                       *)
Close(a) ==
  /\ auction[a].status = "OPEN"
  /\ \E top \in FirstOf(LiveBids(a)) :
       LET winner == IF top = None THEN None ELSE bid[top].user
           final  == PriceOf(top, auction[a].price)
           losers == {b \in LiveBids(a) : bid[b].user # winner}
           row    == [auction[a] EXCEPT !.status = "CLOSED", !.winner = winner,
                        !.price = final, !.payload = {}]
       IN  /\ PriceChecks(row)
           /\ auction' = [auction EXCEPT ![a] = row]
           /\ IF winner = None THEN UNCHANGED order
              ELSE /\ order[a].status = "ABSENT"
                   /\ order' = [order EXCEPT ![a] =
                        [NoOrder EXCEPT !.status = "PENDING", !.buyer = winner,
                           !.price = final]]
           /\ bid' = Disqualify(losers)
           /\ finalizing' = finalizing \cup
                {[auction |-> a, losers |-> losers, step |-> "RELEASE", retry |-> FALSE]}
  /\ UNCHANGED <<wallet, request>>

CloseExpired(a) == auction[a].over /\ Close(a)
CloseForAdmin(a) == Close(a)

SetPayload(a, payload) ==
  auction' = IF auction[a].status = "DELETED" THEN auction
             ELSE [auction EXCEPT ![a].payload = payload]

(* finalizeAuctionClose: the losers' holds in one transaction ...              *)
FinalizeRelease(f) ==
  /\ f.step = "RELEASE"
  /\ balance' = Refund(f.losers)
  /\ released' = released \cup f.losers
  /\ finalizing' = (finalizing \ {f}) \cup {[f EXCEPT !.step = "CLEAR"]}
  /\ UNCHANGED <<auction, bid, order, held, request>>

(* ... or an error before it commits: safeFinalizeAuctionClose persists the    *)
(* payload, a retry leaves the one it read in place.                           *)
FinalizeFails(f) ==
  /\ "db" \in Faults
  /\ f.step = "RELEASE"
  /\ finalizing' = (finalizing \ {f}) \cup
       (IF f.retry THEN {} ELSE {[f EXCEPT !.step = "PERSIST"]})
  /\ UNCHANGED <<auction, bid, order, wallet, request>>

FinalizePersist(f) ==
  /\ f.step = "PERSIST"
  /\ SetPayload(f.auction, {f.losers})
  /\ finalizing' = finalizing \ {f}
  /\ UNCHANGED <<bid, order, wallet, request>>

FinalizeClear(f) ==
  /\ f.step = "CLEAR"
  /\ SetPayload(f.auction, {})
  /\ finalizing' = finalizing \ {f}
  /\ UNCHANGED <<bid, order, wallet, request>>

(* persistPostCloseFinalizePayload or clearPostCloseFinalizePayload fails: the *)
(* error is logged and swallowed.                                              *)
PayloadWriteFails(f) ==
  /\ "db" \in Faults
  /\ f.step \in {"PERSIST", "CLEAR"}
  /\ finalizing' = finalizing \ {f}
  /\ UNCHANGED <<auction, bid, order, wallet, request>>

RetryFinalize_Takes(a) ==   \* bug: the payload is cleared before the finalize
  /\ auction[a].status = "CLOSED"
  /\ \E losers \in auction[a].payload :
       finalizing' = finalizing \cup
         {[auction |-> a, losers |-> losers, step |-> "RELEASE", retry |-> TRUE]}
  /\ SetPayload(a, {})
  /\ UNCHANGED <<bid, order, wallet, request>>
RetryFinalize(a) ==
  /\ auction[a].status = "CLOSED"
  /\ \E losers \in auction[a].payload :
       finalizing' = finalizing \cup
         {[auction |-> a, losers |-> losers, step |-> "RELEASE", retry |-> TRUE]}
  /\ UNCHANGED <<auction, bid, order, wallet, request>>

(* What both reopenings test under the auction lock. *)
MayReopen_AnyOrder(a) == auction[a].status = "CLOSED"   \* bug: order not tested
MayReopen(a) == auction[a].status = "CLOSED" /\ order[a].status = "PENDING"

(* The body cancelExpiredPendingOrders and reopenAuctionForFailedPayment share. *)
Reopen(a) ==
  /\ MayReopen(a)
  /\ \E top \in FirstOf(LiveBids(a)) :
       LET isAuctionWinner == /\ top # None
                              /\ bid[top].user = order[a].buyer
                              /\ bid[top].price = order[a].price
           out == IF isAuctionWinner THEN {top} ELSE {}
       IN  /\ \E next \in FirstOf(LiveBids(a) \ out) :
                LET row == [auction[a] EXCEPT !.status = "OPEN", !.winner = None,
                              !.over = FALSE, !.payload = {},
                              !.price = PriceOf(next, auction[a].start)]
                IN  PriceChecks(row) /\ auction' = [auction EXCEPT ![a] = row]
           /\ bid' = Disqualify(out)
           /\ balance' = Refund(out)
           /\ released' = released \cup out
  /\ order' = [order EXCEPT ![a].status = "CANCELLED"]
  /\ UNCHANGED <<held, finalizing>>

CancelExpiredPendingOrder(a) == Reopen(a) /\ UNCHANGED request

-----------------------------------------------------------------------------
(* OrdersService: buying and paying, one request slot each *)

Finish(r) == request' = [request EXCEPT ![r] = Idle]

BuyNowRead(r, u, a) ==
  /\ request[r] = Idle
  /\ auction[a].status = "OPEN" /\ ~auction[a].over
  /\ auction[a].buyNow \notin {None, 0}
  /\ CanAfford(u, auction[a].buyNow)
  /\ request' = [request EXCEPT ![r] =
       [Idle EXCEPT !.step = "BUY", !.user = u, !.auction = a,
          !.price = auction[a].buyNow]]
  /\ UNCHANGED <<auction, bid, order, wallet, finalizing>>

(* The row buyNow writes, at the price it read before taking the lock. *)
BoughtRow_AtCurrent(r) ==   \* bug: currentPrice left alone
  [auction[request[r].auction] EXCEPT !.status = "CLOSED",
     !.winner = request[r].user, !.payload = {}]
BoughtRow(r) ==
  [auction[request[r].auction] EXCEPT !.status = "CLOSED",
     !.winner = request[r].user, !.price = request[r].price, !.payload = {}]

BuyNowPossible_NoLock(r) ==   \* bug: the status not tested again under the lock
  /\ order[request[r].auction].status = "ABSENT"
  /\ PriceChecks(BoughtRow(r))
BuyNowPossible(r) ==
  /\ auction[request[r].auction].status = "OPEN"
  /\ order[request[r].auction].status = "ABSENT"
  /\ PriceChecks(BoughtRow(r))

BuyNowCommit(r) ==
  /\ request[r].step = "BUY"
  /\ BuyNowPossible(r)
  /\ auction' = [auction EXCEPT ![request[r].auction] = BoughtRow(r)]
  /\ order' = [order EXCEPT ![request[r].auction] =
       [NoOrder EXCEPT !.status = "PENDING", !.buyer = request[r].user,
          !.price = request[r].price]]
  /\ Finish(r)
  /\ UNCHANGED <<bid, wallet, finalizing>>

BuyNowRejected(r) ==
  /\ request[r].step = "BUY"
  /\ ~BuyNowPossible(r) \/ "db" \in Faults
  /\ Finish(r)
  /\ UNCHANGED <<auction, bid, order, wallet, finalizing>>

(* findForPay and findWinningBid, both before the transaction. *)
PayRead(r, u, a) ==
  /\ request[r] = Idle
  /\ order[a].status = "PENDING"
  /\ order[a].buyer = u
  /\ \E top \in FirstOf(LiveBids(a)) :
       request' = [request EXCEPT ![r] =
         [step |-> "PAY", user |-> u, auction |-> a, price |-> order[a].price,
          byHold |-> /\ top # None
                     /\ bid[top].user = u
                     /\ bid[top].price = order[a].price]]
  /\ UNCHANGED <<auction, bid, order, wallet, finalizing>>

(* Mark PAID, charge the buyer (through the hold, or directly and then every   *)
(* live bid of the auction is disqualified and released), credit the seller.   *)
PayCommit(r) ==
  LET q == request[r]
      a == q.auction
      out == IF q.byHold THEN {} ELSE LiveBids(a)
      charged == IF q.byHold THEN 0 ELSE q.price
      seller == auction[a].seller
      refunded == Refund(out)
  IN  /\ q.step = "PAY"
      /\ order[a].status = "PENDING"
      /\ q.byHold \/ CanAfford(q.user, q.price)
      /\ order' = [order EXCEPT ![a].status = "PAID", ![a].byHold = q.byHold]
      /\ bid' = Disqualify(out)
      /\ released' = released \cup out
      /\ balance' = [u \in Users |-> refunded[u]
                      - (IF u = q.user THEN charged ELSE 0)
                      + (IF u = seller THEN q.price ELSE 0)]
      /\ Finish(r)
      /\ UNCHANGED <<auction, held, finalizing>>

PayConflict(r) ==
  /\ request[r].step = "PAY"
  /\ order[request[r].auction].status # "PENDING"
  /\ Finish(r)
  /\ UNCHANGED <<auction, bid, order, wallet, finalizing>>

(* The transaction rolls back and the catch block goes on to reopen. *)
PayFails(r) ==
  /\ request[r].step = "PAY"
  /\ order[request[r].auction].status = "PENDING"
  /\ \/ "db" \in Faults
     \/ ~request[r].byHold /\ ~CanAfford(request[r].user, request[r].price)
  /\ request' = [request EXCEPT ![r].step = "REOPEN"]
  /\ UNCHANGED <<auction, bid, order, wallet, finalizing>>

PayReopen(r) ==
  /\ request[r].step = "REOPEN"
  /\ Reopen(request[r].auction)
  /\ Finish(r)

(* Nothing left to reopen, or the reopening itself fails and is only logged. *)
PayGivesUp(r) ==
  LET a == request[r].auction
  IN  /\ request[r].step = "REOPEN"
      /\ ~MayReopen(a) \/ "db" \in Faults
      /\ Finish(r)
      /\ UNCHANGED <<auction, bid, order, wallet, finalizing>>

(* A process stops: what lived in its memory is gone, the tables stay. *)
Crash ==
  /\ "crash" \in Faults
  /\ finalizing' = {}
  /\ request' = [r \in Requests |-> Idle]
  /\ UNCHANGED <<auction, bid, order, wallet>>

-----------------------------------------------------------------------------
AuctionStep(a) ==
  \/ \E s \in Users, p \in Prices, n \in Prices \cup {None}, i \in Increments :
       CreateAuction(a, s, p, n, i)
  \/ \E u \in Users, p \in Prices, near \in BOOLEAN :
       PlaceBid(a, u, p, near) \/ PlaceBidAsBot(a, u, p, near)
  \/ \E p, n \in Prices \cup {None}, i \in Increments \cup {None}, m \in BOOLEAN :
       PatchAuction(a, p, n, i, m)
  \/ DeleteAuction(a)
  \/ EndTimePasses(a)
  \/ CloseExpired(a)
  \/ CloseForAdmin(a)
  \/ RetryFinalize(a)
  \/ CancelExpiredPendingOrder(a)

FinalizeStep(f) ==
  \/ FinalizeRelease(f) \/ FinalizeFails(f) \/ FinalizePersist(f)
  \/ FinalizeClear(f) \/ PayloadWriteFails(f)

RequestStep(r) ==
  \/ \E u \in Users, a \in Auctions : BuyNowRead(r, u, a) \/ PayRead(r, u, a)
  \/ BuyNowCommit(r) \/ BuyNowRejected(r)
  \/ PayCommit(r) \/ PayConflict(r) \/ PayFails(r)
  \/ PayReopen(r) \/ PayGivesUp(r)

Next ==
  \/ \E a \in Auctions : AuctionStep(a)
  \/ \E f \in finalizing : FinalizeStep(f)
  \/ \E r \in Requests : RequestStep(r)
  \/ Crash

Spec == Init /\ [][Next]_vars

-----------------------------------------------------------------------------
(* Properties *)

(* The rows have the types of the schema; balance is one amount per user, and *)
(* what the amounts are is FundsConserved's business.                          *)
TypeOK ==
  /\ auction \in [Auctions -> AuctionRow]
  /\ bid \in [Bids -> BidRow]
  /\ order \in [Auctions -> OrderRow]
  /\ DOMAIN balance = Users
  /\ held \subseteq Bids
  /\ released \subseteq Bids
  /\ finalizing \subseteq Finalize
  /\ request \in [Requests -> Request \cup {Idle}]

(* A person's bid that still competes has its hold in the ledger and no        *)
(* release: no path (close, retry, reopen, direct payment) pays back the bid   *)
(* of somebody who may yet win with it.                                        *)
LiveBidsAreBacked ==
  \A b \in Bids : bid[b].status = "LIVE" /\ bid[b].user \notin Bots
                   => b \in held /\ b \notin released

(* An active order and a closed auction with a winner are the same fact, at    *)
(* the same price: no step that wins, cancels, pays or deletes leaves one      *)
(* without the other.                                                          *)
OrderMatchesAuction ==
  \A a \in Auctions :
    /\ order[a].status \in {"PENDING", "PAID"}
         <=> auction[a].status = "CLOSED" /\ auction[a].winner # None
    /\ order[a].status \in {"PENDING", "PAID"}
         => order[a].buyer = auction[a].winner /\ order[a].price = auction[a].price

(* No bot has bid more than it had: every bid there is was held.               *)
EveryBidIsHeld == \A b \in Bids : bid[b].status # "ABSENT" => b \in held

(* While an auction is open its currentPrice is that of the best live bid, or  *)
(* the start price without one: minBid is computed from it, also after a       *)
(* reopening has taken the best bid out.                                       *)
PriceTracks(a) ==
  auction[a].status = "OPEN" =>
    IF LiveBids(a) = {} THEN auction[a].price = auction[a].start
    ELSE /\ \E b \in LiveBids(a) : auction[a].price = bid[b].price
         /\ \A b \in LiveBids(a) : auction[a].price >= bid[b].price
PriceTracksTopBid == EveryBidIsHeld => \A a \in Auctions : PriceTracks(a)

(* The hold a payment consumed: the winner's bid of an order paid through it.  *)
Spent(b) ==
  LET a == bid[b].auction
  IN  /\ bid[b].status = "LIVE"
      /\ order[a].status = "PAID" /\ order[a].byHold
      /\ bid[b].user = order[a].buyer /\ bid[b].price = order[a].price

Owned == SumFunction(balance)
Escrow == OnHold({b \in held \ released : ~Spent(b)})

(* Money is neither made nor lost by bidding, closing, retrying a finalize,    *)
(* reopening, buying or paying: what users own and what is on hold for them    *)
(* adds up to what they were given.                                            *)
FundsConserved ==
  EveryBidIsHeld => Owned + Escrow = InitialBalance * Cardinality(Users)

(* A paid order is final: a payment racing a cancellation, another payment or  *)
(* a late reopening never undoes the sale or sells the auction again.          *)
PaidStays ==
  \A a \in Auctions : order[a].status = "PAID" =>
    /\ order'[a] = order[a]
    /\ auction'[a].status = "CLOSED" /\ auction'[a].winner = auction[a].winner
PaidIsFinal == [][PaidStays]_vars

-----------------------------------------------------------------------------
(* The sale of each auction as the contract sees it. *)
SaleOf(a) ==
  LET row == auction[a]
      sold == order[a].status \in {"PENDING", "PAID"}
      phase == CASE row.status = "ABSENT"  -> "unlisted"
                 [] row.status = "OPEN"    -> "open"
                 [] row.status = "DELETED" -> "removed"
                 [] OTHER -> IF row.winner = None THEN "unsold"
                             ELSE IF order[a].status = "PAID" THEN "sold" ELSE "awarded"
  IN  [phase |-> phase, buyer |-> IF sold THEN order[a].buyer ELSE None,
       price |-> IF sold THEN order[a].price ELSE 0]

Contract == INSTANCE AuctionContract
              WITH Nobody <- None, sale <- [a \in Auctions |-> SaleOf(a)]

(* Every step of the backend is one step of the contract for one auction, or   *)
(* none: no interleaving of closes, purchases, payments and reopenings sells   *)
(* to two buyers, revives a paid sale or skips the award.                      *)
ImplementsContract == Contract!Spec

-----------------------------------------------------------------------------
(* Statements of the repository the code does not live up to *)

(* "Release of the losing bids' holds after the close": once an auction is     *)
(* sold, paid and finalized no hold on it is left but the one that paid.       *)
NoHoldOutlivesSale ==
  \A a \in Auctions :
    order[a].status = "PAID" /\ (\A f \in finalizing : f.auction # a)
      /\ auction[a].payload = {}
    => \A b \in BidsOn(a) : b \in held \ released => Spent(b)

-----------------------------------------------------------------------------
(* Progress.  The cron that closes runs every minute and the one that retries  *)
(* every five; a finalize goes on until it ends or its process stops, and the  *)
(* database does not fail every release for ever.                              *)
FinalizeGoesOn == \E f \in finalizing : FinalizePersist(f) \/ FinalizeClear(f)
FinalizeReleases == \E f \in finalizing : FinalizeRelease(f)

Fairness ==
  /\ \A a \in Auctions : WF_vars(CloseExpired(a)) /\ WF_vars(RetryFinalize(a))
  /\ WF_vars(FinalizeGoesOn)
  /\ SF_vars(FinalizeReleases)

FairSpec == Spec /\ Fairness

Expired(a) == auction[a].status = "OPEN" /\ auction[a].over

(* "When set, post-commit finalize must still run": failed releases and failed *)
(* payload writes notwithstanding, a persisted finalize ends with its holds    *)
(* released unless the sale falls through and the auction is reopened.         *)
PersistedFinalizeRuns ==
  \A a \in Auctions, b \in Bids :
    (/\ auction[a].status = "CLOSED" /\ b \in UNION auction[a].payload
     /\ order[a].status # "CANCELLED")
      ~> b \in released \/ order[a].status = "CANCELLED"

(* "Every minute: check for ended auctions, determine the winner, create the   *)
(* order" - also for an auction that was reopened.                             *)
EveryExpiredIsClosed == \A a \in Auctions : Expired(a) ~> ~Expired(a)
=============================================================================
