---------------------------- MODULE LiveAuction ----------------------------
(***************************************************************************)
(* The price of an auction on its detail page: bids that commit and are    *)
(* published later, the fan-out (EventsFanout), the page's stream          *)
(* (SseClient) that breaks and comes back to any instance, the page's own  *)
(* optimistic bids, and the cached answer of the two GETs with its         *)
(* refetches.  From the auction's start to its first award.                *)
(*                                                                         *)
(* An accepted connection and its onopen are one step, and so are the      *)
(* delivery of a message and its handler; a connection that broke is       *)
(* noticed by its instance at any later time.  The clock is left out: the  *)
(* page's countdown, which knows of no extension, may run out any time.    *)
(***************************************************************************)
EXTENDS SseClient, EventsFanout

CONSTANTS
  AuctionStream, \* the page's stream of the auction
  Amounts,       \* amounts that are bid: their number bounds the bids
  BuyNowPrice,   \* no bid above it commits
  HistoryLimit,  \* entries the history keeps when an event arrives
  Clicks         \* own bids under way at once: the button is never disabled

ASSUME PageHasStream == AuctionStream \in Streams /\ AuctionStream \in Counted
ASSUME PricesAreNat ==
  /\ Amounts \subseteq Nat \ {0} /\ HistoryLimit \in Nat \ {0}
  /\ BuyNowPrice \in Nat

VARIABLES
  bids,    \* amounts of the committed bids; the start price is 0
  final,   \* the final price of the closed auction, or None
  outbox,  \* messages of committed steps that are not published yet
  page,    \* "AWAY", "LOADING", or the content's auctionStatus: "ACTIVE", or
           \* closed because the countdown is "EXPIRED" or it is "CLOSED"
  link,    \* the request behind the page's open source
  shown,   \* currentPrice and bidHistory of AuctionDetailContent
  data,    \* the cached answer of useAuctionDetail
  fetch,   \* a fetch under way: what its two GETs have read
  own,     \* own bids between the click and the answer
  steady,  \* since it was opened no own bid was accepted, no refetch answered, and
           \* no refusal took the price of a purchase off the page (history)
  stray,   \* amounts of refused own bids that another one was to go back to (history)
  heard,   \* bids it learnt of by GET or event since it was opened (history)
  late     \* events since it last heard of a highest bid (history)

server == <<bids, final, outbox>>
client == <<enabled, source, timer, delay, reconnectingCount>>
query  == <<data, fetch>>
screen == <<page, link>>
learnt == <<heard, late>>
view   == <<shown, learnt>>
user   == <<own, steady, stray>>
liveVars == <<client, fanout, server, query, screen, view, user>>

Highest(S) == CHOOSE x \in S : \A y \in S : y <= x
Price == IF final = None THEN Highest({0} \cup bids) ELSE final
NewBid(p) == [type |-> "newBid", amount |-> p]
AuctionClosed(p) == [type |-> "auctionClosed", amount |-> p]
Descending(S) ==   \* the GET of the bids, highest first
  [i \in 1 .. Cardinality(S) |-> CHOOSE x \in S : Cardinality({y \in S : y >= x}) = i]
InHistory == {shown.history[i] : i \in DOMAIN shown.history}

Blank == [price |-> 0, history |-> <<>>]
NoData == [price |-> 0, final |-> None, bids |-> None]
NoFetch == [on |-> FALSE, auction |-> None, bids |-> None]
Fetching == [NoFetch EXCEPT !.on = TRUE]

(* displayCurrentPrice *)
Display_Current == shown.price   \* bug: the history is not looked at
Display == Highest({shown.price} \cup InHistory)

LiveInit ==
  /\ Init /\ FanoutInit
  /\ bids = {} /\ final = None /\ outbox = {}
  /\ page = "AWAY" /\ link = "NONE"
  /\ shown = Blank
  /\ data = NoData /\ fetch = NoFetch
  /\ own = {} /\ steady = TRUE /\ stray = {} /\ heard = {} /\ late = 0

-----------------------------------------------------------------------------
(* The backend *)

Commit(p) ==
  /\ final = None
  /\ p > Price /\ p <= BuyNowPrice   \* Auction_buy_now_chk
  /\ bids' = bids \cup {p}
  /\ outbox' = outbox \cup {NewBid(p)}
  /\ UNCHANGED final

OtherBids(p) == Commit(p) /\ UNCHANGED <<client, fanout, query, screen, view, user>>

(* The cron closes it at its price, or somebody buys it.                       *)
Closes(p) ==
  /\ final = None
  /\ final' = p
  /\ outbox' = outbox \cup {AuctionClosed(p)}
  /\ UNCHANGED <<bids, client, fanout, query, screen, view, user>>

(* emitNewBid after a query of its own, emitAuctionClosed: in any order, and a *)
(* failed PUBLISH is only logged.                                              *)
Publishes(m) ==
  /\ m \in outbox
  /\ outbox' = outbox \ {m}
  /\ Publish(m) \/ UNCHANGED fanout
  /\ UNCHANGED <<bids, final, client, query, screen, view, user>>

-----------------------------------------------------------------------------
(* The page and its connection *)

Mounted == page \in {"ACTIVE", "EXPIRED", "CLOSED"}

(* useAuctionEvents is enabled while the auction is active on the page.        *)
Turns(to) ==
  /\ page' = to
  /\ IF page = "ACTIVE" /\ to # "ACTIVE" THEN Unmount(AuctionStream) /\ link' = "NONE"
     ELSE IF page # "ACTIVE" /\ to = "ACTIVE" THEN Mount(AuctionStream) /\ UNCHANGED link
     ELSE UNCHANGED <<client, link>>

Show(answer) == shown' = [price |-> answer.price, history |-> Descending(answer.bids)]

(* AuctionDetailContent is mounted on an answer.                               *)
Status(answer) == IF answer.final # None THEN {"CLOSED"} ELSE {"ACTIVE", "EXPIRED"}
Starts(answer) ==
  /\ \E to \in Status(answer) : Turns(to)
  /\ Show(answer)
  /\ heard' = answer.bids /\ late' = 0
  /\ steady' = TRUE
  /\ UNCHANGED <<own, stray>>

(* The page is opened: on the cached answer, refetched if it is stale, or it   *)
(* has to wait for one.                                                        *)
PageOpens ==
  /\ page = "AWAY"
  /\ IF data = NoData
     THEN /\ page' = "LOADING" /\ fetch' = IF fetch.on THEN fetch ELSE Fetching
          /\ UNCHANGED <<client, link, view, user>>
     ELSE /\ Starts(data)
          /\ fetch' \in {fetch, IF fetch.on THEN fetch ELSE Fetching}
  /\ UNCHANGED <<fanout, server, data>>

CacheExpires ==
  /\ page = "AWAY" /\ ~fetch.on
  /\ data' = NoData
  /\ UNCHANGED <<client, fanout, server, fetch, screen, view, user>>

Connects(c, i) ==
  /\ Opens(AuctionStream)
  /\ Subscribe(c, i)
  /\ link' = c
  /\ UNCHANGED <<server, query, page, view, user>>

ConnectionBreaks ==
  /\ Breaks(AuctionStream)
  /\ link' = "NONE"
  /\ UNCHANGED <<fanout, server, query, page, view, user>>

Reconnects ==
  TimerFires(AuctionStream) /\ UNCHANGED <<fanout, server, query, screen, view, user>>

(* Other pages come and go, and so do requests the page has left behind.       *)
OtherSubscribes(c, i) ==
  Subscribe(c, i) /\ UNCHANGED <<client, server, query, screen, view, user>>
Departs(c) ==
  c # link /\ Unsubscribe(c) /\ UNCHANGED <<client, server, query, screen, view, user>>

(* The user leaves, or an error takes the content's place, and with it go its  *)
(* states; answers to its own bids find nobody.                                *)
Vanishes ==
  /\ Turns("AWAY")
  /\ shown' = Blank /\ heard' = {} /\ late' = 0
  /\ own' = {} /\ steady' = TRUE /\ stray' = {}

Leaves ==
  /\ page # "AWAY"
  /\ Vanishes
  /\ UNCHANGED <<fanout, server, query>>

CountdownEnds ==
  /\ page = "ACTIVE"
  /\ Turns("EXPIRED")
  /\ UNCHANGED <<fanout, server, query, view, user>>

-----------------------------------------------------------------------------
(* What the page makes of a message *)

Hears(i) == link # "NONE" /\ link \in Audience(i)

Keep(s) == IF Len(s) > HistoryLimit THEN SubSeq(s, 1, HistoryLimit) ELSE s

NewBidArrives(i) ==
  LET amount == Head(bus[i]).amount
  IN  /\ Receive(i)
      /\ Hears(i) /\ Head(bus[i]).type = "newBid"
      /\ shown' = [price |-> amount, history |-> Keep(<<amount>> \o shown.history)]
      /\ heard' = heard \cup {amount}
      /\ late' = IF \A b \in heard : b <= amount THEN 0 ELSE late + 1
      /\ UNCHANGED <<client, server, query, screen, user>>

AuctionClosedArrives(i) ==
  /\ Receive(i)
  /\ Hears(i) /\ Head(bus[i]).type = "auctionClosed"
  /\ shown' = [shown EXCEPT !.price = Head(bus[i]).amount]
  /\ Turns("CLOSED")
  /\ UNCHANGED <<server, query, learnt, user>>

Unheard(i) ==
  Receive(i) /\ ~Hears(i) /\ UNCHANGED <<client, server, query, screen, view, user>>

-----------------------------------------------------------------------------
(* Own bids: handleBid and usePlaceBid *)

Bids(p) ==
  /\ page = "ACTIVE"
  /\ p > Display
  /\ \E k \in Clicks \ {o.click : o \in own} :
       own' = own \cup {[click |-> k, amount |-> p, before |-> shown.price, done |-> FALSE]}
  /\ shown' = [shown EXCEPT !.price = p]
  /\ UNCHANGED <<client, fanout, server, query, screen, learnt, steady, stray>>

OwnCommits(o) ==
  /\ ~o.done
  /\ Commit(o.amount)
  /\ own' = (own \ {o}) \cup {[o EXCEPT !.done = TRUE]}
  /\ UNCHANGED <<client, fanout, query, screen, view, steady, stray>>

(* A refetch under way is cancelled for the new one.                           *)
OwnSucceeds(o) ==
  /\ o.done
  /\ own' = own \ {o}
  /\ shown' = [shown EXCEPT !.price = o.amount]
  /\ steady' = FALSE
  /\ fetch' = Fetching
  /\ UNCHANGED <<client, fanout, server, data, screen, learnt, stray>>

RollBack_Nothing(o) == shown   \* bug: the optimistic price stays
RollBack(o) ==
  IF shown.price = o.amount THEN [shown EXCEPT !.price = o.before] ELSE shown

(* What the comparison of numbers in RollBack does not see: the price of a      *)
(* purchase the page has heard of, or an own bid that was refused before.      *)
TakesBack(o) == page = "CLOSED" /\ shown.price = o.amount /\ final = o.amount /\ final \notin bids
LeftTo(o) == {o.amount} \cap {d.before : d \in own \ {o}}

(* Refused by the backend, or the answer is lost on the way.                   *)
OwnFails(o) ==
  /\ own' = own \ {o}
  /\ shown' = RollBack(o)
  /\ steady' = (steady /\ ~TakesBack(o))
  /\ stray' = stray \cup LeftTo(o)
  /\ UNCHANGED <<client, fanout, server, query, screen, learnt>>

-----------------------------------------------------------------------------
(* useAuctionDetail *)

(* Two GETs that see the auction and the bids at moments of their own ...      *)
FetchReads ==
  /\ fetch.on
  /\ \/ /\ fetch.auction = None
        /\ fetch' = [fetch EXCEPT !.auction = [price |-> Price, final |-> final]]
     \/ /\ fetch.bids = None
        /\ fetch' = [fetch EXCEPT !.bids = bids]
  /\ UNCHANGED <<client, fanout, server, data, screen, view, user>>

Answer == [price |-> fetch.auction.price, final |-> fetch.auction.final, bids |-> fetch.bids]

(* ... and the content is mounted on the answer, or takes it over; it may not   *)
(* do so when the price and the bids are the cached ones, whatever the status. *)
(* A moved end restarts the countdown.                                         *)
SameAsCached == Answer.price = data.price /\ Answer.bids = data.bids
FetchAnswers ==
  /\ fetch.on /\ fetch.auction # None /\ fetch.bids # None
  /\ data' = Answer /\ fetch' = NoFetch
  /\ \/ page = "AWAY" /\ UNCHANGED <<client, screen, view, user>>
     \/ page = "LOADING" /\ Starts(Answer)
     \/ /\ Mounted
        /\ IF page = "CLOSED" THEN Turns("CLOSED") ELSE \E to \in Status(Answer) : Turns(to)
        /\ Show(Answer) \/ (SameAsCached /\ UNCHANGED shown)
        /\ steady' = FALSE
        /\ UNCHANGED <<learnt, own, stray>>
  /\ UNCHANGED <<fanout, server>>

(* A failed refetch replaces the page by an error.                             *)
FetchFails ==
  /\ fetch.on
  /\ fetch' = NoFetch
  /\ Vanishes
  /\ UNCHANGED <<fanout, server, data>>

-----------------------------------------------------------------------------
ServerStep ==
  \/ \E p \in Amounts : OtherBids(p)
  \/ \E p \in {Price, BuyNowPrice} : Closes(p)
  \/ \E m \in outbox : Publishes(m)

StreamStep ==
  \/ ConnectionBreaks \/ Reconnects
  \/ \E c \in Conns, i \in Instances : Connects(c, i) \/ OtherSubscribes(c, i)
  \/ \E c \in Conns : Departs(c)
  \/ \E i \in Instances : NewBidArrives(i) \/ AuctionClosedArrives(i) \/ Unheard(i)

PageStep ==
  \/ PageOpens \/ Leaves \/ CountdownEnds \/ CacheExpires
  \/ \E p \in Amounts : Bids(p)
  \/ \E o \in own : OwnCommits(o) \/ OwnSucceeds(o) \/ OwnFails(o)
  \/ FetchReads \/ FetchAnswers \/ FetchFails

LiveNext == ServerStep \/ StreamStep \/ PageStep

LiveSpec == LiveInit /\ [][LiveNext]_liveVars

-----------------------------------------------------------------------------
(* Properties *)

Prices == Amounts \cup {0, BuyNowPrice}
Message == [type : {"newBid", "auctionClosed"}, amount : Prices]
LiveTypeOK ==
  /\ TypeOK /\ FanoutTypeOK
  /\ \A i \in Instances : bus[i] \in Seq(Message)
  /\ bids \subseteq Amounts /\ final \in Prices \cup {None} /\ outbox \subseteq Message
  /\ page \in {"AWAY", "LOADING", "ACTIVE", "EXPIRED", "CLOSED"}
  /\ link \in Conns \cup {"NONE"}
  /\ shown \in [price : Prices, history : Seq(Amounts)]
  /\ data \in [price : Prices, final : Prices \cup {None}, bids : (SUBSET Amounts) \cup {None}]
  /\ fetch \in [on : BOOLEAN, bids : (SUBSET Amounts) \cup {None},
                auction : [price : Prices, final : Prices \cup {None}] \cup {None}]
  /\ own \subseteq [click : Clicks, amount : Amounts, before : Prices, done : BOOLEAN]
  /\ steady \in BOOLEAN /\ stray \subseteq Amounts /\ heard \subseteq Amounts /\ late \in Nat

(* The page shows a price the auction had or an own bid that is under way,      *)
(* whatever events and answers cross it, and whichever own bids are refused in *)
(* whatever order. Only one thing leaves a price there that nobody bid: an own *)
(* bid clicked while another was shown, which is refused after it.             *)
Had == {0} \cup bids \cup ({final} \ {None})
Pending == {o.amount : o \in own}
ShownIsBid == Mounted => Display \in Had \cup Pending \cup stray

(* A page that has heard of every bid (and of the close) shows the price,      *)
(* though events arrive out of order, twice, and from different instances, and *)
(* though any number of its own bids were refused; as long as fewer late       *)
(* events pass than the history keeps.  Excluded are what does take it back:   *)
(* accepted own bids and refetches, as the answer of a GET may be older than   *)
(* an event and still replaces it; the stray price above; and a refused own    *)
(* bid of exactly the price at which somebody bought.                          *)
WatcherSeesHighest ==
  /\ Mounted /\ steady /\ own = {} /\ shown.price \notin stray /\ late < HistoryLimit
  /\ bids \subseteq heard
  /\ final # None => page = "CLOSED"
  => Display = Price
=============================================================================
