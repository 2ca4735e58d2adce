------------------------------ MODULE MainPage ------------------------------
(***************************************************************************)
(* What the main page and the lists show of auctions without asking the    *)
(* server again: a bid of one's own and the events of the auction in front *)
(* are written into the cached lists, and a heart is changed before the    *)
(* server has agreed; reads of the main list every so often overtake them. *)
(***************************************************************************)
EXTENDS Integers, FiniteSets, Sequences

CONSTANTS
  Cards,      \* auctions on the page
  MaxHappens, \* bound on bids, on changes of hearts, and on lost calls and events, together
  MaxMishaps  \* bound on lost calls and events and on changes by another device

ASSUME MainPageBounds == {MaxHappens, MaxMishaps} \subseteq Nat

VARIABLES
  bids,     \* number of bids for the auction in front; the k-th is for price k
  toEmit,   \* committed bids whose event is still to be published
  wire,     \* events on their way to the page: [price, count]
  wished,   \* the auctions in Wishlist
  main,     \* the cached main list: price and count of the auction in front, hearts
  list,     \* the same in the cached list of the explore page
  my,       \* the cached wishlist
  reread,   \* the call for the main list: none, asked, or the answer on its way
  own,      \* the user's bid under way
  toggle,   \* the change under way of each heart
  toggles, mishaps,
  here,     \* whether the page stays in front; behind others nothing is read again
  crossed   \* whether the main list was asked for as nobody, or while a heart was changing

mainPageVars == <<bids, toEmit, wire, wished, main, list, my, reread, own,
                  toggle, toggles, mishaps, here, crossed>>

Hearts == [Cards -> BOOLEAN]
View == [price : 0 .. MaxHappens, count : 0 .. MaxHappens + 1, heart : Hearts]
NoToggle == [step |-> "none"]
NoRead == [step |-> "none"]

(* The page comes with the main list the server of the site has read, which    *)
(* knows the user only where cookies are passed on; the lists are read by the  *)
(* browser.                                                                    *)
MainPageInit ==
  /\ bids = 0 /\ toEmit = {} /\ wire = <<>>
  /\ wished \in SUBSET Cards
  /\ list = [price |-> 0, count |-> 0, heart |-> [c \in Cards |-> c \in wished]]
  /\ \E known \in BOOLEAN :
       /\ main = [list EXCEPT !.heart = [c \in Cards |-> known /\ @[c]]]
       /\ crossed = (main # list)
  /\ my = {}
  /\ reread = NoRead /\ own = [step |-> "none"]
  /\ toggle = [c \in Cards |-> NoToggle]
  /\ toggles = 0 /\ mishaps = 0
  /\ here \in BOOLEAN

Happens ==
  bids + toggles + mishaps + (IF own.step = "asked" THEN 1 ELSE 0) < MaxHappens
AMishap == Happens /\ mishaps < MaxMishaps /\ mishaps' = mishaps + 1
HeartsStay == UNCHANGED <<wished, my, toggle, toggles, here, crossed>>
BidsStay == UNCHANGED <<bids, toEmit, wire, own, here>>

-----------------------------------------------------------------------------
(* The server                                                                  *)

(* getMainAuctions and toSummary, with getWishlistedMap.                       *)
MainNow == [price |-> bids, count |-> bids, heart |-> [c \in Cards |-> c \in wished]]

(* A bid of somebody else.                                                     *)
OthersBid ==
  /\ Happens
  /\ bids' = bids + 1
  /\ toEmit' = toEmit \cup {bids + 1}
  /\ UNCHANGED <<wire, main, list, reread, own, mishaps>> /\ HeartsStay

(* countByAuctionId                                                            *)
Counted(k) == bids

(* After the commit the bids are counted and the event is published, in the    *)
(* order the requests come to it.                                              *)
Emits(k) ==
  /\ k \in toEmit
  /\ toEmit' = toEmit \ {k}
  /\ \/ wire' = Append(wire, [price |-> k, count |-> Counted(k)]) /\ UNCHANGED mishaps
     \/ AMishap /\ UNCHANGED wire
  /\ UNCHANGED <<bids, main, list, reread, own>> /\ HeartsStay

-----------------------------------------------------------------------------
(* Bids on the page                                                            *)

(* updateMainCacheAuctionBid, updateListCacheAuctionBid                        *)
WithBid(view, price, count) == [view EXCEPT !.price = price, !.count = count]

(* FeaturedAuction: an event sets the price and the count.                     *)
NewBidArrives ==
  /\ wire # <<>>
  /\ wire' = Tail(wire)
  /\ main' = WithBid(main, Head(wire).price, Head(wire).count)
  /\ UNCHANGED <<bids, toEmit, list, reread, own, mishaps>> /\ HeartsStay

(* handleBid: the lowest bid above the price shown. Its price is refused       *)
(* where somebody was faster.                                                  *)
BidsHere ==
  /\ own.step = "none" /\ Happens
  /\ own' = [step |-> "asked", price |-> main.price + 1]
  /\ UNCHANGED <<bids, toEmit, wire, main, list, reread, mishaps>> /\ HeartsStay
IsHigher == own.price > bids
BidServed ==
  /\ own.step = "asked"
  /\ IF IsHigher
     THEN /\ bids' = own.price
          /\ toEmit' = toEmit \cup {own.price}
          /\ own' = [own EXCEPT !.step = "placed"]
     ELSE /\ own' = [own EXCEPT !.step = "refused"]
          /\ UNCHANGED <<bids, toEmit>>
  /\ UNCHANGED <<wire, main, list, reread, mishaps>> /\ HeartsStay

(* usePlaceBid: one's own bid is counted on top of what is shown, whether its  *)
(* event has come already or not. Without an answer nothing is written.        *)
BidAnswered ==
  /\ own.step \in {"placed", "refused"}
  /\ own' = [step |-> "none"]
  /\ \/ /\ own.step = "placed"
        /\ main' = WithBid(main, own.price, main.count + 1)
        /\ list' = WithBid(list, own.price, list.count + 1)
        /\ UNCHANGED mishaps
     \/ own.step = "refused" /\ UNCHANGED <<main, list, mishaps>>
     \/ AMishap /\ UNCHANGED <<main, list>>
  /\ UNCHANGED <<bids, toEmit, wire, reread>> /\ HeartsStay

-----------------------------------------------------------------------------
(* The main list is read again every half minute.                              *)

Changing == {c \in Cards : toggle[c].step # "none"}

Rereads_Once ==   \* bug: no refetchInterval
  /\ here /\ reread = NoRead /\ mishaps = 0 /\ main.price = 0
  /\ reread' = [step |-> "asked"]
  /\ crossed' = (crossed \/ Changing # {})
  /\ UNCHANGED <<wished, main, list, my, toggle, toggles, mishaps>> /\ BidsStay
Rereads ==
  /\ here /\ reread = NoRead
  /\ reread' = [step |-> "asked"]
  /\ crossed' = (crossed \/ Changing # {})
  /\ UNCHANGED <<wished, main, list, my, toggle, toggles, mishaps>> /\ BidsStay
MainServed ==
  /\ reread.step = "asked"
  /\ reread' = [step |-> "served", main |-> MainNow]
  /\ UNCHANGED <<main, list, mishaps>> /\ BidsStay /\ HeartsStay
MainArrives ==
  /\ reread.step = "served"
  /\ reread' = NoRead
  /\ main' = reread.main
  /\ UNCHANGED <<list, mishaps>> /\ BidsStay /\ HeartsStay

-----------------------------------------------------------------------------
(* Hearts: useWishlistToggle                                                   *)

(* updateMainCacheWishlist, updateListCacheWishlist                            *)
WithHeart(view, c, wishes) == [view EXCEPT !.heart[c] = wishes]

(* onMutate: calls under way are given up, the state before is kept, and the   *)
(* heart changes at once. A heart that is changing is disabled.                *)
GiveUp_Nothing == reread   \* bug: cancelQueries left out
GiveUp == NoRead
Toggles(c) ==
  /\ toggle[c].step = "none" /\ Happens
  /\ toggles' = toggles + 1
  /\ LET was == c \in my \/ main.heart[c]
     IN  /\ toggle' = [toggle EXCEPT ![c] = [step |-> "asked", was |-> was, main |-> main]]
         /\ main' = WithHeart(main, c, ~was)
         /\ list' = WithHeart(list, c, ~was)
  /\ reread' = GiveUp
  /\ UNCHANGED <<wished, my, mishaps, crossed>> /\ BidsStay

(* WishlistService.toggle: one statement deletes the row or else inserts it.   *)
Flip(c) == IF c \in wished THEN wished \ {c} ELSE wished \cup {c}
ToggleServed(c) ==
  /\ toggle[c].step = "asked"
  /\ \/ /\ wished' = Flip(c)
        /\ toggle' = [toggle EXCEPT ![c].step = IF c \in wished THEN "deleted" ELSE "inserted"]
        /\ UNCHANGED mishaps
     \/ /\ AMishap
        /\ toggle' = [toggle EXCEPT ![c].step = "failed"]
        /\ UNCHANGED wished
  /\ UNCHANGED <<main, list, my, reread, toggles, crossed>> /\ BidsStay

(* onSuccess: what the server has done is shown.                               *)
ToggleSucceeds(c) ==
  /\ toggle[c].step \in {"inserted", "deleted"}
  /\ main' = WithHeart(main, c, toggle[c].step = "inserted")
  /\ list' = WithHeart(list, c, toggle[c].step = "inserted")
  /\ toggle' = [toggle EXCEPT ![c] = NoToggle]
  /\ UNCHANGED <<wished, my, reread, toggles, mishaps, crossed>> /\ BidsStay

(* onError, also when only the answer is lost: the whole main list is put back *)
(* to what it was before, and the heart in the lists.                          *)
ToggleFails(c) ==
  /\ \/ toggle[c].step = "failed" /\ UNCHANGED mishaps
     \/ toggle[c].step \in {"inserted", "deleted"} /\ AMishap
  /\ main' = toggle[c].main
  /\ list' = WithHeart(list, c, toggle[c].was)
  /\ toggle' = [toggle EXCEPT ![c] = NoToggle]
  /\ UNCHANGED <<wished, my, reread, toggles, crossed>> /\ BidsStay

(* useMyWishlist: the page of the wishlist is visited.                         *)
WishlistRead ==
  /\ my # wished
  /\ my' = wished
  /\ UNCHANGED <<wished, main, list, reread, toggle, toggles, mishaps, crossed>> /\ BidsStay

ToggledElsewhere(c) ==
  /\ AMishap
  /\ wished' = Flip(c)
  /\ UNCHANGED <<main, list, my, reread, toggle, toggles, crossed>> /\ BidsStay

-----------------------------------------------------------------------------
MainPageNext ==
  \/ OthersBid \/ NewBidArrives \/ BidsHere \/ BidServed \/ BidAnswered
  \/ \E k \in toEmit : Emits(k)
  \/ Rereads \/ MainServed \/ MainArrives \/ WishlistRead
  \/ \E c \in Cards : \/ Toggles(c) \/ ToggleServed(c) \/ ToggleSucceeds(c)
                      \/ ToggleFails(c) \/ ToggledElsewhere(c)

(* The main list is read every half minute, events and calls are answered.     *)
MainPageFairness ==
  /\ WF_mainPageVars(Rereads) /\ WF_mainPageVars(MainServed) /\ WF_mainPageVars(MainArrives)
  /\ WF_mainPageVars(NewBidArrives) /\ WF_mainPageVars(\E k \in toEmit : Emits(k))
  /\ WF_mainPageVars(BidServed) /\ WF_mainPageVars(BidAnswered)
  /\ \A c \in Cards :
       WF_mainPageVars(ToggleServed(c) \/ ToggleSucceeds(c) \/ ToggleFails(c))

MainPageSpec == MainPageInit /\ [][MainPageNext]_mainPageVars /\ MainPageFairness

-----------------------------------------------------------------------------
(* Properties *)

MainPageTypeOK ==
  /\ bids \in 0 .. MaxHappens /\ toEmit \subseteq 1 .. bids
  /\ \A i \in DOMAIN wire : wire[i].price \in 1 .. bids /\ wire[i].count \in wire[i].price .. bids
  /\ wished \subseteq Cards /\ my \subseteq Cards
  /\ main \in View /\ list \in View
  /\ reread.step \in {"none", "asked", "served"}
  /\ own.step \in {"none", "asked", "placed", "refused"}
  /\ \A c \in Cards : toggle[c].step \in {"none", "asked", "inserted", "deleted", "failed"}
  /\ toggles \in 0 .. MaxHappens /\ mishaps \in 0 .. MaxMishaps /\ {here, crossed} \subseteq BOOLEAN

(* A price on the page was bid or is the first one, and the number of bids is  *)
(* at most one too high: one's own bid counted again after its event.          *)
NeverAhead ==
  /\ main.price <= bids /\ list.price <= bids
  /\ main.count <= bids + 1 /\ list.count <= bids

(* Without failures and other devices a heart that is not changing is right,   *)
(* on the main page and in the lists, unless the main list was asked for while *)
(* some heart was changing, or as nobody.                                      *)
HeartsHold ==
  \A c \in Cards \ Changing :
    mishaps = 0 =>
      /\ list.heart[c] = (c \in wished)
      /\ ~crossed => main.heart[c] = (c \in wished)

(* What the cards show while calls and events are still on their way.          *)
CardsHold == NeverAhead /\ HeartsHold

(* Whatever was lost, put back, overtaken or shown too early, a main page that *)
(* stays in front comes to show the price, the bids and the hearts there are.  *)
MainCatchesUp == here /\ main # MainNow ~> main = MainNow
=============================================================================
