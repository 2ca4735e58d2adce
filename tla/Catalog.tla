------------------------------ MODULE Catalog ------------------------------
(***************************************************************************)
(* The lists of open auctions: the query behind them, which goes on where  *)
(* the last row of the page before left off, and the infinite lists of the *)
(* explore and ranking pages that put its answers together while bids,     *)
(* ends, deletions and new auctions go on.                                 *)
(***************************************************************************)
EXTENDS Integers, FiniteSets, Sequences

CONSTANTS
  Rows,       \* ids of Auction rows, which the database compares
  Queries,    \* [sort, among]: a sort and the rows brand, size and search select
  Prices,     \* values of currentPrice and of endTime at first, and of createdAt
  PageSize,   \* limit
  MaxChanges, \* bound on changes of the rows and on failed calls
  MaxChoices, \* bound on changes of the query
  NoId

Sorts == {"newest", "ending_soon", "popular", "price_low", "bid_count"}
ASSUME QueriesAreQueries == Queries \subseteq [sort : Sorts, among : SUBSET Rows]
ASSUME RowsAreOrdered == IsFiniteSet(Rows) /\ Rows = 1 .. Cardinality(Rows) /\ NoId \notin Rows
ASSUME PricesAreNat == Prices \subseteq Nat \ {0}
ASSUME PagesHaveRows == PageSize \in Nat \ {0}
ASSUME ListBoundsAreNat == MaxChanges \in Nat /\ MaxChoices \in Nat

VARIABLES
  row,      \* the Auction rows, with their number of bids
  changes,  \* number of changes and failures so far
  query,    \* what the page shows
  choices,  \* number of choices so far
  feed      \* the cached list of each query, and the call in flight for it

catalogVars == <<row, changes, query, choices, feed>>

(* `steady`, `calm` and `cut` are history: the rows that were on since the     *)
(* first page was read, whether nothing changed since, and whether a page was  *)
(* asked for after a row that is gone.                                         *)
NoList == [items |-> <<>>, cursor |-> NoId, pages |-> 0,
           steady |-> {}, calm |-> TRUE, cut |-> FALSE]
NoFeed == [now |-> NoList, call |-> "none", got |-> NoList, left |-> 0]

Row == [on : BOOLEAN, gone : BOOLEAN, price : Nat, end : Nat, made : Nat, bids : Nat]
List == [items : Seq(Rows), cursor : Rows \cup {NoId}, pages : Nat,
         steady : SUBSET Rows, calm : BOOLEAN, cut : BOOLEAN]

(* One row is still to come. No query compares a price, an end or an age with  *)
(* another of them, so one function gives the three; rows may tie in each.     *)
CatalogInit ==
  /\ \E key \in [Rows -> Prices], later \in Rows :
       row = [r \in Rows |->
                [on |-> r # later, gone |-> FALSE, price |-> key[r], end |-> key[r],
                 made |-> IF r = later THEN 0 ELSE key[r], bids |-> 0]]
  /\ changes = 0
  /\ query \in Queries
  /\ choices = 0
  /\ feed = [q \in Queries |-> NoFeed]

-----------------------------------------------------------------------------
(* listWithFilters                                                             *)

Key(sort, r) ==
  CASE sort = "newest" -> row[r].made [] sort = "ending_soon" -> row[r].end
    [] sort = "bid_count" -> row[r].bids [] OTHER -> row[r].price
Descending(sort) == sort \in {"newest", "popular", "bid_count"}

(* ORDER BY the key, then by id ASC.                                           *)
Before(sort, r, s) ==
  \/ Key(sort, r) = Key(sort, s) /\ r < s
  \/ IF Descending(sort) THEN Key(sort, r) > Key(sort, s) ELSE Key(sort, r) < Key(sort, s)

(* (key, id) < or > the cursor's, as the rows are now. A deleted cursor has no *)
(* key and nothing compares with it, save for its number of bids, which is 0.  *)
Beyond(sort, r, cursor) ==
  LET least == IF Descending(sort) THEN r ELSE cursor
      most  == IF Descending(sort) THEN cursor ELSE r
  IN  /\ sort # "bid_count" => ~row[cursor].gone
      /\ \/ Key(sort, least) < Key(sort, most)
         \/ Key(sort, least) = Key(sort, most) /\ least < most

Selected(q) == {r \in q.among : row[r].on}
Ordered(sort, S) ==
  [i \in 1 .. Cardinality(S) |->
     CHOOSE r \in S : Cardinality({s \in S : Before(sort, s, r)}) = i - 1]

(* listAuctions: one row more than the limit tells whether there are more, and *)
(* the last row of the page is the cursor of the next.                         *)
Page(q, cursor) ==
  LET found == Ordered(q.sort, {r \in Selected(q) : cursor = NoId \/ Beyond(q.sort, r, cursor)})
      more  == Len(found) > PageSize
      items == IF more THEN SubSeq(found, 1, PageSize) ELSE found
  IN  [items |-> items, next |-> IF more THEN items[PageSize] ELSE NoId]

-----------------------------------------------------------------------------
(* useAuctionList, and the pages that show it                                  *)

Extended(q, list) ==
  LET page == Page(q, list.cursor)
      first == list.pages = 0
  IN  [items |-> list.items \o page.items, cursor |-> page.next, pages |-> list.pages + 1,
       steady |-> IF first THEN Selected(q) ELSE list.steady,
       calm |-> first \/ list.calm,
       cut |-> list.cut \/ (~first /\ row[list.cursor].gone)]

Calls(q, new) == feed' = [feed EXCEPT ![q] = new] /\ UNCHANGED <<row, query, choices>>

(* The explore page: a brand, size, sort or search is chosen, and the list of  *)
(* that query is shown as it was left.                                         *)
Choose(q) ==
  /\ choices < MaxChoices /\ q # query
  /\ query' = q
  /\ choices' = choices + 1
  /\ UNCHANGED <<row, changes, feed>>

(* The ranking page: its tabs are three sorts of all auctions, and its lists   *)
(* are those of the explore page where nothing is filtered.                    *)
Tabs == {"popular", "bid_count", "newest"}
ChooseTab(q) == q.among = Rows /\ q.sort \in Tabs /\ Choose(q)

(* The first page, or the pages there are once more when the list is stale.    *)
Fetch(q) ==
  /\ q = query
  /\ feed[q].call = "none"
  /\ feed[q].now.pages = 0 \/ changes < MaxChanges
  /\ changes' = IF feed[q].now.pages = 0 THEN changes ELSE changes + 1
  /\ Calls(q, [feed[q] EXCEPT !.call = "again", !.got = NoList,
                              !.left = IF feed[q].now.pages = 0 THEN 1 ELSE feed[q].now.pages])

(* The end of the list is reached: the next page, unless it is on its way; a   *)
(* list that is read again meanwhile is not read on.                           *)
LoadMore(q) ==
  /\ q = query
  /\ feed[q].now.cursor # NoId
  /\ feed[q].call # "next"
  /\ Calls(q, [feed[q] EXCEPT !.call = "next", !.got = NoList])
  /\ UNCHANGED changes

NextAnswered(q) ==
  /\ feed[q].call = "next"
  /\ Calls(q, [feed[q] EXCEPT !.call = "none", !.now = Extended(q, @)])
  /\ UNCHANGED changes

AgainAnswered_Appends(q) ==   \* bug: what is read again is put behind what is there
  /\ feed[q].call = "again"
  /\ LET got == Extended(q, feed[q].got)
     IN  Calls(q, [feed[q] EXCEPT !.call = "none",
                                  !.now = [got EXCEPT !.items = feed[q].now.items \o @]])
  /\ UNCHANGED changes
AgainAnswered(q) ==
  /\ feed[q].call = "again"
  /\ LET got == Extended(q, feed[q].got)
     IN  Calls(q, IF got.cursor = NoId \/ got.pages = feed[q].left
                  THEN [feed[q] EXCEPT !.call = "none", !.now = got, !.got = NoList]
                  ELSE [feed[q] EXCEPT !.got = got])
  /\ UNCHANGED changes

(* Once more without an answer: the list stays, or stays empty.                *)
CallFails(q) ==
  /\ feed[q].call # "none" /\ changes < MaxChanges
  /\ changes' = changes + 1
  /\ Calls(q, [feed[q] EXCEPT !.call = "none", !.got = NoList])

-----------------------------------------------------------------------------
(* What happens to the rows meanwhile.                                         *)

Stirred(list, r, stays) ==
  IF list.pages = 0 THEN list
  ELSE [list EXCEPT !.calm = FALSE, !.steady = IF stays THEN @ ELSE @ \ {r}]

Changes(r, new) ==
  /\ changes < MaxChanges
  /\ changes' = changes + 1
  /\ row' = [row EXCEPT ![r] = new]
  /\ feed' = [q \in Queries |->
       [feed[q] EXCEPT !.now = Stirred(@, r, new.on), !.got = Stirred(@, r, new.on)]]
  /\ UNCHANGED <<query, choices>>

Bid(r) ==
  /\ row[r].on
  /\ \E extends \in {0, 1} :
       Changes(r, [row[r] EXCEPT !.price = @ + 1, !.bids = @ + 1, !.end = @ + extends])
Ends(r) == row[r].on /\ Changes(r, [row[r] EXCEPT !.on = FALSE])
(* createdAt is the start of the inserting transaction, to the millisecond: it *)
(* may be that of another row, or older than rows that are there.              *)
Listed(r) ==
  /\ row[r].made = 0
  /\ \E at \in Prices : Changes(r, [row[r] EXCEPT !.on = TRUE, !.made = at])
Deleted(r) ==
  /\ row[r].on /\ row[r].bids = 0
  /\ Changes(r, [row[r] EXCEPT !.on = FALSE, !.gone = TRUE])

CatalogNext ==
  \/ \E q \in Queries :
       \/ Choose(q) \/ ChooseTab(q) \/ Fetch(q) \/ LoadMore(q)
       \/ NextAnswered(q) \/ AgainAnswered(q) \/ CallFails(q)
  \/ \E r \in Rows : Bid(r) \/ Ends(r) \/ Listed(r) \/ Deleted(r)

CatalogSpec == CatalogInit /\ [][CatalogNext]_catalogVars

-----------------------------------------------------------------------------
(* Properties *)

CatalogTypeOK ==
  /\ row \in [Rows -> Row]
  /\ changes \in 0 .. MaxChanges /\ choices \in 0 .. MaxChoices
  /\ query \in Queries
  /\ \A q \in Queries :
       /\ feed[q].call \in {"none", "next", "again"}
       /\ \A list \in {feed[q].now, feed[q].got} :
            /\ DOMAIN list = DOMAIN NoList
            /\ list.items \in Seq(Rows) /\ list.cursor \in Rows \cup {NoId}
            /\ list.steady \subseteq q.among
            /\ list.cursor # NoId => list.cursor = list.items[Len(list.items)]

Times(r, items) == Cardinality({i \in DOMAIN items : items[i] = r})
AtEnd(list) == list.pages > 0 /\ list.cursor = NoId

(* The only row of a set with its key.                                         *)
Alone(sort, r, S) == \A s \in S \ {r} : Key(sort, s) # Key(sort, r)

(* However much happens while the list of new auctions is read, an auction no  *)
(* other was created at the same time as is not shown twice and, if it was on  *)
(* all the while, is there at the end, unless the row to go on from was        *)
(* deleted: the ties of others do not hide it.                                 *)
NewestIsWhole ==
  \A q \in Queries, r \in Rows :
    LET list == feed[q].now
    IN  q.sort = "newest" /\ Alone("newest", r, Rows) =>
          /\ Times(r, list.items) <= 1
          /\ AtEnd(list) /\ ~list.cut /\ r \in list.steady => Times(r, list.items) = 1

(* Where nothing changes meanwhile, the lists by end and by lowest price show  *)
(* every open auction once, in their order, equal keys or not; those by age,   *)
(* highest price and number of bids show every auction once that is alone with *)
(* its key, and such auctions in their order.                                  *)
WholeOf(q) ==
  AtEnd(feed[q].now) /\ feed[q].now.calm
    => feed[q].now.items = Ordered(q.sort, Selected(q))
CalmListIsWhole ==
  \A q \in Queries :
    LET list    == feed[q].now
        Only(r) == r \in Selected(q) /\ Alone(q.sort, r, Selected(q))
    IN  IF Descending(q.sort)
        THEN AtEnd(list) /\ list.calm =>
               /\ \A r \in Selected(q) : Only(r) => Times(r, list.items) = 1
               /\ \A i, j \in DOMAIN list.items :
                    i < j /\ Only(list.items[i]) /\ Only(list.items[j])
                      => Before(q.sort, list.items[i], list.items[j])
        ELSE WholeOf(q)

(* What an infinite list promises its reader, save of rows that tie in a       *)
(* descending sort.                                                            *)
ListsAreWhole == NewestIsWhole /\ CalmListIsWhole

-----------------------------------------------------------------------------
(* Statements of the repository the code does not live up to *)

(* "Filtered and sorted list of auctions, by cursor": page after page, every   *)
(* auction the filter selects, in the order asked for.                         *)
EveryListIsWhole == \A q \in Queries : WholeOf(q)
=============================================================================
