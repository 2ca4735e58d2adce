# LaceUp auctions: verification development

LaceUp is a sneaker auction site: a NestJS backend over PostgreSQL and Redis, a
Next.js frontend, and Server-Sent Events between them. This directory holds TLA+
models of the parts of it that are hard to test, the TLC configurations that check
them on small instances, and TLAPS proofs of theorems about them for every value
of their constants. `PROJECT.json` maps every modelling definition to its source
lines, lists the runs, the hazards and the theorems.

    tlc -workers 2 -config HousePeople.cfg MCAuctionHouse     # a run
    tlapm AuctionHouse_proofs.tla                             # the proofs

## 1. The system

### Parts, state, operations

| part (under `src/backend/src` unless said) | state | operations that change it |
|---|---|---|
| `auctions/` AuctionsService | tables Auction, Bid | create, placeBid, placeBidAsBot, patch, delete |
| `orders/` OrdersService | Order; Auction.status, winner, `postCloseFinalizePayload` | cron close (every minute), admin close, post-commit finalize and its retry (every 5 min), cancel unpaid (hourly), buyNow, payOrder, reopen |
| `wallet/` WalletService | User.balance, WalletTransaction | holdForBid, releaseBidHold, pay, convertHoldToPayment, settleSeller |
| `database/` | connections, transactions | BEGIN / COMMIT / ROLLBACK, row locks, constraints |
| `bots/` BotsService | Redis cooldown keys; auctions relisted from others | a bidding turn every 60 s, relist every 60 s, daily top-up |
| `events/` EventsService | per-auction and per-user subjects, reference counts | publish to Redis, deliver to local subscribers |
| `auth/` AuthService, `common/guard` | User, SocialAccount; refresh tokens in Redis; cookies | login (and the account it needs), refresh (rotation), logout |
| `notifications/`, `wishlist/` | Notification, Wishlist | alerts (search, then insert), mark one, mark all, toggle |
| `retention/` | deletes old auctions, orders, sneakers | daily purge, batch by batch |
| `product-seed/`, `kicksdb/` | Sneaker, new auctions | daily seed |
| `reviews/`, `upload/` | Review; images in the storage | create a review; upload, delete |
| `users/`, `admin/` | none; none | reads; force-close |
| frontend `hooks/use*Events`, `store/` | EventSources, timers, reconnection counter | connect, break, back off, leave |
| frontend detail page | price, history, optimistic bid, purchase window | events, own bids, refetches, buy, pay |
| frontend main page, lists, bell, orders | cached answers of their queries | reads, refetches, merges of events, optimistic hearts, invalidations |
| frontend auction form | the image uploaded, the call under way | upload, create, edit, delete, remove the image again |
| frontend `fetcher` | none | a call that is answered 401 refreshes and is sent again, once |

### How they interact

A bid locks the auction row, inserts the bid and asks the wallet to hold its price,
all in one transaction, then publishes events. The minute cron closes expired
auctions one by one: one transaction makes the winner's order and disqualifies the
losing bids, and only after its commit a second one (the *finalize*) pays the
losers' holds back. If that fails, the losers are written to
`Auction.postCloseFinalizePayload` and another cron retries. The winner pays either
by converting the hold of the winning bid or, after a buy-now, directly; an unpaid
or failed order is cancelled, the winning bid disqualified and released, and the
auction opened again. Every instance of the backend runs every cron. Bots are users
that bid through `placeBidAsBot` and never pay; what they win is listed again. The
browser learns of all this from three event streams that reconnect by themselves, and
from queries whose answers it keeps, merges events into, changes ahead of the server
and reads again when something tells it to. Every call carries cookies that a refresh
replaces. Alerts are sent by bids and by a cron, after a look at those sent before.
Every night, jobs delete what is old and add what is new beside all of that.

### What is hard about it

- Decisions from reads outside the transaction they serve (payOrder, buyNow, edits of
  the end, the balance test of a hold).
- Steps after a commit that live in memory only, and their at-least-once retry.
- Crons of one instance overlapping themselves, the HTTP requests and other instances.
- The clock against the row lock: soft close, late bids, batches read before.
- Keys with a lifetime that several attempts take and give back.
- Connections that break at any point of a page's life.
- Answers that arrive late, out of order or never, to a cache that was changed since.
- Jobs that read a batch, and act on it when it has changed.

The list with source lines, and the properties that cover each, is `hazards` in
`PROJECT.json`.

### What makes each part correct

- Auctions and orders: money is conserved; a competing bid is backed by its hold; order
  and auction agree; a paid sale is final; the current price is the best live bid's;
  refunds reach the losers; every expired auction is closed.
- Wallet: no lost update; a committed finalize has released its holds; what is released
  twice, and who is in debt, is so by two transactions that did not see each other, and by
  nothing else; no endless lock wait.
- Clock: no early close, no late bid, the last bid can be answered, expired auctions end.
- Bots: bids on an auction keep their distance; a failed attempt leaves no cooldown.
- Streams: one source for each wanted stream; the banner is there while needed; every
  request is on the subject its instance delivers to.
- Detail page: the price shown is one the auction had or an own bid under way; a page
  that heard of everything shows the current one.
- Lists: what is read page by page has every row once that ties with no other; a list in
  ascending order is the whole one, ties included, if nothing changed.
- Main page, bell, orders: what is shown was true once and in the end is true; hearts
  are the clicks'; a window that is open says what happened and can be closed.
- Sessions: a session survives its rotation; a call is handled at most once; an identity
  has at most one user; who logged out is out.
- Alerts: only senders that overlap repeat one.
- Jobs: a pair is sold once; the purge takes nothing that is owed; only runs of the seed
  that overlap double a product.
- Forms: an auction has its image, an image its auction or a reason.

## 2. Modules

| module | models | how it corresponds |
|---|---|---|
| `AuctionContract` | what the sale of an auction promises | phases unlisted, open, awarded, sold, unsold, removed; buyer and price fixed when awarded and for ever when sold |
| `AuctionHouse` | auctions, orders and the wallet calls they make | one action per transaction with every call in it, or per in-memory step between two transactions; tables are functions of row ids, `order` is a map by auction because of UNIQUE("auctionId") |
| `AuctionRefunds` | the same backend, with a record of refunds nobody will make any more | a history variable `lost` beside the steps of `AuctionHouse`: finalizes cut off before they released or persisted anything, payloads erased |
| `WalletTx` | the wallet inside its transactions | one action per statement; READ COMMITTED reads, row locks until the end, deadlock detector, rollback; a row of the ledger remembers (`saw`) what had committed when it was decided on |
| `AuctionClock` | the end of an auction against a numeric clock | `now` read on arrival, lock and decision later; cron batches; edits in two steps |
| `BotCooldown` | one bidding attempt over Redis | one action per Redis command; the bid is one action; keys expire with the clock |
| `SseClient` | `useReconnectingEventSource` and the counter | one action per callback: effect, onopen, onerror, timer, cleanup |
| `EventsFanout` | `EventsService` of every instance | subjects, reference counts, requests, and the messages Redis has not delivered yet; one action per callback |
| `LiveAuction` | the price of an auction on its detail page | extends the two modules above: a committed bid or close waits in `outbox` until it is published, travels over `bus`, and reaches the page if its request (`link`) is in the audience; `page` is `auctionStatus`, `shown` the states of `AuctionDetailContent`, `data`/`fetch` the query of `useAuctionDetail`, `own` the calls of `handleBid` in progress, of which there may be several; `steady` and `stray` record refetches and refused bids |
| `Catalog` | `listWithFilters` and the infinite list over it | rows with their keys; `Selected`, `Ordered`, `Beyond` (the cursor) and `Page` as operators on them, the list as the pages read so far and the call under way; changes of the rows between the calls |
| `MainPage` | the main page's cached answer | `main` is the cache, merged into by `NewBidArrives` and `BidAnswered`, toggled by `Toggles` and rolled back by `ToggleFails`; reads are cancelled or overtaken |
| `Bell` | the notification bell | the rows of the server, the two queries with their observers, the calls that mark, and the stream that invalidates |
| `Checkout` | the purchase window and the own orders | a window per flow with its steps, the call under way, the orders and the cached answer about them, the event that the sale ended |
| `Alerts` | `WishlistAlertsService` and the notifications of bids | a sender searches and then stores; times in minutes |
| `Listing` | the auction form, the storage and the edit and delete calls | images and rows are numbered; `form` is one form's calls in turn |
| `Sessions` | login, refresh, logout, guard and `fetcher` | a token is the second it was signed in; `call` is one call with what it carries |
| `Upkeep` | relisting, seeding, purging, and reviews beside them | rows of auction and order as one record, rows of Sneaker with their age, each job its reads and writes; `by` and `met` record which seed inserted a row and which runs overlapped |
| `MC*` | symmetric instances and programs for TLC | |
| `*_proofs` | theorems | one module for each of `AuctionHouse`, `AuctionClock`, `WalletTx`, `LiveAuction` and `Upkeep`; `Browser_proofs` for `Sessions`, `Checkout`, `MainPage` and `Bell`; `Parts_proofs` for `BotCooldown`, `Catalog`, `Alerts` and `Listing` |
| `Sums` | facts about sums over finite sets | what the proofs about money rest on |

`AuctionHouse` sees a transaction as one step and the end of an auction as a flag;
`WalletTx` and `AuctionClock` open these two abstractions up. What `AuctionHouse`
claims under them is therefore limited by what they show: transactions that lock the
same auction row are serial, but two transactions of one user under different auctions
are not, and neither are two finalizes: what becomes of these is `WalletTx`'s to say.

Abstractions of `AuctionHouse`: prices are small numbers; a request reads its inputs
into a slot of `request`; the in-memory result of a close is a record in `finalizing`;
`payload` is `{}` or `{losers}`; ties at `ORDER BY "bidPrice" DESC` are broken either
way; names, images, events and the order of deletes in one transaction are left out.

`LiveAuction` composes the page, its stream and the server by conjoining their actions:
a page that turns closed unmounts its stream (`Turns`), an accepted connection is
`Opens` of the client and `Subscribe` of an instance, and the instance notices that the
request is gone (`Departs`) at any later time. It ends with the first award; a reopening
is `AuctionHouse`'s. The clock is left out: the countdown may run out at any time, since
the page does not learn of an extension before it refetches. The amount of a bid may be
the buy-now price itself, and any number of own bids (`Clicks`) may be under way, since
the button is never disabled. A participant count, the
bid input and the toasts are left out; the main and list caches have modules of their
own (`MainPage`, `Catalog`), and so has the purchase window (`Checkout`).

`MCParts` and `MCPages` each put parts that share no state side by side in one
specification, in turn: a behaviour is one of one of the parts, the others stay at their
start, and its properties are those of the parts. That saves runs and loses nothing. `Upkeep` sees the life of an auction through the rows
it leaves behind: closing, paying and cancelling are one step each there, as
`AuctionHouse` shows them to be. Its seed is about one product in one size: a run finds or inserts the
product's row of Sneaker, looks for an auction of it that is on, and inserts one; rows of
Sneaker may be doubled, as no index keeps them unique.

## 3. Runs

| run | checks | bounds |
|---|---|---|
| `HousePeople` | types, backing, order = auction, price = top bid, money, refunds tracked, refinement of the contract | 1 auction, 3 people, 3 bids, 2 requests, prices 1..3, 1 extension, failing queries and crashes |
| `HouseRetry` | money, finality of payment; a persisted finalize runs in the end | 3 users of whom one is a bot, 2 bids, 1 request, prices 0..3, a balance of 2, failing queries and crashes, fairness |
| `HouseReopened` | *violated*: every expired auction is closed | 2 bids, fairness |
| `HouseLeak` | *violated*: no hold outlives a paid sale | 3 bids, price 0 as a start |
| `WalletMixed` | ledger = balance; a committed finalize has released its holds, and twice only blindly (`ReleasedOnce`); debts only of debits blind to each other (`DebtIsOfBlindDebits`); all end | two finalizes at a time, a bid and a direct payment of one user, then a payment by hold; queries may fail |
| `ClockBids` | no late bid, the last bid is answerable, no early close, every expired auction ends | 2 auctions, 2 bids or edits waiting, 1 cron with batches of 1 and a time limit of 1, time 0..3, ends at 1 or 2, edits to 2, one auction that may be reopened, fairness |
| `LivePage` | one source and the banner while it is needed (`StreamsHold`), requests on their subjects, the price explained (`ShownIsBid`), the price right once all was heard (`WatcherSeesHighest`) | 1 instance, a history of 2 bids (the code keeps 5), amounts 1 and 2 = the buy-now price; in one half 2 requests, 1 bid, 1 own bid under way, counter up to 2, in the other 1 request, 2 bids, 2 own bids under way, counter up to 1 |
| `Parts` | bots: distance of bids, no cooldown without a reason; lists: whole; forms: images tracked; alerts: only overlaps repeat | bots: 2 attempts, 2 bots, time 0..3, bot key of 2.5 s, stops and repeated clears; lists: 3 rows, 2 prices, ends and times of creation, so that any two rows may tie, pages of 1, 2 changes, 1 choice, "newest" and "ending_soon"; forms: 2 forms, 2 uploads, 2 losses; alerts: 2 senders, 3 alerts, minutes 0..4, windows of 2, 1 and 0 |
| `ListTies` | *violated*: every list is whole | 3 rows, one number of bids, pages of 1 |
| `Pages` | main page: what cards never show (`CardsHold`), they recover; bell: while it is wrong it will be told (`BellRestsRight`), it catches up; purchase window: what it says is so, while it stays a call leads it on, and the orders in front are right or are being read (`CheckoutHolds`); the window settles and the orders catch up | bell: 2 notifications, panel of 1, 1 mark, 1 miss; main page: 2 cards, 2 bids or hearts elsewhere, 1 failure; window: 2 flows, 3 moves, 1 loss; fairness |
| `SessionsKept` | the session is kept, calls are handled at most once, out stays out, one user of an identity | 1 browser, 3 calls, time 0..2, access for 1, refresh for 2, failing Redis and database, lost answers |
| `UpkeepJobs` | sales are sound, only overlapping seeds double a product (`DoublesOverlap`), the purge takes what is settled | 4 rows of which 1 at first, 5 mixes of two or three jobs, time 0..3, relisting after 1, to be paid within 1, retention 2, lookback 3 |

Why these bounds: one auction suffices for `AuctionHouse` because its transactions
touch one auction and the users' balances, and two auctions meet only in the balances,
which `WalletTx` is about; three bids give a top bid, one it overtook and one of the
top bidder's own; two requests give every race of two stale reads. A balance of 2 in
`HouseRetry` lets the bot bid 3, which it cannot hold. Two requests waiting
for a row lock beside a cron that holds a batch of one of two expired auctions is the
smallest instance of each race of `AuctionClock`. `LivePage` has one instance because
two exceed the time of a run; what a second one adds, a request that is noticed late
beside the one that replaced it, two requests on one instance show too, and
`RequestsAreServed` is proved for any number. Its two halves (`Within` of `MCLiveAuction`)
keep apart what grows with the requests and what grows with the bids. Two bids and a close are enough for events
out of order and for a refused bid that crosses an accepted one, and a history of two,
with events that are delivered twice or late, for one that is cut: `late` counts the
events since the page last heard of a highest bid, and that bid is in the history as
long as fewer of them passed than it keeps.

Three rows in pages of one put a border of a page before and after every row, and two
changes between the calls can move a row across and another back. Two forms are enough
for every crossing of two; the theorem has any number. Two senders with windows of
different lengths give an overlap, a repetition after the window and a kind that has no
window. In `SessionsKept` three calls are two tabs that refresh with one cookie beside a
third that logs out or in; time 2 lets an access token end while its refresh token lives,
and a refresh token end. In `UpkeepJobs` two jobs at a time show what they do to each
other, and two instances that list again beside a purge that takes the original or the
copy are the one case of three; four rows let one auction be listed again, its original
come back and be won by a bot again. The times keep the order of the code's defaults:
listing again (10 s) comes no later than a cancellation (2 days), the purge (7 days) after
it, and the lookback (30 days) reaches behind the purge.

Every counter that grows has a bound: `MaxTime`, `MaxMinute`, `Bids` (`Amounts` in
`LiveAuction`), `MaxCount`, `MaxAlerts`, `MaxUploads`, `MaxLapses`, `MaxChanges`,
`MaxChoices`, `MaxNotes`, `MaxMarks`, `MaxMisses`, `MaxHappens`, `MaxMishaps`,
`MaxMoves`, `MaxLosses`, and the sets of rows and calls.

The runs that allow TLC to stop (`CHECK_DEADLOCK FALSE`) are those whose system may:
all bids used up, the clock at its bound, all transactions ended.

Of the type invariants, `HousePeople` checks that of `AuctionHouse`. Those of all other
modules are theorems instead, which hold for any bounds. Several say more than the shape
of a variable: an open purchase window belongs to the page in front
and has a flow exactly when it is past its first step (`CheckoutTypeOK`), the badge never
exceeds the rows there are (`BellTypeOK`).

Several properties name what the code gets wrong and say that nothing else goes wrong:

- `PriceTracksTopBid` and `FundsConserved` hold of a state in which every bid that is there
  has its hold (`EveryBidIsHeld`). People's bids always have one. A bot that cannot pay bids
  without one, and a bid without a hold that is disqualified pays back what was never held.
- `RefundsAreTracked`: what is due back is in the hands of a finalize or in a payload, or
  was lost where the process stopped before the release, where the payload could not be
  written, or where a payload was erased when the sale fell through. The last is what the
  column's comment says (`003` migration, line 8).
- `ReleasedOnce` and `DebtIsOfBlindDebits`: no lock of the code keeps two finalizes of one
  auction, or two debits of one user, apart. Two rows are `Blind` if neither transaction
  had committed when the other looked; only such a pair releases twice or makes a debt.
- `ShownIsBid` excepts a `stray` amount: that of a refused bid another own bid was to go
  back to. `WatcherSeesHighest` excepts it too, and a refused own bid of exactly the price
  somebody bought at, besides refetches and accepted own bids (`steady`).
- `HandledOnce`: who is told to sign in was not handled, unless the call had been sent
  again after a refresh and was refused then.
- `ListsAreWhole`: in the lists that descend, a row that ties with another may be left out
  or come twice; one that is `Alone` with its key may not.
- `DoublesOverlap`: two rows of Sneaker, or two auctions on, for one product are of runs
  that overlapped; leaving aside what a cancellation put up again, what was listed again,
  and the rows there were at first.
- `RepeatsOverlap`, `SessionKept`, `OutStaysOut`, `ImagesAreTracked`, `SalesAreSound`,
  `NoLateBid` and `LastBidIsAnswerable` have exceptions of the same kind, told at each.

**Fairness.** `AuctionHouse`: the two crons are weakly fair per auction (they run every
minute and every five minutes and scan all auctions), a finalize that released or
failed goes on to its next write, and releases are strongly fair: the database does not
fail every one of them for ever. Neither a user's action nor a failure is ever
required. `WalletTx`: each open transaction goes on; failing is not required.
`AuctionClock`: every step of a cron run; the clock and the bids need not go on.
`Bell`, `MainPage`, `Checkout`: a call that was made is served and answered, or fails, in
the end, and an event that is on its way arrives; the bell's reads are strongly fair, as
each event cancels and repeats them. No click, no bid and no event's creation is
required; where an event may be lost (`Miss`, `EventLost`, `blind`), the property says
what is promised then.

### What the violated runs show

- `HouseReopened`: an award nobody pays is cancelled and the auction reopened, but the
  cancelled order stays. The next close with a winner inserts a second order for the
  auction, breaks `UNIQUE("auctionId")` and rolls back, every minute, for ever. Since
  the cron's loop catches nothing and takes the oldest first, auctions that expired
  later are not closed either (`CronThrows` in `AuctionClock`). Only the purge of orders
  by age, months later, clears the way.
- `HouseLeak`: someone bids, is outbid, bids again and wins: the first hold is released
  by nobody, because losers are bids of *other* users.
- `ListTies`: rows are ordered by the key and, where keys are equal, by id ascending
  (`auction.repository.ts:181-185`), but the cursor of a list that descends goes on with
  (key, id) less than its own: of rows that tie across the border of two pages those with
  larger ids are skipped, and with longer pages those with smaller ids come again.

### Seen while modelling, not a run

Auctions, orders, wallet

- Two finalizes of one auction at once both pay a hold back: `releaseBidHold` counts and
  then inserts, without a lock or a unique index (`wallet.service.ts:46`), though the comment
  at line 39 says that a repeated attempt does not credit twice. Two bids of one user at once
  can overdraw: the balance is read, tested, then decremented (`wallet.service.ts:17`).
- A bot's bid without a hold can win; if it is disqualified, `releaseBidHold` credits an
  amount that was never held, and the bid is inserted without raising the price.
  `LiveBidsAreBacked` therefore speaks of people.
- A finalize whose process stops before the release is remembered by nobody.
- The hold a payment consumed stays in `sumActiveBidHoldAmount`, so the "total assets"
  of a buyer count it twice: convertHoldToPayment writes no BID_RELEASE.
- A seller may move the end of an auction with bids: right after a bid that was extended
  for, the end may be set to the next moment, and, since the new end is tested before the
  wait for the row lock, before that bid. `NoLateBid` excludes moved ends.
- Every auction a bot wins is listed again and later, as bots do not pay, cancelled and
  reopened: the same pair is on sale twice (`SalesAreSound` excepts exactly these).
- The purge deletes ledger rows with their auction: a balance is not its ledger after it.

Sessions

- Two tokens signed in one second are one string: a refresh within the second of the
  login stores it and then revokes it as the old one. `SessionKept` excepts such tokens.
- A logout beside a refresh that is under way is undone by its cookies.
- A call that is refreshed, sent again and then refused by its handler throws an error made
  of the first answer, 401 and its message (`fetcher.ts:70-107`): who bid too little with an
  expired cookie is told to sign in. A user the guard cannot read is no 401: the query for
  one row throws, and the answer is 500.

Pages

- With two counted streams, or two failures in a row, the reconnection counter drifts:
  the banner stays after all streams are open, or goes while one reconnects: every onopen
  and every cleanup takes one off, also of a stream that had counted nothing. The
  documentation (`src/README.md:144`) claims the count to be exact for several channels.
- A refetch replaces the page's price and history by an answer that may be older than an
  event already shown; the price goes back until the next event or answer. The detail
  cache itself is never updated by events, so a page opened again within five minutes
  starts from the old price. `WatcherSeesHighest` excludes pages with a refetch.
- The page shows an own bid before it is answered, although `src/README.md:45` says that it
  waits. The bid button is not disabled while a bid is under way: of two own bids that are
  both refused, the second is rolled back to the optimistic price of the first, which nobody
  bid, until the next event or refetch (`stray`).
- The rollback compares numbers (`AuctionDetailClient.tsx:249`): when somebody buys at the
  price of an own bid that is under way, its refusal takes the final price back off the
  closed page, though the comment above it says that what an event has shown stays.
- A bid answered after the auction was bought sets the page's price back to the bid.
- A refetch that fails replaces the page by an error although it has an answer.
- On the main page an own bid is counted twice, by its answer and by its event; the
  rollback of one heart restores the whole list; the list the server renders has no
  hearts, so the first click on a wished card takes the wish away.
- Marking a notification that was read elsewhere is answered 404, and nothing is reread;
  the panel's cursor skips notifications created in the same millisecond.
- A payment that failed leaves its card as it was until the next read; a payment does not
  refresh the balance; a page left before the event that the sale ended leaves the
  orders stale for five minutes. A read of a query nobody observes clears its mark.
- A lost answer to a create or an edit makes the form remove the image the auction now
  shows; images that were replaced are never removed; an edit form that was opened
  earlier puts the earlier image back; an edit always sends the start price, so that an
  auction with bids cannot be edited at all.

Bots, alerts

- A cooldown that runs from the SET and is deleted by whoever clears it lets two bots bid
  closer together than AUCTION_COOLDOWN_SEC when attempts are slow.
- "Once per 60 minutes" and "once per 24 hours" are exceeded by senders that overlap.

## 4. Theorems

All proved for any number of auctions, users, bids, requests, browsers, calls, forms,
senders and runs, and any prices and times, from the named assumptions of the modules:
bots are users, prices are naturals, increments positive, None is no row; times are
naturals, the extension is at least the threshold, the set of auctions is finite; the
requests are finitely many, "DONE" is no attempt, "NOWHERE" is no instance, the first delay is below the
largest; an unpaid order is cancelled before it is old enough to be purged, and the product's first row
is of no run; a wallet transaction makes a kind of call once for a bid or an order; the rows of a
list have ids and a page has at least one of them. One theorem needs more and says so in its
statement (`ASSUME ... PROVE`): `PeopleKeepTheBooks`, for no bots.

`AuctionHouse_proofs`

- `TypeCorrect`: TypeOK is inductive as it stands, action by action.
- `LiveBidsBacked`: "a person's live bid is held and not released" is not inductive:
  a finalize releases bids it was told about long before. `BackedInvariant`
  strengthens it: everything released, in the hands of a running finalize, or in a
  persisted payload is disqualified, a row that is absent has no hold, and what is
  disqualified never competes again. Then a release cannot touch a live bid, whichever
  retry does it.
- `OrdersMatch`: inductive together with TypeOK.
- `PriceTracked`: inductive once the rows of a closed auction and of a reopened one are
  told apart, as long as every bid there is has its hold (`TrackedIfHeld`). A step that
  makes that true again does not exist: a hold is given with the bid or never.
- `PaymentsFitTheirOrders`: what a payment read before its transaction, buyer, price and
  whether it goes through the hold, fits the order it meets there, or that order is not to
  be paid any more. An order that leaves PENDING never returns to it, and the live bid the
  payment would go through stays live while its order is to be paid.
- `FundsAreConserved`: balances and holds add up. Each operation moves one amount between
  the two sides; `Sums` says what adding a bid, releasing a set of bids, or marking a hold
  as spent does to either. That a payment through the hold moves as much as it took needs
  `PaymentsFitTheirOrders`, and that a release pays back what was held `BackedInvariant`.
- `PeopleKeepTheBooks`, for `Bots = {}`: then every bid has its hold, so that prices track
  and money adds up without a condition.
- `RefundsTracked`, of `RecordedSpec` and for any faults: from `RefundInv`. Who is named in a
  finalize or a payload is a bid of that auction (`NamesOwn`); an auction whose sale has not
  fallen through names one set of losers at most, and none before its close (`OneClose`), so
  no second close or finalize can overwrite or clear another's; a finalize clears only what
  it has released (`Cleared`); an auction that was deleted has no bids.
- `PaidStaysPaid`: an action property, from `OrdersMatch`: a paid order means a closed
  auction with a winner, and neither close, reopen, buy nor delete is enabled there.
- `BackendImplementsContract`: initial states map to initial states, and each action
  maps to one move of one auction's sale or to a stutter, from the same invariants.

`AuctionClock_proofs`

- `ClockTypeCorrect`, `NeverClosedEarly`: the close compares the end under the lock with
  the `now` of its own run, and no action moves the end of a closed auction.
- `SoftCloseHolds`, `NoBidIsLate`: the last bid lies before the end, and either farther
  from it than the threshold or all extensions are used; while no seller moves it the
  end only grows, and with `Threshold <= ExtendBy` an extension restores the distance.

`WalletTx_proofs`

- `BalancesMatchLedger`, with `WalletTyped`: what a transaction has added to a balance is
  what its own rows say plus the one UPDATE whose INSERT is still to come, and nobody else
  has the row's lock. So COMMIT adds both or neither, whatever was read before.
- `ReleasedTwiceIfBlind`: what a row was decided on had committed, and what committed stays
  so (`PastSeen`); so the row a transaction is about to write, having found no release, is in
  sight of none that is committed, and a release that commits meanwhile is blind to it
  (`BlindReleases`). And a call that was passed has its row, in the ledger or in the
  transaction (`PaidBack`).
- `DebtNeedsARace`: a transaction that has seen all committed debits of a user is covered by
  what it saw (`Sees`); one that has not makes a debit that is blind to one it missed.

`Sums` proves what adding, removing and changing elements does to a sum over a finite set,
by a minimal counterexample among its subsets: the library's induction takes an operator,
its well-foundedness theorems do not.

`LiveAuction_proofs`: every step of the page is a step of the fan-out and one of the
stream's client, or leaves them alone (`FanoutSteps`, `ClientSteps`).

- `RequestsAreServed`, from `Counts`: the reference count of an instance is the number of
  its requests, all of them attached, and it has a subject exactly if there are any. So
  the teardown that completes the subject is the last request's.
- `StreamsAreHeld`, from `StreamInv`: besides the two parts of the property, a stream
  nobody wants has its first delay, so that a page which is opened does not count as
  reconnecting, and only this page's stream is counted.
- `LiveTypeCorrect`, for any number of own bids under way.
- `ShownIsTrue`, from `PricesInv`: every message that is waiting, published or on its way to
  any instance, every answer read, cached or half read, and every entry of the history is of a
  bid or the close that happened; what the page shows, and what each own bid is to be rolled
  back to, is one of these, another own bid under way, or stray. A bid that is refused leaves
  its amount to those that were to go back to it, which makes it stray.
- `WatcherIsRight`, from `WatchInv`: the highest bid the page heard of is among the first
  `late + 1` entries of its history, so cutting the history cannot lose it before `late`
  reaches the limit (`HistoryTops`); a final price is no lower than any bid, and whoever read
  the close read that price (`FinalTops`, `ReadsFinal`); only an active page listens, so an
  event cannot replace the final price (`ListensActive`, `ClosedShown`). A refused own bid
  takes back only its own amount: that of a bid the page heard of is in the history as well,
  and that of a purchase ends `steady`.

`Browser_proofs`, first `Sessions`: five theorems from one invariant, `SessionInv`. `SessionKept` speaks of
browsers at rest and says nothing while a refresh is under way, so it is not inductive.
What is: a cookie whose token is revoked is carried by a call that is about to replace or
clear it (`Backed`); a token belongs to one browser and to the calls that read it there
(`OwnedByOne`); a token whose answer is under way is stored, and nobody else has it yet
(`OnTheirWay`). A token signed twice is excused in all three. `CallGoesOn` is the step
most actions are an instance of: one call changes, and no token is signed, stored,
revoked or set.

- `SessionsAreKept`, `LogoutsLast`, `SessionsTyped`.
- `CallsAreHandledOnce`: a call that was handled is at its end, and one that is told to sign
  in then had been sent again.
- `IdentitiesHaveOneUser`: a user comes with its row of SocialAccount, of which the unique
  index lets one in.

`Browser_proofs`, then the pages

- `CheckoutIsHeld`, from three invariants. `SaidInv`: a window that has come to its last
  step had its order paid, because the answer it waits for is sent after that and an order
  that was paid stays so; the same for a card and its review. `WindowHasCall` with it: a
  window in a step that cannot be closed has a flow of its own in the matching step, and a
  flow that ends leads it to one that can. `OrdersInv`: once the list was told of what
  changed it shows the order, or it is stale and not in front, or it is being read, and
  what that read got is current or marked stale.
- `CardsAreHeld`: no answer, cached or on its way, is ahead of the bids; and whichever
  heart a cache shows differs from the wish only while a click is under way, or after one
  that was lost or crossed, which is recorded.
- `BellIsTold`, from `BellKnows`: once every event has arrived and every marking that was
  done is answered, each query shows, or is about to get, what the server would answer; only
  a list that is closed may be old, and then it is marked, which `Opens` reads. That no
  older answer slips in between is because an event cancels the read under way.
- `CheckoutTypeCorrect`, `MainPageTypeCorrect`, `BellTypeCorrect`.

`Upkeep_proofs`: a row is settled when it is closed or gone and has no order to be paid;
only the purge changes a settled row. That is what makes a read that is acted on later
safe: what the purge selected, and what a review was found to be about, is still settled.

- `PurgesTakeSettled`: an old close has no order to be paid, because that order would be
  as old (`UnpaidIsCancelledFirst`); the batch stays settled until it is deleted.
- `SalesStaySound`: of the rows of a pair that was not taken back from a bot, one is for
  sale or sold to a person (`OneLives`). A row is listed again only if it was won by a bot
  and no later row says it came from it; the row that says so is younger than its origin,
  and the purge takes the oldest first, so it takes the origin no later than the row that
  remembers it (`PurgesTakeOrigins`). What a run has read of this before its insert stays
  true (`RelistsKnow`): the unique index on the origin refuses the second insert.
- `DoublesNeedOverlap`, from `DoublesInv`: two runs in progress overlap (`RunsMeet`); what a
  run finds in the tables when it inserts, though it had found nothing when it looked, is of a
  run that overlaps it (`SneakersMet`, `OffersMet`); a place is used once (`PairsUsed`).
- `ReviewsOfPaidOrders`, `UpkeepTyped`.

`Parts_proofs`, first `BotCooldown`: three theorems from one invariant. An attempt claims the keys it
has set and not yet given back; whoever set a key that is there claims it, and a claimed
key whose cooldown is longer than `MaxDelay` is its claimant's, because it cannot expire
meanwhile. So a key that is deleted after a bid, or set again, belongs to nobody else,
and the last bid's cooldown is over or its key is there (`BidsAreGuarded`). Only a
repeated clearCooldown escapes this, and is recorded.

- `BidsAreSpaced`, `CooldownsHaveReasons`, `CooldownsTyped`.

`Parts_proofs`, then `Alerts`, `Listing` and `Catalog`

- `OnlyOverlapsRepeat`, with `AlertsTyped`: an alert within the window of an earlier one
  comes from a sender that looked before the earlier one was stored.
- `ImagesTracked`, with `ListingTyped`: an image is in the storage because an auction
  shows it, a form holds it, or something left it behind that is recorded; no two forms
  hold the same one, so that what one removes is nobody else's.

- `ListsStayWhole`, with `CatalogTyped`: keys and then ids order the rows totally, so the
  number of rows before a row tells the rows apart and `Ordered` is a sort of what was
  selected. Of a list that is being read the invariant says, as long as nothing changed, that
  it has the rows its cursor has come to: all of them where keys ascend, those that are alone
  with their key, in their order, where they descend; of the newest list, whatever changes,
  that a row alone with its time is there at most once, and is there if it was on all the
  while and the cursor has passed it, because a row's age never changes. A page adds the rows
  behind the cursor up to its last one, which is the next cursor; ties can hide only ties.

Only model-checked: what needs fairness (`PersistedFinalizeRuns`, `ExpiredEnds`, `AllEnd`,
`BellCatchesUp`, `MainCatchesUp`, `CheckoutSettles`), because the prover has no ENABLED,
and the three violated statements, which are no theorems. Every safety property a run
checks is one, with its hypotheses.

## 5. Not modelled

- Rendering, skeletons, styling, navigation and the wording of messages; pages that show
  what a query returns (the history page, the seller's dashboard, the admin's charts).
- Reads that change nothing: statistics, health, lists without a cursor.
- Users' profiles, the admin's tables and settlement: single statements
  of one actor on one row.
- The HTTP clients of KicksDB, of the storage and of the OAuth providers, with their
  retries; the conversion of an image; the connection pool; a token's signature. They are
  modelled by the outcomes the code tells apart: an answer, a refusal, a failure.
- Start-up: environment and its validation, filters, guards' wiring, the switch that turns
  the scheduled jobs off, the seed script. The daily top-up of the bots' balance is not
  modelled either, so `FundsConserved` is about the time between two of them.

## 6. Plan

Done first: `AuctionContract`, `AuctionHouse`, `AuctionRefunds`, `WalletTx`, `AuctionClock`, `BotCooldown`,
`SseClient`, `EventsFanout`, `LiveAuction`; then `Sessions`, `Upkeep`, `Catalog`, `Alerts`,
`Bell`, `MainPage`, `Checkout`, `Listing`; and the eight modules of proofs above, of which
those of the lists of `Catalog`, of the highest price of `LiveAuction`, of the bell and of
the own orders came last.

What is left:

1. `Upkeep` composed with `BotCooldown`: bots that bid on what was just listed again.
