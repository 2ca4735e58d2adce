------------------------------- MODULE Upkeep -------------------------------
(***************************************************************************)
(* What the scheduled jobs do to the rows other parts work with: auctions  *)
(* a bot won are listed again, products are seeded, old auctions, orders   *)
(* and sneakers are purged.  Each job reads first and writes later, every  *)
(* instance runs all of them, and closes, payments, cancellations and      *)
(* reviews go on in between.  Those are here as AuctionHouse lets one see  *)
(* them: the rows before and after.                                        *)
(***************************************************************************)
EXTENDS Integers, FiniteSets

CONSTANTS
  Auctions,   \* ids of rows: those there at first, and those to be inserted
  First,      \* the rows there at first, a pair of shoes of one product each
  Shoe,       \* the product's row of Sneaker there at first
  Relists,    \* runs of relistBotWonAuctions, one per instance
  Seeds,      \* runs of seedFromKicksDB, each once in a behaviour
  Purges,     \* runs of purgeOldClosedAuctions
  Reviewers,  \* requests of createForOrder
  Mixes,      \* which of these a behaviour has
  MaxTime,    \* bound of the clock
  PayWithin,  \* age at which an unpaid order is cancelled
  RelistDelay, \* RELIST_DELAY_MIN_SEC
  Lookback,   \* RELIST_LOOKBACK_DAYS
  Retention,  \* DATA_RETENTION_DAYS
  None

ASSUME TimesAreNat ==
  /\ MaxTime \in Nat /\ PayWithin \in Nat /\ Lookback \in Nat /\ Retention \in Nat
  /\ RelistDelay \in Nat \ {0}
ASSUME UnpaidIsCancelledFirst == PayWithin < Retention
ASSUME FirstAreRows == First \subseteq Auctions /\ IsFiniteSet(Auctions)
ASSUME ShoeIsNoRun == Shoe \notin Seeds
ASSUME NoneIsNothing ==
  /\ None \notin Auctions \cup Nat \cup Seeds \cup {Shoe}
  /\ None \notin {"OPEN", "CLOSED", "GONE", "PENDING", "PAID", "CANCELED"}

VARIABLES
  clock,
  mix,       \* the runs and requests of this behaviour
  auction,   \* rows of Auction, with their Order row
  sneaker,   \* the product's rows of Sneaker: since when each is there, or None
  relist, seed, purge,   \* the runs in progress
  review,    \* rows of Review by the winner, by auction; the seller's are alike
  reviewing, \* the reviews being written
  reopened   \* history: the pairs a cancellation put up again, and who had won them

rows == <<auction, sneaker, review>>
vars == <<clock, mix, auction, sneaker, relist, seed, purge, review, reviewing, reopened>>

Winners == {"bot", "person"}
(* No index keeps a product's row of Sneaker unique: one that a run inserts has *)
(* the name of the run. `by`, the run that inserted an auction, and `met`, the *)
(* runs that were in progress when this one began, are history.                *)
Shoes == Seeds \cup {Shoe}
NoRow == [status |-> None, pair |-> None, ended |-> FALSE,
          winner |-> None, closedAt |-> None, from |-> None,
          order |-> None, orderedAt |-> None, shoe |-> None, by |-> None]
NoRun == [at |-> "idle", now |-> None, known |-> {}, batch |-> {}, shoes |-> {}, met |-> {}]

Open(pair, from, shoe, by) ==
  [NoRow EXCEPT !.status = "OPEN", !.pair = pair, !.from = from, !.shoe = shoe, !.by = by]
Gone == [NoRow EXCEPT !.status = "GONE"]   \* an id is not used again
Exists(a) == auction[a].status \in {"OPEN", "CLOSED"}
NewRow == CHOOSE a \in Auctions : auction[a] = NoRow
Inserted(row) ==   \* an id is left, within the bound of the model
  /\ NoRow \in {auction[a] : a \in Auctions}
  /\ auction' = [auction EXCEPT ![NewRow] = row]

Row == [status : {None, "OPEN", "CLOSED", "GONE"}, pair : Auctions \cup {None}, ended : BOOLEAN,
        winner : Winners \cup {None}, closedAt : Nat \cup {None},
        from : Auctions \cup {None}, order : {None, "PENDING", "PAID", "CANCELED"},
        orderedAt : Nat \cup {None}, shoe : Shoes \cup {None}, by : Seeds \cup {None}]
Run == [at : {"idle", "known", "batch", "orders", "sneakers", "new", "check", "insert", "done"},
        now : Nat \cup {None}, known : SUBSET Auctions, batch : SUBSET Auctions,
        shoes : SUBSET Shoes, met : SUBSET Seeds]

(* The product is on at first, or new.                                         *)
Init ==
  /\ clock = 0
  /\ mix \in Mixes
  /\ \E there \in BOOLEAN :
       /\ auction = [a \in Auctions |-> IF there /\ a \in First THEN Open(a, None, Shoe, None)
                                       ELSE NoRow]
       /\ sneaker = [x \in Shoes |-> IF there /\ x = Shoe THEN 0 ELSE None]
  /\ relist = [r \in Relists |-> NoRun]
  /\ seed = [s \in Seeds |-> NoRun]
  /\ purge = [p \in Purges |-> NoRun]
  /\ review = {}
  /\ reviewing = [v \in Reviewers |-> None]
  /\ reopened = {}

(* The cancellation of unpaid orders keeps up with the clock; no other job has *)
(* to.                                                                         *)
Tick ==
  /\ clock < MaxTime
  /\ \A a \in Auctions :
       auction[a].order = "PENDING" => clock + 1 - auction[a].orderedAt <= PayWithin
  /\ clock' = clock + 1
  /\ UNCHANGED <<mix, rows, relist, seed, purge, reviewing, reopened>>

-----------------------------------------------------------------------------
(* The life of an auction, as the jobs see it.                                 *)
Keep == UNCHANGED <<clock, mix, sneaker, relist, seed, purge, review, reviewing>>

Ends(a) ==
  /\ auction[a].status = "OPEN" /\ ~auction[a].ended
  /\ auction' = [auction EXCEPT ![a].ended = TRUE]
  /\ Keep /\ UNCHANGED reopened

(* A second order of an auction is refused, and the close with it.             *)
Close(a) ==
  /\ auction[a].status = "OPEN" /\ auction[a].ended
  /\ \/ auction' = [auction EXCEPT ![a].status = "CLOSED", ![a].closedAt = clock]
     \/ /\ auction[a].order = None
        /\ \E w \in Winners :
             auction' = [auction EXCEPT
               ![a] = [@ EXCEPT !.status = "CLOSED", !.closedAt = clock, !.winner = w,
                                !.order = "PENDING", !.orderedAt = clock]]
  /\ Keep /\ UNCHANGED reopened

(* Bots do not pay.                                                            *)
Pay(a) ==
  /\ auction[a].order = "PENDING" /\ auction[a].winner = "person"
  /\ auction' = [auction EXCEPT ![a].order = "PAID"]
  /\ Keep /\ UNCHANGED reopened

(* An order that is not paid: the auction is on again.                         *)
Reopens(a) ==
  /\ auction' = [auction EXCEPT
       ![a] = [@ EXCEPT !.order = "CANCELED", !.status = "OPEN", !.ended = FALSE,
                        !.winner = None, !.closedAt = None]]
  /\ reopened' = reopened \cup {<<auction[a].pair, auction[a].winner>>}
  /\ Keep

(* A payment that fails takes the order back at once ...                       *)
PayFails(a) ==
  auction[a].order = "PENDING" /\ auction[a].winner = "person" /\ Reopens(a)

(* ... and one that is never made, by its age.                                 *)
Cancel(a) ==
  /\ auction[a].order = "PENDING"
  /\ clock - auction[a].orderedAt >= PayWithin
  /\ Reopens(a)

-----------------------------------------------------------------------------
(* relistBotWonAuctions: the enabled bots and the auctions listed again        *)
(* already, then the closed ones, then an insert for each of these.            *)
Relisting(r, run) ==
  /\ relist' = [relist EXCEPT ![r] = run]
  /\ UNCHANGED <<clock, mix, sneaker, seed, purge, review, reviewing, reopened>>

Relisted == {auction[a].from : a \in Auctions} \ {None}

RelistReads(r) ==
  /\ r \in mix /\ relist[r] = NoRun
  /\ Relisting(r, [NoRun EXCEPT !.at = "known", !.now = clock, !.known = Relisted])
  /\ UNCHANGED auction

ToRelist_Anyone(run) ==   \* bug: the winner is not looked at
  {a \in Auctions \ run.known :
     /\ auction[a].status = "CLOSED" /\ auction[a].winner # None
     /\ auction[a].closedAt \in run.now - Lookback .. run.now - RelistDelay}
ToRelist(run) ==
  {a \in Auctions \ run.known :
     /\ auction[a].status = "CLOSED" /\ auction[a].winner = "bot"
     /\ auction[a].closedAt \in run.now - Lookback .. run.now - RelistDelay}

RelistFinds(r) ==
  /\ relist[r].at = "known"
  /\ Relisting(r, LET batch == ToRelist(relist[r])
                  IN  IF batch = {} THEN NoRun ELSE [NoRun EXCEPT !.at = "batch",
                                                                  !.batch = batch])
  /\ UNCHANGED auction

Conflicts(a) == \E b \in Auctions : auction[b].from = a

(* The row's parent may be gone by then: the insert fails, and the run with it.*)
RelistInserts(r) ==
  \E a \in relist[r].batch :
    LET rest == relist[r].batch \ {a}
        next == IF rest = {} THEN NoRun ELSE [relist[r] EXCEPT !.batch = rest]
    IN  \/ /\ Exists(a) /\ ~Conflicts(a)
           /\ Inserted(Open(auction[a].pair, a, auction[a].shoe, None))
           /\ Relisting(r, next)
        \/ Exists(a) /\ Conflicts(a) /\ Relisting(r, next) /\ UNCHANGED auction
        \/ ~Exists(a) /\ Relisting(r, NoRun) /\ UNCHANGED auction

-----------------------------------------------------------------------------
(* seedFromKicksDB for one product and one size: its sneaker, inserted if there*)
(* is none, whether an auction of it is on, as of the begin of the run, and the*)
(* auction. The search may fail for good, which ends the run.                  *)
Seeding(s, run) ==
  /\ seed' = [seed EXCEPT ![s] = run]
  /\ UNCHANGED <<clock, mix, relist, purge, review, reviewing, reopened>>

InProgress(s) == seed[s].at \in {"new", "check", "insert"}

(* Any row will do, if there are several.                                      *)
SeedFindsSneaker(s) ==
  /\ s \in mix /\ seed[s] = NoRun
  /\ LET run == [NoRun EXCEPT !.known = {a \in Auctions : auction[a].ended},
                              !.met = {t \in Seeds : InProgress(t)}]
     IN  \/ /\ \A x \in Shoes : sneaker[x] = None
            /\ Seeding(s, [run EXCEPT !.at = "new"])
         \/ \E x \in Shoes : /\ sneaker[x] # None
                             /\ Seeding(s, [run EXCEPT !.at = "check", !.shoes = {x}])
  /\ UNCHANGED <<auction, sneaker>>

SeedAddsSneaker(s) ==
  /\ seed[s].at = "new"
  /\ sneaker' = [sneaker EXCEPT ![s] = clock]
  /\ Seeding(s, [seed[s] EXCEPT !.at = "check", !.shoes = {s}])
  /\ UNCHANGED auction

IsOn_Never(run, a) == FALSE   \* bug: the test for an open auction is dropped
IsOn(run, a) ==
  /\ auction[a].status = "OPEN" /\ auction[a].shoe \in run.shoes
  /\ ~auction[a].ended \/ a \notin run.known

Done(run) == [NoRun EXCEPT !.at = "done", !.met = run.met]

SeedChecks(s) ==
  /\ seed[s].at = "check"
  /\ Seeding(s, IF \E a \in Auctions : IsOn(seed[s], a) THEN Done(seed[s])
                ELSE [seed[s] EXCEPT !.at = "insert"])
  /\ UNCHANGED <<auction, sneaker>>

(* The insert fails when the sneaker was purged meanwhile.                     *)
SeedInserts(s) ==
  /\ seed[s].at = "insert"
  /\ \E x \in seed[s].shoes :
       IF sneaker[x] = None THEN UNCHANGED auction
       ELSE Inserted(Open(NewRow, None, x, s))
  /\ Seeding(s, Done(seed[s]))
  /\ UNCHANGED sneaker

-----------------------------------------------------------------------------
(* purgeOldClosedAuctions: auctions, orders, sneakers, each in batches that    *)
(* are read first, the oldest rows at most DATA_RETENTION_BATCH_SIZE of them,  *)
(* and deleted in a transaction of their own.                                  *)
Purging(p, run) ==
  /\ purge' = [purge EXCEPT ![p] = run]
  /\ UNCHANGED <<clock, mix, relist, seed, reviewing, reopened>>

Old(p, t) == t # None /\ t < purge[p].now - Retention

PurgeStarts(p) ==
  /\ p \in mix /\ purge[p] = NoRun
  /\ Purging(p, [NoRun EXCEPT !.at = "batch", !.now = clock])
  /\ UNCHANGED rows

OldAuctions_ByOrder(p) ==   \* bug: closed or not, an auction is as old as its order
  {a \in Auctions : Exists(a) /\ Old(p, auction[a].orderedAt)}
OldAuctions(p) ==
  {a \in Auctions : auction[a].status = "CLOSED" /\ Old(p, auction[a].closedAt)}

(* The batches of any size of these rows, by what they are sorted by.          *)
Oldest(old, at) ==
  {batch \in SUBSET old : batch # {} /\ \A a \in batch, b \in old \ batch : at[a] <= at[b]}

PurgeSelects(p) ==
  /\ purge[p].at = "batch" /\ purge[p].batch = {}
  /\ \/ \E batch \in Oldest(OldAuctions(p), [a \in Auctions |-> auction[a].closedAt]) :
          Purging(p, [purge[p] EXCEPT !.batch = batch])
     \/ OldAuctions(p) = {} /\ Purging(p, [purge[p] EXCEPT !.at = "orders"])
  /\ UNCHANGED rows

(* Ledger rows, order and auction in one transaction; the reviews go with the  *)
(* order, and a row listed again from the auction loses its origin.            *)
Deleted(p) ==
  [b \in Auctions |-> IF b \in purge[p].batch THEN Gone
                      ELSE IF auction[b].from \in purge[p].batch
                      THEN [auction[b] EXCEPT !.from = None] ELSE auction[b]]

PurgeDeletes(p) ==
  /\ purge[p].at = "batch" /\ purge[p].batch # {}
  /\ auction' = Deleted(p)
  /\ review' = review \ purge[p].batch
  /\ Purging(p, [purge[p] EXCEPT !.batch = {}])
  /\ UNCHANGED sneaker

OldOrders(p) == {a \in Auctions : Old(p, auction[a].orderedAt)}

(* Orders by age, whatever their auction does by now.                          *)
PurgeSelectsOrders(p) ==
  /\ purge[p].at = "orders" /\ purge[p].batch = {}
  /\ \/ \E batch \in Oldest(OldOrders(p), [a \in Auctions |-> auction[a].orderedAt]) :
          Purging(p, [purge[p] EXCEPT !.batch = batch])
     \/ OldOrders(p) = {} /\ Purging(p, [purge[p] EXCEPT !.at = "sneakers"])
  /\ UNCHANGED rows

(* An order that took the place of one of the batch is younger, and stays.     *)
Outdated(p) == {a \in purge[p].batch : Old(p, auction[a].orderedAt)}

PurgeDeletesOrders(p) ==
  /\ purge[p].at = "orders" /\ purge[p].batch # {}
  /\ auction' = [a \in Auctions |-> IF a \in Outdated(p)
                   THEN [auction[a] EXCEPT !.order = None, !.orderedAt = None]
                   ELSE auction[a]]
  /\ review' = review \ Outdated(p)
  /\ Purging(p, [purge[p] EXCEPT !.batch = {}])
  /\ UNCHANGED sneaker

(* Sneakers nothing refers to, as of the SELECT; the DELETE is refused, and the*)
(* run ends, when an auction refers to one of them by now.                     *)
Referred(x) == \E a \in Auctions : Exists(a) /\ auction[a].shoe = x
OldSneakers(p) == {x \in Shoes : Old(p, sneaker[x]) /\ ~Referred(x)}

PurgeSelectsSneakers(p) ==
  /\ purge[p].at = "sneakers" /\ purge[p].shoes = {}
  /\ \/ \E batch \in Oldest(OldSneakers(p), sneaker) :
          Purging(p, [purge[p] EXCEPT !.shoes = batch])
     \/ OldSneakers(p) = {} /\ Purging(p, NoRun)
  /\ UNCHANGED rows

PurgeDeletesSneakers(p) ==
  /\ purge[p].at = "sneakers" /\ purge[p].shoes # {}
  /\ IF \E x \in purge[p].shoes : Referred(x) THEN Purging(p, NoRun) /\ UNCHANGED sneaker
     ELSE /\ Purging(p, [purge[p] EXCEPT !.shoes = {}])
          /\ sneaker' = [x \in Shoes |-> IF x \in purge[p].shoes THEN None ELSE sneaker[x]]
  /\ UNCHANGED <<auction, review>>

(* A statement fails, and the run with it: what is deleted stays deleted.      *)
PurgeFails(p) ==
  /\ purge[p] # NoRun
  /\ Purging(p, NoRun)
  /\ UNCHANGED rows

-----------------------------------------------------------------------------
(* createForOrder: the order is paid and its author has not written yet; then  *)
(* the insert, which the unique index or the missing order refuses.            *)
Reviewing == UNCHANGED <<clock, mix, auction, sneaker, relist, seed, purge, reopened>>

Reviewable(a) == auction[a].order = "PAID" /\ a \notin review

ReviewChecks(v) ==
  /\ v \in mix /\ reviewing[v] = None
  /\ \E a \in Auctions : Reviewable(a) /\ reviewing' = [reviewing EXCEPT ![v] = a]
  /\ Reviewing /\ UNCHANGED review

ReviewInserts(v) ==
  /\ reviewing[v] # None
  /\ review' = IF auction[reviewing[v]].order # None THEN review \cup {reviewing[v]}
               ELSE review
  /\ reviewing' = [reviewing EXCEPT ![v] = None]
  /\ Reviewing

-----------------------------------------------------------------------------
PurgeStep(p) ==
  \/ PurgeSelects(p) \/ PurgeDeletes(p) \/ PurgeSelectsOrders(p) \/ PurgeDeletesOrders(p)
  \/ PurgeSelectsSneakers(p) \/ PurgeDeletesSneakers(p)

SeedStep(s) == SeedFindsSneaker(s) \/ SeedAddsSneaker(s) \/ SeedChecks(s) \/ SeedInserts(s)

Next ==
  \/ Tick
  \/ \E a \in Auctions : Ends(a) \/ Close(a) \/ Pay(a) \/ PayFails(a) \/ Cancel(a)
  \/ \E r \in Relists : RelistReads(r) \/ RelistFinds(r) \/ RelistInserts(r)
  \/ \E s \in Seeds : SeedStep(s)
  \/ \E p \in Purges : PurgeStarts(p) \/ PurgeFails(p) \/ PurgeStep(p)
  \/ \E v \in Reviewers : ReviewChecks(v) \/ ReviewInserts(v)

Spec == Init /\ [][Next]_vars

-----------------------------------------------------------------------------
(* Properties *)

TypeOK ==
  /\ clock \in 0 .. MaxTime
  /\ mix \in Mixes
  /\ auction \in [Auctions -> Row]
  /\ sneaker \in [Shoes -> Nat \cup {None}]
  /\ relist \in [Relists -> Run] /\ seed \in [Seeds -> Run] /\ purge \in [Purges -> Run]
  /\ review \subseteq Auctions
  /\ reviewing \in [Reviewers -> Auctions \cup {None}]
  /\ reopened \subseteq Auctions \X Winners

(* A pair of shoes is for sale, or sold to a person, once at a time: two rows  *)
(* of one pair that can both be paid exist only after a cancellation took a    *)
(* pair back from a bot that had won it.                                       *)
CanBePaid(a) ==
  auction[a].status = "OPEN" \/ auction[a].order = "PAID"
    \/ (auction[a].order = "PENDING" /\ auction[a].winner = "person")
SoldOnce ==
  \A a, b \in Auctions :
    /\ a # b /\ CanBePaid(a) /\ CanBePaid(b)
    /\ auction[a].pair = auction[b].pair
    => <<auction[a].pair, "bot">> \in reopened

(* A review is about an order that was paid.                                   *)
ReviewsArePaid == \A v \in review : auction[v].order = "PAID"

(* What was sold was sold to one, and is reviewed by nobody else.              *)
SalesAreSound == SoldOnce /\ ReviewsArePaid

(* Nothing but runs of the seed that overlap doubles a product: two rows of    *)
(* Sneaker were inserted by runs that did, and so were two auctions of one such*)
(* row that are on, leaving aside those a cancellation put up again and those  *)
(* listed again.                                                               *)
Overlapped(s, t) == {s, t} \subseteq Seeds /\ (s \in seed[t].met \/ t \in seed[s].met)
OnOffer(a) ==
  /\ auction[a].status = "OPEN" /\ ~auction[a].ended /\ auction[a].pair = a
  /\ ({a} \X Winners) \cap reopened = {}
DoublesOverlap ==
  /\ \A x, y \in Shoes :
       x # y /\ sneaker[x] # None /\ sneaker[y] # None => Overlapped(x, y)
  /\ \A a, b \in Auctions :
       /\ a # b /\ OnOffer(a) /\ OnOffer(b) /\ auction[a].shoe = auction[b].shoe
       /\ ~({a, b} \subseteq First)
       => Overlapped(auction[a].by, auction[b].by)

(* The purge deletes no auction that is on, or whose order is still to be paid.*)
PurgeTakesSettled ==
  [][\A a \in Auctions : Exists(a) /\ auction'[a] = Gone
       => auction[a].status = "CLOSED" /\ auction[a].order # "PENDING"]_vars
=============================================================================
