--------------------------- MODULE Upkeep_proofs ---------------------------
(***************************************************************************)
(* Theorems about Upkeep, for any number of auctions, runs and reviews and *)
(* any ages, provided an unpaid order is cancelled before it is old enough *)
(* to be purged.                                                           *)
(***************************************************************************)
EXTENDS Upkeep, TLAPS

(* A row that is there is about a pair of shoes; an order to be paid is as old *)
(* as the close that made it, and not older than the cancellation lets it be.  *)
Unpaid(row, now) ==
  row.order = "PENDING" =>
    /\ row.winner \in Winners
    /\ row.orderedAt \in Nat /\ row.closedAt = row.orderedAt
    /\ now - row.orderedAt <= PayWithin
Fine(row, now) ==
  /\ row.status \in {"OPEN", "CLOSED"} => row.pair \in Auctions
  /\ row.order \in {"PENDING", "PAID"} => row.status = "CLOSED"
  /\ Unpaid(row, now)
RowsFine == \A a \in Auctions : Fine(auction[a], clock)

(* No step but a purge changes a settled row again.                            *)
Settled(row) == row.status \in {"CLOSED", "GONE"} /\ row.order # "PENDING"
BatchSettled ==
  \A p \in Purges : purge[p].at = "batch" =>
    /\ purge[p].now \in 0 .. clock
    /\ \A a \in purge[p].batch : Settled(auction[a])
ReviewsSettled ==
  \A v \in Reviewers : reviewing[v] # None =>
    Settled(auction[reviewing[v]]) /\ auction[reviewing[v]].order \in {"PAID", None}

(* The purge's step, as PurgeTakesSettled wants every step.                    *)
TakesSettled ==
  \A a \in Auctions : Exists(a) /\ auction'[a] = Gone
    => auction[a].status = "CLOSED" /\ auction[a].order # "PENDING"

UpkeepInv == TypeOK /\ RowsFine /\ BatchSettled /\ ReviewsSettled /\ ReviewsArePaid

-----------------------------------------------------------------------------
(* An insert uses an id that has no row.                                       *)
LEMMA InsertsUnused ==
  ASSUME NEW row, Inserted(row)
  PROVE  /\ NewRow \in Auctions /\ auction[NewRow] = NoRow
         /\ auction' = [auction EXCEPT ![NewRow] = row]
<1>1. PICK a \in Auctions : auction[a] = NoRow
  BY DEF Inserted
<1>2. NewRow \in Auctions /\ auction[NewRow] = NoRow
  BY <1>1 DEF NewRow
<1> QED BY <1>2 DEF Inserted

LEMMA RowTypes ==
  /\ NoRow \in Row /\ Gone \in Row /\ NoRun \in Run
  /\ \A run \in Run : Done(run) \in Run
  /\ \A pair, from \in Auctions \cup {None}, shoe \in Shoes \cup {None},
        by \in Seeds \cup {None} : Open(pair, from, shoe, by) \in Row
BY DEF NoRow, Gone, Row, NoRun, Done, Run, Open, Winners

LEMMA Types ==
  ASSUME UpkeepInv
  PROVE  /\ clock \in Nat /\ MaxTime \in Nat /\ PayWithin \in Nat
         /\ None \notin Auctions /\ None \notin Nat
         /\ auction \in [Auctions -> Row]
         /\ relist \in [Relists -> Run] /\ seed \in [Seeds -> Run] /\ purge \in [Purges -> Run]
BY TimesAreNat, NoneIsNothing DEF UpkeepInv, TypeOK

(* What a step that is no purge does to the rows.                              *)
RowsGo ==
  /\ auction' \in [Auctions -> Row]
  /\ \A a \in Auctions :
       /\ Fine(auction'[a], clock')
       /\ Settled(auction[a]) => auction'[a] = auction[a]
       /\ auction[a].order = "PAID" => auction'[a].order = "PAID"
       /\ Exists(a) => auction'[a].status # "GONE"

LEMMA OneRowGoes ==
  ASSUME UpkeepInv, NEW a \in Auctions, NEW row \in Row,
         auction' = [auction EXCEPT ![a] = row], clock' = clock,
         Fine(row, clock), ~Settled(auction[a]), auction[a].order = "PAID" => row.order = "PAID",
         row.status # "GONE"
  PROVE  RowsGo
BY Types DEF RowsGo, UpkeepInv, RowsFine, Exists

(* A step of the runs and the rows that no batch, review or request is about.  *)
LEMMA GoingKeeps ==
  ASSUME UpkeepInv, RowsGo, UNCHANGED <<clock, mix, review, reviewing>>,
         sneaker' \in [Shoes -> Nat \cup {None}], reopened' \subseteq Auctions \X Winners,
         relist' \in [Relists -> Run], seed' \in [Seeds -> Run], purge' \in [Purges -> Run],
         \A p \in Purges : purge'[p].at = "batch" =>
           /\ purge'[p].now \in 0 .. clock
           /\ \A a \in purge'[p].batch : a \in Auctions /\ Settled(auction[a])
  PROVE  UpkeepInv' /\ TakesSettled
<1>1. TypeOK'
  BY DEF UpkeepInv, TypeOK, RowsGo
<1>2. RowsFine'
  BY DEF RowsGo, RowsFine
<1>3. BatchSettled'
  BY DEF BatchSettled, RowsGo
<1>4. ReviewsSettled' /\ ReviewsArePaid'
  BY DEF UpkeepInv, TypeOK, ReviewsSettled, ReviewsArePaid, RowsGo
<1>5. TakesSettled
  BY DEF TakesSettled, RowsGo, Gone, NoRow
<1> QED BY <1>1, <1>2, <1>3, <1>4, <1>5 DEF UpkeepInv

(* What holds of the runs of the purge as they are.                            *)
LEMMA BatchesAreSettled ==
  ASSUME UpkeepInv
  PROVE  \A p \in Purges : purge[p].at = "batch" =>
           /\ purge[p].now \in 0 .. clock
           /\ \A a \in purge[p].batch : a \in Auctions /\ Settled(auction[a])
BY Types DEF UpkeepInv, BatchSettled, Run

LEMMA RowsUntaken ==
  ASSUME UNCHANGED auction PROVE TakesSettled
BY DEF TakesSettled, Exists, Gone, NoRow

LEMMA RowsStay ==
  ASSUME UpkeepInv, UNCHANGED <<clock, auction>>
  PROVE  RowsGo
BY Types DEF RowsGo, UpkeepInv, RowsFine, Exists

-----------------------------------------------------------------------------
(* A step in the life of an auction.                                           *)
LifeStep(a) == Ends(a) \/ Close(a) \/ Pay(a) \/ PayFails(a) \/ Cancel(a)

LEMMA LivesKeep ==
  ASSUME UpkeepInv, NEW a \in Auctions, LifeStep(a)
  PROVE  UpkeepInv' /\ TakesSettled
<1>1. /\ UNCHANGED <<clock, mix, sneaker, relist, seed, purge, review, reviewing>>
      /\ auction[a] \in Row /\ auction[a].status \in {"OPEN", "CLOSED"}
      /\ Fine(auction[a], clock) /\ ~Settled(auction[a])
      /\ auction[a].order # "PAID"
  BY Types
     DEF LifeStep, Ends, Close, Pay, PayFails, Cancel, Reopens, Keep, UpkeepInv, RowsFine,
         Fine, Settled
<1>2. auction[a].pair \in Auctions
  BY <1>1 DEF Fine
<1>3. /\ sneaker \in [Shoes -> Nat \cup {None}] /\ reopened \subseteq Auctions \X Winners
      /\ clock \in Nat /\ None \notin Nat /\ PayWithin \in Nat
      /\ relist \in [Relists -> Run] /\ seed \in [Seeds -> Run] /\ purge \in [Purges -> Run]
  BY Types DEF UpkeepInv, TypeOK
<1>4. ASSUME NEW row \in Row, auction' = [auction EXCEPT ![a] = row], Fine(row, clock),
             row.status # "GONE", reopened' \subseteq Auctions \X Winners
      PROVE  UpkeepInv' /\ TakesSettled
  BY <1>1, <1>3, <1>4, OneRowGoes, GoingKeeps, BatchesAreSettled
<1>5. CASE Ends(a)
  <2>1. auction' = [auction EXCEPT ![a] = [auction[a] EXCEPT !.ended = TRUE]]
    BY <1>5 DEF Ends
  <2>2. /\ [auction[a] EXCEPT !.ended = TRUE] \in Row
        /\ [auction[a] EXCEPT !.ended = TRUE].status # "GONE"
    BY <1>1 DEF Row
  <2>3. Fine([auction[a] EXCEPT !.ended = TRUE], clock)
    BY <1>1 DEF Fine, Unpaid, Row
  <2> QED BY <1>3, <1>4, <1>5, <2>1, <2>2, <2>3 DEF Ends
<1>6. CASE Close(a)
  <2>1. ASSUME NEW row, row = [auction[a] EXCEPT !.status = "CLOSED", !.closedAt = clock],
               auction' = [auction EXCEPT ![a] = row]
        PROVE  UpkeepInv' /\ TakesSettled
    <3>1. row \in Row /\ row.order = auction[a].order /\ row.pair = auction[a].pair
          /\ row.status = "CLOSED"
      BY <1>1, <1>3, <2>1 DEF Row
    <3>2. row.order # "PENDING"
      BY <1>1, <1>6, <3>1 DEF Fine, Close
    <3>3. Fine(row, clock)
      BY <1>2, <3>1, <3>2 DEF Fine, Unpaid
    <3> QED BY <1>3, <1>4, <1>6, <2>1, <3>1, <3>3 DEF Close
  <2>2. ASSUME NEW w \in Winners, NEW row,
               row = [auction[a] EXCEPT !.status = "CLOSED", !.closedAt = clock, !.winner = w,
                                        !.order = "PENDING", !.orderedAt = clock],
               auction' = [auction EXCEPT ![a] = row]
        PROVE  UpkeepInv' /\ TakesSettled
    <3>1. /\ row \in Row /\ row.order = "PENDING" /\ row.pair = auction[a].pair
          /\ row.status = "CLOSED" /\ row.winner = w
          /\ row.closedAt = clock /\ row.orderedAt = clock
      BY <1>1, <1>3, <2>2 DEF Row
    <3>2. Fine(row, clock)
      BY <1>2, <1>3, <3>1 DEF Fine, Unpaid
    <3> QED BY <1>3, <1>4, <1>6, <2>2, <3>1, <3>2 DEF Close
  <2> QED BY <1>1, <1>6, <2>1, <2>2 DEF Close
<1>7. CASE Pay(a)
  <2> DEFINE row == [auction[a] EXCEPT !.order = "PAID"]
  <2>1. auction' = [auction EXCEPT ![a] = row] /\ reopened' = reopened
    BY <1>7 DEF Pay
  <2>2. row \in Row /\ row.order = "PAID" /\ row.status = auction[a].status
        /\ row.pair = auction[a].pair
    BY <1>1 DEF Row
  <2>3. auction[a].status = "CLOSED"
    BY <1>1, <1>7 DEF Pay, Fine
  <2> HIDE DEF row
  <2>4. Fine(row, clock)
    BY <1>2, <2>2, <2>3 DEF Fine, Unpaid
  <2> QED BY <1>3, <1>4, <2>1, <2>2, <2>3, <2>4
<1>8. CASE PayFails(a) \/ Cancel(a)
  <2> DEFINE row == [auction[a] EXCEPT !.order = "CANCELED", !.status = "OPEN", !.ended = FALSE,
                                       !.winner = None, !.closedAt = None]
  <2>1. auction' = [auction EXCEPT ![a] = row]
        /\ reopened' = reopened \cup {<<auction[a].pair, auction[a].winner>>}
    BY <1>8 DEF PayFails, Cancel, Reopens
  <2>2. row \in Row /\ row.order = "CANCELED" /\ row.pair = auction[a].pair /\ row.status = "OPEN"
    BY <1>1 DEF Row
  <2>3. auction[a].winner \in Winners
    BY <1>1, <1>8 DEF PayFails, Cancel, Reopens, Fine, Unpaid
  <2> HIDE DEF row
  <2>4. Fine(row, clock)
    BY <1>2, <2>2 DEF Fine, Unpaid
  <2>5. reopened' \subseteq Auctions \X Winners
    BY <1>2, <1>3, <2>1, <2>3
  <2> QED BY <1>4, <2>1, <2>2, <2>4, <2>5
<1> QED BY <1>5, <1>6, <1>7, <1>8 DEF LifeStep

(* The rows there are at first, if any, are of the one row of Sneaker.         *)
LEMMA StartsWith ==
  ASSUME Init
  PROVE  /\ sneaker \in [Shoes -> {0, None}] /\ \A x \in Shoes : sneaker[x] # None => x = Shoe
         /\ \E first \in SUBSET First :
              auction = [a \in Auctions |->
                           IF a \in first THEN Open(a, None, Shoe, None) ELSE NoRow]
<1>1. PICK there \in BOOLEAN :
        /\ auction = [a \in Auctions |-> IF there /\ a \in First THEN Open(a, None, Shoe, None)
                                         ELSE NoRow]
        /\ sneaker = [x \in Shoes |-> IF there /\ x = Shoe THEN 0 ELSE None]
  BY DEF Init
<1>2. sneaker \in [Shoes -> {0, None}] /\ \A x \in Shoes : sneaker[x] # None => x = Shoe
  BY <1>1
<1>3. CASE there
  BY <1>1, <1>2, <1>3
<1>4. CASE ~there
  <2>1. /\ {} \in SUBSET First
        /\ auction = [a \in Auctions |-> IF a \in {} THEN Open(a, None, Shoe, None) ELSE NoRow]
    BY <1>1, <1>4
  <2> QED BY <1>2, <2>1
<1> QED BY <1>3, <1>4

LEMMA UpkeepStarts ==
  ASSUME Init PROVE UpkeepInv
<1>1. /\ clock = 0 /\ mix \in Mixes /\ review = {} /\ reopened = {}
      /\ relist = [r \in Relists |-> NoRun] /\ seed = [s \in Seeds |-> NoRun]
      /\ purge = [p \in Purges |-> NoRun] /\ reviewing = [v \in Reviewers |-> None]
      /\ MaxTime \in Nat /\ sneaker \in [Shoes -> Nat \cup {None}]
  BY TimesAreNat, StartsWith DEF Init
<1>2. \A a \in Auctions : /\ auction[a] \in Row /\ auction[a].order = None
                          /\ auction[a].status \in {"OPEN", "CLOSED"} => auction[a].pair \in Auctions
  <2> SUFFICES ASSUME NEW a \in Auctions
               PROVE  /\ auction[a] \in Row /\ auction[a].order = None
                      /\ auction[a].status \in {"OPEN", "CLOSED"} => auction[a].pair \in Auctions
    OBVIOUS
  <2>1. PICK first \in SUBSET First :
          auction = [b \in Auctions |-> IF b \in first THEN Open(b, None, Shoe, None) ELSE NoRow]
    BY StartsWith
  <2>2. CASE a \in first
    <3>1. auction[a] = Open(a, None, Shoe, None)
      BY <2>1, <2>2
    <3>2. Open(a, None, Shoe, None) \in Row
      BY RowTypes DEF Shoes
    <3> QED BY <3>1, <3>2 DEF Open, NoRow
  <2>3. CASE a \notin first
    BY <2>1, <2>3, RowTypes, NoneIsNothing DEF NoRow
  <2> QED BY <2>2, <2>3
<1>3. TypeOK
  <2>1. auction \in [Auctions -> Row]
    BY <1>2, StartsWith
  <2> QED BY <1>1, <2>1, RowTypes DEF TypeOK
<1>4. RowsFine
  BY <1>2, NoneIsNothing DEF RowsFine, Fine, Unpaid
<1>5. BatchSettled /\ ReviewsSettled /\ ReviewsArePaid
  BY <1>1 DEF BatchSettled, ReviewsSettled, ReviewsArePaid, NoRun
<1> QED BY <1>3, <1>4, <1>5 DEF UpkeepInv

(* Time passes only while every unpaid order may still wait.                   *)
LEMMA TimeKeeps ==
  ASSUME UpkeepInv, Tick \/ UNCHANGED vars
  PROVE  UpkeepInv' /\ TakesSettled
<1> UNCHANGED auction
  BY DEF Tick, vars, rows
<1>0. TakesSettled
  BY RowsUntaken
<1>1. CASE UNCHANGED vars
  BY <1>0, <1>1 DEF vars, rows, UpkeepInv, TypeOK, RowsFine, BatchSettled, ReviewsSettled,
                   ReviewsArePaid
<1>2. CASE Tick
  <2>1. /\ clock' = clock + 1 /\ clock' \in 0 .. MaxTime /\ clock \in Nat
        /\ UNCHANGED <<mix, auction, sneaker, review, relist, seed, purge, reviewing, reopened>>
    BY <1>2, Types DEF Tick, rows, UpkeepInv, TypeOK
  <2>2. TypeOK' /\ ReviewsSettled' /\ ReviewsArePaid'
    BY <2>1 DEF UpkeepInv, TypeOK, ReviewsSettled, ReviewsArePaid
  <2>3. RowsFine'
    BY <1>2, <2>1 DEF Tick, UpkeepInv, RowsFine, Fine, Unpaid
  <2>4. BatchSettled'
    BY <2>1 DEF UpkeepInv, BatchSettled
  <2> QED BY <1>0, <2>2, <2>3, <2>4 DEF UpkeepInv
<1> QED BY <1>1, <1>2

(* A review is written of an order that was paid when it was looked at: it is  *)
(* paid or gone by now.                                                        *)
LEMMA ReviewsKeep ==
  ASSUME UpkeepInv, NEW v \in Reviewers, ReviewChecks(v) \/ ReviewInserts(v)
  PROVE  UpkeepInv' /\ TakesSettled
<1>1. /\ UNCHANGED <<clock, mix, auction, sneaker, relist, seed, purge, reopened>>
      /\ TypeOK /\ RowsFine /\ BatchSettled /\ ReviewsSettled /\ ReviewsArePaid
  BY DEF ReviewChecks, ReviewInserts, Reviewing, UpkeepInv
<1>2. RowsFine' /\ BatchSettled' /\ TakesSettled
  BY <1>1, RowsUntaken DEF RowsFine, BatchSettled
<1>3. CASE ReviewChecks(v)
  <2>1. PICK a \in Auctions : Reviewable(a) /\ reviewing' = [reviewing EXCEPT ![v] = a]
    BY <1>3 DEF ReviewChecks
  <2>2. review' = review /\ auction[a].order = "PAID" /\ Settled(auction[a])
    BY <1>1, <1>3, <2>1 DEF ReviewChecks, Reviewable, Settled, RowsFine, Fine
  <2> QED BY <1>1, <1>2, <2>1, <2>2 DEF UpkeepInv, TypeOK, ReviewsSettled, ReviewsArePaid
<1>4. CASE ReviewInserts(v)
  <2>1. /\ reviewing' = [reviewing EXCEPT ![v] = None] /\ reviewing[v] \in Auctions
        /\ review' \subseteq review \cup {reviewing[v]}
        /\ reviewing[v] \in review' => reviewing[v] \in review \/ auction[reviewing[v]].order # None
    BY <1>1, <1>4 DEF ReviewInserts, TypeOK
  <2>2. auction[reviewing[v]].order \in {"PAID", None}
    BY <1>1, <1>4 DEF ReviewInserts, ReviewsSettled
  <2> QED BY <1>1, <1>2, <2>1, <2>2 DEF UpkeepInv, TypeOK, ReviewsSettled, ReviewsArePaid
<1> QED BY <1>3, <1>4

-----------------------------------------------------------------------------
(* A row that a run inserts.                                                   *)
LEMMA InsertsGo ==
  ASSUME UpkeepInv, NEW pair \in Auctions, NEW from \in Auctions \cup {None},
         NEW shoe \in Shoes \cup {None}, NEW by \in Seeds \cup {None},
         Inserted(Open(pair, from, shoe, by)), clock' = clock
  PROVE  RowsGo
<1> DEFINE row == Open(pair, from, shoe, by)
<1>1. /\ NewRow \in Auctions /\ auction[NewRow] = NoRow
      /\ auction' = [auction EXCEPT ![NewRow] = row]
  BY InsertsUnused
<1>2. row \in Row /\ row.pair = pair /\ row.order = None /\ row.status = "OPEN"
  <2>1. row.pair = pair /\ row.order = None /\ row.status = "OPEN"
    BY DEF Open, NoRow
  <2>2. row \in Row
    BY RowTypes
  <2> QED BY <2>1, <2>2
<1> HIDE DEF row
<1>3. Fine(row, clock)
  BY <1>2, NoneIsNothing DEF Fine, Unpaid
<1>4. ~Settled(NoRow) /\ NoRow.order # "PAID"
  BY NoneIsNothing DEF Settled, NoRow
<1> QED BY <1>1, <1>2, <1>3, <1>4, OneRowGoes

LEMMA RelistsKeep ==
  ASSUME UpkeepInv, NEW r \in Relists, RelistReads(r) \/ RelistFinds(r) \/ RelistInserts(r)
  PROVE  UpkeepInv' /\ TakesSettled
<1>1. ASSUME NEW run \in Run, Relisting(r, run), RowsGo
      PROVE  UpkeepInv' /\ TakesSettled
  <2>1. /\ UNCHANGED <<clock, mix, sneaker, seed, purge, review, reviewing, reopened>>
        /\ relist' \in [Relists -> Run]
    BY <1>1, Types DEF Relisting
  <2> QED BY <1>1, <2>1, Types, GoingKeeps, BatchesAreSettled DEF UpkeepInv, TypeOK
<1>2. relist[r] \in Run /\ auction \in [Auctions -> Row] /\ clock \in Nat
  BY Types
<1>3. CASE RelistReads(r)
  <2>1. [NoRun EXCEPT !.at = "known", !.now = clock, !.known = Relisted] \in Run
    <3>1. Relisted \subseteq Auctions
      BY <1>2 DEF Relisted, Row
    <3> QED BY <1>2, <3>1 DEF Run, NoRun
  <2>2. RowsGo
    BY <1>3, RowsStay DEF RelistReads, Relisting
  <2> QED BY <1>1, <1>3, <2>1, <2>2 DEF RelistReads
<1>4. CASE RelistFinds(r)
  <2> DEFINE batch == ToRelist(relist[r])
  <2>1. batch \subseteq Auctions
    BY DEF ToRelist
  <2> HIDE DEF batch
  <2>2. (IF batch = {} THEN NoRun ELSE [NoRun EXCEPT !.at = "batch", !.batch = batch]) \in Run
    BY <2>1, RowTypes DEF Run, NoRun
  <2>3. RowsGo
    BY <1>4, RowsStay DEF RelistFinds, Relisting
  <2> QED BY <1>1, <1>4, <2>2, <2>3 DEF RelistFinds, batch
<1>5. CASE RelistInserts(r)
  <2>1. PICK a \in relist[r].batch :
          LET rest == relist[r].batch \ {a}
              next == IF rest = {} THEN NoRun ELSE [relist[r] EXCEPT !.batch = rest]
          IN  \/ /\ Exists(a) /\ ~Conflicts(a)
                 /\ Inserted(Open(auction[a].pair, a, auction[a].shoe, None))
                 /\ Relisting(r, next)
              \/ Exists(a) /\ Conflicts(a) /\ Relisting(r, next) /\ UNCHANGED auction
              \/ ~Exists(a) /\ Relisting(r, NoRun) /\ UNCHANGED auction
    BY <1>5 DEF RelistInserts
  <2> DEFINE rest == relist[r].batch \ {a}
             next == IF rest = {} THEN NoRun ELSE [relist[r] EXCEPT !.batch = rest]
  <2>2. a \in Auctions /\ rest \in SUBSET Auctions
    BY <1>2 DEF Run
  <2> HIDE DEF rest
  <2>3. next \in Run /\ NoRun \in Run
    BY <1>2, <2>2, RowTypes DEF Run
  <2> HIDE DEF next
  <2>4. CASE /\ Exists(a) /\ Inserted(Open(auction[a].pair, a, auction[a].shoe, None))
             /\ Relisting(r, next)
    <3>1. auction[a].pair \in Auctions /\ auction[a].shoe \in Shoes \cup {None}
      BY <1>2, <2>2, <2>4 DEF Exists, UpkeepInv, RowsFine, Fine, Row
    <3>2. RowsGo
      BY <2>2, <2>4, <3>1, InsertsGo DEF Relisting
    <3> QED BY <1>1, <2>3, <2>4, <3>2
  <2>5. CASE UNCHANGED auction /\ (Relisting(r, next) \/ Relisting(r, NoRun))
    <3>1. RowsGo
      BY <2>5, RowsStay DEF Relisting
    <3> QED BY <1>1, <2>3, <2>5, <3>1
  <2> QED BY <2>1, <2>4, <2>5 DEF rest, next
<1> QED BY <1>3, <1>4, <1>5

(* The steps of a run of the seed, by what they leave of it.                   *)
LEMMA SeedsGo ==
  ASSUME UpkeepInv, NEW s \in Seeds, SeedStep(s)
  PROVE  /\ UNCHANGED <<clock, mix, relist, purge, review, reviewing, reopened>>
         /\ seed' \in [Seeds -> Run] /\ \A t \in Seeds \ {s} : seed'[t] = seed[t]
         /\ sneaker' \in [Shoes -> Nat \cup {None}]
         /\ \/ UNCHANGED auction
            \/ \E x \in Shoes : seed[s].at = "insert" /\ x \in seed[s].shoes
                                /\ Inserted(Open(NewRow, None, x, s))
<1>1. /\ seed \in [Seeds -> Run] /\ seed[s] \in Run /\ clock \in Nat
      /\ sneaker \in [Shoes -> Nat \cup {None}]
      /\ None \in Nat \cup {None}
  BY Types DEF UpkeepInv, TypeOK
<1>2. ASSUME NEW run \in Run, Seeding(s, run)
      PROVE  /\ UNCHANGED <<clock, mix, relist, purge, review, reviewing, reopened>>
             /\ seed' \in [Seeds -> Run] /\ \A t \in Seeds \ {s} : seed'[t] = seed[t]
  BY <1>1, <1>2 DEF Seeding
<1>3. CASE SeedFindsSneaker(s)
  <2> DEFINE run == [NoRun EXCEPT !.known = {a \in Auctions : auction[a].ended},
                                  !.met = {t \in Seeds : InProgress(t)}]
  <2>1. run \in Run
    BY RowTypes DEF Run
  <2>2. /\ [run EXCEPT !.at = "new"] \in Run
        /\ \A x \in Shoes : [run EXCEPT !.at = "check", !.shoes = {x}] \in Run
    BY <2>1 DEF Run
  <2>3. UNCHANGED <<auction, sneaker>>
    BY <1>3 DEF SeedFindsSneaker
  <2>4. \E r \in Run : Seeding(s, r)
    BY <1>3, <2>2 DEF SeedFindsSneaker
  <2> QED BY <1>1, <1>2, <2>3, <2>4
<1>4. CASE SeedAddsSneaker(s)
  <2>1. [seed[s] EXCEPT !.at = "check", !.shoes = {s}] \in Run
    BY <1>1 DEF Run, Shoes
  <2>2. UNCHANGED auction /\ sneaker' = [sneaker EXCEPT ![s] = clock]
        /\ Seeding(s, [seed[s] EXCEPT !.at = "check", !.shoes = {s}])
    BY <1>4 DEF SeedAddsSneaker
  <2> QED BY <1>1, <1>2, <2>1, <2>2
<1>5. CASE SeedChecks(s)
  <2>1. Done(seed[s]) \in Run /\ [seed[s] EXCEPT !.at = "insert"] \in Run
    BY <1>1, RowTypes DEF Run
  <2>2. UNCHANGED <<auction, sneaker>> /\ \E r \in Run : Seeding(s, r)
    BY <1>5, <2>1 DEF SeedChecks
  <2> QED BY <1>1, <1>2, <2>2
<1>6. CASE SeedInserts(s)
  <2>1. Done(seed[s]) \in Run
    BY <1>1, RowTypes
  <2>2. Seeding(s, Done(seed[s])) /\ UNCHANGED sneaker
    BY <1>6 DEF SeedInserts
  <2>3. \/ UNCHANGED auction
        \/ \E x \in Shoes : seed[s].at = "insert" /\ x \in seed[s].shoes
                            /\ Inserted(Open(NewRow, None, x, s))
    BY <1>1, <1>6 DEF SeedInserts, Run
  <2> QED BY <1>1, <1>2, <2>1, <2>2, <2>3
<1> QED BY <1>3, <1>4, <1>5, <1>6 DEF SeedStep

LEMMA SeedsKeep ==
  ASSUME UpkeepInv, NEW s \in Seeds, SeedStep(s)
  PROVE  UpkeepInv' /\ TakesSettled
<1>1. RowsGo
  <2>1. CASE UNCHANGED auction
    BY <2>1, SeedsGo, RowsStay
  <2>2. ASSUME NEW x \in Shoes, Inserted(Open(NewRow, None, x, s))
        PROVE  RowsGo
    BY <2>2, SeedsGo, InsertsUnused, InsertsGo
  <2> QED BY <2>1, <2>2, SeedsGo
<1> QED BY <1>1, SeedsGo, Types, GoingKeeps, BatchesAreSettled DEF UpkeepInv, TypeOK

-----------------------------------------------------------------------------
(* A run of the purge that goes on, and deletes no auction and no order.       *)
LEMMA PurgingKeeps ==
  ASSUME UpkeepInv, NEW p \in Purges, NEW run \in Run, Purging(p, run),
         UNCHANGED <<auction, review>>, sneaker' \in [Shoes -> Nat \cup {None}],
         run.at = "batch" => /\ run.now \in 0 .. clock
                             /\ \A a \in run.batch : a \in Auctions /\ Settled(auction[a])
  PROVE  UpkeepInv' /\ TakesSettled
<1>1. /\ UNCHANGED <<clock, mix, relist, seed, reviewing, reopened>>
      /\ purge' \in [Purges -> Run] /\ purge'[p] = run
      /\ \A q \in Purges : q # p => purge'[q] = purge[q]
  BY Types DEF Purging
<1>2. RowsGo
  BY <1>1, RowsStay
<1>3. \A q \in Purges : purge'[q].at = "batch" =>
        /\ purge'[q].now \in 0 .. clock
        /\ \A a \in purge'[q].batch : a \in Auctions /\ Settled(auction[a])
  BY <1>1, BatchesAreSettled
<1> QED BY <1>1, <1>2, <1>3, Types, GoingKeeps DEF UpkeepInv, TypeOK

(* A batch that is deleted, of auctions or of orders.                          *)
LEMMA DeletingKeeps ==
  ASSUME UpkeepInv, NEW p \in Purges, Purging(p, [purge[p] EXCEPT !.batch = {}]),
         NEW gone, review' = review \ gone, sneaker' = sneaker, auction' \in [Auctions -> Row],
         \A b \in Auctions :
           /\ Fine(auction'[b], clock)
           /\ auction'[b].order \in {auction[b].order, None}
           /\ auction'[b].status \in {auction[b].status, "GONE"}
           /\ b \notin gone => auction'[b].order = auction[b].order
  PROVE  UpkeepInv'
<1>1. /\ UNCHANGED <<clock, mix, relist, seed, reviewing, reopened>>
      /\ purge' \in [Purges -> Run] /\ purge'[p].batch = {} /\ purge'[p].at = purge[p].at
      /\ purge'[p].now = purge[p].now
      /\ \A q \in Purges : q # p => purge'[q] = purge[q]
  <2> DEFINE run == [purge[p] EXCEPT !.batch = {}]
  <2>1. /\ UNCHANGED <<clock, mix, relist, seed, reviewing, reopened>>
        /\ purge' = [purge EXCEPT ![p] = run]
    BY DEF Purging
  <2>2. purge \in [Purges -> Run]
    BY Types
  <2>3. run \in Run /\ run.batch = {} /\ run.at = purge[p].at /\ run.now = purge[p].now
    BY <2>2 DEF Run
  <2> HIDE DEF run
  <2> QED BY <2>1, <2>2, <2>3
<1>2. \A b \in Auctions : Settled(auction[b]) => Settled(auction'[b])
  BY NoneIsNothing DEF Settled
<1>3. TypeOK'
  BY <1>1 DEF UpkeepInv, TypeOK
<1>4. RowsFine'
  BY <1>1 DEF RowsFine
<1>5. BatchSettled'
  BY <1>1, <1>2, BatchesAreSettled DEF BatchSettled
<1>6. ReviewsSettled'
  BY <1>1, <1>2 DEF UpkeepInv, TypeOK, ReviewsSettled
<1>7. ReviewsArePaid'
  BY DEF UpkeepInv, TypeOK, ReviewsArePaid
<1> QED BY <1>3, <1>4, <1>5, <1>6, <1>7 DEF UpkeepInv

(* An auction old enough to be purged has no order that may still be paid.     *)
LEMMA OldIsSettled ==
  ASSUME UpkeepInv, NEW p \in Purges, purge[p].at = "batch", NEW a \in OldAuctions(p)
  PROVE  a \in Auctions /\ Settled(auction[a])
<1>1. /\ a \in Auctions /\ auction[a].status = "CLOSED" /\ auction[a].closedAt # None
      /\ auction[a].closedAt < purge[p].now - Retention
  BY DEF OldAuctions, Old
<1>2. /\ purge[p].now \in 0 .. clock /\ clock \in Nat /\ Retention \in Nat /\ PayWithin \in Nat
      /\ PayWithin < Retention /\ Fine(auction[a], clock)
  BY <1>1, Types, TimesAreNat, UnpaidIsCancelledFirst DEF UpkeepInv, BatchSettled, RowsFine
<1>3. auction[a].order # "PENDING"
  BY <1>1, <1>2 DEF Fine, Unpaid
<1> QED BY <1>1, <1>3 DEF Settled

(* What a run of the purge goes on as, once it is past the auctions.           *)
LEMMA LaterRuns ==
  ASSUME NEW p \in Purges, purge[p] \in Run,
         PurgeSelectsOrders(p) \/ PurgeSelectsSneakers(p) \/ PurgeDeletesSneakers(p)
  PROVE  \E run \in Run : Purging(p, run) /\ run.at # "batch"
<1>1. NoRun \in Run /\ NoRun.at # "batch"
  BY RowTypes DEF NoRun
<1>2. CASE PurgeSelectsOrders(p)
  <2>1. purge[p].at = "orders"
    BY <1>2 DEF PurgeSelectsOrders
  <2>2. /\ [purge[p] EXCEPT !.at = "sneakers"] \in Run
        /\ [purge[p] EXCEPT !.at = "sneakers"].at # "batch"
        /\ \A batch \in SUBSET Auctions : /\ [purge[p] EXCEPT !.batch = batch] \in Run
                                          /\ [purge[p] EXCEPT !.batch = batch].at # "batch"
    BY <2>1 DEF Run
  <2>3. \/ \E batch \in SUBSET Auctions : Purging(p, [purge[p] EXCEPT !.batch = batch])
        \/ Purging(p, [purge[p] EXCEPT !.at = "sneakers"])
    BY <1>2 DEF PurgeSelectsOrders, Oldest, OldOrders
  <2> QED BY <2>2, <2>3
<1>3. CASE PurgeSelectsSneakers(p) \/ PurgeDeletesSneakers(p)
  <2>1. purge[p].at = "sneakers"
    BY <1>3 DEF PurgeSelectsSneakers, PurgeDeletesSneakers
  <2>2. \A batch \in SUBSET Shoes : /\ [purge[p] EXCEPT !.shoes = batch] \in Run
                                    /\ [purge[p] EXCEPT !.shoes = batch].at # "batch"
    BY <2>1 DEF Run
  <2>3. \/ \E batch \in SUBSET Shoes : Purging(p, [purge[p] EXCEPT !.shoes = batch])
        \/ Purging(p, NoRun)
    <3>1. CASE PurgeSelectsSneakers(p)
      BY <3>1 DEF PurgeSelectsSneakers, Oldest, OldSneakers
    <3>2. CASE PurgeDeletesSneakers(p)
      <4>1. {} \in SUBSET Shoes
        OBVIOUS
      <4> QED BY <3>2, <4>1 DEF PurgeDeletesSneakers
    <3> QED BY <1>3, <3>1, <3>2
  <2> QED BY <1>1, <2>2, <2>3
<1> QED BY <1>2, <1>3

LEMMA PurgesKeep ==
  ASSUME UpkeepInv, NEW p \in Purges, PurgeStarts(p) \/ PurgeFails(p) \/ PurgeStep(p)
  PROVE  UpkeepInv' /\ TakesSettled
<1>1. /\ purge[p] \in Run /\ clock \in Nat /\ auction \in [Auctions -> Row]
      /\ NoRun \in Run /\ NoRun.at # "batch" /\ sneaker \in [Shoes -> Nat \cup {None}]
      /\ purge[p].at = "batch" => purge[p].now \in 0 .. clock
      /\ \A b \in Auctions : Fine(auction[b], clock)
  <2>1. NoRun.at # "batch"
    BY DEF NoRun
  <2> QED BY <2>1, Types, RowTypes, BatchesAreSettled DEF UpkeepInv, TypeOK, RowsFine
<1>2. CASE PurgeStarts(p)
  <2> DEFINE run == [NoRun EXCEPT !.at = "batch", !.now = clock]
  <2>1. run \in Run /\ run.now \in 0 .. clock /\ run.batch = {}
    <3>1. run \in Run /\ run.now = clock /\ run.batch = {}
      BY <1>1 DEF Run, NoRun
    <3> QED BY <1>1, <3>1
  <2>2. Purging(p, run) /\ UNCHANGED <<auction, review, sneaker>>
    BY <1>2 DEF PurgeStarts, rows
  <2> HIDE DEF run
  <2> QED BY <1>1, <2>1, <2>2, PurgingKeeps
<1>3. CASE PurgeFails(p)
  BY <1>1, <1>3, PurgingKeeps DEF PurgeFails, rows
<1>4. CASE PurgeSelects(p)
  <2>1. /\ purge[p].at = "batch" /\ UNCHANGED <<auction, review, sneaker>>
        /\ \/ \E batch \in SUBSET OldAuctions(p) : Purging(p, [purge[p] EXCEPT !.batch = batch])
           \/ Purging(p, [purge[p] EXCEPT !.at = "orders"])
    BY <1>4 DEF PurgeSelects, Oldest, rows
  <2>2. ASSUME NEW batch \in SUBSET OldAuctions(p),
               Purging(p, [purge[p] EXCEPT !.batch = batch])
        PROVE  UpkeepInv' /\ TakesSettled
    <3> DEFINE run == [purge[p] EXCEPT !.batch = batch]
    <3>1. \A a \in batch : a \in Auctions /\ Settled(auction[a])
      BY <2>1, OldIsSettled
    <3>2. run \in Run /\ run.now = purge[p].now /\ run.batch = batch
      BY <1>1, <3>1 DEF Run
    <3>3. Purging(p, run)
      BY <2>2
    <3> HIDE DEF run
    <3> QED BY <1>1, <2>1, <3>1, <3>2, <3>3, PurgingKeeps
  <2>3. ASSUME Purging(p, [purge[p] EXCEPT !.at = "orders"])
        PROVE  UpkeepInv' /\ TakesSettled
    <3>1. /\ [purge[p] EXCEPT !.at = "orders"] \in Run
          /\ [purge[p] EXCEPT !.at = "orders"].at # "batch"
      BY <1>1 DEF Run
    <3> QED BY <1>1, <2>1, <2>3, <3>1, PurgingKeeps
  <2> QED BY <2>1, <2>2, <2>3
<1>5. CASE PurgeDeletes(p)
  <2>1. /\ purge[p].at = "batch" /\ auction' = Deleted(p) /\ sneaker' = sneaker
        /\ review' = review \ purge[p].batch
        /\ Purging(p, [purge[p] EXCEPT !.batch = {}])
    BY <1>5 DEF PurgeDeletes
  <2>2. ASSUME NEW b \in Auctions, b \in purge[p].batch
        PROVE  /\ auction'[b] \in Row /\ Fine(auction'[b], clock)
               /\ auction'[b].order = None /\ auction'[b].status = "GONE"
    <3>1. auction'[b] = Gone
      BY <2>1, <2>2 DEF Deleted
    <3>2. Gone.order = None /\ Gone.status = "GONE" /\ Gone \in Row
      BY RowTypes DEF Gone, NoRow
    <3> QED BY <3>1, <3>2, NoneIsNothing DEF Fine, Unpaid
  <2>3. ASSUME NEW b \in Auctions, b \notin purge[p].batch
        PROVE  /\ auction'[b] \in Row /\ Fine(auction'[b], clock)
               /\ auction'[b].order = auction[b].order /\ auction'[b].status = auction[b].status
    <3>1. auction'[b] \in {auction[b], [auction[b] EXCEPT !.from = None]}
      BY <2>1, <2>3 DEF Deleted
    <3>2. /\ auction'[b] \in Row /\ auction'[b].order = auction[b].order
          /\ auction'[b].status = auction[b].status /\ auction'[b].pair = auction[b].pair
          /\ auction'[b].winner = auction[b].winner
          /\ auction'[b].closedAt = auction[b].closedAt
          /\ auction'[b].orderedAt = auction[b].orderedAt
      BY <1>1, <3>1 DEF Row
    <3> QED BY <1>1, <3>2 DEF Fine, Unpaid
  <2>4. auction' \in [Auctions -> Row]
    BY <2>1, <2>2, <2>3 DEF Deleted
  <2>5. UpkeepInv'
    BY <2>1, <2>2, <2>3, <2>4, DeletingKeeps
  <2>6. TakesSettled
    <3> SUFFICES ASSUME NEW a \in Auctions, Exists(a), auction'[a] = Gone
                 PROVE  auction[a].status = "CLOSED" /\ auction[a].order # "PENDING"
      BY DEF TakesSettled
    <3>1. a \in purge[p].batch
      BY <2>3 DEF Exists, Gone, NoRow
    <3>2. Settled(auction[a])
      BY <2>1, <3>1, BatchesAreSettled
    <3> QED BY <3>2 DEF Settled, Exists
  <2> QED BY <2>5, <2>6
<1>6. CASE PurgeDeletesOrders(p)
  <2>1. /\ auction' = [a \in Auctions |-> IF a \in Outdated(p)
                         THEN [auction[a] EXCEPT !.order = None, !.orderedAt = None]
                         ELSE auction[a]]
        /\ sneaker' = sneaker /\ review' = review \ Outdated(p)
        /\ Purging(p, [purge[p] EXCEPT !.batch = {}])
    BY <1>6 DEF PurgeDeletesOrders
  <2>2. ASSUME NEW b \in Auctions
        PROVE  /\ auction'[b] \in Row /\ Fine(auction'[b], clock)
               /\ auction'[b].order \in {auction[b].order, None}
               /\ auction'[b].status = auction[b].status
               /\ b \notin Outdated(p) => auction'[b].order = auction[b].order
    <3>1. CASE b \in Outdated(p)
      <4>1. /\ auction'[b] \in Row /\ auction'[b].order = None
            /\ auction'[b].status = auction[b].status /\ auction'[b].pair = auction[b].pair
        <5> DEFINE row == [[auction[b] EXCEPT !.order = None] EXCEPT !.orderedAt = None]
        <5>1. auction[b] \in Row
          BY <1>1
        <5>2. /\ row \in Row /\ row.order = None
              /\ row.status = auction[b].status /\ row.pair = auction[b].pair
          BY <5>1 DEF Row
        <5>3. auction'[b] = row
          BY <2>1, <3>1, <5>1 DEF Row
        <5> HIDE DEF row
        <5> QED BY <5>2, <5>3
      <4> QED BY <1>1, <3>1, <4>1, NoneIsNothing DEF Fine, Unpaid
    <3>2. CASE b \notin Outdated(p)
      BY <1>1, <2>1, <3>2
    <3> QED BY <3>1, <3>2
  <2>3. auction' \in [Auctions -> Row]
    BY <2>1, <2>2
  <2>4. UpkeepInv'
    BY <2>1, <2>2, <2>3, DeletingKeeps
  <2>5. TakesSettled
    BY <2>2 DEF TakesSettled, Exists, Gone, NoRow
  <2> QED BY <2>4, <2>5
<1>7. CASE PurgeSelectsOrders(p) \/ PurgeSelectsSneakers(p) \/ PurgeDeletesSneakers(p)
  <2>1. UNCHANGED <<auction, review>> /\ sneaker' \in [Shoes -> Nat \cup {None}]
    <3>1. \/ UNCHANGED sneaker
          \/ sneaker' = [x \in Shoes |-> IF x \in purge[p].shoes THEN None ELSE sneaker[x]]
      BY <1>7 DEF PurgeSelectsOrders, PurgeSelectsSneakers, PurgeDeletesSneakers, rows
    <3>2. UNCHANGED <<auction, review>>
      BY <1>7 DEF PurgeSelectsOrders, PurgeSelectsSneakers, PurgeDeletesSneakers, rows
    <3> QED BY <1>1, <3>1, <3>2
  <2>2. PICK run \in Run : Purging(p, run) /\ run.at # "batch"
    BY <1>1, <1>7, LaterRuns
  <2> QED BY <2>1, <2>2, PurgingKeeps
<1> QED BY <1>2, <1>3, <1>4, <1>5, <1>6, <1>7 DEF PurgeStep

-----------------------------------------------------------------------------
LEMMA UpkeepSteps ==
  ASSUME UpkeepInv, [Next]_vars PROVE UpkeepInv' /\ TakesSettled
<1>1. CASE Tick \/ UNCHANGED vars
  BY <1>1, TimeKeeps
<1>2. ASSUME NEW a \in Auctions, LifeStep(a)
      PROVE  UpkeepInv' /\ TakesSettled
  BY <1>2, LivesKeep
<1>3. ASSUME NEW r \in Relists, RelistReads(r) \/ RelistFinds(r) \/ RelistInserts(r)
      PROVE  UpkeepInv' /\ TakesSettled
  BY <1>3, RelistsKeep
<1>4. ASSUME NEW s \in Seeds, SeedStep(s)
      PROVE  UpkeepInv' /\ TakesSettled
  BY <1>4, SeedsKeep
<1>5. ASSUME NEW p \in Purges, PurgeStarts(p) \/ PurgeFails(p) \/ PurgeStep(p)
      PROVE  UpkeepInv' /\ TakesSettled
  BY <1>5, PurgesKeep
<1>6. ASSUME NEW v \in Reviewers, ReviewChecks(v) \/ ReviewInserts(v)
      PROVE  UpkeepInv' /\ TakesSettled
  BY <1>6, ReviewsKeep
<1> QED BY <1>1, <1>2, <1>3, <1>4, <1>5, <1>6 DEF Next, LifeStep

LEMMA UpkeepHolds == Spec => []UpkeepInv
BY UpkeepStarts, UpkeepSteps, PTL DEF Spec

(* The rows, the runs and the requests are what their kinds say: a pair that   *)
(* is put up again is one, and so is who had won it.                           *)
THEOREM UpkeepTyped == Spec => []TypeOK
<1>1. UpkeepInv => TypeOK
  BY DEF UpkeepInv
<1> QED BY <1>1, UpkeepHolds, PTL

(* However closes, cancellations and runs interleave, what a run has read of   *)
(* closed auctions is still settled when it deletes them                       *)
(* (data-retention.service purgeOldClosedAuctions).                            *)
THEOREM PurgesTakeSettled == Spec => PurgeTakesSettled
<1>1. UpkeepInv /\ [Next]_vars => [TakesSettled]_vars
  BY UpkeepSteps
<1>2. Spec => [][TakesSettled]_vars
  BY <1>1, UpkeepHolds, PTL DEF Spec
<1> QED BY <1>2 DEF PurgeTakesSettled, TakesSettled

(* A review is of an order that was paid, whatever is purged while it is       *)
(* written (reviews.service createForOrder).                                   *)
THEOREM ReviewsOfPaidOrders == Spec => []ReviewsArePaid
<1>1. UpkeepInv => ReviewsArePaid
  BY DEF UpkeepInv
<1> QED BY <1>1, UpkeepHolds, PTL

-----------------------------------------------------------------------------
(* What the seeds leave on offer.  A pair has the id of the row it came with,  *)
(* which is used for good; so no row listed again is the first of its pair.    *)
(* Rows of Sneaker and offers are added by runs of the seed only, and what one *)
(* finds there when it adds its own was added by a run that overlaps it: had it*)
(* been there before, the run would have seen it.                              *)
PairsUsed ==
  \A a \in Auctions : auction[a].pair \in Auctions => auction[auction[a].pair].status # None
RunsMeet ==
  \A s, t \in Seeds : s # t /\ InProgress(s) /\ InProgress(t) => Overlapped(s, t)
SneakersMet ==
  \A s \in Seeds : seed[s].at = "new" =>
    \A x \in Shoes : sneaker[x] # None => Overlapped(s, x)
OffersMet ==
  \A s \in Seeds : seed[s].at = "insert" =>
    \A a \in Auctions : OnOffer(a) /\ auction[a].shoe \in seed[s].shoes
                          => Overlapped(s, auction[a].by)
DoublesInv == UpkeepInv /\ PairsUsed /\ RunsMeet /\ SneakersMet /\ OffersMet /\ DoublesOverlap

(* No offer comes, and no row of Sneaker.                                      *)
OffersGo ==
  /\ PairsUsed'
  /\ \A a \in Auctions :
       OnOffer(a)' => /\ OnOffer(a) /\ auction'[a].shoe = auction[a].shoe
                      /\ auction'[a].by = auction[a].by
  /\ \A x \in Shoes : sneaker'[x] \in {sneaker[x], None}

LEMMA DoublesGo ==
  ASSUME DoublesInv, UpkeepInv', OffersGo, seed' = seed
  PROVE  DoublesInv'
<1>1. \A s, t : Overlapped(s, t)' <=> Overlapped(s, t)
  BY DEF Overlapped
<1>2. \A s \in Seeds : InProgress(s)' <=> InProgress(s)
  BY DEF InProgress
<1>3. RunsMeet'
  BY <1>1, <1>2 DEF DoublesInv, RunsMeet
<1>4. SneakersMet'
  BY <1>1 DEF DoublesInv, SneakersMet, OffersGo
<1>5. OffersMet'
  BY <1>1 DEF DoublesInv, OffersMet, OffersGo
<1>6. DoublesOverlap'
  BY <1>1 DEF DoublesInv, DoublesOverlap, OffersGo
<1> QED BY <1>3, <1>4, <1>5, <1>6 DEF DoublesInv, OffersGo

(* One row changes: it is of a pair that is there, and no offer any more.      *)
LEMMA OneRowOffered ==
  ASSUME UpkeepInv, PairsUsed, NEW a \in Auctions, NEW row \in Row,
         auction' = [auction EXCEPT ![a] = row],
         row.status # None, row.pair \in Auctions => row.pair = a \/ auction[row.pair].status # None,
         sneaker' = sneaker, reopened \subseteq reopened', ~OnOffer(a)'
  PROVE  OffersGo
<1>1. auction'[a] = row /\ \A b \in Auctions : b # a => auction'[b] = auction[b]
  BY Types
<1>2. PairsUsed'
  BY <1>1 DEF PairsUsed
<1>3. \A b \in Auctions : OnOffer(b)' => b # a /\ OnOffer(b)
  BY <1>1 DEF OnOffer
<1> QED BY <1>1, <1>2, <1>3 DEF OffersGo

(* The rows stay as they are, or lose what is no offer.                        *)
LEMMA OffersStay ==
  ASSUME PairsUsed, reopened' = reopened, \A x \in Shoes : sneaker'[x] \in {sneaker[x], None},
         \A b \in Auctions :
           \/ /\ auction'[b].status = auction[b].status
              /\ auction'[b].pair = auction[b].pair
              /\ auction'[b].ended = auction[b].ended
              /\ auction'[b].shoe = auction[b].shoe
              /\ auction'[b].by = auction[b].by
           \/ auction'[b].status = "GONE" /\ auction'[b].pair = None
  PROVE  OffersGo
<1>1. "GONE" # None /\ None \notin Auctions
  BY NoneIsNothing
<1>2. PairsUsed'
  BY <1>1 DEF PairsUsed
<1>3. \A b \in Auctions : OnOffer(b)' => auction'[b].status # "GONE" /\ OnOffer(b)
  BY <1>1 DEF OnOffer
<1> QED BY <1>2, <1>3 DEF OffersGo

(* The life of a row: what is put up again is one that was won.                *)
LEMMA LivesOffer ==
  ASSUME UpkeepInv, PairsUsed, NEW a \in Auctions, LifeStep(a)
  PROVE  OffersGo
<1>1. /\ sneaker' = sneaker /\ auction[a] \in Row /\ auction[a].pair \in Auctions
      /\ auction[a].status \in {"OPEN", "CLOSED"}
      /\ Fine(auction[a], clock) /\ None \notin {"OPEN", "CLOSED"} /\ clock \in Nat
  BY Types, NoneIsNothing
     DEF LifeStep, Ends, Close, Pay, PayFails, Cancel, Reopens, Keep, UpkeepInv, RowsFine, Fine
<1>2. auction[auction[a].pair].status # None
  BY <1>1 DEF PairsUsed
<1>3. ASSUME NEW row \in Row, row.pair = auction[a].pair, row.status \in {"OPEN", "CLOSED"},
             auction' = [auction EXCEPT ![a] = row], reopened \subseteq reopened',
             ~OnOffer(a)'
      PROVE  OffersGo
  BY <1>1, <1>2, <1>3, OneRowOffered
<1>4. CASE Ends(a)
  <2> DEFINE row == [auction[a] EXCEPT !.ended = TRUE]
  <2>1. auction' = [auction EXCEPT ![a] = row] /\ reopened' = reopened
    BY <1>4 DEF Ends
  <2>2. row \in Row /\ row.pair = auction[a].pair /\ row.status = auction[a].status /\ row.ended
    BY <1>1 DEF Row
  <2> HIDE DEF row
  <2>3. ~OnOffer(a)'
    BY <2>1, <2>2, Types DEF OnOffer
  <2> QED BY <1>1, <1>3, <2>1, <2>2, <2>3
<1>5. CASE Close(a)
  <2>1. PICK row \in Row : /\ row.pair = auction[a].pair /\ row.status = "CLOSED"
                           /\ auction' = [auction EXCEPT ![a] = row]
    <3>1. ASSUME auction' = [auction EXCEPT ![a].status = "CLOSED", ![a].closedAt = clock]
          PROVE  \E row \in Row : /\ row.pair = auction[a].pair /\ row.status = "CLOSED"
                                  /\ auction' = [auction EXCEPT ![a] = row]
      <4> DEFINE row == [auction[a] EXCEPT !.status = "CLOSED", !.closedAt = clock]
      <4>1. auction' = [auction EXCEPT ![a] = row]
        BY <3>1
      <4>2. row \in Row /\ row.pair = auction[a].pair /\ row.status = "CLOSED"
        BY <1>1 DEF Row
      <4> HIDE DEF row
      <4> QED BY <4>1, <4>2
    <3>2. ASSUME NEW w \in Winners,
                 auction' = [auction EXCEPT
                   ![a] = [@ EXCEPT !.status = "CLOSED", !.closedAt = clock, !.winner = w,
                                    !.order = "PENDING", !.orderedAt = clock]]
          PROVE  \E row \in Row : /\ row.pair = auction[a].pair /\ row.status = "CLOSED"
                                  /\ auction' = [auction EXCEPT ![a] = row]
      <4> DEFINE row == [auction[a] EXCEPT !.status = "CLOSED", !.closedAt = clock, !.winner = w,
                                           !.order = "PENDING", !.orderedAt = clock]
      <4>1. auction' = [auction EXCEPT ![a] = row]
        BY <3>2
      <4>2. row \in Row /\ row.pair = auction[a].pair /\ row.status = "CLOSED"
        BY <1>1 DEF Row
      <4> HIDE DEF row
      <4> QED BY <4>1, <4>2
    <3> QED BY <1>5, <3>1, <3>2 DEF Close
  <2>2. reopened' = reopened
    BY <1>5 DEF Close
  <2>3. ~OnOffer(a)'
    BY <2>1, Types DEF OnOffer
  <2> QED BY <1>3, <2>1, <2>2, <2>3
<1>6. CASE Pay(a)
  <2> DEFINE row == [auction[a] EXCEPT !.order = "PAID"]
  <2>1. auction' = [auction EXCEPT ![a] = row] /\ reopened' = reopened
    BY <1>6 DEF Pay
  <2>2. row \in Row /\ row.pair = auction[a].pair /\ row.status = auction[a].status
    BY <1>1 DEF Row
  <2>3. auction[a].status = "CLOSED"
    BY <1>1, <1>6 DEF Pay, Fine
  <2> HIDE DEF row
  <2>4. ~OnOffer(a)'
    BY <2>1, <2>2, <2>3, Types DEF OnOffer
  <2> QED BY <1>1, <1>3, <2>1, <2>2, <2>4
<1>7. CASE PayFails(a) \/ Cancel(a)
  <2> DEFINE row == [auction[a] EXCEPT !.order = "CANCELED", !.status = "OPEN", !.ended = FALSE,
                                       !.winner = None, !.closedAt = None]
  <2>1. auction' = [auction EXCEPT ![a] = row]
        /\ reopened' = reopened \cup {<<auction[a].pair, auction[a].winner>>}
    BY <1>7 DEF PayFails, Cancel, Reopens
  <2>2. row \in Row /\ row.pair = auction[a].pair /\ row.status = "OPEN"
    BY <1>1 DEF Row
  <2>3. auction[a].winner \in Winners
    BY <1>1, <1>7 DEF PayFails, Cancel, Reopens, Fine, Unpaid
  <2> HIDE DEF row
  <2>4. ~OnOffer(a)'
    BY <2>1, <2>2, <2>3, Types DEF OnOffer
  <2> QED BY <1>1, <1>3, <2>1, <2>2, <2>4
<1> QED BY <1>4, <1>5, <1>6, <1>7 DEF LifeStep

(* A row that is inserted is of its own pair, or of one that is there.         *)
LEMMA InsertsOffer ==
  ASSUME UpkeepInv, PairsUsed, NEW pair \in Auctions, NEW from, NEW shoe, NEW by,
         Inserted(Open(pair, from, shoe, by)), reopened' = reopened,
         pair = NewRow \/ auction[pair].status # None
  PROVE  /\ PairsUsed'
         /\ \A b \in Auctions : OnOffer(b)' =>
              \/ OnOffer(b) /\ auction'[b] = auction[b]
              \/ b = pair /\ pair = NewRow /\ auction'[b].shoe = shoe /\ auction'[b].by = by
<1>0. PICK new : new = NewRow
  OBVIOUS
<1> DEFINE row == Open(pair, from, shoe, by)
<1>1. new \in Auctions /\ auction[new] = NoRow /\ auction' = [auction EXCEPT ![new] = row]
  BY <1>0, InsertsUnused
<1>2. /\ row.pair = pair /\ row.status = "OPEN" /\ "OPEN" # None
      /\ row.shoe = shoe /\ row.by = by
  BY NoneIsNothing DEF Open, NoRow
<1> HIDE DEF row
<1>3. auction'[new] = row /\ \A b \in Auctions : b # new => auction'[b] = auction[b]
  BY <1>1, Types
<1>4. PairsUsed'
  BY <1>0, <1>1, <1>2, <1>3 DEF PairsUsed
<1>5. \A b \in Auctions : OnOffer(b)' => (b # new /\ OnOffer(b)) \/ (b = new /\ pair = new)
  BY <1>1, <1>2, <1>3 DEF OnOffer
<1> QED BY <1>0, <1>2, <1>3, <1>4, <1>5

(* A row listed again is of a pair that came with another row.                 *)
LEMMA RelistsOffer ==
  ASSUME UpkeepInv, PairsUsed,
         NEW r \in Relists, RelistReads(r) \/ RelistFinds(r) \/ RelistInserts(r)
  PROVE  OffersGo /\ seed' = seed
<1>1. seed' = seed /\ reopened' = reopened /\ sneaker' = sneaker
  BY DEF RelistReads, RelistFinds, RelistInserts, Relisting
<1>3. CASE UNCHANGED auction
  BY <1>1, <1>3, OffersStay
<1>4. ASSUME NEW a \in relist[r].batch, Exists(a),
             Inserted(Open(auction[a].pair, a, auction[a].shoe, None))
      PROVE  OffersGo
  <2>1. a \in Auctions /\ auction[a].pair \in Auctions
    BY <1>4, Types DEF Run, Exists, UpkeepInv, RowsFine, Fine
  <2>2. auction[auction[a].pair].status # None
    BY <2>1 DEF PairsUsed
  <2>3. auction[a].pair # NewRow
    BY <1>4, <2>2, InsertsUnused DEF NoRow
  <2>4. PairsUsed' /\ \A b \in Auctions : OnOffer(b)' => OnOffer(b) /\ auction'[b] = auction[b]
    BY <1>1, <1>4, <2>1, <2>2, <2>3, InsertsOffer
  <2> QED BY <1>1, <2>4 DEF OffersGo
<1> QED BY <1>1, <1>3, <1>4 DEF RelistReads, RelistFinds, RelistInserts

(* The purge puts nothing on offer.                                            *)
LEMMA PurgesOffer ==
  ASSUME UpkeepInv, PairsUsed, NEW p \in Purges, PurgeStarts(p) \/ PurgeFails(p) \/ PurgeStep(p)
  PROVE  OffersGo /\ seed' = seed
<1>1. seed' = seed /\ reopened' = reopened
  BY DEF PurgeStarts, PurgeFails, PurgeStep, PurgeSelects, PurgeDeletes, PurgeSelectsOrders,
         PurgeDeletesOrders, PurgeSelectsSneakers, PurgeDeletesSneakers, Purging
<1>2. \A x \in Shoes : sneaker'[x] \in {sneaker[x], None}
  BY DEF PurgeStarts, PurgeFails, PurgeStep, PurgeSelects, PurgeDeletes, PurgeSelectsOrders,
         PurgeDeletesOrders, PurgeSelectsSneakers, PurgeDeletesSneakers, rows
<1>3. CASE UNCHANGED auction
  BY <1>1, <1>2, <1>3, OffersStay
<1>4. CASE auction' = Deleted(p)
  <2>1. ASSUME NEW b \in Auctions
        PROVE  \/ /\ auction'[b].status = auction[b].status
                  /\ auction'[b].pair = auction[b].pair
                  /\ auction'[b].ended = auction[b].ended
                  /\ auction'[b].shoe = auction[b].shoe
                  /\ auction'[b].by = auction[b].by
               \/ auction'[b].status = "GONE" /\ auction'[b].pair = None
    <3>1. auction'[b] \in {Gone, auction[b], [auction[b] EXCEPT !.from = None]}
      BY <1>4 DEF Deleted
    <3>2. auction[b] \in Row /\ Gone.status = "GONE" /\ Gone.pair = None
      BY Types DEF Gone, NoRow
    <3> QED BY <3>1, <3>2 DEF Row
  <2> QED BY <1>1, <1>2, <2>1, OffersStay
<1>5. CASE auction' = [a \in Auctions |-> IF a \in Outdated(p)
                         THEN [auction[a] EXCEPT !.order = None, !.orderedAt = None]
                         ELSE auction[a]]
  <2>1. ASSUME NEW b \in Auctions
        PROVE  /\ auction'[b].status = auction[b].status
               /\ auction'[b].pair = auction[b].pair
               /\ auction'[b].ended = auction[b].ended
               /\ auction'[b].shoe = auction[b].shoe
               /\ auction'[b].by = auction[b].by
    <3>1. auction[b] \in Row
      BY Types
    <3>2. auction'[b] \in {auction[b], [auction[b] EXCEPT !.order = None, !.orderedAt = None]}
      BY <1>5
    <3> QED BY <3>1, <3>2 DEF Row
  <2> QED BY <1>1, <1>2, <2>1, OffersStay
<1> QED BY <1>1, <1>3, <1>4, <1>5
        DEF PurgeStarts, PurgeFails, PurgeStep, PurgeSelects, PurgeDeletes, PurgeSelectsOrders,
            PurgeDeletesOrders, PurgeSelectsSneakers, PurgeDeletesSneakers, rows

Meet(s, t) ==   \* overlapped, after the step
  {s, t} \subseteq Seeds /\ (s \in seed'[t].met \/ t \in seed'[s].met)

(* A run that begins meets those in progress; one that goes on meets no others.*)
LEMMA SeedsMeet ==
  ASSUME DoublesInv, NEW s \in Seeds, SeedStep(s)
  PROVE  /\ RunsMeet'
         /\ \A u, v : Overlapped(u, v) => Meet(u, v)
         /\ \A t \in Seeds \ {s} : InProgress(s)' /\ InProgress(t)' => Meet(s, t)
<1>1. /\ seed \in [Seeds -> Run] /\ seed' \in [Seeds -> Run]
      /\ \A t \in Seeds \ {s} : seed'[t] = seed[t]
      /\ RunsMeet
  BY Types, SeedsGo DEF DoublesInv
<1>2. \A t \in Seeds \ {s} : InProgress(t)' <=> InProgress(t)
  BY <1>1 DEF InProgress
<1>3. CASE SeedFindsSneaker(s)
  <2>1. seed[s] = NoRun /\ seed'[s].met = {t \in Seeds : InProgress(t)}
    <3> DEFINE run == [NoRun EXCEPT !.known = {a \in Auctions : auction[a].ended},
                                    !.met = {t \in Seeds : InProgress(t)}]
    <3>1. \/ seed' = [seed EXCEPT ![s] = [run EXCEPT !.at = "new"]]
          \/ \E x \in Shoes :
               seed' = [seed EXCEPT ![s] = [run EXCEPT !.at = "check", !.shoes = {x}]]
      BY <1>3 DEF SeedFindsSneaker, Seeding
    <3>2. run \in Run /\ run.met = {t \in Seeds : InProgress(t)}
      BY RowTypes DEF Run, NoRun
    <3> HIDE DEF run
    <3>3. /\ [run EXCEPT !.at = "new"].met = run.met
          /\ \A x : [run EXCEPT !.at = "check", !.shoes = {x}].met = run.met
      BY <3>2 DEF Run
    <3>4. seed'[s].met = run.met
      <4>1. CASE seed' = [seed EXCEPT ![s] = [run EXCEPT !.at = "new"]]
        BY <1>1, <3>3, <4>1
      <4>2. ASSUME NEW x \in Shoes,
                   seed' = [seed EXCEPT ![s] = [run EXCEPT !.at = "check", !.shoes = {x}]]
            PROVE  seed'[s].met = run.met
        BY <1>1, <3>3, <4>2
      <4> QED BY <3>1, <4>1, <4>2
    <3>5. seed[s] = NoRun
      BY <1>3 DEF SeedFindsSneaker
    <3> QED BY <3>2, <3>4, <3>5
  <2>2. \A u, v : Overlapped(u, v) => Meet(u, v)
    <3>1. seed[s].met = {}
      BY <2>1 DEF NoRun
    <3> QED BY <1>1, <3>1 DEF Overlapped, Meet
  <2>3. \A t \in Seeds \ {s} : InProgress(t)' => Meet(s, t)
    BY <1>2, <2>1 DEF Overlapped, Meet
  <2>4. RunsMeet'
    <3>1. \A u, v : Meet(u, v) <=> Meet(v, u)
      BY DEF Overlapped, Meet
    <3> QED BY <1>1, <1>2, <2>2, <2>3, <3>1 DEF RunsMeet, Overlapped, Meet
  <2> QED BY <2>2, <2>3, <2>4
<1>4. CASE ~SeedFindsSneaker(s)
  <2>1. seed'[s].met = seed[s].met /\ (InProgress(s)' => InProgress(s))
    <3>1. InProgress(s)
      BY <1>4 DEF SeedStep, SeedAddsSneaker, SeedChecks, SeedInserts, InProgress
    <3>2. PICK run : seed' = [seed EXCEPT ![s] = run] /\ run \in
            {[seed[s] EXCEPT !.at = "check", !.shoes = {s}], Done(seed[s]),
             [seed[s] EXCEPT !.at = "insert"]}
      BY <1>4 DEF SeedStep, SeedAddsSneaker, SeedChecks, SeedInserts, Seeding
    <3>3. run.met = seed[s].met
      BY <1>1, <3>2 DEF Run, Done, NoRun
    <3> QED BY <1>1, <3>1, <3>2, <3>3
  <2>2. \A u, v : Overlapped(u, v) <=> Meet(u, v)
    BY <1>1, <2>1 DEF Overlapped, Meet
  <2>3. RunsMeet'
    BY <1>1, <1>2, <2>1, <2>2 DEF RunsMeet, Overlapped, Meet
  <2>4. \A t \in Seeds \ {s} : InProgress(s)' /\ InProgress(t)' => Meet(s, t)
    BY <2>3 DEF RunsMeet, Overlapped, Meet
  <2> QED BY <2>2, <2>3, <2>4
<1> QED BY <1>3, <1>4

(* What a run goes on as, and what it adds.                                    *)
LEMMA SeedsAdd ==
  ASSUME UpkeepInv, NEW s \in Seeds, SeedStep(s)
  PROVE  /\ \A x \in Shoes \ {s} : sneaker'[x] = sneaker[x]
         /\ sneaker'[s] # sneaker[s] => seed[s].at = "new" /\ InProgress(s)
         /\ seed'[s].at = "new" => \A x \in Shoes : sneaker'[x] = None
         /\ seed'[s].at = "insert" =>
              /\ seed[s].at = "check" /\ seed'[s].shoes = seed[s].shoes /\ UNCHANGED auction
              /\ \A a \in Auctions : ~IsOn(seed[s], a)
<1>1. seed \in [Seeds -> Run] /\ seed[s] \in Run /\ sneaker \in [Shoes -> Nat \cup {None}]
  BY Types DEF UpkeepInv, TypeOK
<1>2. CASE SeedFindsSneaker(s)
  <2> DEFINE run == [NoRun EXCEPT !.known = {a \in Auctions : auction[a].ended},
                                  !.met = {t \in Seeds : InProgress(t)}]
  <2>1. /\ UNCHANGED <<auction, sneaker>>
        /\ \/ /\ \A x \in Shoes : sneaker[x] = None
              /\ seed' = [seed EXCEPT ![s] = [run EXCEPT !.at = "new"]]
           \/ \E x \in Shoes :
               seed' = [seed EXCEPT ![s] = [run EXCEPT !.at = "check", !.shoes = {x}]]
    BY <1>2 DEF SeedFindsSneaker, Seeding
  <2>2. run \in Run
    BY RowTypes DEF Run
  <2> HIDE DEF run
  <2>3. /\ [run EXCEPT !.at = "new"].at = "new"
        /\ \A x : [run EXCEPT !.at = "check", !.shoes = {x}].at = "check"
    BY <2>2 DEF Run
  <2> QED BY <1>1, <2>1, <2>3
<1>3. CASE SeedAddsSneaker(s)
  <2>1. /\ seed[s].at = "new" /\ sneaker' = [sneaker EXCEPT ![s] = clock]
        /\ seed' = [seed EXCEPT ![s] = [seed[s] EXCEPT !.at = "check", !.shoes = {s}]]
    BY <1>3 DEF SeedAddsSneaker, Seeding
  <2>2. [seed[s] EXCEPT !.at = "check", !.shoes = {s}].at = "check"
    BY <1>1 DEF Run
  <2>3. seed'[s].at = "check"
    BY <1>1, <2>1, <2>2
  <2> QED BY <1>1, <2>1, <2>3 DEF InProgress
<1>4. CASE SeedChecks(s)
  <2>1. UNCHANGED <<auction, sneaker>> /\ seed[s].at = "check"
    BY <1>4 DEF SeedChecks
  <2>2. CASE \E a \in Auctions : IsOn(seed[s], a)
    <3>1. seed' = [seed EXCEPT ![s] = Done(seed[s])] /\ Done(seed[s]).at = "done"
      BY <1>4, <2>2 DEF SeedChecks, Seeding, Done, NoRun
    <3> QED BY <1>1, <2>1, <3>1
  <2>3. CASE \A a \in Auctions : ~IsOn(seed[s], a)
    <3>1. seed' = [seed EXCEPT ![s] = [seed[s] EXCEPT !.at = "insert"]]
      BY <1>4, <2>3 DEF SeedChecks, Seeding
    <3>2. /\ [seed[s] EXCEPT !.at = "insert"].at = "insert"
          /\ [seed[s] EXCEPT !.at = "insert"].shoes = seed[s].shoes
      BY <1>1 DEF Run
    <3> QED BY <1>1, <2>1, <2>3, <3>1, <3>2
  <2> QED BY <2>2, <2>3
<1>5. CASE SeedInserts(s)
  <2>1. UNCHANGED sneaker /\ seed' = [seed EXCEPT ![s] = Done(seed[s])] /\ Done(seed[s]).at = "done"
    BY <1>5 DEF SeedInserts, Seeding, Done, NoRun
  <2> QED BY <1>1, <2>1
<1> QED BY <1>2, <1>3, <1>4, <1>5 DEF SeedStep

(* What comes on offer is of the run itself, which saw nothing on and met the  *)
(* runs that added what is on by now.                                          *)
LEMMA SeedsOffer ==
  ASSUME DoublesInv, UpkeepInv', NEW s \in Seeds, SeedStep(s)
  PROVE  DoublesInv'
<1>1. /\ UpkeepInv /\ PairsUsed /\ RunsMeet /\ SneakersMet /\ OffersMet /\ DoublesOverlap
      /\ reopened' = reopened /\ \A t \in Seeds \ {s} : seed'[t] = seed[t]
  BY SeedsGo DEF DoublesInv
<1>2. /\ RunsMeet'
      /\ \A u, v : Overlapped(u, v) => Meet(u, v)
      /\ \A u, v : Meet(u, v) <=> Meet(v, u)
  BY SeedsMeet DEF Overlapped, Meet
<1>3. ASSUME NEW t \in Seeds \ {s}, InProgress(s), InProgress(t)
      PROVE  Meet(s, t) /\ Meet(t, s)
  BY <1>1, <1>2, <1>3 DEF RunsMeet
<1>4. SneakersMet'
  <2> SUFFICES ASSUME NEW t \in Seeds, seed'[t].at = "new", NEW x \in Shoes, sneaker'[x] # None
               PROVE  Meet(t, x)
    BY DEF SneakersMet, Overlapped, Meet
  <2>1. CASE t = s
    BY <1>1, <2>1, SeedsAdd
  <2>2. CASE t # s /\ sneaker'[x] = sneaker[x]
    BY <1>1, <1>2, <2>2 DEF SneakersMet
  <2>3. CASE t # s /\ sneaker'[x] # sneaker[x]
    BY <1>1, <1>3, <2>3, SeedsAdd DEF InProgress
  <2> QED BY <2>1, <2>2, <2>3
<1>5. \A x, y \in Shoes :
        x # y /\ sneaker'[x] # None /\ sneaker'[y] # None => Meet(x, y)
  <2> SUFFICES ASSUME NEW x \in Shoes, NEW y \in Shoes, x # y,
                      sneaker'[x] # None, sneaker'[y] # None
               PROVE  Meet(x, y)
    OBVIOUS
  <2>1. CASE sneaker'[s] = sneaker[s]
    <3>1. sneaker'[x] = sneaker[x] /\ sneaker'[y] = sneaker[y]
      BY <1>1, <2>1, SeedsAdd
    <3> QED BY <1>1, <1>2, <3>1 DEF DoublesOverlap
  <2>2. CASE sneaker'[s] # sneaker[s]
    <3>1. /\ seed[s].at = "new"
          /\ x # s => sneaker'[x] = sneaker[x]
          /\ y # s => sneaker'[y] = sneaker[y]
      BY <1>1, <2>2, SeedsAdd
    <3>2. /\ x # s => Overlapped(s, x)
          /\ y # s => Overlapped(s, y)
      BY <1>1, <3>1 DEF SneakersMet
    <3>3. CASE x # s /\ y # s
      BY <1>1, <1>2, <3>1, <3>3 DEF DoublesOverlap
    <3> QED BY <1>2, <3>2, <3>3
  <2> QED BY <2>1, <2>2
<1>6. CASE UNCHANGED auction
  <2>1. \A a \in Auctions : OnOffer(a)' <=> OnOffer(a)
    BY <1>1, <1>6 DEF OnOffer
  <2>2. PairsUsed'
    BY <1>1, <1>6 DEF PairsUsed
  <2>3. OffersMet'
    <3> SUFFICES ASSUME NEW t \in Seeds, seed'[t].at = "insert", NEW a \in Auctions, OnOffer(a),
                        auction[a].shoe \in seed'[t].shoes
                 PROVE  Meet(t, auction'[a].by)
      BY <1>6, <2>1 DEF OffersMet, Overlapped, Meet
    <3>1. CASE t = s
      BY <1>1, <3>1, SeedsAdd DEF IsOn, OnOffer
    <3>2. CASE t # s
      <4>1. Overlapped(t, auction[a].by)
        BY <1>1, <3>2 DEF OffersMet
      <4>2. PICK by : by = auction[a].by
        OBVIOUS
      <4>3. Meet(t, by)
        BY <1>2, <4>1, <4>2
      <4> QED BY <1>6, <4>2, <4>3
    <3> QED BY <3>1, <3>2
  <2>4. DoublesOverlap'
    <3> SUFFICES ASSUME NEW a \in Auctions, NEW b \in Auctions, a # b, OnOffer(a), OnOffer(b),
                        auction[a].shoe = auction[b].shoe, ~({a, b} \subseteq First)
                 PROVE  Meet(auction'[a].by, auction'[b].by)
      BY <1>5, <1>6, <2>1 DEF DoublesOverlap, Overlapped, Meet
    <3>1. PICK u, v : u = auction[a].by /\ v = auction[b].by
      OBVIOUS
    <3>2. Overlapped(u, v)
      BY <1>1, <3>1 DEF DoublesOverlap
    <3>3. Meet(u, v)
      BY <1>2, <3>2
    <3> QED BY <1>6, <3>1, <3>3
  <2> QED BY <1>2, <1>4, <2>2, <2>3, <2>4 DEF DoublesInv
<1>7. ASSUME NEW shoe \in Shoes, seed[s].at = "insert", shoe \in seed[s].shoes,
             Inserted(Open(NewRow, None, shoe, s))
      PROVE  DoublesInv'
  <2>1. PICK new \in Auctions : new = NewRow
    BY <1>1, <1>7, InsertsUnused
  <2>2. /\ PairsUsed'
        /\ \A b \in Auctions : OnOffer(b)' =>
             \/ OnOffer(b) /\ auction'[b] = auction[b]
             \/ b = new /\ auction'[b].shoe = shoe /\ auction'[b].by = s
    BY <1>1, <1>7, <2>1, InsertsOffer
  <2>3. seed'[s].at # "insert" /\ InProgress(s)
    BY <1>1, <1>7, SeedsAdd DEF InProgress
  <2>4. OffersMet'
    <3> SUFFICES ASSUME NEW t \in Seeds, seed'[t].at = "insert", NEW a \in Auctions, OnOffer(a)',
                        auction'[a].shoe \in seed'[t].shoes
                 PROVE  Meet(t, auction'[a].by)
      BY DEF OffersMet, Overlapped, Meet
    <3>1. t # s /\ seed[t] = seed'[t] /\ InProgress(t)
      BY <1>1, <2>3 DEF InProgress
    <3>2. PICK by : by = auction'[a].by
      OBVIOUS
    <3>3. CASE OnOffer(a) /\ auction'[a] = auction[a]
      <4>1. Overlapped(t, by)
        BY <1>1, <3>1, <3>2, <3>3 DEF OffersMet
      <4> QED BY <1>2, <3>2, <4>1
    <3>4. CASE auction'[a].by = s
      BY <1>3, <2>3, <3>1, <3>4
    <3> QED BY <2>2, <3>3, <3>4
  <2>5. DoublesOverlap'
    <3> SUFFICES ASSUME NEW a \in Auctions, NEW b \in Auctions, a # b, OnOffer(a)', OnOffer(b)',
                        auction'[a].shoe = auction'[b].shoe, ~({a, b} \subseteq First)
                 PROVE  Meet(auction'[a].by, auction'[b].by)
      BY <1>5 DEF DoublesOverlap, Overlapped, Meet
    <3>1. PICK u, v : u = auction'[a].by /\ v = auction'[b].by
      OBVIOUS
    <3>2. CASE OnOffer(a) /\ auction'[a] = auction[a] /\ OnOffer(b) /\ auction'[b] = auction[b]
      <4>1. Overlapped(u, v)
        BY <1>1, <3>1, <3>2 DEF DoublesOverlap
      <4> QED BY <1>2, <3>1, <4>1
    <3>3. CASE u = s /\ auction'[a].shoe = shoe /\ OnOffer(b) /\ auction'[b] = auction[b]
      <4>1. Overlapped(s, v)
        BY <1>1, <1>7, <3>1, <3>3 DEF OffersMet
      <4> QED BY <1>2, <3>1, <3>3, <4>1
    <3>4. CASE v = s /\ auction'[b].shoe = shoe /\ OnOffer(a) /\ auction'[a] = auction[a]
      <4>1. Overlapped(s, u)
        BY <1>1, <1>7, <3>1, <3>4 DEF OffersMet
      <4> QED BY <1>2, <3>1, <3>4, <4>1
    <3> QED BY <2>2, <3>1, <3>2, <3>3, <3>4
  <2> QED BY <1>2, <1>4, <2>2, <2>4, <2>5 DEF DoublesInv
<1> QED BY <1>1, <1>6, <1>7, SeedsGo

LEMMA DoublesStep ==
  ASSUME DoublesInv, [Next]_vars PROVE DoublesInv'
<1>1. UpkeepInv /\ PairsUsed /\ UpkeepInv'
  BY UpkeepSteps DEF DoublesInv
<1>2. ASSUME NEW s \in Seeds, SeedStep(s) PROVE DoublesInv'
  BY <1>1, <1>2, SeedsOffer
<1>3. CASE UNCHANGED <<auction, sneaker, seed, reopened>>
  BY <1>1, <1>3, OffersStay, DoublesGo
<1>4. CASE Tick \/ UNCHANGED vars \/ \E v \in Reviewers : ReviewChecks(v) \/ ReviewInserts(v)
  BY <1>3, <1>4 DEF Tick, vars, rows, ReviewChecks, ReviewInserts, Reviewing
<1>5. ASSUME NEW a \in Auctions, LifeStep(a) PROVE DoublesInv'
  <2>1. seed' = seed
    BY <1>5 DEF LifeStep, Ends, Close, Pay, PayFails, Cancel, Reopens, Keep
  <2> QED BY <1>1, <1>5, <2>1, LivesOffer, DoublesGo
<1>6. ASSUME NEW r \in Relists, RelistReads(r) \/ RelistFinds(r) \/ RelistInserts(r)
      PROVE  DoublesInv'
  BY <1>1, <1>6, RelistsOffer, DoublesGo
<1>7. ASSUME NEW p \in Purges, PurgeStarts(p) \/ PurgeFails(p) \/ PurgeStep(p)
      PROVE  DoublesInv'
  BY <1>1, <1>7, PurgesOffer, DoublesGo
<1> QED BY <1>2, <1>4, <1>5, <1>6, <1>7 DEF Next, LifeStep

LEMMA DoublesStart ==
  ASSUME Init PROVE DoublesInv
<1>1. PICK first \in SUBSET First :
        auction = [a \in Auctions |-> IF a \in first THEN Open(a, None, Shoe, None) ELSE NoRow]
  BY StartsWith
<1>2. /\ seed = [s \in Seeds |-> NoRun] /\ First \subseteq Auctions
      /\ \A x \in Shoes : sneaker[x] # None => x = Shoe
  BY StartsWith, FirstAreRows DEF Init
<1>3. /\ \A a \in Auctions : a \in first => auction[a].pair = a /\ auction[a].status = "OPEN"
      /\ \A a \in Auctions \ first : auction[a].pair = None /\ auction[a].status = None
      /\ None \notin Auctions /\ "OPEN" # None
  BY <1>1, NoneIsNothing DEF Open, NoRow
<1>4. PairsUsed
  BY <1>3 DEF PairsUsed
<1>5. \A s \in Seeds : seed[s].at = "idle"
  BY <1>2 DEF NoRun
<1>6. RunsMeet /\ SneakersMet /\ OffersMet
  BY <1>5 DEF RunsMeet, SneakersMet, OffersMet, InProgress
<1>7. DoublesOverlap
  BY <1>2, <1>3 DEF DoublesOverlap, OnOffer
<1> QED BY <1>4, <1>6, <1>7, UpkeepStarts DEF DoublesInv

(* However closes, cancellations, relisting and purges go on beside them, runs *)
(* of the seed that do not overlap give a product no second row of Sneaker, and*)
(* no second auction of one that is on (product-seed.service seedFromKicksDB:  *)
(* each run reads, then inserts, and no index stands behind it).               *)
THEOREM DoublesNeedOverlap == Spec => []DoublesOverlap
<1>1. DoublesInv => DoublesOverlap
  BY DEF DoublesInv
<1> QED BY <1>1, DoublesStart, DoublesStep, PTL DEF Spec

-----------------------------------------------------------------------------
(* Why a pair is sold once.  As long as no cancellation took it back from a    *)
(* bot, at most one of its rows is live: it can be paid, or it is one a bot    *)
(* won that has not been listed again.  A row listed again is younger than the *)
(* row it comes from, so the purge, which takes the oldest first, never leaves *)
(* a row without the one that was listed again from it.                        *)
Returned(pair) == <<pair, "bot">> \in reopened
IsReturned(pair) == <<pair, "bot">> \in reopened'   \* after the step
WonByBot(row) == row.status = "CLOSED" /\ row.winner = "bot"
Live(a) == CanBePaid(a) \/ (WonByBot(auction[a]) /\ ~Conflicts(a))
OneLives ==
  \A a, b \in Auctions :
    a # b /\ Live(a) /\ Live(b) /\ auction[a].pair = auction[b].pair => Returned(auction[a].pair)

RowSound(row, now) ==
  /\ row.status = "OPEN" => row.winner = None
  /\ row.status = "CLOSED" => row.closedAt \in Nat /\ row.closedAt <= now
  /\ row.order = "PAID" => row.winner = "person"
  /\ row.status \in {None, "GONE"} => row.from = None
RowsSound == \A a \in Auctions : RowSound(auction[a], clock)

(* What a row was listed again from.                                           *)
Origin(a, pair) ==
  /\ Exists(a) /\ auction[a].pair = pair
  /\ Returned(pair) \/ (WonByBot(auction[a]) /\ auction[a].closedAt < clock)
Origins ==
  \A c \in Auctions : auction[c].from # None =>
    /\ Origin(auction[c].from, auction[c].pair)
    /\ auction[c].status = "CLOSED" /\ ~Returned(auction[c].pair)
         => auction[auction[c].from].closedAt < auction[c].closedAt

(* What the runs in progress hold.                                             *)
RelistsKnow ==
  \A r \in Relists :
    /\ relist[r].at = "known" => relist[r].now \in Nat /\ relist[r].now <= clock
    /\ \A a \in relist[r].batch :
         auction[a].status # None /\ (Exists(a) => Origin(a, auction[a].pair))
PurgesTakeOrigins ==
  \A p \in Purges : purge[p].at = "batch" =>
    \A c \in purge[p].batch :
      auction[c].from # None => auction[c].from \in purge[p].batch \/ Returned(auction[c].pair)

SalesInv ==
  /\ UpkeepInv /\ PairsUsed /\ OneLives /\ RowsSound /\ Origins /\ RelistsKnow
  /\ PurgesTakeOrigins

LEMMA SaleTypes ==
  ASSUME SalesInv
  PROVE  /\ UpkeepInv /\ PairsUsed /\ OneLives /\ RowsSound /\ Origins /\ RelistsKnow
         /\ PurgesTakeOrigins
         /\ clock \in Nat /\ None \notin Auctions /\ None \notin {"OPEN", "CLOSED", "GONE"}
         /\ auction \in [Auctions -> Row]
         /\ relist \in [Relists -> Run] /\ purge \in [Purges -> Run]
BY Types, NoneIsNothing DEF SalesInv

(* How the rows may go on, but for the one that is inserted.                   *)
RowsTurn ==
  \A a \in Auctions :
    /\ RowSound(auction'[a], clock')
    /\ auction[a].status # None => auction'[a].status # None
    /\ Exists(a)' => Exists(a) /\ auction'[a].pair = auction[a].pair
    /\ auction'[a].from # None =>
         auction'[a].from = auction[a].from /\ auction'[auction[a].from].status # "GONE"
    /\ Live(a)' => Live(a) \/ IsReturned(auction[a].pair)
    /\ WonByBot(auction[a]) =>
         \/ WonByBot(auction'[a]) /\ auction'[a].closedAt = auction[a].closedAt
         \/ auction'[a].status = "GONE" \/ IsReturned(auction[a].pair)
    /\ auction'[a].status = "CLOSED" =>
         \/ auction[a].status = "CLOSED" /\ auction'[a].closedAt = auction[a].closedAt
         \/ auction'[a].closedAt = clock

TimeGoes == clock <= clock' /\ clock' \in Nat /\ reopened \subseteq reopened'

LEMMA OriginStays ==
  ASSUME SalesInv, UpkeepInv', RowsTurn, TimeGoes, NEW a \in Auctions, NEW pair, Origin(a, pair),
         auction'[a].status # "GONE"
  PROVE  Origin(a, pair)'
<1>1. /\ Exists(a) /\ auction[a].pair = pair /\ RowSound(auction[a], clock)
      /\ Returned(pair) \/ (WonByBot(auction[a]) /\ auction[a].closedAt < clock)
      /\ clock \in Nat /\ None \notin {"OPEN", "CLOSED"}
  BY SaleTypes DEF Origin, RowsSound
<1>2. Exists(a)'
  <2>1. auction'[a].status # None
    BY <1>1 DEF Exists, RowsTurn
  <2>2. auction'[a] \in Row
    BY DEF UpkeepInv, TypeOK
  <2> QED BY <2>1, <2>2 DEF Exists, Row
<1>3. auction'[a].pair = pair
  BY <1>1, <1>2 DEF RowsTurn
<1>4. Returned(pair) => IsReturned(pair)
  BY DEF Returned, IsReturned, TimeGoes
<1>5. ASSUME WonByBot(auction[a]), auction[a].closedAt < clock
      PROVE  IsReturned(pair) \/ (WonByBot(auction'[a]) /\ auction'[a].closedAt < clock')
  <2>1. \/ WonByBot(auction'[a]) /\ auction'[a].closedAt = auction[a].closedAt
        \/ IsReturned(auction[a].pair)
    BY <1>5 DEF RowsTurn
  <2>2. auction[a].closedAt \in Nat
    BY <1>1, <1>5 DEF RowSound, WonByBot
  <2>3. auction[a].closedAt < clock'
    BY <1>1, <1>5, <2>2 DEF TimeGoes
  <2> QED BY <1>1, <2>1, <2>3
<1> QED BY <1>1, <1>2, <1>3, <1>4, <1>5 DEF Origin, WonByBot, Returned, IsReturned

(* The rows' part of the invariant, when no row is inserted.                   *)
LEMMA RowsTurnWell ==
  ASSUME SalesInv, UpkeepInv', RowsTurn, TimeGoes
  PROVE  OneLives' /\ RowsSound' /\ Origins'
<1>1. RowsSound'
  BY DEF RowsTurn, RowsSound
<1>2. \A pair : Returned(pair) => IsReturned(pair)
  BY DEF Returned, IsReturned, TimeGoes
<1>3. OneLives'
  <2> SUFFICES ASSUME NEW a \in Auctions, NEW b \in Auctions, a # b, Live(a)', Live(b)',
                      auction'[a].pair = auction'[b].pair
               PROVE  IsReturned(auction'[a].pair)
    BY DEF OneLives, Returned, IsReturned
  <2>1. Exists(a)' /\ Exists(b)'
    BY DEF UpkeepInv, RowsFine, Fine, Live, CanBePaid, WonByBot, Exists
  <2>2. /\ auction'[a].pair = auction[a].pair /\ auction'[b].pair = auction[b].pair
        /\ Live(a) \/ IsReturned(auction[a].pair)
        /\ Live(b) \/ IsReturned(auction[b].pair)
    BY <2>1 DEF RowsTurn
  <2> QED BY <1>2, <2>2, SaleTypes DEF OneLives
<1>4. Origins'
  <2> SUFFICES ASSUME NEW c \in Auctions, auction'[c].from # None
               PROVE  /\ Origin(auction[c].from, auction[c].pair)'
                      /\ auction'[c].status = "CLOSED" /\ ~IsReturned(auction'[c].pair)
                           => auction'[auction'[c].from].closedAt < auction'[c].closedAt
    BY DEF Origins, Returned, IsReturned
  <2> PICK a, pair : a = auction[c].from /\ pair = auction[c].pair
    OBVIOUS
  <2>1. auction'[c].from = a /\ a # None /\ auction'[a].status # "GONE"
    BY DEF RowsTurn
  <2>2. auction'[c].pair = pair
    <3>1. Exists(c)'
      <4>1. auction'[c] \in Row
        BY DEF UpkeepInv, TypeOK
      <4> QED BY <1>1, <4>1 DEF RowsSound, RowSound, Row, Exists
    <3> QED BY <3>1 DEF RowsTurn
  <2>3. /\ a \in Auctions /\ Origin(a, pair)
        /\ auction[c].status = "CLOSED" /\ ~Returned(pair)
             => auction[a].closedAt < auction[c].closedAt
    <3>1. auction[c] \in Row
      BY SaleTypes
    <3>2. a \in Auctions
      BY <2>1, <3>1 DEF Row
    <3> QED BY <2>1, <3>2, SaleTypes DEF Origins
  <2>4. Origin(a, pair)'
    BY <2>1, <2>3, OriginStays
  <2>5. ASSUME auction'[c].status = "CLOSED", ~IsReturned(pair)
        PROVE  auction'[a].closedAt < auction'[c].closedAt
    <3>1. ~Returned(pair)
      BY <1>2, <2>5
    <3>2. WonByBot(auction[a]) /\ auction[a].closedAt < clock /\ auction[a].pair = pair
      BY <2>3, <3>1 DEF Origin
    <3>3. auction'[a].closedAt = auction[a].closedAt
      BY <2>1, <2>3, <2>5, <3>2 DEF RowsTurn
    <3>4. \/ auction[c].status = "CLOSED" /\ auction'[c].closedAt = auction[c].closedAt
          \/ auction'[c].closedAt = clock
      BY <2>5 DEF RowsTurn
    <3> QED BY <2>3, <3>1, <3>2, <3>3, <3>4
  <2> QED BY <2>1, <2>2, <2>4, <2>5
<1> QED BY <1>1, <1>3, <1>4

(* What the runs hold after the step, as it was before it.                     *)
HeldByRelists ==
  \A r \in Relists :
    /\ relist'[r].at = "known" => relist'[r].now \in Nat /\ relist'[r].now <= clock'
    /\ \A a \in relist'[r].batch :
         auction[a].status # None /\ (Exists(a) => Origin(a, auction[a].pair))
HeldByPurges ==
  \A p \in Purges : purge'[p].at = "batch" =>
    \A c \in purge'[p].batch :
      auction[c].from # None => auction[c].from \in purge'[p].batch \/ Returned(auction[c].pair)

LEMMA SalesStay ==
  ASSUME SalesInv, UpkeepInv', PairsUsed', RowsTurn, TimeGoes, HeldByRelists, HeldByPurges
  PROVE  SalesInv'
<1>1. OneLives' /\ RowsSound' /\ Origins'
  BY RowsTurnWell
<1>2. RelistsKnow'
  <2> SUFFICES ASSUME NEW r \in Relists, NEW a \in relist'[r].batch
               PROVE  auction'[a].status # None /\ (Exists(a)' => Origin(a, auction[a].pair)')
    BY DEF RelistsKnow, HeldByRelists
  <2>1. a \in Auctions
    BY DEF UpkeepInv, TypeOK, Run
  <2>2. auction[a].status # None /\ (Exists(a) => Origin(a, auction[a].pair))
    BY DEF HeldByRelists
  <2>3. auction'[a].status # None /\ (Exists(a)' => Exists(a) /\ auction'[a].pair = auction[a].pair)
    BY <2>1, <2>2 DEF RowsTurn
  <2>4. Exists(a)' => auction'[a].status # "GONE"
    BY DEF Exists
  <2>5. PICK pair : pair = auction[a].pair
    OBVIOUS
  <2>6. Exists(a)' => Origin(a, pair)'
    BY <2>1, <2>2, <2>3, <2>4, <2>5, OriginStays
  <2> QED BY <2>3, <2>5, <2>6 DEF Origin
<1>3. PurgesTakeOrigins'
  <2> SUFFICES ASSUME NEW p \in Purges, purge'[p].at = "batch", NEW c \in purge'[p].batch,
                      auction'[c].from # None
               PROVE  auction'[c].from \in purge'[p].batch \/ IsReturned(auction'[c].pair)
    BY DEF PurgesTakeOrigins, Returned, IsReturned
  <2>1. c \in Auctions /\ auction'[c] \in Row
    BY DEF UpkeepInv, TypeOK, Run
  <2>2. auction'[c].from = auction[c].from
    BY <2>1 DEF RowsTurn
  <2>3. auction'[c].pair = auction[c].pair
    <3>1. Exists(c)'
      BY <1>1, <2>1 DEF RowsSound, RowSound, Row, Exists
    <3> QED BY <2>1, <3>1 DEF RowsTurn
  <2>4. Returned(auction[c].pair) => IsReturned(auction[c].pair)
    BY DEF Returned, IsReturned, TimeGoes
  <2> QED BY <2>2, <2>3, <2>4 DEF HeldByPurges
<1> QED BY <1>1, <1>2, <1>3 DEF SalesInv

LEMMA RunsHoldOn ==
  ASSUME SalesInv, TimeGoes, UNCHANGED <<relist, purge>>
  PROVE  HeldByRelists /\ HeldByPurges
<1>1. HeldByRelists
  BY SaleTypes DEF RelistsKnow, HeldByRelists, TimeGoes
<1>2. HeldByPurges
  BY SaleTypes DEF PurgesTakeOrigins, HeldByPurges
<1> QED BY <1>1, <1>2

LEMMA SameRowsTurn ==
  ASSUME SalesInv, UNCHANGED auction, TimeGoes
  PROVE  RowsTurn
<1> SUFFICES ASSUME NEW a \in Auctions
             PROVE  /\ RowSound(auction[a], clock')
                    /\ auction[a].from # None => auction[auction[a].from].status # "GONE"
  BY DEF RowsTurn, Exists, Live, CanBePaid, Conflicts, WonByBot
<1>1. RowSound(auction[a], clock) /\ clock \in Nat
  BY SaleTypes DEF RowsSound
<1>2. RowSound(auction[a], clock')
  BY <1>1 DEF RowSound, TimeGoes
<1>3. auction[a].from # None => auction[auction[a].from].status # "GONE"
  BY SaleTypes DEF Origins, Origin, Exists
<1> QED BY <1>2, <1>3

(* One row turns: it can be paid before, or was taken back from a bot.         *)
LEMMA OneRowTurns ==
  ASSUME SalesInv, TimeGoes, clock' = clock, NEW a \in Auctions, NEW row \in Row,
         auction' = [auction EXCEPT ![a] = row], Exists(a),
         row.status \in {"OPEN", "CLOSED"}, row.pair = auction[a].pair,
         row.from = auction[a].from, RowSound(row, clock),
         CanBePaid(a) \/ IsReturned(auction[a].pair),
         WonByBot(auction[a]) => IsReturned(auction[a].pair),
         row.status = "CLOSED" =>
           \/ auction[a].status = "CLOSED" /\ row.closedAt = auction[a].closedAt
           \/ row.closedAt = clock
  PROVE  RowsTurn
<1>1. auction'[a] = row /\ \A b \in Auctions : b # a => auction'[b] = auction[b]
  BY SaleTypes
<1>2. \A b \in Auctions : auction'[b].from = auction[b].from
  BY <1>1
<1>3. \A b \in Auctions : Conflicts(b)' <=> Conflicts(b)
  BY <1>2 DEF Conflicts
<1>4. \A b \in Auctions : auction[b].from # None => auction'[auction[b].from].status # "GONE"
  <2> SUFFICES ASSUME NEW b \in Auctions, auction[b].from # None
               PROVE  auction'[auction[b].from].status # "GONE"
    OBVIOUS
  <2>1. auction[b] \in Row
    BY SaleTypes
  <2>2. auction[b].from \in Auctions /\ auction[auction[b].from].status # "GONE"
    BY <2>1, SaleTypes DEF Origins, Origin, Exists, Row
  <2> QED BY <1>1, <2>2
<1>5. ASSUME NEW b \in Auctions, b # a
      PROVE  /\ RowSound(auction'[b], clock')
             /\ auction[b].status # None => auction'[b].status # None
             /\ Exists(b)' => Exists(b) /\ auction'[b].pair = auction[b].pair
             /\ Live(b)' => Live(b)
             /\ WonByBot(auction[b]) => WonByBot(auction'[b])
                                        /\ auction'[b].closedAt = auction[b].closedAt
             /\ auction'[b].status = "CLOSED" =>
                  auction[b].status = "CLOSED" /\ auction'[b].closedAt = auction[b].closedAt
  <2>1. RowSound(auction[b], clock)
    BY SaleTypes DEF RowsSound
  <2> QED BY <1>1, <1>3, <1>5, <2>1 DEF Exists, Live, CanBePaid, WonByBot
<1>6. /\ RowSound(auction'[a], clock')
      /\ auction'[a].status # None
      /\ Live(a) \/ IsReturned(auction[a].pair)
      /\ WonByBot(auction[a]) => IsReturned(auction[a].pair)
  BY <1>1, SaleTypes DEF Live
<1> QED BY <1>1, <1>2, <1>4, <1>5, <1>6 DEF RowsTurn

LEMMA LivesSell ==
  ASSUME SalesInv, UpkeepInv', NEW a \in Auctions, LifeStep(a)
  PROVE  SalesInv'
<1>1. /\ relist' = relist /\ purge' = purge /\ clock' = clock
      /\ auction[a] \in Row /\ auction[a].status \in {"OPEN", "CLOSED"} /\ Exists(a)
      /\ Fine(auction[a], clock) /\ RowSound(auction[a], clock) /\ clock \in Nat
      /\ None \notin {"OPEN", "CLOSED", "GONE"}
  BY SaleTypes
     DEF LifeStep, Ends, Close, Pay, PayFails, Cancel, Reopens, Keep, UpkeepInv, RowsFine,
         Fine, RowsSound, Exists
<1>2. PairsUsed'
  BY SaleTypes, LivesOffer DEF OffersGo
<1>3. ASSUME NEW row \in Row,
             auction' = [auction EXCEPT ![a] = row], reopened \subseteq reopened',
             row.status \in {"OPEN", "CLOSED"}, row.pair = auction[a].pair,
             row.from = auction[a].from, RowSound(row, clock),
             CanBePaid(a) \/ IsReturned(auction[a].pair),
             WonByBot(auction[a]) => IsReturned(auction[a].pair),
             row.status = "CLOSED" =>
               \/ auction[a].status = "CLOSED" /\ row.closedAt = auction[a].closedAt
               \/ row.closedAt = clock
      PROVE  SalesInv'
  <2>1. TimeGoes
    BY <1>1, <1>3 DEF TimeGoes
  <2>2. RowsTurn
    BY <1>1, <1>3, <2>1, OneRowTurns
  <2> QED BY <1>1, <1>2, <2>1, <2>2, RunsHoldOn, SalesStay
<1>4. CASE Ends(a)
  <2> DEFINE row == [auction[a] EXCEPT !.ended = TRUE]
  <2>1. auction' = [auction EXCEPT ![a] = row] /\ reopened' = reopened
        /\ auction[a].status = "OPEN"
    BY <1>4 DEF Ends
  <2>2. /\ row \in Row /\ row.pair = auction[a].pair /\ row.from = auction[a].from
        /\ row.status = auction[a].status /\ row.winner = auction[a].winner
        /\ row.order = auction[a].order /\ row.closedAt = auction[a].closedAt
    BY <1>1 DEF Row
  <2> HIDE DEF row
  <2> QED BY <1>1, <1>3, <2>1, <2>2 DEF RowSound, CanBePaid, WonByBot
<1>5. CASE Close(a)
  <2>1. auction[a].status = "OPEN" /\ reopened' = reopened
    BY <1>5 DEF Close
  <2>2. ASSUME NEW row \in Row, auction' = [auction EXCEPT ![a] = row],
               row.pair = auction[a].pair, row.from = auction[a].from,
               row.status = "CLOSED", row.closedAt = clock, row.order # "PAID"
        PROVE  SalesInv'
    <3>1. RowSound(row, clock)
      BY <1>1, <2>2 DEF RowSound
    <3>2. CanBePaid(a) /\ ~WonByBot(auction[a])
      BY <2>1 DEF CanBePaid, WonByBot
    <3> QED BY <1>1, <1>3, <2>1, <2>2, <3>1, <3>2
  <2>3. CASE auction' = [auction EXCEPT ![a].status = "CLOSED", ![a].closedAt = clock]
    <3> DEFINE row == [auction[a] EXCEPT !.status = "CLOSED", !.closedAt = clock]
    <3>1. auction' = [auction EXCEPT ![a] = row]
      BY <2>3
    <3>2. /\ row \in Row /\ row.pair = auction[a].pair /\ row.from = auction[a].from
          /\ row.status = "CLOSED" /\ row.closedAt = clock /\ row.order = auction[a].order
      BY <1>1 DEF Row
    <3> HIDE DEF row
    <3>3. row.order # "PAID"
      BY <1>1, <2>1, <3>2 DEF Fine
    <3> QED BY <2>2, <3>1, <3>2, <3>3
  <2>4. ASSUME NEW w \in Winners,
               auction' = [auction EXCEPT
                 ![a] = [@ EXCEPT !.status = "CLOSED", !.closedAt = clock, !.winner = w,
                                  !.order = "PENDING", !.orderedAt = clock]]
        PROVE  SalesInv'
    <3> DEFINE row == [auction[a] EXCEPT !.status = "CLOSED", !.closedAt = clock, !.winner = w,
                                         !.order = "PENDING", !.orderedAt = clock]
    <3>1. auction' = [auction EXCEPT ![a] = row]
      BY <2>4
    <3>2. /\ row \in Row /\ row.pair = auction[a].pair /\ row.from = auction[a].from
          /\ row.status = "CLOSED" /\ row.closedAt = clock /\ row.order = "PENDING"
      BY <1>1 DEF Row
    <3> HIDE DEF row
    <3> QED BY <2>2, <3>1, <3>2
  <2> QED BY <1>5, <2>3, <2>4 DEF Close
<1>6. CASE Pay(a)
  <2> DEFINE row == [auction[a] EXCEPT !.order = "PAID"]
  <2>1. /\ auction' = [auction EXCEPT ![a] = row] /\ reopened' = reopened
        /\ auction[a].order = "PENDING" /\ auction[a].winner = "person"
    BY <1>6 DEF Pay
  <2>2. /\ row \in Row /\ row.pair = auction[a].pair /\ row.from = auction[a].from
        /\ row.status = auction[a].status /\ row.winner = auction[a].winner
        /\ row.closedAt = auction[a].closedAt
    BY <1>1 DEF Row
  <2>3. auction[a].status = "CLOSED"
    BY <1>1, <2>1 DEF Fine
  <2> HIDE DEF row
  <2> QED BY <1>1, <1>3, <2>1, <2>2, <2>3 DEF RowSound, CanBePaid, WonByBot
<1>7. CASE PayFails(a) \/ Cancel(a)
  <2> DEFINE row == [auction[a] EXCEPT !.order = "CANCELED", !.status = "OPEN", !.ended = FALSE,
                                       !.winner = None, !.closedAt = None]
  <2>1. /\ auction' = [auction EXCEPT ![a] = row] /\ auction[a].order = "PENDING"
        /\ reopened' = reopened \cup {<<auction[a].pair, auction[a].winner>>}
    BY <1>7 DEF PayFails, Cancel, Reopens
  <2>2. /\ row \in Row /\ row.pair = auction[a].pair /\ row.from = auction[a].from
        /\ row.status = "OPEN" /\ row.winner = None /\ row.order = "CANCELED"
    BY <1>1 DEF Row
  <2> HIDE DEF row
  <2>3. RowSound(row, clock)
    BY <2>2, SaleTypes DEF RowSound
  <2>4. auction[a].winner \in Winners
    BY <1>1, <2>1 DEF Fine, Unpaid
  <2>5. auction[a].winner = "person" \/ IsReturned(auction[a].pair)
    BY <2>1, <2>4 DEF IsReturned, Winners
  <2>6. CanBePaid(a) \/ IsReturned(auction[a].pair)
    BY <2>1, <2>5 DEF CanBePaid
  <2> QED BY <1>3, <2>1, <2>2, <2>3, <2>5, <2>6 DEF WonByBot
<1> QED BY <1>4, <1>5, <1>6, <1>7 DEF LifeStep

(* A row is inserted: the first of its pair, or in place of the row that a bot *)
(* won, which has not been listed again.                                       *)
LEMMA InsertSells ==
  ASSUME SalesInv, UpkeepInv', NEW pair \in Auctions, NEW from \in Auctions \cup {None},
         NEW shoe, NEW by, Inserted(Open(pair, from, shoe, by)), UNCHANGED <<clock, reopened>>,
         \/ from = None /\ pair = NewRow
         \/ from # None /\ Origin(from, pair) /\ ~Conflicts(from)
  PROVE  /\ OneLives' /\ RowsSound' /\ Origins'
         /\ \A a \in Auctions : auction[a].status # None => auction'[a] = auction[a]
<1>0. PICK new \in Auctions : new = NewRow
  BY InsertsUnused
<1> DEFINE row == Open(pair, from, shoe, by)
<1>1. /\ auction[new].status = None /\ auction[new].from = None
      /\ auction' = [auction EXCEPT ![new] = row]
  BY <1>0, InsertsUnused DEF NoRow
<1>2. /\ row.pair = pair /\ row.from = from /\ row.status = "OPEN" /\ row.winner = None
      /\ row.order = None
  BY DEF Open, NoRow
<1> HIDE DEF row
<1>3. /\ auction'[new] = row /\ \A a \in Auctions : a # new => auction'[a] = auction[a]
  BY <1>1, SaleTypes
<1>4. None \notin {"OPEN", "CLOSED", "GONE", "PAID", "PENDING"} /\ clock' = clock
  BY NoneIsNothing
<1>5. RowsSound'
  <2>1. RowSound(row, clock)
    BY <1>2, <1>4 DEF RowSound
  <2> QED BY <1>3, <1>4, <2>1, SaleTypes DEF RowsSound
<1>6. \A a \in Auctions : auction[a].status # None => auction'[a] = auction[a]
  BY <1>1, <1>3
<1>7. \A a \in Auctions : \A q : Origin(a, q) => a # new /\ auction'[a] = auction[a] /\ Origin(a, q)'
  <2> SUFFICES ASSUME NEW a \in Auctions, NEW q, Origin(a, q)
               PROVE  a # new /\ auction'[a] = auction[a] /\ Origin(a, q)'
    OBVIOUS
  <2>1. a # new
    BY <1>1, <1>4 DEF Origin, Exists
  <2> QED BY <1>3, <2>1 DEF Origin, Exists, Returned, WonByBot
<1>8. Origins'
  <2> SUFFICES ASSUME NEW c \in Auctions, auction'[c].from # None
               PROVE  /\ Origin(auction[c].from, auction[c].pair)'
                      /\ auction'[c].status = "CLOSED" /\ ~IsReturned(auction'[c].pair)
                           => auction'[auction'[c].from].closedAt < auction'[c].closedAt
    BY DEF Origins, Returned, IsReturned
  <2> PICK a, q : a = auction'[c].from /\ q = auction'[c].pair
    OBVIOUS
  <2>1. CASE c = new
    <3>1. a = from /\ q = pair /\ from \in Auctions /\ Origin(a, q)
      BY <1>2, <1>3, <2>1
    <3>2. Origin(a, q)'
      BY <1>7, <3>1
    <3> QED BY <1>2, <1>3, <2>1, <3>2
  <2>2. CASE c # new
    <3>1. a = auction[c].from /\ q = auction[c].pair /\ auction'[c] = auction[c]
      BY <1>3, <2>2
    <3>2. a \in Auctions
      BY <3>1, SaleTypes DEF Row
    <3>3. /\ Origin(a, q)
          /\ auction[c].status = "CLOSED" /\ ~Returned(q)
               => auction[a].closedAt < auction[c].closedAt
      BY <3>1, SaleTypes DEF Origins
    <3>4. Origin(a, q)' /\ auction'[a] = auction[a]
      BY <1>7, <3>2, <3>3
    <3>5. Returned(q) <=> IsReturned(q)
      BY DEF Returned, IsReturned
    <3> QED BY <3>1, <3>3, <3>4, <3>5
  <2> QED BY <2>1, <2>2
<1>9. \A a \in Auctions : /\ a # new /\ Live(a)' => Live(a)
                          /\ Conflicts(a) => Conflicts(a)'
  <2> SUFFICES ASSUME NEW a \in Auctions
               PROVE  /\ Conflicts(a) => Conflicts(a)'
                      /\ a # new /\ Live(a)' => Live(a)
    OBVIOUS
  <2>1. Conflicts(a) => Conflicts(a)'
    BY <1>1, <1>3, SaleTypes DEF Conflicts
  <2>2. a # new /\ Live(a)' => Live(a)
    BY <1>3, <2>1 DEF Live, CanBePaid, WonByBot
  <2> QED BY <2>1, <2>2
<1>10. ASSUME NEW b \in Auctions, b # new, Live(b)', auction[b].pair = pair
       PROVE  IsReturned(pair)
  <2>1. Live(b)
    BY <1>9, <1>10
  <2>2. CASE pair = new
    BY <1>1, <1>10, <2>2, SaleTypes DEF PairsUsed
  <2>3. CASE from # None /\ Origin(from, pair) /\ ~Conflicts(from)
    <3>1. from \in Auctions /\ auction[from].pair = pair /\ (Returned(pair) \/ WonByBot(auction[from]))
      BY <2>3 DEF Origin
    <3>2. CASE Returned(pair)
      BY <3>2 DEF Returned, IsReturned
    <3>3. CASE ~Returned(pair)
      <4>1. WonByBot(auction[from]) /\ Live(from)
        BY <2>3, <3>1, <3>3 DEF Live
      <4>2. b = from
        BY <1>10, <2>1, <3>1, <3>3, <4>1, SaleTypes DEF OneLives
      <4>3. from # new /\ auction'[from] = auction[from] /\ Conflicts(from)'
        BY <1>2, <1>3, <1>7, <2>3, <3>1 DEF Conflicts
      <4>4. ~CanBePaid(from)'
        <5>1. RowSound(auction[from], clock)
          BY <3>1, SaleTypes DEF RowsSound
        <5> QED BY <4>1, <4>3, <5>1 DEF CanBePaid, WonByBot, RowSound
      <4> QED BY <1>10, <4>2, <4>3, <4>4 DEF Live
    <3> QED BY <3>2, <3>3
  <2> QED BY <1>0, <2>2, <2>3
<1>11. OneLives'
  <2> SUFFICES ASSUME NEW a \in Auctions, NEW b \in Auctions, a # b, Live(a)', Live(b)',
                      auction'[a].pair = auction'[b].pair
               PROVE  IsReturned(auction'[a].pair)
    BY DEF OneLives, Returned, IsReturned
  <2>1. CASE a = new
    BY <1>2, <1>3, <1>10, <2>1
  <2>2. CASE b = new
    BY <1>2, <1>3, <1>10, <2>2
  <2>3. CASE a # new /\ b # new
    <3>1. Live(a) /\ Live(b) /\ auction'[a] = auction[a] /\ auction'[b] = auction[b]
      BY <1>3, <1>9, <2>3
    <3>2. Returned(auction[a].pair)
      BY <3>1, SaleTypes DEF OneLives
    <3> QED BY <3>1, <3>2 DEF Returned, IsReturned
  <2> QED BY <2>1, <2>2, <2>3
<1> QED BY <1>5, <1>6, <1>8, <1>11

LEMMA InsertStays ==
  ASSUME SalesInv, UpkeepInv', PairsUsed', UNCHANGED <<clock, reopened, purge>>,
         OneLives', RowsSound', Origins', HeldByRelists,
         \A a \in Auctions : auction[a].status # None => auction'[a] = auction[a]
  PROVE  SalesInv'
<1>1. RelistsKnow'
  <2> SUFFICES ASSUME NEW r \in Relists, NEW a \in relist'[r].batch
               PROVE  auction'[a].status # None /\ (Exists(a)' => Origin(a, auction[a].pair)')
    BY DEF RelistsKnow, HeldByRelists
  <2>1. a \in Auctions
    BY DEF UpkeepInv, TypeOK, Run
  <2>2. auction'[a] = auction[a] /\ auction[a].status # None
        /\ (Exists(a) => Origin(a, auction[a].pair))
    BY <2>1 DEF HeldByRelists
  <2> QED BY <2>2 DEF Origin, Exists, Returned, WonByBot
<1>2. PurgesTakeOrigins'
  <2> SUFFICES ASSUME NEW p \in Purges, purge[p].at = "batch", NEW c \in purge[p].batch,
                      auction'[c].from # None
               PROVE  auction'[c].from \in purge[p].batch \/ IsReturned(auction'[c].pair)
    BY DEF PurgesTakeOrigins, Returned, IsReturned
  <2>1. c \in Auctions /\ auction[c].status # None
    BY SaleTypes, BatchesAreSettled DEF Settled
  <2>2. auction'[c] = auction[c]
    BY <2>1
  <2> QED BY <2>2, SaleTypes DEF PurgesTakeOrigins, Returned, IsReturned
<1> QED BY <1>1, <1>2 DEF SalesInv

LEMMA OneRelistHolds ==
  ASSUME SalesInv, NEW r \in Relists, NEW run, Relisting(r, run),
         run.at = "known" => run.now \in Nat /\ run.now <= clock,
         \A a \in run.batch :
           auction[a].status # None /\ (Exists(a) => Origin(a, auction[a].pair))
  PROVE  HeldByRelists /\ HeldByPurges /\ TimeGoes
<1>1. /\ clock' = clock /\ reopened' = reopened /\ purge' = purge
      /\ relist'[r] = run /\ \A q \in Relists : q # r => relist'[q] = relist[q]
  BY SaleTypes DEF Relisting
<1>2. TimeGoes
  BY <1>1, SaleTypes DEF TimeGoes
<1>3. HeldByRelists
  BY <1>1, SaleTypes DEF RelistsKnow, HeldByRelists
<1>4. HeldByPurges
  BY <1>1, SaleTypes DEF PurgesTakeOrigins, HeldByPurges
<1> QED BY <1>2, <1>3, <1>4

LEMMA RelistsSell ==
  ASSUME SalesInv, UpkeepInv',
         NEW r \in Relists, RelistReads(r) \/ RelistFinds(r) \/ RelistInserts(r)
  PROVE  SalesInv'
<1>1. PairsUsed'
  BY SaleTypes, RelistsOffer DEF OffersGo
<1>2. ASSUME NEW run, Relisting(r, run), UNCHANGED auction,
             run.at = "known" => run.now \in Nat /\ run.now <= clock,
             \A a \in run.batch :
               auction[a].status # None /\ (Exists(a) => Origin(a, auction[a].pair))
      PROVE  SalesInv'
  BY <1>1, <1>2, OneRelistHolds, SameRowsTurn, SalesStay
<1>3. /\ relist[r] \in Run /\ clock \in Nat /\ NoRun.at = "idle" /\ NoRun.batch = {}
      /\ \A a \in relist[r].batch :
           auction[a].status # None /\ (Exists(a) => Origin(a, auction[a].pair))
  BY SaleTypes DEF RelistsKnow, NoRun
<1>4. CASE RelistReads(r)
  <2> DEFINE run == [NoRun EXCEPT !.at = "known", !.now = clock, !.known = Relisted]
  <2>1. Relisting(r, run) /\ UNCHANGED auction
    BY <1>4 DEF RelistReads
  <2>2. run.now = clock /\ run.batch = {}
    BY DEF NoRun
  <2> HIDE DEF run
  <2> QED BY <1>2, <1>3, <2>1, <2>2
<1>5. CASE RelistFinds(r)
  <2> DEFINE batch == ToRelist(relist[r])
             run == [NoRun EXCEPT !.at = "batch", !.batch = batch]
  <2>1. /\ relist[r].at = "known" /\ UNCHANGED auction
        /\ Relisting(r, IF batch = {} THEN NoRun ELSE run)
    BY <1>5 DEF RelistFinds
  <2>2. run.at = "batch" /\ run.batch = batch
    BY DEF NoRun
  <2>3. ASSUME NEW a \in batch
        PROVE  auction[a].status # None /\ (Exists(a) => Origin(a, auction[a].pair))
    <3>1. /\ a \in Auctions /\ WonByBot(auction[a])
          /\ auction[a].closedAt \in relist[r].now - Lookback .. relist[r].now - RelistDelay
      BY <2>3 DEF ToRelist, WonByBot
    <3>2. /\ relist[r].now \in Nat /\ relist[r].now <= clock
          /\ Lookback \in Nat /\ RelistDelay \in Nat \ {0} /\ clock \in Nat
      BY <2>1, SaleTypes, TimesAreNat DEF RelistsKnow
    <3>3. auction[a].closedAt < clock
      BY <3>1, <3>2
    <3> QED BY <3>1, <3>3, SaleTypes DEF Origin, Exists, WonByBot
  <2> HIDE DEF batch, run
  <2>4. CASE batch = {}
    BY <1>2, <1>3, <2>1, <2>4
  <2>5. CASE batch # {}
    BY <1>2, <2>1, <2>2, <2>3, <2>5
  <2> QED BY <2>4, <2>5
<1>6. CASE RelistInserts(r)
  <2>1. PICK a \in relist[r].batch :
          LET rest == relist[r].batch \ {a}
              next == IF rest = {} THEN NoRun ELSE [relist[r] EXCEPT !.batch = rest]
          IN  \/ /\ Exists(a) /\ ~Conflicts(a)
                 /\ Inserted(Open(auction[a].pair, a, auction[a].shoe, None))
                 /\ Relisting(r, next)
              \/ Exists(a) /\ Conflicts(a) /\ Relisting(r, next) /\ UNCHANGED auction
              \/ ~Exists(a) /\ Relisting(r, NoRun) /\ UNCHANGED auction
    BY <1>6 DEF RelistInserts
  <2> DEFINE rest == relist[r].batch \ {a}
             next == IF rest = {} THEN NoRun ELSE [relist[r] EXCEPT !.batch = rest]
  <2>2. /\ next.at \in {"idle", relist[r].at} /\ next.now \in {NoRun.now, relist[r].now}
        /\ next.batch \subseteq relist[r].batch /\ next.at = "known" => next.now = relist[r].now
    BY <1>3 DEF Run
  <2>3. /\ next.at = "known" => next.now \in Nat /\ next.now <= clock
        /\ \A b \in next.batch :
             auction[b].status # None /\ (Exists(b) => Origin(b, auction[b].pair))
    BY <1>3, <2>2, SaleTypes DEF RelistsKnow
  <2> HIDE DEF rest, next
  <2>4. CASE UNCHANGED auction /\ (Relisting(r, next) \/ Relisting(r, NoRun))
    BY <1>2, <1>3, <2>3, <2>4
  <2>5. CASE /\ Exists(a) /\ ~Conflicts(a)
             /\ Inserted(Open(auction[a].pair, a, auction[a].shoe, None))
             /\ Relisting(r, next)
    <3>1. HeldByRelists /\ UNCHANGED <<clock, reopened, purge>>
      BY <2>3, <2>5, OneRelistHolds DEF Relisting
    <3>2. a \in Auctions /\ a # None /\ Origin(a, auction[a].pair)
      BY <1>3, <2>5, SaleTypes DEF Run
    <3>3. PICK pair : pair = auction[a].pair
      OBVIOUS
    <3>4. pair \in Auctions
      BY <2>5, <3>2, <3>3, SaleTypes DEF Exists, UpkeepInv, RowsFine, Fine
    <3>5. /\ OneLives' /\ RowsSound' /\ Origins'
          /\ \A b \in Auctions : auction[b].status # None => auction'[b] = auction[b]
      BY <2>5, <3>1, <3>2, <3>3, <3>4, InsertSells
    <3> QED BY <1>1, <3>1, <3>5, InsertStays
  <2> QED BY <2>1, <2>4, <2>5 DEF rest, next
<1> QED BY <1>4, <1>5, <1>6

LEMMA SeedsSell ==
  ASSUME SalesInv, UpkeepInv', NEW s \in Seeds, SeedStep(s)
  PROVE  SalesInv'
<1>1. UNCHANGED <<clock, relist, purge, reopened>>
  BY SaleTypes, SeedsGo
<1>2. TimeGoes
  BY <1>1, SaleTypes DEF TimeGoes
<1>3. HeldByRelists /\ HeldByPurges
  BY <1>1, <1>2, RunsHoldOn
<1>4. CASE UNCHANGED auction
  <2>1. PairsUsed'
    BY <1>4, SaleTypes DEF PairsUsed
  <2> QED BY <1>2, <1>3, <1>4, <2>1, SameRowsTurn, SalesStay
<1>5. ASSUME NEW shoe \in Shoes, Inserted(Open(NewRow, None, shoe, s))
      PROVE  SalesInv'
  <2>1. PICK pair : pair = NewRow
    OBVIOUS
  <2>2. pair \in Auctions /\ Inserted(Open(pair, None, shoe, s))
    BY <1>5, <2>1, InsertsUnused
  <2>3. PairsUsed'
    BY <1>1, <2>1, <2>2, SaleTypes, InsertsOffer
  <2>4. /\ OneLives' /\ RowsSound' /\ Origins'
        /\ \A b \in Auctions : auction[b].status # None => auction'[b] = auction[b]
    BY <1>1, <2>1, <2>2, InsertSells
  <2> QED BY <1>1, <1>3, <2>3, <2>4, InsertStays
<1> QED BY <1>4, <1>5, SaleTypes, SeedsGo

LEMMA OnePurgeHolds ==
  ASSUME SalesInv, NEW p \in Purges, NEW run, Purging(p, run),
         run.at = "batch" => \A c \in run.batch : auction[c].from # None =>
           auction[c].from \in run.batch \/ Returned(auction[c].pair)
  PROVE  HeldByRelists /\ HeldByPurges /\ TimeGoes
<1>1. /\ clock' = clock /\ reopened' = reopened /\ relist' = relist
      /\ purge'[p] = run /\ \A q \in Purges : q # p => purge'[q] = purge[q]
  BY SaleTypes DEF Purging
<1>2. TimeGoes
  BY <1>1, SaleTypes DEF TimeGoes
<1>3. HeldByRelists
  BY <1>1, SaleTypes DEF RelistsKnow, HeldByRelists
<1>4. HeldByPurges
  BY <1>1, SaleTypes DEF PurgesTakeOrigins, HeldByPurges
<1> QED BY <1>2, <1>3, <1>4

(* A row that is old enough has an origin that is older, or was taken back.    *)
LEMMA OldestTakeOrigins ==
  ASSUME SalesInv, NEW p \in Purges,
         NEW batch \in Oldest(OldAuctions(p), [a \in Auctions |-> auction[a].closedAt]),
         NEW c \in batch, auction[c].from # None, purge[p].now \in Nat
  PROVE  auction[c].from \in batch \/ Returned(auction[c].pair)
<1> DEFINE old == OldAuctions(p)
<1>1. /\ batch \subseteq old
      /\ \A x \in batch, y \in old \ batch : auction[x].closedAt <= auction[y].closedAt
  <2>1. old \subseteq Auctions
    BY DEF OldAuctions
  <2> QED BY <2>1 DEF Oldest
<1>2. /\ c \in Auctions /\ auction[c].status = "CLOSED"
      /\ auction[c].closedAt < purge[p].now - Retention
  BY <1>1 DEF OldAuctions, Old
<1>3. auction[c].from \in Auctions
  BY <1>2, SaleTypes DEF Row
<1> PICK a : a = auction[c].from
  OBVIOUS
<1>4. CASE Returned(auction[c].pair)
  BY <1>4
<1>5. CASE ~Returned(auction[c].pair)
  <2>1. WonByBot(auction[a]) /\ auction[a].closedAt < auction[c].closedAt
    BY <1>2, <1>5, SaleTypes DEF Origins, Origin
  <2>2. auction[a].closedAt \in Nat /\ auction[c].closedAt \in Nat /\ Retention \in Nat
    BY <1>2, <1>3, <2>1, SaleTypes, TimesAreNat DEF RowsSound, RowSound, WonByBot
  <2>3. auction[a].closedAt < purge[p].now - Retention
    BY <1>2, <2>1, <2>2
  <2>4. auction[a].closedAt # None
    BY <2>2, NoneIsNothing
  <2>5. a \in old
    BY <1>3, <2>1, <2>3, <2>4 DEF OldAuctions, Old, WonByBot
  <2> QED BY <1>1, <2>1, <2>2, <2>5
<1> QED BY <1>4, <1>5

(* Of the rows that a batch leaves, none lost what was listed again from it.   *)
LEMMA DeletedTurn ==
  ASSUME SalesInv, UpkeepInv', TimeGoes, clock' = clock, NEW p \in Purges,
         purge[p].at = "batch", auction' = Deleted(p)
  PROVE  RowsTurn
<1> DEFINE batch == purge[p].batch
<1>1. batch \subseteq Auctions
  BY SaleTypes DEF Run
<1>2. \A b \in batch : /\ auction'[b].status = "GONE" /\ auction'[b].from = None
                       /\ auction'[b].order = None
  BY <1>1 DEF Deleted, Gone, NoRow
<1>3. ASSUME NEW b \in Auctions \ batch
      PROVE  /\ auction'[b].status = auction[b].status /\ auction'[b].pair = auction[b].pair
             /\ auction'[b].winner = auction[b].winner /\ auction'[b].order = auction[b].order
             /\ auction'[b].closedAt = auction[b].closedAt
             /\ auction'[b].from = IF auction[b].from \in batch THEN None ELSE auction[b].from
  <2>1. auction'[b] = IF auction[b].from \in batch THEN [auction[b] EXCEPT !.from = None]
                      ELSE auction[b]
    BY DEF Deleted
  <2>2. auction[b] \in Row
    BY SaleTypes
  <2> QED BY <2>1, <2>2 DEF Row
<1>4. None \notin {"OPEN", "CLOSED", "GONE", "PAID", "PENDING"} /\ None \notin Auctions
  BY NoneIsNothing
<1>5. ASSUME NEW b \in Auctions
      PROVE  auction'[b].from # None => /\ auction'[b].from = auction[b].from
                                        /\ auction'[auction[b].from].status # "GONE"
  <2> SUFFICES ASSUME auction'[b].from # None
               PROVE  /\ auction'[b].from = auction[b].from
                      /\ auction'[auction[b].from].status # "GONE"
    OBVIOUS
  <2>1. b \notin batch /\ auction[b].from \notin batch /\ auction'[b].from = auction[b].from
    BY <1>2, <1>3
  <2>2. auction[b].from \in Auctions /\ auction[auction[b].from].status # "GONE"
    BY <2>1, SaleTypes DEF Origins, Origin, Exists, Row
  <2> QED BY <1>3, <2>1, <2>2
<1>6. ASSUME NEW a \in Auctions, Live(a)' PROVE Live(a) \/ IsReturned(auction[a].pair)
  <2>1. a \notin batch
    BY <1>2, <1>4, <1>6 DEF Live, CanBePaid, WonByBot
  <2>2. CanBePaid(a)' => CanBePaid(a)
    BY <1>3, <2>1 DEF CanBePaid
  <2>3. CASE WonByBot(auction[a]) /\ ~Conflicts(a)' /\ Conflicts(a)
    <3>1. PICK c \in Auctions : auction[c].from = a
      BY <2>3 DEF Conflicts
    <3>2. auction'[c].from # a
      BY <2>3 DEF Conflicts
    <3>3. c \in batch
      BY <1>3, <2>1, <3>1, <3>2
    <3>4. auction[c].from # None
      BY <1>4, <3>1
    <3>5. Returned(auction[c].pair)
      BY <2>1, <3>1, <3>3, <3>4, SaleTypes DEF PurgesTakeOrigins
    <3>6. auction[a].pair = auction[c].pair
      BY <3>1, <3>4, SaleTypes DEF Origins, Origin
    <3> QED BY <3>5, <3>6 DEF Returned, IsReturned, TimeGoes
  <2> QED BY <1>3, <1>6, <2>1, <2>2, <2>3 DEF Live, WonByBot
<1>7. ASSUME NEW a \in Auctions \ batch
      PROVE  /\ RowSound(auction'[a], clock')
             /\ auction[a].status # None => auction'[a].status # None
             /\ Exists(a)' => Exists(a) /\ auction'[a].pair = auction[a].pair
             /\ WonByBot(auction[a]) =>
                  WonByBot(auction'[a]) /\ auction'[a].closedAt = auction[a].closedAt
             /\ auction'[a].status = "CLOSED" =>
                  auction[a].status = "CLOSED" /\ auction'[a].closedAt = auction[a].closedAt
  <2>1. RowSound(auction[a], clock)
    BY SaleTypes DEF RowsSound
  <2>2. auction'[a].from \in {None, auction[a].from}
    BY <1>3
  <2>3. RowSound(auction'[a], clock')
    BY <1>3, <2>1, <2>2 DEF RowSound
  <2> QED BY <1>3, <2>3 DEF Exists, WonByBot
<1>8. ASSUME NEW a \in batch
      PROVE  /\ RowSound(auction'[a], clock') /\ auction'[a].status = "GONE"
             /\ auction'[a].status # None /\ ~Exists(a)' /\ auction'[a].status # "CLOSED"
  BY <1>2, <1>4 DEF RowSound, Exists
<1> QED BY <1>5, <1>6, <1>7, <1>8 DEF RowsTurn

(* An order that is deleted leaves its auction as it is.                       *)
LEMMA OrdersTurn ==
  ASSUME SalesInv, TimeGoes, clock' = clock, NEW gone,
         auction' = [a \in Auctions |-> IF a \in gone
                       THEN [auction[a] EXCEPT !.order = None, !.orderedAt = None]
                       ELSE auction[a]]
  PROVE  RowsTurn
<1>1. ASSUME NEW a \in Auctions
      PROVE  /\ auction'[a].status = auction[a].status /\ auction'[a].pair = auction[a].pair
             /\ auction'[a].winner = auction[a].winner /\ auction'[a].from = auction[a].from
             /\ auction'[a].closedAt = auction[a].closedAt
             /\ auction'[a].order \in {auction[a].order, None}
  <2>1. auction[a] \in Row
    BY SaleTypes
  <2>2. auction'[a] \in {auction[a], [auction[a] EXCEPT !.order = None, !.orderedAt = None]}
    OBVIOUS
  <2> QED BY <2>1, <2>2 DEF Row
<1>2. None \notin {"OPEN", "CLOSED", "GONE", "PAID", "PENDING"}
  BY NoneIsNothing
<1>3. ASSUME NEW a \in Auctions PROVE Live(a)' => Live(a)
  <2>1. Conflicts(a) => Conflicts(a)'
    BY <1>1 DEF Conflicts
  <2>2. CanBePaid(a)' => CanBePaid(a)
    BY <1>1, <1>2 DEF CanBePaid
  <2> QED BY <1>1, <2>1, <2>2 DEF Live, WonByBot
<1>4. ASSUME NEW a \in Auctions
      PROVE  /\ RowSound(auction'[a], clock')
             /\ Exists(a)' <=> Exists(a)
             /\ WonByBot(auction[a]) => WonByBot(auction'[a])
  <2>1. RowSound(auction[a], clock)
    BY SaleTypes DEF RowsSound
  <2>2. RowSound(auction'[a], clock')
    BY <1>1, <1>2, <2>1 DEF RowSound
  <2> QED BY <1>1, <2>2 DEF Exists, WonByBot
<1>5. ASSUME NEW a \in Auctions, auction[a].from # None
      PROVE  auction'[auction[a].from].status # "GONE"
  <2>1. auction[a].from \in Auctions /\ auction[auction[a].from].status # "GONE"
    BY <1>5, SaleTypes DEF Origins, Origin, Exists, Row
  <2> QED BY <1>1, <2>1
<1> QED BY <1>1, <1>3, <1>4, <1>5 DEF RowsTurn

LEMMA PurgesSell ==
  ASSUME SalesInv, UpkeepInv', NEW p \in Purges, PurgeStarts(p) \/ PurgeFails(p) \/ PurgeStep(p)
  PROVE  SalesInv'
<1>1. PairsUsed'
  BY SaleTypes, PurgesOffer DEF OffersGo
<1>2. /\ purge[p] \in Run /\ NoRun.at = "idle" /\ NoRun.batch = {}
      /\ purge[p].at = "batch" => purge[p].now \in Nat
  BY SaleTypes, BatchesAreSettled DEF NoRun
<1>3. ASSUME NEW run, Purging(p, run), RowsTurn,
             run.at = "batch" => \A c \in run.batch : auction[c].from # None =>
               auction[c].from \in run.batch \/ Returned(auction[c].pair)
      PROVE  SalesInv'
  BY <1>1, <1>3, OnePurgeHolds, SalesStay
<1>4. ASSUME NEW run, Purging(p, run), UNCHANGED auction,
             run.at = "batch" => \A c \in run.batch : auction[c].from # None =>
               auction[c].from \in run.batch \/ Returned(auction[c].pair)
      PROVE  SalesInv'
  BY <1>3, <1>4, OnePurgeHolds, SameRowsTurn
<1>5. CASE PurgeStarts(p)
  <2> DEFINE run == [NoRun EXCEPT !.at = "batch", !.now = clock]
  <2>1. Purging(p, run) /\ UNCHANGED auction
    BY <1>5 DEF PurgeStarts, rows
  <2>2. run.batch = {}
    BY DEF NoRun
  <2> HIDE DEF run
  <2> QED BY <1>4, <2>1, <2>2
<1>6. CASE PurgeFails(p)
  BY <1>2, <1>4, <1>6 DEF PurgeFails, rows
<1>7. CASE PurgeSelects(p)
  <2>1. purge[p].at = "batch" /\ UNCHANGED auction
    BY <1>7 DEF PurgeSelects, rows
  <2>2. ASSUME NEW batch \in Oldest(OldAuctions(p), [a \in Auctions |-> auction[a].closedAt]),
               Purging(p, [purge[p] EXCEPT !.batch = batch])
        PROVE  SalesInv'
    <3> DEFINE run == [purge[p] EXCEPT !.batch = batch]
    <3>1. Purging(p, run) /\ run.batch = batch
      BY <1>2, <2>2 DEF Run
    <3> HIDE DEF run
    <3>2. \A c \in batch : auction[c].from # None =>
            auction[c].from \in batch \/ Returned(auction[c].pair)
      BY <1>2, <2>1, OldestTakeOrigins
    <3> QED BY <1>4, <2>1, <3>1, <3>2
  <2>3. ASSUME Purging(p, [purge[p] EXCEPT !.at = "orders"])
        PROVE  SalesInv'
    <3>1. [purge[p] EXCEPT !.at = "orders"].at = "orders"
      BY <1>2 DEF Run
    <3> QED BY <1>4, <2>1, <2>3, <3>1
  <2> QED BY <1>7, <2>2, <2>3 DEF PurgeSelects
<1>8. CASE PurgeDeletes(p)
  <2> DEFINE run == [purge[p] EXCEPT !.batch = {}]
  <2>1. purge[p].at = "batch" /\ auction' = Deleted(p) /\ Purging(p, run)
    BY <1>8 DEF PurgeDeletes
  <2>2. run.batch = {}
    BY <1>2 DEF Run
  <2> HIDE DEF run
  <2>3. TimeGoes /\ clock' = clock
    BY <2>1, <2>2, OnePurgeHolds DEF Purging
  <2>4. RowsTurn
    BY <2>1, <2>3, DeletedTurn
  <2> QED BY <1>3, <2>1, <2>2, <2>4
<1>9. CASE PurgeDeletesOrders(p)
  <2> DEFINE run == [purge[p] EXCEPT !.batch = {}]
  <2>1. /\ auction' = [a \in Auctions |-> IF a \in Outdated(p)
                         THEN [auction[a] EXCEPT !.order = None, !.orderedAt = None]
                         ELSE auction[a]]
        /\ Purging(p, run)
    BY <1>9 DEF PurgeDeletesOrders
  <2>2. run.batch = {}
    BY <1>2 DEF Run
  <2> HIDE DEF run
  <2>3. TimeGoes /\ clock' = clock
    BY <2>1, <2>2, OnePurgeHolds DEF Purging
  <2>4. RowsTurn
    BY <2>1, <2>3, OrdersTurn
  <2> QED BY <1>3, <2>1, <2>2, <2>4
<1>10. CASE PurgeSelectsOrders(p) \/ PurgeSelectsSneakers(p) \/ PurgeDeletesSneakers(p)
  <2>1. UNCHANGED auction
    BY <1>10 DEF PurgeSelectsOrders, PurgeSelectsSneakers, PurgeDeletesSneakers, rows
  <2>2. \E run \in Run : Purging(p, run) /\ run.at # "batch"
    BY <1>2, <1>10, LaterRuns
  <2> QED BY <1>4, <2>1, <2>2
<1> QED BY <1>5, <1>6, <1>7, <1>8, <1>9, <1>10 DEF PurgeStep

LEMMA SalesStep ==
  ASSUME SalesInv, [Next]_vars PROVE SalesInv'
<1>1. UpkeepInv'
  BY SaleTypes, UpkeepSteps
<1>2. ASSUME UNCHANGED <<auction, reopened, relist, purge>>, clock' \in {clock, clock + 1}
      PROVE  SalesInv'
  <2>1. TimeGoes
    BY <1>2, SaleTypes DEF TimeGoes
  <2>2. PairsUsed'
    BY <1>2, SaleTypes DEF PairsUsed
  <2> QED BY <1>1, <1>2, <2>1, <2>2, RunsHoldOn, SameRowsTurn, SalesStay
<1>3. CASE Tick \/ UNCHANGED vars \/ \E v \in Reviewers : ReviewChecks(v) \/ ReviewInserts(v)
  BY <1>2, <1>3 DEF Tick, vars, rows, ReviewChecks, ReviewInserts, Reviewing
<1>4. ASSUME NEW a \in Auctions, LifeStep(a)
      PROVE  SalesInv'
  BY <1>1, <1>4, LivesSell
<1>5. ASSUME NEW r \in Relists, RelistReads(r) \/ RelistFinds(r) \/ RelistInserts(r)
      PROVE  SalesInv'
  BY <1>1, <1>5, RelistsSell
<1>6. ASSUME NEW s \in Seeds, SeedStep(s)
      PROVE  SalesInv'
  BY <1>1, <1>6, SeedsSell
<1>7. ASSUME NEW p \in Purges, PurgeStarts(p) \/ PurgeFails(p) \/ PurgeStep(p)
      PROVE  SalesInv'
  BY <1>1, <1>7, PurgesSell
<1> QED BY <1>3, <1>4, <1>5, <1>6, <1>7 DEF Next, LifeStep

LEMMA SalesStart ==
  ASSUME Init PROVE SalesInv
<1>0. PICK first \in SUBSET First :
        auction = [a \in Auctions |-> IF a \in first THEN Open(a, None, Shoe, None) ELSE NoRow]
  BY StartsWith
<1>1. /\ relist = [r \in Relists |-> NoRun] /\ purge = [p \in Purges |-> NoRun]
      /\ First \subseteq Auctions
  BY FirstAreRows DEF Init
<1>2. /\ \A a \in Auctions : a \in first => auction[a].pair = a /\ auction[a].status = "OPEN"
      /\ \A a \in Auctions \ first : auction[a].pair = None /\ auction[a].status = None
      /\ \A a \in Auctions : /\ auction[a].order = None /\ auction[a].winner = None
                             /\ auction[a].from = None
  BY <1>0, <1>1 DEF Open, NoRow
<1>3. None \notin Auctions /\ None \notin {"OPEN", "CLOSED", "GONE", "PAID", "PENDING"}
  BY NoneIsNothing
<1>4. PairsUsed
  BY <1>1, <1>2, <1>3 DEF PairsUsed
<1>5. OneLives
  BY <1>1, <1>2, <1>3 DEF OneLives, Live, CanBePaid, WonByBot
<1>6. RowsSound
  BY <1>1, <1>2, <1>3 DEF RowsSound, RowSound
<1>7. Origins
  BY <1>2 DEF Origins
<1>8. RelistsKnow /\ PurgesTakeOrigins
  BY <1>1 DEF RelistsKnow, PurgesTakeOrigins, NoRun
<1> QED BY <1>4, <1>5, <1>6, <1>7, <1>8, UpkeepStarts DEF SalesInv

(* However many instances relist, purge and cancel at once, and however long   *)
(* their runs take, a pair of shoes that no cancellation took back from a bot  *)
(* is for sale, or sold to a person, once; and a review is of an order that    *)
(* was paid (bots.service relistBotWonAuctions, data-retention.service         *)
(* purgeOldClosedAuctions, orders.service cancelExpiredPendingOrders).         *)
THEOREM SalesStaySound == Spec => []SalesAreSound
<1>1. SalesInv => SalesAreSound
  <2> SUFFICES ASSUME SalesInv PROVE SalesAreSound
    OBVIOUS
  <2>1. ReviewsArePaid
    BY SaleTypes DEF UpkeepInv
  <2>2. SoldOnce
    BY SaleTypes DEF OneLives, Live, Returned, SoldOnce
  <2> QED BY <2>1, <2>2 DEF SalesAreSound
<1> QED BY <1>1, SalesStart, SalesStep, PTL DEF Spec

=============================================================================
