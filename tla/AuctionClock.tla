---------------------------- MODULE AuctionClock ----------------------------
(***************************************************************************)
(* The end of an auction against the clock: soft close, bids that read     *)
(* `now` before they wait for the row lock, sellers that move the end, and *)
(* the cron that reads a batch of expired auctions and then closes them    *)
(* one by one.  AuctionHouse has the clock as a flag; here it is a number, *)
(* and what the flag decided in AuctionHouse is decided by comparing it.   *)
(***************************************************************************)
EXTENDS Integers, FiniteSets, Sequences, SequencesExt

CONSTANTS
  Auctions,
  Requests,   \* bids and sellers' edits waiting for the row lock
  Crons,      \* runs of closeExpiredAuctions: they may overlap
  MaxTime,    \* bound of the clock
  Ends,       \* end times an auction may start with
  MovedEnds,  \* end times a seller may ask for
  Threshold,  \* SOFT_CLOSE_EXTEND_THRESHOLD_SEC
  ExtendBy,   \* SOFT_CLOSE_EXTEND_BY_MINUTES
  MaxExtends, \* SOFT_CLOSE_MAX_EXTEND_COUNT
  Limit,      \* CLOSE_EXPIRED_BATCH_SIZE
  Timeout,    \* CLOSE_EXPIRED_TIMEOUT_MS
  Reopenings, \* auctions that may have been reopened after an award
  None

ASSUME TimesAreNat ==
  /\ MaxTime \in Nat /\ Ends \subseteq Nat /\ MovedEnds \subseteq Nat
  /\ Threshold \in Nat /\ ExtendBy \in Nat /\ MaxExtends \in Nat
  /\ Limit \in Nat \ {0} /\ Timeout \in Nat
ASSUME ExtensionsOutlastThreshold == Threshold <= ExtendBy
ASSUME AuctionsAreFinite == IsFiniteSet(Auctions)
ASSUME NoneIsNothing == None \notin Auctions \cup Nat

VARIABLES
  clock,
  auction,  \* status, endTime, extendCount, closedAt, whether an order row is
            \* there already; as history, the `now` of the last bid and whether
            \* the seller moved the end
  request,  \* bids and edits that have read the clock and not yet locked the row
  cron      \* the runs in progress

vars == <<clock, auction, request, cron>>

NoRequest == [auction |-> None, now |-> 0, end |-> None]
NoRun == [now |-> None, batch |-> <<>>]

Auction == [status : {"OPEN", "CLOSED"}, end : Nat, extends : 0 .. MaxExtends,
            closedAt : Nat \cup {None}, ordered : BOOLEAN, lastBid : Nat \cup {None},
            moved : BOOLEAN]
Request == [auction : Auctions, now : Nat, end : Nat \cup {None}] \cup {NoRequest}
Run == [now : Nat \cup {None}, batch : Seq(Auctions)]

Init ==
  /\ clock = 0
  /\ \E ends \in [Auctions -> Ends], ordered \in [Auctions -> BOOLEAN] :
       /\ \A a \in Auctions : ordered[a] => a \in Reopenings
       /\ auction = [a \in Auctions |->
            [status |-> "OPEN", end |-> ends[a], extends |-> 0, closedAt |-> None,
             ordered |-> ordered[a], lastBid |-> None, moved |-> FALSE]]
  /\ request = [r \in Requests |-> NoRequest]
  /\ cron = [c \in Crons |-> NoRun]

Tick == clock < MaxTime /\ clock' = clock + 1 /\ UNCHANGED <<auction, request, cron>>

-----------------------------------------------------------------------------
(* placeBid: `const now = new Date()`, then the transaction.                   *)
BidArrives(r, a) ==
  /\ request[r] = NoRequest
  /\ request' = [request EXCEPT ![r] = [auction |-> a, now |-> clock, end |-> None]]
  /\ UNCHANGED <<clock, auction, cron>>

(* SELECT ... FOR UPDATE: the row as it is when the lock is granted.           *)
Lock_AnyEnd(a, now) == auction[a].status = "OPEN"   \* bug: endTimeGt dropped
Lock(a, now) == auction[a].status = "OPEN" /\ auction[a].end > now

Extends_Early(a, now) ==   \* bug: `<` for `<=`, and one extension too few
  auction[a].end - now < Threshold /\ auction[a].extends < MaxExtends
Extends(a, now) ==
  auction[a].end - now <= Threshold /\ auction[a].extends < MaxExtends

BidLands(r) ==
  LET a == request[r].auction
      now == request[r].now
  IN  /\ a # None /\ request[r].end = None
      /\ Lock(a, now)
      /\ auction' = [auction EXCEPT ![a] =
           [auction[a] EXCEPT
              !.lastBid = now,
              !.end = IF Extends(a, now) THEN @ + ExtendBy ELSE @,
              !.extends = IF Extends(a, now) THEN @ + 1 ELSE @]]
      /\ request' = [request EXCEPT ![r] = NoRequest]
      /\ UNCHANGED <<clock, cron>>

(* Not locked, or refused for its price, its bidder or the balance.            *)
Refused(r) ==
  /\ request[r] # NoRequest
  /\ request' = [request EXCEPT ![r] = NoRequest]
  /\ UNCHANGED <<clock, auction, cron>>

(* patchAuctions with an endTime: any moment after now, bids or none. It is    *)
(* tested against the clock before the wait for the row, and not after.        *)
EditArrives(r, a, end) ==
  /\ request[r] = NoRequest
  /\ Lock(a, clock)
  /\ end > clock
  /\ request' = [request EXCEPT ![r] = [auction |-> a, now |-> clock, end |-> end]]
  /\ UNCHANGED <<clock, auction, cron>>

EditLands(r) ==
  LET a == request[r].auction
  IN  /\ a # None /\ request[r].end # None
      /\ Lock(a, request[r].now)
      /\ auction' = [auction EXCEPT ![a] =
           [auction[a] EXCEPT !.end = request[r].end, !.moved = TRUE]]
      /\ request' = [request EXCEPT ![r] = NoRequest]
      /\ UNCHANGED <<clock, cron>>

-----------------------------------------------------------------------------
(* findExpiredForClose: the first Limit by endTime. *)
Expired_AnyStatus(now) == {a \in Auctions : auction[a].end <= now}   \* bug
Expired(now) == {a \in Auctions : auction[a].status = "OPEN" /\ auction[a].end <= now}
Batches(now) ==
  LET sorted == {s \in SetToSeqs(Expired(now)) :
                   \A i, j \in DOMAIN s : i < j => auction[s[i]].end <= auction[s[j]].end}
  IN  {SubSeq(s, 1, IF Len(s) < Limit THEN Len(s) ELSE Limit) : s \in sorted}

CronStart(c) ==
  /\ cron[c] = NoRun
  /\ \E batch \in Batches(clock) :
       batch # <<>> /\ cron' = [cron EXCEPT ![c] = [now |-> clock, batch |-> batch]]
  /\ UNCHANGED <<clock, auction, request>>

Stop(c) == cron' = [cron EXCEPT ![c] = NoRun]
Continue(c) ==
  IF Len(cron[c].batch) = 1 THEN Stop(c)
  ELSE cron' = [cron EXCEPT ![c].batch = Tail(@)]

InTime(c) == cron[c].batch # <<>> /\ clock - cron[c].now < Timeout

(* What the close's lock tests: the end may have moved since the batch.        *)
StillExpired_OpenOnly(a, now) == auction[a].status = "OPEN"   \* bug
StillExpired(a, now) == auction[a].status = "OPEN" /\ auction[a].end <= now

(* The INSERT of the order fails when the auction has one already.             *)
OrderFails(a) == auction[a].ordered /\ auction[a].lastBid # None

CronCloses(c) ==
  LET a == Head(cron[c].batch)
  IN  /\ InTime(c)
      /\ StillExpired(a, cron[c].now) /\ ~OrderFails(a)
      /\ auction' = [auction EXCEPT ![a] =
           [auction[a] EXCEPT
              !.status = "CLOSED", !.closedAt = cron[c].now,
              !.ordered = auction[a].ordered \/ auction[a].lastBid # None]]
      /\ Continue(c)
      /\ UNCHANGED <<clock, request>>

CronSkips(c) ==
  /\ InTime(c)
  /\ ~StillExpired(Head(cron[c].batch), cron[c].now)
  /\ Continue(c)
  /\ UNCHANGED <<clock, auction, request>>

(* The transaction throws, and nothing in the loop catches it: the run ends.   *)
CronThrows(c) ==
  /\ InTime(c)
  /\ StillExpired(Head(cron[c].batch), cron[c].now) /\ OrderFails(Head(cron[c].batch))
  /\ Stop(c)
  /\ UNCHANGED <<clock, auction, request>>

CronTimesOut(c) ==
  /\ cron[c].batch # <<>>
  /\ ~InTime(c)
  /\ Stop(c)
  /\ UNCHANGED <<clock, auction, request>>

CronStep(c) ==
  CronStart(c) \/ CronCloses(c) \/ CronSkips(c) \/ CronThrows(c) \/ CronTimesOut(c)

Next ==
  \/ Tick
  \/ \E r \in Requests, a \in Auctions : BidArrives(r, a)
  \/ \E r \in Requests, a \in Auctions, end \in MovedEnds : EditArrives(r, a, end)
  \/ \E r \in Requests : BidLands(r) \/ EditLands(r) \/ Refused(r)
  \/ \E c \in Crons : CronStep(c)

Spec == Init /\ [][Next]_vars
(* The cron runs every minute and a run goes on until it ends.                 *)
FairSpec == Spec /\ \A c \in Crons : WF_vars(CronStep(c))

-----------------------------------------------------------------------------
(* Properties *)

TypeOK ==
  /\ clock \in 0 .. MaxTime
  /\ auction \in [Auctions -> Auction]
  /\ request \in [Requests -> Request]
  /\ cron \in [Crons -> Run]

(* An auction is closed at a moment not before its end, also when bids or its  *)
(* seller moved the end after the cron had read it as expired.                 *)
NoEarlyClose ==
  \A a \in Auctions : auction[a].status = "CLOSED" => auction[a].end <= auction[a].closedAt

(* No bid made at or after the end counts, however long bids wait for the lock *)
(* and however the end moved while they did. Only an edit that was tested      *)
(* before the bid landed can put the end before it afterwards.                 *)
NoLateBid ==
  \A a \in Auctions : auction[a].lastBid # None /\ ~auction[a].moved
    => auction[a].lastBid < auction[a].end

(* Soft close: an auction whose last bid came within the threshold of an end   *)
(* the seller left alone ended only because its extensions were used up.       *)
LastBidIsAnswerable ==
  \A a \in Auctions :
    /\ auction[a].status = "CLOSED"
    /\ auction[a].lastBid # None /\ ~auction[a].moved
    => \/ auction[a].end - auction[a].lastBid > Threshold
       \/ auction[a].extends = MaxExtends

IsExpired(a) == auction[a].status = "OPEN" /\ auction[a].end <= clock
InTheWay == \E a \in Auctions : IsExpired(a) /\ OrderFails(a)

(* Every expired auction is closed or gets a later end, whatever else expires  *)
(* and however many do at once, unless one whose close throws every time is in *)
(* front of it.                                                                *)
ExpiredEnds == \A a \in Auctions : IsExpired(a) ~> ~IsExpired(a) \/ InTheWay
=============================================================================
