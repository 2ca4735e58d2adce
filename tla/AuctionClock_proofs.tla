------------------------ MODULE AuctionClock_proofs ------------------------
(***************************************************************************)
(* Theorems about AuctionClock, for any ends, bounds and numbers of bids   *)
(* and cron runs.                                                          *)
(***************************************************************************)
EXTENDS AuctionClock, FiniteSetTheorems, TLAPS

(* A batch is a sequence of auctions, shorter than the table.                  *)
LEMMA BatchType ==
  ASSUME NEW now \in Nat, NEW batch \in Batches(now)
  PROVE  batch \in Seq(Auctions)
<1>1. PICK s \in SetToSeqs(Expired(now)) :
        batch = SubSeq(s, 1, IF Len(s) < Limit THEN Len(s) ELSE Limit)
  BY DEF Batches
<1>2. Expired(now) \in SUBSET Auctions
  BY DEF Expired
<1>3. Cardinality(Expired(now)) \in Nat
  BY <1>2, AuctionsAreFinite, FS_Subset, FS_CardinalityType
<1>4. s \in [1 .. Cardinality(Expired(now)) -> Auctions]
  BY <1>2 DEF SetToSeqs
<1>5. s \in Seq(Auctions) /\ Len(s) \in Nat
  BY <1>3, <1>4
<1>6. (IF Len(s) < Limit THEN Len(s) ELSE Limit) \in 0 .. Len(s)
  BY <1>5, TimesAreNat
<1> QED BY <1>1, <1>5, <1>6

(* The clock, the rows, the bids in flight and the cron runs stay what they    *)
(* are: no end, extension count or batch leaves its range.                     *)
THEOREM ClockTypeCorrect == Spec => []TypeOK
<1>1. Init => TypeOK
  <2> SUFFICES ASSUME Init PROVE TypeOK
    OBVIOUS
  <2>1. PICK ends \in [Auctions -> Ends], ordered \in [Auctions -> BOOLEAN] :
          auction = [a \in Auctions |->
            [status |-> "OPEN", end |-> ends[a], extends |-> 0, closedAt |-> None,
             ordered |-> ordered[a], lastBid |-> None, moved |-> FALSE]]
    BY DEF Init
  <2>2. \A a \in Auctions : auction[a] \in Auction
    <3> SUFFICES ASSUME NEW a \in Auctions PROVE auction[a] \in Auction
      OBVIOUS
    <3>0. Ends \subseteq Nat /\ MaxExtends \in Nat
      BY TimesAreNat
    <3>1. ends[a] \in Nat
      BY <3>0
    <3>3. 0 \in 0 .. MaxExtends
      BY <3>0
    <3>2. ASSUME NEW o \in BOOLEAN
          PROVE  [status |-> "OPEN", end |-> ends[a], extends |-> 0,
                  closedAt |-> None, ordered |-> o, lastBid |-> None,
                  moved |-> FALSE] \in Auction
      BY <3>1, <3>3 DEF Auction
    <3> QED BY <2>1, <3>2
  <2>3. clock \in 0 .. MaxTime
    BY TimesAreNat DEF Init
  <2>4. request \in [Requests -> Request] /\ cron \in [Crons -> Run]
    BY DEF Init, Request, NoRun, Run
  <2> QED BY <2>1, <2>2, <2>3, <2>4 DEF TypeOK
<1>2. TypeOK /\ [Next]_vars => TypeOK'
  <2> SUFFICES ASSUME TypeOK, [Next]_vars PROVE TypeOK'
    OBVIOUS
  <2>0. /\ clock \in Nat /\ clock \in 0 .. MaxTime
        /\ \A a \in Auctions : auction[a] \in Auction
        /\ \A r \in Requests : NoRequest \in Request
        /\ NoRun \in Run
    BY TimesAreNat DEF TypeOK, Request, Run, NoRun
  <2>1. CASE Tick
    BY <2>1, TimesAreNat DEF Tick, TypeOK
  <2>2. ASSUME NEW r \in Requests, NEW a \in Auctions, BidArrives(r, a)
        PROVE  TypeOK'
    BY <2>0, <2>2 DEF BidArrives, TypeOK, Request
  <2>3. ASSUME NEW r \in Requests, BidLands(r) PROVE TypeOK'
    <3> DEFINE a == request[r].auction
               now == request[r].now
               row == [auction[a] EXCEPT !.lastBid = now,
                         !.end = IF Extends(a, now) THEN @ + ExtendBy ELSE @,
                         !.extends = IF Extends(a, now) THEN @ + 1 ELSE @]
    <3>1. a \in Auctions /\ now \in Nat
      BY <2>3 DEF BidLands, TypeOK, Request, NoRequest
    <3>2. Extends(a, now) => auction[a].extends + 1 \in 0 .. MaxExtends
      BY <2>0, <3>1, TimesAreNat DEF Extends, Auction
    <3>3. auction[a].end + ExtendBy \in Nat
      BY <2>0, <3>1, TimesAreNat DEF Auction
    <3>4. row \in Auction
      <4>1. auction[a] \in Auction
        BY <2>0, <3>1
      <4>2. (IF Extends(a, now) THEN auction[a].end + ExtendBy ELSE auction[a].end) \in Nat
        BY <3>3, <4>1 DEF Auction
      <4>3. (IF Extends(a, now) THEN auction[a].extends + 1 ELSE auction[a].extends)
              \in 0 .. MaxExtends
        BY <3>2, <4>1 DEF Auction
      <4> QED BY <3>1, <4>1, <4>2, <4>3 DEF Auction
    <3>5. auction' = [auction EXCEPT ![a] = row]
      BY <2>3, <3>1 DEF BidLands, TypeOK
    <3> HIDE DEF row
    <3> QED BY <2>0, <2>3, <3>4, <3>5 DEF BidLands, TypeOK
  <2>4. ASSUME NEW r \in Requests, Refused(r) PROVE TypeOK'
    BY <2>0, <2>4 DEF Refused, TypeOK
  <2>5. ASSUME NEW r \in Requests, NEW a \in Auctions, NEW end \in MovedEnds,
               EditArrives(r, a, end)
        PROVE  TypeOK'
    <3>1. [auction |-> a, now |-> clock, end |-> end] \in Request
      BY <2>0, TimesAreNat DEF Request
    <3> QED BY <2>5, <3>1 DEF EditArrives, TypeOK
  <2>8. ASSUME NEW r \in Requests, EditLands(r) PROVE TypeOK'
    <3> DEFINE a == request[r].auction
               end == request[r].end
    <3>1. a \in Auctions /\ end \in Nat
      BY <2>8 DEF EditLands, TypeOK, Request, NoRequest
    <3>2. [auction[a] EXCEPT !.end = end, !.moved = TRUE] \in Auction
      <4>1. auction[a] \in Auction
        BY <2>0, <3>1
      <4> QED BY <3>1, <4>1 DEF Auction
    <3>3. auction' = [auction EXCEPT ![a] = [auction[a] EXCEPT !.end = end, !.moved = TRUE]]
      BY <2>8 DEF EditLands
    <3> QED BY <2>0, <2>8, <3>2, <3>3 DEF EditLands, TypeOK
  <2>6. ASSUME NEW c \in Crons, CronStep(c) PROVE TypeOK'
    <3>1. cron[c] \in Run /\ cron[c].batch \in Seq(Auctions)
      BY DEF TypeOK, Run
    <3>2. Stop(c) => cron' \in [Crons -> Run]
      BY <2>0 DEF Stop, TypeOK
    <3>3. cron[c].batch # <<>> /\ Continue(c) => cron' \in [Crons -> Run]
      <4> SUFFICES ASSUME cron[c].batch # <<>>, Continue(c),
                          cron' = [cron EXCEPT ![c].batch = Tail(@)]
                   PROVE  cron' \in [Crons -> Run]
        BY <3>2 DEF Continue
      <4>1. [cron[c] EXCEPT !.batch = Tail(@)] \in Run
        <5>1. Tail(cron[c].batch) \in Seq(Auctions)
          BY <3>1
        <5> QED BY <3>1, <5>1 DEF Run
      <4>2. cron' = [cron EXCEPT ![c] = [cron[c] EXCEPT !.batch = Tail(@)]]
        BY DEF TypeOK
      <4> QED BY <4>1, <4>2 DEF TypeOK
    <3>4. CASE CronStart(c)
      <4>1. PICK batch \in Batches(clock) :
              cron' = [cron EXCEPT ![c] = [now |-> clock, batch |-> batch]]
        BY <3>4 DEF CronStart
      <4>2. [now |-> clock, batch |-> batch] \in Run
        BY <2>0, BatchType DEF Run
      <4> QED BY <3>4, <4>1, <4>2 DEF CronStart, TypeOK
    <3>5. CASE CronCloses(c)
      <4> DEFINE a == Head(cron[c].batch)
                 row == [auction[a] EXCEPT !.status = "CLOSED",
                           !.closedAt = cron[c].now,
                           !.ordered = auction[a].ordered \/ auction[a].lastBid # None]
      <4>1. cron[c].batch # <<>> /\ a \in Auctions
        BY <3>1, <3>5 DEF CronCloses, InTime
      <4>2. cron[c].now \in Nat \cup {None}
        BY <3>1 DEF Run
      <4>3. (auction[a].ordered \/ auction[a].lastBid # None) \in BOOLEAN
        OBVIOUS
      <4>4. row \in Auction
        <5>1. auction[a] \in Auction
          BY <2>0, <4>1
        <5> QED BY <4>2, <4>3, <5>1 DEF Auction
      <4>5. auction' = [auction EXCEPT ![a] = row]
        BY <3>5 DEF CronCloses
      <4> HIDE DEF a
      <4> HIDE DEF row
      <4> QED BY <3>3, <3>5, <4>1, <4>4, <4>5 DEF CronCloses, TypeOK
    <3>6. CASE CronSkips(c)
      BY <3>3, <3>6 DEF CronSkips, InTime, TypeOK
    <3>7. CASE CronThrows(c) \/ CronTimesOut(c)
      BY <3>2, <3>7 DEF CronThrows, CronTimesOut, TypeOK
    <3> QED BY <2>6, <3>4, <3>5, <3>6, <3>7 DEF CronStep
  <2>7. CASE UNCHANGED vars
    BY <2>7 DEF vars, TypeOK
  <2> QED BY <2>1, <2>2, <2>3, <2>4, <2>5, <2>6, <2>7, <2>8 DEF Next
<1> QED BY <1>1, <1>2, PTL DEF Spec

-----------------------------------------------------------------------------
(* What each step does to the rows: a bid, an edit or a close changes one, and *)
(* nothing else changes any.                                                   *)
LEMMA RowSteps ==
  ASSUME TypeOK, [Next]_vars
  PROVE  \/ \E r \in Requests : BidLands(r) \/ EditLands(r)
         \/ \E c \in Crons : CronCloses(c)
         \/ UNCHANGED auction
<1>1. ASSUME NEW c \in Crons, CronStep(c) PROVE CronCloses(c) \/ UNCHANGED auction
  BY <1>1 DEF CronStep, CronStart, CronSkips, CronThrows, CronTimesOut
<1> QED BY <1>1 DEF Next, vars, Tick, BidArrives, EditArrives, Refused

(* An auction that is closed is over: the lock of every later bid or edit, and *)
(* of every later close, finds it so, whatever was read before.                *)
THEOREM NeverClosedEarly == Spec => []NoEarlyClose
<1>1. Init => NoEarlyClose
  BY DEF Init, NoEarlyClose
<1>2. TypeOK /\ NoEarlyClose /\ [Next]_vars => NoEarlyClose'
  <2> SUFFICES ASSUME TypeOK, NoEarlyClose, [Next]_vars PROVE NoEarlyClose'
    OBVIOUS
  <2>1. ASSUME NEW r \in Requests, BidLands(r) PROVE NoEarlyClose'
    BY <2>1 DEF BidLands, Lock, NoEarlyClose, TypeOK, Auction
  <2>2. ASSUME NEW r \in Requests, EditLands(r) PROVE NoEarlyClose'
    BY <2>2 DEF EditLands, Lock, NoEarlyClose, TypeOK, Auction
  <2>3. ASSUME NEW c \in Crons, CronCloses(c) PROVE NoEarlyClose'
    BY <2>3 DEF CronCloses, StillExpired, NoEarlyClose, TypeOK, Auction
  <2>4. CASE UNCHANGED auction
    BY <2>4 DEF NoEarlyClose
  <2> QED BY <2>1, <2>2, <2>3, <2>4, RowSteps
<1> QED BY <1>1, <1>2, ClockTypeCorrect, PTL DEF Spec

(* The soft close does what it is for. The invariant drops the closing from    *)
(* LastBidIsAnswerable: it holds of every auction after every bid.             *)
Answerable ==
  \A a \in Auctions : auction[a].lastBid # None /\ ~auction[a].moved =>
    \/ auction[a].end - auction[a].lastBid > Threshold
    \/ auction[a].extends = MaxExtends
SoftCloseInv == NoLateBid /\ Answerable

(* Whatever bids, edits and runs of the cron interleave, no bid counts after    *)
(* the end, and the last one can be answered unless a seller moved the end or  *)
(* the extensions were used up (auctions.service buildBidUpdateData).          *)
THEOREM SoftCloseHolds == Spec => [](NoLateBid /\ LastBidIsAnswerable)
<1>1. Init => SoftCloseInv
  BY DEF Init, SoftCloseInv, NoLateBid, Answerable
<1>2. TypeOK /\ SoftCloseInv /\ [Next]_vars => SoftCloseInv'
  <2> SUFFICES ASSUME TypeOK, SoftCloseInv, [Next]_vars PROVE SoftCloseInv'
    OBVIOUS
  <2>2. ASSUME NEW r \in Requests, BidLands(r) PROVE (NoLateBid /\ Answerable)'
    <3> DEFINE a == request[r].auction
               now == request[r].now
    <3>1. a \in Auctions /\ now \in Nat /\ now # None
      BY <2>2, NoneIsNothing DEF BidLands, TypeOK, Request, NoRequest
    <3>2. /\ auction[a].end \in Nat /\ auction[a].extends \in 0 .. MaxExtends
          /\ auction[a].end > now
      BY <2>2, <3>1 DEF TypeOK, Auction, BidLands, Lock
    <3>3. \A b \in Auctions : b # a => auction'[b] = auction[b]
      BY <2>2, <3>1 DEF BidLands, TypeOK
    <3>4. auction'[a].lastBid = now
      BY <2>2, <3>1 DEF BidLands, TypeOK, Auction
    <3>5. CASE Extends(a, now)
      <4>1. auction'[a].end = auction[a].end + ExtendBy
        BY <2>2, <3>1, <3>5 DEF BidLands, TypeOK, Auction
      <4>2. now < auction'[a].end /\ auction'[a].end - now > Threshold
        BY <3>1, <3>2, <4>1, TimesAreNat, ExtensionsOutlastThreshold
      <4> HIDE DEF a, now
      <4> QED BY <3>3, <3>4, <4>2 DEF SoftCloseInv, NoLateBid, Answerable
    <3>6. CASE ~Extends(a, now)
      <4>1. auction'[a].end = auction[a].end /\ auction'[a].extends = auction[a].extends
        BY <2>2, <3>1, <3>6 DEF BidLands, TypeOK, Auction
      <4>2. auction[a].end - now > Threshold \/ auction[a].extends = MaxExtends
        BY <3>1, <3>2, <3>6, TimesAreNat DEF Extends
      <4> HIDE DEF a, now
      <4> QED BY <3>2, <3>3, <3>4, <4>1, <4>2 DEF SoftCloseInv, NoLateBid, Answerable
    <3> QED BY <3>5, <3>6
  <2>3. ASSUME NEW r \in Requests, EditLands(r) PROVE (NoLateBid /\ Answerable)'
    <3> DEFINE a == request[r].auction
    <3>1. a \in Auctions
      BY <2>3 DEF EditLands, TypeOK, Request, NoRequest
    <3>2. \A b \in Auctions : b # a => auction'[b] = auction[b]
      BY <2>3, <3>1 DEF EditLands, TypeOK
    <3>3. auction'[a].moved = TRUE
      BY <2>3, <3>1 DEF EditLands, TypeOK, Auction
    <3> HIDE DEF a
    <3> QED BY <3>2, <3>3 DEF SoftCloseInv, NoLateBid, Answerable
  <2>4. ASSUME NEW c \in Crons, CronCloses(c) PROVE (NoLateBid /\ Answerable)'
    BY <2>4 DEF CronCloses, SoftCloseInv, NoLateBid, Answerable, TypeOK, Auction
  <2>5. ASSUME UNCHANGED auction PROVE (NoLateBid /\ Answerable)'
    BY <2>5 DEF SoftCloseInv, NoLateBid, Answerable
  <2> QED BY <2>2, <2>3, <2>4, <2>5, RowSteps DEF SoftCloseInv
<1>3. SoftCloseInv => NoLateBid /\ LastBidIsAnswerable
  BY DEF SoftCloseInv, Answerable, LastBidIsAnswerable
<1> QED BY <1>1, <1>2, <1>3, ClockTypeCorrect, PTL DEF Spec

(* A bid that counts came before the end its auction has.                      *)
THEOREM NoBidIsLate == Spec => []NoLateBid
BY SoftCloseHolds, PTL
=============================================================================
