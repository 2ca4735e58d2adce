------------------------ MODULE LiveAuction_proofs ------------------------
(***************************************************************************)
(* Theorems about the fan-out, the page's stream and the price the page    *)
(* shows, for any instances, requests, amounts and delays.                 *)
(***************************************************************************)
EXTENDS LiveAuction, FiniteSetTheorems, SequenceTheorems, TLAPS

(* What the steps of the page do to the fan-out and to the stream's client.    *)
FanoutNext ==
  \/ \E c \in Conns, i \in Instances : Subscribe(c, i)
  \/ \E c \in Conns : Unsubscribe(c)
  \/ UNCHANGED <<subject, refCount, conn>>
ClientNext ==
  \/ Mount(AuctionStream) \/ Opens(AuctionStream) \/ Breaks(AuctionStream)
  \/ TimerFires(AuctionStream) \/ Unmount(AuctionStream)
  \/ UNCHANGED client

LEMMA TurnsIsClientStep == ASSUME NEW to, Turns(to) PROVE ClientNext
BY DEF Turns, ClientNext

LEMMA FanoutSteps == ASSUME [LiveNext]_liveVars PROVE FanoutNext
<1> USE DEF fanout
<1>1. CASE ServerStep
  BY <1>1 DEF ServerStep, OtherBids, Closes, Publishes, Publish, FanoutNext
<1>2. CASE StreamStep
  BY <1>2 DEF StreamStep, ConnectionBreaks, Reconnects, Connects, OtherSubscribes, Departs,
              NewBidArrives, AuctionClosedArrives, Unheard, Receive, FanoutNext
<1>3. CASE PageStep
  BY <1>3 DEF PageStep, PageOpens, Leaves, CountdownEnds, CacheExpires, Bids, OwnCommits,
              OwnSucceeds, OwnFails, FetchReads, FetchAnswers, FetchFails, FanoutNext
<1>4. CASE UNCHANGED liveVars
  BY <1>4 DEF liveVars, FanoutNext
<1> QED BY <1>1, <1>2, <1>3, <1>4 DEF LiveNext

LEMMA ClientSteps == ASSUME [LiveNext]_liveVars PROVE ClientNext
<1>1. CASE ServerStep
  BY <1>1 DEF ServerStep, OtherBids, Closes, Publishes, ClientNext
<1>2. CASE StreamStep
  BY <1>2, TurnsIsClientStep
     DEF StreamStep, ConnectionBreaks, Reconnects, Connects, OtherSubscribes, Departs,
         NewBidArrives, AuctionClosedArrives, Unheard, ClientNext
<1>3. CASE PageStep
  <2>1. CASE PageOpens
    BY <2>1, TurnsIsClientStep DEF PageOpens, Starts, ClientNext
  <2>2. CASE Leaves \/ CountdownEnds \/ FetchFails
    BY <2>2, TurnsIsClientStep DEF Leaves, CountdownEnds, FetchFails, Vanishes
  <2>3. CASE FetchAnswers
    BY <2>3, TurnsIsClientStep DEF FetchAnswers, Starts, ClientNext
  <2>4. CASE CacheExpires \/ FetchReads \/ (\E p \in Amounts : Bids(p))
             \/ \E o \in own : OwnCommits(o) \/ OwnSucceeds(o) \/ OwnFails(o)
    BY <2>4 DEF CacheExpires, FetchReads, Bids, OwnCommits, OwnSucceeds, OwnFails, ClientNext
  <2> QED BY <1>3, <2>1, <2>2, <2>3, <2>4 DEF PageStep
<1>4. CASE UNCHANGED liveVars
  BY <1>4 DEF liveVars, ClientNext
<1> QED BY <1>1, <1>2, <1>3, <1>4 DEF LiveNext

-----------------------------------------------------------------------------
(* The fan-out: the reference count is the number of requests.                 *)
Counts ==
  /\ subject \in [Instances -> BOOLEAN]
  /\ refCount = [i \in Instances |-> Cardinality(ConnsAt(i))]
  /\ conn \in [Conns -> [at : Instances, attached : {TRUE}] \cup {NoConn}]
  /\ \A i \in Instances : subject[i] <=> ConnsAt(i) # {}

LEMMA ConnsAtFinite ==
  ASSUME NEW i \in Instances
  PROVE  IsFiniteSet(ConnsAt(i)) /\ Cardinality(ConnsAt(i)) \in Nat
<1>1. ConnsAt(i) \subseteq Conns
  BY DEF ConnsAt
<1> QED BY <1>1, ConnsAreFinite, FS_Subset, FS_CardinalityType

LEMMA SubscribeCounts ==
  ASSUME Counts, NEW c \in Conns, NEW i \in Instances, Subscribe(c, i)
  PROVE  Counts'
<1>1. conn[c] = NoConn /\ NoConn.at \notin Instances
  BY NowhereIsNoInstance DEF Subscribe, NoConn
<1>2. ConnsAt(i)' = ConnsAt(i) \cup {c} /\ c \notin ConnsAt(i)
  BY <1>1 DEF Subscribe, ConnsAt, Counts
<1>3. \A j \in Instances \ {i} : ConnsAt(j)' = ConnsAt(j)
  BY <1>1 DEF Subscribe, ConnsAt, Counts
<1>4. Cardinality(ConnsAt(i)') = Cardinality(ConnsAt(i)) + 1
  BY <1>2, ConnsAtFinite, FS_AddElement
<1>5. refCount' = [j \in Instances |-> Cardinality(ConnsAt(j)')]
  BY <1>3, <1>4 DEF Counts, Subscribe
<1>6. conn' \in [Conns -> [at : Instances, attached : {TRUE}] \cup {NoConn}]
  BY DEF Counts, Subscribe
<1>7. \A j \in Instances : subject'[j] <=> ConnsAt(j)' # {}
  BY <1>2, <1>3 DEF Counts, Subscribe
<1>8. subject' \in [Instances -> BOOLEAN]
  BY DEF Counts, Subscribe
<1> QED BY <1>5, <1>6, <1>7, <1>8 DEF Counts

LEMMA UnsubscribeCounts ==
  ASSUME Counts, NEW c \in Conns, Unsubscribe(c)
  PROVE  Counts'
<1>1. PICK i \in Instances : i = conn[c].at
  BY DEF Unsubscribe, Counts
<1>a. c \in ConnsAt(i) /\ NoConn.at # i
  BY <1>1, NowhereIsNoInstance DEF ConnsAt, NoConn
<1>b. /\ refCount' = [refCount EXCEPT ![i] = Remaining(i)]
      /\ subject' = [subject EXCEPT ![i] = @ /\ Remaining(i) # 0]
      /\ conn' = [d \in Conns |->
           IF d = c THEN NoConn
           ELSE IF Remaining(i) = 0 /\ conn[d].at = i THEN [conn[d] EXCEPT !.attached = FALSE]
           ELSE conn[d]]
  BY <1>1 DEF Unsubscribe
<1>2. /\ Cardinality(ConnsAt(i) \ {c}) = Cardinality(ConnsAt(i)) - 1
      /\ IsFiniteSet(ConnsAt(i) \ {c})
  BY <1>a, ConnsAtFinite, FS_RemoveElement
<1>3. Cardinality(ConnsAt(i) \ {c}) \in Nat
  BY <1>2, FS_CardinalityType
<1>4. Remaining(i) = Cardinality(ConnsAt(i) \ {c})
  BY <1>2, <1>3, ConnsAtFinite DEF Remaining, Counts
<1>5. Remaining(i) = 0 <=> ConnsAt(i) \ {c} = {}
  BY <1>2, <1>4, FS_EmptySet
<1>6. \A d \in Conns : conn'[d] = IF d = c THEN NoConn ELSE conn[d]
  <2> SUFFICES ASSUME NEW d \in Conns, d # c PROVE conn'[d] = conn[d]
    BY <1>b
  <2>1. Remaining(i) = 0 => conn[d].at # i
    BY <1>5 DEF ConnsAt
  <2> QED BY <1>b, <2>1
<1>7. ConnsAt(i)' = ConnsAt(i) \ {c}
  BY <1>a, <1>6 DEF ConnsAt
<1>8. \A j \in Instances \ {i} : ConnsAt(j)' = ConnsAt(j)
  <2> SUFFICES ASSUME NEW j \in Instances \ {i} PROVE ConnsAt(j)' = ConnsAt(j)
    OBVIOUS
  <2>1. NoConn.at # j /\ conn[c].at # j
    BY <1>1, NowhereIsNoInstance DEF NoConn
  <2> QED BY <1>6, <2>1 DEF ConnsAt
<1>9. refCount' = [j \in Instances |-> Cardinality(ConnsAt(j)')]
  <2>1. \A j \in Instances : refCount'[j] = Cardinality(ConnsAt(j)')
    BY <1>b, <1>4, <1>7, <1>8 DEF Counts
  <2>2. refCount' = [j \in Instances |-> refCount'[j]]
    BY <1>b DEF Counts
  <2> QED BY <2>1, <2>2
<1>10. conn' \in [Conns -> [at : Instances, attached : {TRUE}] \cup {NoConn}]
  <2>1. conn' = [d \in Conns |-> conn'[d]]
    BY <1>b
  <2> QED BY <1>6, <2>1 DEF Counts
<1>11. \A j \in Instances : subject'[j] <=> ConnsAt(j)' # {}
  <2>1. subject'[i] <=> ConnsAt(i)' # {}
    <3>1. subject[i]
      BY <1>a DEF Counts
    <3>2. subject'[i] <=> Remaining(i) # 0
      BY <1>b, <3>1 DEF Counts
    <3> QED BY <1>5, <1>7, <3>2
  <2>2. ASSUME NEW j \in Instances, j # i
        PROVE  subject'[j] <=> ConnsAt(j)' # {}
    <3>1. subject'[j] = subject[j]
      BY <1>b, <2>2 DEF Counts
    <3>2. ConnsAt(j)' = ConnsAt(j)
      BY <1>8, <2>2
    <3> QED BY <3>1, <3>2 DEF Counts
  <2> QED BY <2>1, <2>2
<1>12. subject' \in [Instances -> BOOLEAN]
  BY <1>b DEF Counts
<1> QED BY <1>9, <1>10, <1>11, <1>12 DEF Counts

(* Every step counts the requests right.                                       *)
LEMMA CountsStay == LiveSpec => []Counts
<1>1. LiveInit => Counts
  <2> SUFFICES ASSUME LiveInit PROVE Counts
    OBVIOUS
  <2>1. \A i \in Instances : ConnsAt(i) = {}
    BY NowhereIsNoInstance DEF LiveInit, FanoutInit, ConnsAt, NoConn
  <2>2. Cardinality({}) = 0
    BY FS_EmptySet
  <2> QED BY <2>1, <2>2 DEF LiveInit, FanoutInit, Counts
<1>2. Counts /\ [LiveNext]_liveVars => Counts'
  <2> SUFFICES ASSUME Counts, FanoutNext PROVE Counts'
    BY FanoutSteps
  <2>1. CASE UNCHANGED <<subject, refCount, conn>>
    BY <2>1 DEF Counts, ConnsAt
  <2> QED BY <2>1, SubscribeCounts, UnsubscribeCounts DEF FanoutNext
<1> QED BY <1>1, <1>2, PTL DEF LiveSpec

(* Every request stays on the subject its instance delivers to, however many   *)
(* instances and requests there are and in whatever order they come and go.    *)
THEOREM RequestsAreServed == LiveSpec => []SubjectsFollowRequests
<1>1. Counts => SubjectsFollowRequests
  <2> SUFFICES ASSUME Counts, NEW i \in Instances
               PROVE  Audience(i) = ConnsAt(i) /\ (subject[i] => ConnsAt(i) # {})
    BY DEF SubjectsFollowRequests
  <2>1. \A c \in ConnsAt(i) : conn[c].attached
      <3> SUFFICES ASSUME NEW c \in Conns, conn[c].at = i PROVE conn[c].attached
      BY DEF ConnsAt
    <3>1. conn[c] # NoConn
      BY NowhereIsNoInstance DEF NoConn
    <3> QED BY <3>1 DEF Counts
  <2>2. ConnsAt(i) # {} <=> subject[i]
    BY DEF Counts
  <2> QED BY <2>1, <2>2 DEF Audience
<1> QED BY <1>1, CountsStay, PTL

-----------------------------------------------------------------------------
(* The stream.  A stream that nobody wants has no delay to catch up with, so a *)
(* page that is opened does not start as one that reconnects.                  *)
StreamInv ==
  /\ TypeOK
  /\ OneSourceEach
  /\ \A s \in Streams : ~enabled[s] => delay[s] = FirstDelay
  /\ \A s \in Streams \ {AuctionStream} : ~enabled[s]
  /\ ReconnectingIsShown

LEMMA StreamStarts == ASSUME Init PROVE StreamInv
<1>1. TypeOK
  BY DelaysAreNat DEF Init, TypeOK
<1>2. OneSourceEach
  BY DEF Init, OneSourceEach
<1>3. \A s \in Streams : ~enabled[s] /\ delay[s] = FirstDelay
  BY DEF Init
<1>4. ReconnectingIsShown
  BY <1>3, CountedAreStreams DEF ReconnectingIsShown, Reconnecting
<1> QED BY <1>1, <1>2, <1>3, <1>4 DEF StreamInv

LEMMA StreamKept ==
  ASSUME StreamInv, ClientNext
  PROVE  StreamInv'
<1> DEFINE A == AuctionStream
<1>0. A \in Streams /\ A \in Counted
  BY PageHasStream
<1>1. TypeOK /\ OneSourceEach
  BY DEF StreamInv
<1>2. /\ \A s \in Streams : ~enabled[s] => delay[s] = FirstDelay
      /\ \A s \in Streams \ {A} : ~enabled[s]
      /\ Reconnecting(A) => reconnectingCount > 0
  BY <1>0 DEF StreamInv, ReconnectingIsShown
<1>s. ASSUME \A s \in Streams \ {A} : ~enabled'[s], Reconnecting(A)' => reconnectingCount' > 0
      PROVE  ReconnectingIsShown'
  BY <1>s, CountedAreStreams DEF ReconnectingIsShown, Reconnecting
<1>3. CASE Mount(A)
  <2>1. TypeOK'
    BY <1>0, <1>1, <1>3, DelaysAreNat DEF TypeOK, Mount
  <2>2. OneSourceEach'
    BY <1>0, <1>1, <1>3, DelaysAreNat DEF TypeOK, OneSourceEach, Mount
  <2>3. \A s \in Streams : ~enabled'[s] => delay'[s] = FirstDelay
    BY <1>0, <1>1, <1>2, <1>3 DEF TypeOK, OneSourceEach, Mount
  <2>4. \A s \in Streams \ {A} : ~enabled'[s]
    BY <1>1, <1>2, <1>3 DEF TypeOK, Mount
  <2>5. Reconnecting(A)' => reconnectingCount' > 0
    BY <1>0, <1>1, <1>2, <1>3, DelaysAreNat
       DEF TypeOK, OneSourceEach, Reconnecting, Mount
  <2> QED BY <2>1, <2>2, <2>3, <2>4, <2>5, <1>s DEF StreamInv
<1>4. CASE Opens(A)
  <2>1. TypeOK'
    BY <1>0, <1>1, <1>4, DelaysAreNat DEF TypeOK, Opens, RemoveReconnecting
  <2>2. OneSourceEach'
    BY <1>0, <1>1, <1>4, DelaysAreNat DEF TypeOK, OneSourceEach, Opens
  <2>3. \A s \in Streams : ~enabled'[s] => delay'[s] = FirstDelay
    BY <1>0, <1>1, <1>2, <1>4 DEF TypeOK, OneSourceEach, Opens
  <2>4. \A s \in Streams \ {A} : ~enabled'[s]
    BY <1>1, <1>2, <1>4 DEF TypeOK, Opens
  <2>5. Reconnecting(A)' => reconnectingCount' > 0
    BY <1>0, <1>1, <1>2, <1>4, DelaysAreNat
       DEF TypeOK, OneSourceEach, Reconnecting, Opens, RemoveReconnecting
  <2> QED BY <2>1, <2>2, <2>3, <2>4, <2>5, <1>s DEF StreamInv
<1>5. CASE Breaks(A)
  <2>1. TypeOK'
    BY <1>0, <1>1, <1>5, DelaysAreNat, NoneIsNoDelay DEF TypeOK, Breaks, AddReconnecting
  <2>2. OneSourceEach'
    BY <1>0, <1>1, <1>5, DelaysAreNat, NoneIsNoDelay DEF TypeOK, OneSourceEach, Breaks
  <2>3. \A s \in Streams : ~enabled'[s] => delay'[s] = FirstDelay
    BY <1>0, <1>1, <1>2, <1>5 DEF TypeOK, OneSourceEach, Breaks
  <2>4. \A s \in Streams \ {A} : ~enabled'[s]
    BY <1>1, <1>2, <1>5 DEF TypeOK, Breaks
  <2>5. Reconnecting(A)' => reconnectingCount' > 0
    BY <1>0, <1>1, <1>2, <1>5, DelaysAreNat, NoneIsNoDelay
       DEF TypeOK, OneSourceEach, Reconnecting, Breaks, AddReconnecting
  <2> QED BY <2>1, <2>2, <2>3, <2>4, <2>5, <1>s DEF StreamInv
<1>6. CASE TimerFires(A)
  <2>1. TypeOK'
    BY <1>0, <1>1, <1>6, DelaysAreNat, NoneIsNoDelay DEF TypeOK, TimerFires, Doubled
  <2>2. OneSourceEach'
    BY <1>0, <1>1, <1>6, DelaysAreNat, NoneIsNoDelay DEF TypeOK, OneSourceEach, TimerFires
  <2>3. \A s \in Streams : ~enabled'[s] => delay'[s] = FirstDelay
    BY <1>0, <1>1, <1>2, <1>6 DEF TypeOK, OneSourceEach, TimerFires
  <2>4. \A s \in Streams \ {A} : ~enabled'[s]
    BY <1>1, <1>2, <1>6 DEF TypeOK, TimerFires
  <2>5. Reconnecting(A)' => reconnectingCount' > 0
    BY <1>0, <1>1, <1>2, <1>6, DelaysAreNat, NoneIsNoDelay
       DEF TypeOK, OneSourceEach, Reconnecting, TimerFires, Doubled
  <2> QED BY <2>1, <2>2, <2>3, <2>4, <2>5, <1>s DEF StreamInv
<1>7. CASE Unmount(A)
  <2>1. TypeOK'
    BY <1>0, <1>1, <1>7, DelaysAreNat DEF TypeOK, Unmount, RemoveReconnecting
  <2>2. OneSourceEach'
    BY <1>0, <1>1, <1>7, DelaysAreNat DEF TypeOK, OneSourceEach, Unmount
  <2>3. \A s \in Streams : ~enabled'[s] => delay'[s] = FirstDelay
    BY <1>0, <1>1, <1>2, <1>7 DEF TypeOK, OneSourceEach, Unmount
  <2>4. \A s \in Streams \ {A} : ~enabled'[s]
    BY <1>1, <1>2, <1>7 DEF TypeOK, Unmount
  <2>5. Reconnecting(A)' => reconnectingCount' > 0
    BY <1>0, <1>1, <1>2, <1>7, DelaysAreNat
       DEF TypeOK, OneSourceEach, Reconnecting, Unmount, RemoveReconnecting
  <2> QED BY <2>1, <2>2, <2>3, <2>4, <2>5, <1>s DEF StreamInv
<1>8. CASE UNCHANGED client
  BY <1>8 DEF StreamInv, TypeOK, OneSourceEach, ReconnectingIsShown, Reconnecting, client
<1> QED BY <1>3, <1>4, <1>5, <1>6, <1>7, <1>8 DEF ClientNext

LEMMA StreamStays == LiveSpec => []StreamInv
<1>1. LiveInit => StreamInv
  BY StreamStarts DEF LiveInit
<1>2. StreamInv /\ [LiveNext]_liveVars => StreamInv'
  BY ClientSteps, StreamKept
<1> QED BY <1>1, <1>2, PTL DEF LiveSpec

(* Whatever breaks, opens, retries, leaves and comes back, the page has one    *)
(* connection or one timer for its stream, and none once it is left, and the   *)
(* banner is there for as long as it tries to reconnect.                       *)
THEOREM StreamsAreHeld == LiveSpec => []StreamsHold
BY StreamStays, PTL DEF StreamInv, StreamsHold
-----------------------------------------------------------------------------
(* The greatest element of a finite set of numbers, and the list of the GET    *)
Above(S, x) == {y \in S : y > x}
From(S, x) == {y \in S : y >= x}

(* A finite set of numbers that is not empty has a greatest element.           *)
LEMMA HighestIsMember ==
  ASSUME NEW S \in SUBSET Nat, IsFiniteSet(S), S # {}
  PROVE  Highest(S) \in S /\ \A y \in S : y <= Highest(S)
<1> DEFINE Size(x) == Cardinality(Above(S, x))
           Sizes == {Size(x) : x \in S}
<1>1. \A x \in S : IsFiniteSet(Above(S, x)) /\ Size(x) \in Nat
  BY FS_Subset, FS_CardinalityType DEF Above
<1>2. PICK n \in Sizes : \A m \in Sizes : <<m, n>> \notin OpToRel(<, Nat)
  <2>1. Sizes \in SUBSET Nat /\ Sizes # {}
    BY <1>1
  <2> HIDE DEF Sizes
  <2> QED BY <2>1, NatLessThanWellFounded, WFMin
<1>3. PICK x \in S : n = Size(x)
  BY <1>2
<1>4. ASSUME NEW y \in S, y > x PROVE FALSE
  <2>1. y \in Above(S, x) /\ Above(S, y) \subseteq Above(S, x) \ {y}
    BY <1>3, <1>4 DEF Above
  <2>2. /\ IsFiniteSet(Above(S, x) \ {y})
        /\ Cardinality(Above(S, x) \ {y}) = Size(x) - 1
    BY <1>1, <1>3, <2>1, FS_RemoveElement
  <2>3. Size(y) <= Size(x) - 1
    BY <2>1, <2>2, FS_Subset
  <2>4. Size(y) \in Nat /\ Size(x) \in Nat /\ Size(y) \in Sizes
    BY <1>1, <1>3
  <2>5. Size(y) < n
    BY <1>3, <2>3, <2>4
  <2> HIDE DEF Size, Sizes
  <2> QED BY <1>2, <1>3, <2>4, <2>5 DEF OpToRel
<1>5. \A y \in S : y <= x
  BY <1>3, <1>4
<1> QED BY <1>3, <1>5 DEF Highest

(* The answer of the GET lists bids that there are.                            *)
LEMMA DescendingLists ==
  ASSUME NEW S \in SUBSET Nat, IsFiniteSet(S)
  PROVE  Descending(S) \in Seq(S)
<1> DEFINE n == Cardinality(S)
           Rank(x) == Cardinality(From(S, x))
           f == [x \in S |-> Rank(x)]
<1>1. n \in Nat /\ IsFiniteSet(1 .. n) /\ Cardinality(1 .. n) = n
  BY FS_CardinalityType, FS_Interval
<1>2. ASSUME NEW x \in S
      PROVE  IsFiniteSet(From(S, x)) /\ Rank(x) \in 1 .. n
  <2>1. From(S, x) \subseteq S /\ x \in From(S, x)
    BY DEF From
  <2>2. IsFiniteSet(From(S, x)) /\ Rank(x) <= n /\ Rank(x) \in Nat
    BY <2>1, FS_Subset, FS_CardinalityType
  <2>3. Rank(x) # 0
    BY <2>1, <2>2, FS_EmptySet
  <2> QED BY <1>1, <2>2, <2>3
<1>3. ASSUME NEW x \in S, NEW y \in S, x < y PROVE Rank(y) < Rank(x)
  <2>0. x \in Nat /\ y \in Nat /\ \A z \in S : z \in Nat
    OBVIOUS
  <2>a. x >= x /\ \A z \in S : z >= y => z >= x /\ z # x
    BY <1>3, <2>0
  <2>1. x \in From(S, x) /\ From(S, y) \subseteq From(S, x) \ {x}
    BY <2>a DEF From
  <2>2. /\ IsFiniteSet(From(S, x) \ {x})
        /\ Cardinality(From(S, x) \ {x}) = Rank(x) - 1
    BY <1>2, <2>1, FS_RemoveElement
  <2>3. Rank(y) <= Rank(x) - 1
    BY <2>1, <2>2, FS_Subset
  <2>4. Rank(x) \in Int /\ Rank(y) \in Int
    BY <1>2
  <2> QED BY <2>3, <2>4
<1>4. f \in [S -> 1 .. n]
  BY <1>2
<1>5. \A x, y \in S : f[x] = f[y] => x = y
  <2> SUFFICES ASSUME NEW x \in S, NEW y \in S, x # y PROVE Rank(x) # Rank(y)
    OBVIOUS
  <2>1. x < y \/ y < x
    OBVIOUS
  <2>2. Rank(x) \in Int /\ Rank(y) \in Int
    BY <1>2
  <2> HIDE DEF Rank
  <2> QED BY <1>3, <2>1, <2>2
<1>6. \A i \in 1 .. n : \E x \in S : f[x] = i
  <2>1. f \in Injection(S, 1 .. n)
    BY <1>4, <1>5 DEF Injection, IsInjective
  <2>2. f \in Surjection(S, 1 .. n)
    BY <1>1, <2>1, FS_Injection
  <2> QED BY <2>2 DEF Surjection
<1>7. \A i \in 1 .. n : (CHOOSE x \in S : Rank(x) = i) \in S
  BY <1>6
<1>8. Descending(S) \in [1 .. n -> S]
  BY <1>7 DEF Descending, From
<1>9. Seq(S) = UNION {[1 .. k -> S] : k \in Nat}
  BY SeqDef
<1> HIDE DEF f, Rank
<1> QED BY <1>1, <1>8, <1>9

-----------------------------------------------------------------------------
(* Prices.  Sent are the messages of the prices the auction had so far.  What  *)
(* is cached or sent is of one of those; what is shown, and what an own bid    *)
(* under way goes back to, is one of them, an own bid under way, or stray.     *)
Sent == {NewBid(p) : p \in bids} \cup {AuctionClosed(p) : p \in {final} \ {None}}

BackendTrue ==
  /\ bids \subseteq Amounts /\ IsFiniteSet(bids) /\ final \in Nat \cup {None}
  /\ \A b \in bids : b <= BuyNowPrice
MessagesTrue == outbox \subseteq Sent /\ bus \in [Instances -> Seq(Sent)]
Reading == {None} \cup [price : Had, final : Nat \cup {None}]
QueryTrue ==
  /\ data = NoData \/ (data.price \in Had /\ data.bids \subseteq bids)
  /\ fetch \in [on : BOOLEAN, auction : Reading, bids : {None} \cup SUBSET bids]
Explained == Had \cup Pending \cup stray
OwnRow == [click : Clicks, amount : Amounts, before : Nat, done : BOOLEAN]
OwnTrue ==
  /\ own \subseteq OwnRow
  /\ \A o \in own : o.before \in Explained \ {o.amount} /\ (o.done => o.amount \in bids)
ViewTrue ==
  /\ shown \in [price : Nat, history : Seq(bids)]
  /\ shown.price \in Explained
  /\ stray \subseteq Amounts
PricesInv == BackendTrue /\ MessagesTrue /\ QueryTrue /\ OwnTrue /\ ViewTrue
(* What a step does to the backend, to the messages, and to the rest.          *)
Grows ==
  /\ BackendTrue' /\ bids \subseteq bids'
  /\ Had \subseteq Had' /\ Sent \subseteq Sent'
  /\ outbox' \subseteq outbox \cup Sent'
  /\ bus' = [i \in Instances |-> bus'[i]]
  /\ \A i \in Instances :
       bus'[i] = bus[i] \/ (bus[i] # <<>> /\ bus'[i] = Tail(bus[i]))
       \/ \E m \in outbox : bus'[i] = Append(bus[i], m)

LEMMA PriceIsHad == ASSUME BackendTrue PROVE Price \in Had /\ Had \subseteq Nat
<1>1. Had \subseteq Nat
  <2>1. bids \subseteq Nat /\ {final} \ {None} \subseteq Nat /\ 0 \in Nat
    BY PricesAreNat DEF BackendTrue
  <2> QED BY <2>1 DEF Had
<1>2. CASE final = None
  <2>1. {0} \cup bids \in SUBSET Nat /\ {0} \cup bids # {}
    BY PricesAreNat DEF BackendTrue
  <2>2. IsFiniteSet({0} \cup bids)
    BY FS_AddElement DEF BackendTrue
  <2> QED BY <1>1, <1>2, <2>1, <2>2, HighestIsMember DEF Price, Had
<1>3. CASE final # None
  BY <1>1, <1>3 DEF Price, Had
<1> QED BY <1>2, <1>3

LEMMA SameBackend == ASSUME BackendTrue, UNCHANGED server PROVE
  /\ BackendTrue' /\ bids \subseteq bids' /\ Had \subseteq Had' /\ Sent \subseteq Sent'
  /\ outbox' \subseteq outbox \cup Sent'
BY DEF server, BackendTrue, Had, Sent

LEMMA CommitGrows == ASSUME BackendTrue, NEW p \in Amounts, Commit(p) PROVE
  /\ BackendTrue' /\ bids \subseteq bids' /\ Had \subseteq Had' /\ Sent \subseteq Sent'
  /\ outbox' \subseteq outbox \cup Sent'
<1>1. bids' = bids \cup {p} /\ final' = final /\ outbox' = outbox \cup {NewBid(p)}
  BY DEF Commit
<1>2. BackendTrue'
  BY <1>1, FS_AddElement DEF BackendTrue, Commit
<1>3. Had \subseteq Had' /\ Sent \subseteq Sent' /\ NewBid(p) \in Sent'
  BY <1>1 DEF Had, Sent
<1> QED BY <1>1, <1>2, <1>3

LEMMA CloseGrows ==
  ASSUME BackendTrue, NEW p \in {Price, BuyNowPrice}, Closes(p) PROVE
  /\ BackendTrue' /\ bids \subseteq bids' /\ Had \subseteq Had' /\ Sent \subseteq Sent'
  /\ outbox' \subseteq outbox \cup Sent'
<1>1. /\ bids' = bids /\ final = None /\ final' = p
      /\ outbox' = outbox \cup {AuctionClosed(p)}
  BY DEF Closes
<1>2. p \in Nat /\ p # None
  BY PriceIsHad, PricesAreNat, NoneIsNoDelay
<1>3. BackendTrue'
  BY <1>1, <1>2 DEF BackendTrue
<1>4. Had \subseteq Had' /\ Sent \subseteq Sent' /\ AuctionClosed(p) \in Sent'
  BY <1>1, <1>2 DEF Had, Sent
<1> QED BY <1>1, <1>3, <1>4

LEMMA BusMoves ==
  ASSUME bus = [i \in Instances |-> bus[i]], [LiveNext]_liveVars PROVE
  /\ bus' = [i \in Instances |-> bus'[i]]
  /\ \A i \in Instances :
       bus'[i] = bus[i] \/ (bus[i] # <<>> /\ bus'[i] = Tail(bus[i]))
       \/ \E m \in outbox : bus'[i] = Append(bus[i], m)
<1>1. CASE UNCHANGED bus
  BY <1>1
<1>2. CASE \E m \in outbox : Publish(m)
  BY <1>2 DEF Publish
<1>3. CASE \E i \in Instances : Receive(i)
  BY <1>3 DEF Receive
<1>4. UNCHANGED bus \/ (\E m \in outbox : Publish(m)) \/ (\E i \in Instances : Receive(i))
  <2> USE DEF fanout
  <2>1. CASE ServerStep
    BY <2>1 DEF ServerStep, OtherBids, Closes, Publishes
  <2>2. CASE StreamStep
    BY <2>2 DEF StreamStep, ConnectionBreaks, Reconnects, Connects, OtherSubscribes, Departs,
                NewBidArrives, AuctionClosedArrives, Unheard, Subscribe, Unsubscribe
  <2>3. CASE PageStep
    BY <2>3 DEF PageStep, PageOpens, Leaves, CountdownEnds, CacheExpires, Bids, OwnCommits,
                OwnSucceeds, OwnFails, FetchReads, FetchAnswers, FetchFails
  <2>4. CASE UNCHANGED liveVars
    BY <2>4 DEF liveVars
  <2> QED BY <2>1, <2>2, <2>3, <2>4 DEF LiveNext
<1> QED BY <1>1, <1>2, <1>3, <1>4
LEMMA BackendGrows == ASSUME PricesInv, [LiveNext]_liveVars PROVE Grows
<1> USE DEF PricesInv
<1> SUFFICES /\ BackendTrue' /\ bids \subseteq bids'
             /\ Had \subseteq Had' /\ Sent \subseteq Sent'
             /\ outbox' \subseteq outbox \cup Sent'
  BY BusMoves DEF Grows, MessagesTrue
<1>1. CASE ServerStep
  <2>1. CASE \E p \in Amounts : OtherBids(p)
    BY <2>1, CommitGrows DEF OtherBids
  <2>2. CASE \E p \in {Price, BuyNowPrice} : Closes(p)
    BY <2>2, CloseGrows
  <2>3. CASE \E m \in outbox : Publishes(m)
    <3>1. UNCHANGED <<bids, final>> /\ outbox' \subseteq outbox
      BY <2>3 DEF Publishes
    <3> QED BY <3>1 DEF BackendTrue, Had, Sent
  <2> QED BY <1>1, <2>1, <2>2, <2>3 DEF ServerStep
<1>2. CASE StreamStep
  <2>1. UNCHANGED server
    BY <1>2 DEF StreamStep, ConnectionBreaks, Reconnects, Connects, OtherSubscribes,
                Departs, NewBidArrives, AuctionClosedArrives, Unheard
  <2> QED BY <2>1, SameBackend
<1>3. CASE PageStep
  <2>1. CASE \E o \in own : OwnCommits(o)
    <3>1. PICK o \in own : OwnCommits(o)
      BY <2>1
    <3>2. o.amount \in Amounts
      BY DEF OwnTrue, OwnRow
    <3> QED BY <3>1, <3>2, CommitGrows DEF OwnCommits
  <2>2. CASE ~ \E o \in own : OwnCommits(o)
    <3>1. UNCHANGED server
      BY <1>3, <2>2 DEF PageStep, PageOpens, Leaves, CountdownEnds, CacheExpires, Bids,
                        OwnSucceeds, OwnFails, FetchReads, FetchAnswers, FetchFails
    <3> QED BY <3>1, SameBackend
  <2> QED BY <2>1, <2>2
<1>4. CASE UNCHANGED liveVars
  BY <1>4, SameBackend DEF liveVars
<1> QED BY <1>1, <1>2, <1>3, <1>4 DEF LiveNext

LEMMA MessagesStay == ASSUME MessagesTrue, Grows PROVE MessagesTrue'
<1>1. outbox' \subseteq Sent' /\ outbox \subseteq Sent'
  BY DEF MessagesTrue, Grows
<1>2. ASSUME NEW i \in Instances PROVE bus'[i] \in Seq(Sent')
  <2>1. bus[i] \in Seq(Sent')
    <3>1. bus[i] \in Seq(Sent) /\ Sent \subseteq Sent'
      BY DEF MessagesTrue, Grows
    <3> HIDE DEF Sent
    <3> QED BY <3>1, SeqMonotonic
  <2>2. CASE bus'[i] = bus[i]
    BY <2>1, <2>2
  <2>3. CASE bus[i] # <<>> /\ bus'[i] = Tail(bus[i])
    BY <2>1, <2>3, HeadTailProperties
  <2>4. ASSUME NEW m \in outbox, bus'[i] = Append(bus[i], m) PROVE bus'[i] \in Seq(Sent')
    BY <1>1, <2>1, <2>4, AppendProperties
  <2> QED BY <2>2, <2>3, <2>4 DEF Grows
<1>3. bus' \in [Instances -> Seq(Sent')]
  BY <1>2 DEF Grows
<1> QED BY <1>1, <1>3 DEF MessagesTrue
(* What a step does to the cached answer and to the fetch.                     *)
LEMMA QuerySteps ==
  ASSUME [LiveNext]_liveVars
  PROVE  \/ data' \in {data, NoData} /\ fetch' \in {fetch, NoFetch, Fetching}
         \/ FetchReads
         \/ FetchAnswers
<1>1. CASE ServerStep
  BY <1>1 DEF ServerStep, OtherBids, Closes, Publishes, query
<1>2. CASE StreamStep
  BY <1>2 DEF StreamStep, ConnectionBreaks, Reconnects, Connects, OtherSubscribes, Departs,
              NewBidArrives, AuctionClosedArrives, Unheard, query
<1>3. CASE PageStep
  BY <1>3 DEF PageStep, PageOpens, Leaves, CountdownEnds, CacheExpires, Bids, OwnCommits,
              OwnSucceeds, OwnFails, FetchFails, query
<1>4. CASE UNCHANGED liveVars
  BY <1>4 DEF liveVars, query
<1> QED BY <1>1, <1>2, <1>3, <1>4 DEF LiveNext

LEMMA QueryStays == ASSUME PricesInv, Grows, [LiveNext]_liveVars PROVE QueryTrue'
<1> DEFINE Rows == [on : BOOLEAN, auction : Reading', bids : {None} \cup SUBSET bids']
<1>1. QueryTrue /\ BackendTrue /\ BackendTrue' /\ bids \subseteq bids' /\ Had \subseteq Had'
  BY DEF PricesInv, Grows
<1>2. Reading \subseteq Reading'
  BY <1>1 DEF Reading
<1>3. fetch \in Rows
  BY <1>1, <1>2 DEF QueryTrue
<1>4. data = NoData \/ (data.price \in Had' /\ data.bids \subseteq bids')
  BY <1>1 DEF QueryTrue
<1>5. NoFetch \in Rows /\ Fetching \in Rows
  BY DEF NoFetch, Fetching, Reading
<1>6. CASE FetchReads
  <2>1. Price \in Had'
    BY <1>1, PriceIsHad
  <2>2. final \in Nat \cup {None}
    BY <1>1 DEF BackendTrue
  <2>3. [price |-> Price, final |-> final] \in Reading' /\ bids \in SUBSET bids'
    BY <1>1, <2>1, <2>2 DEF Reading
  <2>4. fetch' \in Rows /\ data' = data
    <3> HIDE DEF Rows
    <3>1. CASE fetch' = [fetch EXCEPT !.auction = [price |-> Price, final |-> final]]
      BY <1>3, <2>3, <1>6, <3>1 DEF FetchReads, Rows
    <3>2. CASE fetch' = [fetch EXCEPT !.bids = bids]
      BY <1>3, <2>3, <1>6, <3>2 DEF FetchReads, Rows
    <3> QED BY <1>6, <3>1, <3>2 DEF FetchReads
  <2> QED BY <1>4, <2>4 DEF QueryTrue
<1>7. CASE FetchAnswers
  <2>1. fetch.auction \in Reading /\ fetch.auction # None /\ fetch.bids # None
    BY <1>1, <1>7 DEF FetchAnswers, QueryTrue
  <2>2. fetch.auction.price \in Had' /\ fetch.bids \subseteq bids'
    BY <1>1, <1>3, <2>1 DEF Reading
  <2> QED BY <1>5, <1>7, <2>2 DEF FetchAnswers, Answer, QueryTrue
<1>8. CASE data' \in {data, NoData} /\ fetch' \in {fetch, NoFetch, Fetching}
  BY <1>3, <1>4, <1>5, <1>8 DEF QueryTrue
<1> QED BY <1>6, <1>7, <1>8, QuerySteps

(* The page: what it shows and its own bids.                                   *)
LEMMA ShowsAnswer ==
  ASSUME BackendTrue, NEW answer, answer.price \in Had, answer.bids \subseteq bids,
         Show(answer)
  PROVE  /\ shown' = [price |-> shown'.price, history |-> shown'.history]
         /\ shown'.price \in Had /\ shown'.history \in Seq(bids)
<1>1. bids \subseteq Nat /\ answer.bids \in SUBSET Nat /\ IsFiniteSet(answer.bids)
  BY PricesAreNat, FS_Subset DEF BackendTrue
<1>2. Descending(answer.bids) \in Seq(bids)
  BY <1>1, DescendingLists, SeqMonotonic
<1> QED BY <1>2 DEF Show

LEMMA HistoryKept ==
  ASSUME NEW S, NEW s \in Seq(S), NEW x \in S
  PROVE  Keep(<<x>> \o s) \in Seq(S)
<1>1. <<x>> \o s \in Seq(S)
  BY ConcatProperties
<1>2. ASSUME NEW t \in Seq(S) PROVE Keep(t) \in Seq(S)
  <2>1. ASSUME Len(t) > HistoryLimit PROVE SubSeq(t, 1, HistoryLimit) \in Seq(S)
    <3>1. \A k \in 1 .. HistoryLimit : k \in 1 .. Len(t)
      BY <2>1, LenProperties, PricesAreNat
    <3> QED BY <2>1, <3>1, LenProperties, PricesAreNat, SubSeqProperties
  <2> QED BY <2>1 DEF Keep
<1> QED BY <1>1, <1>2
LEMMA ExplainedIsNat == ASSUME PricesInv PROVE Explained \subseteq Nat
<1>1. Had \subseteq Nat /\ stray \subseteq Nat
  BY PriceIsHad, PricesAreNat DEF PricesInv, ViewTrue
<1>2. Pending \subseteq Nat
  BY PricesAreNat DEF PricesInv, OwnTrue, OwnRow, Pending
<1> QED BY <1>1, <1>2 DEF Explained

(* A step that leaves the bids of the page alone and shows what the auction    *)
(* had, or that leaves the page alone.                                         *)
LEMMA ShownHad ==
  ASSUME PricesInv, Grows, own' = own, stray' = stray,
         shown' = [price |-> shown'.price, history |-> shown'.history],
         shown'.price \in Had' \/ shown'.price = shown.price,
         shown'.history \in Seq(bids')
  PROVE  OwnTrue' /\ ViewTrue'
<1>1. Had \subseteq Had' /\ bids \subseteq bids' /\ Pending' = Pending
  BY DEF Grows, Pending
<1>2. Explained \subseteq Explained'
  BY <1>1 DEF Explained
<1>3. OwnTrue'
  BY <1>1, <1>2 DEF PricesInv, OwnTrue, OwnRow
<1>4. shown'.price \in Explained' /\ stray' \subseteq Amounts
  BY <1>2 DEF PricesInv, ViewTrue, Explained
<1>5. shown'.price \in Nat
  <2>1. Had' \subseteq Nat
    BY PricesAreNat DEF Grows, BackendTrue, Had
  <2> QED BY <2>1 DEF PricesInv, ViewTrue
<1> QED BY <1>3, <1>4, <1>5 DEF ViewTrue

LEMMA SameView ==
  ASSUME PricesInv, Grows, shown' = shown, own' = own, stray' = stray
  PROVE  OwnTrue' /\ ViewTrue'
<1>1. shown.history \in Seq(bids')
  BY SeqMonotonic DEF PricesInv, ViewTrue, Grows
<1>2. shown = [price |-> shown.price, history |-> shown.history]
  BY DEF PricesInv, ViewTrue
<1> QED BY <1>1, <1>2, ShownHad

LEMMA VanishTrue ==
  ASSUME PricesInv, Grows, Vanishes
  PROVE  OwnTrue' /\ ViewTrue'
<1>1. shown' = [price |-> 0, history |-> <<>>] /\ own' = {} /\ stray' = {}
  BY DEF Vanishes, Blank
<1>2. 0 \in Had' /\ <<>> \in Seq(bids')
  BY DEF Had
<1> QED BY <1>1, <1>2 DEF OwnTrue, ViewTrue, Explained

LEMMA AnswerTrue ==
  ASSUME PricesInv, Grows, UNCHANGED server, own' = own, stray' = stray,
         NEW answer, answer.price \in Had, answer.bids \subseteq bids, Show(answer)
  PROVE  OwnTrue' /\ ViewTrue'
<1>1. /\ shown' = [price |-> shown'.price, history |-> shown'.history]
      /\ shown'.price \in Had /\ shown'.history \in Seq(bids)
  BY ShowsAnswer DEF PricesInv
<1>2. Had' = Had /\ bids' = bids
  BY DEF server, Had
<1> QED BY <1>1, <1>2, ShownHad

LEMMA EventTrue ==
  ASSUME PricesInv, Grows, NEW i \in Instances,
         NewBidArrives(i) \/ AuctionClosedArrives(i)
  PROVE  OwnTrue' /\ ViewTrue'
<1> DEFINE m == Head(bus[i])
<1>1. own' = own /\ stray' = stray /\ bus[i] # <<>> /\ bids' = bids /\ Had' = Had
  BY DEF NewBidArrives, AuctionClosedArrives, Receive, server, user, Had
<1>2. m \in Sent
  BY <1>1, HeadTailProperties DEF PricesInv, MessagesTrue
<1>3. /\ m.type = "newBid" => m.amount \in bids
      /\ m.type = "auctionClosed" => m.amount \in Had
  BY <1>2 DEF Sent, NewBid, AuctionClosed, Had
<1>4. shown.history \in Seq(bids) /\ shown = [price |-> shown.price, history |-> shown.history]
  BY DEF PricesInv, ViewTrue
<1> HIDE DEF m
<1>5. CASE NewBidArrives(i)
  <2>1. /\ m.amount \in bids
        /\ shown' = [price |-> m.amount, history |-> Keep(<<m.amount>> \o shown.history)]
    BY <1>3, <1>5 DEF NewBidArrives, m
  <2>2. Keep(<<m.amount>> \o shown.history) \in Seq(bids')
    BY <1>1, <1>4, <2>1, HistoryKept
  <2>3. m.amount \in Had'
    BY <1>1, <2>1 DEF Had
  <2>4. shown'.price = m.amount /\ shown'.history = Keep(<<m.amount>> \o shown.history)
    BY <2>1
  <2> QED BY <1>1, <2>1, <2>2, <2>3, <2>4, ShownHad
<1>6. CASE AuctionClosedArrives(i)
  <2>1. m.amount \in Had /\ shown' = [shown EXCEPT !.price = m.amount]
    BY <1>3, <1>6 DEF AuctionClosedArrives, m
  <2>2. shown' = [price |-> m.amount, history |-> shown.history]
    BY <1>4, <2>1
  <2> QED BY <1>1, <1>4, <2>1, <2>2, ShownHad
<1> QED BY <1>5, <1>6

(* What the page displays is one of the numbers it keeps, and the highest.     *)
LEMMA DisplayIsKept ==
  ASSUME PricesInv
  PROVE  /\ Display \in Nat /\ Display \in {shown.price} \cup InHistory
         /\ InHistory \subseteq bids
         /\ \A p \in {shown.price} \cup InHistory : p <= Display
<1> DEFINE S == {shown.price} \cup InHistory
<1>1. IsFiniteSet(InHistory) /\ InHistory \subseteq bids
  <2>1. shown.history \in Seq(bids)
    BY DEF PricesInv, ViewTrue
  <2>2. \A i \in DOMAIN shown.history : shown.history[i] \in bids
    BY <2>1, ElementOfSeq, LenProperties
  <2> QED BY <2>2, FS_Subset DEF InHistory, PricesInv, BackendTrue
<1>2. shown.price \in Nat
  BY DEF PricesInv, ViewTrue
<1>3. S \in SUBSET Nat /\ S # {} /\ IsFiniteSet(S)
  <2>1. S = InHistory \cup {shown.price}
    OBVIOUS
  <2>2. IsFiniteSet(S)
    BY <1>1, <2>1, FS_AddElement
  <2>3. bids \subseteq Nat
    BY PricesAreNat DEF PricesInv, BackendTrue
  <2>4. S \subseteq Nat
    BY <1>1, <1>2, <2>3
  <2> QED BY <2>2, <2>4
<1>4. Highest(S) \in S /\ \A p \in S : p <= Highest(S)
  BY <1>3, HighestIsMember
<1> QED BY <1>1, <1>3, <1>4 DEF Display

LEMMA OwnBidTrue ==
  ASSUME PricesInv, Grows, NEW p \in Amounts, Bids(p)
  PROVE  OwnTrue' /\ ViewTrue'
<1>1. /\ shown.price \in Explained /\ shown.price \in Nat /\ shown.history \in Seq(bids)
      /\ bids' = bids /\ Had' = Had /\ stray' = stray
      /\ shown = [price |-> shown.price, history |-> shown.history]
  BY DEF PricesInv, ViewTrue, Bids, server, Had
<1>2. PICK k \in Clicks :
        own' = own \cup {[click |-> k, amount |-> p, before |-> shown.price, done |-> FALSE]}
  BY DEF Bids
<1> DEFINE o == [click |-> k, amount |-> p, before |-> shown.price, done |-> FALSE]
<1>3. p \in Nat /\ p # shown.price
  <2>1. shown.price <= Display /\ Display \in Nat /\ p > Display /\ p \in Nat
    BY DisplayIsKept, PricesAreNat DEF Bids
  <2> QED BY <1>1, <2>1
<1>4. own' = own \cup {o} /\ o \in OwnRow /\ o.amount = p /\ o.before = shown.price /\ ~o.done
  BY <1>1, <1>2 DEF OwnRow
<1>5. shown' = [price |-> p, history |-> shown.history]
  BY <1>1 DEF Bids
<1> HIDE DEF o
<1>6. Pending \subseteq Pending' /\ p \in Pending'
  BY <1>4 DEF Pending
<1>7. Explained \subseteq Explained' /\ p \in Explained'
  BY <1>1, <1>6 DEF Explained
<1>8. OwnTrue'
  BY <1>1, <1>3, <1>4, <1>7 DEF PricesInv, OwnTrue, OwnRow
<1>9. ViewTrue'
  BY <1>1, <1>3, <1>5, <1>7 DEF PricesInv, ViewTrue
<1> QED BY <1>8, <1>9

(* What a refused bid was to the others and to the page stays explained.       *)
LEMMA OwnRefused ==
  ASSUME PricesInv, Grows, NEW o \in own, OwnFails(o)
  PROVE  OwnTrue' /\ ViewTrue'
<1>1. /\ own' = own \ {o} /\ shown' = RollBack(o) /\ stray' = stray \cup LeftTo(o)
      /\ bids' = bids /\ Had' = Had
  BY DEF OwnFails, server, Had
<1>2. /\ own \subseteq OwnRow /\ shown.price \in Explained /\ shown.price \in Nat
      /\ shown.history \in Seq(bids) /\ stray \subseteq Amounts
      /\ shown = [price |-> shown.price, history |-> shown.history]
  BY DEF PricesInv, ViewTrue, OwnTrue
<1>3. Pending \subseteq Pending' \cup {o.amount}
  BY <1>1 DEF Pending
<1>4. Explained \subseteq Explained' \cup {o.amount}
  BY <1>1, <1>3 DEF Explained
<1>5. \A d \in own' : d.before \in Explained'
  <2> SUFFICES ASSUME NEW d \in own \ {o} PROVE d.before \in Explained'
    BY <1>1
  <2>1. d.before \in Explained' \cup {o.amount}
    BY <1>4 DEF PricesInv, OwnTrue
  <2>2. d.before = o.amount => d.before \in stray'
    BY <1>1 DEF LeftTo
  <2> QED BY <2>1, <2>2 DEF Explained
<1>6. OwnTrue'
  BY <1>1, <1>2, <1>5 DEF PricesInv, OwnTrue, OwnRow
<1>7. o \in OwnRow /\ o.before \in Explained' /\ o.before \in Nat
  BY <1>2, <1>4 DEF PricesInv, OwnTrue, OwnRow
<1>8. /\ shown' = [price |-> shown'.price, history |-> shown.history]
      /\ shown'.price \in Nat /\ shown'.price \in Explained'
  <2>1. CASE shown.price = o.amount
    <3>1. shown' = [price |-> o.before, history |-> shown.history]
      BY <1>1, <1>2, <2>1 DEF RollBack
    <3> QED BY <1>7, <3>1
  <2>2. CASE shown.price # o.amount
    <3>1. shown' = shown /\ shown.price \in Explained'
      BY <1>1, <1>2, <1>4, <2>2 DEF RollBack
    <3> QED BY <1>2, <3>1
  <2> QED BY <2>1, <2>2
<1>9. stray' \subseteq Amounts
  BY <1>1, <1>2 DEF LeftTo, OwnRow
<1>10. ViewTrue'
  BY <1>1, <1>2, <1>8, <1>9 DEF ViewTrue
<1> QED BY <1>6, <1>10

LEMMA OwnAnswered ==
  ASSUME PricesInv, Grows, NEW o \in own, OwnCommits(o) \/ OwnSucceeds(o)
  PROVE  OwnTrue' /\ ViewTrue'
<1>1. o \in OwnRow /\ (o.done => o.amount \in bids)
  BY DEF PricesInv, OwnTrue
<1>2. /\ own \subseteq OwnRow /\ shown.price \in Explained /\ shown.price \in Nat
      /\ shown.history \in Seq(bids) /\ stray \subseteq Amounts
      /\ shown = [price |-> shown.price, history |-> shown.history]
  BY DEF PricesInv, ViewTrue, OwnTrue
<1>3. Had \subseteq Had' /\ bids \subseteq bids' /\ shown.history \in Seq(bids')
  BY <1>2, SeqMonotonic DEF Grows
<1>4. CASE OwnCommits(o)
  <2> DEFINE d == [o EXCEPT !.done = TRUE]
  <2>1. own' = (own \ {o}) \cup {d} /\ shown' = shown /\ stray' = stray /\ o.amount \in bids'
    BY <1>4 DEF OwnCommits, Commit, view
  <2>2. d \in OwnRow /\ d.amount = o.amount /\ d.before = o.before
    BY <1>1 DEF OwnRow
  <2> HIDE DEF d
  <2>3. Pending \subseteq Pending'
    BY <2>1, <2>2 DEF Pending
  <2>4. Explained \subseteq Explained'
    BY <1>3, <2>1, <2>3 DEF Explained
  <2>5. OwnTrue'
    BY <1>1, <1>2, <1>3, <2>1, <2>2, <2>4 DEF PricesInv, OwnTrue, OwnRow
  <2>6. ViewTrue'
    BY <1>2, <1>3, <2>1, <2>4 DEF ViewTrue
  <2> QED BY <2>5, <2>6
<1>5. CASE OwnSucceeds(o)
  <2>1. /\ own' = own \ {o} /\ shown' = [price |-> o.amount, history |-> shown.history]
        /\ stray' = stray
    BY <1>2, <1>5 DEF OwnSucceeds
  <2>2. o.amount \in Had' /\ o.amount \in Nat
    BY <1>1, <1>3, <1>5, PricesAreNat DEF OwnSucceeds, Had, OwnRow
  <2>3. Pending \subseteq Pending' \cup {o.amount}
    BY <2>1 DEF Pending
  <2>4. Explained \subseteq Explained' /\ o.amount \in Explained'
    BY <1>3, <2>1, <2>2, <2>3 DEF Explained
  <2>5. OwnTrue'
    BY <1>2, <1>3, <2>1, <2>4 DEF PricesInv, OwnTrue, OwnRow
  <2>6. ViewTrue'
    BY <1>2, <1>3, <2>1, <2>2, <2>4 DEF ViewTrue
  <2> QED BY <2>5, <2>6
<1> QED BY <1>4, <1>5
LEMMA ViewStays ==
  ASSUME PricesInv, Grows, [LiveNext]_liveVars
  PROVE  OwnTrue' /\ ViewTrue'
<1>1. CASE ServerStep
  <2>1. shown' = shown /\ own' = own /\ stray' = stray
    BY <1>1 DEF ServerStep, OtherBids, Closes, Publishes, view, user
  <2> QED BY <2>1, SameView
<1>2. CASE StreamStep
  <2>1. CASE \E i \in Instances : NewBidArrives(i) \/ AuctionClosedArrives(i)
    BY <2>1, EventTrue
  <2>2. CASE ~ \E i \in Instances : NewBidArrives(i) \/ AuctionClosedArrives(i)
    <3>1. shown' = shown /\ own' = own /\ stray' = stray
      BY <1>2, <2>2 DEF StreamStep, ConnectionBreaks, Reconnects, Connects, OtherSubscribes,
                        Departs, Unheard, view, user
    <3> QED BY <3>1, SameView
  <2> QED BY <2>1, <2>2
<1>3. CASE PageStep
  <2>1. CASE PageOpens
    <3>1. CASE data = NoData
      <4>1. shown' = shown /\ own' = own /\ stray' = stray
        BY <2>1, <3>1 DEF PageOpens, view, user
      <4> QED BY <4>1, SameView
    <3>2. CASE data # NoData
      <4>1. data.price \in Had /\ data.bids \subseteq bids
        BY <3>2 DEF PricesInv, QueryTrue
      <4>2. Show(data) /\ own' = own /\ stray' = stray /\ UNCHANGED server
        BY <2>1, <3>2 DEF PageOpens, Starts
      <4> QED BY <4>1, <4>2, AnswerTrue
    <3> QED BY <3>1, <3>2
  <2>2. CASE Leaves \/ FetchFails
    BY <2>2, VanishTrue DEF Leaves, FetchFails
  <2>3. CASE FetchAnswers
    <3>1. CASE page = "AWAY" /\ UNCHANGED <<client, screen, view, user>>
      <4>1. shown' = shown /\ own' = own /\ stray' = stray
        BY <3>1 DEF view, user
      <4> QED BY <4>1, SameView
    <3>2. Answer.price \in Had /\ Answer.bids \subseteq bids
      BY <2>3 DEF FetchAnswers, Answer, PricesInv, QueryTrue, Reading
    <3>3. CASE page = "LOADING" /\ Starts(Answer)
      <4>1. Show(Answer) /\ own' = own /\ stray' = stray /\ UNCHANGED server
        BY <2>3, <3>3 DEF FetchAnswers, Starts
      <4> QED BY <3>2, <4>1, AnswerTrue
    <3>4. CASE (Show(Answer) \/ UNCHANGED shown) /\ UNCHANGED <<own, stray>>
      <4>1. UNCHANGED server
        BY <2>3 DEF FetchAnswers
      <4> QED BY <3>2, <3>4, <4>1, AnswerTrue, SameView
    <3> QED BY <2>3, <3>1, <3>3, <3>4 DEF FetchAnswers
  <2>4. CASE \E p \in Amounts : Bids(p)
    BY <2>4, OwnBidTrue
  <2>5. CASE \E o \in own : OwnCommits(o) \/ OwnSucceeds(o) \/ OwnFails(o)
    BY <2>5, OwnAnswered, OwnRefused
  <2>6. CASE CountdownEnds \/ CacheExpires \/ FetchReads
    <3>1. shown' = shown /\ own' = own /\ stray' = stray
      BY <2>6 DEF CountdownEnds, CacheExpires, FetchReads, view, user
    <3> QED BY <3>1, SameView
  <2> QED BY <1>3, <2>1, <2>2, <2>3, <2>4, <2>5, <2>6 DEF PageStep
<1>4. CASE UNCHANGED liveVars
  <2>1. shown' = shown /\ own' = own /\ stray' = stray
    BY <1>4 DEF liveVars, view, user
  <2> QED BY <2>1, SameView
<1> QED BY <1>1, <1>2, <1>3, <1>4 DEF LiveNext

LEMMA PricesHold == LiveSpec => []PricesInv
<1>1. LiveInit => PricesInv
  <2> SUFFICES ASSUME LiveInit PROVE PricesInv
    OBVIOUS
  <2>1. BackendTrue
    BY FS_EmptySet DEF LiveInit, BackendTrue
  <2>2. MessagesTrue
    BY DEF LiveInit, FanoutInit, MessagesTrue
  <2>3. QueryTrue /\ OwnTrue
    BY DEF LiveInit, QueryTrue, NoFetch, Reading, OwnTrue
  <2>4. ViewTrue
    BY DEF LiveInit, Blank, ViewTrue, Had, Explained
  <2> QED BY <2>1, <2>2, <2>3, <2>4 DEF PricesInv
<1>2. PricesInv /\ [LiveNext]_liveVars => PricesInv'
  <2> SUFFICES ASSUME PricesInv, [LiveNext]_liveVars PROVE PricesInv'
    OBVIOUS
  <2>1. Grows
    BY BackendGrows
  <2>2. BackendTrue' /\ MessagesTrue' /\ QueryTrue'
    BY <2>1, MessagesStay, QueryStays DEF PricesInv, Grows
  <2>3. OwnTrue' /\ ViewTrue'
    BY <2>1, ViewStays
  <2> QED BY <2>2, <2>3 DEF PricesInv
<1> QED BY <1>1, <1>2, PTL DEF LiveSpec

(* The page shows a price the auction had, an own bid under way, or one that   *)
(* was refused while another was to go back to it: whichever events are late,  *)
(* repeated or lost, however often it is read again, left and opened, however  *)
(* many own bids are under way at once and whatever becomes of them            *)
(* (AuctionDetailClient, useAuctionDetail, useAuctionEvents).                  *)
THEOREM ShownIsTrue == LiveSpec => []ShownIsBid
<1>1. PricesInv => ShownIsBid
  BY DisplayIsKept DEF ShownIsBid, PricesInv, ViewTrue, Explained, Had
<1> QED BY <1>1, PricesHold, PTL

-----------------------------------------------------------------------------
(* The highest bid the page heard of.  It is among the first entries of the    *)
(* history, pushed down by the late events since; the history may be cut below *)
(* it only when there were as many of them as it keeps.                        *)
Tops(s, S, n) == \E k \in DOMAIN s : k <= n /\ \A b \in S : b <= s[k]
HistoryTops ==
  /\ heard \subseteq bids /\ late \in Nat
  /\ steady /\ heard # {} /\ late < HistoryLimit => Tops(shown.history, heard, late + 1)

(* It listens only while the auction is active to it.                          *)
ListensActive ==
  /\ enabled[AuctionStream] => page = "ACTIVE"
  /\ link # "NONE" => page = "ACTIVE"

FinalTops ==
  final # None =>
    /\ \A b \in bids : b <= final
    /\ final \in {0} \cup bids \cup {BuyNowPrice}

(* Whoever read the close has read the final price with it ...                 *)
ReadsWhole(answer) == answer.final # None => answer.final = final /\ answer.price = final
ReadsFinal == ReadsWhole(data) /\ (fetch.auction # None => ReadsWhole(fetch.auction))

(* ... and a page that is closed shows it, when it is not that of a bid.       *)
ClosedShown ==
  page = "CLOSED" /\ steady =>
    final # None /\ (final \notin bids => shown.price = final)

WatchInv == HistoryTops /\ ListensActive /\ FinalTops /\ ReadsFinal /\ ClosedShown

(* The list of the GET starts with the highest.                                *)
LEMMA DescendingTops ==
  ASSUME NEW S \in SUBSET Nat, IsFiniteSet(S), S # {}
  PROVE  Tops(Descending(S), S, 1)
<1> DEFINE h == Highest(S)
<1>1. h \in S /\ \A y \in S : y <= h
  BY HighestIsMember
<1> HIDE DEF h
<1>2. From(S, h) = {h}
  <2>1. h \in Nat /\ \A y \in S : y \in Nat /\ (y >= h <=> y = h)
    BY <1>1
  <2> QED BY <1>1, <2>1 DEF From
<1>3. Cardinality(From(S, h)) = 1
  BY <1>2, FS_Singleton
<1> DEFINE x == CHOOSE z \in S : Cardinality({y \in S : y >= z}) = 1
<1>4. x \in S /\ Cardinality(From(S, x)) = 1
  <2>1. \E z \in S : Cardinality({y \in S : y >= z}) = 1
    BY <1>1, <1>3 DEF From
  <2> QED BY <2>1 DEF From
<1>5. Cardinality(S) \in Nat /\ Cardinality(S) # 0
  BY FS_EmptySet, FS_CardinalityType
<1>6. 1 \in DOMAIN Descending(S) /\ Descending(S)[1] = x
  <2>1. 1 \in 1 .. Cardinality(S)
    BY <1>5
  <2> QED BY <2>1 DEF Descending
<1> HIDE DEF x
<1>7. x = h
  <2>0. x \in Nat /\ h \in Nat /\ x <= h
    BY <1>1, <1>4
  <2>1. x \in From(S, x) /\ h \in From(S, x)
    BY <1>1, <1>4, <2>0 DEF From
  <2>2. IsFiniteSet(From(S, x)) /\ IsFiniteSet(From(S, x) \ {h})
    BY FS_Subset DEF From
  <2>3. Cardinality(From(S, x) \ {h}) = 0
    BY <1>4, <2>1, <2>2, FS_RemoveElement
  <2>4. From(S, x) \ {h} = {}
    BY <2>2, <2>3, FS_EmptySet
  <2> QED BY <2>1, <2>4
<1> QED BY <1>1, <1>7, <1>6 DEF Tops

(* An event is put in front of the entries that are kept.                      *)
LEMMA KeptEntries ==
  ASSUME NEW S, NEW s \in Seq(S), NEW x \in S
  PROVE  /\ 1 \in DOMAIN Keep(<<x>> \o s) /\ Keep(<<x>> \o s)[1] = x
         /\ \A k \in DOMAIN s : k < HistoryLimit =>
              k + 1 \in DOMAIN Keep(<<x>> \o s) /\ Keep(<<x>> \o s)[k + 1] = s[k]
<1> DEFINE t == <<x>> \o s
<1>0. HistoryLimit \in Nat \ {0} /\ DOMAIN s = 1 .. Len(s) /\ Len(s) \in Nat
  BY PricesAreNat, LenProperties
<1>1. /\ t \in Seq(S) /\ Len(t) = Len(s) + 1
      /\ t[1] = x /\ \A k \in DOMAIN s : t[k + 1] = s[k]
  <2>1. <<x>> \in Seq(S) /\ Len(<<x>>) = 1 /\ <<x>>[1] = x
    OBVIOUS
  <2>2. /\ t \in Seq(S) /\ Len(t) = 1 + Len(s)
        /\ \A i \in 1 .. 1 + Len(s) : t[i] = IF i <= 1 THEN <<x>>[i] ELSE s[i - 1]
    BY <2>1, ConcatProperties
  <2> HIDE DEF t
  <2>3. t[1] = x
    BY <1>0, <2>1, <2>2
  <2>4. ASSUME NEW k \in DOMAIN s PROVE t[k + 1] = s[k]
    <3>1. k + 1 \in 1 .. 1 + Len(s) /\ ~(k + 1 <= 1) /\ k + 1 - 1 = k
      BY <1>0
    <3>2. t[k + 1] = s[k + 1 - 1]
      BY <2>2, <3>1
    <3> QED BY <3>1, <3>2
  <2> QED BY <1>0, <2>2, <2>3, <2>4
<1> HIDE DEF t
<1>2. CASE Len(t) > HistoryLimit
  <2>1. \A i \in 1 .. HistoryLimit : t[i] \in S
    BY <1>0, <1>1, <1>2, ElementOfSeq
  <2> DEFINE u == SubSeq(t, 1, HistoryLimit)
  <2>2. /\ u \in Seq(S) /\ Len(u) = HistoryLimit
        /\ \A i \in 1 .. HistoryLimit : u[i] = t[i]
    <3>1. /\ u \in Seq(S)
          /\ Len(u) = IF 1 <= HistoryLimit THEN HistoryLimit - 1 + 1 ELSE 0
          /\ \A i \in 1 .. HistoryLimit - 1 + 1 : u[i] = t[1 + i - 1]
      BY <1>0, <2>1, SubSeqProperties
    <3> HIDE DEF u
    <3> QED BY <1>0, <3>1
  <2>3. DOMAIN u = 1 .. HistoryLimit
    BY <2>2, LenProperties
  <2>4. Keep(t) = u
    BY <1>2 DEF Keep
  <2> HIDE DEF u
  <2> QED BY <1>0, <1>1, <2>2, <2>3, <2>4 DEF t
<1>3. CASE ~(Len(t) > HistoryLimit)
  <2>1. Keep(t) = t
    BY <1>3 DEF Keep
  <2>2. DOMAIN t = 1 .. Len(s) + 1
    BY <1>1, LenProperties
  <2> QED BY <1>0, <1>1, <2>1, <2>2 DEF t
<1> QED BY <1>2, <1>3

(* What a step does to the bids and the final price.                           *)
LEMMA ServerSteps ==
  ASSUME [LiveNext]_liveVars
  PROVE  \/ UNCHANGED <<bids, final>>
         \/ final = None /\ final' = None
         \/ \E p \in {Price, BuyNowPrice} : Closes(p)
<1>1. CASE ServerStep
  BY <1>1 DEF ServerStep, OtherBids, Commit, Publishes
<1>2. CASE StreamStep
  BY <1>2 DEF StreamStep, ConnectionBreaks, Reconnects, Connects, OtherSubscribes, Departs,
              NewBidArrives, AuctionClosedArrives, Unheard, server
<1>3. CASE PageStep
  BY <1>3 DEF PageStep, PageOpens, Leaves, CountdownEnds, CacheExpires, Bids, OwnCommits,
              OwnSucceeds, OwnFails, FetchReads, FetchAnswers, FetchFails, Commit, server
<1>4. CASE UNCHANGED liveVars
  BY <1>4 DEF liveVars, server
<1> QED BY <1>1, <1>2, <1>3, <1>4 DEF LiveNext

LEMMA FinalOnce == ASSUME [LiveNext]_liveVars PROVE final' = final \/ final = None
BY ServerSteps DEF Closes

(* The final price is as high as every bid: nobody bids once it is there.      *)
LEMMA FinalStays ==
  ASSUME BackendTrue, FinalTops, [LiveNext]_liveVars
  PROVE  FinalTops'
<1>1. CASE \E p \in {Price, BuyNowPrice} : Closes(p)
  <2>1. PICK p \in {Price, BuyNowPrice} : Closes(p)
    BY <1>1
  <2>2. final = None /\ final' = p /\ bids' = bids
    BY <2>1 DEF Closes
  <2>3. CASE p = Price
    <3>1. {0} \cup bids \in SUBSET Nat /\ {0} \cup bids # {} /\ IsFiniteSet({0} \cup bids)
      BY PricesAreNat, FS_AddElement DEF BackendTrue
    <3>2. Price \in {0} \cup bids /\ \A b \in {0} \cup bids : b <= Price
      BY <2>2, <3>1, HighestIsMember DEF Price
    <3> QED BY <2>2, <2>3, <3>2 DEF FinalTops
  <2>4. CASE p = BuyNowPrice
    BY <2>2, <2>4 DEF FinalTops, BackendTrue
  <2> QED BY <2>1, <2>3, <2>4
<1> QED BY <1>1, ServerSteps DEF FinalTops

LEMMA ReadsStay ==
  ASSUME ReadsFinal, QueryTrue, [LiveNext]_liveVars
  PROVE  ReadsFinal'
<1>1. ASSUME NEW answer, ReadsWhole(answer)
      PROVE  answer.final # None => answer.final = final' /\ answer.price = final'
  BY <1>1, FinalOnce DEF ReadsWhole
<1>2. /\ data.final # None => data.final = final' /\ data.price = final'
      /\ fetch.auction # None /\ fetch.auction.final # None =>
           fetch.auction.final = final' /\ fetch.auction.price = final'
  BY <1>1 DEF ReadsFinal
<1>3. NoData.final = None /\ NoFetch.auction = None /\ Fetching.auction = None
  BY DEF NoData, NoFetch, Fetching
<1>4. CASE data' \in {data, NoData} /\ fetch' \in {fetch, NoFetch, Fetching}
  BY <1>2, <1>3, <1>4 DEF ReadsFinal, ReadsWhole
<1>5. CASE FetchAnswers
  <2>1. /\ data'.final = fetch.auction.final /\ data'.price = fetch.auction.price
        /\ fetch.auction # None /\ fetch' = NoFetch
    BY <1>5 DEF FetchAnswers, Answer
  <2> QED BY <1>2, <1>3, <2>1 DEF ReadsFinal, ReadsWhole
<1>6. CASE FetchReads
  <2>1. data' = data /\ final' = final
    BY <1>6 DEF FetchReads, server
  <2>2. fetch'.auction \in {fetch.auction, [price |-> Price, final |-> final]}
    <3>1. CASE fetch' = [fetch EXCEPT !.auction = [price |-> Price, final |-> final]]
      BY <3>1 DEF QueryTrue
    <3>2. CASE fetch' = [fetch EXCEPT !.bids = bids]
      BY <3>2 DEF QueryTrue
    <3> QED BY <1>6, <3>1, <3>2 DEF FetchReads
  <2>3. ReadsWhole([price |-> Price, final |-> final])
    BY DEF ReadsWhole, Price
  <2> QED BY <1>2, <2>1, <2>2, <2>3 DEF ReadsFinal, ReadsWhole
<1> QED BY <1>4, <1>5, <1>6, QuerySteps

LEMMA TurnsListen ==
  ASSUME StreamInv, ListensActive, NEW to, Turns(to)
  PROVE  ListensActive'
<1>1. enabled \in [Streams -> BOOLEAN] /\ AuctionStream \in Streams
  BY PageHasStream DEF StreamInv, TypeOK
<1>2. CASE page = "ACTIVE" /\ to # "ACTIVE"
  BY <1>1, <1>2 DEF Turns, Unmount, ListensActive
<1>3. CASE page # "ACTIVE" /\ to = "ACTIVE"
  BY <1>3 DEF Turns, ListensActive
<1>4. CASE page = "ACTIVE" <=> to = "ACTIVE"
  BY <1>4 DEF Turns, client, ListensActive
<1> QED BY <1>2, <1>3, <1>4

(* A connection can only be opened while the stream is wanted.                 *)
LEMMA ListensStay ==
  ASSUME StreamInv, ListensActive, [LiveNext]_liveVars
  PROVE  ListensActive'
<1>1. CASE UNCHANGED <<enabled, page>> /\ link' \in {link, "NONE"}
  BY <1>1 DEF ListensActive
<1>2. CASE \E to : Turns(to)
  BY <1>2, TurnsListen
<1>3. CASE ServerStep
  BY <1>1, <1>3 DEF ServerStep, OtherBids, Closes, Publishes, client, screen
<1>4. CASE StreamStep
  <2>1. CASE \E c \in Conns, i \in Instances : Connects(c, i)
    <3>1. source[AuctionStream] = "CONNECTING" /\ UNCHANGED <<enabled, page>>
      BY <2>1 DEF Connects, Opens
    <3>2. enabled[AuctionStream]
      BY <3>1, PageHasStream DEF StreamInv, OneSourceEach
    <3> QED BY <3>1, <3>2 DEF ListensActive
  <2>2. CASE \E i \in Instances : AuctionClosedArrives(i)
    BY <1>2, <2>2 DEF AuctionClosedArrives
  <2>3. CASE ConnectionBreaks \/ Reconnects
    BY <1>1, <2>3 DEF ConnectionBreaks, Breaks, Reconnects, TimerFires, screen
  <2>4. CASE \/ \E c \in Conns, i \in Instances : OtherSubscribes(c, i)
             \/ \E c \in Conns : Departs(c)
             \/ \E i \in Instances : NewBidArrives(i) \/ Unheard(i)
    BY <1>1, <2>4 DEF OtherSubscribes, Departs, NewBidArrives, Unheard, client, screen
  <2> QED BY <1>4, <2>1, <2>2, <2>3, <2>4 DEF StreamStep
<1>5. CASE PageStep
  <2>1. CASE PageOpens
    <3>1. CASE data = NoData
      BY <2>1, <3>1 DEF PageOpens, client, ListensActive
    <3>2. CASE data # NoData
      BY <1>2, <2>1, <3>2 DEF PageOpens, Starts
    <3> QED BY <3>1, <3>2
  <2>2. CASE Leaves \/ FetchFails \/ CountdownEnds
    BY <1>2, <2>2 DEF Leaves, FetchFails, CountdownEnds, Vanishes
  <2>3. CASE FetchAnswers
    BY <1>1, <1>2, <2>3 DEF FetchAnswers, Starts, client, screen
  <2>4. CASE CacheExpires \/ FetchReads \/ (\E p \in Amounts : Bids(p))
             \/ \E o \in own : OwnCommits(o) \/ OwnSucceeds(o) \/ OwnFails(o)
    BY <1>1, <2>4 DEF CacheExpires, FetchReads, Bids, OwnCommits, OwnSucceeds, OwnFails,
                      client, screen
  <2> QED BY <1>5, <2>1, <2>2, <2>3, <2>4 DEF PageStep
<1>6. CASE UNCHANGED liveVars
  BY <1>1, <1>6 DEF liveVars, client, screen
<1> QED BY <1>3, <1>4, <1>5, <1>6 DEF LiveNext

-----------------------------------------------------------------------------
(* A page that starts on an answer shows all of it.                            *)
LEMMA StartShows ==
  ASSUME BackendTrue, UNCHANGED server,
         NEW answer, answer.bids \subseteq bids, ReadsWhole(answer), Starts(answer)
  PROVE  HistoryTops' /\ ClosedShown'
<1>1. /\ shown' = [price |-> answer.price, history |-> Descending(answer.bids)]
      /\ heard' = answer.bids /\ late' = 0 /\ bids' = bids /\ final' = final
  BY DEF Starts, Show, server
<1>2. answer.bids \in SUBSET Nat /\ IsFiniteSet(answer.bids)
  BY PricesAreNat, FS_Subset DEF BackendTrue
<1>3. heard' # {} => Tops(shown'.history, heard', late' + 1)
  BY <1>1, <1>2, DescendingTops
<1>4. PICK to \in Status(answer) : Turns(to)
  BY DEF Starts
<1>5. page' = to /\ (to = "CLOSED" => answer.final # None)
  BY <1>4 DEF Turns, Status
<1>6. ClosedShown'
  BY <1>1, <1>5 DEF ClosedShown, ReadsWhole
<1> QED BY <1>1, <1>3, <1>6 DEF HistoryTops

LEMMA AnswersAreWhole ==
  ASSUME PricesInv, ReadsFinal
  PROVE  /\ data # NoData => data.bids \subseteq bids /\ ReadsWhole(data)
         /\ fetch.auction # None /\ fetch.bids # None =>
              Answer.bids \subseteq bids /\ ReadsWhole(Answer)
BY DEF PricesInv, QueryTrue, ReadsFinal, ReadsWhole, Answer

(* A step that teaches the page nothing leaves its history as it is, or it is  *)
(* not followed any more.                                                      *)
LEMMA SameHistory ==
  ASSUME HistoryTops, bids \subseteq bids',
         \/ heard' = {} /\ late' = 0
         \/ UNCHANGED learnt /\ (steady' = FALSE \/ (steady' = steady /\ shown'.history = shown.history))
  PROVE  HistoryTops'
BY DEF HistoryTops, learnt

(* A late bid pushes the highest down by one, a higher one is on top.          *)
LEMMA EventTops ==
  ASSUME PricesInv, HistoryTops, NEW i \in Instances, NewBidArrives(i)
  PROVE  HistoryTops'
<1> DEFINE amount == Head(bus[i]).amount
           s == shown.history
<1>1. /\ bids' = bids /\ steady' = steady /\ bus[i] # <<>>
      /\ shown'.history = Keep(<<amount>> \o s)
      /\ heard' = heard \cup {amount}
      /\ late' = IF \A b \in heard : b <= amount THEN 0 ELSE late + 1
  BY DEF NewBidArrives, Receive, server, user
<1>2. amount \in bids
  <2>1. Head(bus[i]) \in Sent
    BY <1>1, HeadTailProperties DEF PricesInv, MessagesTrue
  <2>2. Head(bus[i]).type = "newBid"
    BY DEF NewBidArrives
  <2> QED BY <2>1, <2>2 DEF Sent, NewBid, AuctionClosed
<1>3. s \in Seq(bids) /\ bids \subseteq Nat
  BY PricesAreNat DEF PricesInv, ViewTrue, BackendTrue
<1>4. DOMAIN s = 1 .. Len(s) /\ Len(s) \in Nat /\ \A k \in DOMAIN s : s[k] \in Nat
  BY <1>3, LenProperties, ElementOfSeq
<1>5. /\ 1 \in DOMAIN shown'.history /\ shown'.history[1] = amount
      /\ \A k \in DOMAIN s : k < HistoryLimit =>
           k + 1 \in DOMAIN shown'.history /\ shown'.history[k + 1] = s[k]
  BY <1>1, <1>2, <1>3, KeptEntries
<1>6. heard \subseteq bids /\ late \in Nat /\ amount \in Nat /\ HistoryLimit \in Nat
  BY <1>2, <1>3, PricesAreNat DEF HistoryTops
<1> HIDE DEF amount, s
<1>7. heard' \subseteq bids' /\ late' \in Nat
  BY <1>1, <1>2, <1>6
<1>8. CASE \A b \in heard : b <= amount
  <2>1. late' = 0 /\ \A b \in heard' : b <= amount
    BY <1>1, <1>6, <1>8
  <2> QED BY <1>5, <1>7, <2>1 DEF HistoryTops, Tops
<1>9. CASE ~ \A b \in heard : b <= amount
  <2>1. PICK h \in heard : ~(h <= amount)
    BY <1>9
  <2>2. late' = late + 1
    BY <1>1, <1>9
  <2> SUFFICES ASSUME steady', late' < HistoryLimit
               PROVE  Tops(shown'.history, heard', late' + 1)
    BY <1>7 DEF HistoryTops
  <2>3. PICK k \in DOMAIN s : k <= late + 1 /\ \A b \in heard : b <= s[k]
    BY <1>1, <1>6, <2>1, <2>2 DEF HistoryTops, Tops, s
  <2>4. k \in Nat /\ k < HistoryLimit /\ k + 1 <= late' + 1
    BY <1>4, <1>6, <2>2, <2>3
  <2>5. k + 1 \in DOMAIN shown'.history /\ shown'.history[k + 1] = s[k]
    BY <1>5, <2>4
  <2>6. amount <= s[k]
    <3>1. h \in Nat /\ s[k] \in Nat /\ h <= s[k]
      BY <1>3, <1>4, <1>6, <2>3
    <3> QED BY <1>6, <2>1, <3>1
  <2> QED BY <1>1, <2>3, <2>4, <2>5, <2>6 DEF Tops
<1> QED BY <1>8, <1>9

LEMMA HistoryStays ==
  ASSUME PricesInv, Grows, HistoryTops, ReadsFinal, [LiveNext]_liveVars
  PROVE  HistoryTops'
<1>0. bids \subseteq bids'
  BY DEF Grows
<1>1. CASE UNCHANGED <<view, steady>>
  BY <1>0, <1>1, SameHistory DEF view
<1>2. CASE heard' = {} /\ late' = 0
  BY <1>0, <1>2, SameHistory
<1>3. CASE UNCHANGED learnt /\ steady' = FALSE
  BY <1>0, <1>3, SameHistory
<1>4. ASSUME UNCHANGED <<learnt, steady>>, NEW p, shown' = [shown EXCEPT !.price = p]
      PROVE  HistoryTops'
  <2>1. shown'.history = shown.history
    BY <1>4 DEF PricesInv, ViewTrue
  <2> QED BY <1>0, <1>4, <2>1, SameHistory
<1>5. CASE ServerStep
  BY <1>1, <1>5 DEF ServerStep, OtherBids, Closes, Publishes, user
<1>6. CASE StreamStep
  <2>1. CASE \E i \in Instances : NewBidArrives(i)
    BY <2>1, EventTops
  <2>2. CASE \E i \in Instances : AuctionClosedArrives(i)
    BY <1>4, <2>2 DEF AuctionClosedArrives, user
  <2>3. CASE ~ \E i \in Instances : NewBidArrives(i) \/ AuctionClosedArrives(i)
    BY <1>1, <1>6, <2>3 DEF StreamStep, ConnectionBreaks, Reconnects, Connects,
                            OtherSubscribes, Departs, Unheard, user
  <2> QED BY <2>1, <2>2, <2>3
<1>7. CASE PageStep
  <2>1. CASE PageOpens
    <3>1. CASE data = NoData
      BY <1>1, <2>1, <3>1 DEF PageOpens, user
    <3>2. CASE data # NoData
      <4>1. Starts(data) /\ UNCHANGED server
        BY <2>1, <3>2 DEF PageOpens
      <4> QED BY <3>2, <4>1, AnswersAreWhole, StartShows DEF PricesInv
    <3> QED BY <3>1, <3>2
  <2>2. CASE Leaves \/ FetchFails
    BY <1>2, <2>2 DEF Leaves, FetchFails, Vanishes
  <2>3. CASE FetchAnswers
    <3>1. fetch.auction # None /\ fetch.bids # None /\ UNCHANGED server
      BY <2>3 DEF FetchAnswers
    <3>2. CASE UNCHANGED <<view, user>>
      BY <1>1, <3>2 DEF user
    <3>3. CASE Starts(Answer)
      BY <3>1, <3>3, AnswersAreWhole, StartShows DEF PricesInv
    <3>4. CASE steady' = FALSE /\ UNCHANGED learnt
      BY <1>3, <3>4
    <3> QED BY <2>3, <3>2, <3>3, <3>4 DEF FetchAnswers
  <2>4. CASE \E p \in Amounts : Bids(p)
    BY <1>4, <2>4 DEF Bids
  <2>5. CASE \E o \in own : OwnCommits(o)
    BY <1>1, <2>5 DEF OwnCommits
  <2>6. CASE \E o \in own : OwnSucceeds(o)
    BY <1>3, <2>6 DEF OwnSucceeds
  <2>7. CASE \E o \in own : OwnFails(o)
    <3>1. PICK o \in own : OwnFails(o)
      BY <2>7
    <3>2. UNCHANGED learnt /\ steady' = (steady /\ ~TakesBack(o)) /\ shown' = RollBack(o)
      BY <3>1 DEF OwnFails
    <3>3. shown'.history = shown.history
      BY <3>2 DEF RollBack, PricesInv, ViewTrue
    <3>4. steady' = FALSE \/ (steady' <=> steady)
      BY <3>2
    <3>5. HistoryTops'
      BY <1>0, <3>2, <3>3, <3>4 DEF HistoryTops, learnt
    <3> QED BY <3>5
  <2>8. CASE CountdownEnds \/ CacheExpires \/ FetchReads
    BY <1>1, <2>8 DEF CountdownEnds, CacheExpires, FetchReads, user
  <2> QED BY <1>7, <2>1, <2>2, <2>3, <2>4, <2>5, <2>6, <2>7, <2>8 DEF PageStep
<1>8. CASE UNCHANGED liveVars
  BY <1>1, <1>8 DEF liveVars, user
<1> QED BY <1>5, <1>6, <1>7, <1>8 DEF LiveNext

(* An own bid that is refused after the close takes back its own price only.   *)
LEMMA RefusedLate ==
  ASSUME PricesInv, ClosedShown, NEW o \in own, OwnFails(o)
  PROVE  ClosedShown'
<1>1. /\ page' = page /\ final' = final /\ bids' = bids /\ shown' = RollBack(o)
      /\ steady' = (steady /\ ~TakesBack(o))
  BY DEF OwnFails, screen, server
<1> SUFFICES ASSUME page = "CLOSED", steady, ~TakesBack(o)
             PROVE  final # None /\ (final \notin bids => RollBack(o).price = final)
  BY <1>1 DEF ClosedShown
<1>2. final # None /\ (final \notin bids => shown.price = final)
  BY DEF ClosedShown
<1> QED BY <1>2 DEF TakesBack, RollBack

LEMMA ClosedStays ==
  ASSUME PricesInv, ListensActive, ReadsFinal, ClosedShown, [LiveNext]_liveVars
  PROVE  ClosedShown'
<1>1. CASE page' = page /\ UNCHANGED <<shown, steady>>
  BY <1>1, ServerSteps DEF Closes, ClosedShown
<1>2. CASE page' # "CLOSED" \/ steady' = FALSE
  BY <1>2 DEF ClosedShown
<1>3. CASE ServerStep
  BY <1>1, <1>3 DEF ServerStep, OtherBids, Closes, Publishes, screen, view, user
<1>4. CASE StreamStep
  <2>1. CASE \E i \in Instances : NewBidArrives(i)
    <3>1. page' = "ACTIVE"
      BY <2>1 DEF NewBidArrives, Hears, screen, ListensActive
    <3> QED BY <1>2, <3>1
  <2>2. CASE \E i \in Instances : AuctionClosedArrives(i)
    <3>1. PICK i \in Instances : AuctionClosedArrives(i)
      BY <2>2
    <3> DEFINE m == Head(bus[i])
    <3>2. m \in Sent /\ m.type = "auctionClosed"
      BY <3>1, HeadTailProperties DEF AuctionClosedArrives, Receive, PricesInv, MessagesTrue
    <3>3. final # None /\ m.amount = final
      BY <3>2 DEF Sent, NewBid, AuctionClosed
    <3>4. shown'.price = m.amount /\ final' = final
      BY <3>1 DEF AuctionClosedArrives, PricesInv, ViewTrue, server
    <3> QED BY <3>3, <3>4 DEF ClosedShown
  <2>3. CASE ~ \E i \in Instances : NewBidArrives(i) \/ AuctionClosedArrives(i)
    BY <1>1, <1>4, <2>3 DEF StreamStep, ConnectionBreaks, Reconnects, Connects,
                            OtherSubscribes, Departs, Unheard, view, user, screen
  <2> QED BY <2>1, <2>2, <2>3
<1>5. CASE PageStep
  <2>1. CASE PageOpens
    <3>1. CASE data = NoData
      BY <1>2, <2>1, <3>1 DEF PageOpens
    <3>2. CASE data # NoData
      <4>1. Starts(data) /\ UNCHANGED server
        BY <2>1, <3>2 DEF PageOpens
      <4> QED BY <3>2, <4>1, AnswersAreWhole, StartShows DEF PricesInv
    <3> QED BY <3>1, <3>2
  <2>2. CASE Leaves \/ FetchFails \/ CountdownEnds
    BY <1>2, <2>2 DEF Leaves, FetchFails, CountdownEnds, Vanishes, Turns
  <2>3. CASE FetchAnswers
    <3>1. fetch.auction # None /\ fetch.bids # None /\ UNCHANGED server
      BY <2>3 DEF FetchAnswers
    <3>2. CASE UNCHANGED <<screen, view, user>>
      BY <1>1, <3>2 DEF screen, view, user
    <3>3. CASE Starts(Answer)
      BY <3>1, <3>3, AnswersAreWhole, StartShows DEF PricesInv
    <3>4. CASE steady' = FALSE
      BY <1>2, <3>4
    <3> QED BY <2>3, <3>2, <3>3, <3>4 DEF FetchAnswers
  <2>4. CASE \E p \in Amounts : Bids(p)
    BY <1>2, <2>4 DEF Bids, screen
  <2>5. CASE \E o \in own : OwnCommits(o)
    BY <1>1, <2>5 DEF OwnCommits, screen, view
  <2>6. CASE \E o \in own : OwnSucceeds(o)
    BY <1>2, <2>6 DEF OwnSucceeds
  <2>7. CASE \E o \in own : OwnFails(o)
    BY <2>7, RefusedLate
  <2>8. CASE CacheExpires \/ FetchReads
    BY <1>1, <2>8 DEF CacheExpires, FetchReads, screen, view, user
  <2> QED BY <1>5, <2>1, <2>2, <2>3, <2>4, <2>5, <2>6, <2>7, <2>8 DEF PageStep
<1>6. CASE UNCHANGED liveVars
  BY <1>1, <1>6 DEF liveVars, screen, view, user
<1> QED BY <1>3, <1>4, <1>5, <1>6 DEF LiveNext

LEMMA WatchHolds == LiveSpec => []WatchInv
<1>1. LiveInit => WatchInv
  BY PageHasStream
     DEF LiveInit, Init, WatchInv, HistoryTops, ListensActive, FinalTops, ReadsFinal,
         ReadsWhole, NoData, NoFetch, ClosedShown
<1>2. PricesInv /\ StreamInv /\ WatchInv /\ [LiveNext]_liveVars => WatchInv'
  <2> SUFFICES ASSUME PricesInv, StreamInv, WatchInv, [LiveNext]_liveVars
               PROVE  WatchInv'
    OBVIOUS
  <2>1. Grows
    BY BackendGrows
  <2>2. HistoryTops' /\ ListensActive'
    BY <2>1, HistoryStays, ListensStay DEF WatchInv
  <2>3. FinalTops' /\ ReadsFinal' /\ ClosedShown'
    BY FinalStays, ReadsStay, ClosedStays DEF WatchInv, PricesInv
  <2> QED BY <2>2, <2>3 DEF WatchInv
<1> QED BY <1>1, <1>2, PricesHold, StreamStays, PTL DEF LiveSpec

(* A page that heard of every bid, and of the close, shows the price, though   *)
(* the events come late, twice and from several instances and any of its own   *)
(* bids are refused, but for the two prices such a refusal gets wrong, and as  *)
(* long as fewer late ones pass than its history keeps                         *)
(* (displayCurrentPrice, handleNewBidFromSSE of AuctionDetailClient).          *)
THEOREM WatcherIsRight == LiveSpec => []WatcherSeesHighest
<1>1. PricesInv /\ WatchInv => WatcherSeesHighest
  <2> SUFFICES ASSUME PricesInv, WatchInv,
                      Mounted, steady, own = {}, shown.price \notin stray, late < HistoryLimit, bids \subseteq heard,
                      final # None => page = "CLOSED"
               PROVE  Display = Price
    BY DEF WatcherSeesHighest
  <2>1. Display \in Had /\ Display \in Nat
    <3>1. shown.price \in Had
      BY DEF PricesInv, ViewTrue, Explained, Pending
    <3> QED BY <3>1, DisplayIsKept DEF Had
  <2>2. Price \in Had /\ Had \subseteq Nat /\ bids \subseteq Nat
    BY PriceIsHad, PricesAreNat DEF PricesInv, BackendTrue
  <2>3. \A b \in {0} \cup bids : b <= Display
    <3>1. ASSUME NEW b \in bids PROVE b <= Display
      <4>1. PICK k \in DOMAIN shown.history : \A x \in heard : x <= shown.history[k]
        BY <3>1 DEF WatchInv, HistoryTops, Tops
      <4>2. shown.history[k] \in InHistory /\ b <= shown.history[k]
        BY <4>1 DEF InHistory
      <4>3. shown.history[k] <= Display /\ shown.history[k] \in Nat
        BY <2>2, <4>2, DisplayIsKept
      <4> QED BY <2>1, <2>2, <4>2, <4>3
    <3> QED BY <2>1, <3>1
  <2>4. CASE final = None
    <3>1. Had = {0} \cup bids
      BY <2>4 DEF Had
    <3>2. Price \in {0} \cup bids /\ \A b \in {0} \cup bids : b <= Price
      <4>1. {0} \cup bids \in SUBSET Nat /\ {0} \cup bids # {} /\ IsFiniteSet({0} \cup bids)
        BY <2>2, FS_AddElement DEF PricesInv, BackendTrue
      <4> QED BY <2>4, <4>1, HighestIsMember DEF Price
    <3> QED BY <2>1, <2>2, <2>3, <3>1, <3>2
  <2>5. CASE final # None
    <3>1. Price = final /\ Had = {0, final} \cup bids
      BY <2>5 DEF Price, Had
    <3>2. final \in Nat /\ \A b \in bids : b <= final
      BY <2>2, <2>5, <3>1 DEF WatchInv, FinalTops
    <3>3. Display <= final
      BY <2>1, <3>1, <3>2
    <3>4. final <= Display
      <4>1. CASE final \in bids
        BY <2>3, <4>1
      <4>2. CASE final \notin bids
        BY <2>5, <4>2, DisplayIsKept DEF WatchInv, ClosedShown
      <4> QED BY <4>1, <4>2
    <3> QED BY <2>1, <3>1, <3>2, <3>3, <3>4
  <2> QED BY <2>4, <2>5
<1> QED BY <1>1, PricesHold, WatchHolds, PTL

-----------------------------------------------------------------------------
(* What the variables can be, however many own bids are under way.             *)
Lists == {b \in SUBSET Amounts : IsFiniteSet(b)}
Ends == Prices \cup {None}
Sendable == {NewBid(p) : p \in Amounts} \cup {AuctionClosed(p) : p \in Prices}
AuctionRow == [price : Prices, final : Ends]
ShownRow == [price : Prices, history : Seq(Amounts)]
BidRow == [click : Clicks, amount : Amounts, before : Prices, done : BOOLEAN]
PageStates == {"AWAY", "LOADING", "ACTIVE", "EXPIRED", "CLOSED"}

ServerRows == bids \in Lists /\ final \in Ends /\ outbox \subseteq Sendable
BusRows == bus \in [Instances -> Seq(Sendable)]
QueryRows ==
  /\ data = NoData \/ data \in [price : Prices, final : Ends, bids : Lists]
  /\ fetch \in [on : BOOLEAN, auction : AuctionRow \cup {None}, bids : Lists \cup {None}]
ScreenRows == page \in PageStates /\ link \in Conns \cup {"NONE"}
ViewRows ==
  /\ shown \in ShownRow /\ own \subseteq BidRow
  /\ steady \in BOOLEAN /\ stray \subseteq Amounts /\ heard \subseteq Amounts /\ late \in Nat
LiveRows == ServerRows /\ BusRows /\ QueryRows /\ ScreenRows /\ ViewRows

LEMMA PriceIsPrice == ASSUME ServerRows PROVE Price \in Prices
<1>1. CASE final = None
  <2>1. {0} \cup bids \in SUBSET Nat /\ {0} \cup bids # {} /\ IsFiniteSet({0} \cup bids)
    BY PricesAreNat, FS_AddElement DEF ServerRows, Lists
  <2>2. Price \in {0} \cup bids
    BY <1>1, <2>1, HighestIsMember DEF Price
  <2> QED BY <2>2 DEF ServerRows, Lists, Prices
<1>2. CASE final # None
  BY <1>2 DEF Price, ServerRows, Ends
<1> QED BY <1>1, <1>2

LEMMA CommitRows == ASSUME ServerRows, NEW p \in Amounts, Commit(p) PROVE ServerRows'
<1>1. bids' = bids \cup {p} /\ final' = final /\ outbox' = outbox \cup {NewBid(p)}
  BY DEF Commit
<1>2. bids' \in Lists
  BY <1>1, FS_AddElement DEF ServerRows, Lists
<1> QED BY <1>1, <1>2 DEF ServerRows, Sendable

LEMMA ServerRowsStay == ASSUME LiveRows, [LiveNext]_liveVars PROVE ServerRows'
<1>0. ServerRows /\ own \subseteq BidRow
  BY DEF LiveRows, ViewRows
<1>1. CASE UNCHANGED server
  BY <1>0, <1>1 DEF ServerRows, server
<1>2. CASE ServerStep
  <2>1. CASE \E p \in Amounts : OtherBids(p)
    BY <1>0, <2>1, CommitRows DEF OtherBids
  <2>2. ASSUME NEW p \in {Price, BuyNowPrice}, Closes(p) PROVE ServerRows'
    <3>1. p \in Prices
      BY <1>0, PriceIsPrice DEF Prices
    <3>2. bids' = bids /\ final' = p /\ outbox' = outbox \cup {AuctionClosed(p)}
      BY <2>2 DEF Closes
    <3> QED BY <1>0, <3>1, <3>2 DEF ServerRows, Ends, Sendable
  <2>3. CASE \E m \in outbox : Publishes(m)
    BY <1>0, <2>3 DEF Publishes, ServerRows
  <2> QED BY <1>2, <2>1, <2>2, <2>3 DEF ServerStep
<1>3. ASSUME NEW o \in own, OwnCommits(o) PROVE ServerRows'
  BY <1>0, <1>3, CommitRows DEF OwnCommits, BidRow
<1>4. CASE StreamStep
  <2>1. UNCHANGED server
    BY <1>4 DEF StreamStep, ConnectionBreaks, Reconnects, Connects, OtherSubscribes,
                Departs, NewBidArrives, AuctionClosedArrives, Unheard
  <2> QED BY <1>1, <2>1
<1>5. CASE PageStep /\ ~ \E o \in own : OwnCommits(o)
  <2>1. UNCHANGED server
    BY <1>5 DEF PageStep, PageOpens, Leaves, CountdownEnds, CacheExpires, Bids,
                OwnSucceeds, OwnFails, FetchReads, FetchAnswers, FetchFails
  <2> QED BY <1>1, <2>1
<1>6. CASE UNCHANGED liveVars
  BY <1>1, <1>6 DEF liveVars
<1> QED BY <1>2, <1>3, <1>4, <1>5, <1>6 DEF LiveNext

LEMMA BusRowsStay == ASSUME LiveRows, [LiveNext]_liveVars PROVE BusRows'
<1>1. bus \in [Instances -> Seq(Sendable)] /\ outbox \subseteq Sendable
  BY DEF LiveRows, BusRows, ServerRows
<1>2. /\ bus' = [i \in Instances |-> bus'[i]]
      /\ \A i \in Instances :
           bus'[i] = bus[i] \/ (bus[i] # <<>> /\ bus'[i] = Tail(bus[i]))
           \/ \E m \in outbox : bus'[i] = Append(bus[i], m)
  BY <1>1, BusMoves
<1>3. ASSUME NEW i \in Instances PROVE bus'[i] \in Seq(Sendable)
  <2>1. bus[i] \in Seq(Sendable)
    BY <1>1
  <2>2. CASE bus[i] # <<>> /\ bus'[i] = Tail(bus[i])
    BY <2>1, <2>2, HeadTailProperties
  <2>3. ASSUME NEW m \in outbox, bus'[i] = Append(bus[i], m) PROVE bus'[i] \in Seq(Sendable)
    BY <1>1, <2>1, <2>3, AppendProperties
  <2> QED BY <1>2, <2>1, <2>2, <2>3
<1> QED BY <1>2, <1>3 DEF BusRows

LEMMA QueryRowsStay == ASSUME LiveRows, [LiveNext]_liveVars PROVE QueryRows'
<1> DEFINE Rows == [on : BOOLEAN, auction : AuctionRow \cup {None}, bids : Lists \cup {None}]
<1>1. QueryRows /\ ServerRows /\ Price \in Prices /\ fetch \in Rows
  BY PriceIsPrice DEF LiveRows, QueryRows
<1>2. NoFetch \in Rows /\ Fetching \in Rows
  BY DEF NoFetch, Fetching
<1>3. CASE FetchReads
  <2>1. [price |-> Price, final |-> final] \in AuctionRow /\ bids \in Lists
    BY <1>1 DEF AuctionRow, ServerRows
  <2>2. fetch' \in Rows
    <3>1. CASE fetch' = [fetch EXCEPT !.auction = [price |-> Price, final |-> final]]
      BY <1>1, <2>1, <3>1
    <3>2. CASE fetch' = [fetch EXCEPT !.bids = bids]
      BY <1>1, <2>1, <3>2
    <3> QED BY <1>3, <3>1, <3>2 DEF FetchReads
  <2> QED BY <1>1, <1>3, <2>2 DEF FetchReads, QueryRows
<1>4. CASE FetchAnswers
  <2>1. fetch.auction \in AuctionRow /\ fetch.bids \in Lists
    BY <1>1, <1>4 DEF FetchAnswers
  <2>2. Answer \in [price : Prices, final : Ends, bids : Lists]
    BY <2>1 DEF Answer, AuctionRow
  <2> QED BY <1>2, <1>4, <2>2 DEF FetchAnswers, QueryRows
<1>5. CASE data' \in {data, NoData} /\ fetch' \in {fetch, NoFetch, Fetching}
  BY <1>1, <1>2, <1>5 DEF QueryRows
<1> QED BY <1>3, <1>4, <1>5, QuerySteps

(* The page turns from one of its states to another, with or without a stream. *)
LEMMA TurnsRows == ASSUME ScreenRows, NEW to \in PageStates, Turns(to) PROVE ScreenRows'
BY DEF Turns, ScreenRows

LEMMA ShowsRow ==
  ASSUME NEW answer, answer.price \in Prices, answer.bids \in Lists, Show(answer)
  PROVE  shown' \in ShownRow
<1>1. answer.bids \in SUBSET Nat /\ IsFiniteSet(answer.bids) /\ answer.bids \subseteq Amounts
  BY PricesAreNat DEF Lists
<1>2. Descending(answer.bids) \in Seq(Amounts)
  BY <1>1, DescendingLists, SeqMonotonic
<1> QED BY <1>2 DEF Show, ShownRow

LEMMA StartsRows ==
  ASSUME ScreenRows, ViewRows, NEW answer, answer.price \in Prices, answer.bids \in Lists,
         Starts(answer)
  PROVE  ScreenRows' /\ ViewRows'
<1>1. shown' \in ShownRow
  BY ShowsRow DEF Starts
<1>2. heard' \subseteq Amounts /\ late' \in Nat /\ steady' \in BOOLEAN
  BY DEF Starts, Lists
<1>5. own' = own /\ stray' = stray
  BY DEF Starts
<1>3. Status(answer) \subseteq PageStates
  BY DEF Status, PageStates
<1>4. ScreenRows'
  BY <1>3, TurnsRows DEF Starts
<1> QED BY <1>1, <1>2, <1>4, <1>5 DEF ViewRows

LEMMA VanishesRows == ASSUME ScreenRows, Vanishes PROVE ScreenRows' /\ ViewRows'
<1>1. ScreenRows'
  BY TurnsRows DEF Vanishes, PageStates
<1>2. Blank \in ShownRow
  BY DEF Blank, ShownRow, Prices
<1> QED BY <1>1, <1>2 DEF Vanishes, ViewRows

LEMMA EventRows ==
  ASSUME LiveRows, NEW i \in Instances, NewBidArrives(i) \/ AuctionClosedArrives(i)
  PROVE  ScreenRows' /\ ViewRows'
<1> DEFINE m == Head(bus[i])
<1>0. ScreenRows /\ ViewRows /\ shown = [price |-> shown.price, history |-> shown.history]
      /\ shown.price \in Prices /\ shown.history \in Seq(Amounts)
  BY DEF LiveRows, ViewRows, ShownRow
<1>1. m \in Sendable
  <2>1. bus[i] # <<>> /\ bus[i] \in Seq(Sendable)
    BY DEF NewBidArrives, AuctionClosedArrives, Receive, LiveRows, BusRows
  <2> QED BY <2>1, HeadTailProperties
<1>2. m.amount \in Prices /\ (m.type = "newBid" => m.amount \in Amounts)
  BY <1>1 DEF Sendable, NewBid, AuctionClosed, Prices
<1> HIDE DEF m
<1>3. CASE NewBidArrives(i)
  <2>1. /\ m.type = "newBid" /\ heard' = heard \cup {m.amount} /\ late' \in {0, late + 1}
        /\ shown' = [price |-> m.amount, history |-> Keep(<<m.amount>> \o shown.history)]
        /\ UNCHANGED <<page, link, own, steady, stray>>
    BY <1>3 DEF NewBidArrives, m, screen, user
  <2>2. Keep(<<m.amount>> \o shown.history) \in Seq(Amounts)
    BY <1>0, <1>2, <2>1, HistoryKept
  <2>3. shown' \in ShownRow
    BY <1>2, <2>1, <2>2 DEF ShownRow
  <2>4. late' \in Nat
    BY <1>0, <2>1 DEF ViewRows
  <2>5. heard' \subseteq Amounts
    BY <1>0, <1>2, <2>1 DEF ViewRows
  <2> QED BY <1>0, <2>1, <2>3, <2>4, <2>5 DEF ScreenRows, ViewRows
<1>4. CASE AuctionClosedArrives(i)
  <2>1. /\ Turns("CLOSED") /\ shown' = [shown EXCEPT !.price = m.amount]
        /\ UNCHANGED <<heard, late, own, steady, stray>>
    BY <1>4 DEF AuctionClosedArrives, m, learnt, user
  <2>2. shown' \in ShownRow
    BY <1>0, <1>2, <2>1 DEF ShownRow
  <2>3. ScreenRows'
    BY <1>0, <2>1, TurnsRows DEF PageStates
  <2> QED BY <1>0, <2>1, <2>2, <2>3 DEF ViewRows
<1> QED BY <1>3, <1>4

LEMMA StreamRowsStay ==
  ASSUME LiveRows, StreamStep PROVE ScreenRows' /\ ViewRows'
<1>0. ScreenRows /\ ViewRows
  BY DEF LiveRows
<1>1. CASE \E i \in Instances : NewBidArrives(i) \/ AuctionClosedArrives(i)
  BY <1>1, EventRows
<1>2. ASSUME page' = page, link' \in Conns \cup {"NONE", link}, UNCHANGED <<view, user>>
      PROVE  ScreenRows' /\ ViewRows'
  BY <1>0, <1>2 DEF ScreenRows, ViewRows, view, learnt, user
<1>3. CASE ConnectionBreaks \/ Reconnects
           \/ (\E c \in Conns, i \in Instances : Connects(c, i) \/ OtherSubscribes(c, i))
           \/ (\E c \in Conns : Departs(c)) \/ \E i \in Instances : Unheard(i)
  BY <1>2, <1>3 DEF ConnectionBreaks, Reconnects, Connects, OtherSubscribes, Departs,
                    Unheard, screen
<1> QED BY <1>1, <1>3 DEF StreamStep

(* A page that clicks, and what becomes of its bids.                           *)
LEMMA OwnRowsStay ==
  ASSUME LiveRows, \/ \E p \in Amounts : Bids(p)
                   \/ \E o \in own : OwnCommits(o) \/ OwnSucceeds(o) \/ OwnFails(o)
  PROVE  ScreenRows' /\ ViewRows'
<1>0. /\ ScreenRows /\ ViewRows /\ shown \in ShownRow /\ own \subseteq BidRow
      /\ shown.price \in Prices /\ Amounts \subseteq Prices
  BY DEF LiveRows, ViewRows, ShownRow, Prices
<1>1. UNCHANGED <<page, link, heard, late>>
  BY DEF Bids, OwnCommits, OwnSucceeds, OwnFails, screen, view, learnt
<1>a. steady' \in BOOLEAN /\ stray' \subseteq Amounts
  BY <1>0 DEF Bids, OwnCommits, OwnSucceeds, OwnFails, LeftTo, ViewRows, BidRow
<1>2. ASSUME shown' \in ShownRow, own' \subseteq BidRow PROVE ScreenRows' /\ ViewRows'
  BY <1>0, <1>1, <1>a, <1>2 DEF ScreenRows, ViewRows
<1>3. ASSUME NEW x \in Prices PROVE [shown EXCEPT !.price = x] \in ShownRow
  BY <1>0 DEF ShownRow
<1>4. ASSUME NEW p \in Amounts, Bids(p) PROVE ScreenRows' /\ ViewRows'
  <2>1. PICK k \in Clicks :
          own' = own \cup {[click |-> k, amount |-> p, before |-> shown.price, done |-> FALSE]}
    BY <1>4 DEF Bids
  <2>2. [click |-> k, amount |-> p, before |-> shown.price, done |-> FALSE] \in BidRow
    BY <1>0 DEF BidRow
  <2>3. shown' = [shown EXCEPT !.price = p]
    BY <1>4 DEF Bids
  <2> QED BY <1>0, <1>2, <1>3, <2>1, <2>2, <2>3
<1>5. ASSUME NEW o \in own, OwnCommits(o) PROVE ScreenRows' /\ ViewRows'
  <2>1. own' = (own \ {o}) \cup {[o EXCEPT !.done = TRUE]} /\ shown' = shown
    BY <1>5 DEF OwnCommits, view
  <2>2. [o EXCEPT !.done = TRUE] \in BidRow
    BY <1>0 DEF BidRow
  <2> QED BY <1>0, <1>2, <2>1, <2>2
<1>6. ASSUME NEW o \in own, OwnSucceeds(o) \/ OwnFails(o) PROVE ScreenRows' /\ ViewRows'
  <2>1. o.amount \in Prices /\ o.before \in Prices
    BY <1>0 DEF BidRow
  <2>2. RollBack(o) \in ShownRow
    BY <1>0, <1>3, <2>1 DEF RollBack
  <2>3. own' = own \ {o} /\ shown' \in {[shown EXCEPT !.price = o.amount], RollBack(o)}
    BY <1>6 DEF OwnSucceeds, OwnFails
  <2> QED BY <1>0, <1>2, <1>3, <2>1, <2>2, <2>3
<1> QED BY <1>4, <1>5, <1>6

LEMMA PageRowsStay ==
  ASSUME LiveRows, PageStep PROVE ScreenRows' /\ ViewRows'
<1>0. ScreenRows /\ ViewRows
  BY DEF LiveRows
<1>1. ASSUME UNCHANGED <<screen, view, user>> PROVE ScreenRows' /\ ViewRows'
  BY <1>0, <1>1 DEF ScreenRows, ViewRows, screen, view, learnt, user
<1>2. CASE PageOpens
  <2>1. CASE data = NoData
    <3>1. page' = "LOADING" /\ UNCHANGED <<link, view, user>>
      BY <1>2, <2>1 DEF PageOpens
    <3> QED BY <1>0, <3>1 DEF ScreenRows, PageStates, ViewRows, view, learnt, user
  <2>2. CASE data # NoData
    <3>1. data.price \in Prices /\ data.bids \in Lists
      BY <2>2 DEF LiveRows, QueryRows
    <3>2. Starts(data)
      BY <1>2, <2>2 DEF PageOpens
    <3> QED BY <1>0, <3>1, <3>2, StartsRows
  <2> QED BY <2>1, <2>2
<1>3. CASE Leaves \/ FetchFails
  BY <1>0, <1>3, VanishesRows DEF Leaves, FetchFails
<1>4. CASE CountdownEnds
  <2>1. Turns("EXPIRED") /\ UNCHANGED <<view, user>>
    BY <1>4 DEF CountdownEnds
  <2>2. ScreenRows'
    BY <1>0, <2>1, TurnsRows DEF PageStates
  <2> QED BY <1>0, <2>1, <2>2 DEF ViewRows, view, learnt, user
<1>5. CASE CacheExpires \/ FetchReads
  BY <1>1, <1>5 DEF CacheExpires, FetchReads
<1>6. CASE (\E p \in Amounts : Bids(p))
           \/ \E o \in own : OwnCommits(o) \/ OwnSucceeds(o) \/ OwnFails(o)
  BY <1>6, OwnRowsStay
<1>7. CASE FetchAnswers
  <2>1. Answer.price \in Prices /\ Answer.bids \in Lists
    BY <1>7 DEF FetchAnswers, Answer, AuctionRow, LiveRows, QueryRows
  <2>2. CASE UNCHANGED <<client, screen, view, user>>
    BY <1>1, <2>2
  <2>3. CASE Starts(Answer)
    BY <1>0, <2>1, <2>3, StartsRows
  <2>4. ASSUME IF page = "CLOSED" THEN Turns("CLOSED") ELSE \E to \in Status(Answer) : Turns(to),
               Show(Answer) \/ (SameAsCached /\ UNCHANGED shown),
               steady' = FALSE, UNCHANGED <<learnt, own, stray>>
        PROVE  ScreenRows' /\ ViewRows'
    <3>1. Status(Answer) \subseteq PageStates /\ "CLOSED" \in PageStates
      BY DEF Status, PageStates
    <3>2. ScreenRows'
      BY <1>0, <2>4, <3>1, TurnsRows
    <3>3. shown' \in ShownRow
      BY <1>0, <2>1, <2>4, ShowsRow DEF ViewRows
    <3> QED BY <1>0, <2>4, <3>2, <3>3 DEF ViewRows, learnt
  <2> QED BY <1>7, <2>2, <2>3, <2>4 DEF FetchAnswers
<1> QED BY <1>2, <1>3, <1>4, <1>5, <1>6, <1>7 DEF PageStep

LEMMA RowsAtFirst == ASSUME LiveInit PROVE LiveRows
<1>1. ServerRows
  BY FS_EmptySet DEF LiveInit, ServerRows, Lists, Ends
<1>2. BusRows
  BY DEF LiveInit, FanoutInit, BusRows
<1>3. QueryRows
  BY DEF LiveInit, QueryRows, NoFetch
<1>4. ScreenRows /\ ViewRows
  BY DEF LiveInit, ScreenRows, PageStates, ViewRows, Blank, ShownRow, Prices
<1> QED BY <1>1, <1>2, <1>3, <1>4 DEF LiveRows

LEMMA RowsStay == ASSUME LiveRows, [LiveNext]_liveVars PROVE LiveRows'
<1>1. CASE ServerStep \/ UNCHANGED liveVars
  <2>1. UNCHANGED <<screen, view, user>>
    BY <1>1 DEF ServerStep, OtherBids, Closes, Publishes, liveVars
  <2> QED BY <2>1, ServerRowsStay, BusRowsStay, QueryRowsStay
          DEF LiveRows, ScreenRows, ViewRows, screen, view, learnt, user
<1>2. CASE StreamStep \/ PageStep
  BY <1>2, StreamRowsStay, PageRowsStay, ServerRowsStay, BusRowsStay, QueryRowsStay DEF LiveRows
<1> QED BY <1>1, <1>2 DEF LiveNext

(* With any number of own bids under way, the page is in one of its states and *)
(* its history is of amounts that may be bid, the messages and the answers are *)
(* of amounts and prices there can be, and an instance counts no more requests *)
(* than there are (AuctionDetailClient, useAuctionDetail, EventsService,       *)
(* useReconnectingEventSource).                                                *)
THEOREM LiveTypeCorrect == LiveSpec => []LiveTypeOK
<1>1. LiveInit => LiveRows
  BY RowsAtFirst
<1>2. LiveRows /\ [LiveNext]_liveVars => LiveRows'
  BY RowsStay
<1>3. LiveRows /\ StreamInv /\ Counts => LiveTypeOK
  <2> SUFFICES ASSUME LiveRows, StreamInv, Counts PROVE LiveTypeOK
    OBVIOUS
  <2>1. FanoutTypeOK
    <3>1. ASSUME NEW i \in Instances PROVE Cardinality(ConnsAt(i)) \in 0 .. Cardinality(Conns)
      <4>1. ConnsAt(i) \subseteq Conns
        BY DEF ConnsAt
      <4> QED BY <4>1, ConnsAreFinite, FS_Subset, FS_CardinalityType
    <3>2. refCount \in [Instances -> 0 .. Cardinality(Conns)]
      BY <3>1 DEF Counts
    <3> QED BY <3>2 DEF Counts, FanoutTypeOK, LiveRows, BusRows
  <2>2. Sendable \subseteq Message
    BY DEF Sendable, NewBid, AuctionClosed, Message, Prices
  <2>3. \A i \in Instances : bus[i] \in Seq(Message)
    BY <2>2, SeqMonotonic DEF LiveRows, BusRows
  <2>4. /\ bids \subseteq Amounts /\ final \in Prices \cup {None} /\ outbox \subseteq Message
        /\ page \in {"AWAY", "LOADING", "ACTIVE", "EXPIRED", "CLOSED"} /\ link \in Conns \cup {"NONE"}
    BY <2>2 DEF LiveRows, ServerRows, ScreenRows, Lists, Ends, PageStates
  <2>5. /\ shown \in [price : Prices, history : Seq(Amounts)]
        /\ own \subseteq [click : Clicks, amount : Amounts, before : Prices, done : BOOLEAN]
        /\ steady \in BOOLEAN /\ stray \subseteq Amounts /\ heard \subseteq Amounts /\ late \in Nat
    BY DEF LiveRows, ViewRows, ShownRow, BidRow
  <2>6. Lists \subseteq SUBSET Amounts /\ 0 \in Prices /\ Ends = Prices \cup {None}
    BY DEF Lists, Prices, Ends
  <2>7. data \in [price : Prices, final : Prices \cup {None}, bids : (SUBSET Amounts) \cup {None}]
    <3>1. NoData \in [price : Prices, final : Prices \cup {None}, bids : (SUBSET Amounts) \cup {None}]
      BY <2>6 DEF NoData
    <3> QED BY <2>6, <3>1 DEF LiveRows, QueryRows
  <2>8. fetch \in [on : BOOLEAN, bids : (SUBSET Amounts) \cup {None},
                   auction : [price : Prices, final : Prices \cup {None}] \cup {None}]
    BY <2>6 DEF LiveRows, QueryRows, AuctionRow
  <2> QED BY <2>1, <2>3, <2>4, <2>5, <2>7, <2>8 DEF LiveTypeOK, StreamInv
<1> QED BY <1>1, <1>2, <1>3, StreamStays, CountsStay, PTL DEF LiveSpec
=============================================================================
