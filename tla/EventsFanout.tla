---------------------------- MODULE EventsFanout ----------------------------
(***************************************************************************)
(* EventsService of every instance of the backend: the subject of one      *)
(* auction (or of one user's notifications, which works the same way), the *)
(* reference count that drops it, and the Redis subscription that feeds    *)
(* it.  Node runs one callback at a time: each is a step.                  *)
(***************************************************************************)
EXTENDS Integers, FiniteSets, Sequences

CONSTANTS
  Instances, \* instances of the backend
  Conns      \* requests for the stream, of all pages

ASSUME ConnsAreFinite == IsFiniteSet(Conns)
ASSUME NowhereIsNoInstance == "NOWHERE" \notin Instances

VARIABLES
  subject,  \* whether the instance's map has a Subject for the auction
  refCount, \* the instance's number of subscribers, 0 for no entry
  conn,     \* for each request, its instance and whether its Observable is
            \* still attached to the Subject of the map
  bus       \* messages Redis has not delivered to the instance yet

fanout == <<subject, refCount, conn, bus>>

NoConn == [at |-> "NOWHERE", attached |-> FALSE]
ConnsAt(i) == {c \in Conns : conn[c].at = i}

FanoutInit ==
  /\ subject = [i \in Instances |-> FALSE]
  /\ refCount = [i \in Instances |-> 0]
  /\ conn = [c \in Conns |-> NoConn]
  /\ bus = [i \in Instances |-> <<>>]

(* streamAuction: getOrCreateSubject, incrementRefCount, subscribe.            *)
Subscribe(c, i) ==
  /\ conn[c] = NoConn
  /\ subject' = [subject EXCEPT ![i] = TRUE]
  /\ refCount' = [refCount EXCEPT ![i] = @ + 1]
  /\ conn' = [conn EXCEPT ![c] = [at |-> i, attached |-> TRUE]]
  /\ UNCHANGED bus

Remaining_None(i) == 0   \* bug: the first to leave completes the subject
Remaining(i) == IF refCount[i] > 1 THEN refCount[i] - 1 ELSE 0

(* The teardown, when the instance notices that the client is gone: the last   *)
(* one completes the Subject, which detaches whoever is on it, and drops it.   *)
Unsubscribe(c) ==
  LET i == conn[c].at
      last == Remaining(i) = 0
  IN  /\ conn[c] # NoConn
      /\ refCount' = [refCount EXCEPT ![i] = Remaining(i)]
      /\ subject' = [subject EXCEPT ![i] = @ /\ ~last]
      /\ conn' = [d \in Conns |->
           IF d = c THEN NoConn
           ELSE IF last /\ conn[d].at = i THEN [conn[d] EXCEPT !.attached = FALSE]
           ELSE conn[d]]
      /\ UNCHANGED bus

(* PUBLISH reaches every instance's subscription, in one order for all.        *)
Publish(m) ==
  /\ bus' = [i \in Instances |-> Append(bus[i], m)]
  /\ UNCHANGED <<subject, refCount, conn>>

Receive(i) ==
  /\ bus[i] # <<>>
  /\ bus' = [bus EXCEPT ![i] = Tail(@)]
  /\ UNCHANGED <<subject, refCount, conn>>

(* emitToAuctionLocal: the requests the head of the bus goes to.               *)
Audience(i) == {c \in ConnsAt(i) : subject[i] /\ conn[c].attached}

-----------------------------------------------------------------------------
FanoutTypeOK ==
  /\ subject \in [Instances -> BOOLEAN]
  /\ refCount \in [Instances -> 0 .. Cardinality(Conns)]
  /\ conn \in [Conns -> [at : Instances, attached : BOOLEAN] \cup {NoConn}]
  /\ DOMAIN bus = Instances

(* Every open request is on the subject its instance delivers to, whoever      *)
(* leaves late or comes back meanwhile, and a subject nobody needs is dropped: *)
(* an orphan would get heartbeats and no event, and nobody would notice.       *)
SubjectsFollowRequests ==
  \A i \in Instances :
    /\ Audience(i) = ConnsAt(i)
    /\ subject[i] => ConnsAt(i) # {}
=============================================================================
