----------------------------- MODULE SseClient -----------------------------
(***************************************************************************)
(* The browser's event streams: useReconnectingEventSource, one instance   *)
(* for each stream of the open page, and the counter of reconnecting       *)
(* streams that the banner reads.  Callbacks run one at a time; the        *)
(* network decides when a connection opens or breaks.                      *)
(***************************************************************************)
EXTENDS Integers

CONSTANTS
  Streams,    \* the auction's, the history's and the notifications' stream
  Counted,    \* those that report their status to useSSEConnectionStore
  FirstDelay, \* INITIAL_DELAY_MS
  MaxDelay,   \* maxDelayMs
  MaxCount,   \* bound of the counter
  None

ASSUME CountedAreStreams == Counted \subseteq Streams
ASSUME DelaysAreNat ==
  /\ FirstDelay \in Nat \ {0} /\ MaxDelay \in Nat /\ FirstDelay < MaxDelay
  /\ MaxCount \in Nat \ {0}
ASSUME NoneIsNoDelay == None \notin Nat

VARIABLES
  enabled, \* whether the effect of the stream is mounted
  source,  \* its EventSource: absent, connecting or open
  timer,   \* the delay its reconnection timer was set with, or None
  delay,   \* delayRef
  reconnectingCount

vars == <<enabled, source, timer, delay, reconnectingCount>>

Init ==
  /\ enabled = [s \in Streams |-> FALSE]
  /\ source = [s \in Streams |-> "NONE"]
  /\ timer = [s \in Streams |-> None]
  /\ delay = [s \in Streams |-> FirstDelay]
  /\ reconnectingCount = 0

(* onStatusChange of useAuctionEvents and useHistoryEvents.                    *)
AddReconnecting(s) ==
  reconnectingCount' = IF s \in Counted THEN reconnectingCount + 1 ELSE reconnectingCount
RemoveReconnecting(s) ==
  reconnectingCount' = IF s \in Counted /\ reconnectingCount > 0
                       THEN reconnectingCount - 1 ELSE reconnectingCount

(* The effect: a page opens, or its url or condition comes to hold.            *)
Mount(s) ==
  /\ ~enabled[s]
  /\ enabled' = [enabled EXCEPT ![s] = TRUE]
  /\ source' = [source EXCEPT ![s] = "CONNECTING"]
  /\ UNCHANGED <<timer, delay, reconnectingCount>>

Opens(s) ==
  /\ source[s] = "CONNECTING"
  /\ source' = [source EXCEPT ![s] = "OPEN"]
  /\ delay' = [delay EXCEPT ![s] = FirstDelay]
  /\ RemoveReconnecting(s)
  /\ UNCHANGED <<enabled, timer>>

(* onerror, before or after the connection was open: scheduleReconnect.        *)
Breaks(s) ==
  /\ source[s] # "NONE"
  /\ s \in Counted => reconnectingCount < MaxCount
  /\ AddReconnecting(s)
  /\ source' = [source EXCEPT ![s] = "NONE"]
  /\ timer' = [timer EXCEPT ![s] = IF delay[s] < MaxDelay THEN delay[s] ELSE MaxDelay]
  /\ UNCHANGED <<enabled, delay>>

Doubled(s) == IF delay[s] * 2 < MaxDelay THEN delay[s] * 2 ELSE MaxDelay

TimerFires_Connected(s) ==   \* bug: reports "connected" when it only tries
  /\ timer[s] # None
  /\ timer' = [timer EXCEPT ![s] = None]
  /\ delay' = [delay EXCEPT ![s] = Doubled(s)]
  /\ source' = [source EXCEPT ![s] = "CONNECTING"]
  /\ RemoveReconnecting(s)
  /\ UNCHANGED enabled
TimerFires(s) ==
  /\ timer[s] # None
  /\ timer' = [timer EXCEPT ![s] = None]
  /\ delay' = [delay EXCEPT ![s] = Doubled(s)]
  /\ source' = [source EXCEPT ![s] = "CONNECTING"]
  /\ UNCHANGED <<enabled, reconnectingCount>>

(* The cleanup of the effect: the page is left, the auction ends, logout.      *)
Unmount_KeepsTimer(s) ==   \* bug: without clearTimeout
  /\ enabled[s]
  /\ enabled' = [enabled EXCEPT ![s] = FALSE]
  /\ RemoveReconnecting(s)
  /\ source' = [source EXCEPT ![s] = "NONE"]
  /\ delay' = [delay EXCEPT ![s] = FirstDelay]
  /\ UNCHANGED timer
Unmount(s) ==
  /\ enabled[s]
  /\ enabled' = [enabled EXCEPT ![s] = FALSE]
  /\ RemoveReconnecting(s)
  /\ source' = [source EXCEPT ![s] = "NONE"]
  /\ timer' = [timer EXCEPT ![s] = None]
  /\ delay' = [delay EXCEPT ![s] = FirstDelay]

Next ==
  \E s \in Streams : Mount(s) \/ Opens(s) \/ Breaks(s) \/ TimerFires(s) \/ Unmount(s)

Spec == Init /\ [][Next]_vars

-----------------------------------------------------------------------------
(* Properties *)

TypeOK ==
  /\ enabled \in [Streams -> BOOLEAN]
  /\ source \in [Streams -> {"NONE", "CONNECTING", "OPEN"}]
  /\ timer \in [Streams -> FirstDelay .. MaxDelay \cup {None}]
  /\ delay \in [Streams -> FirstDelay .. MaxDelay]
  /\ reconnectingCount \in 0 .. MaxCount

(* A stream that is wanted has one connection or one timer, never both and     *)
(* never neither; a page that was left has none, so no second stream delivers  *)
(* every bid twice.                                                            *)
OneSourceEach ==
  \A s \in Streams :
    /\ enabled[s] => (source[s] # "NONE") # (timer[s] # None)
    /\ ~enabled[s] => source[s] = "NONE" /\ timer[s] = None

(* From the first break until it is open again, attempts included.             *)
Reconnecting(s) == enabled[s] /\ (timer[s] # None \/ delay[s] # FirstDelay)

(* With one counted stream on the page the banner is there while it tries to   *)
(* reconnect, however often the attempts fail.                                 *)
ReconnectingIsShown ==
  (\E s \in Counted : Reconnecting(s)) => reconnectingCount > 0

(* What a page needs of its streams, and what it says of them.                 *)
StreamsHold == OneSourceEach /\ ReconnectingIsShown
=============================================================================
