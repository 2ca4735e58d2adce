------------------------------- MODULE Alerts -------------------------------
(***************************************************************************)
(* The notifications about one auction to one user who wishes for it:      *)
(* bids and the job for auctions about to end store them, some no more     *)
(* often than a window allows.  The limit is a read, the notification a    *)
(* write, and every instance runs the job.                                 *)
(***************************************************************************)
EXTENDS Integers, FiniteSets, Sequences

CONSTANTS
  Senders,    \* requests and runs of the job, of any instance
  Window,     \* how long a kind of notification about an auction is not repeated
  MaxAlerts,  \* bound on notifications
  MaxMinute,  \* bound of `minute`
  EndsAt,     \* when the auction ends
  Soon        \* how long before its end an auction is about to end

Kinds == {"ending", "activity", "overtaken"}
ASSUME WindowsAreTimes == Window \in [Kinds -> Nat]
ASSUME AlertBounds == {MaxAlerts, MaxMinute, EndsAt, Soon} \subseteq Nat

VARIABLES
  minute,
  alert,    \* rows of Notification
  sender    \* the notification each sender is about to store

alertVars == <<minute, alert, sender>>

NoAlert == [kind |-> "none", seen |-> {}]

AlertsInit ==
  /\ minute = 0
  /\ alert = <<>>
  /\ sender = [s \in Senders |-> NoAlert]

(* existsRecentForAuctionType                                                  *)
Recent_Before(kind) ==   \* bug: the comparison with the start of the window turned round
  {i \in DOMAIN alert : alert[i].kind = kind /\ alert[i].at < minute - Window[kind]}
Recent(kind) ==
  {i \in DOMAIN alert : alert[i].kind = kind /\ alert[i].at > minute - Window[kind]}

(* The job for auctions about to end. `seen` is history: what was there when   *)
(* the sender looked.                                                          *)
AboutToEnd == minute < EndsAt /\ EndsAt <= minute + Soon
Looks(s, kind) ==
  /\ sender[s] = NoAlert
  /\ sender' = [sender EXCEPT ![s] = [kind |-> kind, seen |-> DOMAIN alert]]
  /\ UNCHANGED <<minute, alert>>
EndingSoon(s) == AboutToEnd /\ Recent("ending") = {} /\ Looks(s, "ending")

(* A bid of somebody else tells those who wish for the auction, and whoever    *)
(* led before, the latter without a limit.                                     *)
BidActivity(s) == minute < EndsAt /\ Recent("activity") = {} /\ Looks(s, "activity")
Overtaken(s) == minute < EndsAt /\ Looks(s, "overtaken")

(* createAndPublish                                                            *)
Stores(s) ==
  /\ sender[s] # NoAlert
  /\ Len(alert) < MaxAlerts
  /\ alert' = Append(alert, [kind |-> sender[s].kind, at |-> minute, seen |-> sender[s].seen])
  /\ sender' = [sender EXCEPT ![s] = NoAlert]
  /\ UNCHANGED minute

(* A failed insert is logged, and the notification is not made up for.         *)
StoreFails(s) ==
  /\ sender[s] # NoAlert
  /\ sender' = [sender EXCEPT ![s] = NoAlert]
  /\ UNCHANGED <<minute, alert>>

Later ==
  /\ minute < MaxMinute
  /\ minute' = minute + 1
  /\ UNCHANGED <<alert, sender>>

AlertsNext ==
  \/ Later
  \/ \E s \in Senders :
       EndingSoon(s) \/ BidActivity(s) \/ Overtaken(s) \/ Stores(s) \/ StoreFails(s)

AlertsSpec == AlertsInit /\ [][AlertsNext]_alertVars

-----------------------------------------------------------------------------
(* Properties *)

AlertsTypeOK ==
  /\ minute \in 0 .. MaxMinute
  /\ alert \in Seq([kind : Kinds, at : 0 .. minute, seen : SUBSET (1 .. MaxAlerts)])
  /\ sender \in [Senders -> [kind : Kinds, seen : SUBSET (DOMAIN alert)] \cup {NoAlert}]
  /\ \A i \in DOMAIN alert :
       /\ alert[i].seen \subseteq 1 .. i - 1
       /\ alert[i].kind = "ending" => alert[i].at >= EndsAt - Soon

(* A limited notification comes again within its window only from a sender     *)
(* that looked before the earlier one was stored: instances that overlap can   *)
(* repeat it, and nothing else does.                                           *)
RepeatsOverlap ==
  \A i, j \in DOMAIN alert :
    /\ i < j /\ alert[i].kind = alert[j].kind /\ alert[i].kind # "overtaken"
    /\ alert[j].at < alert[i].at + Window[alert[i].kind]
    => i \notin alert[j].seen
=============================================================================
