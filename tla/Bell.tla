-------------------------------- MODULE Bell --------------------------------
(***************************************************************************)
(* The bell: the number of unread notifications of a user and, once it is  *)
(* opened, the latest of them, both read again at every event of the       *)
(* stream and after every marking as read.                                 *)
(***************************************************************************)
EXTENDS Integers, FiniteSets, Sequences

CONSTANTS
  MaxNotes,   \* bound on notifications
  PanelSize,  \* how many notifications the list asks for
  MaxMarks,   \* bound on calls that mark as read at the same time
  MaxMisses   \* bound on failures and on what another device reads

ASSUME BellBounds == {MaxNotes, PanelSize, MaxMarks, MaxMisses} \subseteq Nat

VARIABLES
  note,     \* the rows of Notification, whether read
  signal,   \* number of events on their way to the page
  bell,     \* what the queries of the count and of the list have in the cache
  open,     \* whether the list is open
  marks,    \* calls that mark as read
  misses,   \* number of failures so far
  untold    \* whether something happened that the page is not told of

bellVars == <<note, signal, bell, open, marks, misses, untold>>

Settled(shown) == [shown |-> shown, call |-> "none", got |-> shown, stale |-> FALSE]

(* The count is there from the start, the list is read when it is opened.      *)
BellInit ==
  /\ note = <<>>
  /\ signal = 0
  /\ bell = [count |-> Settled(0), list |-> [Settled({}) EXCEPT !.stale = TRUE]]
  /\ open = FALSE
  /\ marks = {}
  /\ misses = 0
  /\ untold = FALSE

Miss == misses < MaxMisses /\ misses' = misses + 1
PageStays == UNCHANGED <<bell, open, marks>>

(* createAndPublish: the event is sent and forgotten once the row is there,    *)
(* and reaches the page unless Redis or the stream fails.                      *)
Notified ==
  /\ Len(note) < MaxNotes
  /\ note' = Append(note, FALSE)
  /\ \/ signal' = signal + 1 /\ UNCHANGED <<misses, untold>>
     \/ Miss /\ untold' = TRUE /\ UNCHANGED signal
  /\ PageStays

-----------------------------------------------------------------------------
(* useNotifications, NotificationBell                                          *)

Unread == {i \in DOMAIN note : ~note[i]}
(* listForUser without a cursor, and the page that NotificationsService.list   *)
(* makes of it: one row is read too many.                                      *)
Latest == Len(note) - PanelSize + 1 .. Len(note)
Answer(which) ==
  IF which = "count" THEN Cardinality(Unread)
  ELSE {<<i, note[i]>> : i \in Latest \cap DOMAIN note}

(* A call that is under way is given up for the new one; a list nobody looks   *)
(* at is only marked, and a call for it goes on.                               *)
Asked_Joins(q) ==   \* bug: the answer of the call under way is taken for the new one
  IF q.call = "none" THEN [Settled(q.shown) EXCEPT !.call = "asked"] ELSE q
Asked(q) == [Settled(q.shown) EXCEPT !.call = "asked"]
Invalidated ==
  [count |-> Asked(bell.count),
   list  |-> IF open THEN Asked(bell.list)
             ELSE [bell.list EXCEPT !.stale = TRUE]]

(* useNotificationStream                                                       *)
EventArrives ==
  /\ signal > 0
  /\ signal' = signal - 1
  /\ bell' = Invalidated
  /\ UNCHANGED <<note, open, marks, misses, untold>>

Served(which) ==
  /\ bell[which].call = "asked"
  /\ bell' = [bell EXCEPT ![which].call = "served", ![which].got = Answer(which)]
  /\ UNCHANGED <<note, signal, open, marks, misses, untold>>

(* An answer takes the mark away, though it may be older than the mark.        *)
Arrives(which) ==
  /\ bell[which].call = "served"
  /\ bell' = [bell EXCEPT ![which] = Settled(@.got)]
  /\ untold' = (untold \/ bell[which].stale)
  /\ UNCHANGED <<note, signal, open, marks, misses>>

(* Once more without an answer.                                                *)
GivesUp(which) ==
  /\ bell[which].call # "none"
  /\ Miss
  /\ bell' = [bell EXCEPT ![which] = [Settled(@.shown) EXCEPT !.stale = TRUE]]
  /\ untold' = TRUE
  /\ UNCHANGED <<note, signal, open, marks>>

Opens ==
  /\ ~open
  /\ open' = TRUE
  /\ bell' = IF bell.list.stale /\ bell.list.call = "none"
             THEN [bell EXCEPT !.list = Asked(@)] ELSE bell
  /\ UNCHANGED <<note, signal, marks, misses, untold>>
Closes ==
  /\ open
  /\ open' = FALSE
  /\ UNCHANGED <<note, signal, bell, marks, misses, untold>>

(* A notification leads to its auction; "read all" is there while the badge    *)
(* is, and once at a time.                                                     *)
MarksOne(i) ==
  /\ Cardinality(marks) < MaxMarks
  /\ open /\ <<i, FALSE>> \in bell.list.shown
  /\ marks' = marks \cup {[what |-> i, step |-> "asked"]}
  /\ open' = FALSE
  /\ UNCHANGED <<note, signal, bell, misses, untold>>
MarksAll ==
  /\ Cardinality(marks) < MaxMarks
  /\ open /\ bell.count.shown > 0
  /\ \A m \in marks : m.what # 0
  /\ marks' = marks \cup {[what |-> 0, step |-> "asked"]}
  /\ UNCHANGED <<note, signal, bell, open, misses, untold>>

(* markRead finds only what is unread, markAllRead whatever is by now.         *)
Found(what) == IF what = 0 THEN Unread ELSE {what} \cap Unread
Marked(m) ==
  /\ m \in marks /\ m.step = "asked"
  /\ note' = [i \in DOMAIN note |-> note[i] \/ i \in Found(m.what)]
  /\ marks' = (marks \ {m}) \cup
       {[m EXCEPT !.step = IF m.what = 0 \/ Found(m.what) # {} THEN "done" ELSE "missing"]}
  /\ UNCHANGED <<signal, bell, open, misses, untold>>

(* Only a success is followed by a new read of the count and of the list.      *)
MarkAnswered(m) ==
  /\ m \in marks /\ m.step # "asked"
  /\ marks' = marks \ {m}
  /\ bell' = IF m.step = "done" THEN Invalidated ELSE bell
  /\ UNCHANGED <<note, signal, open, misses, untold>>
MarkUnanswered(m) ==
  /\ m \in marks /\ Miss
  /\ marks' = marks \ {m}
  /\ untold' = TRUE
  /\ UNCHANGED <<note, signal, bell, open>>

(* Another device of the user.                                                 *)
ReadElsewhere(i) ==
  /\ i \in Unread /\ Miss
  /\ note' = [note EXCEPT ![i] = TRUE]
  /\ untold' = TRUE
  /\ UNCHANGED signal /\ PageStays

BellNext ==
  \/ Notified \/ EventArrives \/ Opens \/ Closes \/ MarksAll
  \/ \E which \in {"count", "list"} : Served(which) \/ Arrives(which) \/ GivesUp(which)
  \/ \E i \in DOMAIN note : MarksOne(i) \/ ReadElsewhere(i)
  \/ \E m \in marks : Marked(m) \/ MarkAnswered(m) \/ MarkUnanswered(m)

(* Events and calls are answered, reads in the end also when they are given up *)
(* again and again for newer ones.                                             *)
BellFairness ==
  /\ WF_bellVars(EventArrives)
  /\ \A which \in {"count", "list"} :
       SF_bellVars(Served(which)) /\ SF_bellVars(Arrives(which))
  /\ \A what \in 0 .. MaxNotes :
       /\ WF_bellVars(Marked([what |-> what, step |-> "asked"]))
       /\ WF_bellVars(MarkAnswered([what |-> what, step |-> "done"]))

BellSpec == BellInit /\ [][BellNext]_bellVars /\ BellFairness

-----------------------------------------------------------------------------
(* Properties *)

BellTypeOK ==
  /\ note \in Seq(BOOLEAN)
  /\ signal \in 0 .. MaxNotes
  /\ \A which \in {"count", "list"} :
       bell[which].call \in {"none", "asked", "served"} /\ bell[which].stale \in BOOLEAN
  /\ bell.count.shown \in 0 .. Len(note)
  /\ bell.list.shown \subseteq (DOMAIN note) \X BOOLEAN
  /\ Cardinality(bell.list.shown) <= PanelSize
  /\ open \in BOOLEAN /\ untold \in BOOLEAN /\ misses \in 0 .. MaxMisses
  /\ marks \subseteq [what : 0 .. Len(note), step : {"asked", "done", "missing"}]

IsRight(which) == bell[which].shown = Answer(which) \/ untold

(* While it is wrong something is on its way that makes it read again: an      *)
(* event, the answer to a marking, or a call. No answer that is older than the *)
(* last of them is taken for it, and a list that is opened is not the old one. *)
Told == signal = 0 /\ \A m \in marks : m.step # "done"
BellRestsRight ==
  /\ Told /\ bell.count.call = "none" => IsRight("count")
  /\ Told /\ bell.list.call = "none" /\ open => IsRight("list")

(* Unless an event, a call or a reading elsewhere went by it, or an answer was *)
(* on its way to the closed list when an event came, the bell comes to show    *)
(* the number of unread notifications and the latest of them, however events,  *)
(* calls and markings overlap.                                                 *)
BellCatchesUp ==
  /\ ~IsRight("count") ~> IsRight("count")
  /\ open /\ ~IsRight("list") ~> IsRight("list") \/ ~open
=============================================================================
