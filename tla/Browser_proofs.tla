--------------------------- MODULE Browser_proofs ---------------------------
(***************************************************************************)
(* Theorems about what a browser holds of the server: its session          *)
(* (Sessions), the cached main page (MainPage), the purchase window with   *)
(* the list of orders and its cards (Checkout), and the bell (Bell). They  *)
(* hold for any number of browsers, calls, cards, bids, attempts,          *)
(* notifications and lost calls.                                           *)
(***************************************************************************)
EXTENDS Sessions, MainPage, Checkout, Bell, FiniteSetTheorems, SequenceTheorems, TLAPS

(***************************************************************************)
(* The session.                                                            *)
(***************************************************************************)
(* Every token somebody holds was signed, and a call that goes on has a        *)
(* browser.                                                                    *)
Known == signed \cup {None}
Placed ==
  /\ \A b \in Browsers : jar[b].refresh \in Known
  /\ \A c \in Calls : /\ call[c].refresh \in Known /\ call[c].token \in Known
                      /\ call[c].at # "idle" => call[c].browser \in Browsers

(* A call was handled at most once, and until then it goes on: one that is     *)
(* sent again has not been handled.                                            *)
Ended == {"done", "failed", "refused"}
HandledAtEnd ==
  \A c \in Calls : /\ call[c].runs <= 1
                   /\ call[c].at \notin Ended => call[c].runs = 0
                   /\ call[c].at = "refused" /\ call[c].runs > 0 => call[c].retried

(* No call of a browser that is logged out has a refresh token to renew.       *)
OutForGood ==
  \A b \in loggedOut : /\ jar[b] = EmptyJar
                       /\ \A c \in Calls : call[c].browser = b => call[c].refresh = None

(* A token that was signed once is one browser's, the calls that carry it are  *)
(* that browser's, and nobody has it while its answer is on the way.           *)
OwnedByOne ==
  /\ \A b, d \in Browsers : jar[b].refresh = jar[d].refresh /\ b # d
       => jar[b].refresh \in excused \cup {None}
  /\ \A b \in Browsers, c \in Calls : jar[b].refresh = call[c].refresh /\ call[c].browser # b
       => jar[b].refresh \in excused \cup {None}
Fresh(t) ==
  /\ t \in stored
  /\ \A b \in Browsers : jar[b].refresh # t
  /\ \A c \in Calls : call[c].refresh # t
OnTheirWay ==
  /\ \A c \in Calls : call[c].token \in excused \cup {None} \/ Fresh(call[c].token)
  /\ \A c, d \in Calls : call[c].token = call[d].token /\ c # d
       => call[c].token \in excused \cup {None}

(* A cookie whose token is revoked is about to be replaced or cleared.         *)
Replaced(b, c) ==
  /\ call[c].browser = b /\ call[c].refresh = jar[b].refresh
  /\ call[c].at \in {"renewed", "left"}
Backed ==
  \A b \in Browsers :
    jar[b].refresh \in stored \cup excused \cup {None} \/ \E c \in Calls : Replaced(b, c)

SessionInv == /\ TypeOK /\ Placed /\ HandledAtEnd /\ OneAccount /\ OutForGood
              /\ OwnedByOne /\ OnTheirWay /\ Backed

-----------------------------------------------------------------------------
(* What the type invariant says of one call and one cookie.                    *)
LEMMA Types ==
  ASSUME SessionInv
  PROVE  /\ call \in [Calls -> Call] /\ jar \in [Browsers -> [access : Token, refresh : Token]]
         /\ clock \in Nat /\ MaxTime \in Nat /\ None \notin Nat
         /\ signed \subseteq 0 .. clock /\ stored \subseteq 0 .. clock /\ excused \subseteq 0 .. clock
         /\ None \notin signed /\ None \notin stored /\ None \notin excused
         /\ NoCall \in Call /\ Known \subseteq Token
<1>1. MaxTime \in Nat /\ None \notin Nat
  BY LivesAreNat, NoneIsNoTime
<1>2. /\ call \in [Calls -> Call] /\ jar \in [Browsers -> [access : Token, refresh : Token]]
      /\ clock \in Nat /\ signed \subseteq 0 .. clock
      /\ stored \subseteq 0 .. clock /\ excused \subseteq 0 .. clock
  BY <1>1 DEF SessionInv, TypeOK
<1>3. NoCall \in Call
  BY DEF NoCall, Call, Steps, Token
<1>4. 0 .. clock \subseteq Nat
  BY <1>2
<1> QED BY <1>1, <1>2, <1>3, <1>4 DEF Token, Known

(* A call that takes a step, or starts, or ends, and no token is signed,       *)
(* stored, revoked or set: the call keeps what it carried, drops it, or reads  *)
(* the refresh cookie of its browser.                                          *)
Onward(c, new) ==
  /\ new \in Call
  /\ call' = [call EXCEPT ![c] = new]
  /\ UNCHANGED <<clock, stored, jar, loggedOut, signed, excused>>
  /\ accounts' \in [users : Nat, socials : Nat] /\ OneAccount'
  /\ call[c].at \notin {"renewed", "left"}
  /\ new.at # "idle" => new.browser \in Browsers
  /\ new.runs <= 1 /\ (new.at \notin Ended => new.runs = 0)
  /\ new.at = "refused" /\ new.runs > 0 => new.retried
  /\ new.token \in {None, call[c].token}
  /\ \/ new.refresh = None
     \/ new.refresh = call[c].refresh /\ new.browser = call[c].browser
     \/ new.browser \in Browsers /\ new.refresh = jar[new.browser].refresh

(* Such a step keeps the invariant.                                            *)
LEMMA CallGoesOn ==
  ASSUME SessionInv, NEW c \in Calls, NEW new, Onward(c, new)
  PROVE  SessionInv'
<1> USE DEF Onward
<1>0. /\ call \in [Calls -> Call] /\ None \notin signed
      /\ TypeOK /\ Placed /\ HandledAtEnd /\ OneAccount /\ OutForGood
      /\ OwnedByOne /\ OnTheirWay /\ Backed
  BY Types DEF SessionInv
<1>1. /\ call' \in [Calls -> Call] /\ call'[c] = new
      /\ \A d \in Calls : d # c => call'[d] = call[d]
  BY <1>0
<1>2. TypeOK'
  BY <1>0, <1>1 DEF TypeOK
<1>3. new.refresh \in Known /\ new.token \in Known
  BY <1>0 DEF Placed, Known
<1>4. Placed'
  BY <1>0, <1>1, <1>3 DEF Placed, Known
<1>5. HandledAtEnd' /\ OneAccount'
  BY <1>0, <1>1 DEF HandledAtEnd
<1>6. OutForGood'
  BY <1>0, <1>1 DEF OutForGood, EmptyJar, TypeOK
<1>7. OwnedByOne'
  BY <1>0, <1>1 DEF OwnedByOne
<1>8. OnTheirWay'
  <2>1. ASSUME NEW t, t \notin excused \cup {None}, Fresh(t)
        PROVE  t \in stored /\ (\A b \in Browsers : jar[b].refresh # t)
               /\ \A d \in Calls : call'[d].refresh # t
    BY <1>1, <2>1 DEF Fresh
  <2>2. ASSUME NEW d \in Calls, call'[d].token \notin excused \cup {None}
        PROVE  Fresh(call'[d].token)
    BY <1>0, <1>1, <2>2 DEF OnTheirWay
  <2>3. ASSUME NEW d \in Calls, NEW e \in Calls, d # e, call'[d].token = call'[e].token
        PROVE  call'[d].token \in excused \cup {None}
    BY <1>0, <1>1, <2>3 DEF OnTheirWay
  <2>4. ASSUME NEW d \in Calls, call'[d].token \notin excused \cup {None}
        PROVE  /\ call'[d].token \in stored
               /\ \A b \in Browsers : jar[b].refresh # call'[d].token
               /\ \A e \in Calls : call'[e].refresh # call'[d].token
    BY <2>1, <2>2, <2>4
  <2> QED BY <2>3, <2>4 DEF OnTheirWay, Fresh
<1>9. Backed'
  <2> SUFFICES ASSUME NEW b \in Browsers, jar[b].refresh \notin stored \cup excused \cup {None}
               PROVE  \E d \in Calls : Replaced(b, d)'
    BY DEF Backed
  <2>1. PICK d \in Calls : Replaced(b, d)
    BY <1>0 DEF Backed
  <2>2. d # c
    BY <2>1 DEF Replaced
  <2> QED BY <1>1, <2>1, <2>2 DEF Replaced
<1> QED BY <1>2, <1>4, <1>5, <1>6, <1>7, <1>8, <1>9 DEF SessionInv

(* What one clause of the invariant needs of a call whose step changes.        *)
LEMMA StepsTo ==
  ASSUME SessionInv, NEW c \in Calls, NEW step \in Steps, Goto(c, step)
  PROVE  /\ [call[c] EXCEPT !.at = step] \in Call
         /\ call' = [call EXCEPT ![c] = [call[c] EXCEPT !.at = step]]
         /\ call' \in [Calls -> Call]
         /\ call'[c].at = step /\ call'[c].browser = call[c].browser
         /\ call'[c].refresh = call[c].refresh /\ call'[c].token = call[c].token
         /\ call'[c].runs = call[c].runs
         /\ \A d \in Calls : d # c => call'[d] = call[d]
BY Types DEF Goto, Call

(* A token is revoked by the call that carries it, and the cookie's is that    *)
(* call's to replace.                                                          *)
LEMMA RevokingKeeps ==
  ASSUME SessionInv, NEW c \in Calls, NEW step \in {"renewed", "left"}, Goto(c, step),
         call[c].at \in {"stored", "leaving"},
         stored' = DropToken(call[c].refresh),
         UNCHANGED <<clock, accounts, jar, loggedOut, signed, excused>>
  PROVE  SessionInv'
<1>0. /\ call \in [Calls -> Call] /\ None \notin signed /\ None \notin stored
      /\ TypeOK /\ Placed /\ HandledAtEnd /\ OneAccount /\ OutForGood
      /\ OwnedByOne /\ OnTheirWay /\ Backed
  BY Types DEF SessionInv
<1>1. /\ call' \in [Calls -> Call]
      /\ call'[c].at = step /\ call'[c].browser = call[c].browser
      /\ call'[c].refresh = call[c].refresh /\ call'[c].token = call[c].token
      /\ call'[c].runs = call[c].runs
      /\ \A d \in Calls : d # c => call'[d] = call[d]
  BY StepsTo DEF Steps
<1>2. stored' = stored \ {call[c].refresh}
  BY DEF DropToken
<1>3. TypeOK'
  BY <1>0, <1>1, <1>2 DEF TypeOK
<1>4. Placed' /\ HandledAtEnd' /\ OneAccount' /\ OutForGood'
  <2>1. Placed'
    BY <1>0, <1>1 DEF Placed, Known
  <2>2. HandledAtEnd' /\ OneAccount'
    BY <1>0, <1>1 DEF HandledAtEnd, Ended, OneAccount
  <2>3. OutForGood'
    BY <1>0, <1>1 DEF OutForGood
  <2> QED BY <2>1, <2>2, <2>3
<1>5. OwnedByOne'
  BY <1>0, <1>1 DEF OwnedByOne
<1>6. \A d \in Calls : /\ call'[d].refresh = call[d].refresh /\ call'[d].token = call[d].token
                       /\ call'[d].browser = call[d].browser
  BY <1>1
<1>7. OnTheirWay'
  BY <1>0, <1>2, <1>6 DEF OnTheirWay, Fresh
<1>8. Backed'
  <2> SUFFICES ASSUME NEW b \in Browsers, jar[b].refresh \notin stored' \cup excused \cup {None}
               PROVE  \E d \in Calls : Replaced(b, d)'
    BY DEF Backed
  <2>1. CASE jar[b].refresh = call[c].refresh
    <3>1. call[c].browser = b
      BY <1>0, <2>1 DEF OwnedByOne
    <3> QED BY <1>1, <2>1, <3>1 DEF Replaced
  <2>2. CASE jar[b].refresh # call[c].refresh
    <3>1. PICK d \in Calls : Replaced(b, d)
      BY <1>0, <1>2, <2>2 DEF Backed
    <3>2. d # c
      BY <2>2, <3>1 DEF Replaced
    <3> QED BY <1>1, <3>1, <3>2 DEF Replaced
  <2> QED BY <2>1, <2>2
<1> QED BY <1>3, <1>4, <1>5, <1>7, <1>8 DEF SessionInv

(* A token that is signed and stored is new, or excused from now on.           *)
LEMMA StoringKeeps ==
  ASSUME SessionInv, NEW c \in Calls, At(c, "signing"),
         call' = [call EXCEPT ![c].at = "stored", ![c].token = clock],
         stored' = SetToken(clock), signed' = signed \cup {clock},
         excused' = excused \cup ({clock} \cap signed),
         UNCHANGED <<clock, accounts, jar, loggedOut>>
  PROVE  SessionInv'
<1>0. /\ call \in [Calls -> Call] /\ None \notin signed /\ clock \in Nat /\ None \notin Nat
      /\ TypeOK /\ Placed /\ HandledAtEnd /\ OneAccount /\ OutForGood
      /\ OwnedByOne /\ OnTheirWay /\ Backed
  BY Types DEF SessionInv
<1>1. /\ call' \in [Calls -> Call]
      /\ call'[c].at = "stored" /\ call'[c].browser = call[c].browser
      /\ call'[c].refresh = call[c].refresh /\ call'[c].token = clock
      /\ call'[c].runs = call[c].runs
      /\ \A d \in Calls : d # c => call'[d] = call[d]
  <2> DEFINE row == [[call[c] EXCEPT !.at = "stored"] EXCEPT !.token = clock]
  <2>1. /\ row \in Call /\ row.at = "stored" /\ row.token = clock
        /\ row.browser = call[c].browser /\ row.refresh = call[c].refresh
        /\ row.runs = call[c].runs
    BY <1>0 DEF Call, Steps, Token
  <2>2. call' = [call EXCEPT ![c] = row]
    BY <1>0 DEF Call
  <2> HIDE DEF row
  <2> QED BY <1>0, <2>1, <2>2
<1>2. stored' = stored \cup {clock} /\ call[c].at = "signing"
  BY DEF SetToken, At
<1>3. TypeOK'
  BY <1>0, <1>1, <1>2 DEF TypeOK
<1>4. Placed'
  BY <1>0, <1>1, <1>2 DEF Placed, Known
<1>5. HandledAtEnd' /\ OneAccount'
  BY <1>0, <1>1, <1>2 DEF HandledAtEnd, Ended, OneAccount
<1>6. OutForGood'
  BY <1>0, <1>1 DEF OutForGood
<1>7. OwnedByOne'
  BY <1>0, <1>1 DEF OwnedByOne
<1>8. OnTheirWay'
  <2>1. clock \notin excused' => /\ \A b \in Browsers : jar[b].refresh # clock
                                 /\ \A d \in Calls : call[d].refresh # clock /\ call[d].token # clock
    BY <1>0 DEF Placed, Known
  <2>2. ASSUME NEW d \in Calls, call'[d].token \notin excused' \cup {None}
        PROVE  /\ call'[d].token \in stored'
               /\ \A b \in Browsers : jar[b].refresh # call'[d].token
               /\ \A e \in Calls : call'[e].refresh # call'[d].token
    <3>1. CASE d = c
      BY <1>1, <1>2, <2>1, <2>2, <3>1
    <3>2. CASE d # c
      BY <1>0, <1>1, <1>2, <2>2, <3>2 DEF OnTheirWay, Fresh
    <3> QED BY <3>1, <3>2
  <2>3. ASSUME NEW d \in Calls, NEW e \in Calls, d # e, call'[d].token = call'[e].token
        PROVE  call'[d].token \in excused' \cup {None}
    BY <1>0, <1>1, <2>1, <2>3 DEF OnTheirWay
  <2> QED BY <2>2, <2>3 DEF OnTheirWay, Fresh
<1>9. Backed'
  <2> SUFFICES ASSUME NEW b \in Browsers, jar[b].refresh \notin stored' \cup excused' \cup {None}
               PROVE  \E d \in Calls : Replaced(b, d)'
    BY DEF Backed
  <2>1. PICK d \in Calls : Replaced(b, d)
    BY <1>0, <1>2 DEF Backed
  <2>2. d # c
    BY <1>2, <2>1 DEF Replaced
  <2> QED BY <1>1, <2>1, <2>2 DEF Replaced
<1> QED BY <1>3, <1>4, <1>5, <1>6, <1>7, <1>8, <1>9 DEF SessionInv

(* The cookies of a refresh or a login arrive; from now on they are its        *)
(* browser's.                                                                  *)
LEMMA RenewingKeeps ==
  ASSUME SessionInv, NEW c \in Calls, Renew(c)
  PROVE  SessionInv'
<1>0. /\ call \in [Calls -> Call] /\ None \notin signed
      /\ jar \in [Browsers -> [access : Token, refresh : Token]] /\ Known \subseteq Token
      /\ TypeOK /\ Placed /\ HandledAtEnd /\ OneAccount /\ OutForGood
      /\ OwnedByOne /\ OnTheirWay /\ Backed
  BY Types DEF SessionInv
<1> DEFINE o == call[c].browser
           t == call[c].token
           again == SentAgain(c)
           new == [NoCall EXCEPT !.at = IF again THEN "sent" ELSE "refused", !.browser = o,
                                 !.access = IF again THEN t ELSE None, !.retried = again,
                                 !.runs = call[c].runs]
<1>1. /\ call[c].at \in {"renewed", "broken"}
      /\ jar' = [jar EXCEPT ![o] = [access |-> t, refresh |-> t]]
      /\ loggedOut' = IF call[c].refresh = None THEN loggedOut \ {o} ELSE loggedOut
      /\ call' = [call EXCEPT ![c] = new]
      /\ UNCHANGED <<clock, accounts, stored, signed, excused>>
  BY DEF Renew
<1>2. o \in Browsers /\ t \in Known /\ again \in BOOLEAN /\ call[c].runs = 0
  BY <1>0, <1>1 DEF Placed, HandledAtEnd, Ended, SentAgain, At
<1>3. /\ new \in Call /\ new.browser = o /\ new.refresh = None /\ new.token = None
      /\ new.runs = 0 /\ new.at \in {"sent", "refused"}
  BY <1>0, <1>2 DEF Call, NoCall, Steps, Token, Known
<1> HIDE DEF new, again
<1>4. /\ call' \in [Calls -> Call] /\ call'[c] = new
      /\ \A d \in Calls : d # c => call'[d] = call[d]
  BY <1>0, <1>1, <1>3
<1>5. /\ jar' \in [Browsers -> [access : Token, refresh : Token]]
      /\ jar'[o].refresh = t
      /\ \A b \in Browsers : b # o => jar'[b] = jar[b]
  BY <1>0, <1>1, <1>2
<1>6. t \in excused \cup {None} \/ Fresh(t)
  BY <1>0 DEF OnTheirWay
<1> HIDE DEF o, t
<1>7. TypeOK'
  BY <1>0, <1>1, <1>4, <1>5 DEF TypeOK
<1>8. Placed'
  BY <1>0, <1>1, <1>2, <1>3, <1>4, <1>5 DEF Placed, Known
<1>9. HandledAtEnd' /\ OneAccount'
  BY <1>0, <1>1, <1>3, <1>4 DEF HandledAtEnd, Ended, OneAccount
<1>10. OutForGood'
  <2> SUFFICES ASSUME NEW b \in loggedOut'
               PROVE  /\ jar'[b] = EmptyJar
                      /\ \A d \in Calls : call'[d].browser = b => call'[d].refresh = None
    BY DEF OutForGood
  <2>1. b \in loggedOut /\ b \in Browsers /\ b # o
    BY <1>0, <1>1 DEF OutForGood, TypeOK, o
  <2> QED BY <1>0, <1>3, <1>4, <1>5, <2>1 DEF OutForGood
<1>11. OwnedByOne'
  <2>1. ASSUME NEW b \in Browsers, NEW d \in Browsers, jar'[b].refresh = jar'[d].refresh, b # d
        PROVE  jar'[b].refresh \in excused \cup {None}
    BY <1>0, <1>5, <1>6, <2>1 DEF OwnedByOne, Fresh
  <2>2. ASSUME NEW b \in Browsers, NEW d \in Calls, jar'[b].refresh = call'[d].refresh,
               call'[d].browser # b
        PROVE  jar'[b].refresh \in excused \cup {None}
    BY <1>0, <1>3, <1>4, <1>5, <1>6, <2>2 DEF OwnedByOne, Fresh
  <2> QED BY <1>1, <2>1, <2>2 DEF OwnedByOne
<1>12. OnTheirWay'
  <2>1. ASSUME NEW d \in Calls, call'[d].token \notin excused \cup {None}
        PROVE  /\ d # c /\ call'[d].token = call[d].token /\ Fresh(call[d].token)
               /\ call[d].token # t
    BY <1>0, <1>3, <1>4, <2>1 DEF OnTheirWay, t
  <2>2. ASSUME NEW d \in Calls, call'[d].token \notin excused \cup {None}
        PROVE  /\ call'[d].token \in stored'
               /\ \A b \in Browsers : jar'[b].refresh # call'[d].token
               /\ \A e \in Calls : call'[e].refresh # call'[d].token
    BY <1>1, <1>3, <1>4, <1>5, <2>1, <2>2 DEF Fresh
  <2>3. ASSUME NEW d \in Calls, NEW e \in Calls, d # e, call'[d].token = call'[e].token
        PROVE  call'[d].token \in excused \cup {None}
    BY <1>0, <1>3, <1>4, <2>3 DEF OnTheirWay
  <2> QED BY <1>1, <2>2, <2>3 DEF OnTheirWay, Fresh
<1>13. Backed'
  <2> SUFFICES ASSUME NEW b \in Browsers, jar'[b].refresh \notin stored \cup excused \cup {None}
               PROVE  \E d \in Calls : Replaced(b, d)'
    BY <1>1 DEF Backed
  <2>1. b # o
    BY <1>5, <1>6 DEF Fresh
  <2>2. PICK d \in Calls : Replaced(b, d)
    BY <1>0, <1>5, <2>1 DEF Backed
  <2>3. d # c
    BY <2>1, <2>2 DEF Replaced, o
  <2> QED BY <1>4, <1>5, <2>1, <2>2, <2>3 DEF Replaced
<1> QED BY <1>7, <1>8, <1>9, <1>10, <1>11, <1>12, <1>13 DEF SessionInv

(* A lost answer excuses the token its call has revoked.                       *)
LEMMA LosingKeeps ==
  ASSUME SessionInv, NEW c \in Calls, LoseAnswer(c)
  PROVE  SessionInv'
<1>0. /\ call \in [Calls -> Call] /\ None \notin signed /\ NoCall \in Call
      /\ TypeOK /\ Placed /\ HandledAtEnd /\ OneAccount /\ OutForGood
      /\ OwnedByOne /\ OnTheirWay /\ Backed
  BY Types DEF SessionInv
<1>1. /\ excused' = excused \cup ({call[c].refresh} \ {None})
      /\ call' = [call EXCEPT ![c] = NoCall]
      /\ UNCHANGED <<clock, accounts, stored, jar, loggedOut, signed>>
  BY DEF LoseAnswer
<1>2. /\ call' \in [Calls -> Call] /\ call'[c] = NoCall
      /\ \A d \in Calls : d # c => call'[d] = call[d]
      /\ NoCall.refresh = None /\ NoCall.token = None /\ NoCall.at = "idle" /\ NoCall.runs = 0
  BY <1>0, <1>1 DEF NoCall
<1>3. TypeOK' /\ Placed'
  <2>1. call[c].refresh \in Known
    BY <1>0 DEF Placed
  <2> QED BY <1>0, <1>1, <1>2, <2>1 DEF TypeOK, Placed, Known
<1>4. HandledAtEnd' /\ OneAccount'
  BY <1>0, <1>1, <1>2 DEF HandledAtEnd, Ended, OneAccount
<1>5. OutForGood'
  BY <1>0, <1>1, <1>2 DEF OutForGood, EmptyJar
<1>6. OwnedByOne'
  BY <1>0, <1>1, <1>2 DEF OwnedByOne
<1>7. OnTheirWay'
  BY <1>0, <1>1, <1>2 DEF OnTheirWay, Fresh
<1>8. Backed'
  <2> SUFFICES ASSUME NEW b \in Browsers, jar[b].refresh \notin stored \cup excused' \cup {None}
               PROVE  \E d \in Calls : Replaced(b, d)'
    BY <1>1 DEF Backed
  <2>1. PICK d \in Calls : Replaced(b, d)
    BY <1>0, <1>1 DEF Backed
  <2>2. d # c
    BY <1>1, <2>1 DEF Replaced
  <2> QED BY <1>1, <1>2, <2>1, <2>2 DEF Replaced
<1> QED BY <1>3, <1>4, <1>5, <1>6, <1>7, <1>8 DEF SessionInv

(* A logout leaves no cookie, and no other call of the browser if it counts.   *)
LEMMA ClearingKeeps ==
  ASSUME SessionInv, NEW c \in Calls, ClearCookies(c)
  PROVE  SessionInv'
<1>0. /\ call \in [Calls -> Call] /\ None \notin signed /\ NoCall \in Call
      /\ jar \in [Browsers -> [access : Token, refresh : Token]] /\ None \in Token
      /\ TypeOK /\ Placed /\ HandledAtEnd /\ OneAccount /\ OutForGood
      /\ OwnedByOne /\ OnTheirWay /\ Backed
  BY Types DEF SessionInv, Token
<1> DEFINE o == call[c].browser
<1>1. /\ call[c].at = "left" /\ jar' = [jar EXCEPT ![o] = EmptyJar]
      /\ loggedOut' = IF \A d \in Calls \ {c} : call[d].browser # o
                      THEN loggedOut \cup {o} ELSE loggedOut
      /\ call' = [call EXCEPT ![c] = NoCall]
      /\ UNCHANGED <<clock, accounts, stored, signed, excused>>
  BY DEF ClearCookies, At
<1>2. /\ call' \in [Calls -> Call] /\ call'[c] = NoCall
      /\ \A d \in Calls : d # c => call'[d] = call[d]
      /\ NoCall.refresh = None /\ NoCall.token = None /\ NoCall.at = "idle" /\ NoCall.runs = 0
  BY <1>0, <1>1 DEF NoCall
<1>3. o \in Browsers
  BY <1>0, <1>1 DEF Placed
<1>4. /\ jar' \in [Browsers -> [access : Token, refresh : Token]]
      /\ jar'[o] = EmptyJar /\ EmptyJar.refresh = None
      /\ \A b \in Browsers : b # o => jar'[b] = jar[b]
  BY <1>0, <1>1, <1>3 DEF EmptyJar
<1>5. \A d \in Calls : d # c /\ o \in loggedOut' /\ call[d].browser = o => call[d].refresh = None
  BY <1>0, <1>1 DEF OutForGood
<1> HIDE DEF o
<1>6. TypeOK'
  BY <1>0, <1>1, <1>2, <1>3, <1>4 DEF TypeOK
<1>7. Placed' /\ HandledAtEnd' /\ OneAccount'
  <2>1. Placed'
    BY <1>0, <1>1, <1>2, <1>4 DEF Placed, Known
  <2>2. HandledAtEnd' /\ OneAccount'
    BY <1>0, <1>1, <1>2 DEF HandledAtEnd, Ended, OneAccount
  <2> QED BY <2>1, <2>2
<1>8. OutForGood'
  <2> SUFFICES ASSUME NEW b \in loggedOut'
               PROVE  /\ jar'[b] = EmptyJar
                      /\ \A d \in Calls : call'[d].browser = b => call'[d].refresh = None
    BY DEF OutForGood
  <2>1. CASE b = o
    BY <1>2, <1>4, <1>5, <2>1
  <2>2. CASE b # o
    <3>1. b \in loggedOut /\ b \in Browsers
      BY <1>0, <1>1, <2>2 DEF TypeOK
    <3> QED BY <1>0, <1>2, <1>4, <2>2, <3>1 DEF OutForGood
  <2> QED BY <2>1, <2>2
<1>9. OwnedByOne'
  BY <1>0, <1>1, <1>2, <1>4 DEF OwnedByOne
<1>10. OnTheirWay'
  BY <1>0, <1>1, <1>2, <1>4 DEF OnTheirWay, Fresh
<1>11. Backed'
  <2> SUFFICES ASSUME NEW b \in Browsers, jar'[b].refresh \notin stored \cup excused \cup {None}
               PROVE  \E d \in Calls : Replaced(b, d)'
    BY <1>1 DEF Backed
  <2>1. b # o
    BY <1>4
  <2>2. PICK d \in Calls : Replaced(b, d)
    BY <1>0, <1>4, <2>1 DEF Backed
  <2>3. d # c
    BY <2>1, <2>2 DEF Replaced, o
  <2> QED BY <1>2, <1>4, <2>1, <2>2, <2>3 DEF Replaced
<1> QED BY <1>6, <1>7, <1>8, <1>9, <1>10, <1>11 DEF SessionInv

-----------------------------------------------------------------------------
LEMMA SessionsStart ==
  ASSUME Init PROVE SessionInv
<1>1. /\ clock = 0 /\ stored = {} /\ signed = {} /\ excused = {} /\ loggedOut = {}
      /\ accounts = [users |-> 0, socials |-> 0]
      /\ jar = [b \in Browsers |-> EmptyJar] /\ call = [c \in Calls |-> NoCall]
      /\ MaxTime \in Nat /\ NoCall \in Call
  BY LivesAreNat DEF Init, NoCall, Call, Steps, Token
<1>2. /\ \A b \in Browsers : jar[b].refresh = None
      /\ \A c \in Calls : /\ call[c].refresh = None /\ call[c].token = None
                          /\ call[c].at = "idle" /\ call[c].runs = 0
  BY <1>1 DEF EmptyJar, NoCall
<1>3. TypeOK
  BY <1>1 DEF TypeOK, EmptyJar, Token
<1>4. Placed /\ HandledAtEnd /\ OneAccount /\ OutForGood
  BY <1>1, <1>2 DEF Placed, Known, HandledAtEnd, OneAccount, OutForGood
<1>5. OwnedByOne /\ OnTheirWay /\ Backed
  BY <1>2 DEF OwnedByOne, OnTheirWay, Backed
<1> QED BY <1>3, <1>4, <1>5 DEF SessionInv

LEMMA TimeKeeps ==
  ASSUME SessionInv, Tick \/ UNCHANGED vars
  PROVE  SessionInv'
<1>1. /\ clock' \in 0 .. MaxTime /\ 0 .. clock \subseteq 0 .. clock'
      /\ UNCHANGED <<accounts, stored, jar, call, loggedOut, signed, excused>>
  BY Types DEF Tick, vars, SessionInv, TypeOK
<1>2. TypeOK'
  BY <1>1, Types DEF SessionInv, TypeOK
<1>3. Placed' /\ HandledAtEnd' /\ OneAccount' /\ OutForGood'
  BY <1>1 DEF SessionInv, Placed, Known, HandledAtEnd, OneAccount, OutForGood
<1>4. OwnedByOne' /\ OnTheirWay' /\ Backed'
  BY <1>1 DEF SessionInv, OwnedByOne, OnTheirWay, Fresh, Backed, Replaced
<1> QED BY <1>2, <1>3, <1>4 DEF SessionInv

(* A call that ends, or waits for its refresh, keeps nothing.                  *)
LEMMA FinishingKeeps ==
  ASSUME SessionInv, NEW c \in Calls, NEW step \in {"refused", "failed", "unauthorized"},
         Finish(c, step), call[c].at \notin {"idle", "renewed", "left"} \cup Ended,
         UNCHANGED <<clock, accounts, stored, jar, loggedOut, signed, excused>>
  PROVE  SessionInv'
<1> DEFINE new == [NoCall EXCEPT !.at = step, !.browser = call[c].browser, !.runs = call[c].runs]
<1>1. call[c] \in Call /\ call[c].browser \in Browsers /\ call[c].runs = 0
  BY Types DEF SessionInv, Placed, HandledAtEnd, Ended
<1>2. /\ new \in Call /\ new.browser \in Browsers /\ new.refresh = None /\ new.token = None
      /\ new.runs = 0
  BY <1>1, Types DEF Call, NoCall, Steps, Token
<1>3. call' = [call EXCEPT ![c] = new]
  BY DEF Finish
<1> HIDE DEF new
<1>4. accounts' \in [users : Nat, socials : Nat] /\ OneAccount'
  BY DEF SessionInv, TypeOK, OneAccount
<1>5. Onward(c, new)
  BY <1>1, <1>2, <1>3, <1>4 DEF Onward
<1> QED BY <1>5, CallGoesOn

(* A call whose step is all that changes, the account of its identity aside.   *)
LEMMA SteppingKeeps ==
  ASSUME SessionInv, NEW c \in Calls, NEW step \in Steps, Goto(c, step),
         call[c].at \notin {"idle", "renewed", "left"} \cup Ended,
         UNCHANGED <<clock, stored, jar, loggedOut, signed, excused>>,
         \/ UNCHANGED accounts
         \/ /\ ~Taken
            /\ accounts' = [users |-> accounts.users + 1, socials |-> accounts.socials + 1]
  PROVE  SessionInv'
<1> DEFINE new == [call[c] EXCEPT !.at = step]
<1>1. /\ new \in Call /\ new.browser = call[c].browser /\ new.refresh = call[c].refresh
      /\ new.token = call[c].token /\ new.runs = call[c].runs
      /\ call' = [call EXCEPT ![c] = new]
  BY StepsTo, Types DEF Call
<1>2. call[c].browser \in Browsers /\ call[c].runs = 0
  BY DEF SessionInv, Placed, HandledAtEnd, Ended
<1>3. accounts' \in [users : Nat, socials : Nat] /\ OneAccount'
  <2>1. accounts \in [users : Nat, socials : Nat] /\ OneAccount
    BY DEF SessionInv, TypeOK
  <2> QED BY <2>1 DEF OneAccount, Taken
<1> HIDE DEF new
<1>4. Onward(c, new)
  BY <1>1, <1>2, <1>3 DEF Onward
<1> QED BY <1>4, CallGoesOn

(* A call that starts.                                                         *)
LEMMA StartingKeeps ==
  ASSUME SessionInv, NEW c \in Calls, NEW b \in Browsers, Send(c, b) \/ Login(c, b) \/ Logout(c, b)
  PROVE  SessionInv'
<1>0. /\ call[c].at = "idle" /\ jar[b].access \in Token /\ jar[b].refresh \in Token
      /\ NoCall \in Call
      /\ UNCHANGED <<clock, accounts, stored, jar, loggedOut, signed, excused>>
      /\ accounts' \in [users : Nat, socials : Nat] /\ OneAccount'
  BY Types DEF Send, Login, Logout, At, SessionInv, TypeOK, OneAccount
<1>1. CASE Send(c, b)
  <2> DEFINE new == [NoCall EXCEPT !.at = "sent", !.browser = b, !.access = jar[b].access]
  <2>1. /\ new \in Call /\ new.browser = b /\ new.refresh = None /\ new.token = None
        /\ new.runs = 0 /\ call' = [call EXCEPT ![c] = new]
    BY <1>0, <1>1 DEF Send, Call, NoCall, Steps, Token
  <2> HIDE DEF new
  <2>2. Onward(c, new)
    BY <1>0, <2>1 DEF Onward
  <2> QED BY <2>2, CallGoesOn
<1>2. CASE Login(c, b)
  <2> DEFINE new == [NoCall EXCEPT !.browser = b, !.at = "identified"]
  <2>1. /\ new \in Call /\ new.browser = b /\ new.refresh = None /\ new.token = None
        /\ new.runs = 0 /\ call' = [call EXCEPT ![c] = new]
    BY <1>0, <1>2 DEF Login, Call, NoCall, Steps, Token
  <2> HIDE DEF new
  <2>2. Onward(c, new)
    BY <1>0, <2>1 DEF Onward
  <2> QED BY <2>2, CallGoesOn
<1>3. CASE Logout(c, b)
  <2> DEFINE new == [NoCall EXCEPT !.at = "leaving", !.browser = b, !.refresh = jar[b].refresh]
  <2>1. /\ new \in Call /\ new.browser = b /\ new.refresh = jar[b].refresh /\ new.token = None
        /\ new.runs = 0 /\ call' = [call EXCEPT ![c] = new]
    BY <1>0, <1>3 DEF Logout, Call, NoCall, Steps, Token
  <2> HIDE DEF new
  <2>2. Onward(c, new)
    BY <1>0, <2>1 DEF Onward
  <2> QED BY <2>2, CallGoesOn
<1> QED BY <1>1, <1>2, <1>3

(* A call that is handled, and one whose caller has the answer.                *)
LEMMA HandlingKeeps ==
  ASSUME SessionInv, NEW c \in Calls, Handle(c) \/ Anonymous(c) \/ End(c)
  PROVE  SessionInv'
<1>0. /\ call[c] \in Call /\ NoCall \in Call
      /\ UNCHANGED <<clock, accounts, stored, jar, loggedOut, signed, excused>>
      /\ accounts' \in [users : Nat, socials : Nat] /\ OneAccount'
  BY Types DEF Handle, Anonymous, End, SessionInv, TypeOK, OneAccount
<1>1. ASSUME NEW answer \in Ended, At(c, "sent"), Handled(c, answer),
             answer = "refused" => call[c].retried
      PROVE  SessionInv'
  <2> DEFINE new == [NoCall EXCEPT !.at = answer, !.browser = call[c].browser,
                                   !.runs = call[c].runs + 1, !.retried = call[c].retried]
  <2>1. call[c].at = "sent" /\ call[c].runs = 0 /\ call[c].browser \in Browsers
    BY <1>1 DEF At, SessionInv, HandledAtEnd, Ended, Placed
  <2>0. answer \in Steps /\ call[c].runs + 1 = 1 /\ call[c].runs + 1 \in Nat
    BY <2>1 DEF Steps, Ended
  <2>2. /\ new \in Call /\ new.browser \in Browsers /\ new.refresh = None /\ new.token = None
        /\ new.runs = 1 /\ new.at = answer /\ new.retried = call[c].retried
    <3> HIDE DEF new
    <3>1. /\ new.at = answer /\ new.browser = call[c].browser /\ new.runs = call[c].runs + 1
          /\ new.refresh = None /\ new.token = None /\ new.retried = call[c].retried
      BY DEF new, NoCall
    <3>2. new \in Call
      BY <1>0, <2>0, <2>1 DEF new, Call, NoCall, Token
    <3> QED BY <2>0, <2>1, <3>1, <3>2
  <2>3. call' = [call EXCEPT ![c] = new]
    BY <1>1 DEF Handled
  <2> HIDE DEF new
  <2>4. Onward(c, new)
    BY <1>0, <1>1, <2>1, <2>2, <2>3 DEF Onward, Ended
  <2> QED BY <2>4, CallGoesOn
<1>2. CASE End(c)
  <2>1. call[c].at \in {"done", "failed", "refused"} /\ call' = [call EXCEPT ![c] = NoCall]
    BY <1>2 DEF End
  <2>2. NoCall.at = "idle" /\ NoCall.refresh = None /\ NoCall.token = None /\ NoCall.runs = 0
    BY DEF NoCall
  <2>3. Onward(c, NoCall)
    BY <1>0, <2>1, <2>2 DEF Onward
  <2> QED BY <2>3, CallGoesOn
<1>3. CASE Handle(c)
  BY <1>1, <1>3 DEF Handle, Answers, Refusal, Ended
<1>4. CASE Anonymous(c)
  BY <1>1, <1>4 DEF Anonymous, Ended
<1> QED BY <1>2, <1>3, <1>4

LEMMA RefreshReads ==
  ASSUME SessionInv, NEW c \in Calls, Refresh(c)
  PROVE  SessionInv'
<1> DEFINE o == call[c].browser
           t == jar[o].refresh
           step == IF t = None THEN "refused" ELSE "reading"
           new == [call[c] EXCEPT !.refresh = t, !.at = step]
<1>1. /\ call[c].at = "unauthorized" /\ call \in [Calls -> Call] /\ o \in Browsers
      /\ call[c].runs = 0 /\ t \in Token
      /\ UNCHANGED <<clock, accounts, stored, jar, loggedOut, signed, excused>>
      /\ accounts' \in [users : Nat, socials : Nat] /\ OneAccount'
  BY Types DEF Refresh, At, SessionInv, TypeOK, OneAccount, Placed, HandledAtEnd, Ended
<1>2. /\ new \in Call /\ new.browser = o /\ new.refresh = t /\ new.token = call[c].token
      /\ new.runs = 0 /\ new.at = step /\ step \in {"refused", "reading"}
  <2>1. step \in {"refused", "reading"} /\ step \in Steps /\ call[c] \in Call
    BY <1>1 DEF Steps
  <2> HIDE DEF step, t
  <2>2. new \in Call
    BY <1>1, <2>1 DEF Call
  <2>3. /\ new.browser = o /\ new.refresh = t /\ new.token = call[c].token
        /\ new.runs = call[c].runs /\ new.at = step
    BY <2>1 DEF Call
  <2> QED BY <1>1, <2>1, <2>2, <2>3
<1>3. call' = [call EXCEPT ![c] = new]
  BY <1>1 DEF Refresh, Call
<1> HIDE DEF new, step
<1>4. Onward(c, new)
  BY <1>1, <1>2, <1>3 DEF Onward
<1> QED BY <1>4, CallGoesOn

LEMMA ProgressKeeps ==
  ASSUME SessionInv, NEW c \in Calls, Progress(c)
  PROVE  SessionInv'
<1> USE DEF At, Steps, Ended
<1>1. CASE Unauthorized(c)
  BY <1>1, FinishingKeeps DEF Unauthorized
<1>0. CASE GuardFails(c)
  BY <1>0, FinishingKeeps DEF GuardFails, Refusal
<1>2. CASE ReadToken(c)
  BY <1>2, FinishingKeeps, SteppingKeeps DEF ReadToken
<1>3. CASE StoreToken(c)
  BY <1>3, FinishingKeeps, StoringKeeps DEF StoreToken
<1>4. CASE RevokeOld(c)
  BY <1>4, SteppingKeeps, RevokingKeeps DEF RevokeOld
<1>5. CASE LookUp(c)
  BY <1>5, FinishingKeeps, SteppingKeeps DEF LookUp
<1>6. CASE CreateAccount(c)
  BY <1>6, FinishingKeeps, SteppingKeeps DEF CreateAccount
<1>7. CASE Revoke(c)
  BY <1>7, FinishingKeeps, RevokingKeeps DEF Revoke
<1> QED
  BY <1>0, <1>1, <1>2, <1>3, <1>4, <1>5, <1>6, <1>7, HandlingKeeps, RefreshReads, RenewingKeeps,
     ClearingKeeps DEF Progress

LEMMA SessionsHold == Spec => []SessionInv
<1>1. SessionInv /\ [Next]_vars => SessionInv'
  <2> SUFFICES ASSUME SessionInv, [Next]_vars PROVE SessionInv'
    OBVIOUS
  <2>1. CASE Tick \/ UNCHANGED vars
    BY <2>1, TimeKeeps
  <2>2. ASSUME NEW c \in Calls, NEW b \in Browsers, Send(c, b) \/ Login(c, b) \/ Logout(c, b)
        PROVE  SessionInv'
    BY <2>2, StartingKeeps
  <2>3. ASSUME NEW c \in Calls, Progress(c) \/ LoseAnswer(c)
        PROVE  SessionInv'
    BY <2>3, ProgressKeeps, LosingKeeps
  <2> QED BY <2>1, <2>2, <2>3 DEF Next
<1> QED BY <1>1, SessionsStart, PTL DEF Spec

(* The tokens, the cookies and the calls are what their kinds say.             *)
THEOREM SessionsTyped == Spec => []TypeOK
<1>1. SessionInv => TypeOK
  BY DEF SessionInv
<1> QED BY <1>1, SessionsHold, PTL

(* However many tabs refresh, and whatever fails, a browser at rest has a      *)
(* cookie that Redis knows, unless it was signed twice or its answer was lost  *)
(* (auth.service refreshWithCookies).                                          *)
THEOREM SessionsAreKept == Spec => []SessionKept
<1>1. SessionInv => SessionKept
  <2> SUFFICES ASSUME SessionInv, NEW b \in Browsers, Quiet(b)
               PROVE  jar[b].refresh \in stored \cup excused \cup {None}
    BY DEF SessionKept
  <2>1. \A c \in Calls : ~Replaced(b, c)
    BY DEF Quiet, Replaced
  <2> QED BY <2>1 DEF SessionInv, Backed
<1> QED BY <1>1, SessionsHold, PTL

(* A call is handled at most once, also when it is sent again, and of the      *)
(* calls told to sign in only one sent again was handled (fetcher).            *)
THEOREM CallsAreHandledOnce == Spec => []HandledOnce
<1>1. SessionInv => HandledOnce
  BY DEF SessionInv, HandledAtEnd, HandledOnce, At
<1> QED BY <1>1, SessionsHold, PTL

(* Who logged out with nothing else under way is out until the next login      *)
(* (auth.service logout).                                                      *)
THEOREM LogoutsLast == Spec => []OutStaysOut
<1>1. SessionInv => OutStaysOut
  BY DEF SessionInv, OutForGood, OutStaysOut
<1> QED BY <1>1, SessionsHold, PTL

(* An identity has at most one user, and a user an identity (auth.service      *)
(* findOrCreateUserByOAuth).                                                   *)
THEOREM IdentitiesHaveOneUser == Spec => []OneAccount
<1>1. SessionInv => OneAccount
  BY DEF SessionInv
<1> QED BY <1>1, SessionsHold, PTL

(***************************************************************************)
(* The purchase window and the card of an order.                           *)
(***************************************************************************)
FlowSteps == {"unused", "buying", "bought", "paying", "paid", "failed", "done"}
ModalRow == [step : Closable \cup {"closed", "creating", "paying"}, of : SUBSET Flows]
FlowRow == [step : FlowSteps, from : {"detail", "bids", "other"}]
ReviewCall == [ours : BOOLEAN, step : {"asked", "done", "refused"}]
ReviewRow == [card : {"button", "form", "done"}, calls : SUBSET ReviewCall, row : BOOLEAN]

(* What was answered is so: a paid call is of a paid order, which it stays; a  *)
(* review that was accepted is there, and is of a paid order.                  *)
SaidInv ==
  /\ place \in {"detail", "bids", "other"} /\ modal \in ModalRow
  /\ flow \in [Flows -> FlowRow] /\ review \in ReviewRow
  /\ \A f \in Flows : flow[f].step = "paid" => sale = "PAID"
  /\ \A c \in review.calls : c.step = "done" => review.row
  /\ review.row => sale = "PAID"
  /\ WhatIsSaidIsSo

LEMMA SaidAtFirst == ASSUME CheckoutInit PROVE SaidInv
BY DEF CheckoutInit, SaidInv, WhatIsSaidIsSo, Closed, Closable, ModalRow, FlowRow,
       FlowSteps, ReviewRow

(* A paid order stays paid, whoever buys, pays or lets it run out.             *)
LEMMA PaidOnceIsPaid ==
  ASSUME [CheckoutNext]_checkoutVars, sale = "PAID" PROVE sale' = "PAID"
BY DEF CheckoutNext, checkoutVars, Visits, GrowsOld, OrdersServed, OrdersArrive, OrdersLost,
       OpensWindow, ClosesWindow, Confirms, BuyServed, Bought, PayServed, Answered, CallLost,
       AuctionEnds, Expires, EventComes, EventLost, OpensForm, ClosesForm, SendsReview,
       ReviewServed, ReviewAnswered, ReviewLost, SaleStays, SaleEnds, Reviews

(* A step that says nothing new of the window: it is closed, or led on.        *)
LEMMA SaidByWindow ==
  ASSUME SaidInv, sale = "PAID" => sale' = "PAID",
         place' \in {"detail", "bids", "other"},
         modal' \in ModalRow, modal'.step \in {modal.step, "closed", "confirm", "error"},
         UNCHANGED <<flow, review>>
  PROVE  SaidInv'
BY DEF SaidInv, WhatIsSaidIsSo

(* A flow that goes on, to "paid" only with the order, and what the window     *)
(* shows of it.                                                                *)
LEMMA SaidByFlow ==
  ASSUME SaidInv, sale = "PAID" => sale' = "PAID", UNCHANGED <<place, review>>,
         NEW f \in Flows, NEW row \in FlowRow, flow' = [flow EXCEPT ![f] = row],
         row.step = "paid" => sale' = "PAID",
         modal' \in ModalRow,
         modal'.step = "complete" => modal.step = "complete" \/ sale' = "PAID"
  PROVE  SaidInv'
<1>1. /\ flow' \in [Flows -> FlowRow] /\ flow'[f] = row
      /\ \A g \in Flows : g # f => flow'[g] = flow[g]
  BY DEF SaidInv
<1> QED BY <1>1 DEF SaidInv, WhatIsSaidIsSo

(* The card and the calls of the review go on, to "done" only with the row.    *)
LEMMA SaidByCard ==
  ASSUME SaidInv, UNCHANGED <<sale, place, modal, flow>>,
         review' \in ReviewRow, review.row => review'.row,
         review'.row => review.row \/ sale = "PAID",
         \A c \in review'.calls : c.step = "done" => review'.row,
         review'.card = "done" => review'.row
  PROVE  SaidInv'
BY DEF SaidInv, WhatIsSaidIsSo

LEMMA ShowsIsRow ==
  ASSUME SaidInv, NEW f \in Flows, NEW step \in Closable \cup {"closed", "creating", "paying"},
         Shows(f, step)
  PROVE  modal' \in ModalRow /\ modal'.step \in {modal.step, step}
BY DEF SaidInv, Shows, ModalRow

LEMMA GoesIsRow ==
  ASSUME SaidInv, NEW f \in Flows, NEW step \in FlowSteps, Goes(f, step)
  PROVE  \E row \in FlowRow : flow' = [flow EXCEPT ![f] = row] /\ row.step = step
<1> DEFINE row == [flow[f] EXCEPT !.step = step]
<1>1. row \in FlowRow /\ row.step = step
  BY DEF SaidInv, FlowRow
<1>2. flow' = [flow EXCEPT ![f] = row]
  BY DEF SaidInv, Goes, FlowRow
<1> HIDE DEF row
<1> QED BY <1>1, <1>2

(* Leaving a page takes the card with it, not the calls it made.               *)
LEMMA CardGoes ==
  ASSUME review \in ReviewRow, \A c \in review.calls : c.step = "done" => review.row,
         review' = CardGone
  PROVE  review' \in ReviewRow /\ \A c \in review'.calls : c.step = "done" => review'.row
<1> DEFINE left == {[c EXCEPT !.ours = FALSE] : c \in review.calls}
<1>1. /\ review' = [card |-> "button", row |-> review.row, calls |-> left]
      /\ review.row \in BOOLEAN /\ review.calls \subseteq ReviewCall
  BY DEF CardGone, ReviewRow
<1>2. \A c \in ReviewCall :
        [c EXCEPT !.ours = FALSE] \in ReviewCall /\ [c EXCEPT !.ours = FALSE].step = c.step
  BY DEF ReviewCall
<1>3. \A d \in left : d \in ReviewCall /\ (d.step = "done" => review.row)
  <2> SUFFICES ASSUME NEW c \in review.calls
               PROVE  /\ [c EXCEPT !.ours = FALSE] \in ReviewCall
                      /\ [c EXCEPT !.ours = FALSE].step = "done" => review.row
    OBVIOUS
  <2> QED BY <1>1, <1>2
<1> HIDE DEF left
<1>4. review'.calls = left /\ review'.row = review.row
  BY <1>1
<1>5. review' \in ReviewRow
  BY <1>1, <1>3 DEF ReviewRow
<1> QED BY <1>3, <1>4, <1>5

(* With the window shut and the card gone, nothing is said any more.           *)
LEMMA NothingSaid ==
  ASSUME SaidInv, place' \in {"detail", "bids", "other"}, modal' = Closed,
         review' = CardGone, flow' = flow, sale = "PAID" => sale' = "PAID"
  PROVE  SaidInv'
<1>1. /\ review' \in ReviewRow
      /\ \A c \in review'.calls : c.step = "done" => review'.row
  BY CardGoes DEF SaidInv
<1>2. Closed \in ModalRow /\ Closed.step = "closed"
  BY DEF Closed, ModalRow
<1>3. review'.card = "button" /\ review'.row = review.row
  BY DEF SaidInv, CardGone, ReviewRow
<1>4. WhatIsSaidIsSo'
  BY <1>2, <1>3 DEF WhatIsSaidIsSo
<1> QED BY <1>1, <1>2, <1>3, <1>4 DEF SaidInv

LEMMA SaidStep == ASSUME SaidInv, [CheckoutNext]_checkoutVars PROVE SaidInv'
<1>0. /\ sale = "PAID" => sale' = "PAID"
      /\ place \in {"detail", "bids", "other"} /\ modal \in ModalRow
      /\ flow \in [Flows -> FlowRow] /\ review \in ReviewRow
  BY PaidOnceIsPaid DEF SaidInv
<1>1. ASSUME NEW page \in {"detail", "bids", "other"}, Visits(page) PROVE SaidInv'
  <2>1. /\ place' = page /\ modal' = Closed /\ flow' = flow /\ sale' = sale
        /\ review' = CardGone
    BY <1>1 DEF Visits
  <2> QED BY <1>1, <2>1, NothingSaid
<1>2. CASE GrowsOld \/ OrdersServed \/ OrdersArrive \/ EventComes \/ EventLost \/ Expires
           \/ AuctionEnds \/ UNCHANGED checkoutVars
  <2>1. UNCHANGED <<place, modal, flow, review>>
    BY <1>2 DEF GrowsOld, OrdersServed, OrdersArrive, EventComes, EventLost, Expires,
                AuctionEnds, SaleEnds, checkoutVars
  <2> QED BY <1>0, <2>1, SaidByWindow
<1>3. CASE OrdersLost
  <2>1. /\ UNCHANGED <<sale, place, flow>>
        /\ \/ UNCHANGED <<modal, review>>
           \/ modal' = Closed /\ review' = CardGone
    BY <1>3 DEF OrdersLost, SaleStays
  <2>2. CASE UNCHANGED <<modal, review>>
    BY <1>0, <2>1, <2>2, SaidByWindow
  <2>3. CASE modal' = Closed /\ review' = CardGone
    BY <1>0, <2>1, <2>3, NothingSaid
  <2> QED BY <2>1, <2>2, <2>3
<1>4. CASE OpensWindow \/ ClosesWindow
  <2>1. modal' \in ModalRow /\ modal'.step \in {"closed", "confirm"}
    BY <1>4 DEF OpensWindow, ClosesWindow, Closed, ModalRow, Closable
  <2>2. UNCHANGED <<sale, place, flow, review>>
    BY <1>4 DEF OpensWindow, ClosesWindow, OrdersStay, SaleStays
  <2> QED BY <1>0, <2>1, <2>2, SaidByWindow
<1>5. ASSUME NEW f \in Flows, Confirms(f) PROVE SaidInv'
  <2> DEFINE row == [step |-> IF place = "detail" THEN "buying" ELSE "paying", from |-> place]
  <2>1. row \in FlowRow /\ row.step # "paid"
    BY <1>0 DEF FlowRow, FlowSteps
  <2>2. /\ flow' = [flow EXCEPT ![f] = row] /\ UNCHANGED <<sale, place, review>>
        /\ modal' = [step |-> IF place = "detail" THEN "creating" ELSE "paying", of |-> {f}]
    BY <1>5 DEF Confirms, SaleStays, OrdersStay
  <2>3. modal' \in ModalRow /\ modal'.step # "complete"
    BY <2>2 DEF ModalRow
  <2> HIDE DEF row
  <2> QED BY <1>0, <2>1, <2>2, <2>3, SaidByFlow
<1>6. ASSUME NEW f \in Flows, BuyServed(f) \/ PayServed(f) PROVE SaidInv'
  <2>1. /\ UNCHANGED <<place, review, modal>>
        /\ \E step \in {"bought", "failed", "paid"} :
             Goes(f, step) /\ (step = "paid" => sale' = "PAID")
    BY <1>6 DEF BuyServed, PayServed, SaleEnds, SaleStays, OrdersStay
  <2>2. PICK step \in {"bought", "failed", "paid"} :
          Goes(f, step) /\ (step = "paid" => sale' = "PAID")
    BY <2>1
  <2>3. PICK row \in FlowRow : flow' = [flow EXCEPT ![f] = row] /\ row.step = step
    BY <2>2, GoesIsRow DEF FlowSteps
  <2> QED BY <1>0, <2>1, <2>2, <2>3, SaidByFlow
<1>7. ASSUME NEW f \in Flows, Bought(f) \/ CallLost(f) PROVE SaidInv'
  <2>1. /\ UNCHANGED <<sale, place, review>>
        /\ \E step \in {"paying", "done"}, says \in {"paying", "error"} :
             Goes(f, step) /\ Shows(f, says)
    BY <1>7 DEF Bought, CallLost, Throws, SaleStays, OrdersStay
  <2>2. PICK step \in {"paying", "done"}, says \in {"paying", "error"} :
          Goes(f, step) /\ Shows(f, says)
    BY <2>1
  <2>3. PICK row \in FlowRow : flow' = [flow EXCEPT ![f] = row] /\ row.step = step
    BY <2>2, GoesIsRow DEF FlowSteps
  <2>4. modal' \in ModalRow /\ modal'.step \in {modal.step, says}
    BY <2>2, ShowsIsRow DEF Closable
  <2> QED BY <1>0, <2>1, <2>2, <2>3, <2>4, SaidByFlow
<1>8. ASSUME NEW f \in Flows, Answered(f) PROVE SaidInv'
  <2>1. /\ UNCHANGED <<sale, place, review>> /\ Goes(f, "done") /\ Shows(f, Concluded(f))
        /\ Concluded(f) \in {"complete", "error"}
        /\ Concluded(f) = "complete" => sale = "PAID"
    BY <1>8 DEF Answered, Concluded, SaleStays, SaidInv
  <2>2. PICK row \in FlowRow : flow' = [flow EXCEPT ![f] = row] /\ row.step = "done"
    BY <2>1, GoesIsRow DEF FlowSteps
  <2>3. modal' \in ModalRow /\ modal'.step \in {modal.step, Concluded(f)}
    BY <2>1, ShowsIsRow DEF Closable
  <2> QED BY <1>0, <2>1, <2>2, <2>3, SaidByFlow
<1>9. CASE OpensForm \/ ClosesForm
  <2>1. UNCHANGED <<sale, place, modal, flow>>
    BY <1>9 DEF OpensForm, ClosesForm, Reviews, SaleStays
  <2>2. \E card \in {"button", "form"} : review' = [review EXCEPT !.card = card]
    BY <1>0, <1>9 DEF OpensForm, ClosesForm, Reviews, ReviewRow
  <2> QED BY <1>0, <2>1, <2>2, SaidByCard DEF ReviewRow, SaidInv
<1>10. CASE SendsReview
  <2> DEFINE new == [ours |-> TRUE, step |-> "asked"]
  <2>1. UNCHANGED <<sale, place, modal, flow>>
    BY <1>10 DEF SendsReview, Reviews, SaleStays
  <2>2. /\ review' = [review EXCEPT !.card = "form", !.calls = review.calls \cup {new}]
        /\ new \in ReviewCall /\ new.step # "done"
    BY <1>10 DEF SendsReview, Reviews, ReviewCall
  <2> HIDE DEF new
  <2>3. /\ review' \in ReviewRow /\ review'.row = review.row /\ review'.card = "form"
        /\ review'.calls = review.calls \cup {new}
    BY <1>0, <2>2 DEF ReviewRow
  <2> QED BY <2>1, <2>2, <2>3, SaidByCard DEF SaidInv
<1>11. ASSUME NEW c \in review.calls, ReviewServed(c) PROVE SaidInv'
  <2> DEFINE accepted == sale = "PAID" /\ ~review.row
             next == [c EXCEPT !.step = IF accepted THEN "done" ELSE "refused"]
             calls == (review.calls \ {c}) \cup {next}
  <2>1. UNCHANGED <<sale, place, modal, flow>>
    BY <1>11 DEF ReviewServed, SaleStays
  <2>2. c \in ReviewCall /\ next \in ReviewCall /\ (next.step = "done" => accepted)
    BY <1>0 DEF ReviewRow, ReviewCall
  <2>3. review' = [review EXCEPT !.row = review.row \/ accepted, !.calls = calls]
    BY <1>0, <1>11 DEF ReviewServed, ReviewRow
  <2> HIDE DEF next
  <2>4. calls \in SUBSET ReviewCall /\ \A d \in calls : d \in review.calls \/ d = next
    BY <1>0, <2>2 DEF ReviewRow
  <2> HIDE DEF calls
  <2>5. /\ review' \in ReviewRow /\ review'.row = (review.row \/ accepted)
        /\ review'.card = review.card /\ review'.calls = calls
    BY <1>0, <2>3, <2>4 DEF ReviewRow
  <2> QED BY <2>1, <2>2, <2>4, <2>5, SaidByCard DEF SaidInv, WhatIsSaidIsSo
<1>12. ASSUME NEW c \in review.calls, ReviewAnswered(c) \/ ReviewLost(c) PROVE SaidInv'
  <2>1. UNCHANGED <<sale, place, modal, flow>>
    BY <1>12 DEF ReviewAnswered, ReviewLost, Reviews, SaleStays
  <2>2. \E card \in {review.card, "done"} :
          /\ review' = [review EXCEPT !.card = card, !.calls = review.calls \ {c}]
          /\ card = "done" => review.card = "done" \/ c.step = "done"
    BY <1>12 DEF ReviewAnswered, ReviewLost, Reviews
  <2>3. PICK card \in {review.card, "done"} :
          /\ review' = [review EXCEPT !.card = card, !.calls = review.calls \ {c}]
          /\ card = "done" => review.card = "done" \/ c.step = "done"
    BY <2>2
  <2>4. /\ review' \in ReviewRow /\ review'.row = review.row /\ review'.card = card
        /\ review'.calls = review.calls \ {c}
    BY <1>0, <2>3 DEF ReviewRow
  <2> QED BY <2>1, <2>3, <2>4, SaidByCard DEF SaidInv, WhatIsSaidIsSo
<1> QED BY <1>1, <1>2, <1>3, <1>4, <1>5, <1>6, <1>7, <1>8, <1>9, <1>10, <1>11, <1>12
        DEF CheckoutNext

(* The calls of a window: one that is not its own leaves it alone, one of its  *)
(* own either goes on in the step the window shows or has it show another.     *)
LEMMA WindowGoesOn ==
  ASSUME SaidInv, WindowHasCall, NEW f \in Flows, NEW row \in FlowRow,
         flow' = [flow EXCEPT ![f] = row],
         \/ /\ modal' = modal
            /\ \/ f \notin modal.of
               \/ flow[f].step = "buying" /\ row.step \in {"bought", "failed"}
               \/ flow[f].step = "paying" /\ row.step \in {"paid", "failed"}
         \/ /\ f \in modal.of /\ modal'.of = modal.of
            /\ \/ modal'.step \in {"complete", "error"}
               \/ modal'.step = "paying" /\ row.step = "paying"
  PROVE  WindowHasCall'
<1>1. flow'[f] = row /\ \A g \in Flows : g # f => flow'[g] = flow[g]
  BY DEF SaidInv
<1>2. modal.of \subseteq Flows
  BY DEF SaidInv, ModalRow
<1> QED BY <1>1, <1>2 DEF WindowHasCall

LEMMA ShowsOfItsOwn ==
  ASSUME SaidInv, NEW f \in Flows, NEW step \in Closable \cup {"closed", "creating", "paying"},
         Shows(f, step)
  PROVE  \/ f \notin modal.of /\ modal' = modal
         \/ f \in modal.of /\ modal'.of = modal.of /\ modal'.step = step
BY DEF SaidInv, Shows, ModalRow

LEMMA WindowStep ==
  ASSUME SaidInv, WindowHasCall, [CheckoutNext]_checkoutVars PROVE WindowHasCall'
<1>0. modal \in ModalRow /\ flow \in [Flows -> FlowRow]
  BY DEF SaidInv
<1>1. CASE modal' = Closed
  BY <1>1 DEF Closed, WindowHasCall
<1>2. CASE UNCHANGED <<modal, flow>>
  BY <1>2 DEF WindowHasCall
<1>3. CASE OpensWindow
  <2>1. modal'.step = "confirm"
    BY <1>3 DEF OpensWindow, Closed
  <2> QED BY <2>1 DEF WindowHasCall
<1>4. ASSUME NEW f \in Flows, Confirms(f) PROVE WindowHasCall'
  <2> DEFINE row == [step |-> IF place = "detail" THEN "buying" ELSE "paying", from |-> place]
  <2>1. /\ flow' = [flow EXCEPT ![f] = row]
        /\ modal' = [step |-> IF place = "detail" THEN "creating" ELSE "paying", of |-> {f}]
    BY <1>4 DEF Confirms
  <2>2. row.step = IF place = "detail" THEN "buying" ELSE "paying"
    OBVIOUS
  <2> HIDE DEF row
  <2>3. flow'[f].step = IF place = "detail" THEN "buying" ELSE "paying"
    BY <1>0, <2>1, <2>2
  <2>4. modal'.of = {f} /\ modal'.step = IF place = "detail" THEN "creating" ELSE "paying"
    BY <2>1
  <2> QED BY <2>3, <2>4 DEF WindowHasCall
<1>5. ASSUME NEW f \in Flows, BuyServed(f) PROVE WindowHasCall'
  <2>1. /\ modal' = modal /\ flow[f].step = "buying"
        /\ \E step \in {"bought", "failed"} : Goes(f, step)
    BY <1>5 DEF BuyServed
  <2>2. PICK step \in {"bought", "failed"} : Goes(f, step)
    BY <2>1
  <2>3. PICK row \in FlowRow : flow' = [flow EXCEPT ![f] = row] /\ row.step = step
    BY <2>2, GoesIsRow DEF FlowSteps
  <2> QED BY <2>1, <2>2, <2>3, WindowGoesOn
<1>6. ASSUME NEW f \in Flows, PayServed(f) PROVE WindowHasCall'
  <2>1. /\ modal' = modal /\ flow[f].step = "paying"
        /\ \E step \in {"paid", "failed"} : Goes(f, step)
    BY <1>6 DEF PayServed
  <2>2. PICK step \in {"paid", "failed"} : Goes(f, step)
    BY <2>1
  <2>3. PICK row \in FlowRow : flow' = [flow EXCEPT ![f] = row] /\ row.step = step
    BY <2>2, GoesIsRow DEF FlowSteps
  <2> QED BY <2>1, <2>2, <2>3, WindowGoesOn
<1>7. ASSUME NEW f \in Flows, Bought(f) PROVE WindowHasCall'
  <2>1. Goes(f, "paying") /\ Shows(f, "paying")
    BY <1>7 DEF Bought
  <2>2. PICK row \in FlowRow : flow' = [flow EXCEPT ![f] = row] /\ row.step = "paying"
    BY <2>1, GoesIsRow DEF FlowSteps
  <2>3. \/ f \notin modal.of /\ modal' = modal
        \/ f \in modal.of /\ modal'.of = modal.of /\ modal'.step = "paying"
    BY <2>1, ShowsOfItsOwn
  <2> QED BY <2>2, <2>3, WindowGoesOn
<1>8. ASSUME NEW f \in Flows, Answered(f) \/ CallLost(f) PROVE WindowHasCall'
  <2>1. Goes(f, "done") /\ \E says \in {"complete", "error"} : Shows(f, says)
    BY <1>8 DEF Answered, CallLost, Concluded, Throws
  <2>2. PICK says \in {"complete", "error"} : Shows(f, says)
    BY <2>1
  <2>3. PICK row \in FlowRow : flow' = [flow EXCEPT ![f] = row] /\ row.step = "done"
    BY <2>1, GoesIsRow DEF FlowSteps
  <2>4. \/ f \notin modal.of /\ modal' = modal
        \/ f \in modal.of /\ modal'.of = modal.of /\ modal'.step = says
    BY <2>2, ShowsOfItsOwn DEF Closable
  <2> QED BY <2>2, <2>3, <2>4, WindowGoesOn
<1>9. ASSUME NEW page, Visits(page) PROVE modal' = Closed
  BY <1>9 DEF Visits
<1>10. CASE ClosesWindow
  BY <1>1, <1>10 DEF ClosesWindow
<1>11. CASE OrdersLost
  <2>1. modal' = Closed \/ UNCHANGED <<modal, flow>>
    BY <1>11 DEF OrdersLost
  <2> QED BY <1>1, <1>2, <2>1
<1>12. CASE GrowsOld \/ OrdersServed \/ OrdersArrive \/ AuctionEnds \/ Expires \/ EventComes
            \/ EventLost \/ OpensForm \/ ClosesForm \/ SendsReview \/ UNCHANGED checkoutVars
  <2>1. UNCHANGED <<modal, flow>>
    BY <1>12 DEF GrowsOld, OrdersServed, OrdersArrive, AuctionEnds, Expires, EventComes,
                 EventLost, OpensForm, ClosesForm, SendsReview, Reviews, checkoutVars
  <2> QED BY <1>2, <2>1
<1>13. ASSUME NEW c \in review.calls, ReviewServed(c) \/ ReviewAnswered(c) \/ ReviewLost(c)
       PROVE  UNCHANGED <<modal, flow>>
  BY <1>13 DEF ReviewServed, ReviewAnswered, ReviewLost, Reviews
<1> QED BY <1>1, <1>2, <1>3, <1>4, <1>5, <1>6, <1>7, <1>8, <1>9, <1>10, <1>11, <1>12, <1>13
        DEF CheckoutNext

(***************************************************************************)
(* The list of the user's orders.                                          *)
(***************************************************************************)
Statuses == OrderStatuses \cup {"none"}
OrdersRow ==
  [shown : Statuses, call : {"none", "asked", "served"}, got : Statuses,
   stale : BOOLEAN, failed : BOOLEAN]
OrdersTyped ==
  /\ orders \in OrdersRow /\ place \in {"detail", "bids", "other"}
  /\ event \in BOOLEAN /\ offered \in BOOLEAN /\ blind \in BOOLEAN
  /\ event \/ offered => place = "detail"

(* Once the list was told of what changed, it shows the order, or it is being  *)
(* read, or it will be when the user comes to it.                              *)
OrdersTold ==
  ~blind /\ ~event =>
    /\ orders.call = "none" => orders.shown = Order \/ (orders.stale /\ place # "bids")
    /\ orders.call = "served" => orders.got = Order \/ orders.stale
OrdersInv == OrdersTyped /\ OrdersTold

LEMMA RestIsRow ==
  ASSUME NEW shown \in Statuses, NEW stale \in BOOLEAN
  PROVE  LET r == AtRest(shown, stale)
         IN  /\ r \in OrdersRow /\ r.shown = shown /\ r.call = "none" /\ r.got = shown
             /\ r.stale = stale
BY DEF AtRest, OrdersRow

LEMMA OrdersAtFirst == ASSUME CheckoutInit PROVE OrdersInv
<1>1. orders = AtRest("none", TRUE) /\ place = "detail" /\ sale = "open"
  BY DEF CheckoutInit
<1>2. "none" \in Statuses
  BY DEF Statuses
<1>3. orders \in OrdersRow /\ orders.shown = "none" /\ orders.call = "none"
  BY <1>1, <1>2, RestIsRow
<1>4. event \in BOOLEAN /\ offered \in BOOLEAN /\ blind \in BOOLEAN
  BY DEF CheckoutInit
<1>5. Order = "none"
  BY <1>1 DEF Order, OrderStatuses
<1> QED BY <1>1, <1>3, <1>4, <1>5 DEF OrdersInv, OrdersTyped, OrdersTold

(* A list that is told: in front it is read anew, elsewhere it is marked.      *)
LEMMA InvalidatedIsTold ==
  ASSUME OrdersTyped, orders' = OrdersInvalidated, place' = place
  PROVE  orders' \in OrdersRow /\ OrdersTold'
<1>0. orders \in OrdersRow /\ orders.shown \in Statuses /\ orders.failed \in BOOLEAN
  BY DEF OrdersTyped, OrdersRow
<1>1. CASE place = "bids"
  <2> DEFINE r == AtRest(orders.shown, FALSE)
  <2>1. r \in OrdersRow
    BY <1>0, RestIsRow
  <2>2. orders' = [r EXCEPT !.call = "asked", !.failed = orders.failed]
    BY <1>1 DEF OrdersInvalidated, Reread
  <2> HIDE DEF r
  <2>3. orders' \in OrdersRow /\ orders'.call = "asked"
    BY <1>0, <2>1, <2>2 DEF OrdersRow
  <2> QED BY <2>3 DEF OrdersTold
<1>2. CASE place # "bids"
  <2>1. orders' = [orders EXCEPT !.stale = TRUE]
    BY <1>2 DEF OrdersInvalidated
  <2>2. orders' \in OrdersRow /\ orders'.stale
    BY <1>0, <2>1 DEF OrdersRow
  <2> QED BY <1>2, <2>2 DEF OrdersTold
<1> QED BY <1>1, <1>2

(* The query goes on while nothing happens to the order.                       *)
LEMMA OrdersQueryStep ==
  ASSUME OrdersInv, GrowsOld \/ OrdersServed \/ OrdersArrive \/ OrdersLost PROVE OrdersInv'
<1>0. /\ orders \in OrdersRow /\ OrdersTyped /\ OrdersTold
      /\ orders.shown \in Statuses /\ orders.got \in Statuses /\ Order \in Statuses
  BY DEF OrdersInv, OrdersTyped, OrdersRow, Order, Statuses
<1>1. UNCHANGED <<sale, event, offered, place>> /\ Order' = Order
  BY DEF GrowsOld, OrdersServed, OrdersArrive, OrdersLost, SaleStays, Order
<1>2. CASE GrowsOld
  <2>1. orders' = [orders EXCEPT !.stale = TRUE] /\ blind' = blind /\ orders.call = "none" /\ ~orders.stale
    BY <1>2 DEF GrowsOld
  <2>2. orders' \in OrdersRow /\ orders'.call = "none" /\ orders'.shown = orders.shown
    BY <1>0, <2>1 DEF OrdersRow
  <2> QED BY <1>0, <1>1, <2>1, <2>2 DEF OrdersInv, OrdersTyped, OrdersTold
<1>3. CASE OrdersServed
  <2> DEFINE o == Order
  <2>1. orders' = [orders EXCEPT !.call = "served", !.got = o] /\ blind' = blind
    BY <1>3 DEF OrdersServed
  <2>2. o \in Statuses
    BY <1>0
  <2> HIDE DEF o
  <2>3. orders' \in OrdersRow /\ orders'.call = "served" /\ orders'.got = o
    BY <1>0, <2>1, <2>2 DEF OrdersRow
  <2> QED BY <1>0, <1>1, <2>1, <2>3 DEF o, OrdersInv, OrdersTyped, OrdersTold
<1>4. CASE OrdersArrive
  <2>1. orders' = AtRest(orders.got, FALSE) /\ blind' = (blind \/ orders.stale) /\ orders.call = "served"
    BY <1>4 DEF OrdersArrive
  <2>2. orders' \in OrdersRow /\ orders'.call = "none" /\ orders'.shown = orders.got
    BY <1>0, <2>1, RestIsRow
  <2>3. blind' \in BOOLEAN
    BY <1>0, <2>1 DEF OrdersTyped, OrdersRow
  <2> QED BY <1>0, <1>1, <2>1, <2>2, <2>3 DEF OrdersInv, OrdersTyped, OrdersTold
<1>5. CASE OrdersLost
  <2> DEFINE r == AtRest(orders.shown, TRUE)
  <2>1. orders' = [r EXCEPT !.failed = TRUE] /\ blind' = TRUE
    BY <1>5 DEF OrdersLost
  <2>2. r \in OrdersRow
    BY <1>0, RestIsRow
  <2> HIDE DEF r
  <2>3. orders' \in OrdersRow
    BY <2>1, <2>2 DEF OrdersRow
  <2> QED BY <1>0, <1>1, <2>1, <2>3 DEF OrdersInv, OrdersTyped, OrdersTold
<1> QED BY <1>2, <1>3, <1>4, <1>5

(* The list is not touched: whatever happens to the order is told to the page  *)
(* that shows the auction, or the list is excused.                             *)
LEMMA OrdersKept ==
  ASSUME OrdersInv, UNCHANGED <<orders, place>>,
         event' \in BOOLEAN, offered' \in BOOLEAN, blind' \in BOOLEAN,
         event' => event \/ offered, offered' => offered,
         blind => blind', event => event' \/ blind',
         sale' = sale \/ event' \/ blind'
  PROVE  OrdersInv'
<1>1. OrdersTyped'
  BY DEF OrdersInv, OrdersTyped
<1>2. ASSUME ~blind', ~event' PROVE ~blind /\ ~event /\ Order' = Order
  BY <1>2 DEF Order
<1> QED BY <1>1, <1>2 DEF OrdersInv, OrdersTold

LEMMA VisitStep ==
  ASSUME OrdersInv, NEW page \in {"detail", "bids", "other"}, Visits(page) PROVE OrdersInv'
<1>0. /\ orders \in OrdersRow /\ orders.shown \in Statuses /\ orders.failed \in BOOLEAN
      /\ blind \in BOOLEAN /\ event \in BOOLEAN
  BY DEF OrdersInv, OrdersTyped, OrdersRow
<1>1. /\ place' = page /\ event' = FALSE /\ sale' = sale /\ Order' = Order
      /\ offered' = (page = "detail" /\ sale = "open")
  BY DEF Visits, Order
<1>2. offered' \in BOOLEAN /\ event' \in BOOLEAN /\ (offered' => page = "detail")
  BY <1>1
<1>3. CASE page = "bids" /\ orders.stale /\ orders.call = "none"
  <2> DEFINE r == AtRest(orders.shown, FALSE)
  <2>1. r \in OrdersRow
    BY <1>0, RestIsRow
  <2>2. orders' = [r EXCEPT !.call = "asked", !.failed = orders.failed] /\ blind' = FALSE
    BY <1>3 DEF Visits, Reread
  <2> HIDE DEF r
  <2>3. orders' \in OrdersRow /\ orders'.call = "asked"
    BY <1>0, <2>1, <2>2 DEF OrdersRow
  <2> QED BY <1>1, <1>2, <2>2, <2>3 DEF OrdersInv, OrdersTyped, OrdersTold
<1>4. CASE ~(page = "bids" /\ orders.stale /\ orders.call = "none")
  <2>1. orders' = orders /\ blind' = (blind \/ event)
    BY <1>4 DEF Visits
  <2>2. blind' \in BOOLEAN
    BY <1>0, <2>1
  <2>3. OrdersTold'
    BY <1>1, <1>4, <2>1 DEF OrdersInv, OrdersTold
  <2> QED BY <1>0, <1>1, <1>2, <2>1, <2>2, <2>3 DEF OrdersInv, OrdersTyped
<1> QED BY <1>3, <1>4

LEMMA OrdersStep ==
  ASSUME OrdersInv, [CheckoutNext]_checkoutVars PROVE OrdersInv'
<1>0. /\ OrdersTyped /\ event \in BOOLEAN /\ offered \in BOOLEAN /\ blind \in BOOLEAN
      /\ place \in {"detail", "bids", "other"} /\ (event \/ offered => place = "detail")
  BY DEF OrdersInv, OrdersTyped
<1>1. ASSUME orders' = OrdersInvalidated, UNCHANGED <<place, sale>>, blind' \in BOOLEAN,
             event' \in BOOLEAN, offered' \in BOOLEAN, event' => event, offered' => offered
      PROVE  OrdersInv'
  <2>1. orders' \in OrdersRow /\ OrdersTold'
    BY <1>0, <1>1, InvalidatedIsTold
  <2> QED BY <1>0, <1>1, <2>1 DEF OrdersInv, OrdersTyped
<1>2. ASSUME UNCHANGED <<sale, event, offered, orders, place, blind>> PROVE OrdersInv'
  BY <1>0, <1>2, OrdersKept
<1>3. ASSUME NEW as, SaleEnds(as), UNCHANGED place PROVE OrdersInv'
  <2>1. UNCHANGED <<orders, offered>> /\ event' = offered /\ blind' = (blind \/ ~offered)
    BY <1>3 DEF SaleEnds
  <2>2. blind' \in BOOLEAN /\ event' \in BOOLEAN /\ (event' \/ blind')
    BY <1>0, <2>1
  <2> QED BY <1>0, <1>3, <2>1, <2>2, OrdersKept
<1>4. ASSUME NEW f \in Flows, BuyServed(f) PROVE OrdersInv'
  <2>1. CASE SaleEnds("PENDING")
    BY <1>3, <1>4, <2>1 DEF BuyServed
  <2>2. CASE ~SaleEnds("PENDING")
    BY <1>2, <1>4, <2>2 DEF BuyServed, SaleStays, OrdersStay
  <2> QED BY <2>1, <2>2
<1>5. ASSUME NEW f \in Flows, PayServed(f) PROVE OrdersInv'
  <2>1. UNCHANGED <<event, offered, orders, place>>
    BY <1>5 DEF PayServed
  <2>2. CASE blind' = TRUE
    BY <1>0, <2>1, <2>2, OrdersKept
  <2>3. CASE blind' # TRUE
    BY <1>2, <1>5, <2>1, <2>3 DEF PayServed
  <2> QED BY <2>2, <2>3
<1>6. ASSUME NEW f \in Flows, Answered(f) PROVE OrdersInv'
  <2>1. UNCHANGED <<sale, event, offered, place>>
    BY <1>6 DEF Answered, SaleStays
  <2>2. \/ orders' = OrdersInvalidated /\ blind' = FALSE
        \/ UNCHANGED <<orders, blind>>
    BY <1>6 DEF Answered, Tells
  <2> QED BY <1>0, <1>1, <1>2, <2>1, <2>2
<1>7. ASSUME NEW f \in Flows, Confirms(f) \/ Bought(f) \/ CallLost(f) PROVE OrdersInv'
  BY <1>2, <1>7 DEF Confirms, Bought, CallLost, SaleStays, OrdersStay
<1>8. CASE AuctionEnds
  BY <1>3, <1>8 DEF AuctionEnds
<1>9. CASE Expires \/ EventLost
  <2>1. /\ UNCHANGED <<offered, orders, place>> /\ blind' = TRUE
        /\ event' = event \/ event' = FALSE
    BY <1>9 DEF Expires, EventLost
  <2>2. CASE event' = event
    BY <1>0, <2>1, <2>2, OrdersKept
  <2>3. CASE event' = FALSE
    BY <1>0, <2>1, <2>3, OrdersKept
  <2> QED BY <2>1, <2>2, <2>3
<1>10. CASE EventComes
  <2>1. /\ event' = FALSE /\ offered' = FALSE /\ orders' = OrdersInvalidated /\ blind' = FALSE
        /\ UNCHANGED <<sale, place>>
    BY <1>10 DEF EventComes
  <2> QED BY <1>1, <2>1
<1>11. ASSUME NEW c \in review.calls, ReviewServed(c) \/ ReviewAnswered(c) \/ ReviewLost(c)
       PROVE  OrdersInv'
  <2>1. UNCHANGED <<sale, event, offered, place>>
    BY <1>11 DEF ReviewServed, ReviewAnswered, ReviewLost, Reviews, SaleStays
  <2>2. \/ orders' = OrdersInvalidated /\ blind' = FALSE
        \/ UNCHANGED <<orders, blind>>
    BY <1>11 DEF ReviewServed, ReviewAnswered, ReviewLost
  <2> QED BY <1>0, <1>1, <1>2, <2>1, <2>2
<1>12. CASE OpensWindow \/ ClosesWindow \/ OpensForm \/ ClosesForm \/ SendsReview
            \/ UNCHANGED checkoutVars
  <2>1. UNCHANGED <<sale, event, offered, orders, place, blind>>
    BY <1>12 DEF OpensWindow, ClosesWindow, OpensForm, ClosesForm, SendsReview, Reviews,
                 SaleStays, OrdersStay, checkoutVars
  <2> QED BY <1>2, <2>1
<1> QED BY <1>4, <1>5, <1>6, <1>7, <1>8, <1>9, <1>10, <1>11, <1>12, OrdersQueryStep, VisitStep
        DEF CheckoutNext

(* A window that says the payment is complete, and a card that says the review *)
(* is written, are right; a window that the user cannot close has a call of    *)
(* its own under way, in the step it shows; and the list of orders in front of *)
(* the user is right or is being read, unless it is excused: whatever flows    *)
(* cross, calls are lost and pages are left, and whatever event, payment or    *)
(* review comes first (PaymentFlowModal, handlePaymentConfirm, WonCard,        *)
(* useAuctionClosedCacheInvalidation, payOrder, createForOrder).               *)
THEOREM CheckoutIsHeld == CheckoutSpec => []CheckoutHolds
<1> DEFINE Inv == SaidInv /\ WindowHasCall /\ OrdersInv
<1>1. CheckoutInit => Inv
  <2>1. CheckoutInit => WindowHasCall
    BY DEF CheckoutInit, Closed, WindowHasCall
  <2> QED BY <2>1, SaidAtFirst, OrdersAtFirst
<1>2. Inv /\ [CheckoutNext]_checkoutVars => Inv'
  BY SaidStep, WindowStep, OrdersStep
<1>3. Inv => CheckoutHolds
  <2>1. OrdersInv => OrdersRestRight
    BY DEF OrdersInv, OrdersTyped, OrdersTold, OrdersRestRight, OrdersAreRight
  <2> QED BY <2>1 DEF CheckoutHolds, SaidInv
<1> QED BY <1>1, <1>2, <1>3, PTL DEF CheckoutSpec

(***************************************************************************)
(* What the window, its flows and the orders can be.                       *)
(***************************************************************************)
Sales == OrderStatuses \cup {"open", "taken"}

(* A window belongs to the page in front, and its flows were begun there.      *)
WindowFits ==
  /\ sale \in Sales /\ moves \in 0 .. MaxMoves /\ losses \in 0 .. MaxLosses
  /\ modal.step \in {"closed", "confirm"} <=> modal.of = {}
  /\ modal.step # "closed" => place \in {"detail", "bids"}
  /\ \A f \in Flows : /\ flow[f].from \in {"detail", "bids"}
                      /\ f \in modal.of => flow[f].from = place
CheckoutInv == SaidInv /\ OrdersInv /\ WindowFits

LEMMA FitsAtFirst == ASSUME CheckoutInit PROVE WindowFits
BY CheckoutBounds DEF CheckoutInit, WindowFits, Sales, Closed

(* Counters within their bounds.                                               *)
LEMMA CountsFit ==
  ASSUME WindowFits, [CheckoutNext]_checkoutVars
  PROVE  sale' \in Sales /\ moves' \in 0 .. MaxMoves /\ losses' \in 0 .. MaxLosses
<1>0. /\ sale \in Sales /\ moves \in 0 .. MaxMoves /\ losses \in 0 .. MaxLosses
      /\ MaxMoves \in Nat /\ MaxLosses \in Nat
  BY CheckoutBounds DEF WindowFits
<1>1. moves' = moves \/ (moves < MaxMoves /\ moves' = moves + 1)
  BY DEF CheckoutNext, checkoutVars, Visits, GrowsOld, OrdersServed, OrdersArrive, OrdersLost,
       OpensWindow, ClosesWindow, Confirms, BuyServed, Bought, PayServed, Answered, CallLost,
       AuctionEnds, Expires, EventComes, EventLost, OpensForm, ClosesForm, SendsReview,
       ReviewServed, ReviewAnswered, ReviewLost, SaleEnds, Reviews, OrdersStay
<1>2. losses' = losses \/ (losses < MaxLosses /\ losses' = losses + 1)
  BY DEF CheckoutNext, checkoutVars, Visits, GrowsOld, OrdersServed, OrdersArrive, OrdersLost,
       OpensWindow, ClosesWindow, Confirms, BuyServed, Bought, PayServed, Answered, CallLost,
       AuctionEnds, Expires, EventComes, EventLost, OpensForm, ClosesForm, SendsReview,
       ReviewServed, ReviewAnswered, ReviewLost, Loss
<1>3. sale' = sale \/ sale' \in {"PENDING", "taken", "PAID", "CANCELLED"}
  BY DEF CheckoutNext, checkoutVars, Visits, GrowsOld, OrdersServed, OrdersArrive, OrdersLost,
       OpensWindow, ClosesWindow, Confirms, BuyServed, Bought, PayServed, Answered, CallLost,
       AuctionEnds, Expires, EventComes, EventLost, OpensForm, ClosesForm, SendsReview,
       ReviewServed, ReviewAnswered, ReviewLost, SaleEnds, SaleStays, Reviews
<1>4. sale' \in Sales
  BY <1>0, <1>3 DEF Sales, OrderStatuses
<1> QED BY <1>0, <1>1, <1>2, <1>4

LEMMA GoesFromThere ==
  ASSUME SaidInv, NEW f \in Flows, NEW step, Goes(f, step)
  PROVE  \A g \in Flows : flow'[g].from = flow[g].from
BY DEF SaidInv, Goes, FlowRow

LEMMA FitsStep ==
  ASSUME SaidInv, OrdersInv, WindowFits, [CheckoutNext]_checkoutVars PROVE WindowFits'
<1>0. /\ sale' \in Sales /\ moves' \in 0 .. MaxMoves /\ losses' \in 0 .. MaxLosses
      /\ modal \in ModalRow /\ flow \in [Flows -> FlowRow] /\ place \in {"detail", "bids", "other"}
  BY CountsFit DEF SaidInv
<1>1. ASSUME modal' = Closed, flow' = flow PROVE WindowFits'
  <2>1. modal'.step = "closed" /\ modal'.of = {}
    BY <1>1 DEF Closed
  <2> QED BY <1>0, <1>1, <2>1 DEF WindowFits
<1>2. ASSUME UNCHANGED <<place, modal, flow>> PROVE WindowFits'
  BY <1>0, <1>2 DEF WindowFits
<1>3. CASE OpensWindow
  <2>1. /\ modal' = [Closed EXCEPT !.step = "confirm"] /\ UNCHANGED <<place, flow>>
        /\ offered \/ place = "bids"
    BY <1>3 DEF OpensWindow, Card
  <2>2. modal'.step = "confirm" /\ modal'.of = {}
    BY <2>1 DEF Closed
  <2>3. place \in {"detail", "bids"}
    BY <2>1 DEF OrdersInv, OrdersTyped
  <2> QED BY <1>0, <2>1, <2>2, <2>3 DEF WindowFits
<1>4. ASSUME NEW f \in Flows, Confirms(f) PROVE WindowFits'
  <2> DEFINE row == [step |-> IF place = "detail" THEN "buying" ELSE "paying", from |-> place]
  <2>1. /\ flow' = [flow EXCEPT ![f] = row] /\ modal.step = "confirm" /\ place' = place
        /\ modal' = [step |-> IF place = "detail" THEN "creating" ELSE "paying", of |-> {f}]
    BY <1>4 DEF Confirms
  <2>2. row.from = place
    OBVIOUS
  <2> HIDE DEF row
  <2>3. flow'[f].from = place /\ \A g \in Flows : g # f => flow'[g] = flow[g]
    BY <1>0, <2>1, <2>2
  <2>4. modal'.of = {f} /\ modal'.step \in {"creating", "paying"}
    BY <2>1
  <2>5. place \in {"detail", "bids"}
    BY <2>1 DEF WindowFits
  <2> QED BY <1>0, <2>1, <2>3, <2>4, <2>5 DEF WindowFits
<1>5. ASSUME NEW f \in Flows, NEW step, Goes(f, step), place' = place,
             \/ modal' = modal
             \/ f \in modal.of /\ modal'.of = modal.of /\ modal'.step \in {"paying", "complete", "error"}
      PROVE  WindowFits'
  <2>1. \A g \in Flows : flow'[g].from = flow[g].from
    BY <1>5, GoesFromThere
  <2> QED BY <1>0, <1>5, <2>1 DEF WindowFits
<1>6. ASSUME NEW f \in Flows, BuyServed(f) \/ PayServed(f) PROVE WindowFits'
  <2>1. modal' = modal /\ place' = place /\ \E step \in {"bought", "paid", "failed"} : Goes(f, step)
    BY <1>6 DEF BuyServed, PayServed
  <2> QED BY <1>5, <2>1
<1>7. ASSUME NEW f \in Flows, Bought(f) \/ Answered(f) \/ CallLost(f) PROVE WindowFits'
  <2>1. /\ place' = place
        /\ \E step \in {"paying", "done"}, says \in {"paying", "complete", "error"} :
             Goes(f, step) /\ Shows(f, says)
    BY <1>7 DEF Bought, Answered, CallLost, Concluded, Throws
  <2>2. PICK step \in {"paying", "done"}, says \in {"paying", "complete", "error"} :
          Goes(f, step) /\ Shows(f, says)
    BY <2>1
  <2>3. \/ f \notin modal.of /\ modal' = modal
        \/ f \in modal.of /\ modal'.of = modal.of /\ modal'.step = says
    BY <2>2, ShowsOfItsOwn DEF Closable
  <2> QED BY <1>5, <2>1, <2>2, <2>3
<1>8. CASE ClosesWindow \/ \E page \in {"detail", "bids", "other"} : Visits(page)
  BY <1>1, <1>8 DEF ClosesWindow, Visits
<1>9. CASE OrdersLost
  <2>1. flow' = flow /\ place' = place /\ (modal' = Closed \/ modal' = modal)
    BY <1>9 DEF OrdersLost
  <2> QED BY <1>1, <1>2, <2>1
<1>10. CASE GrowsOld \/ OrdersServed \/ OrdersArrive \/ AuctionEnds \/ Expires \/ EventComes
            \/ EventLost \/ OpensForm \/ ClosesForm \/ SendsReview \/ UNCHANGED checkoutVars
  <2>1. UNCHANGED <<place, modal, flow>>
    BY <1>10 DEF GrowsOld, OrdersServed, OrdersArrive, AuctionEnds, Expires, EventComes,
                 EventLost, OpensForm, ClosesForm, SendsReview, Reviews, checkoutVars
  <2> QED BY <1>2, <2>1
<1>11. ASSUME NEW c \in review.calls, ReviewServed(c) \/ ReviewAnswered(c) \/ ReviewLost(c)
       PROVE  UNCHANGED <<place, modal, flow>>
  BY <1>11 DEF ReviewServed, ReviewAnswered, ReviewLost, Reviews
<1> QED BY <1>2, <1>3, <1>4, <1>6, <1>7, <1>8, <1>9, <1>10, <1>11 DEF CheckoutNext

(* An open window belongs to the page in front, which its calls were made for, *)
(* and has a flow exactly when it is past its first step.                      *)
THEOREM CheckoutTypeCorrect == CheckoutSpec => []CheckoutTypeOK
<1>1. CheckoutInv => CheckoutTypeOK
  <2> SUFFICES ASSUME CheckoutInv PROVE CheckoutTypeOK
    OBVIOUS
  <2>1. review.card \in {"button", "form", "done"} /\ review.row \in BOOLEAN /\ review.calls \subseteq ReviewCall
    BY DEF CheckoutInv, SaidInv, ReviewRow
  <2>2. /\ orders.shown \in OrderStatuses \cup {"none"} /\ orders.call \in {"none", "asked", "served"}
        /\ orders.stale \in BOOLEAN /\ orders.failed \in BOOLEAN
        /\ offered \in BOOLEAN /\ event \in BOOLEAN /\ blind \in BOOLEAN
        /\ event \/ offered => place = "detail"
    BY DEF CheckoutInv, OrdersInv, OrdersTyped, OrdersRow, Statuses
  <2>3. /\ modal.step \in Closable \cup {"closed", "creating", "paying"} /\ modal.of \subseteq Flows
        /\ \A f \in Flows : flow[f].step \in FlowSteps
        /\ place \in {"detail", "bids", "other"}
    BY DEF CheckoutInv, SaidInv, ModalRow, FlowRow
  <2> QED BY <2>1, <2>2, <2>3 DEF CheckoutInv, WindowFits, Sales, FlowSteps, ReviewCall, CheckoutTypeOK
<1>2. CheckoutInit => CheckoutInv
  BY SaidAtFirst, OrdersAtFirst, FitsAtFirst DEF CheckoutInv
<1>3. CheckoutInv /\ [CheckoutNext]_checkoutVars => CheckoutInv'
  BY SaidStep, OrdersStep, FitsStep DEF CheckoutInv
<1> QED BY <1>1, <1>2, <1>3, PTL DEF CheckoutSpec

(***************************************************************************)
(* The main page.                                                          *)
(***************************************************************************)
Shown == [price : Nat, count : Nat, heart : Hearts]
EventRow == [price : Nat, count : Nat]
OwnRow == [step : {"none"}] \cup [step : {"asked", "placed", "refused"}, price : Nat]
RereadRow == [step : {"none", "asked"}] \cup [step : {"served"}, main : Shown]
ToggleRow ==
  [step : {"none"}]
    \cup [step : {"asked", "inserted", "deleted", "failed"}, was : BOOLEAN, main : Shown]

(* A view is at most one bid ahead, and not ahead while an own bid is placed   *)
(* and not answered: its answer will count it once more.                       *)
Behind(view, top, step) ==
  view.price <= top /\ view.count <= IF step = "placed" THEN top ELSE top + 1

(* Whatever may still be written over the page: an event, an answer to an own  *)
(* bid or to a read, the page before a heart that may be put back.             *)
EventsKnown ==
  /\ bids \in Nat /\ toEmit \subseteq Nat /\ \A k \in toEmit : k <= bids
  /\ wire \in Seq(EventRow)
  /\ \A i \in DOMAIN wire : wire[i].price <= bids /\ wire[i].count <= bids
PageTyped ==
  /\ main \in Shown /\ list \in Shown /\ own \in OwnRow /\ reread \in RereadRow
  /\ toggle \in [Cards -> ToggleRow] /\ wished \subseteq Cards
ViewsBehind ==
  /\ own.step = "placed" => own.price <= bids
  /\ Behind(main, bids, own.step)
  /\ reread.step = "served" => reread.main.price <= bids /\ reread.main.count <= bids
  /\ \A c \in Cards : toggle[c].step # "none" => Behind(toggle[c].main, bids, own.step)
  /\ list.price <= bids
  /\ list.count <= IF own.step = "placed" THEN bids - 1 ELSE bids
BidsInv == EventsKnown /\ PageTyped /\ ViewsBehind

(* As long as nothing was lost or done elsewhere: what a heart's answer says   *)
(* is what is stored, and a read that crossed no heart brings what is stored.  *)
HeartsInv ==
  /\ mishaps \in Nat
  /\ mishaps = 0 =>
       \A c \in Cards :
         /\ toggle[c].step # "failed"
         /\ toggle[c].step = "inserted" => c \in wished
         /\ toggle[c].step = "deleted" => c \notin wished
  /\ reread.step # "none" /\ ~crossed => Changing = {}
  /\ mishaps = 0 /\ reread.step = "served" /\ ~crossed =>
       \A c \in Cards : reread.main.heart[c] = (c \in wished)
  /\ HeartsHold

LEMMA PageAtFirst == ASSUME MainPageInit PROVE BidsInv /\ HeartsInv
<1>1. wished \in SUBSET Cards /\ list = [price |-> 0, count |-> 0, heart |-> [c \in Cards |-> c \in wished]]
  BY DEF MainPageInit
<1>2. PICK known \in BOOLEAN :
        /\ main = [list EXCEPT !.heart = [c \in Cards |-> known /\ @[c]]]
        /\ crossed = (main # list)
  BY DEF MainPageInit
<1>3. main = [price |-> 0, count |-> 0, heart |-> [c \in Cards |-> known /\ c \in wished]]
  BY <1>1, <1>2
<1>4. list \in Shown /\ main \in Shown
  BY <1>1, <1>3 DEF Shown, Hearts
<1>5. /\ toggle \in [Cards -> ToggleRow] /\ \A c \in Cards : toggle[c].step = "none"
      /\ reread \in RereadRow /\ reread.step = "none" /\ own \in OwnRow /\ own.step = "none"
  BY DEF MainPageInit, NoToggle, NoRead, ToggleRow, RereadRow, OwnRow
<1>6. wire = <<>> /\ toEmit = {} /\ bids = 0 /\ mishaps = 0
  BY DEF MainPageInit
<1>7. BidsInv
  BY <1>1, <1>3, <1>4, <1>5, <1>6 DEF BidsInv, EventsKnown, PageTyped, ViewsBehind, Behind
<1>8. HeartsHold
  <2>1. \A c \in Cards : list.heart[c] = (c \in wished)
    BY <1>1
  <2>2. ~crossed => main = list
    BY <1>2
  <2> QED BY <2>1, <2>2 DEF HeartsHold
<1> QED BY <1>5, <1>6, <1>7, <1>8 DEF HeartsInv

(* More bids, among them the own one if it is placed just now.                 *)
LEMMA StaysBehind ==
  ASSUME NEW view \in Shown, NEW top \in Nat, NEW more \in Nat, NEW step, NEW next,
         Behind(view, top, step), top <= more,
         next = "placed" => step = "placed" \/ top + 1 <= more
  PROVE  Behind(view, more, next)
BY DEF Behind, Shown

LEMMA WithBidShows ==
  ASSUME NEW view \in Shown, NEW price \in Nat, NEW count \in Nat
  PROVE  /\ WithBid(view, price, count) \in Shown
         /\ WithBid(view, price, count).price = price
         /\ WithBid(view, price, count).count = count
         /\ WithBid(view, price, count).heart = view.heart
BY DEF WithBid, Shown

LEMMA WithHeartShows ==
  ASSUME NEW view \in Shown, NEW c \in Cards, NEW wishes \in BOOLEAN
  PROVE  /\ WithHeart(view, c, wishes) \in Shown
         /\ WithHeart(view, c, wishes).price = view.price
         /\ WithHeart(view, c, wishes).count = view.count
         /\ WithHeart(view, c, wishes).heart[c] = wishes
         /\ \A d \in Cards : d # c => WithHeart(view, c, wishes).heart[d] = view.heart[d]
BY DEF WithHeart, Shown, Hearts

(* A step that leaves the hearts alone, but for what it may lose.              *)
LEMMA HeartsKept ==
  ASSUME HeartsInv, UNCHANGED <<wished, toggle, reread, crossed>>,
         main'.heart = main.heart, list'.heart = list.heart,
         mishaps' \in Nat, mishaps <= mishaps'
  PROVE  HeartsInv'
<1>1. mishaps' = 0 => mishaps = 0
  BY DEF HeartsInv
<1>2. Changing' = Changing
  BY DEF Changing
<1> QED BY <1>1, <1>2 DEF HeartsInv, HeartsHold

(* The bids on the page and on the server.                                     *)
LEMMA BidStepKeeps ==
  ASSUME BidsInv, HeartsInv,
         \/ OthersBid \/ NewBidArrives \/ BidsHere \/ BidServed \/ BidAnswered
         \/ \E k \in toEmit : Emits(k)
  PROVE  BidsInv' /\ HeartsInv'
<1>0. /\ UNCHANGED <<wished, toggle, reread, crossed>>
      /\ mishaps' \in {mishaps, mishaps + 1} /\ mishaps \in Nat
      /\ main \in Shown /\ list \in Shown
  BY DEF OthersBid, NewBidArrives, BidsHere, BidServed, BidAnswered, Emits, HeartsStay,
         AMishap, HeartsInv, BidsInv, PageTyped
<1>1. /\ bids \in Nat /\ main \in Shown /\ list \in Shown /\ own \in OwnRow
      /\ wire \in Seq(EventRow) /\ toEmit \subseteq Nat
      /\ toggle \in [Cards -> ToggleRow]
      /\ main.price \in Nat /\ main.count \in Nat /\ list.price \in Nat /\ list.count \in Nat
      /\ \A c \in Cards : toggle[c].step # "none" => toggle[c].main \in Shown
  BY DEF BidsInv, EventsKnown, PageTyped, ViewsBehind, Shown, ToggleRow
<1>2. ASSUME bids' \in Nat, bids <= bids',
             own' \in OwnRow, own'.step = "placed" => own'.price <= bids',
             own'.step = "placed" => own.step = "placed" \/ bids + 1 <= bids',
             toEmit' \subseteq Nat, \A k \in toEmit' : k <= bids',
             UNCHANGED <<wire, main, list>>
      PROVE  BidsInv' /\ HeartsInv'
  <2>1. Behind(main, bids', own'.step)
    BY <1>1, <1>2, StaysBehind DEF BidsInv, EventsKnown, PageTyped, ViewsBehind
  <2>2. \A c \in Cards : toggle[c].step # "none" => Behind(toggle[c].main, bids', own'.step)
    BY <1>1, <1>2, StaysBehind DEF BidsInv, EventsKnown, PageTyped, ViewsBehind
  <2>3. /\ list.price <= bids'
        /\ list.count <= IF own'.step = "placed" THEN bids' - 1 ELSE bids'
    BY <1>1, <1>2 DEF BidsInv, EventsKnown, PageTyped, ViewsBehind
  <2>4. \A i \in DOMAIN wire : wire[i].price <= bids' /\ wire[i].count <= bids'
    <3>1. ASSUME NEW i \in DOMAIN wire
          PROVE  wire[i].price <= bids' /\ wire[i].count <= bids'
      <4>1. wire[i] \in EventRow /\ wire[i].price <= bids /\ wire[i].count <= bids
        BY <1>1 DEF BidsInv, EventsKnown
      <4>2. wire[i].price \in Nat /\ wire[i].count \in Nat
        BY <4>1 DEF EventRow
      <4> QED BY <1>1, <1>2, <4>1, <4>2
    <3> QED BY <3>1
  <2>5. reread.step = "served" => reread.main.price <= bids' /\ reread.main.count <= bids'
    BY <1>1, <1>2 DEF BidsInv, EventsKnown, PageTyped, ViewsBehind, RereadRow, Shown
  <2>6. BidsInv'
    <3>1. EventsKnown'
      BY <1>2, <2>4 DEF BidsInv, EventsKnown
    <3>2. PageTyped'
      BY <1>0, <1>2 DEF BidsInv, PageTyped
    <3>3. ViewsBehind'
      BY <1>0, <1>2, <2>1, <2>2, <2>3, <2>5 DEF ViewsBehind
    <3> QED BY <3>1, <3>2, <3>3 DEF BidsInv
  <2>7. HeartsInv'
    BY <1>0, <1>2, HeartsKept
  <2> QED BY <2>6, <2>7
<1>3. CASE OthersBid
  <2>1. /\ bids' = bids + 1 /\ toEmit' = toEmit \cup {bids + 1}
        /\ UNCHANGED <<wire, main, list, own>>
    BY <1>3 DEF OthersBid
  <2>2. toEmit' \subseteq Nat /\ \A k \in toEmit' : k <= bids'
    <3>1. /\ bids \in Nat /\ toEmit \subseteq Nat /\ \A k \in toEmit : k <= bids
      BY DEF BidsInv, EventsKnown
    <3> QED BY <2>1, <3>1
  <2>3. bids' \in Nat /\ bids <= bids' /\ bids + 1 <= bids'
    BY <1>1, <2>1
  <2>4. own' \in OwnRow /\ (own'.step = "placed" => own'.price <= bids')
    <3>1. own.step = "placed" => own.price \in Nat /\ own.price <= bids
      BY <1>1 DEF BidsInv, ViewsBehind, OwnRow
    <3> QED BY <1>1, <2>1, <2>3, <3>1
  <2> QED BY <1>2, <2>1, <2>2, <2>3, <2>4
<1>4. CASE BidsHere
  <2>1. /\ own' = [step |-> "asked", price |-> main.price + 1]
        /\ UNCHANGED <<bids, toEmit, wire, main, list>>
    BY <1>4 DEF BidsHere
  <2>2. own' \in OwnRow /\ own'.step # "placed"
    BY <1>1, <2>1 DEF OwnRow
  <2>3. toEmit' \subseteq Nat /\ \A k \in toEmit' : k <= bids'
    BY <1>1, <2>1 DEF BidsInv, EventsKnown
  <2> QED BY <1>1, <1>2, <2>1, <2>2, <2>3
<1>5. CASE BidServed
  <2>1. own.step = "asked" /\ own.price \in Nat /\ UNCHANGED <<wire, main, list>>
    BY <1>1, <1>5 DEF BidServed, OwnRow
  <2>2. CASE IsHigher
    <3>1. /\ bids' = own.price /\ toEmit' = toEmit \cup {own.price}
          /\ own' = [own EXCEPT !.step = "placed"] /\ bids + 1 <= bids'
      BY <1>1, <1>5, <2>1, <2>2 DEF BidServed, IsHigher
    <3>2. own' \in OwnRow /\ own'.price = own.price
      BY <1>1, <2>1, <3>1 DEF OwnRow
    <3>3. \A k \in toEmit' : k \in Nat /\ k <= bids'
      BY <1>1, <2>1, <3>1 DEF BidsInv, EventsKnown, PageTyped, ViewsBehind
    <3> QED BY <1>1, <1>2, <2>1, <3>1, <3>2, <3>3
  <2>3. CASE ~IsHigher
    <3>1. own' = [own EXCEPT !.step = "refused"] /\ UNCHANGED <<bids, toEmit>>
      BY <1>5, <2>3 DEF BidServed
    <3>2. own' \in OwnRow /\ own'.step # "placed"
      BY <1>1, <2>1, <3>1 DEF OwnRow
    <3> QED BY <1>1, <1>2, <2>1, <3>1, <3>2 DEF BidsInv, EventsKnown, PageTyped, ViewsBehind
  <2> QED BY <2>2, <2>3
<1>6. ASSUME NEW k \in toEmit, Emits(k) PROVE BidsInv' /\ HeartsInv'
  <2> DEFINE sent == [price |-> k, count |-> bids]
  <2>1. /\ UNCHANGED <<bids, main, list, own>> /\ toEmit' = toEmit \ {k}
        /\ wire' = Append(wire, sent) \/ wire' = wire
    BY <1>6 DEF Emits, Counted
  <2>2. sent \in EventRow /\ sent.price <= bids /\ sent.count <= bids
    <3>1. k \in Nat /\ bids \in Nat /\ k <= bids /\ bids <= bids
      BY <1>1 DEF BidsInv, EventsKnown
    <3>2. sent.price = k /\ sent.count = bids
      OBVIOUS
    <3> QED BY <3>1, <3>2 DEF EventRow
  <2> HIDE DEF sent
  <2>3. /\ wire' \in Seq(EventRow)
        /\ \A i \in DOMAIN wire' : wire'[i].price <= bids /\ wire'[i].count <= bids
    <3>1. CASE wire' = wire
      BY <3>1 DEF BidsInv, EventsKnown, PageTyped, ViewsBehind
    <3>2. CASE wire' = Append(wire, sent)
      <4>1. /\ wire' \in Seq(EventRow)
            /\ \A i \in DOMAIN wire' : (i \in DOMAIN wire /\ wire'[i] = wire[i]) \/ wire'[i] = sent
        <5>1. wire \in Seq(EventRow) /\ sent \in EventRow
          BY <1>1, <2>2
        <5>2. /\ wire' \in Seq(EventRow) /\ DOMAIN wire' = 1 .. Len(wire) + 1
              /\ wire'[Len(wire) + 1] = sent /\ DOMAIN wire = 1 .. Len(wire) /\ Len(wire) \in Nat
              /\ \A i \in 1 .. Len(wire) : wire'[i] = wire[i]
          BY <3>2, <5>1
        <5> QED BY <5>2
      <4>2. \A i \in DOMAIN wire : wire[i].price <= bids /\ wire[i].count <= bids
        BY DEF BidsInv, EventsKnown
      <4>3. ASSUME NEW i \in DOMAIN wire'
            PROVE  wire'[i].price <= bids /\ wire'[i].count <= bids
        <5>1. CASE i \in DOMAIN wire /\ wire'[i] = wire[i]
          BY <4>2, <5>1
        <5>2. CASE wire'[i] = sent
          BY <2>2, <5>2
        <5> QED BY <4>1, <5>1, <5>2
      <4> QED BY <4>1, <4>3
    <3> QED BY <2>1, <3>1, <3>2
  <2>4. BidsInv'
    BY <1>0, <2>1, <2>3 DEF BidsInv, EventsKnown, PageTyped, ViewsBehind
  <2> QED BY <1>0, <2>1, <2>4, HeartsKept
<1>7. CASE NewBidArrives
  <2>1. /\ wire # <<>> /\ wire' = Tail(wire) /\ UNCHANGED <<bids, toEmit, list, own>>
        /\ main' = WithBid(main, Head(wire).price, Head(wire).count)
    BY <1>7 DEF NewBidArrives
  <2>2. 1 \in DOMAIN wire /\ Head(wire) = wire[1] /\ wire[1] \in EventRow
    <3>1. wire \in Seq(EventRow) /\ wire # <<>>
      BY <1>1, <2>1
    <3> QED BY <3>1
  <2>3. /\ Head(wire).price \in Nat /\ Head(wire).count \in Nat
        /\ Head(wire).price <= bids /\ Head(wire).count <= bids
    BY <2>2 DEF BidsInv, EventsKnown, EventRow
  <2>4. /\ main' \in Shown /\ main'.heart = main.heart
        /\ Behind(main', bids, own.step)
    <3> DEFINE price == Head(wire).price
               count == Head(wire).count
    <3>1. price \in Nat /\ count \in Nat /\ price <= bids /\ count <= bids
      BY <2>3
    <3>2. main' = WithBid(main, price, count)
      BY <2>1
    <3> HIDE DEF price, count
    <3>3. /\ main' \in Shown /\ main'.price = price /\ main'.count = count
          /\ main'.heart = main.heart
      BY <1>0, <3>1, <3>2, WithBidShows
    <3> QED BY <1>1, <3>1, <3>3 DEF Behind
  <2>5. /\ wire' \in Seq(EventRow)
        /\ \A i \in DOMAIN wire' : i + 1 \in DOMAIN wire /\ wire'[i] = wire[i + 1]
    BY <1>1, <2>1
  <2>6. \A i \in DOMAIN wire' : wire'[i].price <= bids /\ wire'[i].count <= bids
    BY <2>5 DEF BidsInv, EventsKnown, PageTyped, ViewsBehind
  <2>7. BidsInv'
    <3>1. EventsKnown'
      BY <2>1, <2>5, <2>6 DEF BidsInv, EventsKnown
    <3>2. PageTyped'
      BY <1>0, <2>1, <2>4 DEF BidsInv, PageTyped
    <3>3. ViewsBehind'
      BY <1>0, <2>1, <2>4 DEF BidsInv, ViewsBehind
    <3> QED BY <3>1, <3>2, <3>3 DEF BidsInv
  <2> QED BY <1>0, <2>1, <2>4, <2>7, HeartsKept
<1>8. CASE BidAnswered
  <2>1. /\ own' = [step |-> "none"] /\ own' \in OwnRow /\ own'.step = "none"
        /\ UNCHANGED <<bids, toEmit, wire>>
    BY <1>8 DEF BidAnswered, OwnRow
  <2>2. CASE UNCHANGED <<main, list>>
    <3>1. toEmit' \subseteq Nat /\ \A k \in toEmit' : k <= bids'
      BY <2>1 DEF BidsInv, EventsKnown
    <3>2. bids' \in Nat /\ bids <= bids' /\ own'.step # "placed"
      BY <1>1, <2>1
    <3> QED BY <1>2, <2>1, <2>2, <3>1, <3>2
  <2>3. CASE /\ own.step = "placed"
             /\ main' = WithBid(main, own.price, main.count + 1)
             /\ list' = WithBid(list, own.price, list.count + 1)
    <3>1. /\ own.price \in Nat /\ own.price <= bids /\ main.count <= bids
          /\ list.count + 1 <= bids /\ main.count + 1 \in Nat /\ list.count + 1 \in Nat
      BY <1>1, <2>3 DEF BidsInv, EventsKnown, PageTyped, ViewsBehind, OwnRow, Behind
    <3>2. /\ main' \in Shown /\ main'.price = own.price /\ main'.count = main.count + 1
          /\ main'.heart = main.heart
      <4> DEFINE price == own.price
                 count == main.count + 1
      <4>1. price \in Nat /\ count \in Nat /\ main' = WithBid(main, price, count)
        BY <2>3, <3>1
      <4> HIDE DEF price, count
      <4>2. /\ main' \in Shown /\ main'.price = price /\ main'.count = count
            /\ main'.heart = main.heart
        BY <1>0, <4>1, WithBidShows
      <4> QED BY <4>2 DEF price, count
    <3>3. /\ list' \in Shown /\ list'.price = own.price /\ list'.count = list.count + 1
          /\ list'.heart = list.heart
      <4> DEFINE price == own.price
                 count == list.count + 1
      <4>1. price \in Nat /\ count \in Nat /\ list' = WithBid(list, price, count)
        BY <2>3, <3>1
      <4> HIDE DEF price, count
      <4>2. /\ list' \in Shown /\ list'.price = price /\ list'.count = count
            /\ list'.heart = list.heart
        BY <1>0, <4>1, WithBidShows
      <4> QED BY <4>2 DEF price, count
    <3>4. Behind(main', bids, "none")
      BY <1>1, <3>1, <3>2 DEF Behind
    <3>5. \A c \in Cards : toggle[c].step # "none" => Behind(toggle[c].main, bids, "none")
      BY <1>1, StaysBehind DEF BidsInv, EventsKnown, PageTyped, ViewsBehind
    <3>6. BidsInv'
      <4>1. EventsKnown'
        BY <2>1 DEF BidsInv, EventsKnown
      <4>2. PageTyped'
        BY <1>0, <2>1, <3>2, <3>3 DEF BidsInv, PageTyped
      <4>3. reread.step = "served" => reread.main.price <= bids /\ reread.main.count <= bids
        BY DEF BidsInv, ViewsBehind
      <4>4. ViewsBehind'
        BY <1>0, <2>1, <3>1, <3>3, <3>4, <3>5, <4>3 DEF ViewsBehind
      <4> QED BY <4>1, <4>2, <4>4 DEF BidsInv
    <3> QED BY <1>0, <3>2, <3>3, <3>6, HeartsKept
  <2> QED BY <1>8, <2>2, <2>3 DEF BidAnswered
<1> QED BY <1>3, <1>4, <1>5, <1>6, <1>7, <1>8

(* A step that leaves the bids alone: what is on the page and what may be put  *)
(* back is behind.                                                             *)
LEMMA BidsKept ==
  ASSUME BidsInv, UNCHANGED <<bids, toEmit, wire, own>>, PageTyped',
         Behind(main', bids, own.step),
         reread'.step = "served" =>
           reread'.main.price <= bids /\ reread'.main.count <= bids,
         \A c \in Cards : toggle'[c].step # "none" => Behind(toggle'[c].main, bids, own.step),
         list'.price = list.price, list'.count = list.count
  PROVE  BidsInv'
<1>1. EventsKnown'
  BY DEF BidsInv, EventsKnown
<1>2. ViewsBehind'
  BY DEF BidsInv, ViewsBehind
<1> QED BY <1>1, <1>2 DEF BidsInv

(* The main list is read again.                                                *)
LEMMA ReadStepKeeps ==
  ASSUME BidsInv, HeartsInv, Rereads \/ MainServed \/ MainArrives \/ WishlistRead
  PROVE  BidsInv' /\ HeartsInv'
<1>0. /\ UNCHANGED <<bids, toEmit, wire, own, list, toggle, wished, mishaps>>
      /\ Changing' = Changing /\ PageTyped /\ bids \in Nat
      /\ Behind(main, bids, own.step)
      /\ \A c \in Cards : toggle[c].step # "none" => Behind(toggle[c].main, bids, own.step)
  BY DEF Rereads, MainServed, MainArrives, WishlistRead, BidsStay, HeartsStay, Changing,
         BidsInv, EventsKnown, ViewsBehind
<1>1. CASE Rereads
  <2>1. /\ reread' = [step |-> "asked"] /\ main' = main
        /\ crossed' = (crossed \/ Changing # {})
    BY <1>1 DEF Rereads
  <2>2. PageTyped' /\ reread'.step = "asked"
    BY <1>0, <2>1 DEF PageTyped, RereadRow
  <2>3. BidsInv'
    BY <1>0, <2>1, <2>2, BidsKept
  <2>4. HeartsInv'
    BY <1>0, <2>1, <2>2 DEF HeartsInv, HeartsHold
  <2> QED BY <2>3, <2>4
<1>2. CASE MainServed
  <2>1. /\ reread' = [step |-> "served", main |-> MainNow]
        /\ reread.step = "asked" /\ main' = main /\ crossed' = crossed
    BY <1>2 DEF MainServed, HeartsStay
  <2>2. /\ reread'.step = "served" /\ reread'.main = MainNow
        /\ MainNow \in Shown /\ MainNow.price = bids /\ MainNow.count = bids
        /\ \A c \in Cards : MainNow.heart[c] = (c \in wished)
    BY <1>0, <2>1 DEF MainNow, Shown, Hearts
  <2>3. PageTyped'
    BY <1>0, <2>1, <2>2 DEF PageTyped, RereadRow
  <2>4. BidsInv'
    BY <1>0, <2>1, <2>2, <2>3, BidsKept
  <2>5. HeartsInv'
    BY <1>0, <2>1, <2>2 DEF HeartsInv, HeartsHold
  <2> QED BY <2>4, <2>5
<1>3. CASE MainArrives
  <2>1. /\ reread.step = "served" /\ reread' = NoRead /\ main' = reread.main
        /\ crossed' = crossed
    BY <1>3 DEF MainArrives, HeartsStay
  <2>2. /\ main' \in Shown /\ main'.price <= bids /\ main'.count <= bids
        /\ reread'.step = "none" /\ reread' \in RereadRow
    BY <1>0, <2>1 DEF BidsInv, ViewsBehind, PageTyped, RereadRow, NoRead
  <2>3. PageTyped'
    BY <1>0, <2>2 DEF PageTyped
  <2>4. Behind(main', bids, own.step)
    BY <1>0, <2>2 DEF Behind, Shown
  <2>5. BidsInv'
    BY <1>0, <2>2, <2>3, <2>4, BidsKept
  <2>6. HeartsInv'
    BY <1>0, <2>1, <2>2 DEF HeartsInv, HeartsHold
  <2> QED BY <2>5, <2>6
<1>4. CASE WishlistRead
  <2>1. UNCHANGED <<main, reread, crossed>>
    BY <1>4 DEF WishlistRead
  <2>2. PageTyped'
    BY <1>0, <2>1 DEF PageTyped
  <2>3. BidsInv'
    <3>1. reread'.step = "served" =>
            reread'.main.price <= bids /\ reread'.main.count <= bids
      BY <2>1 DEF BidsInv, ViewsBehind
    <3> QED BY <1>0, <2>1, <2>2, <3>1, BidsKept
  <2> QED BY <1>0, <2>1, <2>3, HeartsKept DEF HeartsInv
<1> QED BY <1>1, <1>2, <1>3, <1>4

(* The hearts.                                                                 *)
LEMMA HeartStepKeeps ==
  ASSUME BidsInv, HeartsInv, NEW c \in Cards,
         \/ Toggles(c) \/ ToggleServed(c) \/ ToggleSucceeds(c) \/ ToggleFails(c)
         \/ ToggledElsewhere(c)
  PROVE  BidsInv' /\ HeartsInv'
<1>0. /\ UNCHANGED <<bids, toEmit, wire, own, crossed>>
      /\ PageTyped /\ bids \in Nat /\ mishaps \in Nat
      /\ mishaps' \in {mishaps, mishaps + 1}
      /\ main \in Shown /\ list \in Shown /\ toggle \in [Cards -> ToggleRow]
      /\ toggle[c].step # "none" => toggle[c].main \in Shown /\ toggle[c].was \in BOOLEAN
      /\ Behind(main, bids, own.step)
      /\ \A d \in Cards : toggle[d].step # "none" => Behind(toggle[d].main, bids, own.step)
      /\ reread.step = "served" => reread.main.price <= bids /\ reread.main.count <= bids
  BY DEF Toggles, ToggleServed, ToggleSucceeds, ToggleFails, ToggledElsewhere, AMishap,
         BidsStay, BidsInv, EventsKnown, ViewsBehind, HeartsInv, PageTyped, ToggleRow
<1>1. CASE Toggles(c)
  <2> DEFINE was == c \in my \/ main.heart[c]
             row == [step |-> "asked", was |-> was, main |-> main]
  <2>1. /\ toggle' = [toggle EXCEPT ![c] = row] /\ mishaps' = mishaps /\ wished' = wished
        /\ main' = WithHeart(main, c, ~was) /\ list' = WithHeart(list, c, ~was)
        /\ reread' = NoRead
    BY <1>1 DEF Toggles, GiveUp
  <2>2. was \in BOOLEAN /\ (~was) \in BOOLEAN
    BY <1>0 DEF Shown, Hearts
  <2>3. row \in ToggleRow /\ row.step = "asked" /\ row.main = main
    BY <1>0, <2>2 DEF ToggleRow
  <2> HIDE DEF row
  <2> DEFINE wishes == ~was
  <2>4. wishes \in BOOLEAN /\ main' = WithHeart(main, c, wishes) /\ list' = WithHeart(list, c, wishes)
    BY <2>1, <2>2
  <2> HIDE DEF was, wishes
  <2>5. /\ main' \in Shown /\ main'.price = main.price /\ main'.count = main.count
        /\ \A d \in Cards : d # c => main'.heart[d] = main.heart[d]
    BY <1>0, <2>4, WithHeartShows
  <2>6. /\ list' \in Shown /\ list'.price = list.price /\ list'.count = list.count
        /\ \A d \in Cards : d # c => list'.heart[d] = list.heart[d]
    BY <1>0, <2>4, WithHeartShows
  <2>7. /\ toggle' \in [Cards -> ToggleRow] /\ toggle'[c] = row
        /\ \A d \in Cards : d # c => toggle'[d] = toggle[d]
        /\ reread' \in RereadRow /\ reread'.step = "none"
    BY <1>0, <2>1, <2>3 DEF RereadRow, NoRead
  <2>8. PageTyped'
    BY <1>0, <2>1, <2>5, <2>6, <2>7 DEF PageTyped
  <2>9. Behind(main', bids, own.step)
    BY <1>0, <2>5 DEF Behind
  <2>10. BidsInv'
    BY <1>0, <2>3, <2>6, <2>7, <2>8, <2>9, BidsKept
  <2>11. HeartsHold'
    BY <1>0, <2>1, <2>3, <2>5, <2>6, <2>7 DEF HeartsInv, HeartsHold, Changing
  <2>12. HeartsInv'
    BY <1>0, <2>1, <2>3, <2>7, <2>11 DEF HeartsInv
  <2> QED BY <2>10, <2>12
<1>2. CASE ToggleServed(c)
  <2>1. toggle[c].step = "asked" /\ UNCHANGED <<main, list, reread>>
    BY <1>2 DEF ToggleServed
  <2>2. PICK step \in {"inserted", "deleted", "failed"} :
          /\ toggle' = [toggle EXCEPT ![c].step = step]
          /\ step = "failed" => mishaps' = mishaps + 1 /\ wished' = wished
          /\ step # "failed" => mishaps' = mishaps /\ wished' = Flip(c)
          /\ step = "inserted" => c \notin wished
          /\ step = "deleted" => c \in wished
    BY <1>2 DEF ToggleServed, AMishap
  <2> DEFINE row == [toggle[c] EXCEPT !.step = step]
  <2>3. row \in ToggleRow /\ row.step = step /\ row.main = toggle[c].main
    BY <1>0, <2>1 DEF ToggleRow
  <2>4. toggle' = [toggle EXCEPT ![c] = row]
    BY <1>0, <2>2 DEF ToggleRow
  <2> HIDE DEF row
  <2>5. /\ toggle' \in [Cards -> ToggleRow] /\ toggle'[c] = row
        /\ \A d \in Cards : d # c => toggle'[d] = toggle[d]
    BY <1>0, <2>3, <2>4
  <2>6. /\ wished' \subseteq Cards
        /\ \A d \in Cards : d # c => (d \in wished' <=> d \in wished)
        /\ step = "inserted" => c \in wished'
        /\ step = "deleted" => c \notin wished'
    BY <1>0, <2>2 DEF Flip, PageTyped
  <2>7. PageTyped'
    BY <1>0, <2>1, <2>5, <2>6 DEF PageTyped
  <2>8. BidsInv'
    BY <1>0, <2>1, <2>3, <2>5, <2>7, BidsKept
  <2>9. Changing' = Changing /\ Changing # {}
    BY <2>1, <2>3, <2>5 DEF Changing
  <2>10. reread.step # "none" => crossed
    BY <2>9 DEF HeartsInv
  <2>11. mishaps' = 0 => mishaps = 0 /\ step # "failed"
    BY <1>0, <2>2
  <2>12. HeartsHold'
    BY <1>0, <2>1, <2>3, <2>5, <2>6, <2>9, <2>11 DEF HeartsInv, HeartsHold, Changing
  <2>13. HeartsInv'
    BY <1>0, <2>1, <2>3, <2>5, <2>6, <2>10, <2>11, <2>12 DEF HeartsInv
  <2> QED BY <2>8, <2>13
<1>3. CASE ToggleSucceeds(c)
  <2> DEFINE wishes == toggle[c].step = "inserted"
  <2>1. /\ toggle[c].step \in {"inserted", "deleted"} /\ wishes \in BOOLEAN
        /\ main' = WithHeart(main, c, wishes) /\ list' = WithHeart(list, c, wishes)
        /\ toggle' = [toggle EXCEPT ![c] = NoToggle]
        /\ UNCHANGED <<wished, reread, mishaps>>
    BY <1>3 DEF ToggleSucceeds
  <2>2. mishaps = 0 => wishes = (c \in wished)
    BY <2>1 DEF HeartsInv
  <2> HIDE DEF wishes
  <2>3. /\ main' \in Shown /\ main'.price = main.price /\ main'.count = main.count
        /\ main'.heart[c] = wishes
        /\ \A d \in Cards : d # c => main'.heart[d] = main.heart[d]
    <3>1. main \in Shown /\ wishes \in BOOLEAN /\ main' = WithHeart(main, c, wishes)
      BY <1>0, <2>1
    <3> QED BY <3>1, WithHeartShows
  <2>4. /\ list' \in Shown /\ list'.price = list.price /\ list'.count = list.count
        /\ list'.heart[c] = wishes
        /\ \A d \in Cards : d # c => list'.heart[d] = list.heart[d]
    <3>1. list \in Shown /\ wishes \in BOOLEAN /\ list' = WithHeart(list, c, wishes)
      BY <1>0, <2>1
    <3> QED BY <3>1, WithHeartShows
  <2>5. /\ toggle' \in [Cards -> ToggleRow] /\ toggle'[c].step = "none"
        /\ \A d \in Cards : d # c => toggle'[d] = toggle[d]
    BY <1>0, <2>1 DEF NoToggle, ToggleRow
  <2>6. PageTyped'
    BY <1>0, <2>1, <2>3, <2>4, <2>5 DEF PageTyped
  <2>7. Behind(main', bids, own.step)
    BY <1>0, <2>3 DEF Behind
  <2>8. BidsInv'
    BY <1>0, <2>1, <2>4, <2>5, <2>6, <2>7, BidsKept
  <2>9. Changing # {} /\ Changing' \subseteq Changing
    BY <2>1, <2>5 DEF Changing
  <2>10. reread.step # "none" => crossed
    BY <2>9 DEF HeartsInv
  <2>11. HeartsHold'
    BY <1>0, <2>1, <2>2, <2>3, <2>4, <2>5 DEF HeartsInv, HeartsHold, Changing
  <2>12. HeartsInv'
    BY <1>0, <2>1, <2>5, <2>10, <2>11 DEF HeartsInv
  <2> QED BY <2>8, <2>12
<1>4. CASE ToggleFails(c)
  <2> DEFINE wishes == toggle[c].was
  <2>1. /\ toggle[c].step \in {"failed", "inserted", "deleted"}
        /\ wishes \in BOOLEAN /\ main' = toggle[c].main /\ list' = WithHeart(list, c, wishes)
        /\ toggle' = [toggle EXCEPT ![c] = NoToggle]
        /\ UNCHANGED <<wished, reread>>
        /\ toggle[c].step = "failed" \/ mishaps' = mishaps + 1
        /\ mishaps' = mishaps \/ mishaps' = mishaps + 1
    BY <1>0, <1>4 DEF ToggleFails, AMishap
  <2>2. mishaps' # 0
    BY <1>0, <2>1 DEF HeartsInv
  <2> HIDE DEF wishes
  <2>3. list' \in Shown /\ list'.price = list.price /\ list'.count = list.count
    BY <1>0, <2>1, WithHeartShows
  <2>4. main' \in Shown /\ Behind(main', bids, own.step)
    BY <1>0, <2>1
  <2>5. /\ toggle' \in [Cards -> ToggleRow] /\ toggle'[c].step = "none"
        /\ \A d \in Cards : d # c => toggle'[d] = toggle[d]
    BY <1>0, <2>1 DEF NoToggle, ToggleRow
  <2>6. PageTyped'
    BY <1>0, <2>1, <2>3, <2>4, <2>5 DEF PageTyped
  <2>7. BidsInv'
    BY <1>0, <2>1, <2>3, <2>4, <2>5, <2>6, BidsKept
  <2>8. Changing # {}
    BY <2>1 DEF Changing
  <2>9. reread.step # "none" => crossed
    BY <2>8 DEF HeartsInv
  <2>10. HeartsInv'
    BY <1>0, <2>1, <2>2, <2>9 DEF HeartsInv, HeartsHold
  <2> QED BY <2>7, <2>10
<1>5. CASE ToggledElsewhere(c)
  <2>1. /\ UNCHANGED <<main, list, reread, toggle>> /\ mishaps' = mishaps + 1
        /\ wished' \subseteq Cards
    BY <1>0, <1>5 DEF ToggledElsewhere, AMishap, Flip, PageTyped
  <2>2. PageTyped'
    BY <1>0, <2>1 DEF PageTyped
  <2>3. BidsInv'
    BY <1>0, <2>1, <2>2, BidsKept
  <2>4. mishaps' # 0 /\ mishaps' \in Nat /\ Changing' = Changing
    BY <1>0, <2>1 DEF Changing
  <2>5. HeartsInv'
    BY <1>0, <2>1, <2>4 DEF HeartsInv, HeartsHold
  <2> QED BY <2>3, <2>5
<1> QED BY <1>1, <1>2, <1>3, <1>4, <1>5

LEMMA PageStep ==
  ASSUME BidsInv /\ HeartsInv, [MainPageNext]_mainPageVars
  PROVE  (BidsInv /\ HeartsInv)'
<1>1. ASSUME UNCHANGED mainPageVars PROVE BidsInv' /\ HeartsInv'
  <2>1. UNCHANGED <<bids, toEmit, wire, wished, main, list, reread, own, toggle, mishaps, crossed>>
    BY <1>1 DEF mainPageVars
  <2>2. EventsKnown' /\ PageTyped'
    BY <2>1 DEF BidsInv, EventsKnown, PageTyped
  <2>3. ViewsBehind'
    BY <2>1 DEF BidsInv, ViewsBehind
  <2>4. HeartsInv'
    BY <2>1, HeartsKept DEF HeartsInv
  <2> QED BY <2>2, <2>3, <2>4 DEF BidsInv
<1> QED BY <1>1, BidStepKeeps, ReadStepKeeps, HeartStepKeeps DEF MainPageNext

(* What the cards of the main page and of the lists show: no price and no      *)
(* count that is ahead of the bids, and the right hearts unless something was  *)
(* lost or crossed (useMainAuctions, useMyWishlist, mainCacheUpdater).         *)
THEOREM CardsAreHeld == MainPageSpec => []CardsHold
<1>1. BidsInv /\ HeartsInv => CardsHold
  <2> SUFFICES ASSUME BidsInv, HeartsInv PROVE CardsHold
    OBVIOUS
  <2>1. /\ bids \in Nat /\ main.count \in Nat /\ list.count \in Nat
        /\ Behind(main, bids, own.step) /\ list.price <= bids
        /\ list.count <= IF own.step = "placed" THEN bids - 1 ELSE bids
    BY DEF BidsInv, EventsKnown, PageTyped, ViewsBehind, Shown
  <2>2. NeverAhead
    BY <2>1 DEF NeverAhead, Behind
  <2> QED BY <2>2 DEF CardsHold, HeartsInv
<1>2. MainPageInit => BidsInv /\ HeartsInv
  BY PageAtFirst
<1>3. BidsInv /\ HeartsInv /\ [MainPageNext]_mainPageVars => (BidsInv /\ HeartsInv)'
  BY PageStep
<1> QED BY <1>1, <1>2, <1>3, PTL DEF MainPageSpec

(* What there can be of bids, events and clicks, which use up one bound.       *)
PageBound ==
  /\ toggles \in Nat /\ mishaps \in 0 .. MaxMishaps
  /\ bids + toggles + mishaps + (IF own.step = "asked" THEN 1 ELSE 0) <= MaxHappens
  /\ toEmit \subseteq 1 .. bids
  /\ \A i \in DOMAIN wire :
       wire[i].price \in 1 .. bids /\ wire[i].count \in wire[i].price .. bids
  /\ own.step = "asked" => own.price <= bids + 1
  /\ my \subseteq Cards /\ here \in BOOLEAN /\ crossed \in BOOLEAN

LEMMA BoundsAtFirst == ASSUME MainPageInit PROVE PageBound
<1>1. /\ toggles = 0 /\ mishaps = 0 /\ bids = 0 /\ own.step = "none" /\ toEmit = {}
      /\ wire = <<>> /\ my = {} /\ here \in BOOLEAN
  BY DEF MainPageInit
<1>2. crossed \in BOOLEAN
  BY DEF MainPageInit
<1> QED BY <1>1, <1>2, MainPageBounds DEF PageBound

(* Reads and hearts: at most one click or mishap more, if there is room.       *)
LEMMA BoundsStay ==
  ASSUME BidsInv, PageBound, UNCHANGED <<bids, toEmit, wire, own, here>>,
         \/ UNCHANGED <<toggles, mishaps>>
         \/ Happens /\ toggles' = toggles + 1 /\ mishaps' = mishaps
         \/ AMishap /\ toggles' = toggles,
         my' \subseteq Cards, crossed' \in BOOLEAN
  PROVE  PageBound'
<1>1. /\ bids \in Nat /\ toggles \in Nat /\ mishaps \in 0 .. MaxMishaps
      /\ MaxMishaps \in Nat /\ MaxHappens \in Nat
  BY MainPageBounds DEF BidsInv, EventsKnown, PageBound
<1>2. /\ toggles' \in Nat /\ mishaps' \in 0 .. MaxMishaps
      /\ bids' + toggles' + mishaps' + (IF own'.step = "asked" THEN 1 ELSE 0) <= MaxHappens
  BY <1>1 DEF PageBound, Happens, AMishap
<1> QED BY <1>2 DEF PageBound

LEMMA BidsBound ==
  ASSUME BidsInv, PageBound,
         OthersBid \/ BidsHere \/ BidServed \/ BidAnswered
  PROVE  PageBound'
<1>0. /\ bids \in Nat /\ toggles \in Nat /\ mishaps \in 0 .. MaxMishaps
      /\ MaxMishaps \in Nat /\ MaxHappens \in Nat /\ toEmit \subseteq 1 .. bids
      /\ my \subseteq Cards /\ here \in BOOLEAN /\ crossed \in BOOLEAN
      /\ own \in OwnRow /\ main \in Shown
  BY MainPageBounds DEF BidsInv, EventsKnown, PageTyped, PageBound
<1>1. UNCHANGED <<wire, my, here, crossed, toggles>>
  BY DEF OthersBid, BidsHere, BidServed, BidAnswered, HeartsStay
<1>2. ASSUME NEW n \in Nat, n \in {bids, bids + 1}, bids' = n, toEmit' \subseteq 1 .. n,
             mishaps' \in 0 .. MaxMishaps,
             n + toggles + mishaps' + (IF own'.step = "asked" THEN 1 ELSE 0) <= MaxHappens,
             own'.step = "asked" => own'.price <= n + 1
      PROVE  PageBound'
  <2>1. \A i \in DOMAIN wire :
          wire[i].price \in 1 .. bids' /\ wire[i].count \in wire[i].price .. bids'
    BY <1>0, <1>2 DEF PageBound
  <2> QED BY <1>0, <1>1, <1>2, <2>1 DEF PageBound
<1>3. CASE OthersBid
  <2>1. bids' = bids + 1 /\ toEmit' = toEmit \cup {bids + 1} /\ UNCHANGED <<own, mishaps>> /\ Happens
    BY <1>3 DEF OthersBid
  <2>2. own.step = "asked" => own.price \in Nat
    BY <1>0 DEF OwnRow
  <2>3. own.step = "asked" => own.price <= bids + 1
    BY DEF PageBound
  <2>4. bids + 1 + toggles + mishaps + (IF own.step = "asked" THEN 1 ELSE 0) <= MaxHappens
    BY <1>0, <2>1 DEF Happens
  <2> QED BY <1>0, <1>2, <2>1, <2>2, <2>3, <2>4
<1>4. CASE BidsHere
  <2>1. /\ UNCHANGED <<bids, toEmit, mishaps>> /\ own' = [step |-> "asked", price |-> main.price + 1]
        /\ own.step = "none" /\ Happens
    BY <1>4 DEF BidsHere
  <2>2. main.price <= bids /\ main.price \in Nat
    BY <1>0 DEF BidsInv, ViewsBehind, Behind, Shown
  <2>3. own'.step = "asked" /\ own'.price <= bids + 1
    BY <1>0, <2>1, <2>2
  <2>4. bids + toggles + mishaps + 1 <= MaxHappens
    BY <1>0, <2>1 DEF Happens
  <2> QED BY <1>0, <1>2, <2>1, <2>3, <2>4
<1>5. CASE BidServed
  <2>1. own.step = "asked" /\ own.price <= bids + 1 /\ UNCHANGED mishaps
    BY <1>5 DEF BidServed, PageBound
  <2>2. own.price \in Nat
    BY <1>0, <2>1 DEF OwnRow
  <2>3. bids + toggles + mishaps + 1 <= MaxHappens
    BY <2>1 DEF PageBound
  <2>4. own'.step # "asked"
    BY <1>0, <1>5 DEF BidServed, OwnRow
  <2>5. CASE IsHigher
    <3>1. bids' = own.price /\ toEmit' = toEmit \cup {own.price} /\ own.price = bids + 1
      BY <1>0, <1>5, <2>1, <2>2, <2>5 DEF BidServed, IsHigher
    <3> QED BY <1>0, <1>2, <2>1, <2>3, <2>4, <3>1
  <2>6. CASE ~IsHigher
    <3>1. UNCHANGED <<bids, toEmit>>
      BY <1>5, <2>6 DEF BidServed
    <3> QED BY <1>0, <1>2, <2>1, <2>3, <2>4, <3>1
  <2> QED BY <2>5, <2>6
<1>6. CASE BidAnswered
  <2>1. /\ UNCHANGED <<bids, toEmit>> /\ own'.step # "asked" /\ own.step # "asked"
        /\ mishaps' = mishaps \/ AMishap
    BY <1>6 DEF BidAnswered
  <2>2. bids + toggles + mishaps <= MaxHappens
    BY <1>0, <2>1 DEF PageBound
  <2>3. mishaps' \in 0 .. MaxMishaps /\ bids + toggles + mishaps' <= MaxHappens
    BY <1>0, <2>1, <2>2 DEF AMishap, Happens
  <2>4. (IF own'.step = "asked" THEN 1 ELSE 0) = 0
    BY <2>1
  <2>5. bids' = bids /\ toEmit' \subseteq 1 .. bids /\ bids + toggles + mishaps' + 0 <= MaxHappens
    <3>1. bids' = bids /\ toEmit' \subseteq 1 .. bids
      BY ONLY <1>0, <2>1
    <3>2. bids + toggles + mishaps' + 0 = bids + toggles + mishaps'
      BY ONLY <1>0, <2>3
    <3> QED BY <2>3, <3>1, <3>2
  <2>6. bids + toggles + mishaps' + (IF own'.step = "asked" THEN 1 ELSE 0) <= MaxHappens
    BY <2>4, <2>5
  <2>7. own'.step = "asked" => own'.price <= bids + 1
    BY <2>1
  <2> QED BY ONLY <1>0, <1>2, <2>3, <2>5, <2>6, <2>7
<1> QED BY <1>3, <1>4, <1>5, <1>6

LEMMA WireBound ==
  ASSUME BidsInv, PageBound, NewBidArrives \/ \E k \in toEmit : Emits(k) PROVE PageBound'
<1>0. /\ bids \in Nat /\ toggles \in Nat /\ mishaps \in 0 .. MaxMishaps
      /\ MaxMishaps \in Nat /\ MaxHappens \in Nat /\ toEmit \subseteq 1 .. bids
      /\ wire \in Seq(EventRow)
      /\ \A i \in 1 .. Len(wire) :
           wire[i].price \in 1 .. bids /\ wire[i].count \in wire[i].price .. bids
  BY MainPageBounds DEF BidsInv, EventsKnown, PageBound
<1>1. UNCHANGED <<bids, own, my, here, crossed, toggles>> /\ toEmit' \subseteq toEmit
  BY DEF NewBidArrives, Emits, HeartsStay
<1>2. mishaps' = mishaps \/ AMishap
  BY DEF NewBidArrives, Emits
<1>3. /\ mishaps' \in 0 .. MaxMishaps
      /\ bids + toggles + mishaps' + (IF own.step = "asked" THEN 1 ELSE 0) <= MaxHappens
  BY <1>0, <1>2 DEF PageBound, AMishap, Happens
<1>4. \A i \in DOMAIN wire' :
        wire'[i].price \in 1 .. bids /\ wire'[i].count \in wire'[i].price .. bids
  <2>1. CASE NewBidArrives
    <3>1. wire # <<>> /\ wire' = Tail(wire)
      BY <2>1 DEF NewBidArrives
    <3>2. /\ Len(wire') = Len(wire) - 1 /\ DOMAIN wire' = 1 .. Len(wire')
          /\ \A i \in 1 .. Len(wire') : wire'[i] = wire[i + 1]
      BY <1>0, <3>1
    <3>3. Len(wire) \in Nat
      BY <1>0
    <3>4. \A i \in 1 .. Len(wire') : i + 1 \in 1 .. Len(wire)
      BY <3>2, <3>3
    <3> QED BY <1>0, <3>2, <3>4
  <2>2. ASSUME NEW k \in toEmit, Emits(k)
        PROVE  \A i \in DOMAIN wire' :
                 wire'[i].price \in 1 .. bids /\ wire'[i].count \in wire'[i].price .. bids
    <3> DEFINE e == [price |-> k, count |-> bids]
    <3>1. wire' = Append(wire, e) \/ wire' = wire
      BY <2>2 DEF Emits, Counted
    <3>2. e \in EventRow /\ e.price \in 1 .. bids /\ e.count \in e.price .. bids
      BY <1>0 DEF EventRow
    <3> HIDE DEF e
    <3>3. CASE wire' = wire
      BY <1>0, <3>3
    <3>4. CASE wire' = Append(wire, e)
      <4>1. /\ Len(wire) \in Nat /\ Len(wire') = Len(wire) + 1 /\ DOMAIN wire' = 1 .. Len(wire')
            /\ wire'[Len(wire) + 1] = e
            /\ \A i \in 1 .. Len(wire) : wire'[i] = wire[i]
        BY <1>0, <3>2, <3>4
      <4>2. \A i \in 1 .. Len(wire') : i \in 1 .. Len(wire) \/ i = Len(wire) + 1
        BY <4>1
      <4> QED BY <1>0, <3>2, <4>1, <4>2
    <3> QED BY <3>1, <3>3, <3>4
  <2> QED BY <2>1, <2>2
<1> QED BY <1>0, <1>1, <1>3, <1>4 DEF PageBound

LEMMA PageBoundStep ==
  ASSUME BidsInv, PageBound, [MainPageNext]_mainPageVars PROVE PageBound'
<1>0. wished \subseteq Cards /\ my \subseteq Cards /\ crossed \in BOOLEAN
  BY DEF BidsInv, PageTyped, PageBound
<1>1. CASE Rereads \/ MainServed \/ MainArrives \/ WishlistRead \/ UNCHANGED mainPageVars
  <2>1. UNCHANGED <<bids, toEmit, wire, own, here, toggles, mishaps>> /\ my' \in {my, wished}
    BY <1>1 DEF Rereads, MainServed, MainArrives, WishlistRead, mainPageVars, BidsStay, HeartsStay
  <2>2. crossed' \in BOOLEAN
    <3>1. CASE Rereads
      BY <1>0, <3>1 DEF Rereads
    <3>2. CASE ~Rereads
      <4>1. crossed' = crossed
        BY <1>1, <3>2 DEF MainServed, MainArrives, WishlistRead, mainPageVars, HeartsStay
      <4> QED BY <1>0, <4>1
    <3> QED BY <3>1, <3>2
  <2> QED BY <1>0, <2>1, <2>2, BoundsStay
<1>2. ASSUME NEW c \in Cards,
             Toggles(c) \/ ToggleServed(c) \/ ToggleSucceeds(c) \/ ToggleFails(c) \/ ToggledElsewhere(c)
      PROVE  PageBound'
  <2>1. UNCHANGED <<bids, toEmit, wire, own, here, my, crossed>>
    BY <1>2 DEF Toggles, ToggleServed, ToggleSucceeds, ToggleFails, ToggledElsewhere, BidsStay
  <2>2. \/ UNCHANGED <<toggles, mishaps>>
        \/ Happens /\ toggles' = toggles + 1 /\ mishaps' = mishaps
        \/ AMishap /\ toggles' = toggles
    BY <1>2 DEF Toggles, ToggleServed, ToggleSucceeds, ToggleFails, ToggledElsewhere
  <2> QED BY <1>0, <2>1, <2>2, BoundsStay
<1> QED BY <1>1, <1>2, BidsBound, WireBound DEF MainPageNext

(* Every event names a bid and counts at least as many, and the page shows     *)
(* prices and counts of bids (getMainAuctions, updateMainCacheAuctionBid).     *)
THEOREM MainPageTypeCorrect == MainPageSpec => []MainPageTypeOK
<1>1. BidsInv /\ HeartsInv /\ PageBound => MainPageTypeOK
  <2> SUFFICES ASSUME BidsInv, PageBound PROVE MainPageTypeOK
    OBVIOUS
  <2>1. /\ bids \in Nat /\ toggles \in Nat /\ mishaps \in 0 .. MaxMishaps
        /\ MaxMishaps \in Nat /\ MaxHappens \in Nat
    BY MainPageBounds DEF BidsInv, EventsKnown, PageBound
  <2>2. bids \in 0 .. MaxHappens /\ toggles \in 0 .. MaxHappens
    BY <2>1 DEF PageBound
  <2>3. ASSUME NEW v \in Shown, v.price <= bids, v.count <= bids + 1 PROVE v \in View
    BY <2>2, <2>1, <2>3 DEF Shown, View
  <2>4. main \in View
    <3>1. main \in Shown /\ main.price <= bids /\ main.count <= bids + 1
      BY <2>1 DEF BidsInv, PageTyped, ViewsBehind, Behind, Shown
    <3> QED BY <2>3, <3>1
  <2>5. list \in View
    <3>1. list \in Shown /\ list.price <= bids /\ list.count <= bids + 1
      BY <2>1 DEF BidsInv, PageTyped, ViewsBehind, Shown
    <3> QED BY <2>3, <3>1
  <2>6. /\ reread.step \in {"none", "asked", "served"}
        /\ own.step \in {"none", "asked", "placed", "refused"}
    BY DEF BidsInv, PageTyped, RereadRow, OwnRow
  <2>7. \A c \in Cards : toggle[c].step \in {"none", "asked", "inserted", "deleted", "failed"}
    BY DEF BidsInv, PageTyped, ToggleRow
  <2> QED BY <2>2, <2>4, <2>5, <2>6, <2>7 DEF BidsInv, PageTyped, PageBound, MainPageTypeOK
<1>2. MainPageInit => BidsInv /\ HeartsInv /\ PageBound
  BY PageAtFirst, BoundsAtFirst
<1>3. BidsInv /\ HeartsInv /\ PageBound /\ [MainPageNext]_mainPageVars
        => (BidsInv /\ HeartsInv /\ PageBound)'
  BY PageStep, PageBoundStep
<1> QED BY <1>1, <1>2, <1>3, PTL DEF MainPageSpec

(***************************************************************************)
(* The bell.                                                               *)
(***************************************************************************)
IsQuery(q) ==
  /\ q = [shown |-> q.shown, call |-> q.call, got |-> q.got, stale |-> q.stale]
  /\ q.call \in {"none", "asked", "served"} /\ q.stale \in BOOLEAN
BellTyped ==
  /\ note \in Seq(BOOLEAN) /\ signal \in Nat /\ untold \in BOOLEAN /\ open \in BOOLEAN
  /\ bell = [count |-> bell.count, list |-> bell.list]
  /\ IsQuery(bell.count) /\ IsQuery(bell.list)
  /\ marks \subseteq [what : Int, step : {"asked", "done", "missing"}]

(* What a query shows, or is about to show, is what the server would answer.   *)
Current(q, answer) ==
  /\ q.call = "none" => q.shown = answer
  /\ q.call = "served" => q.got = answer

(* A list that was marked while it was closed is not current, and is read when *)
(* it is opened.                                                               *)
BellKnows ==
  Told /\ ~untold =>
    /\ Current(bell.count, Answer("count"))
    /\ ~bell.list.stale => Current(bell.list, Answer("list"))
    /\ bell.list.stale /\ open => bell.list.call # "none"
BellInv == BellTyped /\ BellKnows

LEMMA SettledIsQuery ==
  ASSUME NEW shown PROVE IsQuery(Settled(shown))
BY DEF IsQuery, Settled

LEMMA MarkedIsQuery ==
  ASSUME NEW q, IsQuery(q)
  PROVE  LET m == [q EXCEPT !.stale = TRUE]
         IN  IsQuery(m) /\ m.stale /\ m.shown = q.shown /\ m.got = q.got
<1> DEFINE m == [q EXCEPT !.stale = TRUE]
<1>0. m = [q EXCEPT !.stale = TRUE]
  OBVIOUS
<1> HIDE DEF m
<1>1. m = [shown |-> q.shown, call |-> q.call, got |-> q.got, stale |-> TRUE]
  BY <1>0 DEF IsQuery
<1>2. IsQuery(m) /\ m.stale /\ m.shown = q.shown /\ m.got = q.got
  BY <1>1 DEF IsQuery
<1> QED BY <1>2 DEF m

LEMMA AskedIsQuery ==
  ASSUME NEW q
  PROVE  /\ IsQuery(Asked(q)) /\ Asked(q).call = "asked" /\ ~Asked(q).stale
         /\ Asked(q).shown = q.shown /\ Asked(q).got = q.shown
<1> DEFINE s == Settled(q.shown)
           a == [s EXCEPT !.call = "asked"]
<1>1. IsQuery(s) /\ s.stale = FALSE /\ s.shown = q.shown /\ s.got = q.shown
  BY SettledIsQuery DEF Settled
<1> HIDE DEF s
<1>2. a = [shown |-> s.shown, call |-> "asked", got |-> s.got, stale |-> s.stale]
  BY <1>1 DEF IsQuery
<1> HIDE DEF a
<1>3. IsQuery(a) /\ a.call = "asked" /\ ~a.stale /\ a.shown = q.shown /\ a.got = q.shown
  BY <1>1, <1>2 DEF IsQuery
<1> QED BY <1>3 DEF a, s, Asked

LEMMA ServedIsQuery ==
  ASSUME NEW q, IsQuery(q), NEW a
  PROVE  LET r == [q EXCEPT !.call = "served", !.got = a]
         IN  IsQuery(r) /\ r.call = "served" /\ r.got = a /\ r.shown = q.shown
<1> DEFINE c == [q EXCEPT !.call = "served"]
           r == [c EXCEPT !.got = a]
<1>1. c = [shown |-> q.shown, call |-> "served", got |-> q.got, stale |-> q.stale]
  BY DEF IsQuery
<1> HIDE DEF c
<1>2. IsQuery(c) /\ c.call = "served" /\ c.shown = q.shown
  BY <1>1 DEF IsQuery
<1>3. r = [shown |-> c.shown, call |-> c.call, got |-> a, stale |-> c.stale]
  BY <1>2 DEF IsQuery
<1> HIDE DEF r
<1>4. IsQuery(r) /\ r.call = "served" /\ r.got = a /\ r.shown = q.shown
  BY <1>2, <1>3 DEF IsQuery
<1>5. r = [q EXCEPT !.call = "served", !.got = a]
  BY DEF r, c, IsQuery
<1> QED BY <1>4, <1>5

(* An event, or a marking that was done, has everything in front read anew.    *)
LEMMA InvalidatedKnows ==
  ASSUME BellTyped, bell' = Invalidated, open' = open
  PROVE  /\ bell' = [count |-> bell'.count, list |-> bell'.list]
         /\ IsQuery(bell'.count) /\ IsQuery(bell'.list) /\ BellKnows'
<1> DEFINE marked == [bell.list EXCEPT !.stale = TRUE]
<1>1. IsQuery(marked) /\ marked.stale
  BY MarkedIsQuery DEF BellTyped
<1> HIDE DEF marked
<1>2. /\ bell'.count = Asked(bell.count)
      /\ bell'.list = IF open THEN Asked(bell.list) ELSE marked
      /\ bell' = [count |-> bell'.count, list |-> bell'.list]
  BY DEF Invalidated, marked
<1>3. open => bell'.list.call = "asked" /\ ~bell'.list.stale
  BY <1>2, AskedIsQuery
<1>4. ~open => bell'.list.stale
  BY <1>1, <1>2
<1>5. bell'.count.call = "asked"
  BY <1>2, AskedIsQuery
<1>6. BellKnows'
  BY <1>3, <1>4, <1>5 DEF BellKnows, Current
<1> QED BY <1>1, <1>2, <1>6, AskedIsQuery

(* One of the two queries goes on.                                             *)
LEMMA QueryGoesOn ==
  ASSUME BellInv, NEW which \in {"count", "list"}, NEW q, IsQuery(q),
         bell' = [bell EXCEPT ![which] = q],
         UNCHANGED <<note, signal, marks>>, open' \in BOOLEAN,
         open' = open \/ which = "list",
         untold' \in BOOLEAN, untold => untold',
         Told /\ ~untold' =>
           /\ which = "count" \/ ~q.stale => Current(q, Answer(which))
           /\ which = "list" /\ q.stale /\ open' => q.call # "none"
  PROVE  BellInv'
<1>1. /\ bell' = [count |-> bell'.count, list |-> bell'.list]
      /\ bell'[which] = q
      /\ which = "count" => bell'.list = bell.list
      /\ which = "list" => bell'.count = bell.count
  BY DEF BellInv, BellTyped
<1>2. BellTyped'
  BY <1>1 DEF BellInv, BellTyped
<1>3. Told' = Told /\ Answer("count")' = Answer("count") /\ Answer("list")' = Answer("list")
  BY DEF Told, Answer, Unread, Latest
<1>4. BellKnows'
  <2>1. CASE which = "count"
    BY <1>1, <1>3, <2>1 DEF BellInv, BellTyped, BellKnows
  <2>2. CASE which = "list"
    BY <1>1, <1>3, <2>2 DEF BellInv, BellTyped, BellKnows
  <2> QED BY <2>1, <2>2
<1> QED BY <1>2, <1>4 DEF BellInv

LEMMA NotesOneMore ==
  ASSUME NEW s \in Seq(BOOLEAN), NEW b \in BOOLEAN PROVE Append(s, b) \in Seq(BOOLEAN)
OBVIOUS

LEMMA NotesChanged ==
  ASSUME NEW s \in Seq(BOOLEAN), NEW t, DOMAIN t = DOMAIN s,
         t = [i \in DOMAIN s |-> t[i]], \A i \in DOMAIN s : t[i] \in BOOLEAN
  PROVE  t \in Seq(BOOLEAN)
<1>1. Len(s) \in Nat /\ DOMAIN s = 1 .. Len(s)
  OBVIOUS
<1>2. t \in [1 .. Len(s) -> BOOLEAN]
  BY <1>1
<1> QED BY <1>1, <1>2, SeqDef

LEMMA BellAtFirst == ASSUME BellInit PROVE BellInv
<1> DEFINE l == Settled({})
           m == [l EXCEPT !.stale = TRUE]
<1>3. bell.count = Settled(0) /\ bell.list = m /\ bell = [count |-> bell.count, list |-> bell.list]
  BY DEF BellInit
<1>4. IsQuery(m) /\ m.stale
  BY SettledIsQuery, MarkedIsQuery
<1> HIDE DEF l, m
<1>5. BellTyped
  <2>1. note \in Seq(BOOLEAN) /\ signal \in Nat /\ marks = {}
    BY DEF BellInit
  <2>2. untold \in BOOLEAN /\ open \in BOOLEAN
    BY DEF BellInit
  <2>3. IsQuery(bell.count) /\ IsQuery(bell.list)
    BY <1>3, <1>4, SettledIsQuery
  <2> QED BY <1>3, <2>1, <2>2, <2>3 DEF BellTyped
<1>6. bell.count.shown = 0 /\ bell.count.call = "none"
  BY <1>3 DEF Settled
<1>7. Unread = {} /\ Answer("count") = 0
  <2>1. Unread = {}
    BY DEF BellInit, Unread
  <2> QED BY <2>1, FS_EmptySet DEF Answer
<1>8. BellKnows
  BY <1>3, <1>4, <1>6, <1>7 DEF BellKnows, Current, BellInit
<1> QED BY <1>5, <1>8 DEF BellInv

(* What does not touch the queries: no news is taken away, and rows change     *)
(* only when news is on its way or the page is excused.                        *)
LEMMA QueriesStay ==
  ASSUME BellInv, UNCHANGED bell,
         note' \in Seq(BOOLEAN), signal' \in Nat, untold' \in BOOLEAN, open' \in BOOLEAN,
         marks' \subseteq [what : Int, step : {"asked", "done", "missing"}],
         Told' /\ ~untold' => Told /\ ~untold /\ note' = note,
         open' => open
  PROVE  BellInv'
<1>1. BellTyped'
  BY DEF BellInv, BellTyped
<1>2. ASSUME Told', ~untold'
      PROVE  Told /\ ~untold /\ Answer("count")' = Answer("count") /\ Answer("list")' = Answer("list")
  BY <1>2 DEF Answer, Unread, Latest
<1>3. BellKnows'
  BY <1>2 DEF BellInv, BellKnows
<1> QED BY <1>1, <1>3 DEF BellInv

LEMMA QueryStep ==
  ASSUME BellInv, NEW which \in {"count", "list"},
         Served(which) \/ Arrives(which) \/ GivesUp(which)
  PROVE  BellInv'
<1> DEFINE b == bell[which]
           a == Answer(which)
<1>0. /\ IsQuery(b) /\ untold \in BOOLEAN /\ open \in BOOLEAN
      /\ bell = [count |-> bell.count, list |-> bell.list]
  BY DEF BellInv, BellTyped
<1>1. CASE Served(which)
  <2> DEFINE q == [b EXCEPT !.call = "served", !.got = a]
  <2>1. /\ b.call = "asked" /\ UNCHANGED <<note, signal, open, marks, untold>>
        /\ bell' = [bell EXCEPT ![which] = q]
    BY <1>0, <1>1 DEF Served
  <2> HIDE DEF a, b
  <2>2. IsQuery(q) /\ q.call = "served" /\ q.got = a /\ q.shown = b.shown
    BY <1>0, ServedIsQuery
  <2> HIDE DEF q
  <2>4. Current(q, a)
    BY <2>2 DEF Current
  <2> QED BY <1>0, <2>1, <2>2, <2>4, QueryGoesOn DEF a
<1>2. CASE Arrives(which)
  <2> DEFINE q == Settled(b.got)
  <2>1. /\ b.call = "served" /\ UNCHANGED <<note, signal, open, marks>>
        /\ bell' = [bell EXCEPT ![which] = q] /\ untold' = (untold \/ b.stale)
    BY <1>0, <1>2 DEF Arrives
  <2>2. IsQuery(q)
    BY SettledIsQuery
  <2>3. q.shown = b.got /\ q.call = "none" /\ ~q.stale
    BY DEF Settled
  <2>4. b.stale \in BOOLEAN
    BY <1>0 DEF IsQuery
  <2>5. Told /\ ~untold' => b.got = a
    <3> SUFFICES ASSUME Told, ~untold' PROVE b.got = a
      OBVIOUS
    <3>1. ~untold /\ ~b.stale
      BY <2>1
    <3>2. Current(b, a)
      BY <3>1 DEF BellInv, BellKnows
    <3> QED BY <2>1, <3>2 DEF Current
  <2> HIDE DEF a, b, q
  <2>6. Told /\ ~untold' => Current(q, a)
    BY <2>3, <2>5 DEF Current
  <2>7. untold' \in BOOLEAN /\ (untold => untold')
    BY <1>0, <2>1, <2>4
  <2> QED BY <1>0, <2>1, <2>2, <2>3, <2>6, <2>7, QueryGoesOn DEF a
<1>3. CASE GivesUp(which)
  <2> DEFINE l == Settled(b.shown)
             q == [l EXCEPT !.stale = TRUE]
  <2>1. /\ untold' = TRUE /\ UNCHANGED <<note, signal, open, marks>>
        /\ bell' = [bell EXCEPT ![which] = q]
    BY <1>0, <1>3 DEF GivesUp
  <2>2. IsQuery(l)
    BY SettledIsQuery
  <2>4. IsQuery(q)
    BY <2>2, MarkedIsQuery
  <2> HIDE DEF q
  <2> QED BY <1>0, <2>1, <2>4, QueryGoesOn
<1> QED BY <1>1, <1>2, <1>3

LEMMA OpenStep ==
  ASSUME BellInv, Opens \/ Closes PROVE BellInv'
<1>0. bell = [count |-> bell.count, list |-> bell.list] /\ untold \in BOOLEAN
  BY DEF BellInv, BellTyped
<1>1. CASE Opens /\ bell.list.stale /\ bell.list.call = "none"
  <2> DEFINE q == Asked(bell.list)
  <2>1. IsQuery(q) /\ q.call = "asked" /\ ~q.stale
    BY AskedIsQuery
  <2>2. /\ bell' = [bell EXCEPT !["list"] = q] /\ open' \in BOOLEAN
        /\ UNCHANGED <<note, signal, marks, untold>>
    BY <1>0, <1>1 DEF Opens
  <2> HIDE DEF q
  <2>3. Current(q, Answer("list"))
    BY <2>1 DEF Current
  <2> QED BY <1>0, <2>1, <2>2, <2>3, QueryGoesOn
<1>2. CASE Opens /\ ~(bell.list.stale /\ bell.list.call = "none")
  <2>1. UNCHANGED <<note, signal, bell, marks, untold>> /\ open' = TRUE
    BY <1>2 DEF Opens
  <2>2. BellTyped'
    BY <2>1 DEF BellInv, BellTyped
  <2>3. Told' = Told /\ Answer("count")' = Answer("count") /\ Answer("list")' = Answer("list")
    BY <2>1 DEF Told, Answer, Unread, Latest
  <2>4. BellKnows'
    BY <1>2, <2>1, <2>3 DEF BellInv, BellKnows
  <2> QED BY <2>2, <2>4 DEF BellInv
<1>3. CASE Closes
  <2>1. UNCHANGED <<note, signal, bell, marks, untold>> /\ open' = FALSE /\ Told' = Told
    BY <1>3 DEF Closes, Told
  <2> QED BY <2>1, QueriesStay DEF BellInv, BellTyped
<1> QED BY <1>1, <1>2, <1>3

(* A notification, or its reading.                                             *)
LEMMA RowStep ==
  ASSUME BellInv, Notified \/ \E i \in DOMAIN note : ReadElsewhere(i) PROVE BellInv'
<1>0. BellTyped
  BY DEF BellInv
<1>1. CASE Notified
  <2>1. /\ note' \in Seq(BOOLEAN) /\ UNCHANGED <<bell, open, marks>>
        /\ \/ signal' = signal + 1 /\ untold' = untold
           \/ signal' = signal /\ untold' = TRUE
    BY <1>0, <1>1, NotesOneMore DEF BellTyped, Notified, Miss, PageStays
  <2>2. CASE signal' = signal + 1 /\ untold' = untold
    <3>1. signal' \in Nat /\ signal' # 0
      BY <1>0, <2>2 DEF BellTyped
    <3>2. untold' \in BOOLEAN
      BY <1>0, <2>2 DEF BellTyped
    <3> QED BY <1>0, <2>1, <3>1, <3>2, QueriesStay DEF BellTyped, Told
  <2>3. CASE signal' = signal /\ untold' = TRUE
    BY <1>0, <2>1, <2>3, QueriesStay DEF BellTyped
  <2> QED BY <2>1, <2>2, <2>3
<1>2. ASSUME NEW i \in DOMAIN note, ReadElsewhere(i) PROVE BellInv'
  <2>1. note' = [note EXCEPT ![i] = TRUE] /\ untold' = TRUE /\ UNCHANGED <<signal, bell, open, marks>>
    BY <1>2 DEF ReadElsewhere, PageStays
  <2>2. note' \in Seq(BOOLEAN)
    BY <1>0, <1>2, <2>1 DEF BellTyped
  <2> QED BY <1>0, <2>1, <2>2, QueriesStay DEF BellTyped
<1> QED BY <1>1, <1>2

(* The calls that mark as read.                                                *)
LEMMA MarkStep ==
  ASSUME BellInv,
         \/ MarksAll \/ \E i \in DOMAIN note : MarksOne(i)
         \/ \E m \in marks : Marked(m) \/ MarkAnswered(m) \/ MarkUnanswered(m)
  PROVE  BellInv'
<1>0. BellTyped /\ DOMAIN note \subseteq Int
  BY DEF BellInv, BellTyped
<1>1. CASE MarksAll \/ \E i \in DOMAIN note : MarksOne(i)
  <2>1. UNCHANGED <<note, signal, bell, untold>> /\ (open' => open) /\ open' \in BOOLEAN
    <3>1. CASE MarksAll
      BY <1>0, <3>1 DEF MarksAll, BellTyped
    <3>2. ASSUME NEW i \in DOMAIN note, MarksOne(i)
          PROVE  UNCHANGED <<note, signal, bell, untold>> /\ (open' => open) /\ open' \in BOOLEAN
      <4>1. UNCHANGED <<note, signal, bell, untold>> /\ open' = FALSE
        BY <3>2 DEF MarksOne
      <4> QED BY <4>1
    <3> QED BY <1>1, <3>1, <3>2
  <2>4. \E what \in Int : marks' = marks \cup {[what |-> what, step |-> "asked"]}
    <3>1. CASE MarksAll
      <4>1. marks' = marks \cup {[what |-> 0, step |-> "asked"]}
        BY <3>1 DEF MarksAll
      <4> QED BY <4>1
    <3>2. ASSUME NEW i \in DOMAIN note, MarksOne(i)
          PROVE  \E what \in Int : marks' = marks \cup {[what |-> what, step |-> "asked"]}
      <4>1. i \in Int /\ marks' = marks \cup {[what |-> i, step |-> "asked"]}
        BY <1>0, <3>2 DEF MarksOne
      <4> QED BY <4>1
    <3> QED BY <1>1, <3>1, <3>2
  <2>2. marks' \subseteq [what : Int, step : {"asked", "done", "missing"}] /\ marks \subseteq marks'
    BY <1>0, <2>4 DEF BellTyped
  <2>3. Told' => Told
    BY <2>1, <2>2 DEF Told
  <2> QED BY <1>0, <2>1, <2>2, <2>3, QueriesStay DEF BellTyped
<1>2. ASSUME NEW m \in marks, Marked(m) PROVE BellInv'
  <2> DEFINE found == m.what = 0 \/ Found(m.what) # {}
             n == [m EXCEPT !.step = IF found THEN "done" ELSE "missing"]
  <2>1. /\ m.step = "asked" /\ marks' = (marks \ {m}) \cup {n}
        /\ UNCHANGED <<signal, bell, open, untold>>
        /\ note' = [i \in DOMAIN note |-> note[i] \/ i \in Found(m.what)]
    BY <1>2 DEF Marked
  <2>2. m \in [what : Int, step : {"asked", "done", "missing"}]
    BY <1>0 DEF BellTyped
  <2>3. found => n.step = "done"
    BY <2>2
  <2>4. n \in [what : Int, step : {"asked", "done", "missing"}]
    BY <2>2
  <2>5. ~found => note' = note
    <3> HAVE ~found
    <3>1. \A i \in DOMAIN note : note[i] \in BOOLEAN /\ i \notin Found(m.what)
      BY <1>0 DEF BellTyped
    <3>2. note' = [i \in DOMAIN note |-> note[i]]
      BY <2>1, <3>1
    <3> QED BY <1>0, <3>2 DEF BellTyped
  <2>6. note' \in Seq(BOOLEAN)
    <3>1. DOMAIN note' = DOMAIN note /\ note' = [i \in DOMAIN note |-> note'[i]]
      BY <2>1
    <3>2. \A i \in DOMAIN note : note'[i] \in BOOLEAN
      BY <2>1
    <3> QED BY <1>0, <3>1, <3>2, NotesChanged DEF BellTyped
  <2> HIDE DEF n, found
  <2>7. Told' => Told /\ note' = note
    BY <2>1, <2>3, <2>5 DEF Told
  <2> QED BY <1>0, <2>1, <2>4, <2>6, <2>7, QueriesStay DEF BellTyped
<1>3. ASSUME NEW m \in marks, MarkAnswered(m) PROVE BellInv'
  <2>1. UNCHANGED <<note, signal, open, untold>> /\ marks' = marks \ {m} /\ m.step # "asked"
    BY <1>3 DEF MarkAnswered
  <2>2. CASE m.step = "done"
    <3>1. bell' = Invalidated
      BY <1>3, <2>2 DEF MarkAnswered
    <3>2. /\ bell' = [count |-> bell'.count, list |-> bell'.list]
          /\ IsQuery(bell'.count) /\ IsQuery(bell'.list) /\ BellKnows'
      BY <1>0, <2>1, <3>1, InvalidatedKnows
    <3> QED BY <1>0, <2>1, <3>2 DEF BellInv, BellTyped
  <2>3. CASE m.step # "done"
    <3>1. UNCHANGED bell /\ (Told' => Told)
      BY <1>3, <2>1, <2>3 DEF MarkAnswered, Told
    <3> QED BY <1>0, <2>1, <3>1, QueriesStay DEF BellTyped
  <2> QED BY <2>2, <2>3
<1>4. ASSUME NEW m \in marks, MarkUnanswered(m) PROVE BellInv'
  <2>1. UNCHANGED <<note, signal, open, bell>> /\ untold' = TRUE /\ marks' = marks \ {m}
    BY <1>4 DEF MarkUnanswered
  <2> QED BY <1>0, <2>1, QueriesStay DEF BellTyped
<1> QED BY <1>1, <1>2, <1>3, <1>4

LEMMA BellStep ==
  ASSUME BellInv, [BellNext]_bellVars PROVE BellInv'
<1>1. CASE EventArrives
  <2>1. UNCHANGED <<note, open, marks, untold>> /\ bell' = Invalidated /\ signal' = signal - 1 /\ signal > 0
    BY <1>1 DEF EventArrives
  <2>2. /\ bell' = [count |-> bell'.count, list |-> bell'.list]
        /\ IsQuery(bell'.count) /\ IsQuery(bell'.list) /\ BellKnows'
    BY <2>1, InvalidatedKnows DEF BellInv
  <2>3. signal' \in Nat
    BY <2>1 DEF BellInv, BellTyped
  <2> QED BY <2>1, <2>2, <2>3 DEF BellInv, BellTyped
<1>2. CASE UNCHANGED bellVars
  <2>1. UNCHANGED <<note, signal, bell, open, marks, untold>>
    BY <1>2 DEF bellVars
  <2> QED BY <2>1, QueriesStay DEF BellInv, BellTyped, Told
<1> QED BY <1>1, <1>2, QueryStep, OpenStep, RowStep, MarkStep DEF BellNext

(* A bell that is wrong will be told so: an event, the answer to a marking or  *)
(* a call is on its way, unless the page was excused (useNotifications).       *)
THEOREM BellIsTold == BellSpec => []BellRestsRight
<1>1. BellInv => BellRestsRight
  <2> SUFFICES ASSUME BellInv, Told, ~untold PROVE BellRestsRight
    BY DEF BellInv, BellTyped, BellRestsRight, IsRight
  <2> QED BY DEF BellInv, BellTyped, BellKnows, Current, BellRestsRight, IsRight
<1>2. BellInit => BellInv
  BY BellAtFirst
<1>3. BellInv /\ [BellNext]_bellVars => BellInv'
  BY BellStep
<1> QED BY <1>1, <1>2, <1>3, PTL DEF BellSpec

(* What a query can be answered.                                               *)
Values(which) ==
  IF which = "count" THEN 0 .. Len(note)
  ELSE {shown \in SUBSET ((DOMAIN note) \X BOOLEAN) : Cardinality(shown) <= PanelSize}

BellBound ==
  /\ signal <= Len(note) /\ Len(note) <= MaxNotes /\ misses \in 0 .. MaxMisses
  /\ \A which \in {"count", "list"} :
       bell[which].shown \in Values(which) /\ bell[which].got \in Values(which)
  /\ marks \subseteq [what : 0 .. Len(note), step : {"asked", "done", "missing"}]

LEMMA AnswersAreValues ==
  ASSUME note \in Seq(BOOLEAN), NEW which \in {"count", "list"}
  PROVE  Answer(which) \in Values(which)
<1>1. Len(note) \in Nat /\ DOMAIN note = 1 .. Len(note) /\ \A i \in DOMAIN note : note[i] \in BOOLEAN
  OBVIOUS
<1>2. CASE which = "count"
  <2>1. Unread \subseteq 1 .. Len(note)
    BY <1>1 DEF Unread
  <2>2. IsFiniteSet(1 .. Len(note)) /\ Cardinality(1 .. Len(note)) = Len(note)
    BY <1>1, FS_Interval
  <2>3. IsFiniteSet(Unread) /\ Cardinality(Unread) <= Len(note)
    BY <2>1, <2>2, FS_Subset
  <2>4. Cardinality(Unread) \in 0 .. Len(note)
    BY <1>1, <2>3, FS_CardinalityType
  <2> QED BY <1>2, <2>4 DEF Answer, Values
<1>3. CASE which = "list"
  <2> DEFINE S == Latest \cap DOMAIN note
             T == {<<i, note[i]>> : i \in S}
             f == [i \in S |-> <<i, note[i]>>]
             from == Len(note) - PanelSize + 1
  <2>1. PanelSize \in Nat /\ from \in Int /\ Latest = from .. Len(note)
        /\ from = Len(note) - PanelSize + 1
    BY <1>1, BellBounds DEF Latest
  <2> HIDE DEF from
  <2>2. IsFiniteSet(Latest) /\ Cardinality(Latest) = IF from > Len(note) THEN 0 ELSE Len(note) - from + 1
    <3>1. Len(note) \in Int
      BY <1>1
    <3>2. \A i, j \in Int : IsFiniteSet(i .. j) /\ Cardinality(i .. j) = IF i > j THEN 0 ELSE j - i + 1
      BY FS_Interval
    <3> QED BY ONLY <2>1, <3>1, <3>2
  <2>3. Cardinality(Latest) = PanelSize
    BY <1>1, <2>1, <2>2
  <2>4. IsFiniteSet(S) /\ Cardinality(S) <= PanelSize
    BY <2>2, <2>3, FS_Subset
  <2>5. f \in Surjection(S, T)
    BY DEF Surjection
  <2>6. T \in SUBSET ((DOMAIN note) \X BOOLEAN)
    BY <1>1
  <2>7. IsFiniteSet(T) /\ Cardinality(T) <= Cardinality(S)
    <3> HIDE DEF S, T, f
    <3> QED BY <2>4, <2>5, FS_Surjection
  <2>8. Cardinality(T) <= PanelSize
    <3> HIDE DEF S, T
    <3> QED BY <2>1, <2>4, <2>7, FS_CardinalityType
  <2>9. Answer(which) = T
    BY <1>3 DEF Answer
  <2> HIDE DEF T
  <2> QED BY <1>3, <2>6, <2>8, <2>9 DEF Values
<1> QED BY <1>2, <1>3

LEMMA BoundAtFirst == ASSUME BellInit PROVE BellBound
<1>1. note = <<>> /\ Len(note) = 0 /\ signal = 0 /\ misses = 0 /\ marks = {}
  BY DEF BellInit
<1>2. MaxNotes \in Nat /\ MaxMisses \in Nat /\ PanelSize \in Nat
  BY BellBounds
<1> DEFINE l == Settled({})
           m == [l EXCEPT !.stale = TRUE]
<1>3. bell.count = Settled(0) /\ bell.list = m
  BY DEF BellInit
<1>4. m.shown = {} /\ m.got = {}
  <2>1. l.shown = {} /\ l.got = {}
    BY DEF Settled
  <2>2. IsQuery(l)
    BY SettledIsQuery
  <2> HIDE DEF l
  <2> QED BY <2>1, <2>2, MarkedIsQuery
<1>5. bell.count.shown = 0 /\ bell.count.got = 0
  BY <1>3 DEF Settled
<1> HIDE DEF m, l
<1>6. 0 \in Values("count") /\ {} \in Values("list")
  BY <1>1, <1>2, FS_EmptySet DEF Values
<1>7. \A which \in {"count", "list"} :
        bell[which].shown \in Values(which) /\ bell[which].got \in Values(which)
  BY <1>3, <1>4, <1>5, <1>6
<1> QED BY <1>1, <1>2, <1>7 DEF BellBound

(* No row goes, and a query shows or gets what it had or what the rows say.    *)
LEMMA BoundKept ==
  ASSUME BellInv, BellInv', BellBound,
         \/ Len(note') = Len(note) /\ signal' <= signal
         \/ Len(note) < MaxNotes /\ Len(note') = Len(note) + 1 /\ signal' <= signal + 1,
         misses' \in 0 .. MaxMisses,
         \A m \in marks' : m \in [what : 0 .. Len(note'), step : {"asked", "done", "missing"}] \/ m \in marks,
         \A which \in {"count", "list"} :
           /\ bell'[which].shown \in {bell[which].shown, bell[which].got}
           /\ bell'[which].got \in {bell[which].shown, bell[which].got, Answer(which)}
  PROVE  BellBound'
<1>1. /\ note \in Seq(BOOLEAN) /\ note' \in Seq(BOOLEAN) /\ signal \in Nat /\ signal' \in Nat
      /\ MaxNotes \in Nat
  BY BellBounds DEF BellInv, BellTyped
<1>2. /\ Len(note) \in Nat /\ Len(note') \in Nat /\ DOMAIN note = 1 .. Len(note)
      /\ DOMAIN note' = 1 .. Len(note')
  BY <1>1
<1> DEFINE m == Len(note)
           n == Len(note')
<1>3. /\ m \in Nat /\ n \in Nat /\ signal <= m /\ m <= MaxNotes
      /\ \/ n = m /\ signal' <= signal
         \/ m < MaxNotes /\ n = m + 1 /\ signal' <= signal + 1
  BY <1>2 DEF BellBound
<1>4. m <= n /\ signal' <= n /\ n <= MaxNotes
  <2> HIDE DEF m, n
  <2> QED BY ONLY <1>1, <1>3
<1>5. DOMAIN note \subseteq DOMAIN note' /\ 0 .. Len(note) \subseteq 0 .. Len(note')
  <2>1. 1 .. m \subseteq 1 .. n /\ 0 .. m \subseteq 0 .. n
    <3> HIDE DEF m, n
    <3> QED BY ONLY <1>3, <1>4
  <2> QED BY <1>2, <2>1
<1>6. \A which \in {"count", "list"} : Values(which) \subseteq Values(which)'
  BY <1>5 DEF Values
<1>7. \A which \in {"count", "list"} : Answer(which) \in Values(which)
  BY <1>1, AnswersAreValues
<1>8. marks' \subseteq [what : 0 .. Len(note'), step : {"asked", "done", "missing"}]
  BY <1>5 DEF BellBound
<1> QED BY <1>4, <1>6, <1>7, <1>8 DEF BellBound

LEMMA InvalidatedShows ==
  ASSUME BellTyped, bell' = Invalidated, NEW which \in {"count", "list"}
  PROVE  /\ bell'[which].shown = bell[which].shown
         /\ bell'[which].got \in {bell[which].shown, bell[which].got}
<1> DEFINE marked == [bell.list EXCEPT !.stale = TRUE]
<1>1. marked.shown = bell.list.shown /\ marked.got = bell.list.got
  BY MarkedIsQuery DEF BellTyped
<1> HIDE DEF marked
<1>2. /\ bell'.count = Asked(bell.count)
      /\ bell'.list = IF open THEN Asked(bell.list) ELSE marked
  BY DEF Invalidated, marked
<1> QED BY <1>1, <1>2, AskedIsQuery

LEMMA QueryMoves ==
  ASSUME BellTyped, NEW which \in {"count", "list"}, NEW q, bell' = [bell EXCEPT ![which] = q],
         q.shown \in {bell[which].shown, bell[which].got},
         q.got \in {bell[which].shown, bell[which].got, Answer(which)},
         NEW other \in {"count", "list"}
  PROVE  /\ bell'[other].shown \in {bell[other].shown, bell[other].got}
         /\ bell'[other].got \in {bell[other].shown, bell[other].got, Answer(other)}
BY DEF BellTyped

LEMMA BoundStep ==
  ASSUME BellInv, BellInv', BellBound, [BellNext]_bellVars PROVE BellBound'
<1>0. /\ BellTyped /\ signal \in Nat /\ misses \in 0 .. MaxMisses /\ MaxMisses \in Nat
      /\ note \in Seq(BOOLEAN) /\ note' \in Seq(BOOLEAN)
      /\ marks \subseteq [what : 0 .. Len(note), step : {"asked", "done", "missing"}]
      /\ Miss => misses' \in 0 .. MaxMisses
  BY BellBounds DEF BellInv, BellTyped, BellBound, Miss
<1>1. /\ Len(note) \in Nat /\ Len(note') \in Nat /\ DOMAIN note = 1 .. Len(note)
  BY <1>0
<1>2. ASSUME NEW q, NEW which \in {"count", "list"},
             bell' = [bell EXCEPT ![which] = q], UNCHANGED <<note, signal, marks>>,
             q.shown \in {bell[which].shown, bell[which].got},
             q.got \in {bell[which].shown, bell[which].got, Answer(which)},
             misses' \in 0 .. MaxMisses
      PROVE  BellBound'
  BY <1>0, <1>1, <1>2, QueryMoves, BoundKept
<1>3. ASSUME UNCHANGED <<bell, note, signal>>, misses' \in 0 .. MaxMisses,
             \A m \in marks' : m \in [what : 0 .. Len(note), step : {"asked", "done", "missing"}] \/ m \in marks
      PROVE  BellBound'
  BY <1>0, <1>1, <1>3, BoundKept
<1>4. CASE Notified
  <2>1. /\ Len(note) < MaxNotes /\ note' = Append(note, FALSE) /\ UNCHANGED <<bell, marks>>
        /\ \/ signal' = signal + 1 /\ misses' = misses
           \/ signal' = signal /\ Miss
    BY <1>4 DEF Notified, PageStays
  <2>2. Len(note') = Len(note) + 1 /\ signal' <= signal + 1 /\ misses' \in 0 .. MaxMisses
    BY <1>0, <2>1
  <2> QED BY <1>0, <1>1, <2>1, <2>2, BoundKept
<1>5. CASE EventArrives
  <2>1. signal' = signal - 1 /\ bell' = Invalidated /\ UNCHANGED <<note, marks, misses>>
    BY <1>5 DEF EventArrives
  <2>2. Len(note') = Len(note) /\ signal' <= signal /\ misses' \in 0 .. MaxMisses /\ marks' = marks
    BY <1>0, <2>1
  <2>3. \A which \in {"count", "list"} :
          /\ bell'[which].shown = bell[which].shown
          /\ bell'[which].got \in {bell[which].shown, bell[which].got}
    BY <1>0, <2>1, InvalidatedShows
  <2> QED BY <2>2, <2>3, BoundKept
<1>6. ASSUME NEW which \in {"count", "list"}, Served(which) PROVE BellBound'
  <2> DEFINE b == bell[which]
             a == Answer(which)
             q == [b EXCEPT !.call = "served", !.got = a]
  <2>1. bell' = [bell EXCEPT ![which] = q] /\ UNCHANGED <<note, signal, marks, misses>>
    BY <1>0, <1>6 DEF Served, BellTyped
  <2>2. q.shown = b.shown /\ q.got = a
    <3>1. IsQuery(b)
      BY <1>0 DEF BellTyped
    <3> HIDE DEF a, b
    <3> QED BY <3>1, ServedIsQuery
  <2> HIDE DEF q
  <2> QED BY <1>0, <1>2, <2>1, <2>2
<1>7. ASSUME NEW which \in {"count", "list"}, Arrives(which) PROVE BellBound'
  <2> DEFINE q == Settled(bell[which].got)
  <2>1. bell' = [bell EXCEPT ![which] = q] /\ UNCHANGED <<note, signal, marks, misses>>
    BY <1>0, <1>7 DEF Arrives, BellTyped
  <2>2. q.shown = bell[which].got /\ q.got = bell[which].got
    BY DEF Settled
  <2> HIDE DEF q
  <2> QED BY <1>0, <1>2, <2>1, <2>2
<1>8. ASSUME NEW which \in {"count", "list"}, GivesUp(which) PROVE BellBound'
  <2> DEFINE l == Settled(bell[which].shown)
             q == [l EXCEPT !.stale = TRUE]
  <2>1. bell' = [bell EXCEPT ![which] = q] /\ UNCHANGED <<note, signal, marks>> /\ Miss
    BY <1>0, <1>8 DEF GivesUp, BellTyped
  <2>2. q.shown = bell[which].shown /\ q.got = bell[which].shown
    <3>1. IsQuery(l) /\ l.shown = bell[which].shown /\ l.got = bell[which].shown
      BY SettledIsQuery DEF Settled
    <3> HIDE DEF l
    <3> QED BY <3>1, MarkedIsQuery
  <2> HIDE DEF q
  <2> QED BY <1>0, <1>2, <2>1, <2>2
<1>9. CASE Opens
  <2>1. UNCHANGED <<note, signal, marks, misses>>
    BY <1>9 DEF Opens
  <2>2. CASE bell.list.stale /\ bell.list.call = "none"
    <3> DEFINE q == Asked(bell.list)
    <3>1. bell' = [bell EXCEPT !["list"] = q]
      BY <1>9, <2>2 DEF Opens
    <3>2. q.shown = bell["list"].shown /\ q.got = bell["list"].shown
      BY AskedIsQuery
    <3> HIDE DEF q
    <3> QED BY <1>0, <1>2, <2>1, <3>1, <3>2
  <2>3. CASE ~(bell.list.stale /\ bell.list.call = "none")
    BY <1>0, <1>3, <1>9, <2>1, <2>3 DEF Opens
  <2> QED BY <2>2, <2>3
<1>10. CASE Closes \/ UNCHANGED bellVars
  BY <1>0, <1>3, <1>10 DEF Closes, bellVars
<1>11. CASE MarksAll
  <2>1. /\ UNCHANGED <<bell, note, signal, misses>>
        /\ marks' = marks \cup {[what |-> 0, step |-> "asked"]}
    BY <1>11 DEF MarksAll
  <2> QED BY <1>0, <1>1, <1>3, <2>1
<1>12. ASSUME NEW i \in DOMAIN note, MarksOne(i) PROVE BellBound'
  <2>1. /\ UNCHANGED <<bell, note, signal, misses>>
        /\ marks' = marks \cup {[what |-> i, step |-> "asked"]}
    BY <1>12 DEF MarksOne
  <2> QED BY <1>0, <1>1, <1>3, <2>1
<1>13. ASSUME NEW i \in DOMAIN note, ReadElsewhere(i) PROVE BellBound'
  <2>1. /\ UNCHANGED <<bell, signal, marks>> /\ Miss
        /\ note' = [note EXCEPT ![i] = TRUE]
    BY <1>13 DEF ReadElsewhere, PageStays
  <2>2. Len(note') = Len(note) /\ signal' <= signal
    BY <1>0, <2>1
  <2>3. misses' \in 0 .. MaxMisses
    BY <1>0, <2>1
  <2>4. \A which \in {"count", "list"} : bell'[which] = bell[which]
    BY <2>1
  <2> QED BY <2>1, <2>2, <2>3, <2>4, BoundKept
<1>14. ASSUME NEW m \in marks, Marked(m) PROVE BellBound'
  <2> DEFINE n == [m EXCEPT !.step = IF m.what = 0 \/ Found(m.what) # {} THEN "done" ELSE "missing"]
  <2>1. /\ UNCHANGED <<bell, signal, misses>>
        /\ marks' = (marks \ {m}) \cup {n}
        /\ note' = [i \in DOMAIN note |-> note[i] \/ i \in Found(m.what)]
    BY <1>14 DEF Marked
  <2>2. n \in [what : 0 .. Len(note), step : {"asked", "done", "missing"}]
    BY <1>0
  <2> HIDE DEF n
  <2>3. Len(note') = Len(note)
    <3>1. DOMAIN note' = DOMAIN note /\ DOMAIN note' = 1 .. Len(note')
      BY <1>0, <2>1
    <3> QED BY <1>1, <3>1
  <2> QED BY <1>0, <1>1, <2>1, <2>2, <2>3, BoundKept
<1>15. ASSUME NEW m \in marks, MarkAnswered(m) PROVE BellBound'
  <2>1. UNCHANGED <<note, signal, misses>> /\ marks' \subseteq marks
    BY <1>15 DEF MarkAnswered
  <2>2. CASE m.step = "done"
    <3>1. bell' = Invalidated
      BY <1>15, <2>2 DEF MarkAnswered
    <3> QED BY <1>0, <1>1, <2>1, <3>1, InvalidatedShows, BoundKept
  <2>3. CASE m.step # "done"
    BY <1>0, <1>3, <1>15, <2>1, <2>3 DEF MarkAnswered
  <2> QED BY <2>2, <2>3
<1>16. ASSUME NEW m \in marks, MarkUnanswered(m) PROVE BellBound'
  BY <1>0, <1>3, <1>16 DEF MarkUnanswered
<1> QED BY <1>4, <1>5, <1>6, <1>7, <1>8, <1>9, <1>10, <1>11, <1>12, <1>13, <1>14, <1>15, <1>16
        DEF BellNext

(* The bell never shows more than there is, nor more rows than it asked for    *)
(* (NotificationsService.list, countUnread).                                   *)
THEOREM BellTypeCorrect == BellSpec => []BellTypeOK
<1>1. BellInv /\ BellBound => BellTypeOK
  <2> SUFFICES ASSUME BellInv, BellBound PROVE BellTypeOK
    OBVIOUS
  <2>1. note \in Seq(BOOLEAN) /\ open \in BOOLEAN /\ untold \in BOOLEAN
    BY DEF BellInv, BellTyped
  <2>2. signal \in 0 .. MaxNotes
    BY <2>1, BellBounds DEF BellInv, BellTyped, BellBound
  <2>3. \A which \in {"count", "list"} :
          bell[which].call \in {"none", "asked", "served"} /\ bell[which].stale \in BOOLEAN
    BY DEF BellInv, BellTyped, IsQuery
  <2>4. /\ bell.count.shown \in 0 .. Len(note)
        /\ bell.list.shown \subseteq (DOMAIN note) \X BOOLEAN
        /\ Cardinality(bell.list.shown) <= PanelSize
    BY DEF BellBound, Values
  <2> QED BY <2>1, <2>2, <2>3, <2>4 DEF BellTypeOK, BellBound
<1>2. BellInit => BellInv /\ BellBound
  BY BellAtFirst, BoundAtFirst
<1>3. BellInv /\ BellBound /\ [BellNext]_bellVars => (BellInv /\ BellBound)'
  BY BellStep, BoundStep
<1> QED BY <1>1, <1>2, <1>3, PTL DEF BellSpec

=============================================================================
