------------------------------ MODULE Sessions ------------------------------
(***************************************************************************)
(* The sessions of one person: the refresh tokens Redis knows, the cookies *)
(* of the person's browsers, and the calls their tabs make.  A call that   *)
(* is answered 401 refreshes the session once and is sent again; several   *)
(* calls may do so at a time, with the cookie each one read when it left.  *)
(*                                                                         *)
(* A token is a signature over the user, the role and the second of its    *)
(* issue: two tokens signed in one second are the same string, so a token  *)
(* is here that second.  A cookie that outlives its token is refused as if *)
(* it were absent, so only the tokens expire.                              *)
(***************************************************************************)
EXTENDS Integers, FiniteSets

CONSTANTS
  Browsers,
  Calls,        \* requests of the tabs, logins and logouts included
  MaxTime,      \* bound of the clock
  AccessLife,   \* expiresIn of the access token
  RefreshLife,  \* REFRESH_TTL
  Faults,       \* subset of {"redis", "db", "lost"}
  None

ASSUME LivesAreNat ==
  MaxTime \in Nat /\ AccessLife \in Nat /\ RefreshLife \in Nat
ASSUME NoneIsNoTime == None \notin Nat

VARIABLES
  clock,
  accounts,  \* rows of User and of SocialAccount for this person's identity
  stored,    \* refresh tokens that have a key in Redis, expired ones included
  jar,       \* cookies of each browser
  call,      \* what each call does, and what it carries
  loggedOut, \* history: browsers logged out with no other call of theirs under
             \* way, and not logged in since
  signed,    \* history: every token signed so far
  excused    \* history: tokens signed twice, or revoked by a call whose answer
             \* was lost on its way

vars == <<clock, accounts, stored, jar, call, loggedOut, signed, excused>>

Token == Nat \cup {None}
EmptyJar == [access |-> None, refresh |-> None]
NoCall == [at |-> "idle", browser |-> None, access |-> None, refresh |-> None,
           token |-> None, runs |-> 0, retried |-> FALSE]

Steps == {"idle", "sent", "refused", "failed", "done", "unauthorized", "reading",
          "signing", "stored", "renewed", "broken", "identified",
          "creating", "leaving", "left"}
Call == [at : Steps, browser : Browsers \cup {None}, access : Token, refresh : Token,
         token : Token, runs : Nat, retried : BOOLEAN]

Init ==
  /\ clock = 0
  /\ accounts = [users |-> 0, socials |-> 0]
  /\ stored = {}
  /\ jar = [b \in Browsers |-> EmptyJar]
  /\ call = [c \in Calls |-> NoCall]
  /\ loggedOut = {}
  /\ signed = {}
  /\ excused = {}

Tick ==
  /\ clock < MaxTime
  /\ clock' = clock + 1
  /\ UNCHANGED <<accounts, stored, jar, call, loggedOut, signed, excused>>

At(c, step) == call[c].at = step
Goto(c, step) == call' = [call EXCEPT ![c].at = step]
Finish(c, step) ==   \* what it carried is of no use any more
  call' = [call EXCEPT ![c] = [NoCall EXCEPT !.at = step, !.browser = call[c].browser,
                                             !.runs = call[c].runs]]
Quiet(b) == \A c \in Calls : call[c].browser # b

SetToken(t) == stored \cup {t}
DropToken(t) == stored \ {t}
ValidAccess(t) == t # None /\ clock < t + AccessLife
Live(t) == t \in stored /\ clock < t + RefreshLife

-----------------------------------------------------------------------------
(* A call with the cookies its browser has when it leaves.                     *)
Send(c, b) ==
  /\ At(c, "idle")
  /\ call' = [call EXCEPT ![c] = [NoCall EXCEPT
                !.at = "sent", !.browser = b, !.access = jar[b].access]]
  /\ UNCHANGED <<clock, accounts, stored, jar, loggedOut, signed, excused>>

(* What the caller is told of an error: of a call that was sent again, the     *)
(* error is made of the first answer, which was 401, whatever the second says. *)
Refusal(c) == IF call[c].retried THEN "refused" ELSE "failed"
Answers(c) == {"done", Refusal(c)} \cup (IF "lost" \in Faults THEN {"failed"} ELSE {})

(* The handler has run, and did it or refused it.                              *)
Handled(c, answer) ==
  call' = [call EXCEPT ![c] = [NoCall EXCEPT
             !.at = answer, !.browser = call[c].browser, !.runs = call[c].runs + 1,
             !.retried = call[c].retried]]

(* The guard of the server lets it pass.                                       *)
Handle(c) ==
  /\ At(c, "sent")
  /\ ValidAccess(call[c].access)
  /\ \E answer \in Answers(c) : Handled(c, answer)
  /\ UNCHANGED <<clock, accounts, stored, jar, loggedOut, signed, excused>>

(* The guard reads the user; when that fails, the handler is not reached.      *)
GuardFails(c) ==
  /\ At(c, "sent")
  /\ ValidAccess(call[c].access) /\ "db" \in Faults
  /\ Finish(c, Refusal(c))
  /\ UNCHANGED <<clock, accounts, stored, jar, loggedOut, signed, excused>>

(* A route whose sign-in is optional takes an expired cookie, and a user that  *)
(* could not be read, for no cookie.                                           *)
Anonymous(c) ==
  /\ At(c, "sent")
  /\ ~ValidAccess(call[c].access) \/ "db" \in Faults
  /\ ~call[c].retried
  /\ Handled(c, "done")
  /\ UNCHANGED <<clock, accounts, stored, jar, loggedOut, signed, excused>>

(* 401, once: the second time the call ends with it.                           *)
Unauthorized(c) ==
  /\ At(c, "sent")
  /\ ~ValidAccess(call[c].access)
  /\ Finish(c, IF call[c].retried THEN "refused" ELSE "unauthorized")
  /\ UNCHANGED <<clock, accounts, stored, jar, loggedOut, signed, excused>>

(* GET /auth/refresh, with the cookie the browser has by now.                  *)
Refresh_AnyError(c) ==   \* bug: a refusal by the handler is retried as well
  /\ At(c, "unauthorized") \/ At(c, "failed")
  /\ LET t == jar[call[c].browser].refresh
     IN  call' = [call EXCEPT ![c].refresh = t,
                              ![c].at = IF t = None THEN "refused" ELSE "reading"]
  /\ UNCHANGED <<clock, accounts, stored, jar, loggedOut, signed, excused>>
Refresh(c) ==
  /\ At(c, "unauthorized")
  /\ LET t == jar[call[c].browser].refresh
     IN  call' = [call EXCEPT ![c].refresh = t,
                              ![c].at = IF t = None THEN "refused" ELSE "reading"]
  /\ UNCHANGED <<clock, accounts, stored, jar, loggedOut, signed, excused>>

(* Redis is asked for the token; when it fails the answer is no as well, and   *)
(* so it is when the user cannot be read.                                      *)
ReadToken(c) ==
  /\ At(c, "reading")
  /\ \/ Live(call[c].refresh) /\ Goto(c, "signing")
     \/ ~Live(call[c].refresh) /\ Finish(c, "refused")
     \/ Faults \cap {"redis", "db"} # {} /\ Finish(c, "refused")
  /\ UNCHANGED <<clock, accounts, stored, jar, loggedOut, signed, excused>>

(* login: both tokens are signed, the refresh token is set in Redis.           *)
StoreToken(c) ==
  /\ At(c, "signing")
  /\ \/ /\ call' = [call EXCEPT ![c].at = "stored", ![c].token = clock]
        /\ stored' = SetToken(clock)
        /\ signed' = signed \cup {clock}
        /\ excused' = excused \cup ({clock} \cap signed)
     \/ /\ "redis" \in Faults
        /\ Finish(c, "refused")
        /\ UNCHANGED <<stored, signed, excused>>
  /\ UNCHANGED <<clock, accounts, jar, loggedOut>>

(* The old token, if there is one, is revoked; a failure makes the answer an   *)
(* error, but the cookies are on the response already.                         *)
RevokeOld_First(c) ==   \* bug: a failing revocation keeps the new cookies back,
  /\ At(c, "stored")   \* and the old token is gone
  /\ \/ stored' = DropToken(call[c].refresh) /\ Goto(c, "renewed")
     \/ /\ "redis" \in Faults /\ call[c].refresh # None
        /\ Finish(c, "refused")
        /\ stored' = DropToken(call[c].refresh)
  /\ UNCHANGED <<clock, accounts, jar, loggedOut, signed, excused>>
RevokeOld(c) ==
  /\ At(c, "stored")
  /\ \/ stored' = DropToken(call[c].refresh) /\ Goto(c, "renewed")
     \/ /\ "redis" \in Faults /\ call[c].refresh # None
        /\ Goto(c, "broken")
        /\ UNCHANGED stored
  /\ UNCHANGED <<clock, accounts, jar, loggedOut, signed, excused>>

(* Set-Cookie arrives. The call is sent again, once; a login lands on a page.  *)
SentAgain(c) == At(c, "renewed") /\ call[c].refresh # None
Renew(c) ==
  /\ call[c].at \in {"renewed", "broken"}
  /\ LET b == call[c].browser
         t == call[c].token
         again == SentAgain(c)
     IN  /\ jar' = [jar EXCEPT ![b] = [access |-> t, refresh |-> t]]
         /\ loggedOut' = IF call[c].refresh = None THEN loggedOut \ {b} ELSE loggedOut
         /\ call' = [call EXCEPT ![c] = [NoCall EXCEPT
                       !.at = IF again THEN "sent" ELSE "refused", !.browser = b,
                       !.access = IF again THEN t ELSE None, !.retried = again,
                       !.runs = call[c].runs]]
  /\ UNCHANGED <<clock, accounts, stored, signed, excused>>

(* The answer of a refresh, a login or a logout never reaches the browser.     *)
LoseAnswer(c) ==
  /\ "lost" \in Faults
  /\ call[c].at \in {"renewed", "broken", "left"}
  /\ excused' = excused \cup ({call[c].refresh} \ {None})
  /\ call' = [call EXCEPT ![c] = NoCall]
  /\ UNCHANGED <<clock, accounts, stored, jar, loggedOut, signed>>

(* The caller has the answer, whatever it is.                                  *)
End(c) ==
  /\ call[c].at \in {"done", "failed", "refused"}
  /\ call' = [call EXCEPT ![c] = NoCall]
  /\ UNCHANGED <<clock, accounts, stored, jar, loggedOut, signed, excused>>

-----------------------------------------------------------------------------
(* The provider's callback: look the identity up, create its account if there  *)
(* is none, and issue the cookies.                                             *)
Login(c, b) ==
  /\ At(c, "idle")
  /\ call' = [call EXCEPT ![c] = [NoCall EXCEPT !.browser = b,
                !.at = "identified"]]
  /\ UNCHANGED <<clock, accounts, stored, jar, loggedOut, signed, excused>>

Identified == accounts.socials > 0
LookUp(c) ==
  /\ At(c, "identified")
  /\ \/ Goto(c, IF Identified THEN "signing" ELSE "creating")
     \/ "db" \in Faults /\ Finish(c, "refused")
  /\ UNCHANGED <<clock, accounts, stored, jar, loggedOut, signed, excused>>

(* Both rows in one transaction. Two first logins get here together: none of   *)
(* them looks again, but the unique index of the identity refuses the second   *)
(* row, and with it the second user.                                           *)
Taken_NoIndex == FALSE   \* bug: an index on the identity that is not unique
Taken == accounts.socials > 0
CreateAccount(c) ==
  /\ At(c, "creating")
  /\ \/ /\ ~Taken
        /\ accounts' = [users |-> accounts.users + 1, socials |-> accounts.socials + 1]
        /\ Goto(c, "signing")
     \/ /\ Taken \/ "db" \in Faults
        /\ Finish(c, "refused")
        /\ UNCHANGED accounts
  /\ UNCHANGED <<clock, stored, jar, loggedOut, signed, excused>>

-----------------------------------------------------------------------------
Logout(c, b) ==
  /\ At(c, "idle")
  /\ call' = [call EXCEPT ![c] = [NoCall EXCEPT
                !.at = "leaving", !.browser = b, !.refresh = jar[b].refresh]]
  /\ UNCHANGED <<clock, accounts, stored, jar, loggedOut, signed, excused>>

Revoke(c) ==
  /\ At(c, "leaving")
  /\ \/ stored' = DropToken(call[c].refresh) /\ Goto(c, "left")
     \/ /\ "redis" \in Faults /\ call[c].refresh # None
        /\ Finish(c, "refused")
        /\ UNCHANGED stored
  /\ UNCHANGED <<clock, accounts, jar, loggedOut, signed, excused>>

ClearCookies_Access(c) ==   \* bug: the refresh cookie stays
  LET b == call[c].browser
  IN  /\ At(c, "left")
      /\ jar' = [jar EXCEPT ![b].access = None]
      /\ loggedOut' = IF \A d \in Calls \ {c} : call[d].browser # b
                      THEN loggedOut \cup {b} ELSE loggedOut
      /\ call' = [call EXCEPT ![c] = NoCall]
      /\ UNCHANGED <<clock, accounts, stored, signed, excused>>
ClearCookies(c) ==
  LET b == call[c].browser
  IN  /\ At(c, "left")
      /\ jar' = [jar EXCEPT ![b] = EmptyJar]
      /\ loggedOut' = IF \A d \in Calls \ {c} : call[d].browser # b
                      THEN loggedOut \cup {b} ELSE loggedOut
      /\ call' = [call EXCEPT ![c] = NoCall]
      /\ UNCHANGED <<clock, accounts, stored, signed, excused>>

-----------------------------------------------------------------------------
Progress(c) ==
  \/ Handle(c) \/ GuardFails(c) \/ Anonymous(c) \/ Unauthorized(c) \/ Refresh(c)
  \/ ReadToken(c) \/ StoreToken(c) \/ RevokeOld(c) \/ Renew(c)
  \/ LookUp(c) \/ CreateAccount(c) \/ Revoke(c) \/ ClearCookies(c) \/ End(c)

Next ==
  \/ Tick
  \/ \E c \in Calls, b \in Browsers : Send(c, b) \/ Login(c, b) \/ Logout(c, b)
  \/ \E c \in Calls : Progress(c) \/ LoseAnswer(c)

Spec == Init /\ [][Next]_vars

-----------------------------------------------------------------------------
(* Properties *)

TypeOK ==
  /\ clock \in 0 .. MaxTime
  /\ accounts \in [users : Nat, socials : Nat]
  /\ stored \subseteq 0 .. clock /\ signed \subseteq 0 .. clock
  /\ excused \subseteq 0 .. clock
  /\ jar \in [Browsers -> [access : Token, refresh : Token]]
  /\ call \in [Calls -> Call]
  /\ loggedOut \subseteq Browsers

(* A browser with no call under way keeps its session: Redis has its refresh   *)
(* token until it expires, however many tabs refreshed it at a time and        *)
(* whatever failed. Two things end it all the same: a second token signed in   *)
(* the same second, and an answer that was lost.                               *)
SessionKept ==
  \A b \in Browsers : Quiet(b) => jar[b].refresh \in stored \cup excused \cup {None}

(* A call reaches its handler at most once, also when it is sent again after a *)
(* refresh, so that a bid is not placed twice; and who is told to sign in has  *)
(* not been served, unless it was a call sent again that its handler refused.  *)
HandledOnce ==
  \A c \in Calls :
    /\ call[c].runs <= 1
    /\ At(c, "refused") /\ call[c].runs > 0 => call[c].retried

(* A browser that logged out while nothing else of it was under way holds no   *)
(* cookie until its person logs in again.                                      *)
OutStaysOut == \A b \in loggedOut : jar[b] = EmptyJar

(* One identity has at most one user, and so one initial balance, and no user  *)
(* is without an identity: whatever number of first logins there are at a time *)
(* and whichever of them fail.                                                 *)
OneAccount == accounts.users <= 1 /\ accounts.socials = accounts.users
=============================================================================
