---------------------------- MODULE Parts_proofs ----------------------------
(***************************************************************************)
(* Theorems about four parts that work beside the auctions: the cooldowns  *)
(* of the bots (BotCooldown), the alerts of the wishlist (Alerts), the     *)
(* images of the auctions' forms (Listing) and the lists of open auctions  *)
(* (Catalog). They hold for any number of attempts, auctions, bots,        *)
(* senders, notifications, forms, lost calls, rows, prices and pages, and  *)
(* for any cooldowns, delays and windows.                                  *)
(***************************************************************************)
EXTENDS BotCooldown, Catalog, Alerts, Listing, FiniteSetTheorems, SequenceTheorems, TLAPS

(***************************************************************************)
(* The cooldowns of the bots.                                              *)
(***************************************************************************)
(* The keys an attempt has set and not yet given back, as it believes.         *)
Claims(x, k) ==
  \/ x.at \in {"BOT", "UNDO"} /\ k = AuctionKey(x.auction)
  \/ x.at = "BID" /\ k \in KeysOf(x)
  \/ x.at = "CLEAR" /\ k \in x.left

(* Who set a key that is there is still under way, and claims it.              *)
SettersClaim ==
  \A k \in Keys, i \in Attempts : setBy[k] = i =>
    Claims(attempt[i], k) /\ expires[k] > clock /\ expires[k] >= attempt[i].since + Ttl(k)

(* A key nobody took, with a cooldown longer than an attempt, is its           *)
(* claimant's, unless that one repeats its clearCooldown.                      *)
Kept(k) == k \notin taken /\ MaxDelay < Ttl(k)
ClaimsAreRight ==
  \A k \in Keys, i \in Attempts :
    Kept(k) /\ Claims(attempt[i], k) /\ ~attempt[i].again => setBy[k] = i

Prompt(x, now) ==
  /\ x.at \in Stages \ {"AUCTION"} => x.since <= now /\ now <= x.since + MaxDelay
  /\ x.at = "CLEAR" => x.left \subseteq KeysOf(x)
  /\ x.at \in Stages \ {"CLEAR"} => ~x.again
AttemptsArePrompt == \A i \in Attempts : Prompt(attempt[i], clock)

(* The last bid's cooldown is over, or its key is there.                       *)
Last(k) == bids[k][Len(bids[k])]
BidsAreGuarded ==
  \A k \in Keys : Len(bids[k]) > 0 =>
    /\ Last(k) <= clock
    /\ Kept(k) => \/ clock >= Last(k) + Ttl(k) - MaxDelay
                  \/ setBy[k] = "DONE" /\ expires[k] >= Last(k) + Ttl(k) - MaxDelay

CooldownInv ==
  /\ BotTypeOK
  /\ SettersClaim /\ ClaimsAreRight /\ AttemptsArePrompt /\ BidsAreGuarded /\ Spaced

-----------------------------------------------------------------------------
(* The two cooldowns in seconds.                                               *)
LEMMA TtlsAreNat ==
  /\ AuctionTtl \in Nat /\ AuctionTtl > 0
  /\ BotTtl \in Nat /\ BotTtl > 0 /\ BotTtl <= (BotMs \div 1000) + 1
  /\ MaxTime \in Nat /\ MaxDelay \in Nat /\ BotMs \div 1000 \in Nat
BY DurationsAreNat DEF BotTtl

LEMMA KeyKinds ==
  ASSUME NEW a \in Auctions, NEW b \in Bots
  PROVE  /\ AuctionKey(a) \in Keys /\ BotKey(a, b) \in Keys /\ AuctionKey(a) # BotKey(a, b)
         /\ Ttl(AuctionKey(a)) = AuctionTtl /\ Ttl(BotKey(a, b)) = BotTtl
BY DEF AuctionKey, BotKey, Keys, Ttl

LEMMA KeyTtls ==
  ASSUME NEW k \in Keys
  PROVE  Ttl(k) \in Nat /\ Ttl(k) > 0 /\ Ttl(k) <= AuctionTtl + (BotMs \div 1000) + 1
BY TtlsAreNat DEF Ttl

(* An attempt is under way, with all it knows, or is not.                      *)
LEMMA AttemptKinds ==
  ASSUME NEW x \in Attempt
  PROVE  /\ x.at \in Stages \cup {"IDLE"}
         /\ x = Free <=> x.at = "IDLE"
         /\ x.at \in Stages =>
              /\ x.auction \in Auctions /\ x.bot \in Bots /\ x.since \in 0 .. MaxTime
              /\ x.left \in SUBSET Keys /\ x.again \in BOOLEAN
              /\ x \in [at : Stages, auction : Auctions, bot : Bots, since : 0 .. MaxTime,
                        left : SUBSET Keys, again : BOOLEAN]
BY DEF Attempt, Free, Stages

LEMMA LastOfTimes ==
  ASSUME NEW s \in Seq(0 .. MaxTime), Len(s) > 0 PROVE s[Len(s)] \in 0 .. MaxTime
<1>1. Len(s) \in 1 .. Len(s)
  OBVIOUS
<1> QED BY <1>1, ElementOfSeq

LEMMA Types ==
  ASSUME CooldownInv
  PROVE  /\ clock \in Nat /\ clock <= MaxTime
         /\ expires \in [Keys -> Nat] /\ attempt \in [Attempts -> Attempt]
         /\ setBy \in [Keys -> Attempts \cup {"DONE"}] /\ bids \in [Keys -> Seq(0 .. MaxTime)]
         /\ taken \subseteq Keys
         /\ \A i \in Attempts : attempt[i].at \in Stages =>
              /\ KeysOf(attempt[i]) \subseteq Keys
              /\ AuctionKey(attempt[i].auction) \in KeysOf(attempt[i])
<1>1. /\ clock \in Nat /\ clock <= MaxTime
      /\ expires \in [Keys -> Nat] /\ attempt \in [Attempts -> Attempt]
      /\ setBy \in [Keys -> Attempts \cup {"DONE"}] /\ bids \in [Keys -> Seq(0 .. MaxTime)]
      /\ taken \subseteq Keys
  BY TtlsAreNat DEF CooldownInv, BotTypeOK
<1>2. ASSUME NEW i \in Attempts, attempt[i].at \in Stages
      PROVE  /\ KeysOf(attempt[i]) \subseteq Keys
             /\ AuctionKey(attempt[i].auction) \in KeysOf(attempt[i])
  <2>1. attempt[i].auction \in Auctions /\ attempt[i].bot \in Bots
    BY <1>1, <1>2, AttemptKinds
  <2> QED BY <2>1, KeyKinds DEF KeysOf
<1> QED BY <1>1, <1>2

-----------------------------------------------------------------------------
(* What a step of an attempt does to a key: nothing; its bid counts or it      *)
(* stops; it sets the key; it deletes the key, which is its own unless it      *)
(* repeats itself.                                                             *)
KeyGoes(k, i) ==
  \/ expires'[k] = expires[k] /\ setBy'[k] = setBy[k]
  \/ expires'[k] = expires[k] /\ setBy[k] = i /\ setBy'[k] = "DONE"
  \/ ~Live(k) /\ expires'[k] = clock + Ttl(k) /\ setBy'[k] = i
  \/ /\ expires'[k] = 0 /\ setBy'[k] = "DONE"
     /\ Kept(k) => setBy[k] = i \/ ~Live(k) \/ k \in taken'

Moves(i, new) ==
  /\ new \in Attempt /\ attempt' = [attempt EXCEPT ![i] = new]
  /\ clock' = clock /\ taken \subseteq taken' /\ taken' \subseteq Keys
  /\ expires' \in [Keys -> Nat] /\ setBy' \in [Keys -> Attempts \cup {"DONE"}]
  /\ Prompt(new, clock)
  /\ \A k \in Keys :
       /\ KeyGoes(k, i)
       /\ setBy'[k] = i => Claims(new, k) /\ expires'[k] >= new.since + Ttl(k)
       /\ Kept(k) /\ k \notin taken' /\ Claims(new, k) /\ ~new.again => setBy'[k] = i

LEMMA MovesKeepClaims ==
  ASSUME CooldownInv, NEW i \in Attempts, NEW new, Moves(i, new)
  PROVE  SettersClaim' /\ ClaimsAreRight' /\ AttemptsArePrompt'
<1>0. /\ clock \in Nat /\ expires \in [Keys -> Nat] /\ attempt \in [Attempts -> Attempt]
      /\ SettersClaim /\ ClaimsAreRight /\ AttemptsArePrompt /\ i # "DONE"
  BY Types, AttemptsAreNotDone DEF CooldownInv
<1>1. /\ attempt'[i] = new /\ \A j \in Attempts : j # i => attempt'[j] = attempt[j]
      /\ clock' = clock
  BY <1>0 DEF Moves
<1>2. ASSUME NEW k \in Keys
      PROVE  /\ KeyGoes(k, i)
             /\ setBy'[k] = i => Claims(new, k) /\ expires'[k] >= new.since + Ttl(k)
             /\ Kept(k) /\ k \notin taken' /\ Claims(new, k) /\ ~new.again => setBy'[k] = i
             /\ Ttl(k) \in Nat /\ Ttl(k) > 0 /\ (k \notin taken' => k \notin taken)
  BY KeyTtls DEF Moves
<1>3. SettersClaim'
  <2> SUFFICES ASSUME NEW k \in Keys, NEW j \in Attempts, setBy'[k] = j
               PROVE  /\ Claims(attempt'[j], k) /\ expires'[k] > clock
                      /\ expires'[k] >= attempt'[j].since + Ttl(k)
    BY <1>1 DEF SettersClaim, Claims, KeysOf, AuctionKey, BotKey, Ttl, BotTtl
  <2>1. CASE j = i
    <3>1. expires'[k] > clock
      BY <1>0, <1>2, <2>1, AttemptsAreNotDone DEF KeyGoes, SettersClaim
    <3> QED BY <1>1, <1>2, <2>1, <3>1
  <2>2. CASE j # i
    <3>1. setBy[k] = j /\ expires'[k] = expires[k]
      BY <1>2, <2>2, AttemptsAreNotDone DEF KeyGoes
    <3> QED BY <1>0, <1>1, <2>2, <3>1 DEF SettersClaim
  <2> QED BY <2>1, <2>2
<1>4. ClaimsAreRight'
  <2> SUFFICES ASSUME NEW k \in Keys, NEW j \in Attempts, k \notin taken', MaxDelay < Ttl(k),
                      Claims(attempt'[j], k), ~attempt'[j].again
               PROVE  setBy'[k] = j
    BY DEF ClaimsAreRight, Kept, Claims, KeysOf, AuctionKey, BotKey, Ttl, BotTtl
  <2>0. Kept(k)
    BY <1>2 DEF Kept
  <2>1. CASE j = i
    BY <1>1, <1>2, <2>0, <2>1
  <2>2. CASE j # i
    <3>1. setBy[k] = j /\ Live(k)
      BY <1>0, <1>1, <2>0, <2>2 DEF ClaimsAreRight, SettersClaim, Live
    <3> QED BY <1>2, <2>0, <2>2, <3>1 DEF KeyGoes
  <2> QED BY <2>1, <2>2
<1>5. AttemptsArePrompt'
  <2>1. \A j \in Attempts : Prompt(attempt'[j], clock)
    BY <1>0, <1>1 DEF Moves, AttemptsArePrompt
  <2> QED BY <1>1, <2>1 DEF AttemptsArePrompt, Prompt, KeysOf, AuctionKey, BotKey
<1> QED BY <1>3, <1>4, <1>5

(* The types after such a step.                                                *)
LEMMA MovesAreTyped ==
  ASSUME CooldownInv, NEW i \in Attempts, NEW new, Moves(i, new),
         bids' \in [Keys -> Seq(0 .. MaxTime)]
  PROVE  BotTypeOK'
<1> DEFINE bound == MaxTime + AuctionTtl + (BotMs \div 1000) + 1
<1>1. ASSUME NEW k \in Keys PROVE expires'[k] \in 0 .. bound
  <2>1. /\ clock \in Nat /\ clock <= MaxTime /\ expires[k] \in 0 .. bound
        /\ KeyGoes(k, i) /\ expires'[k] \in Nat
    BY Types, TtlsAreNat DEF CooldownInv, BotTypeOK, Moves
  <2>2. Ttl(k) \in Nat /\ Ttl(k) <= AuctionTtl + (BotMs \div 1000) + 1
    BY KeyTtls
  <2>3. expires'[k] \in {expires[k], clock + Ttl(k), 0}
    BY <2>1 DEF KeyGoes
  <2>4. bound \in Nat /\ clock + Ttl(k) \in 0 .. bound
    <3> DEFINE rest == AuctionTtl + (BotMs \div 1000) + 1
    <3>1. rest \in Nat /\ MaxTime \in Nat /\ bound = MaxTime + rest /\ Ttl(k) <= rest
      BY <2>2, TtlsAreNat
    <3> HIDE DEF rest, bound
    <3> QED BY <2>1, <2>2, <3>1
  <2> HIDE DEF bound
  <2> QED BY <2>1, <2>3, <2>4
<1>2. expires' \in [Keys -> 0 .. bound]
  BY <1>1 DEF Moves
<1>3. /\ clock' \in 0 .. MaxTime /\ attempt' \in [Attempts -> Attempt]
      /\ setBy' \in [Keys -> Attempts \cup {"DONE"}] /\ taken' \subseteq Keys
  BY Types DEF Moves, CooldownInv, BotTypeOK
<1> QED BY <1>2, <1>3 DEF BotTypeOK

(* A step without a bid.                                                       *)
LEMMA MovesKeep ==
  ASSUME CooldownInv, NEW i \in Attempts, NEW new, Moves(i, new), bids' = bids
  PROVE  CooldownInv'
<1>0. /\ clock \in Nat /\ expires \in [Keys -> Nat] /\ bids \in [Keys -> Seq(0 .. MaxTime)]
      /\ MaxDelay \in Nat /\ BidsAreGuarded /\ Spaced /\ i # "DONE" /\ clock' = clock
      /\ taken \subseteq taken'
  BY Types, TtlsAreNat, AttemptsAreNotDone DEF CooldownInv, Moves
<1>1. BotTypeOK'
  BY <1>0, MovesAreTyped
<1>2. BidsAreGuarded'
  <2> SUFFICES ASSUME NEW k \in Keys, Len(bids[k]) > 0
               PROVE  /\ Last(k) <= clock
                      /\ k \notin taken' /\ MaxDelay < Ttl(k) =>
                           \/ clock >= Last(k) + Ttl(k) - MaxDelay
                           \/ setBy'[k] = "DONE" /\ expires'[k] >= Last(k) + Ttl(k) - MaxDelay
    BY <1>0 DEF BidsAreGuarded, Kept, Last, Ttl, BotTtl
  <2>1. /\ Last(k) \in Nat /\ Last(k) <= clock /\ Ttl(k) \in Nat /\ KeyGoes(k, i)
        /\ Kept(k) => \/ clock >= Last(k) + Ttl(k) - MaxDelay
                      \/ setBy[k] = "DONE" /\ expires[k] >= Last(k) + Ttl(k) - MaxDelay
    <3>1. Last(k) \in 0 .. MaxTime
      BY <1>0, LastOfTimes DEF Last
    <3>2. KeyGoes(k, i)
      BY DEF Moves
    <3> QED BY <1>0, <3>1, <3>2, KeyTtls, TtlsAreNat DEF BidsAreGuarded
  <2> QED BY <1>0, <2>1 DEF KeyGoes, Kept, Live
<1>3. Spaced'
  BY <1>0 DEF Spaced, KeepsApart, Ttl, BotTtl
<1> QED BY <1>1, <1>2, <1>3, MovesKeepClaims DEF CooldownInv

(* A step that leaves the keys alone.                                          *)
LEMMA GoingOnKeeps ==
  ASSUME CooldownInv, NEW i \in Attempts, NEW new \in Attempt,
         attempt' = [attempt EXCEPT ![i] = new], UNCHANGED <<clock, expires, setBy, bids, taken>>,
         Prompt(new, clock),
         \A k \in Keys : setBy[k] = i => Claims(new, k) /\ expires[k] >= new.since + Ttl(k),
         \A k \in Keys : Kept(k) /\ Claims(new, k) /\ ~new.again => setBy[k] = i
  PROVE  CooldownInv'
<1>1. Moves(i, new)
  BY Types DEF Moves, KeyGoes
<1> QED BY <1>1, MovesKeep

(* What the invariant says of one attempt.                                     *)
LEMMA OneAttempt ==
  ASSUME CooldownInv, NEW i \in Attempts
  PROVE  /\ attempt[i] \in Attempt /\ Prompt(attempt[i], clock) /\ clock \in 0 .. MaxTime
         /\ \A k \in Keys : setBy[k] = i =>
              Claims(attempt[i], k) /\ expires[k] >= attempt[i].since + Ttl(k)
         /\ \A k \in Keys : Kept(k) /\ Claims(attempt[i], k) /\ ~attempt[i].again => setBy[k] = i
BY Types DEF CooldownInv, AttemptsArePrompt, SettersClaim, ClaimsAreRight, BotTypeOK

(* An attempt that ends, and is nobody's setter any more.                      *)
LEMMA FreeClaimsNothing ==
  Free \in Attempt /\ Prompt(Free, clock) /\ \A k : ~Claims(Free, k)
BY DEF Free, Attempt, Prompt, Claims, Stages

LEMMA StartKeeps ==
  ASSUME CooldownInv, NEW i \in Attempts, NEW a \in Auctions, NEW b \in Bots, Start(i, a, b)
  PROVE  CooldownInv'
<1> DEFINE new == [at |-> "AUCTION", auction |-> a, bot |-> b, since |-> 0, left |-> {},
                   again |-> FALSE]
<1>1. new \in Attempt /\ Prompt(new, clock) /\ \A k : ~Claims(new, k)
  BY TtlsAreNat DEF Attempt, Stages, Prompt, Claims
<1>2. /\ attempt[i] = Free /\ attempt' = [attempt EXCEPT ![i] = new]
      /\ UNCHANGED <<clock, expires, setBy, bids, taken>>
  BY DEF Start, Underway
<1> HIDE DEF new
<1>3. \A k \in Keys : setBy[k] # i
  BY <1>2, OneAttempt, FreeClaimsNothing
<1> QED BY <1>1, <1>2, <1>3, GoingOnKeeps

(* SET ... NX of the auction's key.                                            *)
LEMMA TakeAuctionKeeps ==
  ASSUME CooldownInv, NEW i \in Attempts, TakeAuction(i)
  PROVE  CooldownInv'
<1> DEFINE x == attempt[i]
           key == AuctionKey(x.auction)
           new == [x EXCEPT !.at = "BOT", !.since = clock]
<1>1. /\ x \in Attempt /\ x.at = "AUCTION" /\ clock \in 0 .. MaxTime /\ x.auction \in Auctions
      /\ UNCHANGED <<clock, bids, taken>> /\ MaxDelay \in Nat /\ x.again = FALSE
      /\ x \in [at : Stages, auction : Auctions, bot : Bots, since : 0 .. MaxTime,
                left : SUBSET Keys, again : BOOLEAN]
      /\ clock \in Nat
  <2>1. x \in Attempt /\ x.at = "AUCTION" /\ Prompt(x, clock) /\ clock \in 0 .. MaxTime
    BY OneAttempt DEF TakeAuction
  <2>2. x.at \in Stages
    BY <2>1 DEF Stages
  <2> QED BY <2>1, <2>2, AttemptKinds, TtlsAreNat DEF TakeAuction, Prompt
<1>2. \A k \in Keys : setBy[k] # i
  BY <1>1, OneAttempt DEF Claims
<1>3. CASE Leave(i) /\ UNCHANGED <<expires, setBy>>
  BY <1>1, <1>2, <1>3, FreeClaimsNothing, GoingOnKeeps DEF Leave
<1>4. CASE SetNx(i, key, AuctionTtl) /\ attempt' = [attempt EXCEPT ![i].at = "BOT", ![i].since = clock]
  <2>1. /\ new \in Attempt /\ new.at = "BOT" /\ new.since = clock /\ new.auction = x.auction
        /\ new.again = FALSE
    BY <1>1 DEF Attempt, Stages
  <2>2. attempt' = [attempt EXCEPT ![i] = new]
    BY <1>1, <1>4, Types
  <2>3. key \in Keys /\ Ttl(key) = AuctionTtl /\ AuctionTtl \in Nat
    BY <1>1, KeyKinds, AttemptKinds, TtlsAreNat DEF Keys, AuctionKey, Ttl
  <2>4. ~Live(key) /\ expires' = [expires EXCEPT ![key] = clock + AuctionTtl]
        /\ setBy' = [setBy EXCEPT ![key] = i]
    BY <1>4 DEF SetNx
  <2>5. \A k \in Keys : Claims(new, k) <=> k = key
    BY <2>1 DEF Claims
  <2>6. Prompt(new, clock)
    BY <1>1, <2>1 DEF Prompt
  <2> HIDE DEF new, key, x
  <2>7. Moves(i, new)
    <3>1. /\ expires' \in [Keys -> Nat] /\ setBy' \in [Keys -> Attempts \cup {"DONE"}]
          /\ taken \subseteq Keys
      BY <1>1, <2>3, <2>4, Types
    <3>2. ASSUME NEW k \in Keys
          PROVE  /\ KeyGoes(k, i)
                 /\ setBy'[k] = i => Claims(new, k) /\ expires'[k] >= new.since + Ttl(k)
                 /\ Kept(k) /\ k \notin taken' /\ Claims(new, k) /\ ~new.again => setBy'[k] = i
      <4>1. CASE k = key
        BY <1>1, <2>1, <2>3, <2>4, <2>5, <4>1, Types DEF KeyGoes
      <4>2. CASE k # key
        <5>1. expires'[k] = expires[k] /\ setBy'[k] = setBy[k]
          BY <2>3, <2>4, <4>2, Types
        <5> QED BY <1>2, <2>5, <4>2, <5>1 DEF KeyGoes
      <4> QED BY <4>1, <4>2
    <3> QED BY <1>1, <2>1, <2>2, <2>6, <3>1, <3>2 DEF Moves
  <2> QED BY <1>1, <2>7, MovesKeep
<1> QED BY <1>3, <1>4 DEF TakeAuction

(* An attempt that is under way.                                               *)
LEMMA Underways ==
  ASSUME CooldownInv, NEW i \in Attempts, attempt[i].at \in Stages
  PROVE  /\ attempt[i] \in [at : Stages, auction : Auctions, bot : Bots, since : 0 .. MaxTime,
                             left : SUBSET Keys, again : BOOLEAN]
         /\ attempt[i].auction \in Auctions /\ attempt[i].bot \in Bots
         /\ attempt[i].since \in Nat /\ clock \in Nat /\ MaxDelay \in Nat
         /\ Prompt(attempt[i], clock)
         /\ KeysOf(attempt[i]) \subseteq Keys /\ AuctionKey(attempt[i].auction) \in KeysOf(attempt[i])
BY Types, OneAttempt, AttemptKinds, TtlsAreNat

(* SET ... NX of the bot's key.                                                *)
LEMMA TakeBotKeeps ==
  ASSUME CooldownInv, NEW i \in Attempts, TakeBot(i)
  PROVE  CooldownInv'
<1> DEFINE x == attempt[i]
           key == BotKey(x.auction, x.bot)
           undo == [x EXCEPT !.at = "UNDO"]
           new == [x EXCEPT !.at = "BID"]
<1>1. /\ x.at = "BOT" /\ x.again = FALSE /\ Prompt(x, clock)
      /\ UNCHANGED <<clock, bids, taken>>
      /\ x \in [at : Stages, auction : Auctions, bot : Bots, since : 0 .. MaxTime,
                left : SUBSET Keys, again : BOOLEAN]
      /\ x.auction \in Auctions /\ x.bot \in Bots /\ x.since \in Nat /\ clock \in Nat
      /\ x.since <= clock /\ clock <= x.since + MaxDelay
  <2>1. x.at = "BOT" /\ x.at \in Stages
    BY DEF TakeBot, Stages
  <2>2. UNCHANGED <<clock, bids, taken>>
    BY DEF TakeBot
  <2> QED BY <2>1, <2>2, Underways DEF Prompt
<1>2. \A k \in Keys : Claims(x, k) <=> k = AuctionKey(x.auction)
  BY <1>1 DEF Claims
<1>3. CASE Goto(i, "UNDO") /\ UNCHANGED <<expires, setBy>>
  <2>1. /\ undo \in Attempt /\ undo.at = "UNDO" /\ undo.since = x.since
        /\ undo.auction = x.auction /\ undo.again = FALSE
    BY <1>1 DEF Attempt, Stages
  <2>2. attempt' = [attempt EXCEPT ![i] = undo]
    BY <1>1, <1>3, Types DEF Goto
  <2>3. \A k \in Keys : Claims(undo, k) <=> Claims(x, k)
    BY <1>2, <2>1 DEF Claims
  <2>4. Prompt(undo, clock)
    BY <1>1, <2>1 DEF Prompt
  <2>5. /\ \A k \in Keys : setBy[k] = i => Claims(x, k) /\ expires[k] >= x.since + Ttl(k)
        /\ \A k \in Keys : Kept(k) /\ Claims(x, k) => setBy[k] = i
    BY <1>1, OneAttempt
  <2> HIDE DEF undo, x
  <2>6. /\ \A k \in Keys : setBy[k] = i => Claims(undo, k) /\ expires[k] >= undo.since + Ttl(k)
        /\ \A k \in Keys : Kept(k) /\ Claims(undo, k) /\ ~undo.again => setBy[k] = i
    BY <2>1, <2>3, <2>5
  <2> QED BY <1>1, <1>3, <2>1, <2>2, <2>4, <2>6, GoingOnKeeps
<1>4. CASE SetNx(i, key, BotTtl) /\ Goto(i, "BID")
  <2>1. /\ new \in Attempt /\ new.at = "BID" /\ new.since = x.since /\ new.auction = x.auction
        /\ new.bot = x.bot /\ new.again = FALSE
    BY <1>1 DEF Attempt, Stages
  <2>2. attempt' = [attempt EXCEPT ![i] = new]
    BY <1>1, <1>4, Types DEF Goto
  <2>3. key \in Keys /\ Ttl(key) = BotTtl /\ BotTtl \in Nat /\ AuctionKey(x.auction) # key
    BY <1>1, KeyKinds, TtlsAreNat
  <2>4. ~Live(key) /\ expires' = [expires EXCEPT ![key] = clock + BotTtl]
        /\ setBy' = [setBy EXCEPT ![key] = i]
    BY <1>4 DEF SetNx
  <2>5. \A k \in Keys : Claims(new, k) <=> Claims(x, k) \/ k = key
    BY <1>2, <2>1 DEF Claims, KeysOf
  <2>6. Prompt(new, clock)
    BY <1>1, <2>1 DEF Prompt
  <2>7. /\ \A k \in Keys : setBy[k] = i => Claims(x, k) /\ expires[k] >= x.since + Ttl(k)
        /\ \A k \in Keys : Kept(k) /\ Claims(x, k) => setBy[k] = i
    BY <1>1, OneAttempt
  <2> HIDE DEF new, key, x
  <2>8. Moves(i, new)
    <3>1. /\ expires' \in [Keys -> Nat] /\ setBy' \in [Keys -> Attempts \cup {"DONE"}]
          /\ taken \subseteq Keys
      BY <1>1, <2>3, <2>4, Types
    <3>2. ASSUME NEW k \in Keys
          PROVE  /\ KeyGoes(k, i)
                 /\ setBy'[k] = i => Claims(new, k) /\ expires'[k] >= new.since + Ttl(k)
                 /\ Kept(k) /\ k \notin taken' /\ Claims(new, k) /\ ~new.again => setBy'[k] = i
      <4>1. CASE k = key
        BY <1>1, <2>1, <2>3, <2>4, <2>5, <4>1, Types DEF KeyGoes
      <4>2. CASE k # key
        <5>1. expires'[k] = expires[k] /\ setBy'[k] = setBy[k]
          BY <2>3, <2>4, <4>2, Types
        <5> QED BY <2>1, <2>5, <2>7, <4>2, <5>1 DEF KeyGoes
      <4> QED BY <4>1, <4>2
    <3> QED BY <1>1, <2>1, <2>2, <2>6, <3>1, <3>2 DEF Moves
  <2> QED BY <1>1, <2>8, MovesKeep
<1> QED BY <1>3, <1>4 DEF TakeBot

(* DEL: of a key the attempt claims; one that repeats itself may take another's.*)
Deleting(i, new, key) ==
  /\ new \in Attempt /\ key \in Keys
  /\ attempt' = [attempt EXCEPT ![i] = new] /\ UNCHANGED <<clock, bids>>
  /\ Delete(key) /\ Claims(attempt[i], key) /\ Prompt(new, clock)
  /\ \/ new = Free
     \/ new.since = attempt[i].since /\ new.again = attempt[i].again
  /\ \A k \in Keys : Claims(new, k) <=> (Claims(attempt[i], k) /\ k # key)
  /\ taken' = IF attempt[i].again /\ Live(key) /\ setBy[key] # i
              THEN taken \cup {key} ELSE taken

LEMMA DeletingKeeps ==
  ASSUME CooldownInv, NEW i \in Attempts, NEW new, NEW key, Deleting(i, new, key)
  PROVE  CooldownInv'
<1> USE DEF Deleting
<1>1. /\ expires' = [expires EXCEPT ![key] = 0] /\ setBy' = [setBy EXCEPT ![key] = "DONE"]
      /\ i # "DONE"
  BY AttemptsAreNotDone DEF Delete
<1>2. /\ \A k \in Keys : setBy[k] = i =>
            Claims(attempt[i], k) /\ expires[k] >= attempt[i].since + Ttl(k)
      /\ \A k \in Keys : Kept(k) /\ Claims(attempt[i], k) /\ ~attempt[i].again => setBy[k] = i
  BY OneAttempt
<1>3. Moves(i, new)
  <2>1. /\ expires' \in [Keys -> Nat] /\ setBy' \in [Keys -> Attempts \cup {"DONE"}]
        /\ taken \subseteq taken' /\ taken' \subseteq Keys
    BY <1>1, Types
  <2>2. ASSUME NEW k \in Keys
        PROVE  /\ KeyGoes(k, i)
               /\ setBy'[k] = i => Claims(new, k) /\ expires'[k] >= new.since + Ttl(k)
               /\ Kept(k) /\ k \notin taken' /\ Claims(new, k) /\ ~new.again => setBy'[k] = i
    <3>1. CASE k = key
      <4>1. expires'[k] = 0 /\ setBy'[k] = "DONE" /\ ~Claims(new, k)
        BY <1>1, <3>1, Types
      <4>2. Kept(k) => setBy[k] = i \/ ~Live(k) \/ k \in taken'
        BY <1>2, <3>1
      <4> QED BY <1>1, <4>1, <4>2 DEF KeyGoes
    <3>2. CASE k # key
      <4>1. expires'[k] = expires[k] /\ setBy'[k] = setBy[k]
        BY <1>1, <3>2, Types
      <4>2. Claims(new, k) => new.since = attempt[i].since /\ new.again = attempt[i].again
        BY FreeClaimsNothing
      <4> QED BY <1>2, <3>2, <4>1, <4>2 DEF KeyGoes
    <3> QED BY <3>1, <3>2
  <2> QED BY <2>1, <2>2 DEF Moves
<1> QED BY <1>3, MovesKeep

LEMMA UndoKeeps ==
  ASSUME CooldownInv, NEW i \in Attempts, Undo(i)
  PROVE  CooldownInv'
<1> DEFINE key == AuctionKey(attempt[i].auction)
<1>1. /\ attempt[i].at = "UNDO" /\ attempt[i].at \in Stages /\ Delete(key)
      /\ attempt' = [attempt EXCEPT ![i] = Free] /\ UNCHANGED <<clock, bids, taken>>
  BY DEF Undo, Leave, Stages
<1>2. key \in Keys /\ attempt[i].again = FALSE
  BY <1>1, Underways DEF Prompt
<1>3. \A k \in Keys : Claims(attempt[i], k) <=> k = key
  BY <1>1 DEF Claims
<1> HIDE DEF key
<1>4. \A k \in Keys : Claims(Free, k) <=> Claims(attempt[i], k) /\ k # key
  BY <1>3, FreeClaimsNothing
<1>5. Deleting(i, Free, key)
  BY <1>1, <1>2, <1>3, <1>4, FreeClaimsNothing DEF Deleting
<1> QED BY <1>5, DeletingKeeps

LEMMA ClearKeeps ==
  ASSUME CooldownInv, NEW i \in Attempts, Clear(i)
  PROVE  CooldownInv'
<1> DEFINE x == attempt[i]
<1>1. x.at = "CLEAR" /\ x.at \in Stages /\ UNCHANGED <<clock, bids>>
  BY DEF Clear, Stages
<1>2. /\ x \in [at : Stages, auction : Auctions, bot : Bots, since : 0 .. MaxTime,
                left : SUBSET Keys, again : BOOLEAN]
      /\ x.left \subseteq KeysOf(x) /\ x.left \subseteq Keys
      /\ x.since <= clock /\ clock <= x.since + MaxDelay
  BY <1>1, Underways DEF Prompt
<1>3. PICK key \in x.left :
        /\ Delete(key)
        /\ taken' = IF x.again /\ Live(key) /\ setBy[key] # i THEN taken \cup {key} ELSE taken
        /\ IF x.left = {key} THEN Leave(i)
           ELSE attempt' = [attempt EXCEPT ![i].left = @ \ {key}]
  BY DEF Clear
<1>4. \A k \in Keys : Claims(x, k) <=> k \in x.left
  BY <1>1 DEF Claims
<1>5. CASE x.left = {key}
  <2>1. \A k \in Keys : Claims(Free, k) <=> Claims(x, k) /\ k # key
    BY <1>4, <1>5, FreeClaimsNothing
  <2>2. Claims(x, key) /\ key \in Keys /\ attempt' = [attempt EXCEPT ![i] = Free]
    BY <1>2, <1>3, <1>4, <1>5 DEF Leave
  <2>3. Deleting(i, Free, key)
    BY <1>1, <1>3, <2>1, <2>2, FreeClaimsNothing DEF Deleting
  <2> QED BY <2>3, DeletingKeeps
<1>6. CASE x.left # {key}
  <2> DEFINE new == [x EXCEPT !.left = x.left \ {key}]
  <2>1. /\ new \in Attempt /\ new.at = "CLEAR" /\ new.since = x.since /\ new.again = x.again
        /\ new.left = x.left \ {key} /\ new.auction = x.auction /\ new.bot = x.bot
    BY <1>1, <1>2 DEF Attempt
  <2>2. attempt' = [attempt EXCEPT ![i] = new]
    BY <1>3, <1>6, Types
  <2>3. Prompt(new, clock)
    BY <1>2, <2>1 DEF Prompt, KeysOf
  <2>4. \A k \in Keys : Claims(new, k) <=> Claims(x, k) /\ k # key
    BY <1>4, <2>1 DEF Claims
  <2>5. Claims(x, key) /\ key \in Keys
    BY <1>2, <1>4
  <2> HIDE DEF new
  <2>6. Deleting(i, new, key)
    BY <1>1, <1>3, <2>1, <2>2, <2>3, <2>4, <2>5 DEF Deleting
  <2> QED BY <2>6, DeletingKeeps
<1> QED BY <1>5, <1>6

(* A bid that was not placed, and a clearCooldown that starts again.           *)
LEMMA ClearingStarts ==
  ASSUME CooldownInv, NEW i \in Attempts, BidNotPlaced(i) \/ ClearAgain(i)
  PROVE  CooldownInv'
<1> DEFINE x == attempt[i]
           again == IF x.at = "CLEAR" THEN TRUE ELSE x.again
           new == [x EXCEPT !.at = "CLEAR", !.left = KeysOf(x), !.again = again]
<1>1. /\ x.at \in {"BID", "CLEAR"} /\ x.at \in Stages
      /\ UNCHANGED <<clock, expires, setBy, bids, taken>>
  BY DEF BidNotPlaced, ClearAgain, Stages
<1>2. /\ x \in [at : Stages, auction : Auctions, bot : Bots, since : 0 .. MaxTime,
                left : SUBSET Keys, again : BOOLEAN]
      /\ KeysOf(x) \subseteq Keys /\ x.since <= clock /\ clock <= x.since + MaxDelay
      /\ x.at = "CLEAR" => x.left \subseteq KeysOf(x)
  BY <1>1, Underways DEF Prompt
<1>3. again \in BOOLEAN
  BY <1>2
<1>4. attempt' = [attempt EXCEPT ![i] = new]
  <2>1. CASE BidNotPlaced(i)
    BY <1>2, <2>1, Types DEF BidNotPlaced
  <2>2. CASE ClearAgain(i)
    <3>1. /\ x.at = "CLEAR"
          /\ attempt' = [attempt EXCEPT ![i].left = KeysOf(x), ![i].again = TRUE]
      BY <2>2 DEF ClearAgain
    <3>2. new = [x EXCEPT !.left = KeysOf(x), !.again = TRUE]
      BY <1>2, <3>1, Types
    <3> QED BY <1>2, <3>1, <3>2
  <2> QED BY <2>1, <2>2
<1> HIDE DEF again
<1>5. /\ new \in Attempt /\ new.at = "CLEAR" /\ new.left = KeysOf(x) /\ new.since = x.since
      /\ new.again = again /\ new.auction = x.auction /\ new.bot = x.bot
  BY <1>1, <1>2, <1>3 DEF Attempt, Stages
<1>6. Prompt(new, clock)
  BY <1>2, <1>5 DEF Prompt, KeysOf
<1>7. /\ \A k \in Keys : setBy[k] = i => Claims(x, k) /\ expires[k] >= x.since + Ttl(k)
      /\ \A k \in Keys : Kept(k) /\ Claims(x, k) /\ ~x.again => setBy[k] = i
  BY OneAttempt
<1>8. ASSUME NEW k \in Keys
      PROVE  /\ Claims(x, k) => Claims(new, k)
             /\ Claims(new, k) /\ ~new.again => Claims(x, k) /\ ~x.again
  BY <1>1, <1>2, <1>5 DEF Claims, again
<1> HIDE DEF new
<1>9. /\ \A k \in Keys : setBy[k] = i => Claims(new, k) /\ expires[k] >= new.since + Ttl(k)
      /\ \A k \in Keys : Kept(k) /\ Claims(new, k) /\ ~new.again => setBy[k] = i
  BY <1>5, <1>7, <1>8
<1> QED BY <1>1, <1>4, <1>5, <1>6, <1>9, GoingOnKeeps

(* An attempt that stops, or whose bid counts, leaves its keys to expire.      *)
LEMMA LettingGoMoves ==
  ASSUME CooldownInv, NEW i \in Attempts, Leave(i), UNCHANGED <<clock, expires, taken>>,
         setBy' = [k \in Keys |-> IF setBy[k] = i THEN "DONE" ELSE setBy[k]]
  PROVE  Moves(i, Free)
<1>1. /\ expires' \in [Keys -> Nat] /\ setBy' \in [Keys -> Attempts \cup {"DONE"}]
      /\ taken \subseteq Keys /\ i # "DONE" /\ attempt' = [attempt EXCEPT ![i] = Free]
  BY Types, AttemptsAreNotDone DEF Leave
<1>2. \A k \in Keys : KeyGoes(k, i) /\ setBy'[k] # i
  BY <1>1 DEF KeyGoes
<1> QED BY <1>1, <1>2, FreeClaimsNothing DEF Moves

LEMMA StopsKeeps ==
  ASSUME CooldownInv, NEW i \in Attempts, Stops(i)
  PROVE  CooldownInv'
BY LettingGoMoves, MovesKeep DEF Stops

(* A bid that counts: the last one's cooldown is over.                         *)
LEMMA BidPlacedKeeps ==
  ASSUME CooldownInv, NEW i \in Attempts, BidPlaced(i)
  PROVE  CooldownInv'
<1> DEFINE x == attempt[i]
<1>1. /\ x.at = "BID" /\ x.at \in Stages /\ Leave(i) /\ UNCHANGED <<clock, expires, taken>>
      /\ setBy' = [k \in Keys |-> IF setBy[k] = i THEN "DONE" ELSE setBy[k]]
      /\ bids' = [k \in Keys |-> IF k \in KeysOf(x) THEN LastTwo(bids[k], clock) ELSE bids[k]]
  BY DEF BidPlaced, Stages
<1>2. /\ x.since \in Nat /\ x.since <= clock /\ clock <= x.since + MaxDelay /\ x.again = FALSE
      /\ clock \in 0 .. MaxTime /\ clock \in Nat /\ MaxDelay \in Nat
  BY <1>1, Underways, OneAttempt DEF Prompt
<1>3. Moves(i, Free)
  BY <1>1, LettingGoMoves
<1>4. ASSUME NEW k \in Keys
      PROVE  bids[k] \in Seq(0 .. MaxTime) /\ LastTwo(bids[k], clock) \in Seq(0 .. MaxTime)
  <2>1. bids[k] \in Seq(0 .. MaxTime)
    BY Types
  <2>2. bids[k] # <<>> => bids[k][Len(bids[k])] \in 0 .. MaxTime
    BY <2>1, LastOfTimes, EmptySeq
  <2>3. <<clock>> \in Seq(0 .. MaxTime)
    BY <1>2
  <2>4. bids[k] # <<>> => <<bids[k][Len(bids[k])], clock>> \in Seq(0 .. MaxTime)
    BY <1>2, <2>2
  <2> QED BY <2>1, <2>3, <2>4 DEF LastTwo
<1>5. BotTypeOK'
  BY <1>1, <1>3, <1>4, MovesAreTyped
<1>6. ASSUME NEW k \in Keys, k \in KeysOf(x)
      PROVE  /\ Len(bids'[k]) \in {1, 2} /\ bids'[k][Len(bids'[k])] = clock
             /\ Len(bids'[k]) = 2 => Len(bids[k]) > 0 /\ bids'[k][1] = Last(k)
  BY <1>1, <1>4, <1>6, EmptySeq DEF LastTwo, Last
<1>7. ASSUME NEW k \in Keys, k \in KeysOf(x), Kept(k)
      PROVE  /\ setBy[k] = i /\ setBy'[k] = "DONE" /\ expires'[k] = expires[k]
             /\ expires[k] >= clock + Ttl(k) - MaxDelay
  <2>1. Claims(x, k)
    BY <1>1, <1>7 DEF Claims
  <2>2. setBy[k] = i /\ expires[k] >= x.since + Ttl(k)
    BY <1>2, <1>7, <2>1, OneAttempt
  <2>3. Ttl(k) \in Nat /\ expires[k] \in Nat
    BY KeyTtls, Types
  <2> QED BY <1>1, <1>2, <2>2, <2>3
<1>8. BidsAreGuarded'
  <2> SUFFICES ASSUME NEW k \in Keys, Len(bids'[k]) > 0
               PROVE  /\ bids'[k][Len(bids'[k])] <= clock
                      /\ k \notin taken /\ MaxDelay < Ttl(k) =>
                         \/ clock >= bids'[k][Len(bids'[k])] + Ttl(k) - MaxDelay
                         \/ /\ setBy'[k] = "DONE"
                            /\ expires'[k] >= bids'[k][Len(bids'[k])] + Ttl(k) - MaxDelay
    BY <1>1 DEF BidsAreGuarded, Kept, Last, Ttl, BotTtl
  <2>1. CASE k \in KeysOf(x)
    BY <1>2, <1>6, <1>7, <2>1 DEF Kept
  <2>2. CASE k \notin KeysOf(x)
    <3>1. bids'[k] = bids[k] /\ expires'[k] = expires[k] /\ (setBy[k] = "DONE" => setBy'[k] = "DONE")
      BY <1>1, <2>2
    <3> QED BY <3>1 DEF CooldownInv, BidsAreGuarded, Kept, Last
  <2> QED BY <2>1, <2>2
<1>9. Spaced'
  <2> SUFFICES ASSUME NEW k \in Keys, k \notin taken, Len(bids'[k]) = 2
               PROVE  bids'[k][2] - bids'[k][1] >= Ttl(k) - MaxDelay
    BY <1>1 DEF Spaced, KeepsApart, Ttl, BotTtl
  <2>1. CASE k \in KeysOf(x)
    <3>1. bids'[k][2] = clock /\ bids'[k][1] = Last(k) /\ Len(bids[k]) > 0
      BY <1>6, <2>1
    <3>2. /\ Last(k) <= clock
          /\ Kept(k) => \/ clock >= Last(k) + Ttl(k) - MaxDelay \/ setBy[k] = "DONE"
      BY <3>1 DEF CooldownInv, BidsAreGuarded
    <3>3. Last(k) \in 0 .. MaxTime /\ Ttl(k) \in Nat
      BY <1>4, <3>1, LastOfTimes, KeyTtls DEF Last
    <3>4. Kept(k) => clock >= Last(k) + Ttl(k) - MaxDelay
      BY <1>7, <2>1, <3>2, AttemptsAreNotDone
    <3> QED BY <1>2, <3>1, <3>2, <3>3, <3>4 DEF Kept
  <2>2. CASE k \notin KeysOf(x)
    BY <1>1, <2>2 DEF CooldownInv, Spaced, KeepsApart
  <2> QED BY <2>1, <2>2
<1> QED BY <1>3, <1>5, <1>8, <1>9, MovesKeepClaims DEF CooldownInv

(* Keys expire, but none that a prompt attempt still needs.                    *)
LEMMA TickKeeps ==
  ASSUME CooldownInv, Tick
  PROVE  CooldownInv'
<1>1. /\ clock' = clock + 1 /\ clock + 1 \in 0 .. MaxTime /\ clock \in Nat /\ MaxDelay \in Nat
      /\ expires' = [k \in Keys |-> IF expires[k] > clock + 1 THEN expires[k] ELSE 0]
      /\ setBy' = [k \in Keys |-> IF expires[k] > clock + 1 THEN setBy[k] ELSE "DONE"]
      /\ UNCHANGED <<attempt, bids, taken>>
      /\ expires \in [Keys -> Nat] /\ setBy \in [Keys -> Attempts \cup {"DONE"}]
      /\ SettersClaim /\ ClaimsAreRight /\ AttemptsArePrompt /\ BidsAreGuarded /\ Spaced
  BY Types, TtlsAreNat DEF Tick, CooldownInv, BotTypeOK
<1>2. BotTypeOK'
  <2>1. /\ expires \in [Keys -> 0 .. MaxTime + AuctionTtl + (BotMs \div 1000) + 1]
        /\ attempt \in [Attempts -> Attempt] /\ bids \in [Keys -> Seq(0 .. MaxTime)]
        /\ taken \subseteq Keys
    BY DEF CooldownInv, BotTypeOK
  <2>2. expires' \in [Keys -> 0 .. MaxTime + AuctionTtl + (BotMs \div 1000) + 1]
    BY <1>1, <2>1, TtlsAreNat
  <2>3. setBy' \in [Keys -> Attempts \cup {"DONE"}]
    BY <1>1
  <2> QED BY <1>1, <2>1, <2>2, <2>3 DEF BotTypeOK
<1>3. SettersClaim'
  <2> SUFFICES ASSUME NEW k \in Keys, NEW i \in Attempts, setBy'[k] = i
               PROVE  /\ Claims(attempt[i], k) /\ expires'[k] > clock + 1
                      /\ expires'[k] >= attempt[i].since + Ttl(k)
    BY <1>1 DEF SettersClaim, Claims, KeysOf, AuctionKey, BotKey, Ttl, BotTtl
  <2>1. expires[k] > clock + 1 /\ setBy[k] = i /\ expires'[k] = expires[k]
    BY <1>1, AttemptsAreNotDone
  <2> QED BY <1>1, <2>1 DEF SettersClaim
<1>4. ASSUME NEW i \in Attempts, attempt[i].at \in Stages \ {"AUCTION"}
      PROVE  /\ attempt[i].since \in Nat /\ attempt[i].since <= clock
             /\ clock + 1 <= attempt[i].since + MaxDelay
  <2>1. Underway(i)
    BY <1>4 DEF Underway, Free, Stages
  <2>2. clock - attempt[i].since < MaxDelay
    BY <1>4, <2>1 DEF Tick
  <2>3. attempt[i].since \in Nat /\ attempt[i].since <= clock
    BY <1>4, Underways DEF Prompt
  <2> QED BY <1>1, <2>2, <2>3
<1>5. ClaimsAreRight'
  <2> SUFFICES ASSUME NEW k \in Keys, NEW i \in Attempts, Kept(k), Claims(attempt[i], k),
                      ~attempt[i].again
               PROVE  setBy'[k] = i
    BY <1>1 DEF ClaimsAreRight, Kept, Claims, KeysOf, AuctionKey, BotKey, Ttl, BotTtl
  <2>1. setBy[k] = i /\ expires[k] >= attempt[i].since + Ttl(k)
    BY <1>1 DEF ClaimsAreRight, SettersClaim
  <2>2. attempt[i].at \in Stages \ {"AUCTION"}
    BY DEF Claims, Stages
  <2>3. Ttl(k) \in Nat /\ MaxDelay < Ttl(k) /\ expires[k] \in Nat
    BY <1>1, KeyTtls DEF Kept
  <2>4. expires[k] > clock + 1
    BY <1>1, <1>4, <2>1, <2>2, <2>3
  <2> QED BY <1>1, <2>1, <2>4
<1>6. AttemptsArePrompt'
  <2>1. \A i \in Attempts : Prompt(attempt[i], clock + 1)
    BY <1>1, <1>4 DEF AttemptsArePrompt, Prompt
  <2> QED BY <1>1, <2>1 DEF AttemptsArePrompt, Prompt, KeysOf, AuctionKey, BotKey
<1>7. BidsAreGuarded'
  <2> SUFFICES ASSUME NEW k \in Keys, Len(bids[k]) > 0
               PROVE  /\ Last(k) <= clock + 1
                      /\ Kept(k) => \/ clock + 1 >= Last(k) + Ttl(k) - MaxDelay
                                    \/ /\ setBy'[k] = "DONE"
                                       /\ expires'[k] >= Last(k) + Ttl(k) - MaxDelay
    BY <1>1 DEF BidsAreGuarded, Kept, Last, Ttl, BotTtl
  <2>1. Last(k) \in 0 .. MaxTime /\ Ttl(k) \in Nat /\ expires[k] \in Nat
    BY <1>1, LastOfTimes, KeyTtls, Types DEF Last
  <2>2. /\ Last(k) <= clock
        /\ Kept(k) => \/ clock >= Last(k) + Ttl(k) - MaxDelay
                      \/ setBy[k] = "DONE" /\ expires[k] >= Last(k) + Ttl(k) - MaxDelay
    BY <1>1 DEF BidsAreGuarded
  <2> QED BY <1>1, <2>1, <2>2
<1>8. Spaced'
  BY <1>1 DEF Spaced, KeepsApart, Ttl, BotTtl
<1> QED BY <1>2, <1>3, <1>5, <1>6, <1>7, <1>8 DEF CooldownInv

LEMMA CooldownsStart ==
  ASSUME BotInit PROVE CooldownInv
<1>1. /\ clock = 0 /\ expires = [k \in Keys |-> 0] /\ attempt = [i \in Attempts |-> Free]
      /\ setBy = [k \in Keys |-> "DONE"] /\ bids = [k \in Keys |-> <<>>] /\ taken = {}
  BY DEF BotInit
<1>2. BotTypeOK
  BY <1>1, FreeClaimsNothing, TtlsAreNat DEF BotTypeOK
<1>3. SettersClaim /\ ClaimsAreRight /\ AttemptsArePrompt
  BY <1>1, FreeClaimsNothing, AttemptsAreNotDone DEF SettersClaim, ClaimsAreRight, AttemptsArePrompt
<1>4. BidsAreGuarded /\ Spaced
  BY <1>1 DEF BidsAreGuarded, Spaced, KeepsApart
<1> QED BY <1>2, <1>3, <1>4 DEF CooldownInv

LEMMA CooldownsHold == BotSpec => []CooldownInv
<1>1. CooldownInv /\ [BotNext]_botVars => CooldownInv'
  <2> SUFFICES ASSUME CooldownInv, [BotNext]_botVars PROVE CooldownInv'
    OBVIOUS
  <2>1. CASE UNCHANGED botVars
    BY <2>1 DEF botVars, CooldownInv, BotTypeOK, SettersClaim, ClaimsAreRight, AttemptsArePrompt,
               BidsAreGuarded, Spaced, Claims, Kept, Prompt, Last, KeepsApart, KeysOf, AuctionKey,
               BotKey, Ttl, BotTtl
  <2>2. ASSUME NEW i \in Attempts, NEW a \in Auctions, NEW b \in Bots, Start(i, a, b)
        PROVE  CooldownInv'
    BY <2>2, StartKeeps
  <2>3. ASSUME NEW i \in Attempts,
               \/ TakeAuction(i) \/ TakeBot(i) \/ Undo(i)
               \/ BidPlaced(i) \/ BidNotPlaced(i) \/ Clear(i)
               \/ ClearAgain(i) \/ Stops(i)
        PROVE  CooldownInv'
    BY <2>3, TakeAuctionKeeps, TakeBotKeeps, UndoKeeps, BidPlacedKeeps, ClearingStarts, ClearKeeps,
       StopsKeeps
  <2> QED BY <2>1, <2>2, <2>3, TickKeeps DEF BotNext
<1> QED BY <1>1, CooldownsStart, PTL DEF BotSpec

(* The keys, the attempts and the times are what their kinds say.              *)
THEOREM CooldownsTyped == BotSpec => []BotTypeOK
<1>1. CooldownInv => BotTypeOK
  BY DEF CooldownInv
<1> QED BY <1>1, CooldownsHold, PTL

(* Two bids on an auction, and two of a bot on it, are their cooldown less an  *)
(* attempt's length apart, however many instances have how many turns          *)
(* (bots.service tryPlaceBid).                                                 *)
THEOREM BidsAreSpaced == BotSpec => []Spaced
<1>1. CooldownInv => Spaced
  BY DEF CooldownInv
<1> QED BY <1>1, CooldownsHold, PTL

(* No attempt that placed no bid leaves a cooldown behind (bots.service        *)
(* tryPlaceBid, clearCooldown).                                                *)
THEOREM CooldownsHaveReasons == BotSpec => []KeysHaveReasons
<1>1. CooldownInv => KeysHaveReasons
  <2> SUFFICES ASSUME CooldownInv, NEW k \in Keys, Live(k), setBy[k] # "DONE"
               PROVE  Underway(setBy[k]) /\ k \in KeysOf(attempt[setBy[k]])
    BY DEF KeysHaveReasons
  <2>1. setBy[k] \in Attempts /\ Claims(attempt[setBy[k]], k)
    BY Types DEF CooldownInv, SettersClaim
  <2>2. Underway(setBy[k]) /\ attempt[setBy[k]].at \in Stages
    BY <2>1, FreeClaimsNothing DEF Underway, Claims, Stages
  <2> QED BY <2>1, <2>2, Types, Underways DEF Claims, Prompt, KeysOf
<1> QED BY <1>1, CooldownsHold, PTL


(***************************************************************************)
(* The alerts of the wishlist.                                             *)
(***************************************************************************)
Notice == [kind : Kinds, at : 0 .. minute, seen : SUBSET (1 .. MaxAlerts)]

(* What a sender holds: the notifications it saw are older than the window, if *)
(* its kind has one, and it saw the auction about to end if that is its kind.  *)
LooksAreOld ==
  \A s \in Senders :
    /\ sender[s].kind \in {"ending", "activity"} =>
         \A i \in sender[s].seen :
           alert[i].kind = sender[s].kind => alert[i].at + Window[sender[s].kind] <= minute
    /\ sender[s].kind = "ending" => minute >= EndsAt - Soon

AlertsInv ==
  /\ AlertsTypeOK /\ RepeatsOverlap /\ LooksAreOld
  /\ Len(alert) <= MaxAlerts

-----------------------------------------------------------------------------
(* A notification that is there was stored at some time.                       *)
LEMMA StoredAtSomeTime ==
  ASSUME AlertsInv, NEW i \in DOMAIN alert
  PROVE  alert[i].at \in Nat /\ alert[i].kind \in Kinds
<1>1. alert \in Seq(Notice) /\ minute \in Nat
  BY AlertBounds DEF AlertsInv, AlertsTypeOK, Notice
<1>2. alert[i] \in Notice
  BY <1>1
<1> QED BY <1>1, <1>2 DEF Notice

(* A read finds old notifications only.                                        *)
LEMMA NoneRecent ==
  ASSUME AlertsInv, NEW kind \in Kinds, Recent(kind) = {}
  PROVE  \A i \in DOMAIN alert :
           alert[i].kind = kind => alert[i].at + Window[kind] <= minute
<1> SUFFICES ASSUME NEW i \in DOMAIN alert, alert[i].kind = kind
             PROVE  alert[i].at + Window[kind] <= minute
  OBVIOUS
<1>1. minute \in Nat /\ Window[kind] \in Nat
  BY WindowsAreTimes, AlertBounds DEF AlertsInv, AlertsTypeOK
<1>2. alert[i].at \in Nat
  BY StoredAtSomeTime
<1>3. ~(alert[i].at > minute - Window[kind])
  BY DEF Recent
<1> QED BY <1>1, <1>2, <1>3

(* A sender that looks holds a kind that was due, and all there was.           *)
LEMMA LooksKeeps ==
  ASSUME AlertsInv, NEW s \in Senders, NEW kind \in Kinds, Looks(s, kind),
         kind # "overtaken" => Recent(kind) = {},
         kind = "ending" => AboutToEnd
  PROVE  AlertsInv'
<1>0. /\ minute \in Nat /\ MaxAlerts \in Nat /\ EndsAt \in Nat /\ Soon \in Nat
      /\ minute' = minute /\ alert' = alert
  BY AlertBounds DEF AlertsInv, AlertsTypeOK, Looks
<1> DEFINE held == [kind |-> kind, seen |-> DOMAIN alert]
           Holding == [kind : Kinds, seen : SUBSET (DOMAIN alert)] \cup {NoAlert}
<1>1. sender' = [sender EXCEPT ![s] = held]
  BY DEF Looks
<1>2. sender \in [Senders -> Holding] /\ held \in Holding
  BY DEF AlertsInv, AlertsTypeOK
<1>3. AlertsTypeOK'
  <2>1. sender' \in [Senders -> Holding']
    BY <1>0, <1>1, <1>2
  <2> QED BY <1>0, <2>1 DEF AlertsInv, AlertsTypeOK
<1>4. LooksAreOld'
  <2>1. ASSUME NEW t \in Senders, t # s
        PROVE  sender'[t] = sender[t]
    BY <1>1, <1>2, <2>1
  <2>2. sender'[s].kind = kind /\ sender'[s].seen = DOMAIN alert
    BY <1>1, <1>2
  <2>3. kind \in {"ending", "activity"} =>
          \A i \in DOMAIN alert :
            alert[i].kind = kind => alert[i].at + Window[kind] <= minute
    BY NoneRecent
  <2>4. kind = "ending" => minute >= EndsAt - Soon
    BY <1>0 DEF AboutToEnd
  <2> QED BY <1>0, <2>1, <2>2, <2>3, <2>4 DEF AlertsInv, LooksAreOld
<1> QED BY <1>0, <1>3, <1>4 DEF AlertsInv, RepeatsOverlap

(* A notification carries what its sender saw.                                 *)
LEMMA StoresKeeps ==
  ASSUME AlertsInv, NEW s \in Senders, Stores(s)
  PROVE  AlertsInv'
<1> DEFINE new == [kind |-> sender[s].kind, at |-> minute, seen |-> sender[s].seen]
           last == Len(alert) + 1
<1>0. /\ minute \in Nat /\ MaxAlerts \in Nat /\ minute' = minute
      /\ alert \in Seq(Notice) /\ Len(alert) \in Nat /\ Len(alert) < MaxAlerts
      /\ DOMAIN alert = 1 .. Len(alert)
      /\ EndsAt \in Nat /\ Soon \in Nat /\ minute \in 0 .. MaxMinute
  BY AlertBounds DEF AlertsInv, AlertsTypeOK, Stores, Notice
<1>1. /\ sender \in [Senders -> [kind : Kinds, seen : SUBSET (DOMAIN alert)] \cup {NoAlert}]
      /\ sender[s].kind \in Kinds /\ sender[s].seen \subseteq 1 .. Len(alert)
  BY <1>0 DEF AlertsInv, AlertsTypeOK, Stores
<1>2. new \in Notice
  BY <1>0, <1>1 DEF Notice
<1>3. /\ alert' = Append(alert, new) /\ alert' \in Seq(Notice)
      /\ Len(alert') = last /\ DOMAIN alert' = 1 .. last
      /\ alert'[last] = new /\ \A i \in 1 .. Len(alert) : alert'[i] = alert[i]
  BY <1>0, <1>2 DEF Stores
<1>4. /\ \A t \in Senders : sender'[t] = IF t = s THEN NoAlert ELSE sender[t]
      /\ sender' \in [Senders -> [kind : Kinds, seen : SUBSET (DOMAIN alert')] \cup {NoAlert}]
  <2>1. sender' = [sender EXCEPT ![s] = NoAlert]
    BY DEF Stores
  <2>2. DOMAIN alert \subseteq DOMAIN alert'
    BY <1>0, <1>3
  <2> QED BY <1>1, <2>1, <2>2
<1>5. sender[s].kind = "ending" => minute >= EndsAt - Soon
  BY DEF AlertsInv, LooksAreOld
<1> HIDE DEF new
<1>6. new.kind = sender[s].kind /\ new.at = minute /\ new.seen = sender[s].seen
  BY DEF new
<1>7. AlertsTypeOK'
  <2>1. \A i \in DOMAIN alert' :
          /\ alert'[i].seen \subseteq 1 .. i - 1
          /\ alert'[i].kind = "ending" => alert'[i].at >= EndsAt - Soon
    <3> SUFFICES ASSUME NEW i \in 1 .. last
                 PROVE  /\ alert'[i].seen \subseteq 1 .. i - 1
                        /\ alert'[i].kind = "ending" => alert'[i].at >= EndsAt - Soon
      BY <1>3
    <3>1. CASE i = last
      BY <1>0, <1>1, <1>3, <1>5, <1>6, <3>1
    <3>2. CASE i \in 1 .. Len(alert)
      BY <1>0, <1>3, <3>2 DEF AlertsInv, AlertsTypeOK
    <3> QED BY <1>0, <3>1, <3>2
  <2> QED BY <1>0, <1>3, <1>4, <2>1 DEF AlertsTypeOK, Notice
<1>8. RepeatsOverlap'
  <2> SUFFICES ASSUME NEW i \in 1 .. last, NEW j \in 1 .. last, i < j,
                      alert'[i].kind = alert'[j].kind, alert'[i].kind # "overtaken",
                      alert'[j].at < alert'[i].at + Window[alert'[i].kind]
               PROVE  i \notin alert'[j].seen
    BY <1>3 DEF RepeatsOverlap
  <2>1. i \in 1 .. Len(alert)
    BY <1>0
  <2>2. CASE j = last
    <3>1. sender[s].kind \in {"ending", "activity"}
      BY <1>1, <1>3, <1>6, <2>2 DEF Kinds
    <3>2. ~(alert[i].at + Window[sender[s].kind] <= minute)
      <4>1. alert[i].at \in Nat /\ Window[sender[s].kind] \in Nat
        BY <1>0, <1>1, <2>1, StoredAtSomeTime, WindowsAreTimes
      <4> QED BY <1>0, <1>3, <1>6, <2>1, <2>2, <4>1
    <3>3. i \notin sender[s].seen
      BY <1>3, <1>6, <2>1, <2>2, <3>1, <3>2 DEF AlertsInv, LooksAreOld
    <3> QED BY <1>3, <1>6, <2>2, <3>3
  <2>3. CASE j \in 1 .. Len(alert)
    BY <1>0, <1>3, <2>1, <2>3 DEF AlertsInv, RepeatsOverlap
  <2> QED BY <1>0, <2>2, <2>3
<1>9. LooksAreOld'
  <2> SUFFICES ASSUME NEW t \in Senders, t # s
               PROVE  /\ sender[t].kind \in {"ending", "activity"} =>
                           \A i \in sender[t].seen :
                             alert'[i].kind = sender[t].kind =>
                               alert'[i].at + Window[sender[t].kind] <= minute
                      /\ sender[t].kind = "ending" => minute >= EndsAt - Soon
    BY <1>0, <1>4 DEF LooksAreOld, NoAlert
  <2>1. sender[t].seen \subseteq 1 .. Len(alert)
    BY <1>0, <1>1 DEF NoAlert
  <2> QED BY <1>3, <2>1 DEF AlertsInv, LooksAreOld
<1> QED BY <1>0, <1>3, <1>7, <1>8, <1>9 DEF AlertsInv

(* The invariant holds in every reachable state.                               *)
LEMMA AlertsInvariant == AlertsSpec => []AlertsInv
<1>1. AlertsInit => AlertsInv
  <2> SUFFICES ASSUME AlertsInit PROVE AlertsInv
    OBVIOUS
  <2>1. Len(alert) = 0 /\ DOMAIN alert = {} /\ alert \in Seq(Notice)
    BY DEF AlertsInit
  <2>2. AlertsTypeOK
    BY <2>1, AlertBounds DEF AlertsInit, AlertsTypeOK, Notice
  <2> QED BY <2>1, <2>2, AlertBounds DEF AlertsInit, AlertsInv, RepeatsOverlap, LooksAreOld, NoAlert
<1>2. AlertsInv /\ [AlertsNext]_alertVars => AlertsInv'
  <2> SUFFICES ASSUME AlertsInv, [AlertsNext]_alertVars PROVE AlertsInv'
    OBVIOUS
  <2>1. CASE Later
    <3>1. /\ minute \in 0 .. MaxMinute /\ minute' \in 0 .. MaxMinute
          /\ minute' = minute + 1 /\ UNCHANGED <<alert, sender>>
      BY <2>1, AlertBounds DEF Later, AlertsInv, AlertsTypeOK
    <3>2. alert \in Seq(Notice) /\ Notice \subseteq Notice'
      BY <3>1, AlertBounds DEF AlertsInv, AlertsTypeOK, Notice
    <3>3. alert \in Seq(Notice')
      BY <3>2
    <3>4. AlertsTypeOK'
      BY <3>1, <3>3 DEF AlertsInv, AlertsTypeOK, Notice
    <3>5. LooksAreOld'
      <4> SUFFICES ASSUME NEW s \in Senders
                   PROVE  /\ sender[s].kind \in {"ending", "activity"} =>
                               \A i \in sender[s].seen :
                                 alert[i].kind = sender[s].kind =>
                                   alert[i].at + Window[sender[s].kind] <= minute + 1
                          /\ sender[s].kind = "ending" => minute + 1 >= EndsAt - Soon
        BY <3>1 DEF LooksAreOld
      <4>1. /\ minute \in Nat /\ EndsAt - Soon \in Int
            /\ sender[s].seen \subseteq DOMAIN alert
        BY <3>1, AlertBounds DEF AlertsInv, AlertsTypeOK, NoAlert
      <4>2. \A i \in DOMAIN alert : alert[i].at \in Nat
        BY StoredAtSomeTime
      <4>3. sender[s].kind \in {"ending", "activity"} => Window[sender[s].kind] \in Nat
        BY WindowsAreTimes DEF Kinds
      <4> QED BY <4>1, <4>2, <4>3 DEF AlertsInv, LooksAreOld
    <3> QED BY <3>1, <3>4, <3>5 DEF AlertsInv, RepeatsOverlap
  <2>2. ASSUME NEW s \in Senders,
               EndingSoon(s) \/ BidActivity(s) \/ Overtaken(s)
        PROVE  AlertsInv'
    BY <2>2, LooksKeeps DEF EndingSoon, BidActivity, Overtaken, Kinds
  <2>3. ASSUME NEW s \in Senders, Stores(s) PROVE AlertsInv'
    BY <2>3, StoresKeeps
  <2>4. ASSUME NEW s \in Senders, StoreFails(s) PROVE AlertsInv'
    BY <2>4 DEF StoreFails, AlertsInv, AlertsTypeOK, RepeatsOverlap, LooksAreOld, NoAlert
  <2>5. CASE UNCHANGED alertVars
    BY <2>5 DEF alertVars, AlertsInv, AlertsTypeOK, RepeatsOverlap, LooksAreOld
  <2> QED BY <2>1, <2>2, <2>3, <2>4, <2>5 DEF AlertsNext
<1> QED BY <1>1, <1>2, PTL DEF AlertsSpec

-----------------------------------------------------------------------------
(* A sender never tells of a notification that is not there, and an auction is *)
(* told to be about to end only when it is.                                    *)
THEOREM AlertsTyped == AlertsSpec => []AlertsTypeOK
<1>1. AlertsInv => AlertsTypeOK
  BY DEF AlertsInv
<1> QED BY <1>1, AlertsInvariant, PTL

(* However many instances run the job and however many bids come at a time,    *)
(* only those that looked before a notification was stored can repeat it       *)
(* within its window.                                                          *)
THEOREM OnlyOverlapsRepeat == AlertsSpec => []RepeatsOverlap
<1>1. AlertsInv => RepeatsOverlap
  BY DEF AlertsInv
<1> QED BY <1>1, AlertsInvariant, PTL


(***************************************************************************)
(* The images of the auctions' forms.                                      *)
(***************************************************************************)
On == {"listed", "bid"}
ItemRow == [on : {"absent", "listed", "bid", "gone"}, image : Images]
FormRow == [for : {"none", "create", "edit", "delete"}, of : Images,
            image : Images, new : BOOLEAN, step : FormSteps]

(* How far a form with an image of its own can be, and which forms have one.   *)
FormsInOrder ==
  \A f \in Forms :
    /\ form[f].new => /\ form[f].step \notin {"none", "open", "uploading", "unfit"}
                      /\ form[f].for \in {"create", "edit"}
                      /\ form[f].image # 0
    /\ form[f].step \in {"uploading", "uploaded"} => form[f].for \in {"create", "edit"}
    /\ form[f].step \in {"uploaded", "removing"} => form[f].new
    /\ form[f].for = "create" /\ form[f].step = "sending" => form[f].new

(* Images and rows are numbered as they are uploaded.                          *)
Numbered ==
  /\ \A a \in Images : item[a].on = "absent" => item[a].image = a
  /\ \A a \in Images : item[a].on # "absent" => a <= uploads /\ item[a].image <= uploads
  /\ \A f \in Forms : form[f].image <= uploads

(* Nothing shows an image whose form was not accepted, no edit starts from it, *)
(* and the row that is to be created with it is not there.                     *)
Unaccepted(f) ==
  form[f].new /\ form[f].step \in {"uploaded", "sending", "refused", "removing"}
Unshown ==
  \A f \in Forms : Unaccepted(f) /\ form[f].image \notin astray =>
    /\ \A a \in Images : item[a].on \in On => item[a].image # form[f].image
    /\ \A g \in Forms : form[g].for = "edit" /\ ~form[g].new => form[g].image # form[f].image
Uncreated ==
  \A f \in Forms :
    form[f].for = "create" /\ form[f].new /\ form[f].step \in {"uploaded", "sending"}
      => item[form[f].image].on = "absent"

(* What a form is going to have shown is in the storage.                       *)
SentIsStored ==
  \A f \in Forms :
    /\ form[f].new /\ form[f].step \in {"uploaded", "sending"} => form[f].image \in stored
    /\ form[f].for = "edit" /\ ~form[f].new => form[f].image \in stored \cup astray

(* An accepted image is shown, or was until an edit or a deletion.             *)
Shown(i) == \E a \in Images : item[a].on \in On /\ item[a].image = i
AcceptedIsShown ==
  \A f \in Forms : form[f].new /\ form[f].step = "accepted" =>
    Shown(form[f].image) \/ form[f].image \in replaced \cup astray

Rest == /\ FormsInOrder /\ Numbered /\ Unshown /\ Uncreated
        /\ SentIsStored /\ AcceptedIsShown
ListingInv == ListingTypeOK /\ ListedHasImage /\ OrphansHaveReasons /\ Rest

-----------------------------------------------------------------------------
(* What the type invariant says of one form and one row.                       *)
LEMMA ListingTypes ==
  ASSUME ListingTypeOK
  PROVE  /\ uploads \in Nat /\ MaxUploads \in Nat /\ lapses \in Nat /\ MaxLapses \in Nat
         /\ item \in [Images -> ItemRow] /\ form \in [Forms -> FormRow]
         /\ Images \subseteq Nat /\ 0 \in Images
BY ListingBounds DEF ListingTypeOK, ItemRow, FormRow, Images

(* A form that takes a step and nothing else.                                  *)
LEMMA StepsOnly ==
  ASSUME ListingTypeOK, NEW f \in Forms, NEW step \in FormSteps, Steps(f, step)
  PROVE  /\ form' \in [Forms -> FormRow]
         /\ form'[f].step = step
         /\ \A g \in Forms : /\ form'[g].for = form[g].for /\ form'[g].of = form[g].of
                             /\ form'[g].image = form[g].image /\ form'[g].new = form[g].new
                             /\ g # f => form'[g] = form[g]
<1>1. form \in [Forms -> FormRow] /\ form' = [form EXCEPT ![f].step = step]
  BY ListingTypes DEF Steps
<1> QED BY <1>1 DEF FormRow

(* A new form, opened for a new auction or from one that is there.             *)
LEMMA OpensKeep ==
  ASSUME ListingInv, NEW f \in Forms, NEW new,
         new \in FormRow, new.step = "open", ~new.new,
         new.image = 0 \/ new.image <= uploads,
         new.for = "edit" => Shown(new.image),
         form[f] = NoForm, form' = [form EXCEPT ![f] = new],
         UNCHANGED <<stored, item, uploads, lapses, replaced, astray>>
  PROVE  ListingInv'
<1>0. /\ uploads \in Nat /\ form \in [Forms -> FormRow]
      /\ ListingTypeOK /\ ListedHasImage /\ OrphansHaveReasons
      /\ FormsInOrder /\ Numbered /\ Unshown /\ Uncreated /\ SentIsStored /\ AcceptedIsShown
  BY ListingTypes DEF ListingInv, Rest
<1>1. /\ form' \in [Forms -> FormRow] /\ form'[f] = new
      /\ \A g \in Forms : g # f => form'[g] = form[g]
      /\ ~form[f].new
  BY <1>0 DEF NoForm
<1>2. ListingTypeOK'
  BY <1>0, <1>1 DEF ListingTypeOK, FormRow
<1>3. ListedHasImage'
  BY <1>0 DEF ListedHasImage
<1>4. OrphansHaveReasons'
  BY <1>0, <1>1 DEF OrphansHaveReasons, OnItsWay
<1>5. FormsInOrder' /\ Numbered'
  BY <1>0, <1>1 DEF FormsInOrder, Numbered
<1>6. Unshown'
  BY <1>0, <1>1 DEF Unshown, Unaccepted, Shown
<1>7. Uncreated' /\ AcceptedIsShown'
  BY <1>0, <1>1 DEF Uncreated, AcceptedIsShown, Shown
<1>8. SentIsStored'
  BY <1>0, <1>1 DEF SentIsStored, Shown, ListedHasImage, On
<1> QED BY <1>2, <1>3, <1>4, <1>5, <1>6, <1>7, <1>8 DEF ListingInv, Rest

(* A form that goes on, while rows and storage stay: to be sent, answered or   *)
(* given up, and then its image is noted as astray unless another step is to   *)
(* remove it or it was never shown.                                            *)
LEMMA GoesOnKeeps ==
  ASSUME ListingInv, NEW f \in Forms, NEW step \in FormSteps, Steps(f, step),
         UNCHANGED <<stored, item, uploads, replaced>>, lapses' \in 0 .. MaxLapses,
         astray' \in {astray, astray \cup {form[f].image}},
         form[f].new => step \notin {"none", "open", "uploading", "unfit"},
         step \in {"uploading", "uploaded"} => form[f].for \in {"create", "edit"},
         step \in {"uploaded", "removing"} => form[f].new,
         form[f].for = "create" /\ step = "sending" => form[f].new,
         form[f].new /\ step \in {"uploaded", "sending"} => form[f].step \in {"uploaded", "sending"},
         form[f].new /\ step \in {"refused", "removing"} =>
           Unaccepted(f) \/ form[f].image \in astray',
         form[f].new /\ step = "accepted" => form[f].step = "accepted",
         form[f].new /\ step = "over" => form[f].step \in {"accepted", "over"}
                                           \/ form[f].image \in astray'
  PROVE  ListingInv'
<1>0. /\ uploads \in Nat /\ form \in [Forms -> FormRow] /\ form[f].image \in Images
      /\ ListingTypeOK /\ ListedHasImage /\ OrphansHaveReasons
      /\ FormsInOrder /\ Numbered /\ Unshown /\ Uncreated /\ SentIsStored /\ AcceptedIsShown
  BY ListingTypes DEF ListingInv, Rest, FormRow
<1>1. /\ form' \in [Forms -> FormRow] /\ form'[f].step = step
      /\ \A g \in Forms : /\ form'[g].for = form[g].for /\ form'[g].of = form[g].of
                          /\ form'[g].image = form[g].image /\ form'[g].new = form[g].new
                          /\ g # f => form'[g] = form[g]
  BY <1>0, StepsOnly
<1>2. ListingTypeOK'
  <2>1. astray' \subseteq Images
    BY <1>0 DEF ListingTypeOK
  <2> QED BY <1>0, <1>1, <2>1 DEF ListingTypeOK, FormRow
<1>3. ListedHasImage'
  BY <1>0 DEF ListedHasImage
<1>4. OrphansHaveReasons'
  <2> SUFFICES ASSUME NEW i \in stored,
                      ~\E a \in Images : item[a].on \in On /\ item[a].image = i,
                      i \notin replaced \cup astray'
               PROVE  i \in OnItsWay'
    BY DEF OrphansHaveReasons, On
  <2>1. PICK g \in Forms : form[g].new /\ form[g].step # "over" /\ form[g].image = i
    BY <1>0 DEF OrphansHaveReasons, OnItsWay, On
  <2>2. CASE g # f
    BY <1>1, <2>1, <2>2 DEF OnItsWay
  <2>3. CASE g = f
    <3>1. form[f].step # "accepted"
      BY <1>0, <2>1, <2>3 DEF AcceptedIsShown, Shown
    <3>2. step # "over"
      BY <2>1, <2>3, <3>1
    <3> QED BY <1>1, <2>1, <2>3, <3>2 DEF OnItsWay
  <2> QED BY <2>2, <2>3
<1>5. FormsInOrder' /\ Numbered'
  BY <1>0, <1>1 DEF FormsInOrder, Numbered
<1>6. Unshown'
  BY <1>0, <1>1 DEF Unshown, Unaccepted
<1>7. Uncreated' /\ AcceptedIsShown'
  BY <1>0, <1>1 DEF Uncreated, AcceptedIsShown, Shown
<1>8. SentIsStored'
  BY <1>0, <1>1 DEF SentIsStored
<1> QED BY <1>2, <1>3, <1>4, <1>5, <1>6, <1>7, <1>8 DEF ListingInv, Rest

(* An image that is uploaded is one that nothing has had so far.               *)
LEMMA UploadKeeps ==
  ASSUME ListingInv, NEW f \in Forms, UploadServed(f)
  PROVE  ListingInv'
<1>0. /\ uploads \in Nat /\ form \in [Forms -> FormRow] /\ item \in [Images -> ItemRow]
      /\ MaxUploads \in Nat
      /\ ListingTypeOK /\ ListedHasImage /\ OrphansHaveReasons
      /\ FormsInOrder /\ Numbered /\ Unshown /\ Uncreated /\ SentIsStored /\ AcceptedIsShown
  BY ListingTypes DEF ListingInv, Rest
<1>1. form[f].step = "uploading" /\ ~form[f].new /\ form[f].for \in {"create", "edit"}
  BY <1>0 DEF UploadServed, FormsInOrder
<1>2. CASE Steps(f, "unfit") /\ StorageStays
  <2>1. lapses' \in 0 .. MaxLapses /\ UNCHANGED <<stored, item, uploads, replaced, astray>>
    BY <1>0, <1>2 DEF UploadServed, HistoryStays, StorageStays, ListingTypeOK
  <2> QED BY <1>1, <1>2, <2>1, GoesOnKeeps DEF FormSteps
<1>3. CASE /\ uploads < MaxUploads /\ uploads' = uploads + 1
           /\ stored' = stored \cup {NewImage}
           /\ form' = [form EXCEPT ![f].image = NewImage, ![f].new = TRUE,
                                   ![f].step = "uploaded"]
  <2> DEFINE n == uploads + 1
  <2>1. UNCHANGED <<item, lapses, replaced, astray>>
    BY DEF UploadServed, HistoryStays
  <2>2. n \in Images /\ n # 0 /\ NewImage = n
    BY <1>0, <1>3 DEF Images, NewImage
  <2>3. /\ form' \in [Forms -> FormRow]
        /\ form'[f].for = form[f].for /\ form'[f].of = form[f].of
        /\ form'[f].image = n /\ form'[f].new /\ form'[f].step = "uploaded"
        /\ \A g \in Forms : g # f => form'[g] = form[g]
    <3> DEFINE sent == [[[form[f] EXCEPT !.image = n] EXCEPT !.new = TRUE]
                          EXCEPT !.step = "uploaded"]
    <3>1. /\ sent \in FormRow /\ sent.for = form[f].for /\ sent.of = form[f].of
          /\ sent.image = n /\ sent.new /\ sent.step = "uploaded"
      BY <1>0, <2>2 DEF FormRow, FormSteps
    <3>2. form' = [form EXCEPT ![f] = sent]
      BY <1>0, <1>3, <2>2 DEF FormRow
    <3> HIDE DEF sent
    <3> QED BY <1>0, <3>1, <3>2
  <2>4. /\ \A g \in Forms : form[g].image # n /\ form[g].image \in Nat
        /\ \A a \in Images : item[a].on # "absent" => item[a].image # n
        /\ item[n].on = "absent"
    BY <1>0, <2>2 DEF Numbered, FormRow, Images, ItemRow
  <2> HIDE DEF n
  <2>5. ListingTypeOK'
    BY <1>0, <1>3, <2>1, <2>2, <2>3, <2>4 DEF ListingTypeOK, FormRow
  <2>6. ListedHasImage'
    BY <1>0, <1>3, <2>1 DEF ListedHasImage
  <2>7. OrphansHaveReasons'
    <3> SUFFICES ASSUME NEW i \in stored',
                        ~\E a \in Images : item[a].on \in {"listed", "bid"} /\ item[a].image = i,
                        i \notin replaced \cup astray
                 PROVE  i \in OnItsWay'
      BY <2>1 DEF OrphansHaveReasons
    <3>1. CASE i = n
      BY <2>3, <3>1 DEF OnItsWay
    <3>2. CASE i # n
      <4>1. i \in stored /\ i \in OnItsWay
        BY <1>0, <1>3, <2>2, <3>2 DEF OrphansHaveReasons
      <4>2. PICK g \in Forms : form[g].new /\ form[g].step # "over" /\ form[g].image = i
        BY <4>1 DEF OnItsWay
      <4> QED BY <1>1, <2>3, <4>2 DEF OnItsWay
    <3> QED BY <3>1, <3>2
  <2>8. FormsInOrder'
    BY <1>0, <1>1, <2>2, <2>3 DEF FormsInOrder
  <2>9. Numbered'
    <3>1. uploads' = uploads + 1 /\ n = uploads + 1
      BY <1>3 DEF n
    <3>2. \A a \in Images : a \in Nat /\ item[a].image \in Nat
      BY <1>0 DEF Images, ItemRow
    <3> QED BY <1>0, <2>1, <2>3, <2>4, <3>1, <3>2 DEF Numbered
  <2>10. Unshown'
    BY <1>0, <1>1, <2>1, <2>3, <2>4 DEF Unshown, Unaccepted, On
  <2>11. Uncreated'
    BY <1>0, <2>1, <2>3, <2>4 DEF Uncreated
  <2>12. SentIsStored'
    BY <1>0, <1>3, <2>1, <2>2, <2>3 DEF SentIsStored
  <2>13. AcceptedIsShown'
    BY <1>0, <2>1, <2>3 DEF AcceptedIsShown, Shown
  <2> QED BY <2>5, <2>6, <2>7, <2>8, <2>9, <2>10, <2>11, <2>12, <2>13 DEF ListingInv, Rest
<1> QED BY <1>2, <1>3 DEF UploadServed

(* Only what was not accepted, or what a lost answer hides, is removed.        *)
LEMMA RemoveKeeps ==
  ASSUME ListingInv, NEW f \in Forms, RemoveServed(f)
  PROVE  ListingInv'
<1>0. /\ uploads \in Nat /\ form \in [Forms -> FormRow] /\ form[f].image \in Images
      /\ lapses \in 0 .. MaxLapses /\ lapses \in Nat /\ MaxLapses \in Nat
      /\ ListingTypeOK /\ ListedHasImage /\ OrphansHaveReasons
      /\ FormsInOrder /\ Numbered /\ Unshown /\ Uncreated /\ SentIsStored /\ AcceptedIsShown
  BY ListingTypes DEF ListingInv, Rest, FormRow, ListingTypeOK
<1>1. /\ form[f].step = "removing" /\ form[f].new /\ Steps(f, "over")
      /\ UNCHANGED <<item, uploads, replaced>>
  BY <1>0 DEF RemoveServed, FormsInOrder
<1>2. CASE Lapse /\ astray' = astray \cup {form[f].image} /\ UNCHANGED stored
  <2>1. lapses' \in 0 .. MaxLapses
    BY <1>0, <1>2 DEF Lapse
  <2> QED BY <1>1, <1>2, <2>1, GoesOnKeeps DEF FormSteps
<1>3. CASE stored' = stored \ {form[f].image} /\ UNCHANGED <<lapses, astray>>
  <2>1. /\ form' \in [Forms -> FormRow] /\ form'[f].step = "over"
        /\ \A g \in Forms : /\ form'[g].for = form[g].for /\ form'[g].of = form[g].of
                            /\ form'[g].image = form[g].image /\ form'[g].new = form[g].new
                            /\ g # f => form'[g] = form[g]
    BY <1>0, <1>1, StepsOnly DEF FormSteps
  <2>2. ListingTypeOK'
    BY <1>0, <1>1, <1>3, <2>1 DEF ListingTypeOK, FormRow
  <2>3. form[f].image \in astray \/
          /\ \A a \in Images : item[a].on \in On => item[a].image # form[f].image
          /\ \A g \in Forms : form[g].for = "edit" /\ ~form[g].new => form[g].image # form[f].image
    BY <1>0, <1>1 DEF Unshown, Unaccepted
  <2>4. ListedHasImage'
    BY <1>0, <1>1, <1>3, <2>3 DEF ListedHasImage, On
  <2>5. OrphansHaveReasons'
    <3> SUFFICES ASSUME NEW i \in stored', i \notin replaced \cup astray,
                        ~\E a \in Images : item[a].on \in {"listed", "bid"} /\ item[a].image = i
                 PROVE  i \in OnItsWay'
      BY <1>1, <1>3 DEF OrphansHaveReasons
    <3>1. i \in stored /\ i # form[f].image
      BY <1>3
    <3>2. PICK g \in Forms : form[g].new /\ form[g].step # "over" /\ form[g].image = i
      BY <1>0, <3>1 DEF OrphansHaveReasons, OnItsWay
    <3>3. g # f
      BY <3>1, <3>2
    <3> QED BY <2>1, <3>2, <3>3 DEF OnItsWay
  <2>6. FormsInOrder' /\ Numbered'
    BY <1>0, <1>1, <2>1 DEF FormsInOrder, Numbered
  <2>7. Unshown'
    BY <1>0, <1>1, <1>3, <2>1 DEF Unshown, Unaccepted
  <2>8. Uncreated' /\ AcceptedIsShown'
    BY <1>0, <1>1, <1>3, <2>1 DEF Uncreated, AcceptedIsShown, Shown
  <2>9. SentIsStored'
    <3>1. ASSUME NEW g \in Forms, form'[g].new, form'[g].step \in {"uploaded", "sending"}
          PROVE  form'[g].image \in stored'
      <4>1. g # f
        BY <2>1, <3>1
      <4>2. form[g].image # form[f].image
        BY <1>0, <1>1, <2>1, <3>1, <4>1 DEF ListingTypeOK
      <4> QED BY <1>0, <1>3, <2>1, <3>1, <4>1, <4>2 DEF SentIsStored
    <3>2. ASSUME NEW g \in Forms, form'[g].for = "edit", ~form'[g].new
          PROVE  form'[g].image \in stored' \cup astray'
      BY <1>0, <1>3, <2>1, <2>3, <3>2 DEF SentIsStored
    <3> QED BY <3>1, <3>2 DEF SentIsStored
  <2> QED BY <2>2, <2>4, <2>5, <2>6, <2>7, <2>8, <2>9 DEF ListingInv, Rest
<1> QED BY <1>2, <1>3 DEF RemoveServed

(* A change of the rows that an accepted form, or a bid, makes.                *)
LEMMA CreateKeeps ==
  ASSUME ListingInv, NEW f \in Forms, SendServed(f), Creates(f)
  PROVE  ListingInv'
<1>0. /\ uploads \in Nat /\ form \in [Forms -> FormRow] /\ item \in [Images -> ItemRow]
      /\ ListingTypeOK /\ ListedHasImage /\ OrphansHaveReasons
      /\ FormsInOrder /\ Numbered /\ Unshown /\ Uncreated /\ SentIsStored /\ AcceptedIsShown
  BY ListingTypes DEF ListingInv, Rest
<1> DEFINE i == form[f].image
<1>1. /\ form[f].step = "sending" /\ form[f].for = "create" /\ form[f].new
      /\ Steps(f, "accepted") /\ item' = [item EXCEPT ![i].on = "listed"]
      /\ UNCHANGED <<stored, uploads, lapses, replaced, astray>>
  BY <1>0 DEF SendServed, Creates, StorageStays, FormsInOrder
<1>2. i \in Images /\ i <= uploads /\ i \in stored /\ item[i].on = "absent" /\ item[i].image = i
  BY <1>0, <1>1 DEF FormRow, Numbered, SentIsStored, Uncreated
<1>3. /\ form' \in [Forms -> FormRow] /\ form'[f].step = "accepted"
      /\ \A g \in Forms : /\ form'[g].for = form[g].for /\ form'[g].of = form[g].of
                          /\ form'[g].image = form[g].image /\ form'[g].new = form[g].new
                          /\ g # f => form'[g] = form[g]
  BY <1>0, <1>1, StepsOnly DEF FormSteps
<1>4. /\ item' \in [Images -> ItemRow]
      /\ item'[i].on = "listed"
      /\ \A a \in Images : item'[a].image = item[a].image /\ (a # i => item'[a] = item[a])
  BY <1>0, <1>1, <1>2 DEF ItemRow
<1>5. \A g \in Forms : g # f /\ form[g].new => form[g].image # i
  BY <1>0, <1>1 DEF ListingTypeOK
<1> HIDE DEF i
<1>6. ListingTypeOK'
  BY <1>0, <1>1, <1>3, <1>4 DEF ListingTypeOK, FormRow, ItemRow
<1>7. ListedHasImage'
  BY <1>0, <1>1, <1>2, <1>4 DEF ListedHasImage
<1>8. OrphansHaveReasons'
  <2>1. \A a \in Images : item[a].on \in {"listed", "bid"} => a # i
    BY <1>2
  <2>2. OnItsWay \subseteq OnItsWay'
    BY <1>1, <1>3 DEF OnItsWay
  <2> QED BY <1>0, <1>1, <1>4, <2>1, <2>2 DEF OrphansHaveReasons
<1>9. FormsInOrder' /\ Numbered'
  <2>1. FormsInOrder'
    BY <1>0, <1>1, <1>3 DEF FormsInOrder
  <2>2. Numbered'
    BY <1>0, <1>1, <1>2, <1>3, <1>4 DEF Numbered
  <2> QED BY <2>1, <2>2
<1>10. Unshown'
  BY <1>0, <1>1, <1>2, <1>3, <1>4, <1>5 DEF Unshown, Unaccepted, On
<1>11. Uncreated'
  BY <1>0, <1>1, <1>3, <1>4, <1>5 DEF Uncreated
<1>12. SentIsStored'
  BY <1>0, <1>1, <1>3 DEF SentIsStored
<1>13. AcceptedIsShown'
  <2> DEFINE Seen(k) == \E a \in Images : item'[a].on \in On /\ item'[a].image = k
  <2>1. Seen(i)
    BY <1>2, <1>4 DEF On
  <2>2. \A k : Shown(k) => Seen(k)
    BY <1>2, <1>4 DEF Shown, On
  <2>3. i = form'[f].image
    BY <1>3 DEF i
  <2>4. ASSUME NEW g \in Forms, form'[g].new, form'[g].step = "accepted"
        PROVE  Seen(form'[g].image) \/ form'[g].image \in replaced' \cup astray'
    BY <1>0, <1>1, <1>3, <2>1, <2>2, <2>3, <2>4 DEF AcceptedIsShown
  <2> QED BY <2>4 DEF AcceptedIsShown, Shown
<1> QED BY <1>6, <1>7, <1>8, <1>9, <1>10, <1>11, <1>12, <1>13 DEF ListingInv, Rest

(* An edit shows what its form has; what it took the place of is replaced.     *)
LEMMA EditKeeps ==
  ASSUME ListingInv, NEW f \in Forms, SendServed(f), Edits(f)
  PROVE  ListingInv'
<1>0. /\ uploads \in Nat /\ form \in [Forms -> FormRow] /\ item \in [Images -> ItemRow]
      /\ ListingTypeOK /\ ListedHasImage /\ OrphansHaveReasons
      /\ FormsInOrder /\ Numbered /\ Unshown /\ Uncreated /\ SentIsStored /\ AcceptedIsShown
  BY ListingTypes DEF ListingInv, Rest
<1> DEFINE b == form[f].of
           i == form[f].image
<1>1. /\ form[f].step = "sending" /\ form[f].for = "edit" /\ item[b].on = "listed"
      /\ Steps(f, "accepted") /\ item' = [item EXCEPT ![b].image = i]
      /\ replaced' = replaced \cup ({item[b].image} \ {i})
      /\ UNCHANGED <<stored, uploads, lapses, astray>>
  BY DEF SendServed, Edits, StorageStays
<1>2. b \in Images /\ i \in Images /\ i <= uploads /\ i \in stored \cup astray
  BY <1>0, <1>1 DEF FormRow, Numbered, SentIsStored
<1>3. /\ form' \in [Forms -> FormRow] /\ form'[f].step = "accepted"
      /\ \A g \in Forms : /\ form'[g].for = form[g].for /\ form'[g].of = form[g].of
                          /\ form'[g].image = form[g].image /\ form'[g].new = form[g].new
                          /\ g # f => form'[g] = form[g]
  BY <1>0, <1>1, StepsOnly DEF FormSteps
<1>4. /\ item' \in [Images -> ItemRow]
      /\ item'[b].image = i /\ item'[b].on = "listed"
      /\ \A a \in Images : item'[a].on = item[a].on /\ (a # b => item'[a] = item[a])
  BY <1>0, <1>1, <1>2 DEF ItemRow
<1>5. \A g \in Forms : g # f /\ Unaccepted(g) /\ form[g].image \notin astray => form[g].image # i
  BY <1>0, <1>1 DEF ListingTypeOK, Unshown, Unaccepted
<1>6. item[b].image \in Images /\ form'[f].image = i
  BY <1>0, <1>2, <1>3 DEF ItemRow
<1> HIDE DEF b, i
<1>7. ListingTypeOK'
  BY <1>0, <1>1, <1>3, <1>4, <1>6 DEF ListingTypeOK, FormRow, ItemRow
<1>8. ListedHasImage'
  BY <1>0, <1>1, <1>2, <1>4 DEF ListedHasImage
<1>9. OrphansHaveReasons'
  <2>1. OnItsWay \subseteq OnItsWay'
    BY <1>1, <1>3 DEF OnItsWay
  <2> SUFFICES ASSUME NEW k \in stored, k \notin OnItsWay', k \notin replaced' \cup astray
               PROVE  \E a \in Images : item'[a].on \in {"listed", "bid"} /\ item'[a].image = k
    BY <1>1 DEF OrphansHaveReasons
  <2>2. PICK a \in Images : item[a].on \in {"listed", "bid"} /\ item[a].image = k
    BY <1>0, <1>1, <2>1 DEF OrphansHaveReasons
  <2>3. CASE a # b
    BY <1>4, <2>2, <2>3
  <2>4. CASE a = b
    <3>1. k = i
      BY <1>1, <2>2, <2>4
    <3> QED BY <1>2, <1>4, <3>1
  <2> QED BY <2>3, <2>4
<1>10. FormsInOrder'
  BY <1>0, <1>1, <1>3 DEF FormsInOrder
<1>11. Numbered'
  BY <1>0, <1>1, <1>2, <1>3, <1>4 DEF Numbered
<1>12. Unshown'
  BY <1>0, <1>1, <1>3, <1>4, <1>5 DEF Unshown, Unaccepted, On
<1>13. Uncreated'
  BY <1>0, <1>1, <1>3, <1>4 DEF Uncreated, FormRow
<1>14. SentIsStored'
  BY <1>0, <1>1, <1>3 DEF SentIsStored
<1>15. AcceptedIsShown'
  <2> DEFINE Seen(k) == \E a \in Images : item'[a].on \in On /\ item'[a].image = k
  <2>1. Seen(i)
    BY <1>2, <1>4 DEF On
  <2>2. ASSUME NEW k, Shown(k)
        PROVE  Seen(k) \/ k \in replaced'
    BY <1>1, <1>2, <1>4, <2>1, <2>2 DEF Shown, On
  <2>3. ASSUME NEW g \in Forms, form'[g].new, form'[g].step = "accepted"
        PROVE  Seen(form'[g].image) \/ form'[g].image \in replaced' \cup astray'
    BY <1>0, <1>1, <1>3, <1>6, <2>1, <2>2, <2>3 DEF AcceptedIsShown
  <2> QED BY <2>3 DEF AcceptedIsShown, Shown
<1> QED BY <1>7, <1>8, <1>9, <1>10, <1>11, <1>12, <1>13, <1>14, <1>15 DEF ListingInv, Rest

(* An auction that goes takes its image out of sight, and counts it replaced.  *)
LEMMA DeleteKeeps ==
  ASSUME ListingInv, NEW f \in Forms, SendServed(f), Deletes(f)
  PROVE  ListingInv'
<1>0. /\ uploads \in Nat /\ form \in [Forms -> FormRow] /\ item \in [Images -> ItemRow]
      /\ ListingTypeOK /\ ListedHasImage /\ OrphansHaveReasons
      /\ FormsInOrder /\ Numbered /\ Unshown /\ Uncreated /\ SentIsStored /\ AcceptedIsShown
  BY ListingTypes DEF ListingInv, Rest
<1> DEFINE b == form[f].of
<1>1. /\ form[f].step = "sending" /\ form[f].for = "delete" /\ item[b].on = "listed"
      /\ Steps(f, "accepted") /\ item' = [item EXCEPT ![b].on = "gone"]
      /\ replaced' = replaced \cup {item[b].image}
      /\ UNCHANGED <<stored, uploads, lapses, astray>>
  BY DEF SendServed, Deletes, StorageStays
<1>2. b \in Images /\ ~form[f].new
  BY <1>0, <1>1 DEF FormRow, FormsInOrder
<1>3. /\ form' \in [Forms -> FormRow] /\ form'[f].step = "accepted"
      /\ \A g \in Forms : /\ form'[g].for = form[g].for /\ form'[g].of = form[g].of
                          /\ form'[g].image = form[g].image /\ form'[g].new = form[g].new
                          /\ g # f => form'[g] = form[g]
  BY <1>0, <1>1, StepsOnly DEF FormSteps
<1>4. /\ item' \in [Images -> ItemRow]
      /\ item'[b].on = "gone"
      /\ \A a \in Images : item'[a].image = item[a].image /\ (a # b => item'[a] = item[a])
  BY <1>0, <1>1, <1>2 DEF ItemRow
<1>5. item[b].image \in Images
  BY <1>0, <1>2 DEF ItemRow
<1> HIDE DEF b
<1>6. ListingTypeOK'
  BY <1>0, <1>1, <1>3, <1>4, <1>5 DEF ListingTypeOK, FormRow, ItemRow
<1>7. ListedHasImage'
  BY <1>0, <1>1, <1>4 DEF ListedHasImage
<1>8. OrphansHaveReasons'
  <2>1. OnItsWay \subseteq OnItsWay'
    BY <1>1, <1>3 DEF OnItsWay
  <2> SUFFICES ASSUME NEW k \in stored, k \notin OnItsWay', k \notin replaced' \cup astray
               PROVE  \E a \in Images : item'[a].on \in {"listed", "bid"} /\ item'[a].image = k
    BY <1>1 DEF OrphansHaveReasons
  <2>2. PICK a \in Images : item[a].on \in {"listed", "bid"} /\ item[a].image = k
    BY <1>0, <1>1, <2>1 DEF OrphansHaveReasons
  <2> QED BY <1>1, <1>4, <2>2
<1>9. FormsInOrder'
  BY <1>0, <1>1, <1>2, <1>3 DEF FormsInOrder
<1>10. Numbered'
  BY <1>0, <1>1, <1>2, <1>3, <1>4 DEF Numbered
<1>11. Unshown'
  BY <1>0, <1>1, <1>3, <1>4 DEF Unshown, Unaccepted, On
<1>12. Uncreated'
  BY <1>0, <1>1, <1>3, <1>4 DEF Uncreated, FormRow
<1>13. SentIsStored'
  BY <1>0, <1>1, <1>3 DEF SentIsStored
<1>14. AcceptedIsShown'
  BY <1>0, <1>1, <1>2, <1>3, <1>4 DEF AcceptedIsShown, Shown, On
<1> QED BY <1>6, <1>7, <1>8, <1>9, <1>10, <1>11, <1>12, <1>13, <1>14 DEF ListingInv, Rest

LEMMA BidKeeps ==
  ASSUME ListingInv, NEW b \in Images, IsBidFor(b)
  PROVE  ListingInv'
<1>0. /\ uploads \in Nat /\ form \in [Forms -> FormRow] /\ item \in [Images -> ItemRow]
      /\ ListingTypeOK /\ ListedHasImage /\ OrphansHaveReasons
      /\ FormsInOrder /\ Numbered /\ Unshown /\ Uncreated /\ SentIsStored /\ AcceptedIsShown
  BY ListingTypes DEF ListingInv, Rest
<1>1. /\ item[b].on = "listed" /\ item' = [item EXCEPT ![b].on = "bid"]
      /\ UNCHANGED <<stored, form, uploads, lapses, replaced, astray>>
  BY DEF IsBidFor, StorageStays, HistoryStays
<1>2. /\ item' \in [Images -> ItemRow]
      /\ \A a \in Images : /\ item'[a].image = item[a].image
                          /\ (item'[a].on \in On <=> item[a].on \in On)
                          /\ (item'[a].on = "absent" <=> item[a].on = "absent")
  BY <1>0, <1>1 DEF ItemRow, On
<1>3. ListingTypeOK' /\ ListedHasImage'
  BY <1>0, <1>1, <1>2 DEF ListingTypeOK, ListedHasImage, ItemRow, On
<1>4. OrphansHaveReasons'
  BY <1>0, <1>1, <1>2 DEF OrphansHaveReasons, OnItsWay, On
<1>5. FormsInOrder' /\ Numbered' /\ SentIsStored'
  BY <1>0, <1>1, <1>2 DEF FormsInOrder, Numbered, SentIsStored
<1>6. Unshown' /\ Uncreated' /\ AcceptedIsShown'
  <2>1. Unshown'
    BY <1>0, <1>1, <1>2 DEF Unshown, Unaccepted
  <2>2. Uncreated'
    BY <1>0, <1>1, <1>2 DEF Uncreated, FormRow
  <2>3. AcceptedIsShown'
    BY <1>0, <1>1, <1>2 DEF AcceptedIsShown, Shown
  <2> QED BY <2>1, <2>2, <2>3
<1> QED BY <1>3, <1>4, <1>5, <1>6 DEF ListingInv, Rest

-----------------------------------------------------------------------------
LEMMA ListingStarts ==
  ASSUME ListingInit PROVE ListingInv
<1>1. /\ uploads = 0 /\ lapses = 0 /\ stored = {0} /\ replaced = {} /\ astray = {}
      /\ item = [a \in Images |-> [on |-> IF a = 0 THEN "listed" ELSE "absent", image |-> a]]
      /\ form = [f \in Forms |-> NoForm]
      /\ 0 \in Images /\ MaxLapses \in Nat /\ MaxUploads \in Nat
  BY ListingBounds DEF ListingInit, Images
<1>2. /\ item \in [Images -> ItemRow] /\ form \in [Forms -> FormRow]
  BY <1>1 DEF ItemRow, FormRow, NoForm, FormSteps
<1>3. ListingTypeOK
  BY <1>1, <1>2 DEF ListingTypeOK, ItemRow, FormRow, NoForm
<1>4. ListedHasImage /\ OrphansHaveReasons
  BY <1>1 DEF ListedHasImage, OrphansHaveReasons
<1>5. FormsInOrder /\ Numbered
  BY <1>1 DEF FormsInOrder, Numbered, NoForm, Images
<1>6. Unshown /\ Uncreated /\ SentIsStored /\ AcceptedIsShown
  <2>1. \A f \in Forms : ~form[f].new /\ form[f].for = "none"
    BY <1>1 DEF NoForm
  <2> QED BY <2>1 DEF Unshown, Unaccepted, Uncreated, SentIsStored, AcceptedIsShown
<1> QED BY <1>3, <1>4, <1>5, <1>6 DEF ListingInv, Rest

(* Every other call only takes its form a step on.                             *)
LEMMA CallsKeep ==
  ASSUME ListingInv, NEW f \in Forms,
         \/ SubmitsImage(f) \/ SubmitsAsItIs(f) \/ Confirms(f)
         \/ UploadLost(f) \/ UploadAnswered(f)
         \/ SendRefused(f) \/ SendLost(f) \/ SendAnswered(f) \/ RemoveLost(f)
  PROVE  ListingInv'
<1>0. /\ lapses \in 0 .. MaxLapses /\ MaxLapses \in Nat /\ FormsInOrder
      /\ form[f].new => /\ form[f].step \notin {"none", "open", "uploading", "unfit"}
                        /\ form[f].for \in {"create", "edit"}
      /\ form[f].step \in {"uploading", "uploaded"} => form[f].for \in {"create", "edit"}
      /\ form[f].step \in {"uploaded", "removing"} => form[f].new
  BY ListingTypes DEF ListingInv, Rest, ListingTypeOK, FormsInOrder
<1> USE <1>0 DEF FormSteps, StorageStays, HistoryStays, Lapse, Unaccepted
<1>1. CASE SubmitsImage(f)
  BY <1>1, GoesOnKeeps DEF SubmitsImage, Goes
<1>2. CASE SubmitsAsItIs(f)
  BY <1>2, GoesOnKeeps DEF SubmitsAsItIs, Goes
<1>3. CASE Confirms(f)
  BY <1>3, GoesOnKeeps DEF Confirms, Goes
<1>4. CASE UploadLost(f)
  BY <1>4, GoesOnKeeps DEF UploadLost
<1>5. CASE UploadAnswered(f)
  BY <1>5, GoesOnKeeps DEF UploadAnswered
<1>6. CASE SendRefused(f)
  BY <1>6, GoesOnKeeps DEF SendRefused
<1>7. CASE SendLost(f)
  BY <1>7, GoesOnKeeps DEF SendLost
<1>8. CASE SendAnswered(f)
  BY <1>8, GoesOnKeeps DEF SendAnswered, Afterwards
<1>9. CASE RemoveLost(f)
  BY <1>9, GoesOnKeeps DEF RemoveLost
<1> QED BY <1>1, <1>2, <1>3, <1>4, <1>5, <1>6, <1>7, <1>8, <1>9

LEMMA FormsOpen ==
  ASSUME ListingInv, NEW f \in Forms,
         OpensEmpty(f) \/ \E a \in Images : OpensEdit(f, a) \/ AsksToDelete(f, a)
  PROVE  ListingInv'
<1>0. /\ form \in [Forms -> FormRow] /\ item \in [Images -> ItemRow] /\ 0 \in Images
      /\ Numbered
  BY ListingTypes DEF ListingInv, Rest
<1>1. CASE OpensEmpty(f)
  <2> DEFINE new == [NoForm EXCEPT !.for = "create", !.step = "open"]
  <2>1. form' = [form EXCEPT ![f] = new] /\ form[f] = NoForm
    BY <1>0, <1>1 DEF OpensEmpty, FormRow, NoForm
  <2>2. new \in FormRow /\ new.step = "open" /\ ~new.new /\ new.image = 0 /\ new.for # "edit"
    BY <1>0 DEF NoForm, FormRow, FormSteps
  <2> HIDE DEF new
  <2> QED BY <1>1, <2>1, <2>2, OpensKeep DEF OpensEmpty, StorageStays, HistoryStays
<1>2. ASSUME NEW a \in Images, NEW for \in {"edit", "delete"}, OpensFor(f, a, for)
      PROVE  ListingInv'
  <2> DEFINE new == [for |-> for, of |-> a, image |-> item[a].image, new |-> FALSE, step |-> "open"]
  <2>1. form' = [form EXCEPT ![f] = new] /\ form[f] = NoForm
    BY <1>2 DEF OpensFor
  <2>2. /\ new \in FormRow /\ new.step = "open" /\ ~new.new
        /\ new.image <= uploads /\ Shown(new.image)
    BY <1>0, <1>2 DEF OpensFor, FormRow, FormSteps, ItemRow, Numbered, Shown, On
  <2> HIDE DEF new
  <2> QED BY <1>2, <2>1, <2>2, OpensKeep DEF OpensFor, StorageStays, HistoryStays
<1> QED BY <1>1, <1>2 DEF OpensEdit, AsksToDelete

(* The conjuncts of the invariant do not change while nothing does.            *)
LEMMA ListingRests ==
  ASSUME ListingInv, UNCHANGED listingVars PROVE ListingInv'
<1> USE DEF listingVars
<1>1. ListingTypeOK' /\ ListedHasImage' /\ OrphansHaveReasons'
  BY DEF ListingInv, ListingTypeOK, ListedHasImage, OrphansHaveReasons, OnItsWay
<1>2. FormsInOrder' /\ Numbered' /\ Uncreated'
  BY DEF ListingInv, Rest, FormsInOrder, Numbered, Uncreated
<1>3. Unshown' /\ SentIsStored' /\ AcceptedIsShown'
  BY DEF ListingInv, Rest, Unshown, Unaccepted, SentIsStored, AcceptedIsShown, Shown
<1> QED BY <1>1, <1>2, <1>3 DEF ListingInv, Rest

LEMMA ListingHolds == ListingSpec => []ListingInv
<1>1. ListingInit => ListingInv
  BY ListingStarts
<1>2. ListingInv /\ [ListingNext]_listingVars => ListingInv'
  <2> SUFFICES ASSUME ListingInv, ListingNext PROVE ListingInv'
    BY ListingRests
  <2>1. ASSUME NEW f \in Forms,
               OpensEmpty(f) \/ \E a \in Images : OpensEdit(f, a) \/ AsksToDelete(f, a)
        PROVE  ListingInv'
    BY <2>1, FormsOpen
  <2>2. ASSUME NEW f \in Forms,
               \/ SubmitsImage(f) \/ SubmitsAsItIs(f) \/ Confirms(f)
               \/ UploadLost(f) \/ UploadAnswered(f)
               \/ SendRefused(f) \/ SendLost(f) \/ SendAnswered(f) \/ RemoveLost(f)
        PROVE  ListingInv'
    BY <2>2, CallsKeep
  <2>3. ASSUME NEW f \in Forms, UploadServed(f) \/ RemoveServed(f)
        PROVE  ListingInv'
    BY <2>3, UploadKeeps, RemoveKeeps
  <2>4. ASSUME NEW f \in Forms, SendServed(f)
        PROVE  ListingInv'
    <3>1. Creates(f) \/ Edits(f) \/ Deletes(f)
      BY <2>4 DEF SendServed
    <3> QED BY <2>4, <3>1, CreateKeeps, EditKeeps, DeleteKeeps
  <2>5. ASSUME NEW a \in Images, IsBidFor(a)
        PROVE  ListingInv'
    BY <2>5, BidKeeps
  <2> QED BY <2>1, <2>2, <2>3, <2>4, <2>5 DEF ListingNext
<1> QED BY <1>1, <1>2, PTL DEF ListingSpec

(* The forms, the rows and the storage are what their kinds say, and no two    *)
(* forms have uploaded the same image.                                         *)
THEOREM ListingTyped == ListingSpec => []ListingTypeOK
<1>1. ListingInv => ListingTypeOK
  BY DEF ListingInv
<1> QED BY <1>1, ListingHolds, PTL

(* However many forms and dialogues cross, an auction's image is in the        *)
(* storage, and an image in the storage has an auction or a reason             *)
(* (auction.controller, upload.service, AuctionForm, MyAuctionsPage).          *)
THEOREM ImagesTracked == ListingSpec => []ImagesAreTracked
<1>1. ListingInv => ImagesAreTracked
  BY DEF ListingInv, ImagesAreTracked
<1> QED BY <1>1, ListingHolds, PTL

(***************************************************************************)
(* The lists of open auctions.                                             *)
(***************************************************************************)
(* The rows of a list, and those a list that goes on after its cursor has come to. *)
RowsOf(list) == {list.items[i] : i \in DOMAIN list.items}
Reached(sort, list, r) ==
  list.cursor = NoId \/ r = list.cursor \/ Before(sort, r, list.cursor)

Sorted(sort, items) ==
  \A i, j \in DOMAIN items : i < j => Before(sort, items[i], items[j])

RowsInv ==
  /\ row \in [Rows -> Row]
  /\ \A r \in Rows :
       /\ row[r].on => ~row[r].gone
       /\ row[r].made = 0 => ~row[r].on /\ ~row[r].gone

(* Ties count where the order descends: there the rows of T with one key come  *)
(* in any order, and only a row that has its key for itself has a place.       *)
Apart(sort, T, r) == Descending(sort) => Alone(sort, r, T)
NotBehind(sort, r, s) ==
  IF Descending(sort) THEN Key(sort, r) >= Key(sort, s) ELSE Key(sort, r) <= Key(sort, s)
Leads(sort, T, r, s) ==
  /\ NotBehind(sort, r, s)
  /\ Apart(sort, T, r) \/ Apart(sort, T, s) => Before(sort, r, s)
SortedIn(sort, T, items) ==
  \A i, j \in DOMAIN items : i < j => Leads(sort, T, items[i], items[j])

NewList(list) ==
  /\ SortedIn("newest", Rows, list.items)
  /\ \A r \in RowsOf(list) : row[r].made # 0
  /\ list.pages > 0 /\ ~list.cut
       => \A r \in list.steady :
            Apart("newest", Rows, r) /\ Reached("newest", list, r) => r \in RowsOf(list)

CalmList(q, list) ==
  list.pages > 0 /\ list.calm =>
    /\ SortedIn(q.sort, Selected(q), list.items)
    /\ RowsOf(list) \subseteq Selected(q)
    /\ \A r \in Selected(q) :
         Apart(q.sort, Selected(q), r) => (r \in RowsOf(list) <=> Reached(q.sort, list, r))

ListInv(q, list) ==
  /\ list \in List
  /\ list.pages = 0 => list = NoList
  /\ list.cursor # NoId =>
       /\ list.pages > 0 /\ list.items # <<>>
       /\ list.cursor = list.items[Len(list.items)]
  /\ list.steady \subseteq Selected(q)
  /\ q.sort = "newest" => NewList(list)
  /\ CalmList(q, list)

Lists(q) == {feed[q].now, feed[q].got}
Feed == [now : List, call : {"none", "next", "again"}, got : List, left : Nat]
FeedTyped ==
  feed \in [Queries -> Feed]
CallsInv ==
  \A q \in Queries :
    /\ feed[q].call = "next" => feed[q].now.cursor # NoId
    /\ feed[q].call = "again" => feed[q].got.pages = 0 \/ feed[q].got.cursor # NoId

CatalogInv ==
  /\ changes \in 0 .. MaxChanges /\ choices \in 0 .. MaxChoices /\ query \in Queries
  /\ RowsInv /\ FeedTyped /\ CallsInv
  /\ \A q \in Queries : \A list \in Lists(q) : ListInv(q, list)

-----------------------------------------------------------------------------
(* The order of a list                                                         *)

LEMMA KeysAreNat ==
  ASSUME row \in [Rows -> Row], NEW sort \in Sorts
  PROVE  Rows \subseteq Nat /\ \A r \in Rows : Key(sort, r) \in Nat
<1>1. ASSUME NEW r \in Rows
      PROVE  /\ row[r].made \in Nat /\ row[r].end \in Nat
             /\ row[r].bids \in Nat /\ row[r].price \in Nat
  BY DEF Row
<1>2. \A r \in Rows : Key(sort, r) \in {row[r].made, row[r].end, row[r].bids, row[r].price}
  BY Zenon DEF Key
<1>3. Cardinality(Rows) \in Nat
  BY RowsAreOrdered, FS_CardinalityType
<1> QED BY <1>1, <1>2, <1>3, RowsAreOrdered

(* It is total: equal keys are told apart by the ids.                          *)
LEMMA BeforeIsTotal ==
  ASSUME row \in [Rows -> Row], NEW sort \in Sorts
  PROVE  \A r, s, t \in Rows :
           /\ ~Before(sort, r, r)
           /\ r # s => Before(sort, r, s) \/ Before(sort, s, r)
           /\ Before(sort, r, s) /\ Before(sort, s, t) => Before(sort, r, t)
<1> USE KeysAreNat
<1>1. CASE Descending(sort)
  BY <1>1 DEF Before
<1>2. CASE ~Descending(sort)
  BY <1>2 DEF Before
<1> QED BY <1>1, <1>2

(* How many of the rows of a set come before one of them tells which it is.    *)
Earlier(sort, S, r) == {s \in S : Before(sort, s, r)}

LEMMA RankTells ==
  ASSUME row \in [Rows -> Row], NEW sort \in Sorts, NEW S \in SUBSET Rows
  PROVE  \A r, s \in S :
           /\ Cardinality(Earlier(sort, S, r)) \in 0 .. Cardinality(S) - 1
           /\ Before(sort, r, s)
                => Cardinality(Earlier(sort, S, r)) < Cardinality(Earlier(sort, S, s))
           /\ Cardinality(Earlier(sort, S, r)) = Cardinality(Earlier(sort, S, s)) => r = s
<1>1. IsFiniteSet(S) /\ \A T \in SUBSET S : IsFiniteSet(T) /\ Cardinality(T) \in Nat
  BY FS_Subset, FS_CardinalityType, RowsAreOrdered
<1>2. ASSUME NEW r \in S, NEW T \in SUBSET S, r \in T, Earlier(sort, S, r) \subseteq T
      PROVE  Cardinality(Earlier(sort, S, r)) < Cardinality(T)
  <2>1. r \notin Earlier(sort, S, r)
    BY BeforeIsTotal DEF Earlier
  <2>2. Earlier(sort, S, r) \in SUBSET T /\ IsFiniteSet(T)
    BY <1>1, <1>2
  <2>3. /\ Cardinality(Earlier(sort, S, r)) <= Cardinality(T)
        /\ Cardinality(T) = Cardinality(Earlier(sort, S, r)) => T = Earlier(sort, S, r)
    BY <2>2, FS_Subset
  <2>4. Cardinality(T) \in Nat /\ Cardinality(Earlier(sort, S, r)) \in Nat
    BY <1>1, <2>2
  <2> QED BY <1>2, <2>1, <2>3, <2>4
<1>3. ASSUME NEW r \in S
      PROVE  /\ Cardinality(Earlier(sort, S, r)) \in Nat
             /\ Cardinality(Earlier(sort, S, r)) < Cardinality(S)
  BY <1>1, <1>2 DEF Earlier
<1>4. ASSUME NEW r \in S, NEW s \in S, Before(sort, r, s)
      PROVE  Cardinality(Earlier(sort, S, r)) < Cardinality(Earlier(sort, S, s))
  <2>1. Earlier(sort, S, r) \subseteq Earlier(sort, S, s)
    BY <1>4, BeforeIsTotal DEF Earlier
  <2>2. r \in Earlier(sort, S, s) /\ Earlier(sort, S, s) \in SUBSET S
    BY <1>4 DEF Earlier
  <2> QED BY <1>2, <2>1, <2>2
<1>5. ASSUME NEW r \in S, NEW s \in S, r # s,
             Cardinality(Earlier(sort, S, r)) = Cardinality(Earlier(sort, S, s))
      PROVE  FALSE
  <2>1. Before(sort, r, s) \/ Before(sort, s, r)
    BY <1>5, BeforeIsTotal
  <2> QED BY <1>3, <1>4, <1>5, <2>1
<1>6. Cardinality(S) \in Nat
  BY <1>1
<1> QED BY <1>3, <1>4, <1>5, <1>6

(* Ordered lists every row of the set once, in the order.                      *)
LEMMA OrderedLists ==
  ASSUME row \in [Rows -> Row], NEW sort \in Sorts, NEW S \in SUBSET Rows
  PROVE  LET o == Ordered(sort, S)
         IN  /\ o \in Seq(S) /\ Len(o) = Cardinality(S)
             /\ Sorted(sort, o)
             /\ {o[i] : i \in DOMAIN o} = S
<1> DEFINE n == Cardinality(S)
           o == Ordered(sort, S)
           rank == [r \in S |-> Cardinality(Earlier(sort, S, r)) + 1]
<1>1. n \in Nat /\ IsFiniteSet(S)
  BY FS_Subset, FS_CardinalityType, RowsAreOrdered
<1>2. \A r \in S : rank[r] \in 1 .. n
  BY <1>1, RankTells
<1>3. rank \in Injection(S, 1 .. n)
  BY <1>1, <1>2, RankTells DEF Injection, IsInjective
<1>4. IsFiniteSet(1 .. n) /\ Cardinality(1 .. n) = n
  BY <1>1, FS_Interval
<1>5. rank \in Surjection(S, 1 .. n)
  BY <1>1, <1>3, <1>4, FS_Injection
<1>6. \A i \in 1 .. n : \E r \in S : Cardinality(Earlier(sort, S, r)) = i - 1
  <2>1. \A i \in 1 .. n : \E r \in S : rank[r] = i
    BY <1>5 DEF Surjection
  <2>2. \A r \in S : Cardinality(Earlier(sort, S, r)) \in Nat
    BY RankTells
  <2> QED BY <1>1, <2>1, <2>2
<1>7. /\ DOMAIN o = 1 .. n
      /\ \A i \in 1 .. n : o[i] = CHOOSE r \in S : Cardinality(Earlier(sort, S, r)) = i - 1
  BY DEF Ordered, Earlier
<1>8. \A i \in 1 .. n : o[i] \in S /\ Cardinality(Earlier(sort, S, o[i])) = i - 1
  <2> HIDE DEF n, o
  <2> QED BY <1>6, <1>7
<1>9. o \in [1 .. n -> S]
  <2>1. o = [i \in 1 .. n |-> CHOOSE r \in S : Cardinality(Earlier(sort, S, r)) = i - 1]
    BY DEF Ordered, Earlier
  <2>2. \A i \in 1 .. n : (CHOOSE r \in S : Cardinality(Earlier(sort, S, r)) = i - 1) \in S
    BY <1>6, Zenon
  <2> HIDE DEF o, n
  <2> QED BY <2>1, <2>2, Zenon
<1> HIDE DEF n, o, rank
<1>10. o \in Seq(S) /\ Len(o) = n
  BY <1>1, <1>7, <1>8, <1>9
<1>11. Sorted(sort, o)
  <2>1. SUFFICES ASSUME NEW i \in 1 .. n, NEW j \in 1 .. n, i < j
                 PROVE  Before(sort, o[i], o[j])
    BY <1>7 DEF Sorted
  <2>2. o[i] # o[j]
    BY <1>1, <1>8, <2>1
  <2>3. ~Before(sort, o[j], o[i])
    <3>1. /\ Cardinality(Earlier(sort, S, o[i])) = i - 1
          /\ Cardinality(Earlier(sort, S, o[j])) = j - 1
      BY <1>8
    <3>2. ~(j - 1 < i - 1)
      BY <1>1, <2>1
    <3> QED BY <1>8, <3>1, <3>2, RankTells
  <2> QED BY <1>8, <2>2, <2>3, BeforeIsTotal
<1>12. {o[i] : i \in DOMAIN o} = S
  <2>1. ASSUME NEW r \in S PROVE \E i \in 1 .. n : o[i] = r
    <3>1. rank[r] \in 1 .. n /\ rank[r] = Cardinality(Earlier(sort, S, r)) + 1
      BY <1>2 DEF rank
    <3>2. Cardinality(Earlier(sort, S, r)) \in Nat
      BY RankTells
    <3>3. Cardinality(Earlier(sort, S, o[rank[r]])) = Cardinality(Earlier(sort, S, r))
      BY <1>8, <3>1, <3>2
    <3>4. o[rank[r]] = r
      BY <1>8, <3>1, <3>3, RankTells
    <3> QED BY <3>1, <3>4
  <2> QED BY <1>7, <1>8, <2>1
<1> QED BY <1>10, <1>11, <1>12 DEF n, o

(* ... and is the only list that does.                                         *)
LEMMA OneOrder ==
  ASSUME row \in [Rows -> Row], NEW sort \in Sorts, NEW S \in SUBSET Rows,
         NEW s \in Seq(Rows), Sorted(sort, s), {s[i] : i \in DOMAIN s} = S
  PROVE  s = Ordered(sort, S)
<1> DEFINE m == Len(s)
           f == [i \in 1 .. m |-> s[i]]
<1>1. m \in Nat /\ DOMAIN s = 1 .. m /\ \A i \in 1 .. m : s[i] \in S
  BY LenProperties
<1>2. ASSUME NEW i \in 1 .. m, NEW j \in 1 .. m, s[i] = s[j]
      PROVE  i = j
  <2>1. s[i] \in Rows /\ ~Before(sort, s[i], s[j])
    BY <1>1, <1>2, BeforeIsTotal
  <2>2. ~(i < j) /\ ~(j < i)
    BY <1>1, <1>2, <2>1 DEF Sorted
  <2> QED BY <1>1, <2>2
<1>3. ASSUME NEW k \in 0 .. m
      PROVE  Cardinality({s[j] : j \in 1 .. k}) = k
  <2> DEFINE T == {s[j] : j \in 1 .. k}
             g == [j \in 1 .. k |-> s[j]]
  <2>1. k \in Nat /\ 1 .. k \subseteq 1 .. m
    BY <1>1, <1>3
  <2>2. g \in Bijection(1 .. k, T)
    BY <1>2, <2>1 DEF Bijection, Injection, Surjection, IsInjective
  <2>3. ExistsBijection(1 .. k, T)
    BY <2>2 DEF ExistsBijection
  <2> QED BY <2>1, <2>3, FS_CountingElements
<1>4. Cardinality(S) = m
  <2>1. m \in 0 .. m /\ {s[j] : j \in 1 .. m} = S
    BY <1>1
  <2> QED BY <1>3, <2>1
<1>5. ASSUME NEW i \in 1 .. m
      PROVE  Cardinality(Earlier(sort, S, s[i])) = i - 1
  <2>1. Earlier(sort, S, s[i]) = {s[j] : j \in 1 .. i - 1}
    <3>1. ASSUME NEW j \in 1 .. m
          PROVE  Before(sort, s[j], s[i]) <=> j < i
      <4>1. s[i] \in Rows /\ s[j] \in Rows
        BY <1>1
      <4>2. CASE j < i
        BY <1>1, <4>2 DEF Sorted
      <4>3. CASE j = i
        BY <1>1, <4>1, <4>3, BeforeIsTotal
      <4>4. CASE i < j
        <5>1. Before(sort, s[i], s[j])
          BY <1>1, <4>4 DEF Sorted
        <5>2. ~Before(sort, s[j], s[i])
          BY <4>1, <5>1, BeforeIsTotal
        <5> QED BY <1>1, <4>4, <5>2
      <4> QED BY <1>1, <4>2, <4>3, <4>4
    <3>2. S = {s[j] : j \in 1 .. m}
      BY <1>1
    <3>3. \A j \in 1 .. i - 1 : j \in 1 .. m /\ j < i
      BY <1>1
    <3>4. \A j \in 1 .. m : j < i => j \in 1 .. i - 1
      BY <1>1
    <3>5. Earlier(sort, S, s[i]) \subseteq {s[j] : j \in 1 .. i - 1}
      BY <3>1, <3>2, <3>4 DEF Earlier
    <3>6. {s[j] : j \in 1 .. i - 1} \subseteq Earlier(sort, S, s[i])
      BY <3>1, <3>2, <3>3 DEF Earlier
    <3> QED BY <3>5, <3>6
  <2>2. i - 1 \in 0 .. m
    BY <1>1
  <2> QED BY <1>3, <2>1, <2>2
<1>6. ASSUME NEW i \in 1 .. m
      PROVE  s[i] = CHOOSE r \in S : Cardinality(Earlier(sort, S, r)) = i - 1
  <2>1. \A r \in S : Cardinality(Earlier(sort, S, r)) = i - 1 => r = s[i]
    BY <1>1, <1>5, RankTells
  <2> QED BY <1>1, <1>5, <2>1
<1> DEFINE o == Ordered(sort, S)
<1>7. o \in Seq(S) /\ Len(o) = m
  BY <1>4, OrderedLists
<1>8. \A i \in 1 .. m : o[i] = CHOOSE r \in S : Cardinality(Earlier(sort, S, r)) = i - 1
  BY <1>4 DEF Ordered, Earlier
<1>9. s \in Seq(S)
  BY <1>1
<1> HIDE DEF o
<1>10. s = o
  BY <1>6, <1>7, <1>8, <1>9, SeqEqual
<1> QED BY <1>10 DEF o

-----------------------------------------------------------------------------
(* A page                                                                      *)

QueryType == [sort : Sorts, among : SUBSET Rows]
Found(q, cursor) == {r \in Selected(q) : cursor = NoId \/ Beyond(q.sort, r, cursor)}

(* It has the first of the rows that are left, and its cursor is its last row. *)
LEMMA PageShows ==
  ASSUME row \in [Rows -> Row], NEW q \in QueryType, NEW cursor,
         NEW items, NEW next, Page(q, cursor) = [items |-> items, next |-> next]
  PROVE  /\ items \in Seq(Rows) /\ next \in Rows \cup {NoId}
         /\ Sorted(q.sort, items)
         /\ {items[i] : i \in DOMAIN items} =
              {r \in Found(q, cursor) : next = NoId \/ r = next \/ Before(q.sort, r, next)}
         /\ next # NoId => items # <<>> /\ next = items[Len(items)]
<1> DEFINE F == Found(q, cursor)
           found == Ordered(q.sort, F)
<1>1. q.sort \in Sorts /\ F \in SUBSET Rows
  BY DEF Found, Selected, QueryType
<1> HIDE DEF F
<1>2. /\ found \in Seq(F) /\ Sorted(q.sort, found)
      /\ {found[i] : i \in DOMAIN found} = F
  BY <1>1, OrderedLists
<1>3. /\ items = IF Len(found) > PageSize THEN SubSeq(found, 1, PageSize) ELSE found
      /\ next = IF Len(found) > PageSize THEN items[PageSize] ELSE NoId
  <2> DEFINE more == Len(found) > PageSize
             some == IF more THEN SubSeq(found, 1, PageSize) ELSE found
  <2>1. Page(q, cursor) = [items |-> some, next |-> IF more THEN some[PageSize] ELSE NoId]
    BY DEF Page, F, Found
  <2> HIDE DEF some, more
  <2>2. items = some /\ next = IF more THEN some[PageSize] ELSE NoId
    BY <2>1
  <2> QED BY <2>2 DEF some, more
<1> HIDE DEF found
<1>4. /\ Len(found) \in Nat /\ DOMAIN found = 1 .. Len(found)
      /\ \A i \in 1 .. Len(found) : found[i] \in F
  BY <1>2, LenProperties, ElementOfSeq
<1>5. NoId \notin F
  BY <1>1, RowsAreOrdered
<1>6. CASE ~(Len(found) > PageSize)
  <2>1. items = found /\ next = NoId
    BY <1>3, <1>6
  <2>2. items \in Seq(Rows)
    BY <1>1, <1>2, <2>1
  <2> QED BY <1>2, <2>1, <2>2 DEF F
<1>7. CASE Len(found) > PageSize
  <2>1. PageSize \in 1 .. Len(found)
    BY <1>4, <1>7, PagesHaveRows
  <2>2. items = SubSeq(found, 1, PageSize)
    BY <1>3, <1>7
  <2>3. /\ items \in Seq(F) /\ Len(items) = PageSize
        /\ \A i \in 1 .. PageSize : items[i] = found[i]
    <3>1. /\ 1 <= 1 /\ PageSize \in 0 .. Len(found)
          /\ PageSize \in Nat
      BY <1>4, <2>1
    <3>2. \A i \in 1 .. PageSize : found[i] \in F
      BY <1>4, <2>1
    <3>3. items = [i \in 1 .. PageSize |-> found[i]]
      BY <1>2, <2>1, <2>2, <3>1
    <3> QED BY <3>1, <3>2, <3>3
  <2>4. DOMAIN items = 1 .. PageSize /\ items \in Seq(Rows)
    BY <1>1, <2>3
  <2>5. next = found[PageSize] /\ next \in F /\ next # NoId
    BY <1>3, <1>4, <1>5, <1>7, <2>1, <2>3, PagesHaveRows
  <2>6. Sorted(q.sort, items)
    BY <1>2, <1>4, <2>1, <2>3, <2>4 DEF Sorted
  <2>7. ASSUME NEW i \in 1 .. Len(found)
        PROVE  i \in 1 .. PageSize <=> found[i] = next \/ Before(q.sort, found[i], next)
    <3>1. found[i] \in Rows /\ next \in Rows
      BY <1>1, <1>4, <2>5
    <3>2. CASE i = PageSize
      BY <2>1, <2>5, <3>2
    <3>3. CASE i < PageSize
      <4>1. Before(q.sort, found[i], found[PageSize])
        BY <1>2, <1>4, <2>1, <3>3 DEF Sorted
      <4> QED BY <2>1, <2>5, <3>3, <4>1
    <3>4. CASE PageSize < i
      <4>1. Before(q.sort, found[PageSize], found[i])
        BY <1>2, <1>4, <2>1, <3>4 DEF Sorted
      <4>2. ~(found[i] = next) /\ ~Before(q.sort, found[i], next)
        BY <1>1, <2>5, <3>1, <4>1, BeforeIsTotal
      <4> QED BY <2>1, <3>4, <4>2
    <3> QED BY <2>1, <3>2, <3>3, <3>4
  <2>8. {items[i] : i \in DOMAIN items} =
          {r \in F : r = next \/ Before(q.sort, r, next)}
    <3>1. {items[i] : i \in DOMAIN items} = {found[i] : i \in 1 .. PageSize}
      BY <2>3, <2>4
    <3>2. {r \in F : r = next \/ Before(q.sort, r, next)} =
            {found[i] : i \in {j \in 1 .. Len(found) :
                                 found[j] = next \/ Before(q.sort, found[j], next)}}
      BY <1>2, <1>4
    <3>3. {j \in 1 .. Len(found) : found[j] = next \/ Before(q.sort, found[j], next)}
            = 1 .. PageSize
      BY <1>4, <2>1, <2>7
    <3> QED BY <3>1, <3>2, <3>3
  <2>9. next = items[Len(items)] /\ items # <<>>
    BY <2>1, <2>3, <2>5, PagesHaveRows
  <2> QED BY <1>1, <2>4, <2>5, <2>6, <2>8, <2>9 DEF F
<1> QED BY <1>6, <1>7

(* Whatever comes first of three rows leads the last, ties or not.             *)
LEMMA LeadsOn ==
  ASSUME row \in [Rows -> Row], NEW sort \in Sorts, NEW T \in SUBSET Rows,
         NEW r \in T, NEW s \in T, NEW t \in T,
         Leads(sort, T, r, s), Leads(sort, T, s, t)
  PROVE  Leads(sort, T, r, t)
<1>1. \A u \in T : Key(sort, u) \in Nat /\ u \in Nat
  BY KeysAreNat
<1>2. NotBehind(sort, r, s) /\ NotBehind(sort, s, t)
  BY DEF Leads
<1>3. NotBehind(sort, r, t)
  BY <1>1, <1>2 DEF NotBehind
<1>4. CASE ~Descending(sort)
  <2>1. Apart(sort, T, r) /\ Apart(sort, T, s)
    BY <1>4 DEF Apart
  <2>2. Before(sort, r, s) /\ Before(sort, s, t)
    BY <2>1 DEF Leads
  <2> QED BY <1>3, <2>2, BeforeIsTotal DEF Leads
<1>5. CASE Descending(sort)
  <2>1. ASSUME Apart(sort, T, r)
        PROVE  Before(sort, r, t)
    <3>1. Before(sort, r, s)
      BY <2>1 DEF Leads
    <3>2. r # s
      BY <3>1, BeforeIsTotal
    <3>3. Key(sort, r) # Key(sort, s)
      BY <1>5, <2>1, <3>2 DEF Apart, Alone
    <3>4. Key(sort, r) > Key(sort, s) /\ Key(sort, s) >= Key(sort, t)
      BY <1>1, <1>2, <1>5, <3>3 DEF NotBehind
    <3>5. Key(sort, r) > Key(sort, t)
      BY <1>1, <3>4
    <3> QED BY <1>5, <3>5 DEF Before
  <2>2. ASSUME Apart(sort, T, t)
        PROVE  Before(sort, r, t)
    <3>1. Before(sort, s, t)
      BY <2>2 DEF Leads
    <3>2. s # t
      BY <3>1, BeforeIsTotal
    <3>3. Key(sort, s) # Key(sort, t)
      BY <1>5, <2>2, <3>2 DEF Apart, Alone
    <3>4. Key(sort, r) >= Key(sort, s) /\ Key(sort, s) > Key(sort, t)
      BY <1>1, <1>2, <1>5, <3>3 DEF NotBehind
    <3>5. Key(sort, r) > Key(sort, t)
      BY <1>1, <3>4
    <3> QED BY <1>5, <3>5 DEF Before
  <2> QED BY <1>3, <2>1, <2>2 DEF Leads
<1> QED BY <1>4, <1>5

LEMMA BeforeLeads ==
  ASSUME row \in [Rows -> Row], NEW sort \in Sorts, NEW r \in Rows, NEW s \in Rows,
         Before(sort, r, s), NEW T
  PROVE  Leads(sort, T, r, s)
<1>1. Key(sort, r) \in Nat /\ Key(sort, s) \in Nat
  BY KeysAreNat
<1>2. NotBehind(sort, r, s)
  BY <1>1 DEF NotBehind, Before
<1> QED BY <1>2 DEF Leads

(* What the query goes on with after a cursor comes behind it, but for ties in *)
(* a descending order; and a row apart from them that comes behind is gone on  *)
(* with.                                                                       *)
LEMMA GoesOnBehind ==
  ASSUME row \in [Rows -> Row], NEW sort \in Sorts, NEW T \in SUBSET Rows,
         NEW r \in T, NEW cursor \in T
  PROVE  /\ Beyond(sort, r, cursor) => Leads(sort, T, cursor, r)
         /\ ~row[cursor].gone /\ Before(sort, cursor, r) /\ Apart(sort, T, r)
              => Beyond(sort, r, cursor)
<1>1. Key(sort, r) \in Nat /\ Key(sort, cursor) \in Nat /\ r \in Nat /\ cursor \in Nat
  BY KeysAreNat
<1>2. CASE ~Descending(sort)
  <2>1. Beyond(sort, r, cursor) => Before(sort, cursor, r)
    BY <1>1, <1>2 DEF Beyond, Before
  <2>2. ~row[cursor].gone /\ Before(sort, cursor, r) => Beyond(sort, r, cursor)
    BY <1>1, <1>2 DEF Beyond, Before
  <2> QED BY <2>1, <2>2, BeforeLeads
<1>3. CASE Descending(sort)
  <2>1. ASSUME Beyond(sort, r, cursor)
        PROVE  Leads(sort, T, cursor, r)
    <3>1. \/ Key(sort, r) < Key(sort, cursor)
          \/ Key(sort, r) = Key(sort, cursor) /\ r < cursor
      BY <1>3, <2>1 DEF Beyond
    <3>2. CASE Key(sort, r) < Key(sort, cursor)
      <4>1. Before(sort, cursor, r)
        BY <1>1, <1>3, <3>2 DEF Before
      <4> QED BY <4>1, BeforeLeads
    <3>3. CASE Key(sort, r) = Key(sort, cursor) /\ r < cursor
      <4>1. r # cursor
        BY <1>1, <3>3
      <4>2. ~Apart(sort, T, r) /\ ~Apart(sort, T, cursor)
        BY <1>3, <3>3, <4>1 DEF Apart, Alone
      <4>3. NotBehind(sort, cursor, r)
        BY <1>1, <1>3, <3>3 DEF NotBehind
      <4> QED BY <4>2, <4>3 DEF Leads
    <3> QED BY <3>1, <3>2, <3>3
  <2>2. ASSUME ~row[cursor].gone, Before(sort, cursor, r), Apart(sort, T, r)
        PROVE  Beyond(sort, r, cursor)
    <3>1. cursor # r
      BY <2>2, BeforeIsTotal
    <3>2. Key(sort, cursor) # Key(sort, r)
      BY <1>3, <2>2, <3>1 DEF Apart, Alone
    <3>3. Key(sort, r) < Key(sort, cursor)
      BY <1>1, <1>3, <2>2, <3>2 DEF Before
    <3> QED BY <1>3, <2>2, <3>3 DEF Beyond
  <2> QED BY <2>1, <2>2
<1> QED BY <1>2, <1>3

-----------------------------------------------------------------------------
(* The list grows                                                              *)

LEMMA Concats ==
  ASSUME NEW s \in Seq(Rows), NEW t \in Seq(Rows)
  PROVE  /\ s \o t \in Seq(Rows)
         /\ DOMAIN (s \o t) = 1 .. Len(s) + Len(t)
         /\ {(s \o t)[i] : i \in DOMAIN (s \o t)} =
              {s[i] : i \in DOMAIN s} \cup {t[i] : i \in DOMAIN t}
         /\ t # <<>> => s \o t # <<>> /\ (s \o t)[Len(s \o t)] = t[Len(t)]
<1> DEFINE u == s \o t
           m == Len(s)
           n == Len(t)
<1>1. m \in Nat /\ n \in Nat /\ DOMAIN s = 1 .. m /\ DOMAIN t = 1 .. n
  BY LenProperties
<1>2. /\ u \in Seq(Rows) /\ Len(u) = m + n
      /\ \A i \in 1 .. m + n : u[i] = IF i <= m THEN s[i] ELSE t[i - m]
  BY ConcatProperties
<1>3. DOMAIN u = 1 .. m + n
  BY <1>1, <1>2
<1> HIDE DEF u, m, n
<1>4. {u[i] : i \in DOMAIN u} = {s[i] : i \in DOMAIN s} \cup {t[i] : i \in DOMAIN t}
  <2>1. ASSUME NEW i \in 1 .. m
        PROVE  i \in 1 .. m + n /\ u[i] = s[i]
    BY <1>1, <1>2
  <2>2. ASSUME NEW i \in 1 .. n
        PROVE  i + m \in 1 .. m + n /\ u[i + m] = t[i]
    <3>1. i + m \in 1 .. m + n /\ ~(i + m <= m) /\ (i + m) - m = i
      BY <1>1
    <3> QED BY <1>2, <3>1
  <2>3. ASSUME NEW i \in 1 .. m + n
        PROVE  (i \in 1 .. m /\ u[i] = s[i]) \/ (i - m \in 1 .. n /\ u[i] = t[i - m])
    BY <1>1, <1>2
  <2>4. DOMAIN u = 1 .. m + n /\ DOMAIN s = 1 .. m /\ DOMAIN t = 1 .. n
    BY <1>1, <1>3
  <2>5. \A i \in DOMAIN u : \/ \E j \in DOMAIN s : u[i] = s[j]
                            \/ \E j \in DOMAIN t : u[i] = t[j]
    BY <2>3, <2>4
  <2>6. /\ \A i \in DOMAIN s : \E j \in DOMAIN u : u[j] = s[i]
        /\ \A i \in DOMAIN t : \E j \in DOMAIN u : u[j] = t[i]
    BY <2>1, <2>2, <2>4
  <2> QED BY <2>5, <2>6
<1>5. ASSUME t # <<>> PROVE u # <<>> /\ u[Len(u)] = t[Len(t)]
  <2>1. n > 0
    BY <1>1, <1>5, EmptySeq DEF n
  <2>2. Len(u) \in 1 .. m + n /\ ~(Len(u) <= m) /\ Len(u) - m = n
    BY <1>1, <1>2, <2>1
  <2>3. Len(u) # 0
    BY <1>1, <2>2
  <2>4. u # <<>>
    BY <2>3, EmptySeq
  <2> QED BY <1>2, <2>2, <2>4 DEF n
<1> QED BY <1>2, <1>3, <1>4, <1>5 DEF u, m, n

LEMMA Joined ==
  ASSUME NEW sort, NEW T,
         NEW s \in Seq(Rows), NEW t \in Seq(Rows), SortedIn(sort, T, s), SortedIn(sort, T, t),
         \A i \in DOMAIN s, j \in DOMAIN t : Leads(sort, T, s[i], t[j])
  PROVE  SortedIn(sort, T, s \o t)
<1> DEFINE u == s \o t
           m == Len(s)
           n == Len(t)
<1>1. m \in Nat /\ n \in Nat /\ DOMAIN s = 1 .. m /\ DOMAIN t = 1 .. n
  BY LenProperties
<1>2. \A i \in 1 .. m + n : u[i] = IF i <= m THEN s[i] ELSE t[i - m]
  BY ConcatProperties
<1>3. DOMAIN u = 1 .. m + n
  BY Concats
<1> HIDE DEF u, m, n
<1>4. SUFFICES ASSUME NEW i \in 1 .. m + n, NEW j \in 1 .. m + n, i < j
               PROVE  Leads(sort, T, u[i], u[j])
  BY <1>3 DEF SortedIn, u
<1>5. CASE j <= m
  <2>1. i \in 1 .. m /\ j \in 1 .. m /\ u[i] = s[i] /\ u[j] = s[j]
    BY <1>1, <1>2, <1>4, <1>5
  <2> QED BY <1>1, <1>4, <2>1 DEF SortedIn
<1>6. CASE i <= m /\ ~(j <= m)
  <2>1. i \in 1 .. m /\ j - m \in 1 .. n /\ u[i] = s[i] /\ u[j] = t[j - m]
    BY <1>1, <1>2, <1>4, <1>6
  <2> QED BY <1>1, <2>1
<1>7. CASE ~(i <= m)
  <2>1. /\ i - m \in 1 .. n /\ j - m \in 1 .. n /\ i - m < j - m
        /\ u[i] = t[i - m] /\ u[j] = t[j - m]
    BY <1>1, <1>2, <1>4, <1>7
  <2> QED BY <1>1, <2>1 DEF SortedIn
<1> QED BY <1>1, <1>4, <1>5, <1>6, <1>7

(* The list after the answer of a page.                                        *)
Gained(q, list, longer) ==
  LET new == {r \in Found(q, list.cursor) : Reached(q.sort, longer, r)}
  IN  /\ RowsOf(longer) = RowsOf(list) \cup new
      /\ longer.cursor # NoId => longer.cursor \in new
      /\ \A T \in SUBSET Rows :
           RowsOf(list) \cup new \subseteq T /\ SortedIn(q.sort, T, list.items)
             => SortedIn(q.sort, T, longer.items)

LEMMA PageIsGained ==
  ASSUME RowsInv, NEW q \in Queries, NEW list, ListInv(q, list),
         list.pages = 0 \/ list.cursor # NoId,
         NEW longer, longer = Extended(q, list)
  PROVE  /\ longer \in List
         /\ longer.pages = list.pages + 1 /\ longer.pages \in Nat \ {0}
         /\ longer.steady = IF list.pages = 0 THEN Selected(q) ELSE list.steady
         /\ longer.calm = (list.pages = 0 \/ list.calm)
         /\ longer.cut = (list.cut \/ (list.pages # 0 /\ row[list.cursor].gone))
         /\ longer.cursor # NoId => /\ longer.items # <<>>
                                    /\ longer.cursor = longer.items[Len(longer.items)]
         /\ Gained(q, list, longer)
<1> DEFINE page == Page(q, list.cursor)
           items == page.items
           next == page.next
           s == list.items
           F == Found(q, list.cursor)
<1>1. row \in [Rows -> Row] /\ q \in QueryType /\ q.sort \in Sorts
  BY QueriesAreQueries DEF RowsInv, QueryType
<1>2. page = [items |-> items, next |-> next]
  BY DEF Page
<1>3. list \in List /\ s \in Seq(Rows) /\ list.pages \in Nat /\ list.cursor \in Rows \cup {NoId}
  BY DEF ListInv, List
<1>4. /\ longer = [items |-> s \o items, cursor |-> next, pages |-> list.pages + 1,
                   steady |-> IF list.pages = 0 THEN Selected(q) ELSE list.steady,
                   calm |-> list.pages = 0 \/ list.calm,
                   cut |-> list.cut \/ (list.pages # 0 /\ row[list.cursor].gone)]
  BY DEF Extended
<1> HIDE DEF page, items, next, s, F
<1>5. /\ items \in Seq(Rows) /\ next \in Rows \cup {NoId}
      /\ Sorted(q.sort, items)
      /\ {items[i] : i \in DOMAIN items} =
           {r \in F : next = NoId \/ r = next \/ Before(q.sort, r, next)}
      /\ next # NoId => items # <<>> /\ next = items[Len(items)]
  <2>1. Page(q, list.cursor) = [items |-> items, next |-> next]
    BY <1>2 DEF page
  <2> QED BY <1>1, <2>1, PageShows DEF F
<1>6. longer.items = s \o items /\ longer.cursor = next
  BY <1>4
<1>7. /\ longer.pages = list.pages + 1 /\ longer.pages \in Nat \ {0}
      /\ longer.steady = IF list.pages = 0 THEN Selected(q) ELSE list.steady
      /\ longer.calm = (list.pages = 0 \/ list.calm)
      /\ longer.cut = (list.cut \/ (list.pages # 0 /\ row[list.cursor].gone))
  BY <1>3, <1>4
<1>8. /\ s \o items \in Seq(Rows)
      /\ {(s \o items)[i] : i \in DOMAIN (s \o items)} =
           {s[i] : i \in DOMAIN s} \cup {items[i] : i \in DOMAIN items}
      /\ items # <<>> => /\ s \o items # <<>>
                         /\ (s \o items)[Len(s \o items)] = items[Len(items)]
  BY <1>3, <1>5, Concats
<1>9. longer \in List
  <2>1. Selected(q) \in SUBSET Rows
    BY <1>1 DEF Selected, QueryType
  <2>2. /\ list.steady \in SUBSET Rows /\ list.calm \in BOOLEAN /\ list.cut \in BOOLEAN
    BY <1>3 DEF List
  <2>3. list.pages # 0 => row[list.cursor].gone \in BOOLEAN
    <3>1. list.pages # 0 => list.cursor \in Rows
      BY <1>3
    <3> QED BY <1>1, <3>1 DEF Row
  <2>4. /\ longer.steady \in SUBSET Rows /\ longer.calm \in BOOLEAN
        /\ longer.cut \in BOOLEAN
    BY <1>7, <2>1, <2>2, <2>3
  <2>5. longer = [items |-> longer.items, cursor |-> longer.cursor, pages |-> longer.pages,
                  steady |-> longer.steady, calm |-> longer.calm, cut |-> longer.cut]
    BY <1>4
  <2>6. longer.items \in Seq(Rows) /\ longer.cursor \in Rows \cup {NoId}
    BY <1>5, <1>6, <1>8
  <2> QED BY <1>7, <2>4, <2>5, <2>6 DEF List
<1>10. longer.cursor # NoId => /\ longer.items # <<>>
                               /\ longer.cursor = longer.items[Len(longer.items)]
  BY <1>5, <1>6, <1>8
<1>11. RowsOf(longer) = RowsOf(list) \cup {r \in F : Reached(q.sort, longer, r)}
  BY <1>5, <1>6, <1>8 DEF RowsOf, Reached, s
<1>12. next # NoId => next \in {r \in F : Reached(q.sort, longer, r)}
  <2>1. SUFFICES ASSUME next # NoId PROVE next \in F /\ Reached(q.sort, longer, next)
    OBVIOUS
  <2>2. Len(items) \in DOMAIN items
    BY <1>5, <2>1, EmptySeq, LenProperties
  <2>3. next \in {items[i] : i \in DOMAIN items}
    BY <1>5, <2>1, <2>2
  <2> QED BY <1>5, <1>6, <2>3 DEF Reached
<1>13. ASSUME NEW T \in SUBSET Rows, SortedIn(q.sort, T, s),
              RowsOf(list) \subseteq T, {items[k] : k \in DOMAIN items} \subseteq T
       PROVE  SortedIn(q.sort, T, s \o items)
  <2>1. ASSUME NEW i \in DOMAIN s, NEW j \in DOMAIN items
        PROVE  Leads(q.sort, T, s[i], items[j])
    <3>1. list.pages # 0 /\ list.cursor # NoId
      <4>1. list.pages = 0 => s = <<>>
        BY DEF ListInv, NoList, s
      <4>2. DOMAIN s = 1 .. Len(s) /\ Len(<<>>) = 0
        BY <1>3, LenProperties, EmptySeq
      <4> QED BY <2>1, <4>1, <4>2
    <3>2. s # <<>> /\ list.cursor = s[Len(s)] /\ list.cursor \in Rows
      BY <1>3, <3>1 DEF ListInv, s
    <3>3. Len(s) \in DOMAIN s /\ DOMAIN s = 1 .. Len(s)
      BY <1>3, <3>2, EmptySeq, LenProperties
    <3>4. \A k \in DOMAIN s : s[k] \in T
      BY <1>13 DEF RowsOf, s
    <3>5. items[j] \in F /\ items[j] \in T
      <4>1. items[j] \in {items[k] : k \in DOMAIN items}
        OBVIOUS
      <4> QED BY <1>5, <1>13, <4>1
    <3>6. Leads(q.sort, T, list.cursor, items[j])
      <4>1. Beyond(q.sort, items[j], list.cursor)
        BY <3>1, <3>5 DEF F, Found
      <4>2. list.cursor \in T
        BY <3>2, <3>3, <3>4
      <4> QED BY <1>1, <3>5, <4>1, <4>2, GoesOnBehind
    <3>7. CASE i = Len(s)
      BY <3>2, <3>6, <3>7
    <3>8. CASE i < Len(s)
      <4>1. Leads(q.sort, T, s[i], list.cursor)
        BY <1>13, <3>2, <3>3, <3>8 DEF SortedIn
      <4> QED BY <1>1, <3>2, <3>3, <3>4, <3>5, <3>6, <4>1, LeadsOn
    <3> QED BY <3>3, <3>7, <3>8
  <2>2. SortedIn(q.sort, T, items)
    <3>1. \A i \in DOMAIN items : items[i] \in Rows
      BY <1>13
    <3> QED BY <1>1, <1>5, <3>1, BeforeLeads DEF Sorted, SortedIn
  <2> QED BY <1>3, <1>5, <1>13, <2>1, <2>2, Joined
<1>14. Gained(q, list, longer)
  <2>1. {items[k] : k \in DOMAIN items} = {r \in F : Reached(q.sort, longer, r)}
    BY <1>5, <1>6 DEF Reached
  <2>2. \A T \in SUBSET Rows :
          /\ RowsOf(list) \cup {r \in F : Reached(q.sort, longer, r)} \subseteq T
          /\ SortedIn(q.sort, T, list.items)
          => SortedIn(q.sort, T, longer.items)
    BY <1>6, <1>13, <2>1 DEF s
  <2> QED BY <1>6, <1>11, <1>12, <2>2 DEF Gained, F
<1> QED BY <1>7, <1>9, <1>10, <1>14

(* A list that a page is read for stays what it was, and more.                 *)
LEMMA ExtendedKeeps ==
  ASSUME RowsInv, NEW q \in Queries, NEW list, ListInv(q, list),
         list.pages = 0 \/ list.cursor # NoId
  PROVE  ListInv(q, Extended(q, list))
<1> DEFINE longer == Extended(q, list)
           F == Found(q, list.cursor)
<1>1. /\ longer \in List
      /\ longer.pages = list.pages + 1 /\ longer.pages \in Nat \ {0}
      /\ longer.steady = IF list.pages = 0 THEN Selected(q) ELSE list.steady
      /\ longer.calm = (list.pages = 0 \/ list.calm)
      /\ longer.cut = (list.cut \/ (list.pages # 0 /\ row[list.cursor].gone))
      /\ longer.cursor # NoId => /\ longer.items # <<>>
                                 /\ longer.cursor = longer.items[Len(longer.items)]
      /\ Gained(q, list, longer)
  BY PageIsGained
<1> HIDE DEF longer
<1>2. row \in [Rows -> Row] /\ q \in QueryType /\ q.sort \in Sorts
  BY QueriesAreQueries DEF RowsInv, QueryType
<1>3. /\ list \in List /\ list.pages \in Nat /\ list.cursor \in Rows \cup {NoId}
      /\ list.calm \in BOOLEAN /\ list.cut \in BOOLEAN
  BY DEF ListInv, List
<1>4. /\ RowsOf(longer) = RowsOf(list) \cup {r \in F : Reached(q.sort, longer, r)}
      /\ longer.cursor # NoId =>
           longer.cursor \in F /\ longer.cursor \in Rows
      /\ \A T \in SUBSET Rows :
           /\ RowsOf(longer) \subseteq T /\ SortedIn(q.sort, T, list.items)
           => SortedIn(q.sort, T, longer.items)
  BY <1>1, <1>2 DEF Gained, Found, Selected, QueryType
<1>5. F \subseteq Selected(q) /\ Selected(q) \subseteq Rows /\ \A r \in Selected(q) : row[r].on
  BY <1>2 DEF Found, Selected, QueryType
<1>6. /\ longer.calm => list.pages = 0 \/ list.calm
      /\ ~longer.cut => ~list.cut /\ (list.pages = 0 \/ ~row[list.cursor].gone)
  <2>1. longer.calm \in BOOLEAN /\ longer.cut \in BOOLEAN
    BY <1>1 DEF List
  <2>2. list.pages # 0 => row[list.cursor].gone \in BOOLEAN
    <3>1. list.pages # 0 => list.cursor \in Rows
      BY <1>3
    <3> QED BY <1>2, <3>1 DEF Row
  <2> QED BY <1>1, <1>3, <2>1, <2>2
<1>7. longer.steady \subseteq Selected(q)
  BY <1>1 DEF ListInv
<1>8. ASSUME list.pages = 0
      PROVE  /\ list = NoList /\ RowsOf(list) = {} /\ F = Selected(q)
             /\ \A T : SortedIn(q.sort, T, list.items)
  <2>1. list = NoList /\ list.items = <<>> /\ list.cursor = NoId
    BY <1>8 DEF ListInv, NoList
  <2>2. \A i : i \notin DOMAIN list.items
    BY <2>1
  <2> QED BY <2>1, <2>2 DEF RowsOf, SortedIn, Found, F
<1>9. RowsOf(list) \subseteq Rows /\ RowsOf(longer) \subseteq Rows
  BY <1>1, <1>3 DEF RowsOf, List
<1>10. list.cursor # NoId => list.cursor \in RowsOf(list) /\ list.cursor \in Rows
  <2>1. SUFFICES ASSUME list.cursor # NoId PROVE list.cursor \in RowsOf(list)
    BY <1>3
  <2>2. list.items # <<>> /\ list.cursor = list.items[Len(list.items)]
    BY <2>1 DEF ListInv
  <2>3. Len(list.items) \in DOMAIN list.items
    <3>1. list.items \in Seq(Rows)
      BY <1>3 DEF List
    <3> QED BY <2>2, <3>1, EmptySeq, LenProperties
  <2> QED BY <2>2, <2>3 DEF RowsOf
<1> HIDE DEF F
(* The rows apart from ties that were on the way are in the new page,          *)
<1>11. ASSUME list.pages # 0, NEW T \in SUBSET Rows, NEW r \in Selected(q),
              r \in T, list.cursor \in T,
              Apart(q.sort, T, r), Reached(q.sort, longer, r), ~row[list.cursor].gone
       PROVE  Reached(q.sort, list, r) \/ r \in RowsOf(longer)
  <2>1. list.cursor # NoId
    BY <1>11
  <2>2. \/ r = list.cursor \/ Before(q.sort, r, list.cursor)
        \/ Before(q.sort, list.cursor, r)
    BY <1>2, <1>11, BeforeIsTotal
  <2>3. Before(q.sort, list.cursor, r) => Beyond(q.sort, r, list.cursor)
    BY <1>2, <1>11, GoesOnBehind
  <2>4. Beyond(q.sort, r, list.cursor) => r \in F
    BY <1>11 DEF F, Found
  <2> QED BY <1>4, <1>11, <2>2, <2>3, <2>4 DEF Reached
(* and those the list had come to it has come to still.                        *)
<1>12. ASSUME list.pages # 0, NEW T \in SUBSET Rows, RowsOf(list) \subseteq T, F \subseteq T,
              NEW r \in T, Apart(q.sort, T, r), Reached(q.sort, list, r)
       PROVE  Reached(q.sort, longer, r)
  <2>1. list.cursor \in T /\ list.cursor # NoId
    BY <1>10, <1>12
  <2>2. SUFFICES ASSUME longer.cursor # NoId
                 PROVE  Before(q.sort, r, longer.cursor)
    BY DEF Reached
  <2>3. longer.cursor \in F /\ longer.cursor \in T
    BY <1>4, <1>12, <2>2
  <2>4. Beyond(q.sort, longer.cursor, list.cursor)
    BY <2>1, <2>3 DEF F, Found
  <2>5. Leads(q.sort, T, list.cursor, longer.cursor)
    BY <1>2, <2>1, <2>3, <2>4, GoesOnBehind
  <2>6. r = list.cursor \/ Before(q.sort, r, list.cursor)
    BY <1>12, <2>1 DEF Reached
  <2>7. CASE r = list.cursor
    BY <1>12, <2>5, <2>7 DEF Leads
  <2>8. CASE Before(q.sort, r, list.cursor)
    <3>1. Leads(q.sort, T, r, list.cursor)
      BY <1>2, <1>12, <2>1, <2>8, BeforeLeads
    <3>2. Leads(q.sort, T, r, longer.cursor)
      BY <1>2, <2>1, <2>3, <2>5, <3>1, LeadsOn
    <3> QED BY <1>12, <3>2 DEF Leads
  <2> QED BY <2>6, <2>7, <2>8
<1>13. ASSUME q.sort = "newest"
       PROVE  NewList(longer)
  <2>2. NewList(list)
    BY <1>13 DEF ListInv
  <2>3. SortedIn("newest", Rows, longer.items)
    BY <1>4, <1>9, <1>13, <2>2 DEF NewList
  <2>4. \A r \in RowsOf(longer) : row[r].made # 0
    BY <1>4, <1>5, <2>2 DEF NewList, RowsInv
  <2>5. ASSUME ~longer.cut, NEW r \in longer.steady,
               Apart("newest", Rows, r), Reached("newest", longer, r)
        PROVE  r \in RowsOf(longer)
    <3>1. CASE list.pages = 0
      BY <1>1, <1>4, <1>8, <1>13, <2>5, <3>1
    <3>2. CASE list.pages # 0
      <4>1. ~list.cut /\ ~row[list.cursor].gone /\ r \in list.steady /\ list.pages > 0
        BY <1>1, <1>3, <1>6, <2>5, <3>2
      <4>2. Reached(q.sort, list, r) => r \in RowsOf(list)
        BY <1>13, <2>2, <2>5, <4>1 DEF NewList
      <4>3. r \in Selected(q) /\ r \in Rows /\ list.cursor \in Rows
        BY <1>5, <1>7, <1>10, <2>5, <3>2
      <4>4. Reached(q.sort, list, r) \/ r \in RowsOf(longer)
        BY <1>11, <1>13, <2>5, <3>2, <4>1, <4>3
      <4> QED BY <1>4, <4>2, <4>4
    <3> QED BY <3>1, <3>2
  <2> QED BY <2>3, <2>4, <2>5 DEF NewList
<1>14. CalmList(q, longer)
  <2> DEFINE T == Selected(q)
  <2>1. SUFFICES ASSUME longer.calm
                 PROVE  /\ SortedIn(q.sort, T, longer.items)
                        /\ RowsOf(longer) \subseteq T
                        /\ \A r \in T : Apart(q.sort, T, r)
                             => (r \in RowsOf(longer) <=> Reached(q.sort, longer, r))
    BY DEF CalmList
  <2>2. F \subseteq T /\ T \in SUBSET Rows
    BY <1>5
  <2>3. CASE list.pages = 0
    <3>1. RowsOf(longer) = {r \in T : Reached(q.sort, longer, r)}
      BY <1>4, <1>8, <2>3
    <3>2. SortedIn(q.sort, T, longer.items)
      BY <1>4, <1>8, <2>2, <2>3, <3>1
    <3> QED BY <3>1, <3>2
  <2>4. CASE list.pages # 0
    <3>1. /\ SortedIn(q.sort, T, list.items)
          /\ RowsOf(list) \subseteq T
          /\ \A r \in T : Apart(q.sort, T, r)
               => (r \in RowsOf(list) <=> Reached(q.sort, list, r))
      <4>1. list.calm /\ list.pages > 0
        BY <1>3, <1>6, <2>1, <2>4
      <4> QED BY <4>1 DEF ListInv, CalmList
    <3>2. list.cursor \in T /\ ~row[list.cursor].gone
      BY <1>5, <1>10, <2>4, <3>1 DEF RowsInv
    <3>3. RowsOf(longer) \subseteq T
      BY <1>4, <2>2, <3>1
    <3>4. SortedIn(q.sort, T, longer.items)
      BY <1>4, <2>2, <3>1, <3>3
    <3>5. ASSUME NEW r \in T, Apart(q.sort, T, r)
          PROVE  r \in RowsOf(longer) <=> Reached(q.sort, longer, r)
      <4>1. r \in RowsOf(longer) => Reached(q.sort, longer, r)
        BY <1>4, <1>12, <2>2, <2>4, <3>1, <3>5
      <4>2. Reached(q.sort, longer, r) => Reached(q.sort, list, r) \/ r \in RowsOf(longer)
        BY <1>11, <2>2, <2>4, <3>2, <3>5
      <4>3. Reached(q.sort, list, r) => r \in RowsOf(longer)
        BY <1>4, <3>1, <3>5
      <4> QED BY <4>1, <4>2, <4>3
    <3> QED BY <3>3, <3>4, <3>5
  <2> QED BY <2>3, <2>4
<1> QED BY <1>1, <1>7, <1>13, <1>14 DEF ListInv, longer

-----------------------------------------------------------------------------
(* The rows change                                                             *)

(* A row keeps its age, or gets it when it comes.                              *)
Changed(r, new) ==
  /\ row' = [row EXCEPT ![r] = new]
  /\ new \in Row
  /\ new.on => ~new.gone
  /\ new.made = 0 => ~new.on /\ ~new.gone
  /\ row[r].made \in {0, new.made}

LEMMA RowsStay == ASSUME RowsInv, NEW r \in Rows, NEW new, Changed(r, new) PROVE RowsInv'
<1>1. row' \in [Rows -> Row]
  BY DEF RowsInv, Changed
<1>2. \A s \in Rows : row'[s] = IF s = r THEN new ELSE row[s]
  BY DEF RowsInv, Changed
<1>3. \A s \in Rows :
        /\ row'[s].on => ~row'[s].gone
        /\ row'[s].made = 0 => ~row'[s].on /\ ~row'[s].gone
  BY <1>2 DEF RowsInv, Changed
<1> QED BY <1>1, <1>3 DEF RowsInv

(* Rows that have an age keep their place among the new ones.                  *)
LEMMA PlacesStay ==
  ASSUME RowsInv, NEW r \in Rows, NEW new, Changed(r, new),
         NEW s \in Rows, NEW t \in Rows, row[s].made # 0, row[t].made # 0
  PROVE  /\ row'[s].made = row[s].made
         /\ Apart("newest", Rows, s)' => Apart("newest", Rows, s)
         /\ Before("newest", s, t)' <=> Before("newest", s, t)
         /\ Leads("newest", Rows, s, t) => Leads("newest", Rows, s, t)'
<1>1. row'[s].made = row[s].made /\ row'[t].made = row[t].made
  BY DEF RowsInv, Changed
<1>2. \A u : Key("newest", u) = row[u].made /\ Key("newest", u)' = row'[u].made
  BY Zenon DEF Key
<1>3. \A u \in Rows : row[u].made # 0 => row'[u].made = row[u].made
  BY DEF RowsInv, Changed
<1>4. ASSUME NEW u \in {s, t}, Alone("newest", u, Rows)'
      PROVE  Alone("newest", u, Rows)
  <2>1. \A v \in Rows \ {u} : row'[v].made # row'[u].made
    BY <1>2, <1>4 DEF Alone
  <2>2. \A v \in Rows \ {u} : row[v].made # row[u].made
    BY <1>1, <1>3, <2>1
  <2> QED BY <1>2, <2>2 DEF Alone
<1>5. /\ Apart("newest", Rows, s)' => Apart("newest", Rows, s)
      /\ Apart("newest", Rows, t)' => Apart("newest", Rows, t)
  BY <1>4 DEF Apart, Descending
<1>6. Before("newest", s, t)' <=> Before("newest", s, t)
  BY <1>1, <1>2 DEF Before, Descending
<1>7. NotBehind("newest", s, t)' <=> NotBehind("newest", s, t)
  BY <1>1, <1>2 DEF NotBehind, Descending
<1> QED BY <1>1, <1>5, <1>6, <1>7 DEF Leads

LEMMA StirredKeeps ==
  ASSUME RowsInv, NEW q \in Queries, NEW list, ListInv(q, list),
         NEW r \in Rows, NEW new, Changed(r, new),
         NEW after, after = Stirred(list, r, new.on)
  PROVE  after \in List /\ ListInv(q, after)'
<1>1. q \in QueryType /\ list \in List
  BY QueriesAreQueries DEF QueryType, ListInv
<1>2. \A s \in Rows : row'[s] = IF s = r THEN new ELSE row[s]
  BY DEF RowsInv, Changed
<1>3. CASE list.pages = 0
  <2>1. after = NoList /\ list = NoList
    BY <1>3 DEF Stirred, ListInv
  <2>2. /\ NoList.pages = 0 /\ NoList.cursor = NoId /\ NoList.steady = {}
        /\ NoList.items = <<>> /\ \A i : i \notin DOMAIN NoList.items
    BY DEF NoList
  <2>3. NewList(NoList)'
    BY <2>2 DEF NewList, SortedIn, RowsOf
  <2>4. CalmList(q, NoList)'
    BY <2>2 DEF CalmList
  <2>5. ListInv(q, NoList)'
    BY <1>1, <2>1, <2>2, <2>3, <2>4 DEF ListInv
  <2> QED BY <1>1, <2>1, <2>5
<1>4. CASE list.pages # 0
  <2> DEFINE kept == IF new.on THEN list.steady ELSE list.steady \ {r}
  <2>1. after = [items |-> list.items, cursor |-> list.cursor, pages |-> list.pages,
                 steady |-> kept, calm |-> FALSE, cut |-> list.cut]
    BY <1>1, <1>4 DEF Stirred, List
  <2>2. /\ after.items = list.items /\ after.cursor = list.cursor
        /\ after.pages = list.pages /\ after.steady = kept
        /\ after.calm = FALSE /\ after.cut = list.cut
    BY <2>1
  <2>3. after \in List
    BY <1>1, <2>1 DEF List
  <2>4. kept \subseteq Selected(q)'
    <3>1. list.steady \subseteq Selected(q)
      BY DEF ListInv
    <3>2. \A s \in kept : s \in Rows /\ s \in q.among /\ row'[s].on
      BY <1>1, <1>2, <3>1 DEF Selected, QueryType
    <3> QED BY <3>2 DEF Selected
  <2>5. ASSUME q.sort = "newest"
        PROVE  NewList(after)'
    <3>1. NewList(list)
      BY <2>5 DEF ListInv
    <3>2. \A s \in RowsOf(list) : s \in Rows /\ row[s].made # 0
      BY <1>1, <3>1 DEF NewList, RowsOf, List
    <3>3. RowsOf(after) = RowsOf(list)
      BY <2>2 DEF RowsOf
    <3>4. \A s \in RowsOf(after) : row'[s].made # 0
      BY <3>2, <3>3, PlacesStay
    <3>5. SortedIn("newest", Rows, after.items)'
      <4>1. SUFFICES ASSUME NEW i \in DOMAIN list.items, NEW j \in DOMAIN list.items, i < j
                     PROVE  Leads("newest", Rows, list.items[i], list.items[j])'
        BY <2>2 DEF SortedIn
      <4>2. list.items[i] \in RowsOf(list) /\ list.items[j] \in RowsOf(list)
        BY DEF RowsOf
      <4>3. Leads("newest", Rows, list.items[i], list.items[j])
        BY <3>1, <4>1 DEF NewList, SortedIn
      <4> QED BY <3>2, <4>2, <4>3, PlacesStay
    <3>6. ASSUME after.pages > 0, ~after.cut, NEW s \in after.steady,
                 Apart("newest", Rows, s)', Reached("newest", after, s)'
          PROVE  s \in RowsOf(after)
      <4>1. s \in list.steady /\ s \in Selected(q) /\ s \in Rows /\ row[s].made # 0
        BY <1>1, <2>2, <3>6 DEF ListInv, Selected, QueryType, RowsInv
      <4>2. list.cursor # NoId => list.cursor \in Rows /\ row[list.cursor].made # 0
        <5>1. list.cursor # NoId =>
                list.items # <<>> /\ list.cursor = list.items[Len(list.items)]
          BY DEF ListInv
        <5>2. list.items # <<>> => Len(list.items) \in DOMAIN list.items
          BY <1>1, EmptySeq, LenProperties DEF List
        <5>3. list.cursor # NoId => list.cursor \in RowsOf(list)
          BY <5>1, <5>2 DEF RowsOf
        <5> QED BY <3>2, <5>3
      <4>3. Reached("newest", list, s)
        <5>1. \/ list.cursor = NoId \/ s = list.cursor
              \/ Before("newest", s, list.cursor)'
          BY <2>2, <3>6 DEF Reached
        <5> QED BY <4>1, <4>2, <5>1, PlacesStay DEF Reached
      <4>4. Apart("newest", Rows, s)
        BY <3>6, <4>1, PlacesStay
      <4> QED BY <2>2, <3>1, <3>3, <3>6, <4>1, <4>3, <4>4 DEF NewList
    <3> QED BY <3>4, <3>5, <3>6 DEF NewList
  <2>6. CalmList(q, after)'
    BY <2>2 DEF CalmList
  <2>7. ListInv(q, after)'
    BY <1>4, <2>2, <2>3, <2>4, <2>5, <2>6 DEF ListInv
  <2> QED BY <2>3, <2>7
<1> QED BY <1>3, <1>4

(* Where the rows do not change, neither does what is said of a list.          *)
LEMMA SameRows ==
  ASSUME NEW q, NEW list, ListInv(q, list), UNCHANGED row
  PROVE  ListInv(q, list)'
<1>1. \A sort, r : Key(sort, r)' = Key(sort, r)
  BY Zenon DEF Key
<1>2. \A sort, r, s : Before(sort, r, s)' <=> Before(sort, r, s)
  BY <1>1 DEF Before
<1>3. \A sort, T, r : Apart(sort, T, r)' <=> Apart(sort, T, r)
  BY <1>1 DEF Apart, Alone
<1>4. \A sort, T, items : SortedIn(sort, T, items)' <=> SortedIn(sort, T, items)
  BY <1>1, <1>2, <1>3 DEF SortedIn, Leads, NotBehind
<1>5. \A sort, r : Reached(sort, list, r)' <=> Reached(sort, list, r)
  BY <1>2 DEF Reached
<1>6. Selected(q)' = Selected(q)
  BY DEF Selected
<1>7. NewList(list)' <=> NewList(list)
  BY <1>3, <1>4, <1>5 DEF NewList
<1>8. CalmList(q, list)' <=> CalmList(q, list)
  BY <1>3, <1>4, <1>5, <1>6 DEF CalmList
<1> QED BY <1>6, <1>7, <1>8 DEF ListInv

-----------------------------------------------------------------------------
(* The steps                                                                   *)

FeedInv == FeedTyped /\ CallsInv /\ \A q \in Queries : \A list \in Lists(q) : ListInv(q, list)

LEMMA FeedFields ==
  ASSUME NEW c \in Feed
  PROVE  /\ c.now \in List /\ c.got \in List /\ c.left \in Nat
         /\ c.call \in {"none", "next", "again"}
BY DEF Feed

LEMMA RowsChange ==
  ASSUME RowsInv, FeedInv, NEW r \in Rows, NEW new, Changed(r, new), Changes(r, new)
  PROVE  RowsInv' /\ FeedInv'
<1>1. ASSUME NEW q \in Queries
      PROVE  /\ feed[q] \in Feed
             /\ feed'[q] = [feed[q] EXCEPT !.now = Stirred(@, r, new.on),
                                           !.got = Stirred(@, r, new.on)]
  BY Zenon DEF Changes, FeedInv, FeedTyped
<1>2. ASSUME NEW q \in Queries
      PROVE  /\ feed'[q].now = Stirred(feed[q].now, r, new.on)
             /\ feed'[q].got = Stirred(feed[q].got, r, new.on)
             /\ feed'[q].call = feed[q].call
             /\ feed'[q].now \in List /\ feed'[q].got \in List => feed'[q] \in Feed
  <2> DEFINE c == feed[q]
             d == feed'[q]
             now == Stirred(feed[q].now, r, new.on)
             got == Stirred(feed[q].got, r, new.on)
  <2>1. c \in Feed /\ d = [c EXCEPT !.now = now, !.got = got]
    BY <1>1
  <2> HIDE DEF c, d, now, got
  <2>2. /\ d.now = now /\ d.got = got /\ d.call = c.call
        /\ now \in List /\ got \in List => d \in Feed
    BY <2>1 DEF Feed
  <2>3. d.now \in List /\ d.got \in List => d \in Feed
    BY <2>2
  <2> QED BY <2>2, <2>3 DEF c, d, now, got
<1>3. ASSUME NEW q \in Queries
      PROVE  \A after \in Lists(q)' : after \in List /\ ListInv(q, after)'
  <2>1. SUFFICES ASSUME NEW after \in Lists(q)'
                 PROVE  after \in List /\ ListInv(q, after)'
    OBVIOUS
  <2>2. PICK list \in Lists(q) : after = Stirred(list, r, new.on)
    BY <1>2, Zenon DEF Lists
  <2>3. ListInv(q, list)
    BY DEF FeedInv
  <2> QED BY <2>2, <2>3, StirredKeeps
<1>4. FeedTyped'
  <2>1. ASSUME NEW q \in Queries
        PROVE  feed'[q] \in Feed
    <3>1. feed'[q].now \in List /\ feed'[q].got \in List
      BY <1>3 DEF Lists
    <3> QED BY <1>2, <3>1
  <2>2. feed' \in [Queries -> Feed]
    <3>1. feed' = [q \in Queries |-> [feed[q] EXCEPT !.now = Stirred(@, r, new.on),
                                                     !.got = Stirred(@, r, new.on)]]
      BY DEF Changes
    <3>2. ASSUME NEW q \in Queries
          PROVE  [feed[q] EXCEPT !.now = Stirred(@, r, new.on),
                                 !.got = Stirred(@, r, new.on)] \in Feed
      BY <1>1, <2>1, Zenon
    <3> QED BY <3>1, <3>2, Zenon
  <2> QED BY <2>2 DEF FeedTyped
<1>5. CallsInv'
  <2>1. ASSUME NEW list \in List
        PROVE  /\ Stirred(list, r, new.on).cursor = list.cursor
               /\ Stirred(list, r, new.on).pages = list.pages
    BY DEF Stirred, List
  <2>2. ASSUME NEW q \in Queries
        PROVE  /\ feed'[q].now.cursor = feed[q].now.cursor
               /\ feed'[q].got.cursor = feed[q].got.cursor
               /\ feed'[q].got.pages = feed[q].got.pages
    <3>1. feed[q].now \in List /\ feed[q].got \in List
      BY <1>1, FeedFields
    <3> QED BY <1>2, <2>1, <3>1
  <2>3. CallsInv
    BY DEF FeedInv
  <2> QED BY <1>2, <2>2, <2>3, Zenon DEF CallsInv
<1> QED BY <1>3, <1>4, <1>5, RowsStay DEF FeedInv

(* The bids, ends, births and deletions of rows.                               *)
LEMMA RowChanges ==
  ASSUME NEW x \in Row, NEW y, NEW n \in Nat, NEW extends \in {0, 1},
         \/ y = [x EXCEPT !.price = @ + 1, !.bids = @ + 1, !.end = @ + extends]
         \/ y = [x EXCEPT !.on = FALSE]
         \/ y = [x EXCEPT !.on = FALSE, !.gone = TRUE]
         \/ y = [x EXCEPT !.on = TRUE, !.made = n]
  PROVE  y \in Row
<1>1. x.price \in Nat /\ x.bids \in Nat /\ x.end \in Nat
  BY DEF Row
<1>2. x.price + 1 \in Nat /\ x.bids + 1 \in Nat /\ x.end + extends \in Nat
  BY <1>1
<1> QED BY <1>2 DEF Row

LEMMA RowStepsKeep ==
  ASSUME RowsInv, FeedInv, NEW r \in Rows, Bid(r) \/ Ends(r) \/ Listed(r) \/ Deleted(r)
  PROVE  RowsInv' /\ FeedInv'
<1> DEFINE x == row[r]
<1>1. x \in Row /\ (x.on => ~x.gone) /\ (x.made = 0 => ~x.on /\ ~x.gone)
  BY DEF RowsInv
<1>2. \A n \in Prices : n \in Nat /\ n # 0
  BY PricesAreNat
<1>3. ASSUME NEW new, Changes(r, new), new \in Row, new.on => ~new.gone,
             new.made = 0 => ~new.on /\ ~new.gone,
             x.made \in {0, new.made}
      PROVE  RowsInv' /\ FeedInv'
  <2>1. Changed(r, new)
    BY <1>3 DEF Changed, Changes
  <2> QED BY <1>3, <2>1, RowsChange
<1>4. CASE Bid(r)
  <2>1. PICK extends \in {0, 1} :
          Changes(r, [row[r] EXCEPT !.price = @ + 1, !.bids = @ + 1, !.end = @ + extends])
    BY <1>4, Zenon DEF Bid
  <2> DEFINE new == [row[r] EXCEPT !.price = @ + 1, !.bids = @ + 1, !.end = @ + extends]
  <2>2. new \in Row /\ new.on = x.on /\ new.made = x.made /\ new.gone = x.gone
    <3> HIDE DEF x
    <3>1. x \in Row /\ new = [x EXCEPT !.price = @ + 1, !.bids = @ + 1, !.end = @ + extends]
      BY <1>1 DEF x
    <3> HIDE DEF new
    <3> QED BY <3>1, RowChanges DEF Row
  <2>3. Changes(r, new)
    BY <2>1
  <2> HIDE DEF new, x
  <2> QED BY <1>1, <1>3, <2>2, <2>3
<1>5. CASE Ends(r)
  <2> DEFINE new == [row[r] EXCEPT !.on = FALSE]
  <2>1. new \in Row /\ new.on = FALSE /\ new.made = x.made /\ new.gone = x.gone
    <3>1. x \in Row /\ new = [x EXCEPT !.on = FALSE]
      BY <1>1
    <3> HIDE DEF x, new
    <3> QED BY <3>1, RowChanges DEF Row
  <2>2. Changes(r, new)
    BY <1>5 DEF Ends
  <2> HIDE DEF new, x
  <2> QED BY <1>1, <1>3, <2>1, <2>2
<1>6. CASE Listed(r)
  <2>1. PICK n \in Prices : Changes(r, [row[r] EXCEPT !.on = TRUE, !.made = n])
    BY <1>6 DEF Listed
  <2> DEFINE new == [row[r] EXCEPT !.on = TRUE, !.made = n]
  <2>2. new \in Row /\ new.on = TRUE /\ new.made = n /\ new.gone = x.gone
    <3>1. x \in Row /\ new = [x EXCEPT !.on = TRUE, !.made = n]
      BY <1>1
    <3> HIDE DEF x, new
    <3> QED BY <1>2, <3>1, RowChanges DEF Row
  <2>3. Changes(r, new) /\ x.made = 0
    BY <1>6, <2>1 DEF Listed
  <2> HIDE DEF new, x
  <2> QED BY <1>1, <1>2, <1>3, <2>2, <2>3
<1>7. CASE Deleted(r)
  <2> DEFINE new == [row[r] EXCEPT !.on = FALSE, !.gone = TRUE]
  <2>1. new \in Row /\ new.on = FALSE /\ new.made = x.made /\ new.gone = TRUE
    <3>1. x \in Row /\ new = [x EXCEPT !.on = FALSE, !.gone = TRUE]
      BY <1>1
    <3> HIDE DEF x, new
    <3> QED BY <3>1, RowChanges DEF Row
  <2>2. Changes(r, new) /\ x.on
    BY <1>7 DEF Deleted
  <2> HIDE DEF new, x
  <2> QED BY <1>1, <1>3, <2>1, <2>2
<1> QED BY <1>4, <1>5, <1>6, <1>7

(* A list of which nothing has been read.                                      *)
LEMMA NoListFits == ASSUME NEW q PROVE NoList \in List /\ ListInv(q, NoList)
<1>1. /\ NoList.pages = 0 /\ NoList.cursor = NoId /\ NoList.steady = {}
      /\ NoList.items = <<>> /\ \A i : i \notin DOMAIN NoList.items
  BY DEF NoList
<1>2. NoList \in List
  BY DEF NoList, List
<1>3. NewList(NoList) /\ CalmList(q, NoList)
  BY <1>1 DEF NewList, CalmList, SortedIn, RowsOf
<1> QED BY <1>1, <1>2, <1>3 DEF ListInv

(* A step of the page on one of its lists.                                     *)
LEMMA OneFeedChanges ==
  ASSUME RowsInv, FeedInv, NEW q \in Queries, NEW new \in Feed, Calls(q, new),
         ListInv(q, new.now), ListInv(q, new.got),
         new.call = "next" => new.now.cursor # NoId,
         new.call = "again" => new.got.pages = 0 \/ new.got.cursor # NoId
  PROVE  RowsInv' /\ FeedInv'
<1>1. row' = row /\ feed' = [feed EXCEPT ![q] = new]
  BY DEF Calls
<1>2. feed \in [Queries -> Feed] /\ CallsInv
  BY DEF FeedInv, FeedTyped
<1>3. feed' \in [Queries -> Feed] /\ \A p \in Queries : feed'[p] = IF p = q THEN new ELSE feed[p]
  BY <1>1, <1>2
<1>4. RowsInv'
  BY <1>1 DEF RowsInv
<1>5. CallsInv'
  BY <1>2, <1>3 DEF CallsInv
<1>6. ASSUME NEW p \in Queries, NEW list \in Lists(p)'
      PROVE  ListInv(p, list)'
  <2>1. ListInv(p, list)
    BY <1>3 DEF FeedInv, Lists
  <2> QED BY <1>1, <2>1, SameRows
<1> QED BY <1>3, <1>4, <1>5, <1>6 DEF FeedInv, FeedTyped

LEMMA FeedStepsKeep ==
  ASSUME RowsInv, FeedInv, NEW q \in Queries,
         \/ Fetch(q) \/ LoadMore(q) \/ NextAnswered(q) \/ AgainAnswered(q) \/ CallFails(q)
  PROVE  RowsInv' /\ FeedInv'
<1> DEFINE c == feed[q]
<1>1. /\ c \in Feed /\ ListInv(q, c.now) /\ ListInv(q, c.got)
      /\ c.call = "next" => c.now.cursor # NoId
      /\ c.call = "again" => c.got.pages = 0 \/ c.got.cursor # NoId
  BY DEF FeedInv, FeedTyped, CallsInv, Lists
<1>2. c.now \in List /\ c.now.pages \in Nat /\ c.got \in List
  BY <1>1 DEF Feed, List
<1>3. CASE Fetch(q)
  <2> DEFINE left == IF c.now.pages = 0 THEN 1 ELSE c.now.pages
             new == [c EXCEPT !.call = "again", !.got = NoList, !.left = left]
  <2>1. Calls(q, new)
    BY <1>3 DEF Fetch
  <2>2. left \in Nat
    BY <1>2
  <2> HIDE DEF c, left
  <2>3. new \in Feed /\ new.call = "again" /\ new.now = c.now /\ new.got = NoList
    BY <1>1, <2>2, NoListFits DEF Feed
  <2> HIDE DEF new
  <2>4. NoList.pages = 0
    BY DEF NoList
  <2> QED BY <1>1, <2>1, <2>3, <2>4, NoListFits, OneFeedChanges
<1>4. CASE LoadMore(q)
  <2> DEFINE new == [c EXCEPT !.call = "next", !.got = NoList]
  <2>1. Calls(q, new) /\ c.now.cursor # NoId
    BY <1>4 DEF LoadMore
  <2> HIDE DEF c
  <2>2. new \in Feed /\ new.call = "next" /\ new.now = c.now /\ new.got = NoList
    BY <1>1, NoListFits DEF Feed
  <2> HIDE DEF new
  <2> QED BY <1>1, <2>1, <2>2, NoListFits, OneFeedChanges
<1>5. CASE NextAnswered(q)
  <2> DEFINE longer == Extended(q, c.now)
             new == [c EXCEPT !.call = "none", !.now = longer]
  <2>1. Calls(q, new) /\ c.call = "next"
    BY <1>5 DEF NextAnswered
  <2>2. ListInv(q, longer)
    BY <1>1, <2>1, ExtendedKeeps
  <2>3. longer \in List
    BY <2>2 DEF ListInv
  <2> HIDE DEF c, longer
  <2>4. new \in Feed /\ new.call = "none" /\ new.now = longer /\ new.got = c.got
    BY <1>1, <2>3 DEF Feed
  <2> HIDE DEF new
  <2> QED BY <1>1, <2>1, <2>2, <2>4, OneFeedChanges
<1>6. CASE AgainAnswered(q)
  <2> DEFINE got == Extended(q, c.got)
             done == got.cursor = NoId \/ got.pages = c.left
             last == [c EXCEPT !.call = "none", !.now = got, !.got = NoList]
             more == [c EXCEPT !.got = got]
  <2>1. Calls(q, IF done THEN last ELSE more) /\ c.call = "again"
    BY <1>6 DEF AgainAnswered
  <2>2. ListInv(q, got)
    BY <1>1, <2>1, ExtendedKeeps
  <2>3. got \in List
    BY <2>2 DEF ListInv
  <2>4. done \/ got.cursor # NoId
    OBVIOUS
  <2> HIDE DEF c, got, done
  <2>5. last \in Feed /\ last.call = "none" /\ last.now = got /\ last.got = NoList
    BY <1>1, <2>3, NoListFits DEF Feed
  <2>6. more \in Feed /\ more.call = c.call /\ more.now = c.now /\ more.got = got
    BY <1>1, <2>3 DEF Feed
  <2> HIDE DEF last, more
  <2>7. CASE done
    <3>1. Calls(q, last)
      BY <2>1, <2>7
    <3> QED BY <2>2, <2>5, <3>1, NoListFits, OneFeedChanges
  <2>8. CASE ~done
    <3>1. Calls(q, more)
      BY <2>1, <2>8
    <3> QED BY <1>1, <2>1, <2>2, <2>4, <2>6, <2>8, <3>1, OneFeedChanges
  <2> QED BY <2>7, <2>8
<1>7. CASE CallFails(q)
  <2> DEFINE new == [c EXCEPT !.call = "none", !.got = NoList]
  <2>1. Calls(q, new)
    BY <1>7 DEF CallFails
  <2> HIDE DEF c
  <2>2. new \in Feed /\ new.call = "none" /\ new.now = c.now /\ new.got = NoList
    BY <1>1, NoListFits DEF Feed
  <2> HIDE DEF new
  <2> QED BY <1>1, <2>1, <2>2, NoListFits, OneFeedChanges
<1> QED BY <1>3, <1>4, <1>5, <1>6, <1>7

LEMMA CatalogStarts == ASSUME CatalogInit PROVE CatalogInv
<1>1. PICK key \in [Rows -> Prices], later \in Rows :
        row = [r \in Rows |->
                 [on |-> r # later, gone |-> FALSE, price |-> key[r], end |-> key[r],
                  made |-> IF r = later THEN 0 ELSE key[r], bids |-> 0]]
  BY DEF CatalogInit
<1>2. 0 \notin Rows /\ Rows \subseteq Nat
  BY RowsAreOrdered, FS_CardinalityType
<1>3. ASSUME NEW r \in Rows
      PROVE  /\ row[r] = [on |-> r # later, gone |-> FALSE, price |-> key[r], end |-> key[r],
                          made |-> IF r = later THEN 0 ELSE key[r], bids |-> 0]
             /\ key[r] \in Nat /\ key[r] # 0
  BY <1>1, <1>2, PricesAreNat
<1>4. row \in [Rows -> Row]
  <2>1. ASSUME NEW r \in Rows
        PROVE  [on |-> r # later, gone |-> FALSE, price |-> key[r], end |-> key[r],
                made |-> IF r = later THEN 0 ELSE key[r], bids |-> 0] \in Row
    BY <1>3 DEF Row
  <2> QED BY <1>1, <2>1
<1>5. RowsInv
  <2>1. ASSUME NEW r \in Rows
        PROVE  /\ row[r].on <=> r # later
               /\ ~row[r].gone
               /\ row[r].made = IF r = later THEN 0 ELSE key[r]
    <3> DEFINE x == row[r]
               on == r # later
               made == IF r = later THEN 0 ELSE key[r]
               price == key[r]
    <3>1. x = [on |-> on, gone |-> FALSE, price |-> price, end |-> price,
               made |-> made, bids |-> 0]
      BY <1>3
    <3> HIDE DEF x, on, made, price
    <3>2. x.on = on /\ x.gone = FALSE /\ x.made = made
      BY <3>1
    <3> QED BY <3>2 DEF x, on, made
  <2> QED BY <1>3, <1>4, <2>1 DEF RowsInv
<1>6. feed = [q \in Queries |-> NoFeed] /\ query \in Queries /\ changes = 0 /\ choices = 0
  BY DEF CatalogInit
<1>7. NoFeed \in Feed /\ NoFeed.now = NoList /\ NoFeed.got = NoList /\ NoFeed.call = "none"
  BY NoListFits DEF NoFeed, Feed
<1>8. FeedTyped
  BY <1>6, <1>7 DEF FeedTyped
<1>9. CallsInv
  BY <1>6, <1>7 DEF CallsInv
<1>10. \A q \in Queries : \A list \in Lists(q) : ListInv(q, list)
  BY <1>6, <1>7, NoListFits DEF Lists
<1> QED BY <1>5, <1>6, <1>8, <1>9, <1>10, ListBoundsAreNat DEF CatalogInv

LEMMA CatalogKeeps == ASSUME CatalogInv, [CatalogNext]_catalogVars PROVE CatalogInv'
<1>1. /\ RowsInv /\ FeedInv /\ changes \in 0 .. MaxChanges /\ choices \in 0 .. MaxChoices
      /\ query \in Queries
  BY DEF CatalogInv, FeedInv
<1>2. ASSUME UNCHANGED <<row, feed>>
      PROVE  RowsInv' /\ FeedInv'
  <2>1. RowsInv' /\ FeedTyped' /\ CallsInv'
    BY <1>1, <1>2 DEF RowsInv, FeedInv, FeedTyped, CallsInv
  <2>2. ASSUME NEW q \in Queries, NEW list \in Lists(q)' PROVE ListInv(q, list)'
    <3>1. ListInv(q, list)
      BY <1>1, <1>2 DEF FeedInv, Lists
    <3> QED BY <1>2, <3>1, SameRows
  <2> QED BY <2>1, <2>2 DEF FeedInv
<1>3. CASE UNCHANGED catalogVars
  BY <1>1, <1>2, <1>3 DEF catalogVars, CatalogInv, FeedInv
<1>4. ASSUME NEW q \in Queries, Choose(q) \/ ChooseTab(q)
      PROVE  CatalogInv'
  <2>1. Choose(q)
    BY <1>4 DEF ChooseTab
  <2>2. choices' \in 0 .. MaxChoices /\ query' \in Queries /\ UNCHANGED <<row, changes, feed>>
    BY <1>1, <2>1, ListBoundsAreNat DEF Choose
  <2> QED BY <1>1, <1>2, <2>2 DEF CatalogInv, FeedInv
<1>5. ASSUME NEW q \in Queries,
             \/ Fetch(q) \/ LoadMore(q) \/ NextAnswered(q) \/ AgainAnswered(q) \/ CallFails(q)
      PROVE  CatalogInv'
  <2>1. RowsInv' /\ FeedInv'
    BY <1>1, <1>5, FeedStepsKeep
  <2>2. UNCHANGED <<query, choices>>
    BY <1>5 DEF Fetch, LoadMore, NextAnswered, AgainAnswered, CallFails, Calls
  <2>3. changes' = changes \/ (changes < MaxChanges /\ changes' = changes + 1)
    BY <1>5 DEF Fetch, LoadMore, NextAnswered, AgainAnswered, CallFails
  <2> QED BY <1>1, <2>1, <2>2, <2>3, ListBoundsAreNat DEF CatalogInv, FeedInv
<1>6. ASSUME NEW r \in Rows, Bid(r) \/ Ends(r) \/ Listed(r) \/ Deleted(r)
      PROVE  CatalogInv'
  <2>1. RowsInv' /\ FeedInv'
    BY <1>1, <1>6, RowStepsKeep
  <2>2. changes < MaxChanges /\ changes' = changes + 1 /\ UNCHANGED <<query, choices>>
    BY <1>6 DEF Bid, Ends, Listed, Deleted, Changes
  <2> QED BY <1>1, <2>1, <2>2, ListBoundsAreNat DEF CatalogInv, FeedInv
<1> QED BY <1>3, <1>4, <1>5, <1>6 DEF CatalogNext

LEMMA CatalogHolds == CatalogSpec => []CatalogInv
<1>1. CatalogInit => CatalogInv
  BY CatalogStarts
<1>2. CatalogInv /\ [CatalogNext]_catalogVars => CatalogInv'
  BY CatalogKeeps
<1> QED BY <1>1, <1>2, PTL DEF CatalogSpec

(* The rows, the counters and the lists with their calls have their types, and *)
(* a cursor is the last row of its list.                                       *)
THEOREM CatalogTyped == CatalogSpec => []CatalogTypeOK
<1>1. ASSUME CatalogInv PROVE CatalogTypeOK
  <2>1. ASSUME NEW q \in Queries
        PROVE  feed[q].call \in {"none", "next", "again"}
    BY <1>1, FeedFields DEF CatalogInv, FeedTyped
  <2>2. ASSUME NEW q \in Queries, NEW list \in {feed[q].now, feed[q].got}
        PROVE  /\ DOMAIN list = DOMAIN NoList
               /\ list.items \in Seq(Rows) /\ list.cursor \in Rows \cup {NoId}
               /\ list.steady \subseteq q.among
               /\ list.cursor # NoId => list.cursor = list.items[Len(list.items)]
    <3>1. ListInv(q, list) /\ list \in List
      BY <1>1 DEF CatalogInv, Lists, ListInv
    <3>2. DOMAIN list = DOMAIN NoList
      BY <3>1 DEF List, NoList
    <3>3. list.items \in Seq(Rows) /\ list.cursor \in Rows \cup {NoId}
      BY <3>1 DEF List
    <3> QED BY <3>1, <3>2, <3>3 DEF ListInv, Selected
  <2> QED BY <1>1, <2>1, <2>2 DEF CatalogTypeOK, CatalogInv, RowsInv
<1> QED BY <1>1, CatalogHolds, PTL

(* Whatever is bid on, ends, is deleted or is listed while a reader scrolls,   *)
(* the list of new auctions shows no auction twice that was created alone, and *)
(* leaves out none such that was on all the while, unless its cursor was       *)
(* deleted; where nothing changes, the lists by end and by price are the whole *)
(* answer in its order, ties included, and the descending ones show every      *)
(* auction that ties with no other once and in its order, however many pages.  *)
THEOREM ListsStayWhole == CatalogSpec => []ListsAreWhole
<1>1. ASSUME CatalogInv PROVE ListsAreWhole
  <2>1. row \in [Rows -> Row]
    BY <1>1 DEF CatalogInv, RowsInv
  <2>2. ASSUME NEW q \in Queries
        PROVE  /\ ListInv(q, feed[q].now) /\ feed[q].now \in List
               /\ q.sort \in Sorts /\ Selected(q) \in SUBSET Rows
    BY <1>1, QueriesAreQueries DEF CatalogInv, Lists, ListInv, Selected
  <2>3. ASSUME NEW sort \in Sorts, NEW T \in SUBSET Rows, NEW items \in Seq(Rows),
               SortedIn(sort, T, items), NEW r \in T, Apart(sort, T, r)
        PROVE  /\ Times(r, items) <= 1
               /\ r \in {items[i] : i \in DOMAIN items} => Times(r, items) = 1
    <3> DEFINE places == {i \in DOMAIN items : items[i] = r}
    <3>1. DOMAIN items = 1 .. Len(items) /\ Len(items) \in Nat
      BY LenProperties
    <3>2. ASSUME NEW i \in places, NEW j \in places
          PROVE  i = j
      <4>1. ~Leads(sort, T, r, r)
        BY <2>1, <2>3, BeforeIsTotal DEF Leads
      <4>2. ~(i < j) /\ ~(j < i)
        BY <2>3, <4>1 DEF SortedIn
      <4> QED BY <3>1, <4>2
    <3>3. Times(r, items) = Cardinality(places)
      BY DEF Times
    <3>4. r \in {items[i] : i \in DOMAIN items} => places # {}
      OBVIOUS
    <3> HIDE DEF places
    <3>5. CASE places = {}
      BY <3>3, <3>4, <3>5, FS_EmptySet
    <3>6. CASE places # {}
      <4>1. PICK i \in places : places = {i}
        BY <3>2, <3>6
      <4>2. Cardinality({i}) = 1
        BY FS_Singleton
      <4>3. Times(r, items) = 1
        BY <3>3, <4>1, <4>2
      <4> QED BY <4>3
    <3> QED BY <3>5, <3>6
  <2>4. NewestIsWhole
    <3>1. SUFFICES ASSUME NEW q \in Queries, NEW r \in Rows,
                          q.sort = "newest", Alone("newest", r, Rows)
                   PROVE  /\ Times(r, feed[q].now.items) <= 1
                          /\ AtEnd(feed[q].now) /\ ~feed[q].now.cut /\ r \in feed[q].now.steady
                               => Times(r, feed[q].now.items) = 1
      BY DEF NewestIsWhole
    <3> DEFINE list == feed[q].now
    <3>2. NewList(list) /\ list.items \in Seq(Rows)
      BY <2>2, <3>1 DEF ListInv, List
    <3>3. Apart("newest", Rows, r) /\ "newest" \in Sorts /\ Rows \in SUBSET Rows
      BY <3>1 DEF Apart, Sorts
    <3>4. /\ Times(r, list.items) <= 1
          /\ r \in RowsOf(list) => Times(r, list.items) = 1
      BY <2>3, <3>2, <3>3 DEF NewList, RowsOf
    <3>5. AtEnd(list) /\ ~list.cut /\ r \in list.steady => r \in RowsOf(list)
      BY <3>2, <3>3 DEF AtEnd, NewList, Reached
    <3> QED BY <3>4, <3>5
  <2>5. CalmListIsWhole
    <3>1. SUFFICES ASSUME NEW q \in Queries, AtEnd(feed[q].now), feed[q].now.calm
                   PROVE  LET list == feed[q].now
                              T == Selected(q)
                          IN  /\ Descending(q.sort) =>
                                   /\ \A r \in T : Alone(q.sort, r, T) => Times(r, list.items) = 1
                                   /\ \A i, j \in DOMAIN list.items :
                                        /\ i < j
                                        /\ Alone(q.sort, list.items[i], T)
                                        /\ Alone(q.sort, list.items[j], T)
                                        => Before(q.sort, list.items[i], list.items[j])
                              /\ ~Descending(q.sort) => list.items = Ordered(q.sort, T)
      BY DEF CalmListIsWhole, WholeOf
    <3> DEFINE list == feed[q].now
               T == Selected(q)
    <3>2. /\ SortedIn(q.sort, T, list.items) /\ list.items \in Seq(Rows)
          /\ RowsOf(list) \subseteq T
          /\ \A r \in T : Apart(q.sort, T, r) => r \in RowsOf(list)
      BY <2>2, <3>1 DEF ListInv, CalmList, AtEnd, Reached, List
    <3>3. ASSUME Descending(q.sort)
          PROVE  /\ \A r \in T : Alone(q.sort, r, T) => Times(r, list.items) = 1
                 /\ \A i, j \in DOMAIN list.items :
                      i < j /\ Alone(q.sort, list.items[i], T) /\ Alone(q.sort, list.items[j], T)
                        => Before(q.sort, list.items[i], list.items[j])
      <4>1. \A r : Alone(q.sort, r, T) => Apart(q.sort, T, r)
        BY DEF Apart
      <4>2. \A r \in T : Alone(q.sort, r, T) => Times(r, list.items) = 1
        BY <2>2, <2>3, <3>2, <4>1 DEF RowsOf
      <4>3. \A i, j \in DOMAIN list.items :
              i < j /\ Alone(q.sort, list.items[i], T)
                => Before(q.sort, list.items[i], list.items[j])
        BY <3>2, <4>1 DEF SortedIn, Leads
      <4> QED BY <4>2, <4>3
    <3>4. ASSUME ~Descending(q.sort)
          PROVE  list.items = Ordered(q.sort, T)
      <4>1. \A r : Apart(q.sort, T, r)
        BY <3>4 DEF Apart
      <4>2. Sorted(q.sort, list.items) /\ RowsOf(list) = T
        BY <3>2, <4>1 DEF Sorted, SortedIn, Leads
      <4> QED BY <2>1, <2>2, <3>2, <4>2, OneOrder DEF RowsOf
    <3> QED BY <3>3, <3>4
  <2> QED BY <2>4, <2>5 DEF ListsAreWhole
<1> QED BY <1>1, CatalogHolds, PTL
=============================================================================
