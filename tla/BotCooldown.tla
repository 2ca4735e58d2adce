---------------------------- MODULE BotCooldown ----------------------------
(***************************************************************************)
(* The cooldowns of the bots: BotsService.tryPlaceBid over the Redis keys  *)
(* of RedisBotCooldownStore.  An attempt takes the auction's key, then the *)
(* key of the bot on that auction, bids, and deletes both keys when the    *)
(* bid was not placed.  Attempts of one turn run side by side, and every   *)
(* instance of the backend has its own turns: each command to Redis is a   *)
(* step of its own, and keys expire between any two of them.               *)
(***************************************************************************)
EXTENDS Integers, Sequences

CONSTANTS
  Attempts,   \* attempts that may be under way at once, over all instances
  Auctions,
  Bots,
  AuctionTtl, \* AUCTION_COOLDOWN_SEC
  BotMs,      \* BOT_COOLDOWN_MS
  MaxTime,    \* bound of the clock
  MaxDelay,   \* bound of the time from an attempt's first command to its last
  Faults      \* what a failing Redis may lead to: subset of {"STOP", "CLEAR"}

ASSUME DurationsAreNat ==
  /\ AuctionTtl \in Nat \ {0} /\ BotMs \in Nat \ {0}
  /\ MaxTime \in Nat /\ MaxDelay \in Nat
ASSUME AttemptsAreNotDone == "DONE" \notin Attempts

(* The cooldown of a bot is given in milliseconds, Redis takes whole seconds.  *)
BotTtl == (BotMs + 999) \div 1000

VARIABLES
  clock,
  expires,  \* for each key, when it expires; 0 without the key
  attempt,  \* the attempts under way
  setBy,    \* for each key, the attempt that set it, until its bid (history)
  bids,     \* for each key, when its last two bids were placed (history)
  taken     \* keys a repeated clearCooldown took from another attempt (history)

botVars == <<clock, expires, attempt, setBy, bids, taken>>

(* bot:auction:<auction> and bot:cooldown:<auction>:<bot>. *)
AuctionKey(a) == <<a>>
BotKey(a, b) == <<a, b>>
Keys == {<<a>> : a \in Auctions} \cup (Auctions \X Bots)

Free == [at |-> "IDLE"]
Stages == {"AUCTION", "BOT", "UNDO", "BID", "CLEAR"}
Attempt ==
  {Free} \cup [at : Stages, auction : Auctions, bot : Bots, since : 0 .. MaxTime,
               left : SUBSET Keys, again : BOOLEAN]

Live(k) == expires[k] # 0
KeysOf(x) == {AuctionKey(x.auction), BotKey(x.auction, x.bot)}

BotInit ==
  /\ clock = 0
  /\ expires = [k \in Keys |-> 0]
  /\ attempt = [i \in Attempts |-> Free]
  /\ setBy = [k \in Keys |-> "DONE"]
  /\ bids = [k \in Keys |-> <<>>]
  /\ taken = {}

Underway(i) == attempt[i] # Free

(* Keys expire; the attempts are prompt: MaxDelay bounds how late each may be. *)
Tick ==
  /\ clock < MaxTime
  /\ \A i \in Attempts :
       Underway(i) /\ attempt[i].at # "AUCTION" => clock - attempt[i].since < MaxDelay
  /\ clock' = clock + 1
  /\ expires' = [k \in Keys |-> IF expires[k] > clock + 1 THEN expires[k] ELSE 0]
  /\ setBy' = [k \in Keys |-> IF expires[k] > clock + 1 THEN setBy[k] ELSE "DONE"]
  /\ UNCHANGED <<attempt, bids, taken>>

Goto(i, step) == attempt' = [attempt EXCEPT ![i].at = step]
Leave(i) == attempt' = [attempt EXCEPT ![i] = Free]

(* One of the pairs of a turn, after its random delay.                         *)
Start(i, a, b) ==
  /\ ~Underway(i)
  /\ attempt' = [attempt EXCEPT ![i] =
       [at |-> "AUCTION", auction |-> a, bot |-> b, since |-> 0, left |-> {},
        again |-> FALSE]]
  /\ UNCHANGED <<clock, expires, setBy, bids, taken>>

(* SET key value EX ttl NX. *)
SetNx_Overwrites(i, k, ttl) ==   \* bug: SETEX instead of SET ... NX
  expires' = [expires EXCEPT ![k] = clock + ttl] /\ setBy' = [setBy EXCEPT ![k] = i]
SetNx(i, k, ttl) ==
  ~Live(k) /\ expires' = [expires EXCEPT ![k] = clock + ttl]
           /\ setBy' = [setBy EXCEPT ![k] = i]

TakeAuction(i) ==
  LET x == attempt[i]
  IN  /\ x.at = "AUCTION"
      /\ \/ /\ SetNx(i, AuctionKey(x.auction), AuctionTtl)
            /\ attempt' = [attempt EXCEPT ![i].at = "BOT", ![i].since = clock]
         \/ /\ Live(AuctionKey(x.auction))
            /\ Leave(i)
            /\ UNCHANGED <<expires, setBy>>
      /\ UNCHANGED <<clock, bids, taken>>

TakeBot(i) ==
  LET x == attempt[i]
  IN  /\ x.at = "BOT"
      /\ \/ SetNx(i, BotKey(x.auction, x.bot), BotTtl) /\ Goto(i, "BID")
         \/ /\ Live(BotKey(x.auction, x.bot))
            /\ Goto(i, "UNDO")
            /\ UNCHANGED <<expires, setBy>>
      /\ UNCHANGED <<clock, bids, taken>>

(* DEL key: whoever set it. *)
Delete(k) ==
  expires' = [expires EXCEPT ![k] = 0] /\ setBy' = [setBy EXCEPT ![k] = "DONE"]

(* The bot's key was taken: the auction's is given back.                       *)
Undo_Nothing(i) ==   \* bug: the auction's key stays
  attempt[i].at = "UNDO" /\ Leave(i) /\ UNCHANGED <<clock, expires, setBy, bids, taken>>
Undo(i) ==
  /\ attempt[i].at = "UNDO"
  /\ Delete(AuctionKey(attempt[i].auction))
  /\ Leave(i)
  /\ UNCHANGED <<clock, bids, taken>>

LastTwo(s, t) == IF s = <<>> THEN <<t>> ELSE <<s[Len(s)], t>>

BidPlaced(i) ==
  /\ attempt[i].at = "BID"
  /\ Leave(i)
  /\ setBy' = [k \in Keys |-> IF setBy[k] = i THEN "DONE" ELSE setBy[k]]
  /\ bids' = [k \in Keys |-> IF k \in KeysOf(attempt[i]) THEN LastTwo(bids[k], clock)
                             ELSE bids[k]]
  /\ UNCHANGED <<clock, expires, taken>>

(* validateBid, computeBidPrice, placeBidAsBot: no bid, or an exception.       *)
BidNotPlaced(i) ==
  /\ attempt[i].at = "BID"
  /\ attempt' = [attempt EXCEPT ![i].at = "CLEAR", ![i].left = KeysOf(attempt[i])]
  /\ UNCHANGED <<clock, expires, setBy, bids, taken>>

(* clearCooldown deletes both keys, in either order.  A repeated one may       *)
(* delete what others have set since.                                          *)
Clear(i) ==
  /\ attempt[i].at = "CLEAR"
  /\ \E k \in attempt[i].left :
       /\ Delete(k)
       /\ taken' = IF attempt[i].again /\ Live(k) /\ setBy[k] # i
                   THEN taken \cup {k} ELSE taken
       /\ IF attempt[i].left = {k} THEN Leave(i)
          ELSE attempt' = [attempt EXCEPT ![i].left = @ \ {k}]
  /\ UNCHANGED <<clock, bids>>

(* Redis fails or the process stops: the keys stay until they expire.          *)
Stops(i) ==
  /\ "STOP" \in Faults
  /\ Underway(i)
  /\ Leave(i)
  /\ setBy' = [k \in Keys |-> IF setBy[k] = i THEN "DONE" ELSE setBy[k]]
  /\ UNCHANGED <<clock, expires, bids, taken>>

(* A clearCooldown that fails is inside the try block: it is called again.     *)
ClearAgain(i) ==
  /\ "CLEAR" \in Faults
  /\ attempt[i].at = "CLEAR"
  /\ attempt' = [attempt EXCEPT ![i].left = KeysOf(attempt[i]),
                                 ![i].again = TRUE]
  /\ UNCHANGED <<clock, expires, setBy, bids, taken>>

BotNext ==
  \/ Tick
  \/ \E i \in Attempts, a \in Auctions, b \in Bots : Start(i, a, b)
  \/ \E i \in Attempts :
       \/ TakeAuction(i) \/ TakeBot(i) \/ Undo(i)
       \/ BidPlaced(i) \/ BidNotPlaced(i) \/ Clear(i)
       \/ ClearAgain(i) \/ Stops(i)

BotSpec == BotInit /\ [][BotNext]_botVars

-----------------------------------------------------------------------------
(* Properties *)

BotTypeOK ==
  /\ clock \in 0 .. MaxTime
  /\ expires \in [Keys -> 0 .. MaxTime + AuctionTtl + (BotMs \div 1000) + 1]
  /\ attempt \in [Attempts -> Attempt]
  /\ setBy \in [Keys -> Attempts \cup {"DONE"}]
  /\ bids \in [Keys -> Seq(0 .. MaxTime)]
  /\ taken \subseteq Keys

Ttl(k) == IF Len(k) = 1 THEN AuctionTtl ELSE BotTtl
KeepsApart(k, distance) == Len(bids[k]) = 2 => bids[k][2] - bids[k][1] >= distance

(* Bots do not crowd an auction, and none outbids the others again and again:  *)
(* attempts that are shorter than a cooldown keep, up to their own length, the *)
(* distance it asks for, whichever of them fail, stop or give their keys back, *)
(* unless a clearCooldown that ran twice took the key from another attempt.    *)
Spaced == \A k \in Keys \ taken : KeepsApart(k, Ttl(k) - MaxDelay)

(* An attempt that placed no bid leaves no cooldown: a key that is there is an *)
(* attempt's that goes on, a placed bid's, or one's that was cut off.          *)
KeysHaveReasons ==
  \A k \in Keys : Live(k) /\ setBy[k] # "DONE" =>
    Underway(setBy[k]) /\ k \in KeysOf(attempt[setBy[k]])
=============================================================================
