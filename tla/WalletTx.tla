------------------------------ MODULE WalletTx ------------------------------
(***************************************************************************)
(* WalletService inside its database transactions, statement by statement: *)
(* READ COMMITTED reads, UPDATEs that lock the user's row until the end of *)
(* the transaction, the deadlock detector, COMMIT and ROLLBACK.            *)
(*                                                                         *)
(* AuctionHouse takes a transaction for one step; this module is about     *)
(* what that hides: between the read of a balance or of the ledger and the *)
(* UPDATE it decides on, other transactions commit.                        *)
(***************************************************************************)
EXTENDS Integers, Sequences, FiniteSets, Functions

CONSTANTS
  Users,
  Refs,      \* the bids and orders the calls are about
  Txs,       \* transactions
  Program,   \* the wallet calls each makes, in order
  After,     \* the transactions each waits for before it starts
  Held,      \* holdForBid calls that committed before the first of them
  Balance,   \* User.balance then
  MayFail,   \* whether a query may fail
  None

TypeOf(op) ==
  CASE op = "HOLD" -> "BID_HOLD" [] op = "RELEASE" -> "BID_RELEASE"
    [] op = "SETTLE" -> "ADJUSTMENT" [] OTHER -> "PAYMENT"

Calls == [op : {"HOLD", "RELEASE", "PAY", "CONVERT", "SETTLE"}, user : Users,
          amount : Nat, ref : Refs]

(* A transaction makes a kind of call once for a bid or an order, so that the  *)
(* rows, which have no ids here, differ.                                       *)
ASSUME ProgramIsOfCalls ==
  /\ DOMAIN Program = Txs
  /\ \A t \in Txs :
       /\ Program[t] \in Seq(Calls)
       /\ \A i, j \in DOMAIN Program[t] :
            /\ TypeOf(Program[t][i].op) = TypeOf(Program[t][j].op)
            /\ Program[t][i].ref = Program[t][j].ref
            => i = j
ASSUME AfterIsTotal == After \in [Txs -> SUBSET Txs]
ASSUME HeldWasHeld ==
  IsFiniteSet(Held) /\ Held \subseteq {c \in Calls : c.op = "HOLD"}
ASSUME BalanceIsNat == Balance \in [Users -> Nat]
ASSUME NoneIsNobody == None \notin Users \cup Txs

VARIABLES
  balance,  \* User.balance, committed
  ledger,   \* WalletTransaction, committed: one record for each row
  owner,    \* the transaction whose UPDATE holds the lock of the user's row
  tx        \* state of each transaction

vars == <<balance, ledger, owner, tx>>

-----------------------------------------------------------------------------
(* saw is history: the transactions that had committed when the balance or the *)
(* releases were read that the row was decided on.                             *)
Row(t, call, type, amount, saw) ==
  [tx |-> t, type |-> type, user |-> call.user, amount |-> amount, ref |-> call.ref,
   saw |-> saw]

HeldRows == {Row(None, c, "BID_HOLD", -c.amount, {}) : c \in Held}

Init ==
  /\ balance = Balance
  /\ ledger = HeldRows
  /\ owner = [u \in Users |-> None]
  /\ tx = [t \in Txs |-> [status |-> "NEW", at |-> 1, step |-> "READ",
                          delta |-> [u \in Users |-> 0], rows |-> {}, saw |-> {}]]

Call(t) == Program[t][tx[t].at]
Running(t, step) ==
  tx[t].status = "OPEN" /\ tx[t].at <= Len(Program[t]) /\ tx[t].step = step
Ended(t) == tx[t].status \in {"COMMITTED", "ABORTED"}

Debits == {"HOLD", "PAY"}

(* What a statement of t sees: what is committed, and what t wrote itself. *)
BalanceSeen(t, u) == balance[u] + tx[t].delta[u]
RowsSeen(t) == ledger \cup tx[t].rows

(* The tests before a debit and before a release. *)
Enough_Unchecked(t, c) == TRUE   \* bug: the balance is not looked at
Enough(t, c) == BalanceSeen(t, c.user) >= c.amount
AlreadyReleased_Never(t, c) == FALSE   \* bug: releaseBidHold is not idempotent
AlreadyReleased(t, c) ==
  \E r \in RowsSeen(t) : r.type = "BID_RELEASE" /\ r.ref = c.ref

Committed == {t \in Txs : tx[t].status = "COMMITTED"} \cup {None}

Goto(t, at, step, saw) ==
  tx' = [tx EXCEPT ![t].at = at, ![t].step = step, ![t].saw = saw]

Begin(t) ==
  /\ tx[t].status = "NEW"
  /\ \A s \in After[t] : Ended(s)
  /\ tx' = [tx EXCEPT ![t].status = "OPEN"]
  /\ UNCHANGED <<balance, ledger, owner>>

(* ROLLBACK: nothing of the transaction stays, and its row locks are free. *)
Rollback_KeepsLocks(t) ==   \* bug: the client is released without ROLLBACK
  /\ tx' = [tx EXCEPT ![t].status = "ABORTED"]
  /\ UNCHANGED <<balance, ledger, owner>>
Rollback(t) ==
  /\ tx' = [tx EXCEPT ![t].status = "ABORTED"]
  /\ owner' = [u \in Users |-> IF owner[u] = t THEN None ELSE owner[u]]
  /\ UNCHANGED <<balance, ledger>>

(* holdForBid and pay read the balance; a refusal makes the caller throw.      *)
ReadBalance(t) ==
  /\ Running(t, "READ")
  /\ Call(t).op \in Debits
  /\ IF Enough(t, Call(t))
     THEN Goto(t, tx[t].at, "UPDATE", Committed) /\ UNCHANGED <<balance, ledger, owner>>
     ELSE Rollback(t)

CountReleases(t) ==
  /\ Running(t, "READ")
  /\ Call(t).op = "RELEASE"
  /\ IF AlreadyReleased(t, Call(t)) THEN Goto(t, tx[t].at + 1, "READ", {})
     ELSE Goto(t, tx[t].at, "UPDATE", Committed)
  /\ UNCHANGED <<balance, ledger, owner>>

(* settleSeller and convertHoldToPayment read nothing; the latter leaves the   *)
(* balance alone.                                                              *)
NoRead(t) ==
  /\ Running(t, "READ")
  /\ Call(t).op \in {"SETTLE", "CONVERT"}
  /\ Goto(t, tx[t].at, IF Call(t).op = "SETTLE" THEN "UPDATE" ELSE "INSERT", {})
  /\ UNCHANGED <<balance, ledger, owner>>

Credit(c) == IF c.op \in Debits THEN -c.amount ELSE c.amount

(* UPDATE "User" SET balance = balance + amount: on the row as it is when the  *)
(* lock is granted, whatever was read before.                                  *)
UpdatedBy_WhatWasRead(t, c) ==   \* bug: balance set from the value read at Begin
  Credit(c) + Balance[c.user] - balance[c.user]
UpdatedBy(t, c) == tx[t].delta[c.user] + Credit(c)

Update(t) ==
  LET u == Call(t).user
  IN  /\ Running(t, "UPDATE")
      /\ owner[u] \in {None, t}
      /\ owner' = [owner EXCEPT ![u] = t]
      /\ tx' = [tx EXCEPT ![t].delta[u] = UpdatedBy(t, Call(t)), ![t].step = "INSERT"]
      /\ UNCHANGED <<balance, ledger>>

Insert(t) ==
  LET c == Call(t)
      amount == IF c.op = "CONVERT" THEN -c.amount ELSE Credit(c)
  IN  /\ Running(t, "INSERT")
      /\ tx' = [tx EXCEPT ![t].rows = @ \cup {Row(t, c, TypeOf(c.op), amount, tx[t].saw)},
                          ![t].at = @ + 1, ![t].step = "READ", ![t].saw = {}]
      /\ UNCHANGED <<balance, ledger, owner>>

Commit(t) ==
  /\ tx[t].status = "OPEN" /\ tx[t].at > Len(Program[t])
  /\ balance' = [u \in Users |-> balance[u] + tx[t].delta[u]]
  /\ ledger' = ledger \cup tx[t].rows
  /\ owner' = [u \in Users |-> IF owner[u] = t THEN None ELSE owner[u]]
  /\ tx' = [tx EXCEPT ![t].status = "COMMITTED"]

QueryFails(t) ==
  /\ MayFail
  /\ tx[t].status = "OPEN"
  /\ Rollback(t)

(* PostgreSQL aborts a transaction of a cycle of lock waits. *)
WaitsFor(t, s) ==
  t # s /\ Running(t, "UPDATE") /\ owner[Call(t).user] = s
InCycle(t) ==
  \E S \in SUBSET {x \in Txs : \E y \in Txs : WaitsFor(x, y)} :
    /\ t \in S
    /\ \A x \in S : (\E y \in S : WaitsFor(x, y)) /\ (\E y \in S : WaitsFor(y, x))

DeadlockVictim(t) == InCycle(t) /\ Rollback(t)

Step(t) ==
  \/ Begin(t) \/ ReadBalance(t) \/ CountReleases(t) \/ NoRead(t)
  \/ Update(t) \/ Insert(t) \/ Commit(t) \/ DeadlockVictim(t)

Next == \E t \in Txs : Step(t) \/ QueryFails(t)

(* The server runs every open transaction on, and its detector finds a cycle.  *)
Spec == Init /\ [][Next]_vars /\ \A t \in Txs : WF_vars(Step(t))

-----------------------------------------------------------------------------
(* Properties *)

AmountOf(rows) == SumFunctionOnSet([r \in rows |-> r.amount], rows)

(* A row that changed no balance: convertHoldToPayment's.                      *)
Converts(r) ==
  /\ r.type = "PAYMENT" /\ r.tx # None
  /\ \E i \in DOMAIN Program[r.tx] :
       Program[r.tx][i].op = "CONVERT" /\ Program[r.tx][i].ref = r.ref

Moved(rows, u) == AmountOf({r \in rows : r.user = u /\ ~Converts(r)})
Opening(u) == Balance[u] - AmountOf({r \in HeldRows : r.user = u})

(* No update is lost: whatever transactions read before others committed, and  *)
(* whichever abort, a balance is the opening one plus the ledger's rows.       *)
BalanceIsLedger == \A u \in Users : balance[u] = Opening(u) + Moved(ledger, u)

(* Neither was decided in sight of the other: no lock of the code is taken     *)
(* before the read, so that two transactions may pass the same test.           *)
Blind(r, s) == r.tx # s.tx /\ r.tx \notin s.saw /\ s.tx \notin r.saw

(* A hold is paid back by each finalize, retry and direct payment that ran to  *)
(* its end, or was already when it looked: never not at all, whatever failed   *)
(* in between, and twice only by two that both looked before either committed. *)
Releases(b) == {r \in ledger : r.type = "BID_RELEASE" /\ r.ref = b}
ReleasedOnce ==
  /\ \A r, s \in ledger :
       r.type = "BID_RELEASE" /\ s \in Releases(r.ref) => r = s \/ Blind(r, s)
  /\ \A t \in Txs : tx[t].status = "COMMITTED" =>
       \A i \in DOMAIN Program[t] :
         Program[t][i].op = "RELEASE" => Releases(Program[t][i].ref) # {}

(* A user is in debt only if two bids or payments of the user each tested a    *)
(* balance without the other: no credit, refund, abort or later statement of   *)
(* another transaction makes a debit of what a test has found.                 *)
IsDebit(r, u) ==
  r.user = u /\ r.type \in {"BID_HOLD", "PAYMENT"} /\ ~Converts(r)
DebtIsOfBlindDebits ==
  \A u \in Users : balance[u] < 0 =>
    \E r, s \in ledger : IsDebit(r, u) /\ IsDebit(s, u) /\ Blind(r, s)

(* Every transaction ends: row locks taken in different orders by a payment    *)
(* and a finalize block nobody for ever.                                       *)
AllEnd == <>(\A t \in Txs : Ended(t))
=============================================================================
