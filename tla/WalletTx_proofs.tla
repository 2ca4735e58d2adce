--------------------------- MODULE WalletTx_proofs ---------------------------
(***************************************************************************)
(* Theorems about WalletTx, for any programs of wallet calls and any       *)
(* number of transactions: where read and UPDATE are two statements, and   *)
(* any statement may fail.                                                 *)
(***************************************************************************)
EXTENDS WalletTx, Sums, TLAPS

Types == {"BID_HOLD", "BID_RELEASE", "ADJUSTMENT", "PAYMENT"}
Sight == SUBSET (Txs \cup {None})
Rows == [tx : Txs \cup {None}, type : Types, user : Users, amount : Int, ref : Refs,
         saw : Sight]
TxRow == [status : {"NEW", "OPEN", "COMMITTED", "ABORTED"}, at : Nat \ {0},
          step : {"READ", "UPDATE", "INSERT"}, delta : [Users -> Int],
          rows : SUBSET Rows, saw : Sight]

WalletTypeOK ==
  /\ balance \in [Users -> Int]
  /\ ledger \in SUBSET Rows /\ IsFiniteSet(ledger)
  /\ tx \in [Txs -> TxRow]
  /\ \A t \in Txs : IsFiniteSet(tx[t].rows)

-----------------------------------------------------------------------------
(* Sums of rows *)

(* The amounts of some of the rows are summed alike whichever rows are known.  *)
LEMMA AmountOfPart ==
  ASSUME NEW S, IsFiniteSet(S), NEW T \in SUBSET S, \A r \in S : r.amount \in Int
  PROVE  /\ IsFiniteSet(T) /\ AmountOf(T) \in Int
         /\ SumFunctionOnSet([r \in S |-> r.amount], T) = AmountOf(T)
<1> DEFINE v == [r \in S |-> r.amount]
           w == [r \in T |-> r.amount]
<1>1. IsFiniteSet(T)
  BY FS_Subset
<1>2. \A r \in T : w[r] \in Int /\ v[r] = w[r]
  OBVIOUS
<1>3. AmountOf(T) = SumFunctionOnSet(w, T)
  BY DEF AmountOf
<1> HIDE DEF v, w
<1>4. SumFunctionOnSet(v, T) = SumFunctionOnSet(w, T) /\ SumFunctionOnSet(w, T) \in Int
  BY <1>1, <1>2, SumSame, SumTake
<1> QED BY <1>1, <1>3, <1>4 DEF v

LEMMA AmountsAdd ==
  ASSUME NEW S, NEW T, IsFiniteSet(S), IsFiniteSet(T), S \cap T = {},
         \A r \in S \cup T : r.amount \in Int
  PROVE  /\ AmountOf(S) \in Int /\ AmountOf(T) \in Int
         /\ AmountOf(S \cup T) = AmountOf(S) + AmountOf(T)
<1> DEFINE both == S \cup T
           v == [r \in both |-> r.amount]
<1>1. /\ IsFiniteSet(both) /\ S \in SUBSET both /\ T \in SUBSET both
      /\ both \in SUBSET both /\ both = S \cup T
  BY FS_Union
<1>2. \A r \in S \cup T : v[r] \in Int
  OBVIOUS
<1>3. \A r \in both : r.amount \in Int
  OBVIOUS
<1> HIDE DEF both
<1>4. /\ SumFunctionOnSet(v, S) = AmountOf(S) /\ AmountOf(S) \in Int
      /\ SumFunctionOnSet(v, T) = AmountOf(T) /\ AmountOf(T) \in Int
      /\ SumFunctionOnSet(v, both) = AmountOf(both)
  BY <1>1, <1>3, AmountOfPart
<1> HIDE DEF v
<1>5. SumFunctionOnSet(v, S \cup T) = SumFunctionOnSet(v, S) + SumFunctionOnSet(v, T)
  BY <1>2, SumUnion
<1> QED BY <1>1, <1>4, <1>5

(* So what rows moved is what each part of them moved.                         *)
LEMMA MovedAdds ==
  ASSUME NEW S \in SUBSET Rows, NEW T \in SUBSET Rows, IsFiniteSet(S), IsFiniteSet(T),
         S \cap T = {}, NEW u
  PROVE  /\ Moved(S, u) \in Int /\ Moved(T, u) \in Int
         /\ Moved(S \cup T, u) = Moved(S, u) + Moved(T, u)
<1> DEFINE Mine(R) == {r \in R : r.user = u /\ ~Converts(r)}
           s == Mine(S)
           t == Mine(T)
           both == Mine(S \cup T)
<1>1. /\ both = s \cup t /\ s \cap t = {}
      /\ \A r \in s \cup t : r.amount \in Int
  BY DEF Rows
<1>2. IsFiniteSet(s) /\ IsFiniteSet(t)
  BY FS_Subset
<1>3. /\ Moved(S, u) = AmountOf(s) /\ Moved(T, u) = AmountOf(t)
      /\ Moved(S \cup T, u) = AmountOf(both)
  BY DEF Moved
<1> HIDE DEF s, t, both
<1>4. /\ AmountOf(s) \in Int /\ AmountOf(t) \in Int
      /\ AmountOf(s \cup t) = AmountOf(s) + AmountOf(t)
  BY <1>1, <1>2, AmountsAdd
<1> QED BY <1>1, <1>3, <1>4

LEMMA MovedByOne ==
  ASSUME NEW y \in Rows, NEW u
  PROVE  Moved({y}, u) = IF y.user = u /\ ~Converts(y) THEN y.amount ELSE 0
<1> DEFINE mine == {r \in {y} : r.user = u /\ ~Converts(r)}
           v == [r \in mine |-> r.amount]
           rest == mine \ {y}
           none == {}
<1>1. Moved({y}, u) = SumFunctionOnSet(v, mine)
  BY DEF Moved, AmountOf
<1>2. IsFiniteSet(mine) /\ \A r \in mine : v[r] \in Int
  BY FS_Singleton, FS_Subset DEF Rows
<1>3. CASE y.user = u /\ ~Converts(y)
  <2>1. y \in mine /\ rest = none /\ v[y] = y.amount
    BY <1>3
  <2> HIDE DEF mine, v
  <2>2. /\ SumFunctionOnSet(v, mine) = v[y] + SumFunctionOnSet(v, rest)
        /\ SumFunctionOnSet(v, none) = 0
    BY <1>2, <2>1, SumTake DEF none
  <2> HIDE DEF none, rest
  <2>3. y.amount \in Int
    BY DEF Rows
  <2> QED BY <1>1, <1>3, <2>1, <2>2, <2>3
<1>4. CASE ~(y.user = u /\ ~Converts(y))
  <2>1. mine = none
    BY <1>4
  <2> HIDE DEF mine, v
  <2>2. SumFunctionOnSet(v, none) = 0
    BY <1>2, SumTake DEF none
  <2> HIDE DEF none
  <2> QED BY <1>1, <1>4, <2>1, <2>2
<1> QED BY <1>3, <1>4

-----------------------------------------------------------------------------
(* What a step does *)

Others(t) == \A s \in Txs \ {t} : tx'[s] = tx[s]
Still == balance' = balance /\ ledger' = ledger
KeepsRows(t) == tx'[t].delta = tx[t].delta /\ tx'[t].rows = tx[t].rows
Credits(t, c, u) == tx[t].delta[u] + (IF u = c.user THEN Credit(c) ELSE 0)
RowOf(t, c) ==
  Row(t, c, TypeOf(c.op), IF c.op = "CONVERT" THEN -c.amount ELSE Credit(c), tx[t].saw)

Starts(t) ==
  /\ tx[t].status = "NEW" /\ tx'[t].status = "OPEN"
  /\ Still /\ KeepsRows(t) /\ tx'[t].at = tx[t].at /\ tx'[t].step = tx[t].step
  /\ tx'[t].saw = tx[t].saw
Stops(t) ==
  /\ tx[t].status = "OPEN" /\ tx'[t].status = "ABORTED" /\ Still /\ KeepsRows(t)
  /\ tx'[t].saw = tx[t].saw
Reads(t) ==
  /\ Running(t, "READ") /\ tx'[t].status = "OPEN"
  /\ Still /\ KeepsRows(t) /\ tx'[t].at = tx[t].at
  /\ \/ /\ tx'[t].step = "UPDATE" /\ Call(t).op # "CONVERT"
        /\ Call(t).op \in Debits => Enough(t, Call(t))
        /\ Call(t).op = "RELEASE" => ~AlreadyReleased(t, Call(t))
        /\ tx'[t].saw = IF Call(t).op = "SETTLE" THEN {} ELSE Committed
     \/ tx'[t].step = "INSERT" /\ Call(t).op = "CONVERT" /\ tx'[t].saw = {}
Skips(t) ==
  /\ Running(t, "READ") /\ tx'[t].status = "OPEN"
  /\ Call(t).op = "RELEASE" /\ AlreadyReleased(t, Call(t))
  /\ Still /\ KeepsRows(t) /\ tx'[t].at = tx[t].at + 1 /\ tx'[t].step = "READ"
  /\ tx'[t].saw = {}
Updates(t) ==
  /\ Running(t, "UPDATE") /\ tx'[t].status = "OPEN"
  /\ Still /\ tx'[t].rows = tx[t].rows /\ tx'[t].at = tx[t].at /\ tx'[t].step = "INSERT"
  /\ tx'[t].saw = tx[t].saw
  /\ tx'[t].delta = [u \in Users |-> Credits(t, Call(t), u)]
Inserts(t) ==
  /\ Running(t, "INSERT") /\ tx'[t].status = "OPEN"
  /\ Still /\ tx'[t].delta = tx[t].delta /\ tx'[t].rows = tx[t].rows \cup {RowOf(t, Call(t))}
  /\ tx'[t].at = tx[t].at + 1 /\ tx'[t].step = "READ" /\ tx'[t].saw = {}
Commits(t) ==
  /\ tx[t].status = "OPEN" /\ tx[t].at > Len(Program[t]) /\ tx'[t].status = "COMMITTED"
  /\ KeepsRows(t) /\ tx'[t].saw = tx[t].saw
  /\ balance' = [u \in Users |-> balance[u] + tx[t].delta[u]]
  /\ ledger' = ledger \cup tx[t].rows
Does(t) ==
  \/ Starts(t) \/ Stops(t) \/ Reads(t) \/ Skips(t) \/ Updates(t) \/ Inserts(t) \/ Commits(t)
WalletStep ==
  (\E t \in Txs : Others(t) /\ Does(t)) \/ UNCHANGED <<balance, ledger, tx>>

(* The call a running transaction is at is one of its program.                 *)
LEMMA CallIsCall ==
  ASSUME WalletTypeOK, NEW t \in Txs, tx[t].at <= Len(Program[t])
  PROVE  /\ tx[t].at \in DOMAIN Program[t] /\ Call(t) = Program[t][tx[t].at]
         /\ Call(t) \in Calls
<1>1. Program[t] \in Seq(Calls) /\ tx[t].at \in Nat \ {0}
  BY ProgramIsOfCalls DEF WalletTypeOK, TxRow
<1> QED BY <1>1 DEF Call

LEMMA StepEffects ==
  ASSUME WalletTypeOK, [Next]_vars
  PROVE  WalletStep
<1>0. /\ tx \in [Txs -> TxRow]
      /\ \A t \in Txs : tx[t] \in TxRow /\ tx[t].delta \in [Users -> Int]
  BY DEF WalletTypeOK, TxRow
<1>1. ASSUME NEW t \in Txs, Rollback(t), tx[t].status = "OPEN"
      PROVE  Others(t) /\ Stops(t)
  BY <1>0, <1>1 DEF Rollback, Others, Stops, Still, KeepsRows, TxRow
<1>2. ASSUME NEW t \in Txs, NEW at, NEW step, NEW saw, Goto(t, at, step, saw)
      PROVE  /\ Others(t) /\ KeepsRows(t) /\ tx'[t].status = tx[t].status
             /\ tx'[t].at = at /\ tx'[t].step = step /\ tx'[t].saw = saw
  BY <1>0, <1>2 DEF Goto, Others, KeepsRows, TxRow
<1>3. ASSUME NEW t \in Txs, Begin(t)
      PROVE  Others(t) /\ Starts(t)
  BY <1>0, <1>3 DEF Begin, Others, Starts, Still, KeepsRows, TxRow
<1>4. ASSUME NEW t \in Txs, ReadBalance(t)
      PROVE  Others(t) /\ Does(t)
  <2>1. Running(t, "READ") /\ Call(t).op \in Debits /\ tx[t].status = "OPEN"
    BY <1>4 DEF ReadBalance, Running
  <2>2. CASE Enough(t, Call(t))
    <3>1. Goto(t, tx[t].at, "UPDATE", Committed) /\ Still
      BY <1>4, <2>2 DEF ReadBalance, Still
    <3> QED BY <1>2, <2>1, <2>2, <3>1 DEF Does, Reads, Debits
  <2>3. CASE ~Enough(t, Call(t))
    BY <1>1, <1>4, <2>1, <2>3 DEF ReadBalance, Does
  <2> QED BY <2>2, <2>3
<1>5. ASSUME NEW t \in Txs, CountReleases(t)
      PROVE  Others(t) /\ Does(t)
  <2>1. Running(t, "READ") /\ Call(t).op = "RELEASE" /\ tx[t].status = "OPEN" /\ Still
    BY <1>5 DEF CountReleases, Running, Still
  <2>2. CASE AlreadyReleased(t, Call(t))
    <3>1. Goto(t, tx[t].at + 1, "READ", {})
      BY <1>5, <2>2 DEF CountReleases
    <3> QED BY <1>2, <2>1, <2>2, <3>1 DEF Does, Skips
  <2>3. CASE ~AlreadyReleased(t, Call(t))
    <3>1. Goto(t, tx[t].at, "UPDATE", Committed)
      BY <1>5, <2>3 DEF CountReleases
    <3> QED BY <1>2, <2>1, <2>3, <3>1 DEF Does, Reads, Debits
  <2> QED BY <2>2, <2>3
<1>6. ASSUME NEW t \in Txs, NoRead(t)
      PROVE  Others(t) /\ Does(t)
  <2>1. /\ Running(t, "READ") /\ Call(t).op \in {"SETTLE", "CONVERT"}
        /\ tx[t].status = "OPEN" /\ Still
    BY <1>6 DEF NoRead, Running, Still
  <2>2. CASE Call(t).op = "SETTLE"
    <3>1. Goto(t, tx[t].at, "UPDATE", {})
      BY <1>6, <2>2 DEF NoRead
    <3> QED BY <1>2, <2>1, <2>2, <3>1 DEF Does, Reads, Debits
  <2>3. CASE Call(t).op = "CONVERT"
    <3>1. Goto(t, tx[t].at, "INSERT", {})
      BY <1>6, <2>3 DEF NoRead
    <3> QED BY <1>2, <2>1, <2>3, <3>1 DEF Does, Reads
  <2> QED BY <2>1, <2>2, <2>3
<1>7. ASSUME NEW t \in Txs, Update(t)
      PROVE  Others(t) /\ Updates(t)
  <2> DEFINE u == Call(t).user
             d == [tx[t].delta EXCEPT ![u] = UpdatedBy(t, Call(t))]
  <2>1. /\ Running(t, "UPDATE") /\ tx[t].status = "OPEN" /\ Still
        /\ tx' = [tx EXCEPT ![t].delta[u] = UpdatedBy(t, Call(t)), ![t].step = "INSERT"]
    BY <1>7 DEF Update, Running, Still
  <2>2. d = [x \in Users |-> Credits(t, Call(t), x)]
    <3>1. tx[t].delta \in [Users -> Int]
      BY <1>0
    <3> QED BY <3>1 DEF Credits, UpdatedBy
  <2>3. /\ Others(t) /\ tx'[t].status = tx[t].status /\ tx'[t].rows = tx[t].rows
        /\ tx'[t].at = tx[t].at /\ tx'[t].step = "INSERT" /\ tx'[t].delta = d
        /\ tx'[t].saw = tx[t].saw
    BY <1>0, <2>1 DEF Others, TxRow
  <2> HIDE DEF d
  <2> QED BY <2>1, <2>2, <2>3 DEF Updates
<1>8. ASSUME NEW t \in Txs, Insert(t)
      PROVE  Others(t) /\ Inserts(t)
  <2> DEFINE new == RowOf(t, Call(t))
  <2>1. /\ Running(t, "INSERT") /\ tx[t].status = "OPEN" /\ Still
        /\ tx' = [tx EXCEPT ![t].rows = @ \cup {new}, ![t].at = @ + 1, ![t].step = "READ",
                            ![t].saw = {}]
    BY <1>8 DEF Insert, Running, Still, RowOf
  <2> HIDE DEF new
  <2>2. /\ Others(t) /\ tx'[t].status = tx[t].status /\ tx'[t].rows = tx[t].rows \cup {new}
        /\ tx'[t].at = tx[t].at + 1 /\ tx'[t].step = "READ" /\ tx'[t].delta = tx[t].delta
        /\ tx'[t].saw = {}
    BY <1>0, <2>1 DEF Others, TxRow
  <2> QED BY <2>1, <2>2 DEF Inserts, new
<1>9. ASSUME NEW t \in Txs, Commit(t)
      PROVE  Others(t) /\ Commits(t)
  BY <1>0, <1>9 DEF Commit, Others, Commits, KeepsRows, TxRow
<1>10. ASSUME NEW t \in Txs, Step(t) \/ QueryFails(t)
       PROVE  Others(t) /\ Does(t)
  <2>1. CASE DeadlockVictim(t) \/ QueryFails(t)
    <3>1. Rollback(t) /\ tx[t].status = "OPEN"
      BY <2>1 DEF DeadlockVictim, QueryFails, InCycle, WaitsFor, Running
    <3> QED BY <1>1, <3>1 DEF Does
  <2> QED
    BY <1>3, <1>4, <1>5, <1>6, <1>7, <1>8, <1>9, <1>10, <2>1 DEF Step, Does
<1>11. CASE UNCHANGED vars
  BY <1>11 DEF vars, WalletStep
<1> QED BY <1>10, <1>11 DEF Next, WalletStep

LEMMA RowIsRow ==
  ASSUME WalletTypeOK, NEW t \in Txs, NEW c \in Calls
  PROVE  /\ RowOf(t, c) \in Rows /\ Credit(c) \in Int
         /\ RowOf(t, c).tx = t /\ RowOf(t, c).saw = tx[t].saw /\ RowOf(t, c).user = c.user /\ RowOf(t, c).ref = c.ref
         /\ RowOf(t, c).type = TypeOf(c.op)
         /\ c.op # "CONVERT" => RowOf(t, c).amount = Credit(c)
<1>1. /\ c.user \in Users /\ c.amount \in Nat /\ c.ref \in Refs
      /\ c.op \in {"HOLD", "RELEASE", "PAY", "CONVERT", "SETTLE"}
  BY DEF Calls
<1>2. Credit(c) \in Int /\ -c.amount \in Int
  BY <1>1 DEF Credit
<1>3. TypeOf(c.op) \in Types
  BY <1>1 DEF TypeOf, Types
<1>4. tx[t].saw \in Sight
  BY DEF WalletTypeOK, TxRow
<1> HIDE DEF Types, Sight
<1> QED BY <1>1, <1>2, <1>3, <1>4 DEF RowOf, Row, Rows

LEMMA WalletTypeStep ==
  ASSUME WalletTypeOK, [Next]_vars
  PROVE  WalletTypeOK'
<1>0. /\ tx \in [Txs -> TxRow] /\ balance \in [Users -> Int]
      /\ \A t \in Txs : /\ tx[t] \in TxRow /\ tx[t].delta \in [Users -> Int]
                        /\ tx[t].rows \in SUBSET Rows /\ IsFiniteSet(tx[t].rows)
  BY DEF WalletTypeOK, TxRow
<1>1. tx' \in [Txs -> TxRow]
  <2>1. ASSUME NEW t \in Txs, NEW st \in {"NEW", "OPEN", "COMMITTED", "ABORTED"},
               tx' = [tx EXCEPT ![t].status = st]
        PROVE  tx' \in [Txs -> TxRow]
    BY <1>0, <2>1 DEF TxRow
  <2>2. ASSUME NEW t \in Txs, NEW at \in Nat \ {0}, NEW step \in {"READ", "UPDATE", "INSERT"},
               NEW saw \in Sight, Goto(t, at, step, saw)
        PROVE  tx' \in [Txs -> TxRow]
    <3> DEFINE row == [[[tx[t] EXCEPT !.at = at] EXCEPT !.step = step] EXCEPT !.saw = saw]
    <3>1. row \in TxRow
      BY <1>0 DEF TxRow
    <3>2. tx' = [tx EXCEPT ![t] = row]
      BY <1>0, <2>2 DEF Goto, TxRow
    <3> HIDE DEF row
    <3> QED BY <1>0, <3>1, <3>2
  <2>3. ASSUME NEW t \in Txs, Begin(t) \/ Commit(t) \/ Rollback(t)
        PROVE  tx' \in [Txs -> TxRow]
    BY <2>1, <2>3 DEF Begin, Commit, Rollback
  <2>4. ASSUME NEW t \in Txs
        PROVE  tx[t].at \in Nat \ {0} /\ tx[t].at + 1 \in Nat \ {0}
    BY <1>0 DEF TxRow
  <2>5. ASSUME NEW t \in Txs, ReadBalance(t) \/ CountReleases(t) \/ NoRead(t)
        PROVE  tx' \in [Txs -> TxRow]
    <3>1. {} \in Sight /\ Committed \in Sight
      BY DEF Sight, Committed
    <3> QED BY <2>2, <2>3, <2>4, <2>5, <3>1 DEF ReadBalance, CountReleases, NoRead
  <2>6. ASSUME NEW t \in Txs, Update(t)
        PROVE  tx' \in [Txs -> TxRow]
    <3> DEFINE d == [tx[t].delta EXCEPT ![Call(t).user] = UpdatedBy(t, Call(t))]
    <3>1. Call(t) \in Calls
      BY <2>6, CallIsCall DEF Update, Running
    <3>2. d \in [Users -> Int] /\ tx[t].delta \in [Users -> Int]
      <4>1. Call(t).user \in Users /\ tx[t].delta[Call(t).user] \in Int
        BY <1>0, <3>1 DEF Calls
      <4>2. UpdatedBy(t, Call(t)) \in Int
        BY <3>1, <4>1, RowIsRow DEF UpdatedBy
      <4> QED BY <1>0, <4>2
    <3>3. tx' = [tx EXCEPT ![t].delta = d, ![t].step = "INSERT"]
      BY <1>0, <2>6 DEF Update
    <3> HIDE DEF d
    <3> DEFINE row == [[tx[t] EXCEPT !.delta = d] EXCEPT !.step = "INSERT"]
    <3>4. row \in TxRow
      BY <1>0, <3>2 DEF TxRow
    <3>5. tx' = [tx EXCEPT ![t] = row]
      BY <1>0, <3>3 DEF TxRow
    <3> HIDE DEF row
    <3> QED BY <1>0, <3>4, <3>5
  <2>7. ASSUME NEW t \in Txs, Insert(t)
        PROVE  tx' \in [Txs -> TxRow]
    <3> DEFINE new == tx[t].rows \cup {RowOf(t, Call(t))}
    <3>1. Call(t) \in Calls
      BY <2>7, CallIsCall DEF Insert, Running
    <3>2. new \in SUBSET Rows
      BY <1>0, <3>1, RowIsRow
    <3>3. tx' = [tx EXCEPT ![t].rows = new, ![t].at = @ + 1, ![t].step = "READ", ![t].saw = {}]
      BY <2>7 DEF Insert, RowOf
    <3> HIDE DEF new
    <3>4. {} \in Sight
      BY DEF Sight
    <3> QED BY <1>0, <2>4, <3>2, <3>3, <3>4 DEF TxRow
  <2>8. CASE UNCHANGED vars
    BY <1>0, <2>8 DEF vars
  <2> QED
    BY <2>3, <2>5, <2>6, <2>7, <2>8
       DEF Next, Step, DeadlockVictim, QueryFails
<1>2. ASSUME NEW t \in Txs, Others(t), Does(t)
      PROVE  /\ balance' \in [Users -> Int]
             /\ ledger' \in SUBSET Rows /\ IsFiniteSet(ledger')
             /\ \A s \in Txs : IsFiniteSet(tx'[s].rows)
  <2>1. balance' \in [Users -> Int]
    <3>1. CASE Still
      BY <1>0, <3>1 DEF Still
    <3>2. CASE Commits(t)
      BY <1>0, <3>2 DEF Commits
    <3> QED BY <1>2, <3>1, <3>2 DEF Does, Starts, Stops, Reads, Skips, Updates, Inserts
  <2>2. ledger' = ledger \/ ledger' = ledger \cup tx[t].rows
    BY <1>2 DEF Does, Starts, Stops, Reads, Skips, Updates, Inserts, Commits, Still
  <2>3. ledger' \in SUBSET Rows /\ IsFiniteSet(ledger')
    BY <1>0, <2>2, FS_Union DEF WalletTypeOK
  <2>4. tx'[t].rows = tx[t].rows \/ tx'[t].rows = tx[t].rows \cup {RowOf(t, Call(t))}
    <3>1. Starts(t) \/ Stops(t) \/ Reads(t) => tx'[t].rows = tx[t].rows
      BY DEF Starts, Stops, Reads, KeepsRows
    <3>2. Skips(t) \/ Updates(t) \/ Commits(t) => tx'[t].rows = tx[t].rows
      BY DEF Skips, Updates, Commits, KeepsRows
    <3>3. Inserts(t) => tx'[t].rows = tx[t].rows \cup {RowOf(t, Call(t))}
      BY DEF Inserts
    <3> QED BY <1>2, <3>1, <3>2, <3>3 DEF Does
  <2>5. IsFiniteSet(tx'[t].rows)
    <3> DEFINE more == tx[t].rows \cup {RowOf(t, Call(t))}
    <3>1. IsFiniteSet(tx[t].rows) /\ IsFiniteSet(more)
      BY <1>0, FS_AddElement
    <3>2. tx'[t].rows = tx[t].rows \/ tx'[t].rows = more
      BY <2>4
    <3> HIDE DEF more
    <3> QED BY <3>1, <3>2
  <2> QED BY <1>0, <1>2, <2>1, <2>3, <2>5 DEF Others
<1>3. CASE UNCHANGED <<balance, ledger, tx>>
  BY <1>3 DEF WalletTypeOK
<1> QED BY <1>1, <1>2, <1>3, StepEffects DEF WalletStep, WalletTypeOK

LEMMA HeldRowsAreRows == HeldRows \in SUBSET Rows /\ IsFiniteSet(HeldRows)
<1>1. HeldRows \in SUBSET Rows
  BY HeldWasHeld DEF HeldRows, Row, Rows, Types, Calls, Sight
<1>2. IsFiniteSet(HeldRows)
  <2> DEFINE f == [c \in Held |-> Row(None, c, "BID_HOLD", -c.amount, {})]
  <2>1. HeldRows = {f[c] : c \in Held}
    BY DEF HeldRows
  <2>2. f \in Surjection(Held, HeldRows)
    BY <2>1 DEF Surjection
  <2> HIDE DEF f
  <2> QED BY <2>2, HeldWasHeld, FS_Surjection
<1> QED BY <1>1, <1>2

LEMMA WalletTypeInit == Init => WalletTypeOK
<1> SUFFICES ASSUME Init PROVE WalletTypeOK
  OBVIOUS
<1>1. /\ tx = [t \in Txs |-> [status |-> "NEW", at |-> 1, step |-> "READ",
                              delta |-> [u \in Users |-> 0], rows |-> {}, saw |-> {}]]
      /\ balance = Balance /\ ledger = HeldRows
  BY DEF Init
<1>2. tx \in [Txs -> TxRow] /\ balance \in [Users -> Int]
  BY <1>1, BalanceIsNat DEF TxRow, Sight
<1>3. \A t \in Txs : IsFiniteSet(tx[t].rows)
  BY <1>1, FS_EmptySet
<1> QED BY <1>1, <1>2, <1>3, HeldRowsAreRows DEF WalletTypeOK

-----------------------------------------------------------------------------
(* Balances and rows *)

(* Until it ends, a transaction has added up what its rows say, but for the    *)
(* UPDATE whose INSERT is still to come.                                       *)
Live(t) == tx[t].status \in {"NEW", "OPEN"}
Pending(t, u) ==
  IF Running(t, "INSERT") /\ Call(t).user = u /\ Call(t).op # "CONVERT"
  THEN Credit(Call(t)) ELSE 0
RowsAreOfCalls(t) ==
  \A r \in tx[t].rows :
    r.tx = t /\ \E i \in DOMAIN Program[t] :
                  /\ i < tx[t].at
                  /\ r.type = TypeOf(Program[t][i].op) /\ r.ref = Program[t][i].ref
TxBooks(t) ==
  /\ tx[t].status = "NEW" => tx[t].step = "READ"
  /\ Live(t) =>
       /\ RowsAreOfCalls(t)
       /\ Running(t, "UPDATE") => Call(t).op # "CONVERT"
       /\ \A u \in Users : tx[t].delta[u] = Moved(tx[t].rows, u) + Pending(t, u)

LedgerIsOfCommitted == \A r \in ledger : r.tx \in Txs => tx[r.tx].status = "COMMITTED"

BooksKept == (\A t \in Txs : TxBooks(t)) /\ LedgerIsOfCommitted /\ BalanceIsLedger

(* The rows that count as converted are those of convertHoldToPayment.         *)
LEMMA ConvertsIt ==
  ASSUME WalletTypeOK, NEW t \in Txs, NEW i \in DOMAIN Program[t]
  PROVE  Converts(RowOf(t, Program[t][i])) <=> Program[t][i].op = "CONVERT"
<1> DEFINE c == Program[t][i]
           y == RowOf(t, c)
<1>1. Program[t] \in Seq(Calls) /\ c \in Calls
  BY ProgramIsOfCalls
<1>2. y.tx = t /\ y.ref = c.ref /\ y.type = TypeOf(c.op) /\ t # None
  BY <1>1, RowIsRow, NoneIsNobody
<1> HIDE DEF y
<1>3. ASSUME c.op = "CONVERT" PROVE Converts(y)
  <2>1. TypeOf(c.op) = "PAYMENT"
    BY <1>3 DEF TypeOf
  <2>2. \E j \in DOMAIN Program[y.tx] :
          Program[y.tx][j].op = "CONVERT" /\ Program[y.tx][j].ref = y.ref
    BY <1>2, <1>3
  <2> QED BY <1>2, <2>1, <2>2 DEF Converts
<1>4. ASSUME c.op # "CONVERT", Converts(y) PROVE FALSE
  <2>1. Converts(y)
    BY <1>4
  <2>2. PICK j \in DOMAIN Program[t] : Program[t][j].op = "CONVERT" /\ Program[t][j].ref = c.ref
    BY <1>2, <2>1 DEF Converts
  <2>3. TypeOf(Program[t][j].op) = TypeOf(c.op)
    BY <1>2, <2>1, <2>2 DEF Converts, TypeOf
  <2>4. j = i
    BY <2>2, <2>3, ProgramIsOfCalls
  <2> QED BY <1>4, <2>2, <2>4
<1> QED BY <1>3, <1>4 DEF y

(* An INSERT adds a row that was not there, for the amount of its UPDATE.      *)
LEMMA NewRow ==
  ASSUME WalletTypeOK, NEW t \in Txs, TxBooks(t), Running(t, "INSERT")
  PROVE  \A u \in Users :
           /\ Moved(tx[t].rows, u) \in Int
           /\ Moved(tx[t].rows \cup {RowOf(t, Call(t))}, u) =
                Moved(tx[t].rows, u) + Pending(t, u)
<1> DEFINE i == tx[t].at
           c == Call(t)
           y == RowOf(t, c)
           rows == tx[t].rows
           one == {y}
<1>1. i \in DOMAIN Program[t] /\ c = Program[t][i] /\ c \in Calls /\ i \in Nat
  BY CallIsCall DEF Running, WalletTypeOK, TxRow
<1>2. /\ y \in Rows /\ y.user = c.user /\ y.ref = c.ref /\ y.type = TypeOf(c.op)
      /\ c.op # "CONVERT" => y.amount = Credit(c)
      /\ Converts(y) <=> c.op = "CONVERT"
  BY <1>1, RowIsRow, ConvertsIt
<1>3. rows \in SUBSET Rows /\ IsFiniteSet(rows)
  BY DEF WalletTypeOK, TxRow
<1>4. RowsAreOfCalls(t)
  BY DEF TxBooks, Live, Running
<1>5. y \notin rows
  <2>1. SUFFICES ASSUME y \in rows PROVE FALSE
    OBVIOUS
  <2>2. PICK j \in DOMAIN Program[t] :
          j < i /\ y.type = TypeOf(Program[t][j].op) /\ y.ref = Program[t][j].ref
    BY <1>4, <2>1 DEF RowsAreOfCalls
  <2>3. j = i
    BY <1>1, <1>2, <2>2, ProgramIsOfCalls
  <2> QED BY <1>1, <2>2, <2>3
<1>6. one \in SUBSET Rows /\ IsFiniteSet(one) /\ rows \cap one = {}
  BY <1>2, <1>5, FS_Singleton
<1>7. \A u : Moved(one, u) = IF y.user = u /\ ~Converts(y) THEN y.amount ELSE 0
  BY <1>2, MovedByOne
<1>8. \A u \in Users : Pending(t, u) = IF c.user = u /\ c.op # "CONVERT" THEN Credit(c) ELSE 0
  BY DEF Pending
<1> HIDE DEF one, rows, y, c
<1>9. \A u : Moved(rows, u) \in Int /\ Moved(rows \cup one, u) = Moved(rows, u) + Moved(one, u)
  BY <1>3, <1>6, MovedAdds
<1>10. \A u \in Users : Moved(one, u) = Pending(t, u)
  BY <1>2, <1>7, <1>8
<1> QED BY <1>9, <1>10 DEF one, rows, y, c

LEMMA TxBooksStep ==
  ASSUME WalletTypeOK, NEW t \in Txs, TxBooks(t), Does(t)
  PROVE  TxBooks(t)'
<1>0. /\ tx[t].at \in Nat /\ \A u \in Users : tx[t].delta[u] \in Int
  BY DEF WalletTypeOK, TxRow
<1>1. ASSUME RowsAreOfCalls(t), tx'[t].rows = tx[t].rows, tx'[t].at \in {tx[t].at, tx[t].at + 1}
      PROVE  RowsAreOfCalls(t)'
  BY <1>0, <1>1, ProgramIsOfCalls DEF RowsAreOfCalls
<1>2. CASE Stops(t) \/ Commits(t)
  BY <1>2 DEF Stops, Commits, TxBooks, Live
<1>3. CASE Starts(t)
  <2>1. \A u \in Users : Pending(t, u) = 0 /\ Pending(t, u)' = 0
    BY <1>3 DEF Starts, Pending, Running, TxBooks
  <2>2. RowsAreOfCalls(t)' /\ tx'[t].delta = tx[t].delta /\ tx'[t].rows = tx[t].rows
    BY <1>1, <1>3 DEF Starts, TxBooks, Live, KeepsRows
  <2> QED BY <1>3, <2>1, <2>2 DEF Starts, TxBooks, Live, Running
<1>4. CASE Reads(t)
  <2>1. \A u \in Users : Pending(t, u) = 0
    BY <1>4 DEF Reads, Pending, Running
  <2>2. Call(t)' = Call(t)
    BY <1>4 DEF Reads, Call
  <2>3. \A u \in Users : Pending(t, u)' = 0
    BY <1>4, <2>2 DEF Reads, Pending, Running
  <2>4. RowsAreOfCalls(t)' /\ tx'[t].delta = tx[t].delta /\ tx'[t].rows = tx[t].rows
    BY <1>1, <1>4 DEF Reads, TxBooks, Live, KeepsRows, Running
  <2> QED BY <1>4, <2>1, <2>2, <2>3, <2>4 DEF Reads, TxBooks, Live, Running
<1>5. CASE Skips(t)
  <2>1. \A u \in Users : Pending(t, u) = 0 /\ Pending(t, u)' = 0
    BY <1>5 DEF Skips, Pending, Running
  <2>2. RowsAreOfCalls(t)' /\ tx'[t].delta = tx[t].delta /\ tx'[t].rows = tx[t].rows
    BY <1>1, <1>5 DEF Skips, TxBooks, Live, KeepsRows, Running
  <2> QED BY <1>5, <2>1, <2>2 DEF Skips, TxBooks, Live, Running
<1>6. CASE Updates(t)
  <2>1. \A u \in Users : Pending(t, u) = 0
    BY <1>6 DEF Updates, Pending, Running
  <2>2. Call(t)' = Call(t) /\ Call(t).op # "CONVERT"
    BY <1>6 DEF Updates, Call, TxBooks, Live, Running
  <2>3. \A u \in Users : Pending(t, u)' = IF u = Call(t).user THEN Credit(Call(t)) ELSE 0
    BY <1>6, <2>2 DEF Updates, Pending, Running
  <2>4. RowsAreOfCalls(t)' /\ tx'[t].rows = tx[t].rows
    BY <1>1, <1>6 DEF Updates, TxBooks, Live, Running
  <2>5. \A u \in Users : tx[t].delta[u] = Moved(tx[t].rows, u)
    <3>1. \A u \in Users : tx[t].delta[u] = Moved(tx[t].rows, u) + Pending(t, u)
      BY <1>6 DEF Updates, TxBooks, Live, Running
    <3>2. \A u \in Users : Moved(tx[t].rows, u) \in Int
      BY MovedAdds, FS_EmptySet DEF WalletTypeOK, TxRow
    <3> QED BY <2>1, <3>1, <3>2
  <2>6. \A u \in Users : tx'[t].delta[u] = tx[t].delta[u] + Pending(t, u)'
    BY <1>6, <2>3 DEF Updates, Credits
  <2> QED BY <1>6, <2>2, <2>4, <2>5, <2>6 DEF Updates, TxBooks, Live, Running
<1>7. CASE Inserts(t)
  <2> DEFINE y == RowOf(t, Call(t))
  <2>1. \A u \in Users : Pending(t, u)' = 0
    BY <1>7 DEF Inserts, Pending, Running
  <2>2. \A u \in Users : /\ tx'[t].delta[u] = Moved(tx'[t].rows, u)
                         /\ Moved(tx'[t].rows, u) \in Int
    <3>1. /\ Running(t, "INSERT") /\ tx'[t].delta = tx[t].delta
          /\ tx'[t].rows = tx[t].rows \cup {y}
      BY <1>7 DEF Inserts
    <3>2. \A u \in Users : tx[t].delta[u] = Moved(tx[t].rows, u) + Pending(t, u)
      BY <1>7 DEF Inserts, TxBooks, Live, Running
    <3>3. \A u \in Users : Moved(tx[t].rows \cup {y}, u) = Moved(tx[t].rows, u) + Pending(t, u)
      BY <3>1, NewRow
    <3> QED BY <1>0, <3>1, <3>2, <3>3
  <2>3. RowsAreOfCalls(t)'
    <3>1. tx[t].at \in DOMAIN Program[t] /\ Call(t) = Program[t][tx[t].at] /\ Call(t) \in Calls
      BY <1>7, CallIsCall DEF Inserts, Running
    <3>2. y.tx = t /\ y.type = TypeOf(Call(t).op) /\ y.ref = Call(t).ref
      BY <3>1, RowIsRow
    <3> HIDE DEF y
    <3>3. RowsAreOfCalls(t)
      BY <1>7 DEF Inserts, TxBooks, Live, Running
    <3>4. tx'[t].at = tx[t].at + 1 /\ tx'[t].rows = tx[t].rows \cup {y}
      BY <1>7 DEF Inserts, y
    <3> SUFFICES ASSUME NEW r \in tx'[t].rows
                 PROVE  r.tx = t /\ \E i \in DOMAIN Program[t] :
                          /\ i < tx'[t].at
                          /\ r.type = TypeOf(Program[t][i].op) /\ r.ref = Program[t][i].ref
      BY DEF RowsAreOfCalls
    <3>5. CASE r = y
      BY <1>0, <3>1, <3>2, <3>4, <3>5
    <3>6. CASE r \in tx[t].rows
      <4>1. r.tx = t
        BY <3>3, <3>6 DEF RowsAreOfCalls
      <4>2. PICK i \in DOMAIN Program[t] :
              /\ i < tx[t].at
              /\ r.type = TypeOf(Program[t][i].op) /\ r.ref = Program[t][i].ref
        BY <3>3, <3>6 DEF RowsAreOfCalls
      <4>3. Program[t] \in Seq(Calls)
        BY ProgramIsOfCalls
      <4>4. i \in Nat
        BY <4>3
      <4>5. i < tx'[t].at
        BY <1>0, <3>4, <4>2, <4>4
      <4> QED BY <4>1, <4>2, <4>5
    <3> QED BY <3>4, <3>5, <3>6
  <2>4. \A u \in Users : tx'[t].delta[u] = Moved(tx'[t].rows, u) + Pending(t, u)'
    BY <2>1, <2>2
  <2>5. tx'[t].status = "OPEN" /\ tx'[t].step = "READ"
    BY <1>7 DEF Inserts
  <2> QED BY <2>3, <2>4, <2>5 DEF TxBooks, Live, Running
<1> QED BY <1>2, <1>3, <1>4, <1>5, <1>6, <1>7 DEF Does

LEMMA HeldRowsSum ==
  \A u \in Users : /\ Opening(u) \in Int
                    /\ Balance[u] = Opening(u) + Moved(HeldRows, u)
<1>1. \A r \in HeldRows : ~Converts(r)
  BY DEF HeldRows, Row, Converts
<1>2. ASSUME NEW u \in Users
      PROVE  Opening(u) \in Int /\ Balance[u] = Opening(u) + Moved(HeldRows, u)
  <2> DEFINE mine == {r \in HeldRows : r.user = u}
             those == {r \in HeldRows : r.user = u /\ ~Converts(r)}
  <2>1. mine = those /\ mine \in SUBSET HeldRows /\ \A r \in HeldRows : r.amount \in Int
    BY <1>1, HeldRowsAreRows DEF Rows
  <2>2. Moved(HeldRows, u) = AmountOf(those) /\ Opening(u) = Balance[u] - AmountOf(mine)
    BY DEF Moved, Opening
  <2> HIDE DEF mine, those
  <2>3. AmountOf(mine) \in Int
    BY <2>1, HeldRowsAreRows, AmountOfPart
  <2>4. Balance[u] \in Int
    BY BalanceIsNat
  <2> QED BY <2>1, <2>2, <2>3, <2>4
<1> QED BY <1>2

(* Balances stay integers, and the ledger and what each transaction has        *)
(* written stay finite sets of rows of its calls (walletTransaction.create).   *)
THEOREM WalletTyped == Spec => []WalletTypeOK
<1>1. Init => WalletTypeOK
  BY WalletTypeInit
<1>2. WalletTypeOK /\ [Next]_vars => WalletTypeOK'
  BY WalletTypeStep
<1> QED BY <1>1, <1>2, PTL DEF Spec

(* What transactions have added up and what was committed agree with the rows. *)
LEMMA BooksAreKept == Spec => []BooksKept
<1>1. Init => BooksKept
  <2> SUFFICES ASSUME Init PROVE BooksKept
    OBVIOUS
  <2>1. /\ ledger = HeldRows /\ balance = Balance
        /\ \A t \in Txs : tx[t] = [status |-> "NEW", at |-> 1, step |-> "READ",
                                   delta |-> [u \in Users |-> 0], rows |-> {}, saw |-> {}]
    BY DEF Init
  <2>2. BalanceIsLedger
    BY <2>1, HeldRowsSum DEF BalanceIsLedger
  <2>3. LedgerIsOfCommitted
    BY <2>1, NoneIsNobody DEF LedgerIsOfCommitted, HeldRows, Row
  <2>4. ASSUME NEW t \in Txs PROVE TxBooks(t)
    <3> DEFINE none == {}
               both == none \cup none
    <3>1. none \in SUBSET Rows /\ IsFiniteSet(none) /\ none \cap none = {} /\ both = none
      BY FS_EmptySet
    <3>2. tx[t].rows = none
      BY <2>1
    <3> HIDE DEF none
    <3>3. \A u : Moved(both, u) = Moved(none, u) + Moved(none, u) /\ Moved(none, u) \in Int
      BY <3>1, MovedAdds
    <3> HIDE DEF both
    <3>4. \A u : Moved(none, u) = 0
      <4>1. ASSUME NEW u PROVE Moved(none, u) = 0
        <5> DEFINE m == Moved(none, u)
        <5>1. m = m + m /\ m \in Int
          BY <3>1, <3>3
        <5> HIDE DEF m
        <5>2. m = 0
          BY <5>1
        <5> QED BY <5>2 DEF m
      <4> QED BY <4>1
    <3>5. \A u \in Users : tx[t].delta[u] = 0 /\ Pending(t, u) = 0
      BY <2>1 DEF Pending, Running
    <3>6. \A u \in Users : tx[t].delta[u] = Moved(tx[t].rows, u) + Pending(t, u)
      BY <3>2, <3>4, <3>5
    <3>7. tx[t].status = "NEW" /\ tx[t].step = "READ" /\ RowsAreOfCalls(t)
      BY <2>1 DEF RowsAreOfCalls
    <3> QED BY <3>6, <3>7 DEF TxBooks, Running
  <2> QED BY <2>2, <2>3, <2>4 DEF BooksKept
<1>2. WalletTypeOK /\ WalletTypeOK' /\ BooksKept /\ [Next]_vars => BooksKept'
  <2> SUFFICES ASSUME WalletTypeOK, WalletTypeOK', BooksKept, WalletStep PROVE BooksKept'
    BY StepEffects
  <2>1. CASE UNCHANGED <<balance, ledger, tx>>
    BY <2>1
       DEF BooksKept, TxBooks, Live, Pending, Running, Call, RowsAreOfCalls,
           LedgerIsOfCommitted, BalanceIsLedger
  <2>2. ASSUME NEW t \in Txs, Others(t), Does(t)
        PROVE  BooksKept'
    <3>1. TxBooks(t)'
      BY <2>2, TxBooksStep DEF BooksKept
    <3>2. ASSUME NEW s \in Txs \ {t} PROVE TxBooks(s)'
      <4>1. tx'[s] = tx[s] /\ TxBooks(s)
        BY <2>2 DEF Others, BooksKept
      <4> QED BY <4>1 DEF TxBooks, Live, Pending, Running, Call, RowsAreOfCalls
    <3>3. CASE Commits(t)
      <4> DEFINE rows == tx[t].rows
                 more == ledger \cup rows
      <4>1. /\ RowsAreOfCalls(t) /\ tx[t].status = "OPEN" /\ tx'[t].status = "COMMITTED"
            /\ \A u \in Users : tx[t].delta[u] = Moved(rows, u) + Pending(t, u)
        BY <3>3 DEF Commits, BooksKept, TxBooks, Live
      <4>2. \A u \in Users : Pending(t, u) = 0
        <5>1. tx[t].at \in Nat /\ Program[t] \in Seq(Calls) /\ tx[t].at > Len(Program[t])
          BY <3>3, ProgramIsOfCalls DEF Commits, WalletTypeOK, TxRow
        <5> QED BY <5>1 DEF Pending, Running
      <4>3. /\ ledger \in SUBSET Rows /\ rows \in SUBSET Rows
            /\ IsFiniteSet(ledger) /\ IsFiniteSet(rows)
        BY DEF WalletTypeOK, TxRow
      <4>4. ledger \cap rows = {}
        BY <4>1 DEF RowsAreOfCalls, BooksKept, LedgerIsOfCommitted
      <4>5. \A u : /\ Moved(ledger, u) \in Int /\ Moved(rows, u) \in Int
                   /\ Moved(more, u) = Moved(ledger, u) + Moved(rows, u)
        BY <4>3, <4>4, MovedAdds
      <4>6. LedgerIsOfCommitted'
        <5>1. \A r \in ledger' : r \in ledger \/ r.tx = t
          BY <3>3, <4>1 DEF Commits, RowsAreOfCalls
        <5>2. \A r \in ledger : r.tx \in Txs => tx'[r.tx].status = "COMMITTED"
          BY <2>2, <4>1 DEF BooksKept, LedgerIsOfCommitted, Others
        <5> QED BY <4>1, <5>1, <5>2 DEF LedgerIsOfCommitted
      <4>7. ledger' = more /\ \A u \in Users : balance'[u] = balance[u] + tx[t].delta[u]
        BY <3>3 DEF Commits
      <4> HIDE DEF more, rows
      <4>8. ASSUME NEW u \in Users PROVE balance'[u] = Opening(u) + Moved(ledger', u)
        <5>1. /\ balance'[u] = balance[u] + Moved(rows, u)
              /\ Moved(ledger', u) = Moved(ledger, u) + Moved(rows, u)
          BY <4>1, <4>2, <4>5, <4>7
        <5>2. balance[u] = Opening(u) + Moved(ledger, u) /\ Opening(u) \in Int
          BY HeldRowsSum DEF BooksKept, BalanceIsLedger
        <5> QED BY <4>5, <5>1, <5>2
      <4>9. BalanceIsLedger'
        BY <4>8 DEF BalanceIsLedger, Moved, Opening
      <4> QED BY <3>1, <3>2, <4>6, <4>9 DEF BooksKept
    <3>4. CASE ~Commits(t)
      <4>1. Still
        BY <2>2, <3>4 DEF Does, Starts, Stops, Reads, Skips, Updates, Inserts
      <4>2. tx[t].status # "COMMITTED"
        BY <2>2, <3>4
           DEF Does, Starts, Stops, Reads, Skips, Updates, Inserts, Running
      <4>3. LedgerIsOfCommitted'
        BY <2>2, <4>1, <4>2 DEF Still, BooksKept, LedgerIsOfCommitted, Others
      <4>4. BalanceIsLedger'
        BY <4>1 DEF Still, BooksKept, BalanceIsLedger
      <4> QED BY <3>1, <3>2, <4>3, <4>4 DEF BooksKept
    <3> QED BY <3>3, <3>4
  <2> QED BY <2>1, <2>2 DEF WalletStep
<1> QED BY <1>1, <1>2, WalletTyped, PTL DEF Spec

(* No update is lost: whatever transactions read before others committed, in   *)
(* whichever order their statements run and whichever of them abort, every     *)
(* balance is the opening one plus what the rows of the ledger say.            *)
THEOREM BalancesMatchLedger == Spec => []BalanceIsLedger
<1>1. BooksKept => BalanceIsLedger
  BY DEF BooksKept
<1> QED BY <1>1, BooksAreKept, PTL

-----------------------------------------------------------------------------
(* Releases *)

HasRelease(rows, b) == \E r \in rows : r.type = "BID_RELEASE" /\ r.ref = b

(* What a transaction has gone past it has seen released, and what it          *)
(* committed is in the ledger.                                                 *)
PaidBack ==
  \A t \in Txs : \A i \in DOMAIN Program[t] :
    Program[t][i].op = "RELEASE" =>
      /\ tx[t].status = "OPEN" /\ i < tx[t].at => HasRelease(RowsSeen(t), Program[t][i].ref)
      /\ tx[t].status = "COMMITTED" => HasRelease(ledger, Program[t][i].ref)
StartsAtOne ==
  \A t \in Txs : tx[t].status = "NEW" =>
    tx[t].at = 1 /\ tx[t].step = "READ" /\ tx[t].rows = {}

LEMMA TypeOfRelease ==
  ASSUME NEW c \in Calls
  PROVE  TypeOf(c.op) = "BID_RELEASE" <=> c.op = "RELEASE"
BY DEF TypeOf, Calls

LEMMA StartsAtOneStep ==
  ASSUME WalletStep, StartsAtOne
  PROVE  StartsAtOne'
<1>1. ASSUME NEW t \in Txs, Others(t), Does(t)
      PROVE  StartsAtOne'
  <2>1. tx'[t].status # "NEW"
    BY <1>1 DEF Does, Starts, Stops, Reads, Skips, Updates, Inserts, Commits
  <2> QED BY <1>1, <2>1 DEF StartsAtOne, Others
<1> QED BY <1>1 DEF WalletStep, StartsAtOne

LEMMA PaidBackStep ==
  ASSUME WalletTypeOK, WalletStep, StartsAtOne, PaidBack
  PROVE  PaidBack'
<1>1. CASE UNCHANGED <<balance, ledger, tx>>
  BY <1>1 DEF PaidBack, RowsSeen
<1>2. ASSUME NEW t \in Txs, Others(t), Does(t)
      PROVE  PaidBack'
  <2>0. /\ tx[t].at \in Nat /\ Program[t] \in Seq(Calls)
        /\ \A i \in DOMAIN Program[t] : i \in Nat \ {0} /\ Program[t][i] \in Calls
    <3>1. Program[t] \in Seq(Calls)
      BY ProgramIsOfCalls
    <3> QED BY <3>1 DEF WalletTypeOK, TxRow
  <2>1. ledger \subseteq ledger'
    BY <1>2 DEF Does, Starts, Stops, Reads, Skips, Updates, Inserts, Commits, Still
  <2>2. ASSUME NEW s \in Txs \ {t}, NEW i \in DOMAIN Program[s],
               Program[s][i].op = "RELEASE"
        PROVE  /\ tx'[s].status = "OPEN" /\ i < tx'[s].at
                    => HasRelease(RowsSeen(s)', Program[s][i].ref)
               /\ tx'[s].status = "COMMITTED" => HasRelease(ledger', Program[s][i].ref)
    <3>1. tx'[s] = tx[s]
      BY <1>2 DEF Others
    <3> QED BY <2>1, <2>2, <3>1 DEF PaidBack, HasRelease, RowsSeen
  <2>3. ASSUME NEW i \in DOMAIN Program[t], Program[t][i].op = "RELEASE"
        PROVE  /\ tx'[t].status = "OPEN" /\ i < tx'[t].at
                    => HasRelease(RowsSeen(t)', Program[t][i].ref)
               /\ tx'[t].status = "COMMITTED" => HasRelease(ledger', Program[t][i].ref)
    <3> DEFINE b == Program[t][i].ref
    <3>1. tx[t].status = "OPEN" /\ i < tx[t].at => HasRelease(RowsSeen(t), b)
      BY <2>3 DEF PaidBack
    <3>2. CASE Starts(t)
      <4>1. tx'[t].status = "OPEN" /\ tx'[t].at = 1
        BY <3>2 DEF Starts, StartsAtOne
      <4> QED BY <2>0, <4>1
    <3>3. CASE Stops(t)
      BY <3>3 DEF Stops
    <3>4. CASE Reads(t) \/ Updates(t)
      <4>1. /\ tx[t].status = "OPEN" /\ tx'[t].status = "OPEN" /\ tx'[t].at = tx[t].at
            /\ RowsSeen(t)' = RowsSeen(t)
        BY <3>4 DEF Reads, Updates, Running, RowsSeen, Still, KeepsRows
      <4> QED BY <3>1, <4>1
    <3>5. CASE Skips(t)
      <4>1. /\ tx[t].status = "OPEN" /\ tx'[t].status = "OPEN" /\ tx'[t].at = tx[t].at + 1
            /\ RowsSeen(t)' = RowsSeen(t) /\ AlreadyReleased(t, Call(t))
        BY <3>5 DEF Skips, Running, RowsSeen, Still, KeepsRows
      <4>2. HasRelease(RowsSeen(t), Call(t).ref)
        BY <4>1 DEF AlreadyReleased, HasRelease
      <4>3. i < tx'[t].at => i < tx[t].at \/ i = tx[t].at
        BY <2>0, <4>1
      <4> QED BY <3>1, <4>1, <4>2, <4>3 DEF Call
    <3>6. CASE Inserts(t)
      <4> DEFINE y == RowOf(t, Call(t))
      <4>1. /\ tx[t].status = "OPEN" /\ tx'[t].status = "OPEN" /\ tx'[t].at = tx[t].at + 1
            /\ RowsSeen(t)' = RowsSeen(t) \cup {y}
        BY <3>6 DEF Inserts, Running, RowsSeen, Still
      <4>2. CASE i = tx[t].at
        <5>1. Call(t) = Program[t][i] /\ Call(t) \in Calls
          BY <2>0, <4>2 DEF Call
        <5>2. y.type = "BID_RELEASE" /\ y.ref = b
          BY <2>3, <5>1, RowIsRow, TypeOfRelease
        <5> HIDE DEF y
        <5> QED BY <4>1, <5>2 DEF HasRelease
      <4>3. CASE i # tx[t].at
        <5>1. i < tx'[t].at => i < tx[t].at
          BY <2>0, <4>1, <4>3
        <5> HIDE DEF y
        <5> QED BY <3>1, <4>1, <5>1 DEF HasRelease
      <4> QED BY <4>2, <4>3
    <3>7. CASE Commits(t)
      <4>1. /\ tx[t].status = "OPEN" /\ tx'[t].status = "COMMITTED"
            /\ ledger' = RowsSeen(t) /\ tx[t].at > Len(Program[t])
        BY <3>7 DEF Commits, RowsSeen
      <4>2. i < tx[t].at
        BY <2>0, <4>1
      <4> QED BY <3>1, <4>1, <4>2
    <3> QED BY <1>2, <3>2, <3>3, <3>4, <3>5, <3>6, <3>7 DEF Does
  <2>4. ASSUME NEW s \in Txs, NEW i \in DOMAIN Program[s], Program[s][i].op = "RELEASE"
        PROVE  /\ tx'[s].status = "OPEN" /\ i < tx'[s].at
                    => HasRelease(RowsSeen(s)', Program[s][i].ref)
               /\ tx'[s].status = "COMMITTED" => HasRelease(ledger', Program[s][i].ref)
    BY <2>2, <2>3, <2>4
  <2> QED BY <2>4 DEF PaidBack, HasRelease
<1> QED BY <1>1, <1>2 DEF WalletStep

-----------------------------------------------------------------------------
(* Sights *)

(* What was decided on was committed, and what is committed stays so: a row    *)
(* is never decided in sight of a transaction that commits after it.           *)
SawPast(w) == w \subseteq Committed
PastSeen ==
  /\ \A r \in ledger : SawPast(r.saw)
  /\ \A t \in Txs : SawPast(tx[t].saw) /\ \A r \in tx[t].rows : SawPast(r.saw)

LEMMA CommittedGrows ==
  ASSUME WalletStep
  PROVE  Committed \subseteq Committed'
<1>1. ASSUME NEW t \in Txs, Others(t), Does(t) PROVE Committed \subseteq Committed'
  <2>1. tx[t].status # "COMMITTED"
    BY <1>1 DEF Does, Starts, Stops, Reads, Skips, Updates, Inserts, Commits, Running
  <2> QED BY <1>1, <2>1 DEF Committed, Others
<1> QED BY <1>1 DEF WalletStep, Committed

LEMMA PastSeenStep ==
  ASSUME WalletTypeOK, WalletStep, PastSeen
  PROVE  PastSeen'
<1>1. CASE UNCHANGED <<balance, ledger, tx>>
  BY <1>1 DEF PastSeen, SawPast, Committed
<1>2. ASSUME NEW t \in Txs, Others(t), Does(t)
      PROVE  PastSeen'
  <2>1. Committed \subseteq Committed' /\ \A w : SawPast(w) => SawPast(w)'
    BY CommittedGrows DEF SawPast
  <2>2. tx'[t].saw \subseteq Committed'
    <3>1. tx'[t].saw = tx[t].saw \/ tx'[t].saw = {} \/ tx'[t].saw = Committed
      BY <1>2 DEF Does, Starts, Stops, Reads, Skips, Updates, Inserts, Commits
    <3> QED BY <2>1, <3>1 DEF PastSeen, SawPast
  <2>3. ASSUME NEW r \in tx'[t].rows PROVE SawPast(r.saw)'
    <3>1. CASE r \in tx[t].rows
      BY <2>1, <3>1 DEF PastSeen
    <3>2. CASE Inserts(t) /\ r = RowOf(t, Call(t))
      <4>1. Call(t) \in Calls
        BY <3>2, CallIsCall DEF Inserts, Running
      <4> QED BY <2>1, <3>2, <4>1, RowIsRow DEF PastSeen
    <3> QED
      BY <1>2, <2>3, <3>1, <3>2
         DEF Does, Starts, Stops, Reads, Skips, Updates, Inserts, Commits, KeepsRows
  <2>4. \A r \in ledger' : SawPast(r.saw)'
    <3>1. \A r \in ledger' : r \in ledger \/ r \in tx[t].rows
      BY <1>2 DEF Does, Starts, Stops, Reads, Skips, Updates, Inserts, Commits, Still
    <3> QED BY <2>1, <3>1 DEF PastSeen
  <2>5. \A s \in Txs \ {t} : tx'[s].saw \subseteq Committed' /\ \A r \in tx'[s].rows : SawPast(r.saw)'
    BY <1>2, <2>1 DEF PastSeen, Others, SawPast
  <2> QED BY <2>2, <2>3, <2>4, <2>5 DEF PastSeen, SawPast
<1> QED BY <1>1, <1>2 DEF WalletStep

(* So a row committed now and one committed before are blind to each other,    *)
(* unless the former was decided in sight of the latter.                       *)
LEMMA NowAndBefore ==
  ASSUME BooksKept, PastSeen, NEW t \in Txs, tx[t].status = "OPEN",
         NEW r \in tx[t].rows, NEW e \in ledger, e.tx \notin r.saw
  PROVE  Blind(r, e) /\ Blind(e, r)
<1>1. r.tx = t /\ t \notin Committed
  BY NoneIsNobody DEF BooksKept, TxBooks, Live, RowsAreOfCalls, Committed
<1>2. e.tx # t
  BY DEF BooksKept, LedgerIsOfCommitted
<1>3. t \notin e.saw
  BY <1>1 DEF PastSeen, SawPast
<1> QED BY <1>1, <1>2, <1>3 DEF Blind

(* A transaction's rows are in nobody's sight until it commits.                *)
LEMMA UnseenYet ==
  ASSUME PastSeen, BooksKept, NEW t \in Txs, tx[t].status = "OPEN",
         NEW r \in tx[t].rows, NEW w, SawPast(w)
  PROVE  r.tx \notin w
BY NoneIsNobody DEF BooksKept, TxBooks, Live, RowsAreOfCalls, SawPast, Committed

-----------------------------------------------------------------------------
(* Releases, once *)

(* Of each hold a transaction makes at most one release, in sight of none      *)
(* that is committed, and so with the one it is about to make.                 *)
IsRelease(r, b) == r.type = "BID_RELEASE" /\ r.ref = b
Unreleased(b, w) == \A e \in ledger : IsRelease(e, b) => e.tx \notin w
OwnOnce(rows) ==
  \A r, s \in rows : r.type = "BID_RELEASE" /\ IsRelease(s, r.ref) => r = s
Releasing(t) ==
  tx[t].at <= Len(Program[t]) /\ tx[t].step # "READ" /\ Call(t).op = "RELEASE"
OnceSeen(t) ==
  tx[t].status = "OPEN" =>
    /\ OwnOnce(tx[t].rows)
    /\ \A r \in tx[t].rows : r.type = "BID_RELEASE" => Unreleased(r.ref, r.saw)
    /\ Releasing(t) =>
         ~HasRelease(tx[t].rows, Call(t).ref) /\ Unreleased(Call(t).ref, tx[t].saw)
BlindReleases ==
  \A r, s \in ledger :
    r.type = "BID_RELEASE" /\ IsRelease(s, r.ref) => r = s \/ Blind(r, s)
OnceInv == StartsAtOne /\ PastSeen /\ BlindReleases /\ \A t \in Txs : OnceSeen(t)

LEMMA OwnStepOnce ==
  ASSUME WalletTypeOK, NEW t \in Txs, OnceInv, Does(t)
  PROVE  OnceSeen(t)'
<1>0. OnceSeen(t)
  BY DEF OnceInv
<1>1. CASE Starts(t)
  <2>1. tx'[t].rows = {} /\ tx'[t].step = "READ"
    BY <1>1 DEF Starts, OnceInv, StartsAtOne, KeepsRows
  <2> QED BY <2>1 DEF OnceSeen, OwnOnce, Releasing
<1>2. CASE Stops(t) \/ Commits(t)
  BY <1>2 DEF Stops, Commits, OnceSeen
<1>3. CASE Reads(t)
  <2>1. /\ tx[t].status = "OPEN" /\ tx'[t].rows = tx[t].rows /\ ledger' = ledger
        /\ Call(t)' = Call(t)
        /\ Call(t).op = "RELEASE" => ~AlreadyReleased(t, Call(t))
    BY <1>3 DEF Reads, Running, KeepsRows, Still, Call
  <2>2. Call(t).op = "RELEASE" =>
          /\ ~HasRelease(tx[t].rows, Call(t).ref)
          /\ \A e \in ledger : ~IsRelease(e, Call(t).ref)
    BY <2>1 DEF AlreadyReleased, RowsSeen, HasRelease, IsRelease
  <2> QED
    BY <1>0, <2>1, <2>2 DEF OnceSeen, OwnOnce, Releasing, HasRelease, Unreleased, IsRelease
<1>4. CASE Skips(t)
  <2>1. /\ tx[t].status = "OPEN" /\ tx'[t].rows = tx[t].rows /\ ledger' = ledger
        /\ tx'[t].step = "READ"
    BY <1>4 DEF Skips, Running, KeepsRows, Still
  <2> QED BY <1>0, <2>1 DEF OnceSeen, OwnOnce, Releasing, Unreleased, IsRelease
<1>5. CASE Updates(t)
  <2>1. /\ tx[t].status = "OPEN" /\ tx[t].at <= Len(Program[t]) /\ tx[t].step # "READ"
        /\ tx'[t].rows = tx[t].rows /\ ledger' = ledger /\ Call(t)' = Call(t)
        /\ tx'[t].saw = tx[t].saw
    BY <1>5 DEF Updates, Running, Still, Call
  <2> QED
    BY <1>0, <2>1 DEF OnceSeen, OwnOnce, Releasing, HasRelease, Unreleased, IsRelease
<1>6. CASE Inserts(t)
  <2> DEFINE y == RowOf(t, Call(t))
             rows == tx[t].rows
  <2>1. /\ tx[t].status = "OPEN" /\ tx[t].at <= Len(Program[t]) /\ tx[t].step # "READ"
        /\ tx'[t].step = "READ" /\ tx'[t].rows = rows \cup {y} /\ ledger' = ledger
    BY <1>6 DEF Inserts, Running, Still
  <2>2. /\ Call(t) \in Calls /\ y.type = TypeOf(Call(t).op) /\ y.ref = Call(t).ref
        /\ y.saw = tx[t].saw
    BY <2>1, CallIsCall, RowIsRow
  <2>3. /\ OwnOnce(rows)
        /\ \A r \in rows : r.type = "BID_RELEASE" => Unreleased(r.ref, r.saw)
    BY <1>0, <2>1 DEF OnceSeen
  <2>4. y.type = "BID_RELEASE" => ~HasRelease(rows, y.ref) /\ Unreleased(y.ref, y.saw)
    BY <1>0, <2>1, <2>2, TypeOfRelease DEF OnceSeen, Releasing
  <2> HIDE DEF y, rows
  <2>5. OwnOnce(rows \cup {y})
    BY <2>3, <2>4 DEF OwnOnce, HasRelease, IsRelease
  <2>6. \A r \in rows \cup {y} : r.type = "BID_RELEASE" => Unreleased(r.ref, r.saw)
    BY <2>3, <2>4
  <2> QED BY <2>1, <2>5, <2>6 DEF OnceSeen, OwnOnce, Releasing, Unreleased, IsRelease
<1> QED BY <1>1, <1>2, <1>3, <1>4, <1>5, <1>6 DEF Does

(* A commit of one is in no sight another has decided on.                      *)
LEMMA CommitOnce ==
  ASSUME BooksKept, OnceInv, NEW t \in Txs, Others(t), Commits(t), NEW s \in Txs \ {t}
  PROVE  OnceSeen(s)'
<1>1. SUFFICES ASSUME tx[s].status = "OPEN" PROVE OnceSeen(s)'
  BY DEF OnceSeen, Others
<1>2. /\ tx'[s] = tx[s] /\ tx[t].status = "OPEN" /\ ledger' = ledger \cup tx[t].rows
      /\ Call(s)' = Call(s)
  BY DEF Others, Commits, Call
<1>3. ASSUME NEW w, SawPast(w), NEW b, Unreleased(b, w) PROVE Unreleased(b, w)'
  <2>1. \A e \in tx[t].rows : e.tx \notin w
    BY <1>2, <1>3, UnseenYet DEF OnceInv
  <2> QED BY <1>2, <1>3, <2>1 DEF Unreleased, IsRelease
<1>4. OnceSeen(s) /\ SawPast(tx[s].saw) /\ \A r \in tx[s].rows : SawPast(r.saw)
  BY DEF OnceInv, PastSeen
<1>5. OwnOnce(tx[s].rows)' /\ (Releasing(s)' <=> Releasing(s))
  BY <1>1, <1>2, <1>4 DEF OnceSeen, OwnOnce, IsRelease, Releasing
<1>6. \A r \in tx'[s].rows : r.type = "BID_RELEASE" => Unreleased(r.ref, r.saw)'
  BY <1>1, <1>2, <1>3, <1>4 DEF OnceSeen
<1>7. Releasing(s) => ~HasRelease(tx'[s].rows, Call(s).ref) /\ Unreleased(Call(s).ref, tx[s].saw)'
  BY <1>1, <1>2, <1>3, <1>4 DEF OnceSeen
<1>8. Releasing(s)' => ~HasRelease(tx[s].rows, Call(s).ref)' /\ Unreleased(Call(s).ref, tx[s].saw)'
  BY <1>2, <1>5, <1>7 DEF HasRelease, Unreleased
<1> QED BY <1>2, <1>5, <1>6, <1>8 DEF OnceSeen, OwnOnce, Unreleased, IsRelease

LEMMA OnceStep ==
  ASSUME WalletTypeOK, WalletStep, BooksKept, OnceInv
  PROVE  OnceInv'
<1>1. StartsAtOne' /\ PastSeen'
  BY StartsAtOneStep, PastSeenStep DEF OnceInv
<1>2. CASE UNCHANGED <<balance, ledger, tx>>
  BY <1>1, <1>2
     DEF OnceInv, OnceSeen, OwnOnce, Unreleased, IsRelease, Releasing, HasRelease, Call,
         BlindReleases, Blind
<1>3. ASSUME NEW t \in Txs, Others(t), Does(t)
      PROVE  OnceInv'
  <2>1. OnceSeen(t)'
    BY <1>3, OwnStepOnce
  <2>2. CASE Commits(t)
    <3>1. ledger' = ledger \cup tx[t].rows /\ tx[t].status = "OPEN"
      BY <2>2 DEF Commits
    <3>2. /\ OwnOnce(tx[t].rows) /\ BlindReleases
          /\ \A r \in tx[t].rows : r.type = "BID_RELEASE" => Unreleased(r.ref, r.saw)
      BY <3>1 DEF OnceInv, OnceSeen
    <3>3. ASSUME NEW r \in tx[t].rows, NEW e \in ledger, r.type = "BID_RELEASE",
                 IsRelease(e, r.ref)
          PROVE  Blind(r, e) /\ Blind(e, r)
      BY <3>1, <3>2, <3>3, NowAndBefore DEF Unreleased, OnceInv
    <3>4. \A r, s \in ledger \cup tx[t].rows :
            r.type = "BID_RELEASE" /\ IsRelease(s, r.ref) => r = s \/ Blind(r, s)
      BY <3>2, <3>3 DEF BlindReleases, OwnOnce, IsRelease
    <3>5. BlindReleases'
      BY <3>1, <3>4 DEF BlindReleases, IsRelease, Blind
    <3>6. \A s \in Txs : OnceSeen(s)'
      BY <1>3, <2>1, <2>2, CommitOnce
    <3> QED BY <1>1, <3>5, <3>6 DEF OnceInv
  <2>3. CASE ~Commits(t)
    <3>1. ledger' = ledger
      BY <1>3, <2>3 DEF Does, Starts, Stops, Reads, Skips, Updates, Inserts, Still
    <3>2. ASSUME NEW s \in Txs \ {t} PROVE OnceSeen(s)'
      <4>1. tx'[s] = tx[s] /\ Call(s)' = Call(s)
        BY <1>3 DEF Others, Call
      <4> QED
        BY <3>1, <4>1
           DEF OnceSeen, OnceInv, OwnOnce, Unreleased, IsRelease, Releasing, HasRelease
    <3>3. BlindReleases'
      BY <3>1 DEF OnceInv, BlindReleases, IsRelease, Blind
    <3>4. \A s \in Txs : OnceSeen(s)'
      BY <2>1, <3>2
    <3> QED BY <1>1, <3>3, <3>4 DEF OnceInv
  <2> QED BY <2>2, <2>3
<1> QED BY <1>2, <1>3 DEF WalletStep

(* A hold is paid back by whoever finalizes, retries or pays directly and runs *)
(* to its end; and if it is paid back twice, then by two that each counted the *)
(* releases before the other committed: for any transactions at a time, and    *)
(* whichever statements fail.                                                  *)
THEOREM ReleasedTwiceIfBlind == Spec => []ReleasedOnce
<1>1. Init => OnceInv /\ PaidBack
  <2> SUFFICES ASSUME Init PROVE OnceInv /\ PaidBack
    OBVIOUS
  <2>1. /\ ledger = HeldRows
        /\ \A t \in Txs : /\ tx[t].status = "NEW" /\ tx[t].at = 1 /\ tx[t].step = "READ"
                          /\ tx[t].rows = {} /\ tx[t].saw = {}
    BY DEF Init
  <2>2. \A r \in ledger : r.type # "BID_RELEASE" /\ r.saw = {}
    BY <2>1 DEF HeldRows, Row
  <2>3. PastSeen
    BY <2>1, <2>2 DEF PastSeen, SawPast
  <2> QED
    BY <2>1, <2>2, <2>3 DEF OnceInv, StartsAtOne, BlindReleases, OnceSeen, PaidBack
<1>2. WalletTypeOK /\ BooksKept /\ OnceInv /\ PaidBack /\ [Next]_vars => OnceInv' /\ PaidBack'
  BY StepEffects, OnceStep, PaidBackStep DEF OnceInv
<1>3. OnceInv /\ PaidBack => ReleasedOnce
  <2> SUFFICES ASSUME OnceInv, PaidBack PROVE ReleasedOnce
    OBVIOUS
  <2>1. \A r, s \in ledger :
          r.type = "BID_RELEASE" /\ s \in Releases(r.ref) => r = s \/ Blind(r, s)
    BY DEF OnceInv, BlindReleases, IsRelease, Releases
  <2>2. ASSUME NEW t \in Txs, tx[t].status = "COMMITTED",
               NEW i \in DOMAIN Program[t], Program[t][i].op = "RELEASE"
        PROVE  Releases(Program[t][i].ref) # {}
    BY <2>2 DEF PaidBack, HasRelease, Releases
  <2> QED BY <2>1, <2>2 DEF ReleasedOnce
<1> QED BY <1>1, <1>2, <1>3, WalletTyped, BooksAreKept, PTL DEF Spec

-----------------------------------------------------------------------------
(* Debits *)

(* What a transaction has seen at the tests of its debits of a user: it has    *)
(* taken nothing where it has none; and if every debit of the user that is     *)
(* committed was in sight of all of them, then it has taken what was there.    *)
Debiting(t, u) == Running(t, "INSERT") /\ Call(t).op \in Debits /\ Call(t).user = u
Sights(t, u) ==
  {r.saw : r \in {q \in tx[t].rows : IsDebit(q, u)}} \cup
  (IF Debiting(t, u) THEN {tx[t].saw} ELSE {})
Alone(u, w) == \A e \in ledger : IsDebit(e, u) => e.tx \in w
Sees(t) ==
  Live(t) =>
    /\ \A u \in Users : Sights(t, u) = {} => tx[t].delta[u] >= 0
    /\ \A u \in Users :
         Sights(t, u) # {} /\ (\A w \in Sights(t, u) : Alone(u, w)) => BalanceSeen(t, u) >= 0
    /\ Running(t, "UPDATE") /\ Call(t).op \in Debits /\ Alone(Call(t).user, tx[t].saw)
         => BalanceSeen(t, Call(t).user) >= Call(t).amount
NothingAtFirst ==
  \A t \in Txs : tx[t].status = "NEW" => tx[t].step = "READ"
SolventInv ==
  NothingAtFirst /\ PastSeen /\ DebtIsOfBlindDebits /\ \A t \in Txs : Sees(t)

LEMMA SightsArePast ==
  ASSUME PastSeen, NEW t \in Txs, NEW u, NEW w \in Sights(t, u)
  PROVE  SawPast(w)
BY DEF Sights, PastSeen

(* The row of a debit says so, and no other row does.                          *)
LEMMA DebitRow ==
  ASSUME WalletTypeOK, NEW t \in Txs, tx[t].at <= Len(Program[t]), NEW u
  PROVE  IsDebit(RowOf(t, Call(t)), u) <=> Call(t).op \in Debits /\ Call(t).user = u
<1> DEFINE c == Call(t)
           y == RowOf(t, c)
<1>1. tx[t].at \in DOMAIN Program[t] /\ c = Program[t][tx[t].at] /\ c \in Calls
  BY CallIsCall
<1>2. y.user = c.user /\ y.type = TypeOf(c.op) /\ (Converts(y) <=> c.op = "CONVERT")
  BY <1>1, RowIsRow, ConvertsIt
<1>3. c.op \in {"HOLD", "RELEASE", "PAY", "CONVERT", "SETTLE"}
  BY <1>1 DEF Calls
<1> HIDE DEF y, c
<1>4. c.op \in Debits <=> TypeOf(c.op) \in {"BID_HOLD", "PAYMENT"} /\ c.op # "CONVERT"
  BY <1>3 DEF TypeOf, Debits
<1>5. IsDebit(y, u) <=> c.op \in Debits /\ c.user = u
  BY <1>2, <1>4 DEF IsDebit
<1> QED BY <1>5 DEF y, c

LEMMA OwnStepSees ==
  ASSUME WalletTypeOK, NEW t \in Txs, SolventInv, Does(t)
  PROVE  Sees(t)'
<1>0. /\ Sees(t) /\ \A u \in Users : tx[t].delta[u] \in Int /\ balance[u] \in Int
  BY DEF SolventInv, WalletTypeOK, TxRow
<1>1. CASE Stops(t) \/ Commits(t)
  BY <1>1 DEF Stops, Commits, Sees, Live
<1>2. ASSUME Live(t), tx'[t].delta = tx[t].delta, balance' = balance, ledger' = ledger,
             \A u \in Users : Sights(t, u)' = Sights(t, u)
      PROVE  /\ \A u \in Users : Sights(t, u)' = {} => tx'[t].delta[u] >= 0
             /\ \A u \in Users : Sights(t, u)' # {} /\ (\A w \in Sights(t, u)' : Alone(u, w)')
                                   => BalanceSeen(t, u)' >= 0
  <2>1. \A u, w : Alone(u, w)' <=> Alone(u, w)
    BY <1>2 DEF Alone, IsDebit, Converts
  <2>2. \A u : BalanceSeen(t, u)' = BalanceSeen(t, u)
    BY <1>2 DEF BalanceSeen
  <2> QED BY <1>0, <1>2, <2>1, <2>2 DEF Sees
<1>3. CASE Starts(t) \/ Skips(t)
  <2>1. /\ Live(t) /\ tx'[t].delta = tx[t].delta /\ tx'[t].rows = tx[t].rows
        /\ balance' = balance /\ ledger' = ledger
        /\ tx[t].step = "READ" /\ tx'[t].step = "READ"
    BY <1>3 DEF Starts, Skips, Live, Running, Still, KeepsRows, SolventInv, NothingAtFirst
  <2>2. \A u \in Users : Sights(t, u)' = Sights(t, u)
    BY <2>1 DEF Sights, Debiting, Running, IsDebit, Converts
  <2> QED BY <1>2, <2>1, <2>2 DEF Sees, Running
<1>4. CASE Reads(t)
  <2>1. /\ Live(t) /\ tx'[t].delta = tx[t].delta /\ tx'[t].rows = tx[t].rows
        /\ balance' = balance /\ ledger' = ledger
        /\ Call(t)' = Call(t) /\ tx[t].step = "READ"
        /\ tx'[t].step = "INSERT" => Call(t).op = "CONVERT"
        /\ tx'[t].step = "UPDATE" /\ Call(t).op \in Debits => Enough(t, Call(t))
    BY <1>4 DEF Reads, Live, Running, Still, KeepsRows, Call
  <2>2. \A u \in Users : ~Debiting(t, u) /\ ~Debiting(t, u)'
    BY <2>1 DEF Debiting, Running, Debits
  <2>3. \A u \in Users : Sights(t, u)' = Sights(t, u)
    BY <2>1, <2>2 DEF Sights, IsDebit, Converts
  <2>4. \A u : BalanceSeen(t, u)' = BalanceSeen(t, u)
    BY <2>1 DEF BalanceSeen
  <2>5. Running(t, "UPDATE")' => tx'[t].step = "UPDATE"
    BY DEF Running
  <2>6. Running(t, "UPDATE")' /\ Call(t)'.op \in Debits
          => BalanceSeen(t, Call(t).user)' >= Call(t)'.amount
    BY <2>1, <2>4, <2>5 DEF Enough
  <2> QED BY <1>2, <2>1, <2>3, <2>6 DEF Sees
<1>5. CASE Inserts(t)
  <2> DEFINE y == RowOf(t, Call(t))
  <2>1. /\ Live(t) /\ Running(t, "INSERT") /\ tx[t].at <= Len(Program[t])
        /\ tx'[t].delta = tx[t].delta /\ tx'[t].rows = tx[t].rows \cup {y}
        /\ balance' = balance /\ ledger' = ledger /\ tx'[t].step = "READ"
    BY <1>5 DEF Inserts, Live, Running, Still
  <2>2. \A u : IsDebit(y, u) <=> Debiting(t, u)
    BY <2>1, DebitRow DEF Debiting
  <2>3. y.saw = tx[t].saw
    BY <2>1, CallIsCall, RowIsRow
  <2> HIDE DEF y
  <2>4. ASSUME NEW u \in Users PROVE Sights(t, u)' = Sights(t, u)
    <3>1. ~Debiting(t, u)'
      BY <2>1 DEF Debiting, Running
    <3>2. Sights(t, u)' = {r.saw : r \in {q \in tx[t].rows \cup {y} : IsDebit(q, u)}}
      BY <2>1, <3>1 DEF Sights, IsDebit, Converts
    <3>3. CASE Debiting(t, u)
      <4>1. {q \in tx[t].rows \cup {y} : IsDebit(q, u)}
              = {q \in tx[t].rows : IsDebit(q, u)} \cup {y}
        BY <2>2, <3>3
      <4> QED BY <2>3, <3>2, <3>3, <4>1 DEF Sights
    <3>4. CASE ~Debiting(t, u)
      <4>1. {q \in tx[t].rows \cup {y} : IsDebit(q, u)} = {q \in tx[t].rows : IsDebit(q, u)}
        BY <2>2, <3>4
      <4> QED BY <3>2, <3>4, <4>1 DEF Sights
    <3> QED BY <3>3, <3>4
  <2> QED BY <1>2, <2>1, <2>4 DEF Sees, Running
<1>6. CASE Updates(t)
  <2> DEFINE c == Call(t)
  <2>1. /\ Live(t) /\ balance' = balance /\ ledger' = ledger /\ tx'[t].rows = tx[t].rows
        /\ tx'[t].step = "INSERT" /\ Running(t, "UPDATE") /\ Call(t)' = c
        /\ tx'[t].saw = tx[t].saw /\ tx'[t].at = tx[t].at /\ tx'[t].status = "OPEN"
        /\ \A u \in Users : tx'[t].delta[u] = Credits(t, c, u)
    BY <1>6 DEF Updates, Live, Running, Still, Call
  <2>2. c \in Calls /\ c.user \in Users /\ c.amount \in Nat
    BY <2>1, CallIsCall DEF Running, Calls
  <2>3. \A u, w : Alone(u, w)' <=> Alone(u, w)
    BY <2>1 DEF Alone, IsDebit, Converts
  <2>4. \A u : ~Debiting(t, u) /\ (Debiting(t, u)' <=> c.op \in Debits /\ c.user = u)
    BY <2>1 DEF Debiting, Running
  <2>5. \A u \in Users :
          Sights(t, u)' = Sights(t, u) \cup
                            (IF c.op \in Debits /\ c.user = u THEN {tx[t].saw} ELSE {})
    BY <2>1, <2>4 DEF Sights, IsDebit, Converts
  <2>6. c.op \in Debits /\ Alone(c.user, tx[t].saw)
          => balance[c.user] + tx[t].delta[c.user] >= c.amount
    BY <1>0, <2>1, <2>2 DEF Sees, BalanceSeen
  <2>7. Credit(c) = IF c.op \in Debits THEN -c.amount ELSE c.amount
    BY DEF Credit
  <2>8. \A u \in Users :
          /\ Sights(t, u) = {} => tx[t].delta[u] >= 0
          /\ Sights(t, u) # {} /\ (\A w \in Sights(t, u) : Alone(u, w))
               => balance[u] + tx[t].delta[u] >= 0
    BY <1>0, <2>1 DEF Sees, BalanceSeen
  <2> HIDE DEF c
  <2>9. ASSUME NEW u \in Users
        PROVE  /\ Sights(t, u)' = {} => tx'[t].delta[u] >= 0
               /\ Sights(t, u)' # {} /\ (\A w \in Sights(t, u)' : Alone(u, w))
                    => balance[u] + tx'[t].delta[u] >= 0
    <3>1. tx[t].delta[u] \in Int /\ balance[u] \in Int
      BY <1>0
    <3>2. CASE u # c.user
      <4>1. tx'[t].delta[u] = tx[t].delta[u] /\ Sights(t, u)' = Sights(t, u)
        BY <2>1, <2>5, <3>1, <3>2 DEF Credits
      <4> QED BY <2>8, <4>1
    <3>3. CASE u = c.user /\ c.op \in Debits
      <4>1. tx'[t].delta[u] = tx[t].delta[u] + (-c.amount)
        BY <2>1, <2>7, <3>3 DEF Credits
      <4>2. tx[t].saw \in Sights(t, u)'
        BY <2>5, <3>3
      <4>3. Alone(u, tx[t].saw) => balance[u] + tx'[t].delta[u] >= 0
        BY <2>2, <2>6, <3>1, <3>3, <4>1
      <4> QED BY <4>2, <4>3
    <3>4. CASE u = c.user /\ c.op \notin Debits
      <4>1. tx'[t].delta[u] = tx[t].delta[u] + c.amount /\ Sights(t, u)' = Sights(t, u)
        BY <2>1, <2>5, <2>7, <3>4 DEF Credits
      <4> QED BY <2>2, <2>8, <3>1, <4>1
    <3> QED BY <3>2, <3>3, <3>4
  <2>10. \A u \in Users : Sights(t, u)' # {} /\ (\A w \in Sights(t, u)' : Alone(u, w)')
                            => BalanceSeen(t, u)' >= 0
    BY <2>1, <2>3, <2>9 DEF BalanceSeen
  <2>11. ~Running(t, "UPDATE")'
    BY <2>1 DEF Running
  <2> QED BY <2>9, <2>10, <2>11 DEF Sees
<1> QED BY <1>1, <1>3, <1>4, <1>5, <1>6 DEF Does

(* A commit of one takes from nobody whom another, having seen it, debits.     *)
LEMMA CommitSees ==
  ASSUME WalletTypeOK, BooksKept, SolventInv,
         NEW t \in Txs, Others(t), Commits(t), NEW s \in Txs \ {t}
  PROVE  Sees(s)'
<1>1. SUFFICES ASSUME Live(s) PROVE Sees(s)'
  BY DEF Sees, Live, Others
<1>2. /\ tx'[s] = tx[s] /\ tx[t].status = "OPEN" /\ Call(s)' = Call(s) /\ Live(t)
      /\ ledger' = ledger \cup tx[t].rows
      /\ \A u \in Users : balance'[u] = balance[u] + tx[t].delta[u]
  BY DEF Others, Commits, Call, Live
<1>3. \A u \in Users : balance[u] \in Int /\ tx[t].delta[u] \in Int /\ tx[s].delta[u] \in Int
  BY DEF WalletTypeOK, TxRow
<1>4. \A u \in Users : Sights(s, u)' = Sights(s, u)
  BY <1>2 DEF Sights, Debiting, Running, IsDebit, Converts
<1>5. \A u : ~Debiting(t, u)
  <2>1. tx[t].at \in Nat /\ Program[t] \in Seq(Calls) /\ tx[t].at > Len(Program[t])
    BY ProgramIsOfCalls DEF Commits, WalletTypeOK, TxRow
  <2> QED BY <2>1 DEF Debiting, Running
<1>6. ASSUME NEW u \in Users, NEW w, SawPast(w), Alone(u, w)'
      PROVE  Alone(u, w) /\ balance'[u] >= balance[u]
  <2>1. \A e \in ledger \cup tx[t].rows : IsDebit(e, u) => e.tx \in w
    BY <1>2, <1>6 DEF Alone, IsDebit, Converts
  <2>2. \A e \in tx[t].rows : ~IsDebit(e, u)
    BY <1>2, <1>6, <2>1, UnseenYet DEF SolventInv
  <2>3. Sights(t, u) = {}
    BY <1>5, <2>2 DEF Sights
  <2>4. tx[t].delta[u] >= 0
    BY <1>2, <2>3 DEF SolventInv, Sees
  <2> QED BY <1>2, <1>3, <2>1, <2>4 DEF Alone
<1>7. Sees(s) /\ SawPast(tx[s].saw)
  BY DEF SolventInv, PastSeen
<1>8. \A u \in Users : Sights(s, u)' = {} => tx'[s].delta[u] >= 0
  BY <1>1, <1>2, <1>4, <1>7 DEF Sees
<1>9. ASSUME NEW u \in Users, Sights(s, u)' # {}, \A w \in Sights(s, u)' : Alone(u, w)'
      PROVE  BalanceSeen(s, u)' >= 0
  <2>1. \A w \in Sights(s, u) : Alone(u, w) /\ balance'[u] >= balance[u]
    BY <1>4, <1>6, <1>9, SightsArePast DEF SolventInv
  <2>2. balance'[u] >= balance[u] /\ balance[u] + tx[s].delta[u] >= 0
    BY <1>1, <1>4, <1>7, <1>9, <2>1 DEF Sees, BalanceSeen
  <2>3. balance'[u] + tx'[s].delta[u] >= 0
    BY <1>2, <1>3, <2>2
  <2> QED BY <2>3 DEF BalanceSeen
<1>10. ASSUME Running(s, "UPDATE")', Call(s)'.op \in Debits, Alone(Call(s).user, tx[s].saw)'
       PROVE  BalanceSeen(s, Call(s).user)' >= Call(s)'.amount
  <2> DEFINE u == Call(s).user
             n == Call(s).amount
  <2>0. PICK w : w = tx[s].saw
    OBVIOUS
  <2>1. Running(s, "UPDATE") /\ Call(s).op \in Debits /\ u \in Users /\ n \in Nat
    BY <1>2, <1>10, CallIsCall DEF Running, Calls
  <2>2. \A e \in ledger' : IsDebit(e, u) => e.tx \in w
    BY <1>2, <1>10, <2>0 DEF Alone, IsDebit, Converts
  <2>3. Alone(u, w) /\ balance'[u] >= balance[u]
    <3>1. PICK v \in Users : v = u
      BY <2>1
    <3>2. Alone(v, w)'
      BY <2>2, <3>1 DEF Alone, IsDebit, Converts
    <3>3. Alone(v, w) /\ balance'[v] >= balance[v]
      BY <1>6, <1>7, <2>0, <3>2
    <3> QED BY <3>1, <3>3
  <2>4. balance[u] + tx[s].delta[u] >= n
    BY <1>1, <1>7, <2>0, <2>1, <2>3 DEF Sees, BalanceSeen
  <2>5. tx'[s] = tx[s] /\ Call(s)' = Call(s)
    BY <1>2
  <2>6. BalanceSeen(s, Call(s).user)' = balance'[u] + tx[s].delta[u] /\ Call(s)'.amount = n
    BY <2>5 DEF BalanceSeen
  <2> HIDE DEF u, n
  <2> QED BY <1>2, <1>3, <2>1, <2>3, <2>4, <2>6
<1> QED BY <1>8, <1>9, <1>10 DEF Sees

LEMMA SolventStep ==
  ASSUME WalletTypeOK, WalletStep, BooksKept, SolventInv
  PROVE  SolventInv'
<1>1. PastSeen'
  BY PastSeenStep DEF SolventInv
<1>2. CASE UNCHANGED <<balance, ledger, tx>>
  <2>1. NothingAtFirst' /\ DebtIsOfBlindDebits'
    BY <1>2
       DEF SolventInv, NothingAtFirst, DebtIsOfBlindDebits, Blind, IsDebit, Converts
  <2>2. \A t \in Txs : Sees(t)' <=> Sees(t)
    BY <1>2
       DEF Sees, Live, BalanceSeen, Running, Call, Sights, Debiting, Alone, IsDebit, Converts
  <2> QED BY <1>1, <2>1, <2>2 DEF SolventInv
<1>3. ASSUME NEW t \in Txs, Others(t), Does(t)
      PROVE  SolventInv'
  <2>1. Sees(t)'
    BY <1>3, OwnStepSees
  <2>2. NothingAtFirst'
    <3>1. tx'[t].status # "NEW"
      BY <1>3 DEF Does, Starts, Stops, Reads, Skips, Updates, Inserts, Commits
    <3> QED BY <1>3, <3>1 DEF SolventInv, NothingAtFirst, Others
  <2>3. CASE Commits(t)
    <3>1. /\ \A u \in Users : balance'[u] = balance[u] + tx[t].delta[u]
          /\ Live(t) /\ tx[t].status = "OPEN" /\ ledger' = ledger \cup tx[t].rows
      BY <2>3 DEF Commits, Live
    <3>2. ASSUME NEW u \in Users, balance'[u] < 0
          PROVE  \E r, s \in ledger' : IsDebit(r, u) /\ IsDebit(s, u) /\ Blind(r, s)
      <4>1. balance[u] \in Int /\ tx[t].delta[u] \in Int
        BY DEF WalletTypeOK, TxRow
      <4>2. CASE Sights(t, u) = {}
        <5>1. tx[t].delta[u] >= 0
          BY <3>1, <4>2 DEF SolventInv, Sees
        <5>2. balance[u] < 0
          BY <3>1, <3>2, <4>1, <5>1
        <5> QED BY <3>1, <5>2 DEF SolventInv, DebtIsOfBlindDebits
      <4>3. CASE Sights(t, u) # {}
        <5>1. ~(BalanceSeen(t, u) >= 0)
          BY <3>1, <3>2, <4>1 DEF BalanceSeen
        <5>2. PICK w \in Sights(t, u) : ~Alone(u, w)
          BY <3>1, <4>3, <5>1 DEF SolventInv, Sees
        <5>3. ~Debiting(t, u)
          <6>1. /\ tx[t].at \in Nat /\ Program[t] \in Seq(Calls)
                /\ tx[t].at > Len(Program[t])
            BY <2>3, ProgramIsOfCalls DEF Commits, WalletTypeOK, TxRow
          <6> QED BY <6>1 DEF Debiting, Running
        <5>4. PICK r \in tx[t].rows : IsDebit(r, u) /\ r.saw = w
          BY <5>2, <5>3 DEF Sights
        <5>5. PICK e \in ledger : IsDebit(e, u) /\ e.tx \notin w
          BY <5>2 DEF Alone
        <5>6. Blind(r, e)
          BY <3>1, <5>4, <5>5, NowAndBefore DEF SolventInv
        <5> QED BY <3>1, <5>4, <5>5, <5>6
      <4> QED BY <4>2, <4>3
    <3>3. DebtIsOfBlindDebits'
      BY <3>2 DEF DebtIsOfBlindDebits, IsDebit, Converts, Blind
    <3>4. \A s \in Txs : Sees(s)'
      BY <1>3, <2>1, <2>3, CommitSees
    <3> QED BY <1>1, <2>2, <3>3, <3>4 DEF SolventInv
  <2>4. CASE ~Commits(t)
    <3>1. balance' = balance /\ ledger' = ledger
      BY <1>3, <2>4 DEF Does, Starts, Stops, Reads, Skips, Updates, Inserts, Still
    <3>2. ASSUME NEW s \in Txs \ {t} PROVE Sees(s)'
      <4>1. tx'[s] = tx[s] /\ Call(s)' = Call(s)
        BY <1>3 DEF Others, Call
      <4> QED
        BY <3>1, <4>1
           DEF SolventInv, Sees, Live, BalanceSeen, Running, Sights, Debiting, Alone, IsDebit,
               Converts
    <3>3. DebtIsOfBlindDebits'
      BY <3>1 DEF SolventInv, DebtIsOfBlindDebits, IsDebit, Converts, Blind
    <3>4. \A s \in Txs : Sees(s)'
      BY <2>1, <3>2
    <3> QED BY <1>1, <2>2, <3>3, <3>4 DEF SolventInv
  <2> QED BY <2>3, <2>4
<1> QED BY <1>2, <1>3 DEF WalletStep

(* Nobody is in debt but by two bids or payments that each tested a balance    *)
(* without the other: whatever is credited or paid back meanwhile, in whatever *)
(* order statements run and whichever fail, a debit that saw all debits before *)
(* it leaves a balance.                                                        *)
THEOREM DebtNeedsARace == Spec => []DebtIsOfBlindDebits
<1>1. Init => SolventInv
  <2> SUFFICES ASSUME Init PROVE SolventInv
    OBVIOUS
  <2>1. /\ ledger = HeldRows /\ balance = Balance
        /\ \A t \in Txs : /\ tx[t].status = "NEW" /\ tx[t].step = "READ"
                          /\ tx[t].rows = {} /\ tx[t].saw = {}
                          /\ \A u \in Users : tx[t].delta[u] = 0
    BY DEF Init
  <2>2. PastSeen
    BY <2>1 DEF PastSeen, SawPast, HeldRows, Row
  <2>3. \A u \in Users : ~(balance[u] < 0)
    BY <2>1, BalanceIsNat
  <2>4. ASSUME NEW t \in Txs PROVE Sees(t)
    <3>1. \A u \in Users : Sights(t, u) = {}
      BY <2>1 DEF Sights, Debiting, Running
    <3> QED BY <2>1, <3>1 DEF Sees, Running
  <2> QED BY <2>1, <2>2, <2>3, <2>4 DEF SolventInv, NothingAtFirst, DebtIsOfBlindDebits
<1>2. WalletTypeOK /\ BooksKept /\ SolventInv /\ [Next]_vars => SolventInv'
  BY StepEffects, SolventStep
<1>3. SolventInv => DebtIsOfBlindDebits
  BY DEF SolventInv
<1> QED BY <1>1, <1>2, <1>3, WalletTyped, BooksAreKept, PTL DEF Spec

=============================================================================
