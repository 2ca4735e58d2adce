----------------------------- MODULE MCWalletTx -----------------------------
(* Programs of concurrent wallet transactions for TLC. *)
EXTENDS WalletTx, TLC

CONSTANTS u1, u2, u3, b1, b2, b3, b4, b5, o1, o2, t1, t2, t3, t4, t5

MakeCall(op, user, amount, ref) ==
  [op |-> op, user |-> user, amount |-> amount, ref |-> ref]

(* Two finalizes of one auction, as the retry crons of two instances make      *)
(* them; a bid of u1 and a direct payment of u1 to u2, which takes the row     *)
(* locks in the finalizes' opposite order: u1 can afford one of the two, or    *)
(* both with what is paid back; and last the winner's payment through a hold.  *)
MixedProgram ==
  t1 :> <<MakeCall("RELEASE", u2, 2, b4), MakeCall("RELEASE", u1, 1, b3)>> @@
  t2 :> <<MakeCall("RELEASE", u2, 2, b4), MakeCall("RELEASE", u1, 1, b3)>> @@
  t3 :> <<MakeCall("HOLD", u1, 2, b1)>> @@
  t4 :> <<MakeCall("PAY", u1, 2, o1), MakeCall("SETTLE", u2, 2, o1)>> @@
  t5 :> <<MakeCall("CONVERT", u3, 1, o2), MakeCall("SETTLE", u2, 1, o2)>>
WinnerPaysLast == t1 :> {} @@ t2 :> {} @@ t3 :> {} @@ t4 :> {} @@ t5 :> {t1, t2, t3}
MixedHeld ==
  {MakeCall("HOLD", u1, 1, b3), MakeCall("HOLD", u2, 2, b4), MakeCall("HOLD", u3, 1, b5)}
MixedBalance == u1 :> 2 @@ u2 :> 0 @@ u3 :> 0
=============================================================================
