CONSTANTS
  u1 = u1
  u2 = u2
  u3 = u3
  b1 = b1
  b2 = b2
  b3 = b3
  b4 = b4
  b5 = b5
  o1 = o1
  o2 = o2
  t1 = t1
  t2 = t2
  t3 = t3
  t4 = t4
  t5 = t5
  None = None
  Users = {u1, u2, u3}
  Refs = {b1, b2, b3, b4, b5, o1, o2}
  Txs = {t1, t2, t3, t4, t5}
  Program <- MixedProgram
  After <- WinnerPaysLast
  Held <- MixedHeld
  Balance <- MixedBalance
  MayFail = TRUE
SPECIFICATION Spec
INVARIANTS
  BalanceIsLedger
  ReleasedOnce
  DebtIsOfBlindDebits
PROPERTIES
  AllEnd
CHECK_DEADLOCK FALSE
