CONSTANTS
  Auctions = {a1}
  Users = {u1, u2, u3}
  Bots = {u3}
  Bids = {b1, b2}
  Requests = {r1}
  Prices = {0, 1, 2, 3}
  Increments = {1}
  InitialBalance = 2
  MaxExtensions = 1
  Faults = {"db", "crash"}
  None = None
SPECIFICATION FairSpec
INVARIANTS
  FundsConserved
PROPERTIES
  PaidIsFinal
  PersistedFinalizeRuns
CHECK_DEADLOCK FALSE
