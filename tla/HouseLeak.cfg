CONSTANTS
  Auctions = {a1}
  Users = {u1, u2, u3}
  Bots = {}
  Bids = {b1, b2, b3}
  Requests = {r1}
  Prices = {0, 1, 2, 3}
  Increments = {1}
  InitialBalance = 6
  MaxExtensions = 1
  Faults = {}
  None = None
SPECIFICATION Spec
INVARIANTS
  NoHoldOutlivesSale
CHECK_DEADLOCK FALSE
