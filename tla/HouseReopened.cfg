CONSTANTS
  Auctions = {a1}
  Users = {u1, u2, u3}
  Bots = {}
  Bids = {b1, b2}
  Requests = {r1}
  Prices = {1, 2, 3}
  Increments = {1}
  InitialBalance = 3
  MaxExtensions = 1
  Faults = {}
  None = None
SPECIFICATION FairSpec
PROPERTIES
  EveryExpiredIsClosed
CHECK_DEADLOCK FALSE
