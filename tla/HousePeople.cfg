CONSTANTS
  Auctions = {a1}
  Users = {u1, u2, u3}
  Bots = {}
  Bids = {b1, b2, b3}
  Requests = {r1, r2}
  Prices = {1, 2, 3}
  Increments = {1}
  InitialBalance = 6
  MaxExtensions = 1
  Faults = {"db", "crash"}
  None = None
SPECIFICATION RecordedSpec
SYMMETRY Symmetry
INVARIANTS
  TypeOK
  LiveBidsAreBacked
  OrderMatchesAuction
  PriceTracksTopBid
  FundsConserved
  RefundsAreTracked
PROPERTIES
  ImplementsContract
CHECK_DEADLOCK FALSE
