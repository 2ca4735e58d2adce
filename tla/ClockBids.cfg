CONSTANTS
  Auctions = {a1, a2}
  Requests = {r1, r2}
  Crons = {c1}
  MaxTime = 3
  Ends = {1, 2}
  MovedEnds = {2}
  Threshold = 1
  ExtendBy = 2
  MaxExtends = 1
  Limit = 1
  Timeout = 1
  Reopenings = {a1}
  None = None
SPECIFICATION FairSpec
INVARIANTS
  NoLateBid
  LastBidIsAnswerable
  NoEarlyClose
PROPERTIES
  ExpiredEnds
CHECK_DEADLOCK FALSE
