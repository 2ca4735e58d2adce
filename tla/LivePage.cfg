CONSTANTS
  Streams = {auction}
  Counted = {auction}
  AuctionStream = auction
  FirstDelay = 1
  MaxDelay = 2
  MaxCount = 2
  None = None
  Instances = {x}
  Conns = {c1, c2}
  Amounts = {1, 2}
  BuyNowPrice = 2
  HistoryLimit = 2
  Clicks = {k1, k2}
SPECIFICATION HalfSpec
SYMMETRY Symmetry
INVARIANTS
  StreamsHold
  SubjectsFollowRequests
  ShownIsBid
  WatcherSeesHighest
