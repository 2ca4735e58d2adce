CONSTANTS
  Auctions = {a1, a2, a3, a4}
  First = {a1}
  Shoe = x1
  Relists = {r1, r2}
  Seeds = {s1, s2}
  Purges = {p1}
  Reviewers = {v1}
  Mixes = {{r1, r2, p1}, {s1, s2}, {r1, s1}, {s1, p1}, {v1, p1}}
  MaxTime = 3
  PayWithin = 1
  RelistDelay = 1
  Lookback = 3
  Retention = 2
  None = None
SPECIFICATION Spec
INVARIANTS
  SalesAreSound
  
PROPERTIES
  PurgeTakesSettled
CHECK_DEADLOCK FALSE
