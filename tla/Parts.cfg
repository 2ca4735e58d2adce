CONSTANTS
  Attempts = {i1, i2}
  Auctions = {a1}
  Bots = {b1, b2}
  AuctionTtl = 2
  BotMs = 2500
  MaxTime = 3
  MaxDelay = 1
  Faults = {"STOP", "CLEAR"}
  Rows = {1, 2, 3}
  Queries <- MCQueries
  Prices = {1, 2}
  PageSize = 1
  MaxChanges = 2
  MaxChoices = 1
  NoId = 0
  Forms = {g1, g2}
  MaxUploads = 2
  MaxLapses = 2
  Senders = {s1, s2}
  Window <- MCWindow
  MaxAlerts = 3
  MaxMinute = 4
  EndsAt = 4
  Soon = 3
SPECIFICATION Spec
SYMMETRY Symmetry
INVARIANTS
  Spaced
  KeysHaveReasons
  ListsAreWhole
  ImagesAreTracked
  RepeatsOverlap
CHECK_DEADLOCK FALSE
