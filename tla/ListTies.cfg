CONSTANTS
  Rows = {1, 2, 3}
  Queries <- TiedQueries
  Prices = {1}
  PageSize = 1
  MaxChanges = 1
  MaxChoices = 0
  NoId = 0
SPECIFICATION CatalogSpec
INVARIANTS
  EveryListIsWhole
CHECK_DEADLOCK FALSE
