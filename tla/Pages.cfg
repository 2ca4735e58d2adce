CONSTANTS
  MaxNotes = 2
  PanelSize = 1
  MaxMarks = 1
  MaxMisses = 1
  Cards = {a, b}
  MaxHappens = 2
  MaxMishaps = 1
  Flows = {f1, f2}
  MaxMoves = 3
  MaxLosses = 1
SPECIFICATION Spec
INVARIANTS
  CardsHold
  CheckoutHolds
  BellRestsRight
PROPERTIES
  BellCatchesUp
  MainCatchesUp
  CheckoutSettles
CHECK_DEADLOCK FALSE
