CONSTANTS
  Browsers = {x}
  Calls = {c1, c2, c3}
  MaxTime = 2
  AccessLife = 1
  RefreshLife = 2
  Faults = {"redis", "db", "lost"}
  None = None
SPECIFICATION Spec
SYMMETRY Symmetry
INVARIANTS
  SessionKept
  HandledOnce
  OutStaysOut
  OneAccount
CHECK_DEADLOCK FALSE
