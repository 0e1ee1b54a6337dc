SPECIFICATION Spec
CONSTANTS
  Games = {g1, g2}
  Anonymous = {}
  Addrs = {a1, a2}
  None = None
  VipTop = 6
  Mangled = {1, 3, 6}
  Foreign = {}
  Enforce = FALSE
  SaveFaults = {"torn"}
  MaxInFlight = 2
  MaxRestarts = 1
  MaxMoves = 1
  MayWrap = FALSE
INVARIANTS StableVip
SYMMETRY Symmetry
CHECK_DEADLOCK FALSE
