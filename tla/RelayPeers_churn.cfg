SPECIFICATION FairSpec
CONSTANTS
  Games = {g1, g2}
  Anonymous = {g2}
  Addrs = {a1, a2}
  None = None
  VipTop = 5
  Mangled = {1, 2}
  Foreign = {}
  Enforce = TRUE
  SaveFaults = {"torn"}
  MaxInFlight = 1
  MaxRestarts = 1
  MaxMoves = 1
  MayWrap = TRUE
INVARIANTS TablesAgree
PROPERTIES GetsIn
CHECK_DEADLOCK FALSE
