SPECIFICATION Spec
CONSTANTS
  Games = {g1, g2}
  Anonymous = {}
  Addrs = {a1, a2, a3}
  None = None
  VipTop = 7
  Mangled = {1, 3, 7}
  Foreign = {4}
  Enforce = FALSE
  SaveFaults = {}
  MaxInFlight = 2
  MaxRestarts = 1
  MaxMoves = 1
  MayWrap = FALSE
INVARIANTS TypeOK StableVip CounterAhead
PROPERTIES FreshIsNew ImplementsOwnership
SYMMETRY Symmetry
CHECK_DEADLOCK FALSE
