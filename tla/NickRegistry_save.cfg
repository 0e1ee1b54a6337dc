SPECIFICATION Spec
CONSTANTS
  Nicks = {n1}
  Keys = {k1, k2}
  None = None
  HoldTime = 2
  ExpireTime = 4
  TicketLife = 1
  SaveFaults = {"lost", "short"}
  MaxTime = 6
  MaxCodes = 3
PROPERTIES NicksStay
SYMMETRY Symmetry
CHECK_DEADLOCK FALSE
