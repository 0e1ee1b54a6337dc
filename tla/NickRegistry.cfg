SPECIFICATION Spec
CONSTANTS
  Nicks = {n1}
  Keys = {k1, k2, k3}
  None = None
  HoldTime = 2
  ExpireTime = 3
  TicketLife = 2
  SaveFaults = {}
  MaxTime = 9
  MaxCodes = 5
INVARIANTS TypeOK Durable TicketHolders
PROPERTIES ImplementsNickOwnership CancelHolds
SYMMETRY Symmetry
CHECK_DEADLOCK FALSE
