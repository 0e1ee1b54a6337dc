SPECIFICATION Spec
CONSTANTS
  Vips = {2, 3, 4, 5, 6}
INVARIANTS Forest RoomIsLowest
CHECK_DEADLOCK FALSE
