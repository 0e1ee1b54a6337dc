SPECIFICATION FairSpec
CONSTANTS
  Vips = {1, 2}
  MaxAsks = 2
  MaxJoins = 2
INVARIANTS Settled FilterFits PickedOnly StripTrue
PROPERTIES ClosedOnline SwitchDone FilterEnds
CHECK_DEADLOCK FALSE
