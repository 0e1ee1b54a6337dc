SPECIFICATION Spec
CONSTANTS
  Players = {1, 2}
  None = None
  MaxFiles = 2
  MaxUploads = 4
  MaxSales = 1
  Faults = {"file", "board", "short"}
  WriteAttempts = 2
  MaxRating = 2
  MaxResults = 2
  MaxSeconds = 2
  MaxBoth = 1
  MaxCrashes = 2
  MaxWork = 6
INVARIANTS TypeOK CarsTheirs RatingsFair ToldIsKept
PROPERTIES ImplementsRideBook TieKeepsOrder
CHECK_DEADLOCK FALSE
