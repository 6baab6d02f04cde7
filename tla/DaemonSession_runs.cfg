CONSTANTS
  MaxRuns = 2
  Wants = {"output", "audio"}
  HelperMayStall = TRUE
SPECIFICATION FairSpec
INVARIANT NothingLeft
INVARIANT EventsInOrder
PROPERTY LostSessionEnds
PROPERTY NetworkReleased
CHECK_DEADLOCK FALSE
