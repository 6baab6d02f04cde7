CONSTANTS
  MaxRuns = 1
  Wants = {"output", "audio"}
  HelperMayStall = FALSE
SPECIFICATION FairSpec
PROPERTY SignalEndsRun
CHECK_DEADLOCK FALSE
