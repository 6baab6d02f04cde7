CONSTANTS
  Callers = {c1, c2}
  Peers = {tv}
  GoPeer = tv
  Ports = {p1}
  MaxIfindex = 2
  MaxCalls = 1
  MaxFaults = 2
  None = None
SPECIFICATION FairSpec
PROPERTY LostOwnerReleased
PROPERTY DriftEnds
PROPERTY CrashLeavesNothing
CHECK_DEADLOCK FALSE
