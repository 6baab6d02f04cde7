CONSTANTS
  Ports = {r1}
  DefaultPort = d
  TvMay = {}
  MaxSeq = 3
  None = None
SPECIFICATION FairSpec
PROPERTY TeardownEnds
CHECK_DEADLOCK FALSE
