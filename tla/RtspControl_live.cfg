CONSTANTS
  Ports = {r1}
  DefaultPort = d
  TvMay = {"pause", "blanks", "stall"}
  MaxSeq = 3
  None = None
SPECIFICATION FairSpec
PROPERTY ExchangeEnds
PROPERTY PeerIsAnswered
PROPERTY CloseIsNoticed
CHECK_DEADLOCK FALSE
