CONSTANTS
  Ports = {r1, r2}
  DefaultPort = d
  TvMay = {}
  MaxSeq = 3
  None = None
SPECIFICATION Spec
SYMMETRY Symmetry
INVARIANT AdvertisedIsAuthorized
INVARIANT StreamMatchesSetup
PROPERTY AnswersMatch
CHECK_DEADLOCK FALSE
