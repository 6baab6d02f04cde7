CONSTANTS
  Offers <- MCOffers
  LaterOffers <- MCLaterOffers
  Configs <- MCConfigs
  Forced <- MCForced
  Malformed = Malformed
  None = None
SPECIFICATION Spec
INVARIANT PromiseIsConsistent
INVARIANT PromiseIsBest
INVARIANT StreamKeepsPromise
INVARIANT AnswersAreHeard
INVARIANT CastOutlivesPipeline
INVARIANT NothingStrays
PROPERTY ImplementsModes
CHECK_DEADLOCK FALSE
