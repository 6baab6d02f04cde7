CONSTANTS
  Peers = {tv1, tv2, phone}
  Sinks = {tv1, tv2}
  None = None
INIT MCInit
NEXT Next
SYMMETRY Symmetry
INVARIANT SearchCompletes
INVARIANT ConnectsOwnGroup
INVARIANT OwnerHasExpectedAddress
INVARIANT GroupStartSeen
CHECK_DEADLOCK FALSE
