CONSTANTS
  Callers = {c1, c2}
  Peers = {tv, other}
  GoPeer = tv
  Ports = {p1, p2}
  MaxIfindex = 2
  MaxCalls = 2
  MaxFaults = 2
  None = None
SPECIFICATION Spec
SYMMETRY Symmetry
INVARIANT ChainOwned
INVARIANT NoInheritance
INVARIANT RecordedPortPinned
INVARIANT ActivationHeld
PROPERTY OnlyOwnerOrSupervisor
PROPERTY ImplementsLease
CHECK_DEADLOCK FALSE
