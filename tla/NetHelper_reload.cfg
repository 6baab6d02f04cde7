CONSTANTS
  Callers = {c1, c2}
  Peers = {tv, other}
  GoPeer = tv
  Ports = {p1, p2}
  MaxIfindex = 2
  MaxCalls = 2
  MaxFaults = 2
  None = None
SPECIFICATION Spec
SYMMETRY Symmetry
CHECK_DEADLOCK FALSE
PROPERTY ReloadNeverReopens
