CONSTANTS
  Procs = {w1, w2, w3}
  UserSinks = {speakers, headset}
  MaxIndex = 3
  Other = other
  None = None
SPECIFICATION Spec
SYMMETRY Symmetry
INVARIANT Recorded
INVARIANT DefaultRestored
PROPERTY LiveSinkKept
CHECK_DEADLOCK FALSE
