CONSTANTS
  Procs = {w1, w2, w3}
  MaxOutputs = 2
  MaxBlocks = 2
  MaxFailures = 1
  MaxAlive = 2
  Other = other
  None = None
SPECIFICATION Spec
SYMMETRY Symmetry
INVARIANT Recorded
INVARIANT EditsKept
PROPERTY ConfigRestored
PROPERTY FallsThrough
PROPERTY LiveOutputKept
PROPERTY AnswerExists
CHECK_DEADLOCK FALSE
