SPECIFICATION Spec
CONSTANTS
  Freqs = {1, 2}
  PollsToStabilize = 3
  MaxLag = 2
  MaxRigs = 4
  MaxMoves = 4
  MaxPending = 3
INVARIANT QsyApplied
CHECK_DEADLOCK FALSE
