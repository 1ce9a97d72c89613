SPECIFICATION FairSpec
CONSTANTS
  Freqs = {1, 2}
  PollsToStabilize = 3
  MaxLag = 2
  MaxRigs = 4
  MaxMoves = 4
  MaxPending = 3
INVARIANT TypeOK
INVARIANT QsyStands
PROPERTY AudioOnKeyedRig
PROPERTY ReopenStands
PROPERTY Released
PROPERTY Converges
PROPERTY AudioStarts
CHECK_DEADLOCK FALSE
