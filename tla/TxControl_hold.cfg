SPECIFICATION FairSpec
CONSTANTS
  MaxFrames = 2
  MaxReplies = 1
  MaxLag = 2
  HoldPtt = TRUE
  Tuning = FALSE
  GuardBand = {FALSE}
  Ready = {TRUE}
  PromptRig = TRUE
INVARIANT TypeOK
INVARIANT SendButtonOwnsFrames
INVARIANT PttHasOwner
INVARIANT EndWillBeSeen
INVARIANT FrameByFrame
INVARIANT Framing
INVARIANT PttHeldBetweenFrames
PROPERTY AudioWaitsForRig
PROPERTY SessionEnds
PROPERTY PttReleased
