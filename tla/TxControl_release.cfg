SPECIFICATION Spec
CONSTANTS
  MaxFrames = 2
  MaxReplies = 0
  MaxLag = 2
  HoldPtt = FALSE
  Tuning = TRUE
  GuardBand = {FALSE, TRUE}
  Ready = {FALSE, TRUE}
  PromptRig = TRUE
INVARIANT PttHasOwner
INVARIANT EndWillBeSeen
PROPERTY AudioWaitsForRig
