SPECIFICATION Spec
CONSTANTS
  MaxFrames = 2
  MaxReplies = 1
  MaxLag = 2
  HoldPtt = TRUE
  Tuning = FALSE
  GuardBand = {FALSE}
  Ready = {TRUE}
  PromptRig = TRUE
PROPERTY AudioOnlyIfNeeded
