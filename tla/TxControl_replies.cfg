SPECIFICATION Spec
CONSTANTS
  MaxFrames = 2
  MaxReplies = 2
  MaxLag = 2
  HoldPtt = TRUE
  Tuning = FALSE
  GuardBand = {FALSE}
  Ready = {TRUE}
  PromptRig = TRUE
PROPERTY RepliesSurviveCompletion
