SPECIFICATION Spec
CONSTANTS
  Messages <- Mixed
  CompoundCalls <- MixedCompound
  Places = {{0, 1}}
  Threshold = 1
  Period = 4
  CloseAfter = 8
  DropAfter = 12
  Day = 12
  MaxMessages = 3
  MaxLines = 2
  OtherActivity = TRUE
INVARIANT TypeOK
INVARIANT Faithful
INVARIANT AtMostOnce
INVARIANT WholeIsProcessed
INVARIANT BuffersExpire
