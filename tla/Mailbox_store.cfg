SPECIFICATION FairSpec
CONSTANTS
  All = All
  Stations = {a, b, c}
  Authors = {a}
  Stores = {b}
  Readers = {a, c}
  Relays = {a}
  MaxMoves = 4
  MaxQueue = 2
  MaxTexts = 2
INVARIANT TypeOK
INVARIANT Private
INVARIANT OfferHonoured
INVARIANT NotOfferedAgain
PROPERTY Quiet
CHECK_DEADLOCK FALSE
