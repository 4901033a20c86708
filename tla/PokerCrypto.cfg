SPECIFICATION Spec
CONSTANTS
  N = 3
  SmallBlind = 1
  BigBlind = 2
  Stacks <- Covered
  RaiseAmounts = {2}
  CryptoMode = TRUE
  LocalSeat = 0
  MaxHands = 2
CHECK_DEADLOCK FALSE
INVARIANTS
  ShowdownComplete
  StreetMatched

  
  
