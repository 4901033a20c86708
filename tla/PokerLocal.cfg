SPECIFICATION Spec
CONSTANTS
  N = 4
  SmallBlind = 1
  BigBlind = 2
  Stacks <- FourSeats
  RaiseAmounts = {2, 3}
  CryptoMode = FALSE
  LocalSeat = 0
  MaxHands = 1
CHECK_DEADLOCK FALSE
INVARIANTS
  TypeOK
  LedgerBalanced
  PotsPaidInFull
  ActorCanAct
  PaidWhatCovered
