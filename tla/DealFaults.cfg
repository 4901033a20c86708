SPECIFICATION Spec
CONSTANTS
  N = 3
  Dealer = 0
  Rounds = 1
  LastStreet = 0
  Left = {}
  Echoed <- OneCopy
  EarlyCap = 64
  Silent = {}
  Slow = {1}
  DeadlinesPass = FALSE
  ActionsOvertake = FALSE
CHECK_DEADLOCK FALSE
INVARIANTS
  TypeOK
  EveryCardWhole
  SecretUntilPublic
