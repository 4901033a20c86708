SPECIFICATION FairSpec
CONSTANTS
  N = 3
  Dealer = 0
  Rounds = 2
  LastStreet = 3
  Left = {0, 2}
  Echoed = {}
  EarlyCap = 64
  Silent = {1}
  Slow = {}
  DeadlinesPass = TRUE
  ActionsOvertake = TRUE
CHECK_DEADLOCK FALSE
INVARIANTS
  SecretUntilPublic

  
  
