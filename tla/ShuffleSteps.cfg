SPECIFICATION FairSpec
CONSTANTS
  p1 = p1
  p2 = p2
  N = 3
  Perms <- TwoPerms
  Copies = 2
  EarlyCap = 8
  Spoiled = {}
  PeersTimeOut = FALSE
  MaxHands = 1
CHECK_DEADLOCK FALSE
INVARIANTS
  TypeOK
  SameSteps
  

  
