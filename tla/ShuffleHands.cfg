SPECIFICATION Spec
CONSTANTS
  p1 = p1
  p2 = p2
  N = 3
  Perms <- OnePerm
  Copies = 1
  EarlyCap = 2
  Spoiled = {1, 2}
  PeersTimeOut = TRUE
  MaxHands = 2
CHECK_DEADLOCK FALSE
INVARIANTS
  EachSeatOnTop
  
PROPERTIES
  ImplementsSharedShuffle
