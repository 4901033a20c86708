SPECIFICATION FairSpec
CONSTANTS
  N = 3
  Silent = {2}
  Slow = {}
  Reorder = TRUE
  Turns = 2
  Streets = 2
  MaxHands = 2
  MaxTicks = 1
CHECK_DEADLOCK FALSE

  
PROPERTIES
  HandSettles
