SPECIFICATION Spec
CONSTANTS
  P = 167
  NumCards = 52
  N = 3
  KeySets <- TwoKeySets
  Perms <- SomePerms
  Nonces = {29}
CHECK_DEADLOCK FALSE
INVARIANTS
  DealtByTheIndexes
  BestHandWins
  QuorumRebuilds
  TooFewSharesTellNothing
