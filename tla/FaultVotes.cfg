SPECIFICATION FairSpec
CONSTANTS
  N = 4
  Accused = {3}
  Late = {1}
  Impatient = {0}
CHECK_DEADLOCK FALSE
INVARIANTS
  TypeOK
  FoldedByVote
  KeyStaysSplit

  
  
