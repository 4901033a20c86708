SPECIFICATION FairSpec
CONSTANTS
  Peers <- ThreePeers
  TableSizes = {2, 3}
  Clock <- ThreeClocks
CHECK_DEADLOCK FALSE
INVARIANTS
  SameOrder
PROPERTIES
  TableStaysClosed
  EveryoneLeavesOrMissed
