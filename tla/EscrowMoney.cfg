SPECIFICATION FairSpec
CONSTANTS
  Accounts = {a1, a2, a3}
  MaxSeats = 3
  Deposits = {1, 2}
  Deltas <- SmallDeltas
  SETTLEMENT_DEADLINE = 2
  CHALLENGE_WINDOW = 1
  OpenFor = 1
CHECK_DEADLOCK FALSE
INVARIANTS
  RefundsCovered
  SettledToTheChip
  DisputesGoThrough
PROPERTIES
  MoneyComesBack
