SPECIFICATION Spec
CONSTANTS
  Managers = {m1, m2}
  Amounts <- MCAmounts
  Totals <- MCTotals
  Floats = {0}
  Withdrawals = {0, 2}
  MaxRows = 2
  MaxClosings = 2
  NoRecord = NoRecord
INVARIANTS
  TypeOK
  ClosingExplained
  CachesFollowLines
CHECK_DEADLOCK FALSE
