SPECIFICATION TradeSpec
CONSTANTS
  NWarehouses = 1
  MaxBatches = 2
  MaxSales = 1
  Quantities = {1, 2}
  ExpiryDates = {}
  NoExpiry <- MCNoExpiry
  Costs = {2, 3}
  Prices = {5}
  Headers <- MCHeaders
  Tenders = {0, 5}
  Amounts <- MCAmounts
  Places = {2}
  MaxSlips = 1
INVARIANTS
  VoidReverses
ACTION_CONSTRAINT
  Deliveries
CHECK_DEADLOCK FALSE
