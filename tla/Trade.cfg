SPECIFICATION TradeSpec
CONSTANTS
  NWarehouses = 1
  MaxBatches = 2
  MaxSales = 1
  Quantities = {1, 2}
  ExpiryDates = {}
  NoExpiry <- MCNoExpiry
  Costs = {2, 3}
  Prices = {5}
  Headers <- MCHeaders
  Tenders = {0, 5}
  Amounts <- MCAmounts
  Places = {2}
  MaxSlips = 1
INVARIANTS
  TradeTypeOK
  ReceivableExplained
  PayableExplained
  GoodsValued
  CostFollowsGoods
  ProfitAgrees
  CashFlowExplained
PROPERTIES
  StockRefined
ACTION_CONSTRAINT
  Deliveries
  Invoices
CHECK_DEADLOCK FALSE
