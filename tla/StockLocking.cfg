SPECIFICATION Spec
CONSTANTS
  NProducts = 2
  NBatches = 4
  NWarehouses = 2
  sale1 = sale1
  sale2 = sale2
  return1 = return1
  return2 = return2
  receipt = receipt
  Sales = {sale1, sale2}
  Returns = {return1, return2}
  Receipts = {receipt}
  Fragile = {sale1}
  Nothing = Nothing
  ProductOf <- MCProductOf
  Opening <- MCOpening
  Sold <- MCSold
  WarehouseOf <- MCWarehouseOf
  Lines <- MCLines
INVARIANTS
  TypeOK
  RollupsExact
  StockExact
  NothingStranded
  ReturnsWithinSale
PROPERTIES
  BookKept
CHECK_DEADLOCK FALSE
