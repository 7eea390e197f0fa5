SPECIFICATION Spec
CONSTANTS
  NWarehouses = 2
  MaxBatches = 2
  MaxSales = 1
  Quantities <- MCQuantities
  ExpiryDates = {1}
  NoExpiry <- MCNoExpiry
INVARIANTS
  TypeOK
  RollupsAgree
  NoStrandedStock
  MovementsExplainStock
  Conservation
  SaleCovered
PROPERTIES
  FefoDiscipline
CHECK_DEADLOCK FALSE
