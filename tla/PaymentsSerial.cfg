SPECIFICATION Spec
CONSTANTS
  NInvoices = 2
  Requests = {"p1", "p2", "a1", "c1", "x1"}
  Nobody = Nobody
  Kind <- MCKind
  Date <- MCDate
  Order <- MCOrder
  Total <- MCTotal
  Amounts = {1, 2}
  MaxCrashes = 0
ACTION_CONSTRAINT OneAtATime
INVARIANTS
  NoOverpayment
  CacheExactAtRest
  CancelledUnpaid
CHECK_DEADLOCK FALSE
