SPECIFICATION Spec
CONSTANTS
  NInvoices = 2
  Requests = {"a1", "x1"}
  Nobody = Nobody
  Kind <- MCKind
  Date <- MCDate
  Order <- MCOrder
  Total <- MCTotal
  Amounts = {1, 2}
  MaxCrashes = 0
INVARIANTS
  CancelledUnpaid
CHECK_DEADLOCK FALSE
