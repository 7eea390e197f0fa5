SPECIFICATION FairSpec
CONSTANTS
  NInvoices = 2
  Requests = {"p1", "x1"}
  Nobody = Nobody
  Kind <- MCKind
  Date <- MCDate
  Order <- MCOrder
  Total <- MCTotal
  Amounts = {1, 2}
  MaxCrashes = 0
PROPERTIES
  CancelledStays
CHECK_DEADLOCK FALSE
