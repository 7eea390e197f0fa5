SPECIFICATION Spec
CONSTANTS
  NInvoices = 2
  Requests = {"p1", "p2"}
  Nobody = Nobody
  Kind <- MCKind
  Date <- MCDate
  Order <- MCOrder
  Total <- MCTotal
  Amounts = {1, 2}
  MaxCrashes = 0
INVARIANTS
  NoOverpayment
CHECK_DEADLOCK FALSE
