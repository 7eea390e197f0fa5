SPECIFICATION FairSpec
CONSTANTS
  NInvoices = 2
  Requests = {"a1", "a2", "c1", "x1"}
  Nobody = Nobody
  Kind <- MCKind
  Date <- MCDate
  Order <- MCOrder
  Total <- MCTotal
  Amounts = {2}
  MaxCrashes = 1
INVARIANTS
  TypeOK
  NoOverpayment
  CacheExact
  AllOrNothing
  AdvanceIsGenuine
PROPERTIES
  AllAnswered
  CancelledStays
CHECK_DEADLOCK FALSE
