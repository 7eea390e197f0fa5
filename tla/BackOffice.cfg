SPECIFICATION Spec
CONSTANTS
  customer = customer
  supplier = supplier
  Customers = {customer}
  Suppliers = {supplier}
  clerk1 = clerk1
  clerk2 = clerk2
  buyer1 = buyer1
  buyer2 = buyer2
  Requests = {clerk1, clerk2, buyer1, buyer2}
  Buyers = {buyer1, buyer2}
  NoParty = NoParty
  Amounts <- MCAmounts
  NDays = 2
  MaxEntries = 2
  rice = rice
  soap = soap
  Products = {rice, soap}
  editor = editor
  Editors = {editor}
  NoProduct = NoProduct
  Minimum <- MCMinimum
  OpeningStock <- MCOpeningStock
  NLines = 2
  LineProduct <- MCLineProduct
  Ordered <- MCOrdered
  OrderedFrom = supplier
  viewer1 = viewer1
  viewer2 = viewer2
  Viewers = {viewer1, viewer2}
  Worths = {0, 1}
  MaxTasks = 3
ACTION_CONSTRAINT EnteredFirst
SYMMETRY Interchangeable
INVARIANTS
  TypeOK
  ReceivablesAgree
  StatementAgrees
  StockShown
  OrderStatusCurrent
PROPERTIES
  AlertsCurrent
CHECK_DEADLOCK FALSE
