# A formal model of GSMS

TLA+ specifications of the General Store Management System (Django, `src/`): what its
services do to the database, checked by TLC on small instances and, for the central
modules, proved by TLAPS for every value of the constants.

## 1. The system

GSMS is a request/response web application. All its state is in one relational database;
a request is a Python function (`views.py`) that calls services (`services.py`), and a
service wraps its writes in `transaction.atomic()`. There are no background jobs, queues
or messages: concurrency is several requests at once, failure is a transaction that rolls
back or a worker that dies between two transactions of one request.

What the models assume of the database (README of the application: SQLite by default,
"PostgreSQL in production"; `gsms/settings.py` sets neither `ATOMIC_REQUESTS` nor an
isolation level) is PostgreSQL's READ COMMITTED:

- a statement sees what is committed when it starts; a block commits or rolls back as one;
- `select_for_update()` and `UPDATE` wait for the transaction that holds the row, and an
  insert that references a row waits for whoever holds it FOR UPDATE;
- a circle of waits is broken by aborting one of the transactions in it;
- a model instance is a private copy: `save()` writes all its columns back.

### Inventory of components

| component | state | operations | interacts with | what makes it correct |
|---|---|---|---|---|
| inventory | `ProductBatch`, `BatchStock`, `WarehouseStock`, `InventoryTransaction`, `StockTransfer`, `StockAdjustment`, `Product.stock` | `receive_stock`, `allocate_stock_fifo`, `consume_allocations`, `transfer_stock`, `adjust_stock`, `recompute_product_stock` | called by sales and purchases inside their transactions; posts adjustments to finance | the four counts of the same goods agree, nothing goes negative, first expiring first out, no goods stranded in a DEPLETED batch |
| sales | `Sale`, `SaleItem`, `BatchAllocation`, `SalesReturn` and its rows | `create_sale`, `create_sales_return`, `cancel_sale`, `Sale.recalculate`, add payment | inventory, finance, payments | a line is covered by its allocations and never over-returned; `paid`, `remaining`, `status` say what the payments say; a cancelled invoice is final and unpaid |
| purchases | `PurchaseOrder`, `Purchase`, their items and returns | `create_purchase_order`, `create_purchase`, `create_purchase_return`, `cancel_purchase`, `refresh_status` | inventory, finance, payments | the mirror of sales; an order's status follows what was received |
| payments | `PaymentAllocation` | `allocate_payment` and its two views | locks sales and purchases; calls finance | no invoice takes more than it owes, one payment is all or nothing |
| finance | `Account`, `BusinessTransaction`, `LedgerEntry`, `Payment`, `CashRegister`, `Expense`, `Income`, `CashTransaction`, `DayClosing` | `post_transaction`, `record_payment`, `post_expense`, `post_income`, `record_cash_transaction`, `close_day`, opening balances and adjustments | everything posts to it | debits equal credits, a cached balance leaves its lines by no more than the rounding of half cents, the drawer's expected cash is what went in and out |
| customers, suppliers | `Customer`, `Supplier`, linked `Account` | create, edit, delete, `_collect_due`, give and receive payments | finance, payments | one ledger account per party, collections settle the oldest invoices |
| notifications | `Notification` | `refresh_notifications`, mark read, mark all read | reads products, customers and suppliers; started by its list and by the dashboard | one row per condition that holds; read stays read |
| products | `Product` and its prices, barcodes, images | the form, the Excel import, labels | its `stock` is the inventory's, its `expiry_date` also set by purchases | what is saved must not undo what the services have written |
| reports, dashboard | none | aggregation | read every table | two ways to the same figure give the same figure |
| masters, settings_app, accounts, audit, core | lookups, users, append-only log | forms, role checks, PDF, e-mail | | not modelled: no state that one operation leaves for another |

### Behaviours that are hard here

- **Stale copies.** A view loads instances, calls services that lock and change *other*
  copies of the rows, and saves its own copy afterwards (`Sale.recalculate`).
- **Checks outside the transaction.** `cancel_sale` and `cancel_purchase` look for
  payments before their atomic block, `create_sales_return` checks the returnable
  quantity without a lock.
- **Requests of several transactions.** `sale_add_payment` and `_collect_due` commit more
  than once; a crash in between leaves the first part.
- **Lock orders.** Invoices, batches and account rows are locked one by one, in the order
  of a form, of a query whose ties are open, or of a transaction's lines.
- **Redundant counts.** Seven operations keep four counts of the same goods with different
  statements; only long sequences (sell out, return, transfer, return to the supplier)
  tell whether they agree.
- **Statement by statement.** `refresh_notifications` is in no transaction, and inside a
  transaction what another request commits is seen by the next statement:
  `recompute_product_stock` and `refresh_status` read in one and write in another.
- **Whole rows.** A form or an import saves every column of a row it loaded earlier, also
  those that other requests have changed since.
- **Unvalidated numbers.** Forms let zero and negative quantities through to the services.

`PROJECT.json` lists each of these as a hazard at its line, with the property that watches it.

## 2. The modules

| module | models | role |
|---|---|---|
| `Sums` | `aggregate(Sum(...))` | totals over numbered rows, as a recursive function |
| `Inventory` | `inventory/services.py`, the stock side of sales and purchases | one product's stock, each service call one step |
| `InvoicePayments` | `sales/views.py`, `customers/views.py`, `payments/`, `record_payment`, `Sale.recalculate`, `cancel_sale` | concurrent requests against a customer's open invoices, each transaction one step |
| `Ledger` | `post_transaction`, `_apply_balance_delta`, `_signed_party_lines`, the chart of accounts | double entry as operators on a ledger record |
| `Trade` | `sales/services.py`, `purchases/services.py`, `adjust_stock`, `record_payment`, adjustments | composes `Inventory` and `Ledger`: each service call with all it does to goods and money |
| `Reports` | `reports/views.py`, `Sale.total_profit` | what the reports show of the tables of `Trade` |
| `DayClosing` | `close_day`, expenses, incomes, cash registers | composes `Ledger` with the documents of one date |
| `StockBook` | what the stock services promise | abstract: a request is served as a whole or refused, and answered |
| `StockLocking` | `allocate_stock_fifo`, `consume_allocations`, `create_sales_return`, `receive_stock`, `recompute_product_stock` | concurrent transactions, statement by statement, with row locks; implements `StockBook` |
| `PartyAccounts` | `customers/`, `suppliers/`, `get_or_create_party_account`, `get_party_statement` | parties, their accounts and the copies requests hold of them |
| `Catalogue` | `products/` | product rows and the forms that save them whole |
| `PurchaseOrders` | `create_purchase_order`, `create_purchase`, `refresh_status` | an order and concurrent purchases that fulfil it; extends `PartyAccounts` and `Catalogue` |
| `Notifications` | `notifications/` | concurrent refreshes of the alerts; extends `PartyAccounts` and `Catalogue` |
| `BackOffice` | the handlers of these components and credit sales | composes the four modules above |
| `MCInventory`, `MCInvoicePayments`, `MCTrade`, `MCDayClosing`, `MCStockLocking`, `MCBackOffice` | | instances for TLC; `MCTrade` also defines `Deliveries` and `Invoices`, action constraints of its runs, `MCBackOffice` `EnteredFirst` and its symmetry |
| `SumsProofs` | | lemmas about totals, and about rows listed in an order |
| `LedgerProofs` | | lemmas about postings: what one adds to the balances, and to the cash report |
| `InventoryProofs`, `InvoicePaymentsProofs`, `TradeProofs` (with `Reports`), `DayClosingProofs`, `StockLockingProofs` (with `StockBook`), `BackOfficeProofs` (with the four modules it composes) | | theorems |

Definitions whose comment starts with "Fault:" are no part of a specification. Each is a
plausible slip in the definition after it (a dropped guard, a wrong order of statements);
`PROJECT.json` names, for every property, the fault that breaks it.

### Inventory

One product, `NWarehouses` warehouses. A batch is a row number, a sale line a row number;
a column of a table is a function from its rows. Every service call is one
`transaction.atomic()` block, so every call is one action, from the first check to the
trailing `recompute_product_stock`:

| action | code |
|---|---|
| `Purchase` | `create_purchase`, one line, through `receive_stock` |
| `AdjustUp`, `AdjustDown` | `adjust_stock`, INCREASE and DECREASE |
| `Sell` | `create_sale`, one line: `allocate_stock_fifo`, the `BatchAllocation` rows, `consume_allocations` |
| `ReturnGood`, `ReturnDamaged` | `create_sales_return`; `cancel_sale` voids an invoice through the same call with all that is left |
| `ReturnToSupplier` | `create_purchase_return`; `cancel_purchase` likewise |
| `Transfer` | `transfer_stock`, one item |

`allocate_stock_fifo` is a loop in the code. `Allocation` states its result: a batch
supplies what the batches picked before it (`ShelfBefore`) leave to be supplied. Where a
query gives no order (the allocations a return is spread over) `Spreads` allows every order.
Quantities are integers, including a negative one: the service is not protected from it,
the column's CHECK constraint (`batchstock_quantity_gte_0`) is the guard `q >= 0` of
`ReceiveStock`, and `batchStock[b][to] + q >= 0` in `Transfer`. That no *decrement* ever
runs into that constraint is part of `TypeOK`. `Transfer` lets a little more through than
the code: a zero or negative quantity from a warehouse that never had a `BatchStock` row of
the batch raises an exception there (`from_bs` is `None`), and is a step of the model.
Nothing in the repository but its tests calls `transfer_stock`; it is modelled as the
service it is.

Unit costs and postings are added by `Trade`. Left out: several lines per document (they
are several actions, with no state of their own in between); what happens inside the
transactions is in `StockLocking`.

### InvoicePayments

A customer's invoices are `1..NInvoices`, oldest first; a request is a process of one of
four kinds, and a step of it is one transaction or one autocommitted statement:

| kind | code | steps |
|---|---|---|
| `pay` | `sale_add_payment` | `LoadForPayment`, `RecordPayment` (`record_payment`'s transaction), `ReadDirect`, `ReadAllocated`, `Save` (`recalculate()` in autocommit) |
| `allocate` | `customer_payment_allocate` | `LoadForAllocation`, `Lock` per invoice, `CommitAllocation` |
| `collect` | `customer_payment` with `_collect_due` | `LoadForCollection`, `Lock`..., `CommitAllocation`, `RecordAdvance` |
| `cancel` | `sale_cancel`, `cancel_sale` | `LoadForCancel`, `CheckUncollected`, `Void` |

`plan`, `extra`, `loaded` and `tally` are a request's private variables: what it means to
put on each invoice, what `_collect_due` has left over, the statuses in its copies, and the
sum `recalculate()` is adding up. `direct`, `allocatedTo` and `onAccount` are the `Payment` and
`PaymentAllocation` rows, as sums. A transaction that only inserts (`RecordAdvance`) or
that holds its locks for one step needs no `holder`; `allocate_payment`, which locks row
by row, does. `Crash` loses a request and rolls back what it has not committed, `Abort`
is the database's way out of a circle of waits. `recorded` is a history variable.

Abstractions, each of which keeps the orders the properties depend on: `Sale.total` is a
constant (items are not edited after the sale); the invoices start unpaid, with a positive
total (a sale paid in part at the counter is one that `pay` has visited); the three
existence queries of `cancel_sale` are one step (`CheckUncollected`), since a payment between two of
them is, for the void, a payment after them; an allocation form posts each invoice at most
once; account rows and the ledger are not in this module; neither are sales returns other
than the void.

### Ledger

A ledger is a record of debit and credit totals and the cached balance per account, in cents.
`PostUnrounded(l, debited, credited, amount)` is `post_transaction` with its two lines, the
amount being in hundredths of a cent, as a product of a quantity and a price is: the line is
rounded when it is inserted (`finance/services.py:44`), the balance after the unrounded amount has
been added to it (`:56`), both half away from zero, as PostgreSQL does (`Rounded`). `Post` is
the case of an amount in whole cents, in which nothing is rounded. Every caller
in the repository passes one debit and one credit of the same amount, so the check for
unbalanced lines has nothing to find. Amount 0 stands for a posting the caller skips (`if
total:`); where it does not skip, the action has the guard of `post_transaction` itself
(`amount # 0` in `AddExpense`). Amounts may be negative, as the columns and forms allow. The
accounts are the seeded ones the services name by code, one register other than MAIN
(`Till`), one customer (`Receivable`) and one supplier (`Payable`); MAIN has account 1000
(`finance/migrations/0006_seed_default_register.py`).

### Trade

Each action is an action of `Inventory` and the postings made in the same transaction:

| action | code |
|---|---|
| `BuyGoods`, `PayPurchase` | `create_purchase` with `amount_paid_now`; `record_payment` of a purchase |
| `ReturnPurchase`, `CancelPurchase` | `create_purchase_return`; `cancel_purchase`, which makes one of all that came |
| `SellToCustomer`, `SellToWalkIn`, `PaySale` | the two branches of `create_sale`; `record_payment` of a sale |
| `ReturnSale`, `ReturnSpoiled`, `CancelSale` | `create_sales_return` of a GOOD line, of a DAMAGED or EXPIRED one; `cancel_sale` |
| `ReceiveFrom`, `GiveTo`, `AdjustParty` | `record_payment` on account; `post_opening_balance`, `post_balance_adjustment` |
| `FoundGoods`, `LostGoods`, `MoveGoods` | `adjust_stock` up and down; `transfer_stock` |

Abstractions: one customer and one supplier (an account per party, and no operation touches
two); one line per invoice, so an invoice is its batch or sale line, and its `discount` and
`tax` are one number, the header; quantities are whole and prices in whole cents, so every
posting is exact and so are the properties (what half cents do to the cached balances is in
`DayClosing`); one request at a time, the interleaving being the subject of
`InvoicePayments`. `paid`, `remaining` and `status` are functions of the documents here
(`OwedOnSale`, `OwedOnPurchase`). `allocate_payment` does to each invoice what `PaySale`
does, and posts their sum. A return is of one condition; several lines are several
returns. `Inventory` is the abstract specification: `StockRefined` says that the
services do nothing to the stock tables but what it allows.

### DayClosing

One date and the account 1000. Documents recorded under the date keep what `close_day`
sums over, namely whether their account is 1000:

| action | code |
|---|---|
| `WalkInSale`, `WalkInReturn` | `create_sale` and `create_sales_return` with no customer |
| `RecordPayment` | `record_payment`, of an invoice (`sale`, `purchase`) or on account, in either direction |
| `AddExpense`, `DeleteExpense`, `AddIncome`, `DeleteIncome` | the views of `finance/views.py` with `post_expense` and `post_income` |
| `CashIn`, `CashOut` | `record_cash_transaction`, direction and counter account by type |
| `Count`, `SaveClosing` | `close_day`: its queries, then its transaction |

`close_day` runs its queries before its transaction, so `Count` and `SaveClosing` are two
steps of a manager's request and anything may happen between them, another closing
included. The seven queries are one step. `Unseen` names every movement on the drawer's
account that the code does not look at, or counts although it was on another account:
walk-in sales received by another register, walk-in refunds, payments to
customers and from suppliers, the cash transactions of MAIN, withdrawals, and rows deleted
after they were posted. `ClosingExplained` says that there is nothing else. `deleted`
and the field `drawer` are history: nothing the code does depends on them. `opening_cash` and
`withdrawals` are what the form accepts, `actual_cash` and `difference` are left out:
they are displayed, and offered as the next day's `opening_cash`. The row is
saved as it was computed by `Count`; that it is out of date when documents are recorded in between is by
design, and `ClosingExplained` dates it by the drawer as it was when the sums were read.

Walk-in sales and their refunds are posted as quantity times price, unrounded (`Totals`, in hundredths of
a cent). `CachesFollowLines` says what that does: a cached balance and its
lines part by a cent only over a line of an exact half cent, and in which direction (`raised` and
`lowered`, histories, count such lines). `ClosingExplained` is about the ledger's lines, not the cache.

### Reports

Functions of the tables of `Trade`: `SalesReported` and `ProfitReported` (`sales_report`,
`profit_report`, the dashboard), and in `Trade` and `Ledger`, where they belong,
`InventoryValuation`, `NetCash` and `ComputedBalance`. Here the rounding matters:
`cost_price_at_sale` is a quotient stored in a NUMERIC(12, 2) column, and the profit report
multiplies it by the quantity again. `Rounded` is what the column does; an integer of the model
is the smallest unit of money. `ProfitAgrees` says what the report and the ledger may differ by: half
a unit per unit sold, and the things the report does not look at (refunds and voids, their
cost, tax). `CashFlowExplained` works out net cash from the documents, so a payment counted
twice or not at all would show.

### StockLocking and StockBook

A sale, a return or a receipt (`Movers`) is one transaction of several steps, each a
statement or the lock of one row:

| step | code |
|---|---|
| `QueryBatches`, `LockNext`, `Allocate` or `RefuseSale` | a line of `create_sale`: the query of `allocate_stock_fifo`, its rows locked pair by pair, the plan, `consume_allocations` |
| `CheckLine` or `RefuseReturn`, `UpdateBatch` twice | a GOOD line of `create_sales_return`: the checks, `ProductBatch`, `BatchStock` |
| `InsertBatch` | a line of `receive_stock` |
| `UpdateTotal`, `ReadSum`, `WriteSum` | every line: `WarehouseStock`, the two statements of `recompute_product_stock` |
| `LockNext`, `Commit` | the account rows of the postings, the commit |
| `Abort`, `Crash` | the database ends a circle of waits; a worker dies |

What a transaction has written and not committed is in `change` (per batch, in its warehouse)
and `written` (`Product.stock`); `Seen` adds the first to what is committed. All other columns a
line writes follow from `change` at the commit, because the rows are locked until then. A
SELECT FOR UPDATE that had to wait looks at the row again and drops it if it no longer
qualifies, but takes in no row that has come to qualify since (`Locked`): so a sale can be
refused although goods have just arrived, which `StockBook` allows. A return is of one line,
sold earlier from one batch; damaged goods move no stock and are left out, and so are
walk-in postings, whose account rows come in no other order.

`StockBook` is the contract: a request changes the shelf in one step by exactly what was
asked, all batches of a product in the same direction and none below zero, or changes
nothing; and every request is answered. `BookKept` is that `StockLocking` implements
it under the mapping `Outcome`, liveness included. A return counts the rows its own earlier lines have written (`Returnable`). `raced` is history:
the batches of whose sale line two returns were under way at once, of which `ReturnsWithinSale`
promises nothing.

### PartyAccounts, Catalogue, PurchaseOrders, Notifications, BackOffice

Requests that load a row now and use it later. `copy` is a request's copy of a party (only
`linked_account` matters), `draft` an editor's copy of a product, `cart` what a buyer's form was
filled in with from an order.

| action | code |
|---|---|
| `CreateParty`, `QuickCreate`, `DeleteParty` | `customer_create`, `supplier_create`; `customer_quick_create_api` and the admin site; `customer_delete`, `supplier_delete` |
| `Load`, `SaveForm` | `get_object_or_404`; `customer_edit`, `supplier_edit` |
| `Pay`, `AdjustBalance`, `SellOnCredit` | `record_payment` on account, `post_balance_adjustment`, `create_sale` |
| `LoadProduct`, `SaveProduct`, `MonthPasses` | `product_edit`, `import_products_from_workbook`; dates come nearer |
| `CreateOrder`, `OpenForm` | `create_purchase_order`; `purchase_create?from_po=` |
| `Receive`, `Post`, `CountOrder`, `CommitPurchase` | `create_purchase`: its stock, its posting, the reads of `refresh_status`, the end |
| `RefuseDocument`, `RefusePurchase` | the unique account code is taken, the party is gone, or has no account to adjust |
| `StartRefresh`, `Look`, `Upsert`, `FindStale`, `DeleteStale` | `refresh_notifications`: a query, one `get_or_create`, the list of stale ids, its deletion |
| `MarkRead`, `MarkAllRead` | the two views |

A purchase is the one transaction here that is taken apart, since `refresh_status` reads before
others' receipts are visible. The rows it has locked (products, the inventory account, the
supplier's account and row) are predicates on where it is (`ProductFree`, `GoodsFree`,
`AccountFree`, `RowFree`, `PartyKept`) and guards of everybody else's steps. The other
requests' transactions are one step each.

The statement is `Statement`, the list the view shows, worked out from the ledger entries:
between two dates (`Dated`), in the order of dates and ids (`InOrder`, `ByDate`), each with the
balance brought forward and what has come since (`Walk`), then those of a type (`Those`,
`OfKind`), newest first. `StatementAgrees` compares the complete one with the cached balance, and the
one for some dates and types with the complete one. Memos are their classes, as `classify_ledger_entry` names them; a payment cannot be taken for
another class unless its note begins like one, which is left out.

Three histories say where a promise ends, and where it does is as much a result as the promise:
`disturbed` (a party was deleted, or a form saved a `linked_account` that was out of date),
`resaved` (a form or import saved a `stock` that was out of date; the next movement of the
product ends that), `given` (an order fulfilled by a purchase of no value, which takes no lock on
the inventory account). `blurred` marks refreshes during which a condition changed, or
that began while such a one was running: what those leave is put right by the next.

## 3. Runs

| run | question | properties |
|---|---|---|
| `stock` | do serial stock operations of all kinds keep the counts, statuses, movement log and allocations consistent? | `TypeOK`, `RollupsAgree`, `NoStrandedStock`, `MovementsExplainStock`, `Conservation`, `SaleCovered`, `FefoDiscipline` |
| `payments` | two allocations, a collection and a cancellation, in every interleaving, with a crash | `TypeOK`, `NoOverpayment`, `CacheExact`, `AllOrNothing`, `AdvanceIsGenuine`, `CancelledStays`, `AllAnswered` |
| `payments_serial` | the same code with every kind of request, direct payments included, one request at a time | `NoOverpayment`, `CacheExactAtRest`, `CancelledUnpaid` |
| `trade` | do goods, documents and books agree after any service calls? | `TradeTypeOK`, `ReceivableExplained`, `PayableExplained`, `GoodsValued`, `CostFollowsGoods`, `StockRefined`, and of the reports `ProfitAgrees`, `CashFlowExplained` |
| `day_closing` | two managers close a day while documents are recorded and deleted, some of them no whole cents | `TypeOK`, `CachesFollowLines`, `ClosingExplained` |
| `stock_locking` | two sales, two returns and a receipt at once, lock by lock, with deadlocks and a crash | `TypeOK`, `RollupsExact`, `StockExact`, `NothingStranded`, `ReturnsWithinSale`, `BookKept` |
| `back_office` | clerks, buyers, a product form and viewers at once: does everything that is shown agree with what it is about? | `TypeOK`, `ReceivablesAgree`, `StatementAgrees`, `StockShown`, `OrderStatusCurrent`, `AlertsCurrent` |
| `void_discount` | a discounted invoice is voided: violates `VoidReverses` | |
| `day_reclosed` | a day with withdrawals is closed twice: violates `WithdrawnAsClosed` | |
| `payment_race` | two direct payments at once: violates `NoOverpayment` | |
| `cancel_resurrected` | a payment across a cancellation: violates `CancelledStays` | |
| `cancel_paid` | a cancellation across a payment: violates `CancelledUnpaid` | |

### Bounds

`stock`: two warehouses (transfer, and "drained here but not there"), two batches (the
second is reached only when the first is empty; dated and undated ones), one sale line
(which is returned in parts, so two of its batches can be part-returned), quantities
-1, 1 and 2 (a line that one batch covers, one that needs both, one that nothing covers,
a mistyped one). `MaxBatches` and `MaxSales` bound tables that only grow.

`payments`: two invoices of 3 and 2 with the same date, which one of the two allocations
locks in the opposite order, so that requests do deadlock; amount 2, which pays one invoice
in full, the other in part, and both when spread; three requests wanting more than is owed,
so that each check also fails. One crash is enough to show what any number of independent
lost requests does to the rows, as a lost request takes no further step.
`payments_serial`: amounts 1 and 2, two direct payments, one request of each other kind,
with the action constraint `OneAtATime`, under which a request starts only when no other is under
way (the behaviours of `SerialSpec`, in a form of which TLC reports every action); no crash, because a
crash between the commit of `record_payment` and `recalculate()` leaves the columns stale for
good.

`trade`: one warehouse, two batches of different cost (2 and 3), of one and two units
(`Deliveries`, so that a sale of one unit takes one batch and a sale of two may need both), one
sale at price 5 with a discount of 1, nothing tendered or 5 (which is less than the
total of two units and more than that of one) or, for walk-in buyers, a tax of 1 (`Invoices`), and one slip, a payment of 2 or an adjustment
by 2 or -2, to or from either party. Larger tables repeat these cases. `void_discount` has the same
constants.

`stock_locking`: two products, four batches, two warehouses. The two sales want the same two
products in opposite order (circles of waits), and more of product 1 than is there once a
unit has come back (one of them is refused, or not, depending on the returns); batch 1
is sold out and gets its unit back while they look; one return is of that one unit, the other of it and of a unit of batch 2 (so that they
can race, and so that a return of two lines has rows of its own to count); batch 3 lies in two warehouses (emptied here but not there); the
receipt is of product 2 in the other warehouse (so that `Product.stock` of product 2 can
drift, and of product 1 cannot). `Fragile`: the worker of one sale may die at any step; it holds
locks of every kind that others wait for, and the steps of the rest after its rollback
are those after any rollback, which `Abort` and the refusals give every request.

`back_office`: a customer, a supplier, two clerks, two buyers, two viewers, one editor; an
order of one unit of each of two products, one of which is on the shelf in a quantity of one,
its minimum. The customer and the supplier are entered, with or without an opening balance,
before anything else begins (`EnteredFirst`, an action constraint; a party entered later with
an opening balance is to others what a posting is, and the theorems do without). `MaxTasks =
3`: three requests that overlap with one another, whichever they are; the hazards listed are
all of two requests, the third is the one that looks. `MaxEntries = 2`: one entry brought
forward and one shown, or two for an order of dates. Statements are asked for every pair of
dates and any of the types there are entries of. `Amounts` 1 and -1, two dates. Requests of a
kind are interchangeable (`SYMMETRY`; the run has no liveness property).

`day_closing`: two managers, two documents of 1 or, where a form lets it through, -1, two
closings with and without withdrawals of 2. Two documents are enough for one before and one
between the two steps of a closing, or one of either sign; two closings for one of each
manager, overlapping or not. Sums are linear, so larger amounts and more rows tell nothing
new. Totals of 0.5, 1.2 and -0.5 cents: an exact half cent of either sign, and an amount that is rounded
the same way whenever it is rounded. `day_reclosed`: one manager.

`CHECK_DEADLOCK FALSE` throughout: the requests of a run are served and then the system
stops, and in the other modules the tables fill up. That no request hangs before it is answered is
`AllAnswered`, not the deadlock check.

### Fairness

`FairSpec` assumes weak fairness of the steps of each request: a WSGI worker runs a
request to its end, and the database grants a free row to a waiter and resolves
deadlocks. Nothing assumes a crash, nor a request to be answered before another.
`AllAnswered` needs no more: when a row is free, its next waiter stays enabled or
another takes the row and, fairly treated, releases it; requests are finitely many.

`StockLocking!Spec` asks for less: weak fairness of the steps of all requests together, that is, the
server does not stop while some request can go on. That is enough for everybody to be
answered because a request takes finitely many steps, a circle of waits is broken by `Abort`
(without it `BookKept` fails), and nothing is retried. `Crash` is not among the fair steps.

## 4. What is proved

All constants are arbitrary within the named `ASSUME`s of the modules: any number of
warehouses, products, batches, sale lines, invoices, parties, requests and viewers, any
quantities, totals, prices, taxes and amounts, any lock order. The assumptions are what the
code guarantees: `StockLocking` has sales, returns and receipts of at least one line and of
positive quantities, and a batch row inserted by one receipt only; an order has at least one
line (`purchases/views.py:261`); the parties are finitely many. Bounds such as `MaxBatches` are
constants too, so a theorem holds for each of them.

Every property of the runs that pass is a theorem, apart from those named at the end of this section.

### Stock

- `InventoryProofs`: `TypeCorrect`, `StockTablesAgree`, `NothingStranded`,
  `LogExplainsStock`, `GoodsConserved`. The invariants are not inductive one by one: that a decrement of
  `BatchStock` is covered needs the bound of `Allocation`; that a batch marked DEPLETED
  has no stock needs `remaining` to be the sum of its rows; the sums need rows that are
  not created yet to be blank. `IInv` is their conjunction with `BlankRows`, and every action
  has a lemma saying that it preserves it. `SalesCovered` and `FirstExpiringFirstOut` rest on what
  `Allocation` computes: with the batches in their picking order, the first ones are taken
  whole until what is asked is reached (`SumGreedy`), so the lines add up to the quantity, and
  nothing is taken of a batch unless all before it are emptied.
- `StockLockingProofs`: `LockingTypeCorrect`, `RollupsAlwaysExact`, `StockAlwaysExact`,
  `NothingEverStranded`, `ReturnsStayWithinSale`, from one invariant, `LockingInv`. It says of each
  request what it relies on while others run (`RequestInv`): the rows it has taken from are
  locked by it; the sum it has read, or written, is that of rows it holds; what it has changed so far is what its
  lines so far have asked; the batches of a receipt are new; what a return has counted still
  fits, or the batch is `raced`. `LockingKeepsBook` is the step simulation: every step but `Commit`, refusals,
  `Abort` and `Crash` stutters, a commit is `Serve`, the other three are `Refuse`. `BookKeptWhenAnswered` says
  that nothing else is left of `BookKept` than that requests are answered.
  The first version of `Returnable` counted committed rows only; a return with the same line twice was a
  counterexample to the invariant, and the code, which sums within its own transaction, does better.

### Money

- `TradeProofs`: `TradeRefinesStock`, a step simulation, each action of `Trade` being a
  conjunction of an action of `Inventory` (or none) with others; so all of
  `InventoryProofs` holds of the complete services. `TradeTypeCorrect`: no invoice is paid
  beyond its total. Its invariant `TradeInv` needs the stock invariant `IInv` (a return that is
  accepted comes from a row that exists), `Entered` (the quantity of a row is one that was
  entered, so that a void, which returns all of it, is a return `Inventory` knows) and `Unpaid` (nothing is settled of a row that does not
  exist, so the new row of `BuyGoods` and `SellToCustomer` starts from zero).
- `CustomerAccount`, `SupplierAccount`, `InventoryAccount`, `CostAccounts`, `CashFlow` and
  `ProfitReport` follow from one invariant, `MoneyInv`. Its part `Explained` sets six balances and the
  net cash against seven sums over the documents; for each action, one lemma says how far its
  postings move the seven figures of the ledger, another how far its documents move the
  seven sums, and the two are the same numbers. The sums are over all rows, so rows that do not exist must be blank
  (`NoInvoice`, `Unpaid`); goods are valued batch by batch at their cost, so a sale moves value as
  `Inventory` moves units. `ProfitReport` bounds the rounding of each line
  (half a cent per unit) and adds up. The attempt to prove it showed that the bound was wrong
  for lines of a negative quantity, which hand out nothing: `ProfitAgrees` counts units handed out.
- `DayClosingProofs`: `TypeCorrect`, `CachesFollow`, `ClosingsExplained`. `CachesFollow`
  rests on `RoundingDrift` in `LedgerProofs`: rounding an amount before it is added to whole cents or the
  sum afterwards differs by a cent at most, and only for an exact half cent whose sign is not the one
  it is rounded towards; `PostDrift` carries this to the two accounts of a transaction, and whole cents
  never part anything. The invariant of `ClosingsExplained` has `DrawerAddsUp`: at every
  moment the lines of the drawer's account and the unseen movements add up to what the
  queries would sum. It needs that expense and income rows not yet numbered are blank (`BlankRows`).

### Payments

- For every mix of requests: `PaymentsTypeCorrect`, where the
  point is that `extra` is natural, that is, `_collect_due` never plans more than was entered
  (`OldestFirstWithin`, by induction on the running total of what the invoices want); and
  `RequestsAllOrNothing`, whose invariant `BooksFollow` says what a request has recorded
  at each of its steps.
- Under `NoDirectPayments` (nobody uses `sale_add_payment`): `NoInvoiceOverpaid`,
  `CacheAlwaysExact`, `CacheExactInTheEnd`, `CancellationIsFinal`, `AdvancesAreGenuine`. `IInv` adds two facts: a row
  held by a request still wants what the request is about to put on it (`LocksHold`), which is
  what the lock in `allocate_payment` is for, and a copy that says CANCELLED is right
  (`CopiesHold`), which is why `recalculate()` on a stale copy skips no invoice it should
  not. For the advance `AdvanceInv` adds `ClosesAll`: a collection has something left over only if its plan
  closes every open invoice, and since no invoice ever comes to want more, it still does when the
  allocation commits, or the allocation fails. The assumption is needed: `payment_race` and `cancel_resurrected` are what happens
  without it.
- With `sale_add_payment`, but one request at a time and no crash (`SerialSpec`, `MaxCrashes =
  0`): `SerialNoOverpayment`, `SerialCancelledUnpaid`, `SerialCacheExact`. `SerialInv` says that a row is exact
  unless the one request under way is between its commit and its `recalculate()`, and that
  what this request has read is still so. Together with the runs that race these say that the findings 1
  to 3 below come from overlapping requests and from nothing else.

### The back office

`BackOfficeProofs` proves the properties of `back_office`, each from an invariant of its own:

- `BackOfficeTypeCorrect`, by desk (`TablesOK`) and for the alerts (`ScanInv`).
- `ShelfIsShown`: `StockShown` is inductive as it stands, given the types.
- `TotalsAlwaysAgree`: the totals agree because a party nobody has disturbed has an account if
  and only if its row names it (`PartyInv`); for that, a request's copy must not know of
  an account that is not there, and a purchase under way must have loaded its supplier (`BuyersLoaded`).
- `StatementsAlwaysAgree`: rows that are put in a strict order are listed in one way only
  (`ListUnique`), so a statement is known by the rows it shows and their order, which filtering
  keeps and reversing turns around (`Shows`, `SelectShown`, `ReverseShown`). The balance the loop has reached at an
  entry is the total of that entry and of all before it by date, whatever day the loop started
  from (`RunningIsBalance`), so it does not depend on what was asked for. A statement to the last
  day, from whatever day, ends on the total of all entries (`StatementEnds`); that this is the cached balance, however late a document was
  entered and whichever desk posted it, is the invariant (`BalanceExact`).
- `OrderStatusFollows`: behind the lock of the inventory account there is one purchase at a time
  (`OrderInv`), so the status it has worked out is still the one to write when it commits
  (`Settles`), and working a status out from the last one is as good as from scratch
  (`StatusFromScratch`), quantities only growing.
- `AlertsFollow`, an action property: a refresh that nothing has overtaken has seen what holds of all
  it has scanned, and will delete what does not hold (`ViewInv`), although other refreshes add and
  delete rows at the same time, because these know the same. It needs that the scans divide up
  the alerts (`ScansDivide`), whatever order the database returns the parties in.

### Helpers

`SumsProofs`: induction over the rows of a table, in a form that takes a set instead of a
predicate, what totals do when rows are added, changed or cut off, and lists of rows: there is
exactly one of a set of rows in a strict order (`ListExists`, `ListUnique`), and a total is the same
in the order of the list and in that of the table (`SumListed`).

### Only model-checked

- Liveness (`AllAnswered`, and that every request is answered in `BookKept`), which is beyond the prover.
- What the invariants of the runs that are expected to fail say: they are false.

## 5. Where the code does not do what it says

1. **Overpayment** (`payment_race`). `record_payment` checks the amount against
   `Sale.remaining` under the row lock, but `remaining` is brought down only by the
   `recalculate()` that the view calls after the commit. Two payments that lock the row one after the
   other, before the first view gets to `recalculate()`, both pass. The docstring
   (`finance/services.py:274`) says they cannot.
2. **Resurrection** (`cancel_resurrected`). `recalculate()` looks for CANCELLED in its own
   copy; a payment request that loaded the sale before the cancellation saves over it.
   The comment (`sales/models.py:68`) says that never happens.
3. **A paid, cancelled invoice** (`cancel_paid`). `cancel_sale`'s checks precede its
   transaction and lock nothing, so a payment may be committed in between, against the
   docstring (`sales/services.py:260`).

Serially none of these three happens (`payments_serial`, and the theorems on `SerialSpec`). The next two need no second request:

4. **A void that does not reverse** (`void_discount`). `cancel_sale` voids through
   `create_sales_return`, which refunds quantity times price; `create_sale` posted the total
   after discount and tax. The difference stays on revenue and on the customer's account,
   against the docstring (`sales/services.py:257`). `ReceivableExplained` states what the
   balance is instead. `cancel_purchase` leaves the header on 1200 the same way (`GoodsValued`).
5. **Withdrawals posted twice** (`day_reclosed`). Closing a day again overwrites its row, as the
   docstring says (`finance/services.py:378`), but posts its withdrawals again.

`ClosingExplained` also names what `close_day` does not see: walk-in sales of other registers
are expected in the drawer of account 1000, and its refunds, payments to customers and the
cash transactions of the MAIN register are not expected there. No text of the repository
contradicts that, so it is a property of the model and not a finding.

**A cached balance that leaves its lines** is stated as the exception of `CachesFollowLines`: crediting 0.5 units at 1.25
(0.625) takes a balance of 100.00 to 99.38, while its line is 0.63 and its lines now sum to 99.37. So
`account_reconciliation_report` shows differences that no bug outside `post_transaction` has made, against
`finance/tests.py:46` ("Account.balance (a cache) must always equal the signed sum of that
account's real LedgerEntry rows").

Further exceptions that a property names. The property shows that nothing else goes wrong; it does
not catch the exception itself: `Product.stock` drifts when two warehouses move one product at
once (`StockExact`), or when a form is saved across a movement (`StockShown`); two returns of a line
at once may return more than was sold (`ReturnsWithinSale`); a form saved across the creation of
an account unlinks it, and deleting a party leaves its account behind
(`ReceivablesAgree`); profit is not reduced by returns (`ProfitAgrees`). A collection submitted
twice is recorded twice if it fits: no state tells it from two payments.

With no exception stated, because nothing can be promised: two `sale_add_payment` requests whose
`recalculate()` calls overlap (`sales/views.py:313`) may leave the older sums on the invoice. `CacheExactAtRest`
fails for them, and is checked only where requests are served one at a time.

## 6. Not modelled

- `accounts`, `masters`, `settings_app`, `audit`, `core`: predicates on one request, lookup
  rows, an append-only log nobody reads, PDF and e-mail. No operation leaves state there for
  another.
- Of `products`: creation, prices, units, variants, images, barcodes. Of `reports` and
  `dashboard`: lists and rankings of rows.
- The allocation of a supplier's payment to purchases with its locks: `allocate_payment` is
  the same code for both kinds of invoice and is modelled for sales.
- SQLite, which serialises writers; the models are of PostgreSQL, the stricter case.
- Retries by browsers and duplicated submissions.
- Fractional quantities other than in walk-in sales and refunds (`DayClosing`): the explanations of
  the parties' and the goods' accounts are for whole cents, in which nothing is rounded.
- A purchase form that changes the quantities filled in from an order (`OpenForm`), so over-receipt; products that are
  not ACTIVE, which have no alerts (`Holds`); an error of `_collect_due`'s second transaction other than
  the loss of the request (`RecordAdvance`, whose amount is positive, so that `record_payment` refuses nothing).

## 7. What is left

No theorem: the safety properties of all runs that pass are proved. Not modelled yet, and within reach:
the allocation of a supplier's payment to purchases, as a second kind of invoice of
`InvoicePayments`.
