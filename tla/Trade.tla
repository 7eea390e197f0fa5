------------------------------- MODULE Trade -------------------------------
(***************************************************************************)
(* Goods and money together: the sales and purchases services complete,    *)
(* with their invoices, payments, returns and voids, over the stock of     *)
(* Inventory and the general ledger of Ledger.  One customer, one          *)
(* supplier, walk-in buyers; each service call is one transaction.atomic() *)
(* block and one step, and requests are served one at a time (what they do *)
(* to each other is the subject of InvoicePayments).                       *)
(*                                                                         *)
(* Every action is an action of Inventory with the postings the service    *)
(* makes in the same block.  An invoice has one line, so a purchase is its *)
(* batch and a sale its sale line.  Quantities are whole and prices in     *)
(* whole cents, so every amount posted is in whole cents too and the       *)
(* properties below are exact; what half cents do to the cached balances   *)
(* is in DayClosing.                                                       *)
(***************************************************************************)
EXTENDS Inventory, Ledger

CONSTANTS
  Costs,      \* purchase prices
  Prices,     \* selling prices
  Headers,    \* tax less discount of an invoice
  Tenders,    \* amounts paid with an invoice
  Amounts,    \* amounts of later payments and adjustments
  Places,     \* accounts a payment may move money through
  MaxSlips    \* bound on the payments and adjustments after an invoice

ASSUME CostsAssumption == Costs \subseteq Int
ASSUME PricesAssumption == Prices \subseteq Int
ASSUME HeadersAssumption == Headers \subseteq Int
ASSUME TendersAssumption == Tenders \subseteq Int
ASSUME AmountsAssumption == Amounts \subseteq Int
ASSUME PlacesAssumption == Places \subseteq {CashInHand, Till, Safe, Bank}

Parties == {Receivable, Payable}

VARIABLES
  cost,            \* ProductBatch.unit_cost
  purchaseHeader,  \* Purchase.tax - Purchase.discount
  settled,         \* payments and allocations of a purchase
  voidedPurchases, \* purchases of status CANCELLED
  price,           \* SaleItem.selling_price
  saleHeader,      \* Sale.tax - Sale.discount
  onCredit,        \* sales that have a customer
  collected,       \* payments and allocations of a sale
  voidedSales,     \* sales of status CANCELLED
  onAccount,       \* net payments of a party that are tied to no invoice
  adjusted,        \* net opening balances and adjustments of a party
  slips,           \* payments and adjustments so far
  ledger

purchaseVars == <<cost, purchaseHeader, settled, voidedPurchases>>
invoiceVars == <<price, saleHeader, onCredit, collected, voidedSales>>
partyVars == <<onAccount, adjusted, slips>>
tradeVars == <<vars, purchaseVars, invoiceVars, partyVars, ledger>>

-----------------------------------------------------------------------------

\* What units[b] of every batch b cost.
Value(units) == SumUpTo([b \in Batches |-> units[b] * cost[b]], MaxBatches)

PurchaseTotal(b) == initial[b] * cost[b] + purchaseHeader[b]
SaleTotal(s) == saleQuantity[s] * price[s] + saleHeader[s]

\* Fault: the change is booked as well.
AppliedInFull(tendered, total) == IF total # 0 THEN tendered ELSE 0

\* The payment recorded with an invoice: no more than the invoice; change is handed back.
Applied(tendered, total) ==
  IF total # 0 /\ tendered # 0 THEN Smaller(tendered, total) ELSE 0

\* record_payment refuses an amount that is not positive, and with it the invoice.
PaymentAccepted(tendered, total) == total # 0 /\ tendered # 0 => Smaller(tendered, total) > 0

-----------------------------------------------------------------------------
(***************************************************************************)
(* Purchases.                                                              *)
(***************************************************************************)

\* create_purchase: the stock, the invoice, the payment made with it.
BuyGoods(w, q, e, c, h, tendered, place) ==
  LET total == q * c + h
      paid == Applied(tendered, total)
      invoiced == Post(ledger, Goods, Payable, total)
  IN /\ PaymentAccepted(tendered, total)
     /\ Purchase(w, q, e)
     /\ cost' = [cost EXCEPT ![nBatches + 1] = c]
     /\ purchaseHeader' = [purchaseHeader EXCEPT ![nBatches + 1] = h]
     /\ settled' = [settled EXCEPT ![nBatches + 1] = paid]
     /\ ledger' = Post(invoiced, Payable, place, paid)
     /\ UNCHANGED <<voidedPurchases, invoiceVars, partyVars>>

\* Purchase.remaining, which a void sets to zero.
OwedOnPurchase(b) == IF b \in voidedPurchases THEN 0 ELSE PurchaseTotal(b) - settled[b]

\* record_payment of a purchase; allocate_payment does the same to several.
PayPurchase(b, amount, place) ==
  /\ slips < MaxSlips
  /\ b <= nBatches /\ origin[b] # 0
  /\ amount > 0 /\ amount <= OwedOnPurchase(b)
  /\ settled' = [settled EXCEPT ![b] = @ + amount]
  /\ ledger' = Post(ledger, Payable, place, amount)
  /\ slips' = slips + 1
  /\ UNCHANGED <<vars, cost, purchaseHeader, voidedPurchases, invoiceVars, onAccount, adjusted>>

\* Fault: whether the goods are still there is not looked at.
SendBackBlindly(b, q) ==
  /\ b <= nBatches /\ origin[b] # 0
  /\ q > 0 /\ q <= initial[b] - sentBack[b]
  /\ ApplyMovement(origin[b], [c \in Batches |-> IF c = b THEN -q ELSE 0])
  /\ sentBack' = [sentBack EXCEPT ![b] = @ + q]
  /\ UNCHANGED <<batchVars, status, saleVars, returnVars, writtenOff>>
  /\ ledger' = Post(ledger, Payable, Goods, q * cost[b])

\* create_purchase_return: credited to the supplier at the price on the invoice line.
SendBack(b, q) ==
  /\ ReturnToSupplier(b, q)
  /\ ledger' = Post(ledger, Payable, Goods, q * cost[b])

ReturnPurchase(b, q) ==
  /\ SendBack(b, q)
  /\ UNCHANGED <<purchaseVars, invoiceVars, partyVars>>

\* cancel_purchase: everything goes back, if nothing has been paid or returned.
CancelPurchase(b) ==
  /\ b \notin voidedPurchases
  /\ settled[b] = 0 /\ sentBack[b] = 0
  /\ SendBack(b, initial[b])
  /\ voidedPurchases' = voidedPurchases \cup {b}
  /\ UNCHANGED <<cost, purchaseHeader, settled, invoiceVars, partyVars>>

-----------------------------------------------------------------------------
(***************************************************************************)
(* Sales.                                                                  *)
(***************************************************************************)

\* create_sale to the customer: on the customer's account, less the payment made with it.
SellToCustomer(w, q, p, h, tendered, place) ==
  LET total == q * p + h
      paid == Applied(tendered, total)
      invoiced == Post(ledger, Receivable, SalesRevenue, total)
  IN /\ PaymentAccepted(tendered, total)
     /\ Sell(w, q)
     /\ price' = [price EXCEPT ![nSales + 1] = p]
     /\ saleHeader' = [saleHeader EXCEPT ![nSales + 1] = h]
     /\ onCredit' = onCredit \cup {nSales + 1}
     /\ collected' = [collected EXCEPT ![nSales + 1] = paid]
     /\ ledger' = Post(Post(invoiced, place, Receivable, paid),
                       CostOfGoods, Goods, Value(Allocation(w, q)))
     /\ UNCHANGED <<purchaseVars, voidedSales, partyVars>>

\* create_sale to a walk-in buyer: the total is cash received, whatever was tendered.
SellToWalkIn(w, q, p, h, place) ==
  /\ Sell(w, q)
  /\ price' = [price EXCEPT ![nSales + 1] = p]
  /\ saleHeader' = [saleHeader EXCEPT ![nSales + 1] = h]
  /\ ledger' = Post(Post(ledger, place, SalesRevenue, q * p + h),
                    CostOfGoods, Goods, Value(Allocation(w, q)))
  /\ UNCHANGED <<purchaseVars, onCredit, collected, voidedSales, partyVars>>

\* Sale.remaining, which a void sets to zero.
OwedOnSale(s) == IF s \in voidedSales THEN 0 ELSE SaleTotal(s) - collected[s]

\* record_payment of a sale; allocate_payment does the same to several.
PaySale(s, amount, place) ==
  /\ slips < MaxSlips
  /\ s \in onCredit
  /\ amount > 0 /\ amount <= OwedOnSale(s)
  /\ collected' = [collected EXCEPT ![s] = @ + amount]
  /\ ledger' = Post(ledger, place, Receivable, amount)
  /\ slips' = slips + 1
  /\ UNCHANGED <<vars, purchaseVars, price, saleHeader, onCredit, voidedSales, onAccount, adjusted>>

\* Fault: the refund of a credit sale is taken from the drawer as well.
RefundFromDrawer(s) == CashInHand

\* The account a refund goes to: the till a walk-in buyer paid into is not looked at.
RefundTo(s) == IF s \in onCredit THEN Receivable ELSE CashInHand

\* Fault: goods come back into stock at their selling price.
RestockAtPrice(s, take) == SumUpTo(take, MaxBatches) * price[s]

\* line_cost: what the returned units cost, allocation by allocation.
RestockCost(s, take) == Value(take)

\* create_sales_return of a GOOD line: quantity times price is refunded, header aside.
TakeBack(s, q) ==
  /\ ReturnGood(s, q)
  /\ LET back == [b \in Batches |-> restocked'[s][b] - restocked[s][b]]
         refunded == Post(ledger, SalesRevenue, RefundTo(s), q * price[s])
     IN ledger' = Post(refunded, Goods, CostOfGoods, RestockCost(s, back))

ReturnSale(s, q) ==
  /\ TakeBack(s, q)
  /\ UNCHANGED <<purchaseVars, invoiceVars, partyVars>>

\* Fault: spoiled goods are booked as if they were back on the shelf.
BackToGoods == Goods

\* The account that bears the cost of DAMAGED and EXPIRED returns.
SpoilageAccount == Shrinkage

\* create_sales_return of a DAMAGED or EXPIRED line: the cost is shrinkage.
ReturnSpoiled(s, q) ==
  /\ ReturnDamaged(s, q)
  /\ LET back == [b \in Batches |-> scrapped'[s][b] - scrapped[s][b]]
         refunded == Post(ledger, SalesRevenue, RefundTo(s), q * price[s])
     IN ledger' = Post(refunded, SpoilageAccount, CostOfGoods, RestockCost(s, back))
  /\ UNCHANGED <<purchaseVars, invoiceVars, partyVars>>

\* cancel_sale: everything comes back, if nothing has been paid or returned.
CancelSale(s) ==
  /\ s \notin voidedSales
  /\ collected[s] = 0 /\ ReturnedOf(s) = 0
  /\ TakeBack(s, saleQuantity[s])
  /\ voidedSales' = voidedSales \cup {s}
  /\ UNCHANGED <<purchaseVars, price, saleHeader, onCredit, collected, partyVars>>

-----------------------------------------------------------------------------
(***************************************************************************)
(* The parties' accounts, and stock that moves without an invoice.         *)
(***************************************************************************)

\* record_payment with no invoice: money from (IN) or to (OUT) a customer or supplier.
ReceiveFrom(party, amount, place) ==
  /\ slips < MaxSlips
  /\ amount > 0
  /\ onAccount' = [onAccount EXCEPT ![party] = @ + amount]
  /\ ledger' = Post(ledger, place, party, amount)
  /\ slips' = slips + 1
  /\ UNCHANGED <<vars, purchaseVars, invoiceVars, adjusted>>

GiveTo(party, amount, place) ==
  /\ slips < MaxSlips
  /\ amount > 0
  /\ onAccount' = [onAccount EXCEPT ![party] = @ - amount]
  /\ ledger' = Post(ledger, party, place, amount)
  /\ slips' = slips + 1
  /\ UNCHANGED <<vars, purchaseVars, invoiceVars, adjusted>>

\* post_opening_balance and post_balance_adjustment.
AdjustParty(party, amount) ==
  /\ slips < MaxSlips
  /\ amount # 0
  /\ adjusted' = [adjusted EXCEPT ![party] = @ + amount]
  /\ ledger' = PostToParty(ledger, party, amount)
  /\ slips' = slips + 1
  /\ UNCHANGED <<vars, purchaseVars, invoiceVars, onAccount>>

\* adjust_stock, INCREASE, at a cost that is entered or the product's last.
FoundGoods(w, q, c) ==
  /\ AdjustUp(w, q)
  /\ cost' = [cost EXCEPT ![nBatches + 1] = c]
  /\ ledger' = Post(ledger, Goods, AdjustmentIncome, q * c)
  /\ UNCHANGED <<purchaseHeader, settled, voidedPurchases, invoiceVars, partyVars>>

\* adjust_stock, DECREASE.
LostGoods(w, q) ==
  /\ AdjustDown(w, q)
  /\ ledger' = Post(ledger, Shrinkage, Goods, Value(Allocation(w, q)))
  /\ UNCHANGED <<purchaseVars, invoiceVars, partyVars>>

\* transfer_stock posts nothing.
MoveGoods(b, from, to, q) ==
  /\ Transfer(b, from, to, q)
  /\ UNCHANGED <<purchaseVars, invoiceVars, partyVars, ledger>>

-----------------------------------------------------------------------------

\* inventory_valuation_report: what is left of every batch, at its unit cost.
InventoryValuation == Value([b \in Batches |-> IF remaining[b] > 0 THEN remaining[b] ELSE 0])

TradeInit ==
  /\ Init
  /\ cost = PerBatch(0)
  /\ purchaseHeader = PerBatch(0)
  /\ settled = PerBatch(0)
  /\ voidedPurchases = {}
  /\ price = PerSale(0)
  /\ saleHeader = PerSale(0)
  /\ onCredit = {}
  /\ collected = PerSale(0)
  /\ voidedSales = {}
  /\ onAccount = [p \in Parties |-> 0]
  /\ adjusted = [p \in Parties |-> 0]
  /\ slips = 0
  /\ ledger = EmptyLedger

TradeNext ==
  \/ \E w \in Warehouses, q \in Quantities, e \in ExpiryDates \cup {NoExpiry},
        c \in Costs, h \in Headers, t \in Tenders, place \in Places :
       BuyGoods(w, q, e, c, h, t, place)
  \/ \E b \in Batches, a \in Amounts, place \in Places : PayPurchase(b, a, place)
  \/ \E b \in Batches, q \in Quantities : ReturnPurchase(b, q)
  \/ \E b \in Batches : CancelPurchase(b)
  \/ \E w \in Warehouses, q \in Quantities, p \in Prices, h \in Headers,
        t \in Tenders, place \in Places : SellToCustomer(w, q, p, h, t, place)
  \/ \E w \in Warehouses, q \in Quantities, p \in Prices, h \in Headers, place \in Places :
       SellToWalkIn(w, q, p, h, place)
  \/ \E s \in SaleLines, a \in Amounts, place \in Places : PaySale(s, a, place)
  \/ \E s \in SaleLines, q \in Quantities : ReturnSale(s, q)
  \/ \E s \in SaleLines, q \in Quantities : ReturnSpoiled(s, q)
  \/ \E s \in SaleLines : CancelSale(s)
  \/ \E p \in Parties, a \in Amounts, place \in Places : ReceiveFrom(p, a, place)
  \/ \E p \in Parties, a \in Amounts, place \in Places : GiveTo(p, a, place)
  \/ \E p \in Parties, a \in Amounts : AdjustParty(p, a)
  \/ \E w \in Warehouses, q \in Quantities, c \in Costs : FoundGoods(w, q, c)
  \/ \E w \in Warehouses, q \in Quantities : LostGoods(w, q)
  \/ \E b \in Batches, from, to \in Warehouses, q \in Quantities : MoveGoods(b, from, to, q)

TradeSpec == TradeInit /\ [][TradeNext]_tradeVars

-----------------------------------------------------------------------------
(***************************************************************************)
(* Properties.                                                             *)
(***************************************************************************)

\* Every column of the invoices and the ledger holds what its field can hold; an
\* invoice is never paid beyond its total, and one of a total that is not positive
\* not at all.
TradeTypeOK ==
  /\ cost \in [Batches -> Int]
  /\ purchaseHeader \in [Batches -> Int]
  /\ settled \in [Batches -> Nat]
  /\ voidedPurchases \subseteq 1..nBatches
  /\ price \in [SaleLines -> Int]
  /\ saleHeader \in [SaleLines -> Int]
  /\ onCredit \subseteq 1..nSales
  /\ collected \in [SaleLines -> Nat]
  /\ voidedSales \subseteq 1..nSales
  /\ onAccount \in [Parties -> Int]
  /\ adjusted \in [Parties -> Int]
  /\ slips \in Nat
  /\ LedgerType(ledger)
  /\ \A b \in Batches : settled[b] \in 0..Larger(0, PurchaseTotal(b))
  /\ \A s \in SaleLines : collected[s] \in 0..Larger(0, SaleTotal(s))

\* What the customer owes, by the ledger, is what the documents say: invoices less
\* what was paid and what came back, less payments on account, plus adjustments.
SaleDebt(s) == IF s \in onCredit THEN SaleTotal(s) - ReturnedOf(s) * price[s] - collected[s] ELSE 0
ReceivableExplained ==
  ledger.balance[Receivable] =
    SumUpTo([s \in SaleLines |-> SaleDebt(s)], MaxSales)
      - onAccount[Receivable] + adjusted[Receivable]

\* The same of what the store owes the supplier.
PurchaseDebt(b) ==
  IF origin[b] # 0 THEN PurchaseTotal(b) - sentBack[b] * cost[b] - settled[b] ELSE 0
PayableExplained ==
  ledger.balance[Payable] =
    SumUpTo([b \in Batches |-> PurchaseDebt(b)], MaxBatches)
      + onAccount[Payable] + adjusted[Payable]

\* The inventory account is the total of the valuation report plus the headers of the
\* purchases that brought the goods, which no later posting takes out again.
GoodsValued ==
  ledger.balance[Goods] = InventoryValuation + SumUpTo(purchaseHeader, MaxBatches)

\* Cost of goods sold is the cost of what customers kept; shrinkage the cost of what
\* they returned spoiled and of what was written off: no return leaves either behind.
Kept(s) == [b \in Batches |-> Returnable(s, b)]
CostFollowsGoods ==
  /\ ledger.balance[CostOfGoods] = SumUpTo([s \in SaleLines |-> Value(Kept(s))], MaxSales)
  /\ ledger.balance[Shrinkage] =
       Value(writtenOff) + SumUpTo([s \in SaleLines |-> Value(scrapped[s])], MaxSales)

\* Every service call is a stock operation of Inventory or leaves the stock alone.
StockRefined == Spec

\* What the documentation says of a void (the docstring of cancel_sale): it "reverses
\* AR/Revenue/COGS".  So when every invoice has been voided nothing is left of revenue
\* and cost, nor of the customer's balance but payments on account and adjustments.
VoidReverses ==
  voidedSales = 1..nSales =>
    /\ ledger.balance[SalesRevenue] = 0
    /\ ledger.balance[CostOfGoods] = 0
    /\ ledger.balance[Receivable] = adjusted[Receivable] - onAccount[Receivable]

=============================================================================
