------------------------------ MODULE Reports ------------------------------
(***************************************************************************)
(* The figures of reports/views.py and of the dashboard over the documents *)
(* and the ledger of Trade, all dates together.  The reports read and      *)
(* change nothing, so they are state functions; what they should agree     *)
(* with is the ledger, which is kept by other code.  The cash flow and the *)
(* reconciliation are functions of the ledger alone (NetCash and           *)
(* ComputedBalance of Ledger), the valuation one of the batches            *)
(* (InventoryValuation of Trade).                                          *)
(*                                                                         *)
(* Trade keeps tax less discount as one number; here an invoice has one of *)
(* the two, and the sign tells which.                                      *)
(***************************************************************************)
EXTENDS Trade

Discount(s) == Larger(0, -saleHeader[s])
Tax(s) == Larger(0, saleHeader[s])

\* SaleItem.cost_price_at_sale: the weighted cost of the units allocated, as stored.
CostPriceAtSale(s) ==
  LET units == SumUpTo(allocated[s], MaxBatches)
  IN  IF units = 0 THEN 0 ELSE Rounded(Value(allocated[s]), units)

\* Fault: the invoice-level discount does not come off.
LineProfit(s) == (price[s] - CostPriceAtSale(s)) * saleQuantity[s]

\* Sale.total_profit.
TotalProfit(s) == (price[s] - CostPriceAtSale(s)) * saleQuantity[s] - Discount(s)

OfSales(f(_)) == SumUpTo([s \in SaleLines |-> IF s <= nSales THEN f(s) ELSE 0], MaxSales)

\* total_sales and total_profit of profit_report, sales_report and the dashboard, which
\* select the sales by date alone: cancelled ones are among them.
SalesReported == OfSales(SaleTotal)
ProfitReported == OfSales(TotalProfit)

\* What customers were refunded for the units of a sale they brought back.
Refunded(s) == ReturnedOf(s) * price[s]

\* The cost of those units, which the ledger has taken out of cost of goods sold.
CostReturned(s) == Value([b \in Batches |-> restocked[s][b] + scrapped[s][b]])

\* What the profit report does not look at: the tax in the revenue, and returns and
\* voids, of which it still counts the profit.
Overlooked(s) == Refunded(s) - CostReturned(s) - Tax(s)

-----------------------------------------------------------------------------
(***************************************************************************)
(* Properties.                                                             *)
(***************************************************************************)

\* The sales report is the revenue account before refunds.  The profit report is
\* revenue less cost of goods sold before returns and tax, up to the rounding of the
\* cost of a unit: at most half a cent for every unit sold (a line of a negative
\* quantity, which nothing refuses, hands out none).
ProfitAgrees ==
  LET revenue == ledger.balance[SalesRevenue]
      gap == ProfitReported - (revenue - ledger.balance[CostOfGoods]) - OfSales(Overlooked)
      units == OfSales(LAMBDA s : Larger(0, saleQuantity[s]))
  IN  /\ SalesReported = revenue + OfSales(Refunded)
      /\ 2 * gap \in -units..units

\* The cash flow report, which reads the ledger, is what the documents say was paid:
\* invoices and walk-in sales, less what walk-in buyers were refunded and suppliers were
\* paid, plus what parties paid on account.  Refunds of a credit sale are no cash, and
\* no payment is missed or counted twice.
SaleCash(s) == IF s \in onCredit THEN collected[s] ELSE SaleTotal(s) - Refunded(s)
CashFlowExplained ==
  NetCash(ledger) =
    OfSales(SaleCash) - SumUpTo(settled, MaxBatches)
      + onAccount[Receivable] + onAccount[Payable]

=============================================================================
