---------------------------- MODULE TradeProofs ----------------------------
(***************************************************************************)
(* Proofs about Trade and Reports: every service call is a stock operation *)
(* of Inventory, so what is proved there holds here; no invoice is paid    *)
(* beyond its total; the books are always balanced; and the accounts of    *)
(* the ledger are what the documents say.                                  *)
(*                                                                         *)
(* TradeInv adds to the type invariants that quantities on documents are   *)
(* quantities that were entered (a void sends back the quantity of the     *)
(* document) and that rows which do not exist are unpaid.  MoneyInv adds   *)
(* that seven figures of the ledger equal seven sums over the documents:   *)
(* each service call moves the two by the same amounts.                    *)
(***************************************************************************)
EXTENDS Reports, InventoryProofs, LedgerProofs

Entered ==
  /\ \A b \in Batches : b <= nBatches => initial[b] \in Quantities
  /\ \A s \in SaleLines : s <= nSales => saleQuantity[s] \in Quantities

Unpaid ==
  /\ \A b \in Batches : b > nBatches => settled[b] = 0
  /\ \A s \in SaleLines : s > nSales => collected[s] = 0

TradeInv == IInv /\ Entered /\ TradeTypeOK /\ Unpaid /\ Books(ledger)

USE CostsAssumption, PricesAssumption, HeadersAssumption, TendersAssumption,
    AmountsAssumption, PlacesAssumption, QuantitiesAssumption, BatchesAssumption, SalesAssumption

-----------------------------------------------------------------------------
(***************************************************************************)
(* The stock.                                                              *)
(***************************************************************************)

\* A service call is an operation of Inventory.
LEMMA StockStep ==
  ASSUME Entered, [TradeNext]_tradeVars PROVE [Next]_vars
<1>1. ASSUME NEW b \in Batches, CancelPurchase(b) PROVE Next
  <2>1. ReturnToSupplier(b, initial[b]) /\ b <= nBatches
    BY <1>1 DEF CancelPurchase, SendBack, ReturnToSupplier
  <2>2. initial[b] \in Quantities
    BY <2>1 DEF Entered
  <2> QED BY <2>1, <2>2 DEF Next
<1>2. ASSUME NEW s \in SaleLines, CancelSale(s) PROVE Next
  <2>1. ReturnGood(s, saleQuantity[s]) /\ s <= nSales
    BY <1>2 DEF CancelSale, TakeBack, ReturnGood
  <2>2. saleQuantity[s] \in Quantities
    BY <2>1 DEF Entered
  <2> QED BY <2>1, <2>2 DEF Next
<1>3. CASE \E w \in Warehouses, q \in Quantities, e \in ExpiryDates \cup {NoExpiry},
              c \in Costs, h \in Headers, t \in Tenders, place \in Places :
             BuyGoods(w, q, e, c, h, t, place)
  BY <1>3 DEF Next, BuyGoods
<1>4. CASE \E b \in Batches, q \in Quantities : ReturnPurchase(b, q)
  BY <1>4 DEF Next, ReturnPurchase, SendBack
<1>5. CASE \E w \in Warehouses, q \in Quantities, p \in Prices, h \in Headers,
              t \in Tenders, place \in Places : SellToCustomer(w, q, p, h, t, place)
  BY <1>5 DEF Next, SellToCustomer
<1>6. CASE \E w \in Warehouses, q \in Quantities, p \in Prices, h \in Headers, place \in Places :
             SellToWalkIn(w, q, p, h, place)
  BY <1>6 DEF Next, SellToWalkIn
<1>7. CASE \E s \in SaleLines, q \in Quantities : ReturnSale(s, q)
  BY <1>7 DEF Next, ReturnSale, TakeBack
<1>8. CASE \E s \in SaleLines, q \in Quantities : ReturnSpoiled(s, q)
  BY <1>8 DEF Next, ReturnSpoiled
<1>9. CASE \E w \in Warehouses, q \in Quantities, c \in Costs : FoundGoods(w, q, c)
  BY <1>9 DEF Next, FoundGoods
<1>10. CASE \E w \in Warehouses, q \in Quantities : LostGoods(w, q)
  BY <1>10 DEF Next, LostGoods
<1>11. CASE \E b \in Batches, from, to \in Warehouses, q \in Quantities : MoveGoods(b, from, to, q)
  BY <1>11 DEF Next, MoveGoods
<1>12. CASE \/ \E b \in Batches, a \in Amounts, place \in Places : PayPurchase(b, a, place)
            \/ \E s \in SaleLines, a \in Amounts, place \in Places : PaySale(s, a, place)
            \/ \E p \in Parties, a \in Amounts, place \in Places : ReceiveFrom(p, a, place)
            \/ \E p \in Parties, a \in Amounts, place \in Places : GiveTo(p, a, place)
            \/ \E p \in Parties, a \in Amounts : AdjustParty(p, a)
  BY <1>12 DEF PayPurchase, PaySale, ReceiveFrom, GiveTo, AdjustParty
<1>13. CASE UNCHANGED tradeVars
  BY <1>13 DEF tradeVars
<1> QED BY <1>1, <1>2, <1>3, <1>4, <1>5, <1>6, <1>7, <1>8, <1>9, <1>10, <1>11, <1>12, <1>13
        DEF TradeNext

\* Quantities on documents have been entered.
LEMMA EnteredStep ==
  ASSUME TypeOK, Entered, [Next]_vars PROVE Entered'
<1>1. ASSUME NEW w \in Warehouses, NEW q \in Quantities, NEW e, NEW from,
             ReceiveStock(w, q, e, from), UNCHANGED saleVars
      PROVE  Entered'
  <2>1. /\ nBatches' = nBatches + 1 /\ nBatches \in 0..MaxBatches /\ initial \in [Batches -> Nat]
        /\ initial' = [initial EXCEPT ![nBatches + 1] = q]
        /\ UNCHANGED <<nSales, saleQuantity>>
    BY <1>1 DEF ReceiveStock, TypeOK, saleVars
  <2>2. ASSUME NEW b \in Batches, b <= nBatches' PROVE initial'[b] \in Quantities
    BY <2>1, <2>2 DEF Entered, Batches
  <2> QED BY <2>1, <2>2 DEF Entered
<1>2. ASSUME NEW w \in Warehouses, NEW q \in Quantities, Sell(w, q) PROVE Entered'
  <2>1. /\ nSales' = nSales + 1 /\ nSales \in 0..MaxSales /\ saleQuantity \in [SaleLines -> Int]
        /\ saleQuantity' = [saleQuantity EXCEPT ![nSales + 1] = q]
        /\ UNCHANGED <<nBatches, initial>>
    BY <1>2 DEF Sell, TypeOK, batchVars
  <2>2. ASSUME NEW s \in SaleLines, s <= nSales' PROVE saleQuantity'[s] \in Quantities
    BY <2>1, <2>2 DEF Entered, SaleLines
  <2> QED BY <2>1, <2>2 DEF Entered
<1>3. CASE UNCHANGED <<batchVars, saleVars>>
  BY <1>3 DEF Entered, batchVars, saleVars
<1> QED BY <1>1, <1>2, <1>3 DEF Next, Purchase, AdjustUp, AdjustDown, ReturnGood, ReturnDamaged,
                                ReturnToSupplier, Transfer, vars

-----------------------------------------------------------------------------
(***************************************************************************)
(* The books and the invoices.                                             *)
(***************************************************************************)

\* The accounts the services use are in the chart.
LEMMA Chart ==
  /\ Goods \in Accounts /\ Payable \in Accounts /\ Receivable \in Accounts
  /\ SalesRevenue \in Accounts /\ CostOfGoods \in Accounts /\ Shrinkage \in Accounts
  /\ AdjustmentIncome \in Accounts /\ OpeningEquity \in Accounts /\ CashInHand \in Accounts
  /\ Places \subseteq Accounts /\ Parties \subseteq Accounts
BY DEF Goods, Payable, Receivable, SalesRevenue, CostOfGoods, Shrinkage, AdjustmentIncome,
       OpeningEquity, CashInHand, Till, Safe, Bank, Parties, Accounts, NAccounts

\* The cost of goods is a number.
LEMMA ValueInt ==
  ASSUME cost \in [Batches -> Int], NEW units \in [Batches -> Int]
  PROVE  Value(units) \in Int
<1> DEFINE f == [b \in Batches |-> units[b] * cost[b]]
<1>1. f \in [1..MaxBatches -> Int]
  BY DEF Batches
<1>2. SumUpTo(f, MaxBatches) \in Int
  <2> HIDE DEF f
  <2> QED BY <1>1, SumInt
<1> QED BY <1>2 DEF Value

\* What is applied to an invoice is not negative and no more than its total.
LEMMA AppliedBound ==
  ASSUME NEW tendered \in Int, NEW total \in Int, PaymentAccepted(tendered, total)
  PROVE  Applied(tendered, total) \in 0..Larger(0, total)
BY DEF PaymentAccepted, Applied, Smaller, Larger

\* An adjustment of a party's balance is a transaction like any other.
LEMMA PartyBooks ==
  ASSUME NEW l, Books(l), NEW party \in Accounts, NEW amount \in Int
  PROVE  Books(PostToParty(l, party, amount))
<1> DEFINE magnitude == IF amount < 0 THEN -amount ELSE amount
<1>1. magnitude \in Int
  OBVIOUS
<1> HIDE DEF magnitude
<1>2. Books(Post(l, party, OpeningEquity, magnitude)) /\ Books(Post(l, OpeningEquity, party, magnitude))
  BY <1>1, PostBooks, Chart
<1> QED BY <1>2 DEF PostToParty, magnitude

BooksKept == TradeTypeOK /\ Unpaid /\ Books(ledger)

\* A step that leaves what the invoices are made of alone.
LEMMA SameInvoices ==
  ASSUME TradeInv, Books(ledger'),
         UNCHANGED <<nBatches, initial, nSales, saleQuantity, cost, purchaseHeader, settled,
                     price, saleHeader, onCredit, collected>>,
         voidedPurchases' \subseteq 1..nBatches, voidedSales' \subseteq 1..nSales,
         onAccount' \in [Parties -> Int], adjusted' \in [Parties -> Int], slips' \in Nat
  PROVE  BooksKept'
<1>1. LedgerType(ledger')
  BY DEF Books
<1>2. TradeTypeOK'
  BY <1>1 DEF TradeInv, TradeTypeOK, PurchaseTotal, SaleTotal
<1> QED BY <1>2 DEF TradeInv, Unpaid, BooksKept

\* A service call that posts, and changes the stock or nothing at all.
LEMMA OnlyPosts ==
  ASSUME TradeInv, Books(ledger'), UNCHANGED <<nBatches, initial, nSales, saleQuantity>>,
         UNCHANGED <<purchaseVars, invoiceVars, partyVars>>
  PROVE  BooksKept'
BY SameInvoices DEF purchaseVars, invoiceVars, partyVars, TradeInv, TradeTypeOK

LEMMA SendBackBooks ==
  ASSUME TradeInv, NEW b \in Batches, NEW q \in Int, SendBack(b, q)
  PROVE  Books(ledger') /\ UNCHANGED <<nBatches, initial, nSales, saleQuantity>>
<1>1. cost[b] \in Int /\ Books(ledger)
  BY DEF TradeInv, TradeTypeOK
<1>2. q * cost[b] \in Int
  BY <1>1
<1>3. ledger' = Post(ledger, Payable, Goods, q * cost[b])
  BY DEF SendBack
<1>4. Books(ledger')
  BY <1>1, <1>2, <1>3, PostBooks, Chart
<1> QED BY <1>4 DEF SendBack, ReturnToSupplier, batchVars, saleVars

LEMMA ReturnPurchaseKeeps ==
  ASSUME TradeInv, NEW b \in Batches, NEW q \in Quantities, ReturnPurchase(b, q)
  PROVE  BooksKept'
BY SendBackBooks, OnlyPosts DEF ReturnPurchase

LEMMA CancelPurchaseKeeps ==
  ASSUME TradeInv, NEW b \in Batches, CancelPurchase(b)
  PROVE  BooksKept'
<1>1. initial[b] \in Int /\ b <= nBatches /\ b \in 1..nBatches
  BY DEF TradeInv, IInv, TypeOK, CancelPurchase, SendBack, ReturnToSupplier, Batches
<1>2. Books(ledger') /\ UNCHANGED <<nBatches, initial, nSales, saleQuantity>>
  BY <1>1, SendBackBooks DEF CancelPurchase
<1>3. voidedPurchases' \subseteq 1..nBatches
  BY <1>1 DEF CancelPurchase, TradeInv, TradeTypeOK
<1> QED BY <1>2, <1>3, SameInvoices DEF CancelPurchase, invoiceVars, partyVars, TradeInv, TradeTypeOK

\* The refund and the cost of a return.
LEMMA ReturnBooks ==
  ASSUME TradeInv, TypeOK', NEW s \in SaleLines, NEW q \in Int, NEW spoiled \in Accounts,
         NEW rows, NEW rows2,
         rows \in [SaleLines -> [Batches -> Nat]], rows2 \in [SaleLines -> [Batches -> Nat]],
         ledger' = Post(Post(ledger, SalesRevenue, RefundTo(s), q * price[s]),
                        spoiled, CostOfGoods,
                        RestockCost(s, [b \in Batches |-> rows2[s][b] - rows[s][b]]))
  PROVE  Books(ledger')
<1> DEFINE back == [b \in Batches |-> rows2[s][b] - rows[s][b]]
           refunded == Post(ledger, SalesRevenue, RefundTo(s), q * price[s])
<1>1. price[s] \in Int /\ Books(ledger) /\ RefundTo(s) \in Accounts
  BY Chart DEF TradeInv, TradeTypeOK, RefundTo
<1>2. q * price[s] \in Int
  BY <1>1
<1>3. back \in [Batches -> Int]
  OBVIOUS
<1> HIDE DEF back
<1>4. RestockCost(s, back) \in Int
  BY <1>3, ValueInt DEF RestockCost, TradeInv, TradeTypeOK
<1>5. Books(refunded)
  BY <1>1, <1>2, PostBooks, Chart
<1> HIDE DEF refunded
<1>6. ledger' = Post(refunded, spoiled, CostOfGoods, RestockCost(s, back))
  BY DEF refunded, back
<1> QED BY <1>4, <1>5, <1>6, PostBooks, Chart

LEMMA TakeBackBooks ==
  ASSUME TradeInv, TypeOK', NEW s \in SaleLines, NEW q \in Int, TakeBack(s, q)
  PROVE  Books(ledger') /\ UNCHANGED <<nBatches, initial, nSales, saleQuantity>>
<1>1. restocked \in [SaleLines -> [Batches -> Nat]] /\ restocked' \in [SaleLines -> [Batches -> Nat]]
  BY DEF TradeInv, IInv, TypeOK
<1>2. ledger' = Post(Post(ledger, SalesRevenue, RefundTo(s), q * price[s]), Goods, CostOfGoods,
                     RestockCost(s, [b \in Batches |-> restocked'[s][b] - restocked[s][b]]))
  BY DEF TakeBack
<1>3. Books(ledger')
  BY <1>1, <1>2, ReturnBooks, Chart
<1> QED BY <1>3 DEF TakeBack, ReturnGood, batchVars, saleVars

LEMMA ReturnSaleKeeps ==
  ASSUME TradeInv, TypeOK', NEW s \in SaleLines, NEW q \in Quantities, ReturnSale(s, q)
  PROVE  BooksKept'
BY TakeBackBooks, OnlyPosts DEF ReturnSale

LEMMA ReturnSpoiledKeeps ==
  ASSUME TradeInv, TypeOK', NEW s \in SaleLines, NEW q \in Quantities, ReturnSpoiled(s, q)
  PROVE  BooksKept'
<1>1. scrapped \in [SaleLines -> [Batches -> Nat]] /\ scrapped' \in [SaleLines -> [Batches -> Nat]]
  BY DEF TradeInv, IInv, TypeOK
<1>2. ledger' = Post(Post(ledger, SalesRevenue, RefundTo(s), q * price[s]), Shrinkage, CostOfGoods,
                     RestockCost(s, [b \in Batches |-> scrapped'[s][b] - scrapped[s][b]]))
  BY DEF ReturnSpoiled, SpoilageAccount
<1>3. Books(ledger')
  BY <1>1, <1>2, ReturnBooks, Chart
<1> QED BY <1>3, OnlyPosts DEF ReturnSpoiled, ReturnDamaged, batchVars, saleVars

LEMMA CancelSaleKeeps ==
  ASSUME TradeInv, TypeOK', NEW s \in SaleLines, CancelSale(s)
  PROVE  BooksKept'
<1>1. saleQuantity[s] \in Int /\ s <= nSales /\ s \in 1..nSales
  BY DEF TradeInv, IInv, TypeOK, CancelSale, TakeBack, ReturnGood, SaleLines
<1>2. Books(ledger') /\ UNCHANGED <<nBatches, initial, nSales, saleQuantity>>
  BY <1>1, TakeBackBooks DEF CancelSale
<1>3. voidedSales' \subseteq 1..nSales
  BY <1>1 DEF CancelSale, TradeInv, TradeTypeOK
<1> QED BY <1>2, <1>3, SameInvoices DEF CancelSale, purchaseVars, partyVars, TradeInv, TradeTypeOK

LEMMA LostGoodsKeeps ==
  ASSUME TradeInv, NEW w \in Warehouses, NEW q \in Quantities, LostGoods(w, q)
  PROVE  BooksKept'
<1>1. Allocation(w, q) \in [Batches -> Int] /\ cost \in [Batches -> Int] /\ Books(ledger)
  <2>1. TypeOK /\ q \in Int
    BY DEF TradeInv, IInv
  <2>2. Allocation(w, q) \in [Batches -> Nat]
    BY <2>1, AllocationType
  <2>3. Allocation(w, q) \in [Batches -> Int]
    BY <2>2
  <2> QED BY <2>3 DEF TradeInv, TradeTypeOK
<1>2. Value(Allocation(w, q)) \in Int
  BY <1>1, ValueInt
<1>3. ledger' = Post(ledger, Shrinkage, Goods, Value(Allocation(w, q)))
  BY DEF LostGoods
<1>4. Books(ledger')
  BY <1>1, <1>2, <1>3, PostBooks, Chart
<1> QED BY <1>4, OnlyPosts DEF LostGoods, AdjustDown, batchVars, saleVars

LEMMA MoveGoodsKeeps ==
  ASSUME TradeInv, NEW b, NEW from, NEW to, NEW q, MoveGoods(b, from, to, q)
  PROVE  BooksKept'
BY OnlyPosts DEF MoveGoods, Transfer, batchVars, saleVars, TradeInv

\* Payments on account, refunds, opening balances and adjustments.
LEMMA PartyStepKeeps ==
  ASSUME TradeInv, NEW p \in Parties, NEW amount \in Amounts,
         \/ \E place \in Places : ReceiveFrom(p, amount, place) \/ GiveTo(p, amount, place)
         \/ AdjustParty(p, amount)
  PROVE  BooksKept'
<1>1. Books(ledger) /\ p \in Accounts /\ amount \in Int
  BY Chart DEF TradeInv
<1>2. Books(ledger')
  <2>1. ASSUME NEW place \in Places
        PROVE  Books(Post(ledger, place, p, amount)) /\ Books(Post(ledger, p, place, amount))
    BY <1>1, PostBooks, Chart
  <2>2. Books(PostToParty(ledger, p, amount))
    BY <1>1, PartyBooks
  <2> QED BY <2>1, <2>2 DEF ReceiveFrom, GiveTo, AdjustParty
<1>3. onAccount' \in [Parties -> Int] /\ adjusted' \in [Parties -> Int] /\ slips' \in Nat
  BY <1>1 DEF TradeInv, TradeTypeOK, ReceiveFrom, GiveTo, AdjustParty
<1>4. UNCHANGED <<vars, purchaseVars, invoiceVars>>
  BY DEF ReceiveFrom, GiveTo, AdjustParty
<1> QED BY <1>2, <1>3, <1>4, SameInvoices
        DEF vars, batchVars, saleVars, purchaseVars, invoiceVars, TradeInv, TradeTypeOK

\* A payment of a purchase or of a sale never exceeds what is owed.
LEMMA PayPurchaseKeeps ==
  ASSUME TradeInv, NEW b \in Batches, NEW amount \in Amounts, NEW place \in Places,
         PayPurchase(b, amount, place)
  PROVE  BooksKept'
<1>1. Books(ledger) /\ place \in Accounts /\ amount \in Int
  BY Chart DEF TradeInv
<1>2. Books(ledger')
  BY <1>1, PostBooks, Chart DEF PayPurchase
<1>3. /\ settled \in [Batches -> Nat] /\ slips \in Nat
      /\ settled' = [settled EXCEPT ![b] = @ + amount] /\ slips' = slips + 1
      /\ amount > 0 /\ amount <= OwedOnPurchase(b) /\ b <= nBatches
      /\ UNCHANGED <<vars, cost, purchaseHeader, voidedPurchases, invoiceVars, onAccount, adjusted>>
  BY DEF PayPurchase, TradeInv, TradeTypeOK
<1>4. PurchaseTotal(b) \in Int /\ amount <= PurchaseTotal(b) - settled[b]
  <2>1. cost[b] \in Int /\ initial[b] \in Int /\ purchaseHeader[b] \in Int /\ settled[b] \in Int
    BY DEF TradeInv, TradeTypeOK, IInv, TypeOK
  <2>2. PurchaseTotal(b) \in Int
    BY <2>1 DEF PurchaseTotal
  <2> QED BY <1>1, <1>3, <2>1, <2>2 DEF OwedOnPurchase
<1>5. \A c \in Batches : PurchaseTotal(c)' = PurchaseTotal(c)
  BY <1>3 DEF PurchaseTotal, vars, batchVars
<1>6. settled' \in [Batches -> Nat]
  BY <1>1, <1>3
<1>7. ASSUME NEW c \in Batches PROVE settled'[c] \in 0..Larger(0, PurchaseTotal(c))
  <2>1. settled[c] \in 0..Larger(0, PurchaseTotal(c))
    BY DEF TradeInv, TradeTypeOK
  <2>2. CASE c = b
    BY <1>1, <1>3, <1>4, <1>6, <2>2 DEF Larger
  <2>3. CASE c # b
    BY <1>3, <2>1, <2>3
  <2> QED BY <2>2, <2>3
<1>8. /\ UNCHANGED <<nBatches, initial, nSales, saleQuantity, cost, purchaseHeader,
                     price, saleHeader, onCredit, collected, voidedPurchases, voidedSales,
                     onAccount, adjusted>>
      /\ slips' \in Nat
  BY <1>3 DEF vars, batchVars, saleVars, invoiceVars
<1>9. \A s \in SaleLines : SaleTotal(s)' = SaleTotal(s)
  BY <1>8 DEF SaleTotal
<1>10. LedgerType(ledger')
  BY <1>2 DEF Books
<1>11. \A c \in Batches : settled'[c] \in 0..Larger(0, PurchaseTotal(c)')
  BY <1>5, <1>7
<1>12. TradeTypeOK'
  BY <1>6, <1>8, <1>9, <1>10, <1>11 DEF TradeInv, TradeTypeOK, Larger
<1>13. Unpaid'
  <2>1. Unpaid /\ nBatches \in Nat
    BY DEF TradeInv, IInv, TypeOK
  <2>2. ASSUME NEW c \in Batches, c > nBatches PROVE settled'[c] = 0
    <3>1. c # b
      BY <1>3, <2>1, <2>2 DEF Batches
    <3> QED BY <1>3, <2>1, <2>2, <3>1 DEF Unpaid
  <2> QED BY <1>8, <2>1, <2>2 DEF Unpaid
<1> QED BY <1>2, <1>12, <1>13 DEF BooksKept

LEMMA PaySaleKeeps ==
  ASSUME TradeInv, NEW s \in SaleLines, NEW amount \in Amounts, NEW place \in Places,
         PaySale(s, amount, place)
  PROVE  BooksKept'
<1>1. Books(ledger) /\ place \in Accounts /\ amount \in Int
  BY Chart DEF TradeInv
<1>2. Books(ledger')
  BY <1>1, PostBooks, Chart DEF PaySale
<1>3. /\ collected \in [SaleLines -> Nat] /\ slips \in Nat
      /\ collected' = [collected EXCEPT ![s] = @ + amount] /\ slips' = slips + 1
      /\ amount > 0 /\ amount <= OwedOnSale(s) /\ s \in 1..nSales
      /\ UNCHANGED <<vars, purchaseVars, price, saleHeader, onCredit, voidedSales, onAccount, adjusted>>
  BY DEF PaySale, TradeInv, TradeTypeOK
<1>4. SaleTotal(s) \in Int /\ amount <= SaleTotal(s) - collected[s]
  <2>1. price[s] \in Int /\ saleQuantity[s] \in Int /\ saleHeader[s] \in Int /\ collected[s] \in Int
    BY DEF TradeInv, TradeTypeOK, IInv, TypeOK
  <2>2. SaleTotal(s) \in Int
    BY <2>1 DEF SaleTotal
  <2> QED BY <1>1, <1>3, <2>1, <2>2 DEF OwedOnSale
<1>5. \A t \in SaleLines : SaleTotal(t)' = SaleTotal(t)
  BY <1>3 DEF SaleTotal, vars, saleVars
<1>6. collected' \in [SaleLines -> Nat]
  BY <1>1, <1>3
<1>7. ASSUME NEW t \in SaleLines PROVE collected'[t] \in 0..Larger(0, SaleTotal(t))
  <2>1. collected[t] \in 0..Larger(0, SaleTotal(t))
    BY DEF TradeInv, TradeTypeOK
  <2>2. CASE t = s
    BY <1>1, <1>3, <1>4, <1>6, <2>2 DEF Larger
  <2>3. CASE t # s
    BY <1>3, <2>1, <2>3
  <2> QED BY <2>2, <2>3
<1>8. /\ UNCHANGED <<nBatches, initial, nSales, saleQuantity, cost, purchaseHeader, settled,
                     price, saleHeader, onCredit, voidedPurchases, voidedSales,
                     onAccount, adjusted>>
      /\ slips' \in Nat
  BY <1>3 DEF vars, batchVars, saleVars, purchaseVars
<1>9. \A c \in Batches : PurchaseTotal(c)' = PurchaseTotal(c)
  BY <1>8 DEF PurchaseTotal
<1>10. LedgerType(ledger')
  BY <1>2 DEF Books
<1>11. \A t \in SaleLines : collected'[t] \in 0..Larger(0, SaleTotal(t)')
  BY <1>5, <1>7
<1>12. TradeTypeOK'
  BY <1>6, <1>8, <1>9, <1>10, <1>11 DEF TradeInv, TradeTypeOK, Larger
<1>13. Unpaid'
  <2>1. Unpaid /\ nSales \in Nat
    BY DEF TradeInv, IInv, TypeOK
  <2>2. ASSUME NEW t \in SaleLines, t > nSales PROVE collected'[t] = 0
    <3>1. t # s
      BY <1>3, <2>1, <2>2 DEF SaleLines
    <3> QED BY <1>3, <2>1, <2>2, <3>1 DEF Unpaid
  <2> QED BY <1>8, <2>1, <2>2 DEF Unpaid
<1> QED BY <1>2, <1>12, <1>13 DEF BooksKept

\* A new invoice, or a batch without one, with what was paid when it was made.
LEMMA NewBatch ==
  ASSUME TradeInv, Books(ledger'), NEW q \in Int, NEW c \in Int, NEW h \in Int, NEW paid \in Nat,
         nBatches < MaxBatches, paid \in 0..Larger(0, q * c + h),
         nBatches' = nBatches + 1,
         initial' = [initial EXCEPT ![nBatches + 1] = q],
         cost' = [cost EXCEPT ![nBatches + 1] = c],
         purchaseHeader' = [purchaseHeader EXCEPT ![nBatches + 1] = h],
         settled' = [settled EXCEPT ![nBatches + 1] = paid],
         UNCHANGED <<nSales, saleQuantity, voidedPurchases, invoiceVars, partyVars>>
  PROVE  BooksKept'
<1> DEFINE new == nBatches + 1
<1>1. /\ new \in Batches /\ nBatches \in Nat /\ initial \in [Batches -> Nat]
      /\ cost \in [Batches -> Int] /\ purchaseHeader \in [Batches -> Int]
      /\ settled \in [Batches -> Nat]
  <2>1. TypeOK /\ TradeTypeOK
    BY DEF TradeInv, IInv
  <2>2. nBatches \in 0..MaxBatches
    BY <2>1 DEF TypeOK
  <2>3. new \in Batches /\ nBatches \in Nat
    BY <2>2 DEF Batches
  <2> QED BY <2>1, <2>3 DEF TypeOK, TradeTypeOK
<1>2. /\ cost' \in [Batches -> Int] /\ purchaseHeader' \in [Batches -> Int]
      /\ settled' \in [Batches -> Nat]
  BY <1>1
<1>3. ASSUME NEW b \in Batches PROVE settled'[b] \in 0..Larger(0, PurchaseTotal(b)')
  <2>1. CASE b = new
    <3>1. initial'[b] = q /\ cost'[b] = c /\ purchaseHeader'[b] = h /\ settled'[b] = paid
      BY <1>1, <2>1
    <3>2. PurchaseTotal(b)' = q * c + h
      BY <3>1 DEF PurchaseTotal
    <3> QED BY <3>1, <3>2
  <2>2. CASE b # new
    <3>1. /\ initial'[b] = initial[b] /\ cost'[b] = cost[b]
          /\ purchaseHeader'[b] = purchaseHeader[b] /\ settled'[b] = settled[b]
      BY <1>1, <2>2
    <3>2. PurchaseTotal(b)' = PurchaseTotal(b)
      BY <3>1 DEF PurchaseTotal
    <3> QED BY <3>1, <3>2 DEF TradeInv, TradeTypeOK
  <2> QED BY <2>1, <2>2
<1>4. /\ UNCHANGED <<price, saleHeader, onCredit, collected, voidedSales, onAccount, adjusted, slips>>
      /\ \A s \in SaleLines : SaleTotal(s)' = SaleTotal(s)
  BY DEF invoiceVars, partyVars, SaleTotal
<1>5. LedgerType(ledger') /\ voidedPurchases' \subseteq 1..nBatches'
  BY <1>1 DEF Books, TradeInv, TradeTypeOK
<1>6. TradeTypeOK'
  BY <1>2, <1>3, <1>4, <1>5 DEF TradeInv, TradeTypeOK, Larger
<1>7. Unpaid'
  <2>1. Unpaid
    BY DEF TradeInv
  <2>2. ASSUME NEW b \in Batches, b > nBatches' PROVE settled'[b] = 0
    <3>1. b # new /\ b > nBatches
      BY <1>1, <2>2 DEF Batches
    <3> QED BY <1>1, <2>1, <3>1 DEF Unpaid
  <2> QED BY <1>4, <2>1, <2>2 DEF Unpaid
<1> QED BY <1>6, <1>7 DEF BooksKept

LEMMA BuyGoodsKeeps ==
  ASSUME TradeInv, NEW w \in Warehouses, NEW q \in Quantities, NEW e, NEW c \in Costs,
         NEW h \in Headers, NEW tendered \in Tenders, NEW place \in Places,
         BuyGoods(w, q, e, c, h, tendered, place)
  PROVE  BooksKept'
<1> DEFINE total == q * c + h
           paid == Applied(tendered, total)
           invoiced == Post(ledger, Goods, Payable, total)
<1>1. q \in Int /\ c \in Int /\ h \in Int /\ tendered \in Int /\ place \in Accounts
  BY Chart
<1>2. total \in Int /\ PaymentAccepted(tendered, total)
  BY <1>1 DEF BuyGoods
<1>3. ledger' = Post(invoiced, Payable, place, paid)
  BY DEF BuyGoods
<1> HIDE DEF total
<1>4. paid \in 0..Larger(0, total) /\ paid \in Nat
  BY <1>1, <1>2, AppliedBound DEF Larger
<1> HIDE DEF paid
<1>5. Books(invoiced)
  BY <1>2, PostBooks, Chart DEF TradeInv
<1> HIDE DEF invoiced
<1>6. Books(ledger')
  BY <1>1, <1>3, <1>4, <1>5, PostBooks, Chart
<1>7. /\ nBatches < MaxBatches /\ nBatches' = nBatches + 1
      /\ initial' = [initial EXCEPT ![nBatches + 1] = q]
      /\ cost' = [cost EXCEPT ![nBatches + 1] = c]
      /\ purchaseHeader' = [purchaseHeader EXCEPT ![nBatches + 1] = h]
      /\ settled' = [settled EXCEPT ![nBatches + 1] = paid]
      /\ UNCHANGED <<nSales, saleQuantity, voidedPurchases, invoiceVars, partyVars>>
  BY DEF BuyGoods, Purchase, ReceiveStock, saleVars, paid, total
<1>8. paid \in 0..Larger(0, q * c + h)
  BY <1>4 DEF total
<1> QED BY <1>1, <1>4, <1>6, <1>7, <1>8, NewBatch

LEMMA FoundGoodsKeeps ==
  ASSUME TradeInv, NEW w \in Warehouses, NEW q \in Quantities, NEW c \in Costs,
         FoundGoods(w, q, c)
  PROVE  BooksKept'
<1>1. q \in Int /\ c \in Int
  OBVIOUS
<1>2. q * c \in Int
  BY <1>1
<1>3. Books(ledger')
  BY <1>2, PostBooks, Chart DEF TradeInv, FoundGoods
<1>4. /\ nBatches < MaxBatches /\ nBatches' = nBatches + 1
      /\ initial' = [initial EXCEPT ![nBatches + 1] = q]
      /\ cost' = [cost EXCEPT ![nBatches + 1] = c]
      /\ UNCHANGED <<purchaseHeader, settled, nSales, saleQuantity, voidedPurchases,
                     invoiceVars, partyVars>>
  BY DEF FoundGoods, AdjustUp, ReceiveStock, saleVars
<1> DEFINE new == nBatches + 1
           h == purchaseHeader[new]
<1>5. new \in Batches /\ nBatches \in Nat
  BY <1>4 DEF TradeInv, IInv, TypeOK, Batches
<1>6. settled[new] = 0 /\ h \in Int
  BY <1>5 DEF TradeInv, TradeTypeOK, Unpaid
<1>7. /\ purchaseHeader' = [purchaseHeader EXCEPT ![new] = h]
      /\ settled' = [settled EXCEPT ![new] = 0]
  BY <1>4, <1>5, <1>6 DEF TradeInv, TradeTypeOK
<1>8. 0 \in Nat /\ 0 \in 0..Larger(0, q * c + h)
  BY <1>1, <1>2, <1>6 DEF Larger
<1> HIDE DEF h
<1> QED BY <1>1, <1>3, <1>4, <1>6, <1>7, <1>8, NewBatch

LEMMA NewSale ==
  ASSUME TradeInv, Books(ledger'), NEW q \in Int, NEW p \in Int, NEW h \in Int, NEW paid \in Nat,
         nSales < MaxSales, paid \in 0..Larger(0, q * p + h),
         nSales' = nSales + 1,
         saleQuantity' = [saleQuantity EXCEPT ![nSales + 1] = q],
         price' = [price EXCEPT ![nSales + 1] = p],
         saleHeader' = [saleHeader EXCEPT ![nSales + 1] = h],
         collected' = [collected EXCEPT ![nSales + 1] = paid],
         onCredit' \subseteq onCredit \cup {nSales + 1},
         UNCHANGED <<nBatches, initial, voidedSales, purchaseVars, partyVars>>
  PROVE  BooksKept'
<1> DEFINE new == nSales + 1
<1>1. /\ new \in SaleLines /\ nSales \in Nat /\ saleQuantity \in [SaleLines -> Int]
      /\ price \in [SaleLines -> Int] /\ saleHeader \in [SaleLines -> Int]
      /\ collected \in [SaleLines -> Nat]
  <2>1. TypeOK /\ TradeTypeOK
    BY DEF TradeInv, IInv
  <2>2. nSales \in 0..MaxSales
    BY <2>1 DEF TypeOK
  <2>3. new \in SaleLines /\ nSales \in Nat
    BY <2>2 DEF SaleLines
  <2> QED BY <2>1, <2>3 DEF TypeOK, TradeTypeOK
<1>2. /\ price' \in [SaleLines -> Int] /\ saleHeader' \in [SaleLines -> Int]
      /\ collected' \in [SaleLines -> Nat]
  BY <1>1
<1>3. ASSUME NEW s \in SaleLines PROVE collected'[s] \in 0..Larger(0, SaleTotal(s)')
  <2>1. CASE s = new
    <3>1. saleQuantity'[s] = q /\ price'[s] = p /\ saleHeader'[s] = h /\ collected'[s] = paid
      BY <1>1, <2>1
    <3>2. SaleTotal(s)' = q * p + h
      BY <3>1 DEF SaleTotal
    <3> QED BY <3>1, <3>2
  <2>2. CASE s # new
    <3>1. /\ saleQuantity'[s] = saleQuantity[s] /\ price'[s] = price[s]
          /\ saleHeader'[s] = saleHeader[s] /\ collected'[s] = collected[s]
      BY <1>1, <2>2
    <3>2. SaleTotal(s)' = SaleTotal(s)
      BY <3>1 DEF SaleTotal
    <3> QED BY <3>1, <3>2 DEF TradeInv, TradeTypeOK
  <2> QED BY <2>1, <2>2
<1>4. /\ UNCHANGED <<cost, purchaseHeader, settled, voidedPurchases, onAccount, adjusted, slips>>
      /\ \A b \in Batches : PurchaseTotal(b)' = PurchaseTotal(b)
  BY DEF purchaseVars, partyVars, PurchaseTotal
<1>5. /\ LedgerType(ledger') /\ voidedSales' \subseteq 1..nSales'
      /\ onCredit' \subseteq 1..nSales'
  BY <1>1 DEF Books, TradeInv, TradeTypeOK
<1>6. TradeTypeOK'
  BY <1>2, <1>3, <1>4, <1>5 DEF TradeInv, TradeTypeOK, Larger
<1>7. Unpaid'
  <2>1. Unpaid /\ UNCHANGED <<nBatches, settled>>
    BY <1>4 DEF TradeInv
  <2>2. ASSUME NEW s \in SaleLines, s > nSales' PROVE collected'[s] = 0
    <3>1. s # new /\ s > nSales
      BY <1>1, <2>2 DEF SaleLines
    <3> QED BY <1>1, <2>1, <3>1 DEF Unpaid
  <2> QED BY <2>1, <2>2 DEF Unpaid
<1> QED BY <1>6, <1>7 DEF BooksKept

LEMMA AllocationCost ==
  ASSUME TradeInv, NEW w \in Warehouses, NEW q \in Int
  PROVE  Value(Allocation(w, q)) \in Int
<1>1. TypeOK /\ cost \in [Batches -> Int]
  BY DEF TradeInv, IInv, TradeTypeOK
<1>2. Allocation(w, q) \in [Batches -> Nat]
  BY <1>1, AllocationType
<1>3. Allocation(w, q) \in [Batches -> Int]
  BY <1>2
<1> QED BY <1>1, <1>3, ValueInt

LEMMA SellToCustomerKeeps ==
  ASSUME TradeInv, NEW w \in Warehouses, NEW q \in Quantities, NEW p \in Prices,
         NEW h \in Headers, NEW tendered \in Tenders, NEW place \in Places,
         SellToCustomer(w, q, p, h, tendered, place)
  PROVE  BooksKept'
<1> DEFINE total == q * p + h
           paid == Applied(tendered, total)
           invoiced == Post(ledger, Receivable, SalesRevenue, total)
           settledUp == Post(invoiced, place, Receivable, paid)
           goodsCost == Value(Allocation(w, q))
<1>1. q \in Int /\ p \in Int /\ h \in Int /\ tendered \in Int /\ place \in Accounts
  BY Chart
<1>2. total \in Int /\ PaymentAccepted(tendered, total)
  BY <1>1 DEF SellToCustomer
<1>3. ledger' = Post(settledUp, CostOfGoods, Goods, goodsCost)
  BY DEF SellToCustomer
<1>4. goodsCost \in Int
  BY <1>1, AllocationCost
<1> HIDE DEF total, goodsCost
<1>5. paid \in 0..Larger(0, total) /\ paid \in Nat
  BY <1>1, <1>2, AppliedBound DEF Larger
<1> HIDE DEF paid
<1>6. Books(invoiced)
  BY <1>2, PostBooks, Chart DEF TradeInv
<1> HIDE DEF invoiced
<1>7. Books(settledUp)
  BY <1>1, <1>5, <1>6, PostBooks, Chart
<1> HIDE DEF settledUp
<1>8. Books(ledger')
  BY <1>3, <1>4, <1>7, PostBooks, Chart
<1>9. /\ nSales < MaxSales /\ nSales' = nSales + 1
      /\ saleQuantity' = [saleQuantity EXCEPT ![nSales + 1] = q]
      /\ price' = [price EXCEPT ![nSales + 1] = p]
      /\ saleHeader' = [saleHeader EXCEPT ![nSales + 1] = h]
      /\ collected' = [collected EXCEPT ![nSales + 1] = paid]
      /\ onCredit' \subseteq onCredit \cup {nSales + 1}
      /\ UNCHANGED <<nBatches, initial, voidedSales, purchaseVars, partyVars>>
  BY DEF SellToCustomer, Sell, batchVars, paid, total
<1>10. paid \in 0..Larger(0, q * p + h)
  BY <1>5 DEF total
<1> QED BY <1>1, <1>5, <1>8, <1>9, <1>10, NewSale

LEMMA SellToWalkInKeeps ==
  ASSUME TradeInv, NEW w \in Warehouses, NEW q \in Quantities, NEW p \in Prices,
         NEW h \in Headers, NEW place \in Places, SellToWalkIn(w, q, p, h, place)
  PROVE  BooksKept'
<1> DEFINE received == Post(ledger, place, SalesRevenue, q * p + h)
           goodsCost == Value(Allocation(w, q))
           new == nSales + 1
<1>1. q \in Int /\ p \in Int /\ h \in Int /\ place \in Accounts
  BY Chart
<1>2. q * p + h \in Int
  BY <1>1
<1>3. ledger' = Post(received, CostOfGoods, Goods, goodsCost)
  BY DEF SellToWalkIn
<1>4. goodsCost \in Int
  BY <1>1, AllocationCost
<1>5. Books(received)
  BY <1>1, <1>2, PostBooks, Chart DEF TradeInv
<1> HIDE DEF received, goodsCost
<1>6. Books(ledger')
  BY <1>3, <1>4, <1>5, PostBooks, Chart
<1>7. /\ nSales < MaxSales /\ nSales' = nSales + 1
      /\ saleQuantity' = [saleQuantity EXCEPT ![nSales + 1] = q]
      /\ price' = [price EXCEPT ![nSales + 1] = p]
      /\ saleHeader' = [saleHeader EXCEPT ![nSales + 1] = h]
      /\ onCredit' \subseteq onCredit \cup {nSales + 1}
      /\ UNCHANGED <<collected, nBatches, initial, voidedSales, purchaseVars, partyVars>>
  BY DEF SellToWalkIn, Sell, batchVars
<1>8. new \in SaleLines /\ nSales \in Nat
  BY <1>7 DEF TradeInv, IInv, TypeOK, SaleLines
<1>9. collected[new] = 0
  BY <1>8 DEF TradeInv, Unpaid
<1>10. collected' = [collected EXCEPT ![new] = 0]
  BY <1>7, <1>8, <1>9 DEF TradeInv, TradeTypeOK
<1>11. 0 \in Nat /\ 0 \in 0..Larger(0, q * p + h)
  BY <1>2 DEF Larger
<1> QED BY <1>1, <1>6, <1>7, <1>10, <1>11, NewSale

-----------------------------------------------------------------------------

LEMMA TradeInitInv == TradeInit => TradeInv
<1> SUFFICES ASSUME TradeInit PROVE TradeInv
  OBVIOUS
<1>1. IInv /\ nBatches = 0 /\ nSales = 0
  BY InitIInv DEF TradeInit, Init
<1>2. Books(ledger)
  BY EmptyBooks DEF TradeInit
<1>3. Entered
  BY <1>1 DEF Entered, Batches, SaleLines
<1>4. /\ \A b \in Batches : settled[b] = 0 /\ PurchaseTotal(b) \in Int
      /\ \A s \in SaleLines : collected[s] = 0 /\ SaleTotal(s) \in Int
  BY DEF TradeInit, Init, PerBatch, PerSale, PurchaseTotal, SaleTotal
<1>5. TradeTypeOK
  BY <1>1, <1>2, <1>4 DEF TradeInit, PerBatch, PerSale, TradeTypeOK, Books, Larger
<1>6. Unpaid
  BY <1>4 DEF Unpaid
<1> QED BY <1>1, <1>2, <1>3, <1>5, <1>6 DEF TradeInv

LEMMA TradeStepInv == TradeInv /\ [TradeNext]_tradeVars => TradeInv'
<1> SUFFICES ASSUME TradeInv, [TradeNext]_tradeVars PROVE TradeInv'
  OBVIOUS
<1>1. [Next]_vars
  BY StockStep DEF TradeInv
<1>2. IInv' /\ Entered' /\ TypeOK'
  BY <1>1, NextIInv, EnteredStep DEF TradeInv, IInv
<1>3. CASE TradeNext
  BY <1>2, <1>3, BuyGoodsKeeps, PayPurchaseKeeps, ReturnPurchaseKeeps, CancelPurchaseKeeps,
     SellToCustomerKeeps, SellToWalkInKeeps, PaySaleKeeps, ReturnSaleKeeps, ReturnSpoiledKeeps,
     CancelSaleKeeps, PartyStepKeeps, FoundGoodsKeeps, LostGoodsKeeps, MoveGoodsKeeps
     DEF TradeNext, TradeInv, BooksKept
<1>4. CASE UNCHANGED tradeVars
  <2>1. BooksKept'
    BY <1>4, OnlyPosts DEF tradeVars, vars, batchVars, saleVars, TradeInv
  <2> QED BY <1>2, <2>1 DEF TradeInv, BooksKept
<1> QED BY <1>3, <1>4

-----------------------------------------------------------------------------
(***************************************************************************)
(* The theorems.                                                           *)
(***************************************************************************)

\* The inductive invariant holds whatever the constants are.
THEOREM TradeInductive == TradeSpec => []TradeInv
BY TradeInitInv, TradeStepInv, PTL DEF TradeSpec

\* Every service call is a stock operation of Inventory or leaves the stock alone: the
\* postings made in the same transaction never hold one up or replace it.
THEOREM TradeRefinesStock == TradeSpec => StockRefined
<1>1. TradeInit => Init
  BY DEF TradeInit
<1>2. TradeInv /\ [TradeNext]_tradeVars => [Next]_vars
  BY StockStep DEF TradeInv
<1> QED BY <1>1, <1>2, TradeInductive, PTL DEF TradeSpec, StockRefined, Spec

\* No invoice is ever paid beyond its total, and every column holds what it can hold.
THEOREM TradeTypeCorrect == TradeSpec => []TradeTypeOK
<1>1. TradeInv => TradeTypeOK
  BY DEF TradeInv
<1> QED BY <1>1, TradeInductive, PTL

-----------------------------------------------------------------------------
(***************************************************************************)
(* What goods cost.                                                        *)
(***************************************************************************)

\* Units of every batch at the costs c.
Worth(units, c) == SumUpTo([b \in Batches |-> units[b] * c[b]], MaxBatches)

LEMMA WorthInt ==
  ASSUME NEW u \in [Batches -> Int], NEW c \in [Batches -> Int]
  PROVE  Worth(u, c) \in Int
<1> DEFINE f == [b \in Batches |-> u[b] * c[b]]
<1>1. f \in [1..MaxBatches -> Int]
  BY TimesRules DEF Batches
<1>2. SumUpTo(f, MaxBatches) \in Int
  <2> HIDE DEF f
  <2> QED BY <1>1, SumInt
<1> QED BY <1>2 DEF Worth

\* From u to v units, d[b] came of every batch b, and the costs went from c to e but for
\* batches of which there were none.
Change(u, v, d, c, e) ==
  /\ u \in [Batches -> Int] /\ v \in [Batches -> Int] /\ d \in [Batches -> Int]
  /\ c \in [Batches -> Int] /\ e \in [Batches -> Int]
  /\ \A b \in Batches : v[b] = u[b] + d[b]
  /\ \A b \in Batches : u[b] = 0 \/ e[b] = c[b]

\* What comes or goes is worth what it costs.
LEMMA WorthStep ==
  ASSUME NEW u, NEW v, NEW d, NEW c, NEW e, Change(u, v, d, c, e)
  PROVE  Worth(v, e) = Worth(u, c) + Worth(d, e)
<1> DEFINE f == [b \in Batches |-> u[b] * c[b]]
           g == [b \in Batches |-> d[b] * e[b]]
           h == [b \in Batches |-> v[b] * e[b]]
<1>1. /\ f \in [1..MaxBatches -> Int] /\ g \in [1..MaxBatches -> Int]
      /\ h \in [1..MaxBatches -> Int]
  BY TimesRules DEF Batches, Change
<1>2. \A b \in 1..MaxBatches : h[b] = f[b] + g[b]
  <2> SUFFICES ASSUME NEW b \in Batches PROVE v[b] * e[b] = u[b] * c[b] + d[b] * e[b]
    BY DEF Batches
  <2>1. /\ u[b] \in Int /\ d[b] \in Int /\ e[b] \in Int /\ c[b] \in Int
        /\ v[b] = u[b] + d[b]
    BY DEF Change
  <2>2. v[b] * e[b] = u[b] * e[b] + d[b] * e[b]
    BY <2>1, TimesRules
  <2>3. u[b] * e[b] = u[b] * c[b]
    BY <2>1, TimesRules DEF Change
  <2> QED BY <2>2, <2>3
<1> HIDE DEF f, g, h
<1>3. SumUpTo(h, MaxBatches) = SumUpTo(f, MaxBatches) + SumUpTo(g, MaxBatches)
  BY <1>1, <1>2, SumAdd
<1> QED BY <1>3 DEF Worth, f, g, h

\* Units of one batch.
LEMMA WorthPoint ==
  ASSUME NEW k \in Batches, NEW q \in Int, NEW c \in [Batches -> Int], NEW d \in [Batches -> Int],
         \A b \in Batches : d[b] = IF b = k THEN q ELSE 0
  PROVE  Worth(d, c) = q * c[k]
<1> DEFINE v == q * c[k]
           f == [b \in Batches |-> d[b] * c[b]]
<1>1. v \in Int /\ k \in 1..MaxBatches
  BY TimesRules DEF Batches
<1>2. f = [b \in 1..MaxBatches |-> IF b = k THEN v ELSE 0]
  <2>1. \A b \in Batches : d[b] * c[b] = IF b = k THEN v ELSE 0
    BY TimesRules
  <2> QED BY <2>1 DEF Batches
<1>3. SumUpTo(f, MaxBatches) = v
  <2> HIDE DEF v, f
  <2> QED BY <1>1, <1>2, SumPoint
<1> QED BY <1>3 DEF Worth

LEMMA WorthMinus ==
  ASSUME NEW u \in [Batches -> Int], NEW c \in [Batches -> Int]
  PROVE  Worth([b \in Batches |-> -u[b]], c) = -Worth(u, c)
<1> DEFINE f == [b \in Batches |-> u[b] * c[b]]
           g == [b \in Batches |-> [a \in Batches |-> -u[a]][b] * c[b]]
<1>1. /\ f \in [1..MaxBatches -> Int] /\ g \in [1..MaxBatches -> Int]
      /\ \A b \in 1..MaxBatches : g[b] = -f[b]
  BY TimesRules DEF Batches
<1>2. SumUpTo(g, MaxBatches) = -SumUpTo(f, MaxBatches)
  <2> HIDE DEF f, g
  <2> QED BY <1>1, SumMinus
<1> QED BY <1>2 DEF Worth

LEMMA WorthZero ==
  ASSUME NEW u \in [Batches -> Int], NEW c \in [Batches -> Int], \A b \in Batches : u[b] = 0
  PROVE  Worth(u, c) = 0
<1> DEFINE f == [b \in Batches |-> u[b] * c[b]]
<1>1. f \in [1..MaxBatches -> Int] /\ \A b \in 1..MaxBatches : f[b] = 0
  BY TimesRules DEF Batches
<1>2. SumUpTo(f, MaxBatches) = 0
  <2> HIDE DEF f
  <2> QED BY <1>1, SumZero
<1> QED BY <1>2 DEF Worth

\* The cost of a table of units: by sale line, then by batch.
TableWorth(units, c) == SumUpTo([s \in SaleLines |-> Worth(units[s], c)], MaxSales)

LEMMA TableWorthInt ==
  ASSUME NEW u \in [SaleLines -> [Batches -> Int]], NEW c \in [Batches -> Int]
  PROVE  TableWorth(u, c) \in Int
<1> DEFINE f == [s \in SaleLines |-> Worth(u[s], c)]
<1>1. f \in [1..MaxSales -> Int]
  BY WorthInt DEF SaleLines
<1>2. SumUpTo(f, MaxSales) \in Int
  <2> HIDE DEF f
  <2> QED BY <1>1, SumInt
<1> QED BY <1>2 DEF TableWorth

\* From u to v, d[b] came of every batch b in row s.
TableChange(u, v, s, d, c, e) ==
  /\ u \in [SaleLines -> [Batches -> Int]] /\ v \in [SaleLines -> [Batches -> Int]]
  /\ d \in [Batches -> Int] /\ c \in [Batches -> Int] /\ e \in [Batches -> Int]
  /\ \A t \in SaleLines : t # s => v[t] = u[t]
  /\ \A b \in Batches : v[s][b] = u[s][b] + d[b]
  /\ \A t \in SaleLines, b \in Batches : u[t][b] = 0 \/ e[b] = c[b]

\* Units that come or go in one row.
LEMMA TableWorthStep ==
  ASSUME NEW u, NEW v, NEW s \in SaleLines, NEW d, NEW c, NEW e,
         TableChange(u, v, s, d, c, e)
  PROVE  TableWorth(v, e) = TableWorth(u, c) + Worth(d, e)
<1> DEFINE f == [t \in SaleLines |-> Worth(u[t], c)]
           g == [t \in SaleLines |-> Worth(v[t], e)]
           k == Worth(d, e)
           z == [b \in Batches |-> 0]
<1>1. f \in [1..MaxSales -> Int] /\ g \in [1..MaxSales -> Int] /\ k \in Int /\ s \in 1..MaxSales
  BY WorthInt DEF SaleLines, TableChange
<1>2. Worth(v[s], e) = Worth(u[s], c) + k
  <2>1. Change(u[s], v[s], d, c, e)
    BY DEF Change, TableChange
  <2> QED BY <2>1, WorthStep
<1>3. ASSUME NEW t \in SaleLines, t # s PROVE Worth(v[t], e) = Worth(u[t], c)
  <2>1. Change(u[t], v[t], z, c, e)
    BY <1>3 DEF Change, TableChange
  <2>2. z \in [Batches -> Int] /\ \A b \in Batches : z[b] = 0
    OBVIOUS
  <2> HIDE DEF z
  <2>3. Worth(z, e) = 0 /\ Worth(u[t], c) \in Int
    BY <2>2, WorthZero, WorthInt DEF TableChange
  <2>4. Worth(v[t], e) = Worth(u[t], c) + Worth(z, e)
    BY <2>1, WorthStep
  <2> QED BY <2>3, <2>4
<1>4. \A t \in 1..MaxSales : g[t] = f[t] + (IF t = s THEN k ELSE 0)
  <2> SUFFICES ASSUME NEW t \in SaleLines
               PROVE  Worth(v[t], e) = Worth(u[t], c) + (IF t = s THEN k ELSE 0)
    BY DEF SaleLines
  <2>1. Worth(u[t], c) \in Int
    BY WorthInt DEF TableChange
  <2> HIDE DEF k
  <2> QED BY <1>2, <1>3, <2>1
<1> HIDE DEF f, g, k
<1>5. SumUpTo(g, MaxSales) = SumUpTo(f, MaxSales) + k
  BY <1>1, <1>4, SumUpdate
<1> QED BY <1>5 DEF f, g, k, TableWorth

\* No unit comes or goes, and the cost of those there are stands.
LEMMA TableWorthSame ==
  ASSUME NEW u \in [SaleLines -> [Batches -> Int]],
         NEW c \in [Batches -> Int], NEW e \in [Batches -> Int],
         \A t \in SaleLines, b \in Batches : u[t][b] = 0 \/ e[b] = c[b]
  PROVE  TableWorth(u, e) = TableWorth(u, c)
<1> DEFINE z == [b \in Batches |-> 0]
<1>1. ASSUME NEW t \in SaleLines PROVE Worth(u[t], e) = Worth(u[t], c)
  <2>1. Change(u[t], u[t], z, c, e)
    BY DEF Change
  <2>2. z \in [Batches -> Int] /\ \A b \in Batches : z[b] = 0
    OBVIOUS
  <2> HIDE DEF z
  <2>3. Worth(z, e) = 0 /\ Worth(u[t], c) \in Int
    BY <2>2, WorthZero, WorthInt
  <2>4. Worth(u[t], e) = Worth(u[t], c) + Worth(z, e)
    BY <2>1, WorthStep
  <2> QED BY <2>3, <2>4
<1>2. [t \in SaleLines |-> Worth(u[t], e)] = [t \in SaleLines |-> Worth(u[t], c)]
  BY <1>1
<1> QED BY <1>2 DEF TableWorth

-----------------------------------------------------------------------------
(***************************************************************************)
(* The figures of the goods, and how the stock operations change them.     *)
(***************************************************************************)

KeptTable == [s \in SaleLines |-> Kept(s)]

OnHand == Worth(remaining, cost)          \* what the goods in stock cost
KeptCost == TableWorth(KeptTable, cost)   \* those customers have kept
SpoiltCost == TableWorth(scrapped, cost)  \* those they returned spoiled
LostCost == Worth(writtenOff, cost)       \* those written off

\* Batches that do not exist have no invoice.
NoInvoice ==
  \A b \in Batches : b > nBatches => origin[b] = 0 /\ purchaseHeader[b] = 0

StockInv == TradeInv /\ CoverInv /\ NoInvoice

\* The tables of units, as what they are to be multiplied.
UnitsType ==
  /\ remaining \in [Batches -> Int] /\ writtenOff \in [Batches -> Int]
  /\ scrapped \in [SaleLines -> [Batches -> Int]]
  /\ KeptTable \in [SaleLines -> [Batches -> Int]]
  /\ cost \in [Batches -> Int]

LEMMA UnitsAreIntegers == TypeOK /\ TradeTypeOK => UnitsType
<1> SUFFICES ASSUME TypeOK, TradeTypeOK PROVE UnitsType
  OBVIOUS
<1>1. \A s \in SaleLines, b \in Batches :
        /\ allocated[s][b] \in Nat /\ restocked[s][b] \in Nat /\ scrapped[s][b] \in Nat
        /\ allocated[s][b] - restocked[s][b] - scrapped[s][b] \in Int
  BY DEF TypeOK
<1>2. scrapped \in [SaleLines -> [Batches -> Int]]
  <2>1. \A s \in SaleLines : scrapped[s] \in [Batches -> Nat]
    BY DEF TypeOK
  <2>2. \A s \in SaleLines : scrapped[s] \in [Batches -> Int]
    BY <2>1
  <2> QED BY <2>2 DEF TypeOK
<1>3. writtenOff \in [Batches -> Int]
  BY DEF TypeOK
<1>4. KeptTable \in [SaleLines -> [Batches -> Int]]
  BY <1>1 DEF KeptTable, Kept, Returnable
<1> QED BY <1>2, <1>3, <1>4 DEF UnitsType, TypeOK, TradeTypeOK

LEMMA UnitsAreIntegersAfter == TypeOK' /\ TradeTypeOK' => UnitsType'
BY UnitsAreIntegers, PTL

\* The figures are numbers.
LEMMA FiguresInt ==
  ASSUME UnitsType
  PROVE  OnHand \in Int /\ KeptCost \in Int /\ SpoiltCost \in Int /\ LostCost \in Int
BY WorthInt, TableWorthInt DEF UnitsType, OnHand, KeptCost, SpoiltCost, LostCost

\* A batch has no less than nothing left, and one that does not exist has nothing: none
\* in stock, none sold, none lost.
LEMMA NoUnits ==
  ASSUME StockInv
  PROVE  /\ \A b \in Batches : remaining[b] \in Nat
         /\ \A b \in Batches : b > nBatches =>
              /\ remaining[b] = 0 /\ writtenOff[b] = 0
              /\ \A s \in SaleLines : scrapped[s][b] = 0 /\ KeptTable[s][b] = 0
<1>1. /\ TypeOK /\ BlankRows /\ RollupsAgree /\ NoStrandedStock
      /\ SaleCovered /\ SpareRows
  BY DEF StockInv, TradeInv, IInv, CoverInv
<1>2. ASSUME NEW b \in Batches PROVE remaining[b] \in Nat /\ (b > nBatches => remaining[b] = 0)
  <2> DEFINE row == batchStock[b]
  <2>1. row \in [1..NWarehouses -> Nat] /\ row \in [1..NWarehouses -> Int] /\ NWarehouses \in Nat
    <3>1. row \in [1..NWarehouses -> Nat] /\ NWarehouses \in Nat
      BY <1>1, WarehousesAssumption DEF TypeOK, Warehouses
    <3> QED BY <3>1
  <2>2. remaining[b] = SumUpTo(row, NWarehouses)
    BY <1>1 DEF RollupsAgree, BatchRollup
  <2>3. b > nBatches => \A w \in 1..NWarehouses : row[w] = 0
    <3> SUFFICES ASSUME b > nBatches, NEW w \in Warehouses PROVE batchStock[b][w] = 0
      BY DEF Warehouses
    <3>1. batchStock[b][w] \in Nat /\ (batchStock[b][w] > 0 => b <= nBatches)
      BY <1>1 DEF TypeOK, NoStrandedStock, Pickable
    <3>2. b \in Int /\ nBatches \in Int
      BY <1>1 DEF TypeOK, Batches
    <3> QED BY <3>1, <3>2
  <2> HIDE DEF row
  <2>4. SumUpTo(row, NWarehouses) \in Nat
    BY <2>1, SumNat
  <2>5. b > nBatches => SumUpTo(row, NWarehouses) = 0
    BY <2>1, <2>3, SumZero
  <2> QED BY <2>2, <2>4, <2>5
<1>3. ASSUME NEW b \in Batches, b > nBatches, NEW s \in SaleLines
      PROVE  scrapped[s][b] = 0 /\ KeptTable[s][b] = 0
  <2>1. /\ allocated[s][b] = 0 /\ restocked[s][b] \in Nat /\ scrapped[s][b] \in Nat
        /\ allocated[s][b] - restocked[s][b] - scrapped[s][b] >= 0
    BY <1>1, <1>3 DEF BlankRows, TypeOK, SaleCovered, Returnable
  <2>2. restocked[s][b] = 0 /\ scrapped[s][b] = 0
    BY <2>1
  <2> QED BY <2>1, <2>2 DEF KeptTable, Kept, Returnable
<1> QED BY <1>1, <1>2, <1>3 DEF SpareRows

\* A new batch is worth what was paid for it; nothing else changes.
LEMMA ReceiveFigures ==
  ASSUME StockInv, UnitsType, UnitsType', NEW w \in Warehouses, NEW q \in Int, NEW e, NEW from,
         NEW c \in Int, ReceiveStock(w, q, e, from), cost' = [cost EXCEPT ![nBatches + 1] = c],
         UNCHANGED <<allocated, restocked, scrapped, writtenOff>>
  PROVE  /\ OnHand' = OnHand + q * c
         /\ KeptCost' = KeptCost /\ SpoiltCost' = SpoiltCost /\ LostCost' = LostCost
<1>. PICK new \in Batches : new = nBatches + 1
  BY DEF ReceiveStock, StockInv, TradeInv, IInv, TypeOK, Batches
<1> DEFINE d == [b \in Batches |-> IF b = new THEN q ELSE 0]
           z == [b \in Batches |-> 0]
<1>1. /\ remaining \in [Batches -> Int] /\ writtenOff \in [Batches -> Int]
      /\ scrapped \in [SaleLines -> [Batches -> Int]]
      /\ KeptTable \in [SaleLines -> [Batches -> Int]]
      /\ cost \in [Batches -> Int] /\ cost' \in [Batches -> Int]
      /\ remaining' \in [Batches -> Int]
  BY DEF UnitsType
<1>2. new > nBatches
  BY DEF StockInv, TradeInv, IInv, TypeOK
<1>3. cost'[new] = c /\ \A b \in Batches : b # new => cost'[b] = cost[b]
  BY <1>1, <1>2
<1>4. ApplyMovement(w, d)
  BY DEF ReceiveStock
<1>5. \A b \in Batches : remaining'[b] = remaining[b] + d[b]
  BY <1>4 DEF ApplyMovement
<1>6. /\ remaining[new] = 0 /\ writtenOff[new] = 0
      /\ \A s \in SaleLines : scrapped[s][new] = 0 /\ KeptTable[s][new] = 0
  BY <1>2, NoUnits
<1>7. d \in [Batches -> Int] /\ z \in [Batches -> Int]
  OBVIOUS
<1>8. Change(remaining, remaining', d, cost, cost')
  BY <1>1, <1>3, <1>5, <1>6, <1>7 DEF Change
<1>9. Change(writtenOff, writtenOff, z, cost, cost')
  BY <1>1, <1>3, <1>6, <1>7 DEF Change
<1>10. Worth(d, cost') = q * c
  <2>1. d \in [Batches -> Int] /\ \A b \in Batches : d[b] = IF b = new THEN q ELSE 0
    OBVIOUS
  <2>2. cost' \in [Batches -> Int]
    BY <1>1
  <2> HIDE DEF d
  <2>3. Worth(d, cost') = q * cost'[new]
    BY <2>1, <2>2, WorthPoint
  <2> QED BY <1>3, <2>3
<1>11. Worth(z, cost') = 0
  <2>1. \A b \in Batches : z[b] = 0
    OBVIOUS
  <2> HIDE DEF z
  <2> QED BY <1>1, <1>7, <2>1, WorthZero
<1> HIDE DEF d, z
<1>12. Worth(remaining', cost') = Worth(remaining, cost) + q * c
  BY <1>8, <1>10, WorthStep
<1>13. Worth(writtenOff, cost') = Worth(writtenOff, cost)
  <2>1. Worth(writtenOff, cost') = Worth(writtenOff, cost) + Worth(z, cost')
    BY <1>9, WorthStep
  <2>2. Worth(writtenOff, cost) \in Int
    BY <1>1, WorthInt
  <2> QED BY <1>11, <2>1, <2>2
<1>14. TableWorth(scrapped, cost') = TableWorth(scrapped, cost)
  <2>1. \A t \in SaleLines, b \in Batches : scrapped[t][b] = 0 \/ cost'[b] = cost[b]
    BY <1>3, <1>6
  <2> QED BY <1>1, <2>1, TableWorthSame
<1>15. TableWorth(KeptTable, cost') = TableWorth(KeptTable, cost)
  <2>1. \A t \in SaleLines, b \in Batches : KeptTable[t][b] = 0 \/ cost'[b] = cost[b]
    BY <1>3, <1>6
  <2> QED BY <1>1, <2>1, TableWorthSame
<1>16. KeptTable' = KeptTable
  BY DEF KeptTable, Kept, Returnable
<1> QED BY <1>12, <1>13, <1>14, <1>15, <1>16 DEF OnHand, KeptCost, SpoiltCost, LostCost

\* Units that go from one place to another: the change of one column of units.
LEMMA UnitsGone ==
  ASSUME NEW u \in [Batches -> Int], NEW v \in [Batches -> Int], NEW d \in [Batches -> Int],
         NEW c \in [Batches -> Int], \A b \in Batches : v[b] = u[b] - d[b]
  PROVE  Worth(v, c) = Worth(u, c) - Worth(d, c)
<1> DEFINE m == [b \in Batches |-> -d[b]]
<1>1. Change(u, v, m, c, c)
  BY DEF Change
<1>2. Worth(m, c) = -Worth(d, c)
  BY WorthMinus
<1> HIDE DEF m
<1>3. Worth(v, c) = Worth(u, c) + Worth(m, c)
  BY <1>1, WorthStep
<1>4. Worth(u, c) \in Int /\ Worth(d, c) \in Int
  BY WorthInt
<1> QED BY <1>2, <1>3, <1>4

LEMMA UnitsCome ==
  ASSUME NEW u \in [Batches -> Int], NEW v \in [Batches -> Int], NEW d \in [Batches -> Int],
         NEW c \in [Batches -> Int], \A b \in Batches : v[b] = u[b] + d[b]
  PROVE  Worth(v, c) = Worth(u, c) + Worth(d, c)
<1>1. Change(u, v, d, c, c)
  BY DEF Change
<1> QED BY <1>1, WorthStep

\* The units a movement takes out of the stock, or puts into it.
LEMMA MovedWorth ==
  ASSUME UnitsType, UnitsType', UNCHANGED cost, NEW w, NEW d \in [Batches -> Int],
         ApplyMovement(w, d)
  PROVE  OnHand' = OnHand + Worth(d, cost)
<1>1. \A b \in Batches : remaining'[b] = remaining[b] + d[b]
  BY DEF ApplyMovement
<1>2. /\ remaining \in [Batches -> Int] /\ remaining' \in [Batches -> Int]
      /\ cost \in [Batches -> Int]
  BY DEF UnitsType
<1>3. Worth(remaining', cost) = Worth(remaining, cost) + Worth(d, cost)
  BY <1>1, <1>2, UnitsCome
<1> QED BY <1>3 DEF OnHand

\* What is sold leaves the stock and is with the customer, at the same cost.
LEMMA SellFigures ==
  ASSUME StockInv, UnitsType, UnitsType', UNCHANGED cost,
         NEW w \in Warehouses, NEW q \in Int, Sell(w, q)
  PROVE  /\ OnHand' = OnHand - Value(Allocation(w, q))
         /\ KeptCost' = KeptCost + Value(Allocation(w, q))
         /\ SpoiltCost' = SpoiltCost /\ LostCost' = LostCost
<1> DEFINE take == Allocation(w, q)
           out == [b \in Batches |-> -take[b]]
<1>1. TypeOK /\ BlankRows
  BY DEF StockInv, TradeInv, IInv
<1>. PICK new \in SaleLines : new = nSales + 1
  BY <1>1 DEF Sell, TypeOK, SaleLines
<1>2. take \in [Batches -> Int] /\ out \in [Batches -> Int]
  <2>1. take \in [Batches -> Nat]
    BY <1>1, AllocationType
  <2> HIDE DEF take
  <2> QED BY <2>1
<1>3. /\ allocated' = [allocated EXCEPT ![new] = take]
      /\ UNCHANGED <<restocked, scrapped, writtenOff>>
  BY DEF Sell, returnVars
<1>4. ApplyMovement(w, out)
  BY DEF Sell, ConsumeAllocations
<1>5. KeptTable[new] = [b \in Batches |-> 0] /\ KeptTable' = [KeptTable EXCEPT ![new] = take]
  <2>1. \A b \in Batches : allocated[new][b] = 0 /\ restocked[new][b] = 0 /\ scrapped[new][b] = 0
    <3>1. new > nSales
      BY <1>1 DEF TypeOK
    <3> QED BY <1>1, <1>3, <3>1 DEF BlankRows
  <2>2. allocated'[new] = take /\ \A s \in SaleLines : s # new => allocated'[s] = allocated[s]
    BY <1>1, <1>3 DEF TypeOK
  <2>3. KeptTable[new] = [b \in Batches |-> 0]
    <3>1. KeptTable[new] = Kept(new)
      BY <1>3 DEF KeptTable
    <3>2. Kept(new) = [b \in Batches |-> 0]
      BY <2>1 DEF Kept, Returnable
    <3> QED BY <3>1, <3>2
  <2>4. Kept(new)' = take
    <3> HIDE DEF take
    <3>1. \A b \in Batches : allocated'[new][b] - restocked'[new][b] - scrapped'[new][b] = take[b]
      BY <1>2, <1>3, <2>1, <2>2
    <3>2. take = [b \in Batches |-> take[b]]
      BY <1>2
    <3>3. Kept(new)' = [b \in Batches |-> allocated'[new][b] - restocked'[new][b] - scrapped'[new][b]]
      BY DEF Kept, Returnable
    <3> QED BY <3>1, <3>2, <3>3
  <2>5. \A s \in SaleLines : s # new => Kept(s)' = Kept(s)
    BY <1>3, <2>2 DEF Kept, Returnable
  <2> QED BY <1>3, <2>3, <2>4, <2>5 DEF KeptTable
<1> HIDE DEF take
<1>6. TableChange(KeptTable, KeptTable', new, take, cost, cost)
  BY <1>2, <1>3, <1>5 DEF UnitsType, TableChange
<1>7. TableWorth(KeptTable', cost) = TableWorth(KeptTable, cost) + Worth(take, cost)
  BY <1>3, <1>6, TableWorthStep
<1>8. Worth(out, cost) = -Worth(take, cost) /\ Worth(take, cost) \in Int
  BY <1>2, WorthMinus, WorthInt DEF UnitsType
<1> HIDE DEF out
<1>9. OnHand' = OnHand + Worth(out, cost) /\ OnHand \in Int
  BY <1>2, <1>4, MovedWorth, FiguresInt
<1>10. Value(take) = Worth(take, cost)
  BY DEF Value, Worth
<1>11. OnHand' = OnHand - Value(take)
  BY <1>8, <1>9, <1>10
<1>12. KeptCost' = KeptCost + Value(take)
  BY <1>7, <1>10 DEF KeptCost
<1> QED BY <1>3, <1>11, <1>12 DEF SpoiltCost, LostCost, take

\* What is written off leaves the stock.
LEMMA LostFigures ==
  ASSUME StockInv, UnitsType, UnitsType', UNCHANGED cost,
         NEW w \in Warehouses, NEW q \in Int, AdjustDown(w, q)
  PROVE  /\ OnHand' = OnHand - Value(Allocation(w, q))
         /\ LostCost' = LostCost + Value(Allocation(w, q))
         /\ SpoiltCost' = SpoiltCost /\ KeptCost' = KeptCost
<1> DEFINE take == Allocation(w, q)
           out == [b \in Batches |-> -take[b]]
<1>1. TypeOK
  BY DEF StockInv, TradeInv, IInv
<1>2. take \in [Batches -> Int] /\ out \in [Batches -> Int]
  <2>1. take \in [Batches -> Nat]
    BY <1>1, AllocationType
  <2> HIDE DEF take
  <2> QED BY <2>1
<1>3. /\ \A b \in Batches : writtenOff'[b] = writtenOff[b] + take[b]
      /\ UNCHANGED <<allocated, restocked, scrapped>>
  BY DEF AdjustDown, returnVars, saleVars
<1>4. ApplyMovement(w, out)
  BY DEF AdjustDown, ConsumeAllocations
<1> HIDE DEF take
<1>5. Worth(writtenOff', cost) = Worth(writtenOff, cost) + Worth(take, cost)
  BY <1>2, <1>3, UnitsCome DEF UnitsType
<1>6. Worth(out, cost) = -Worth(take, cost) /\ Worth(take, cost) \in Int
  BY <1>2, WorthMinus, WorthInt DEF UnitsType
<1> HIDE DEF out
<1>7. OnHand' = OnHand + Worth(out, cost) /\ OnHand \in Int
  BY <1>2, <1>4, MovedWorth, FiguresInt
<1>8. Value(take) = Worth(take, cost)
  BY DEF Value, Worth
<1>9. OnHand' = OnHand - Value(take)
  BY <1>6, <1>7, <1>8
<1>10. LostCost' = LostCost + Value(take)
  BY <1>5, <1>8 DEF LostCost
<1>11. KeptTable' = KeptTable
  BY <1>3 DEF KeptTable, Kept, Returnable
<1> QED BY <1>3, <1>9, <1>10, <1>11 DEF SpoiltCost, KeptCost, take

\* What comes back of a line is taken from what its customer has kept.
LEMMA BroughtBack ==
  ASSUME UnitsType, UnitsType', UNCHANGED <<cost, allocated>>, NEW s \in SaleLines,
         NEW d \in [Batches -> Int],
         \A t \in SaleLines, b \in Batches :
           restocked'[t][b] + scrapped'[t][b] =
             restocked[t][b] + scrapped[t][b] + (IF t = s THEN d[b] ELSE 0),
         TypeOK, TypeOK'
  PROVE  KeptCost' = KeptCost - Worth(d, cost)
<1> DEFINE m == [b \in Batches |-> -d[b]]
<1>1. \A t \in SaleLines, b \in Batches :
        /\ allocated[t][b] \in Int /\ restocked[t][b] \in Int /\ scrapped[t][b] \in Int
        /\ restocked'[t][b] \in Int /\ scrapped'[t][b] \in Int
  BY DEF TypeOK
<1>2. \A t \in SaleLines, b \in Batches :
        KeptTable'[t][b] = KeptTable[t][b] - (IF t = s THEN d[b] ELSE 0)
  <2> SUFFICES ASSUME NEW t \in SaleLines, NEW b \in Batches
               PROVE  allocated'[t][b] - restocked'[t][b] - scrapped'[t][b] =
                        allocated[t][b] - restocked[t][b] - scrapped[t][b]
                          - (IF t = s THEN d[b] ELSE 0)
    BY DEF KeptTable, Kept, Returnable
  <2> DEFINE x == IF t = s THEN d[b] ELSE 0
  <2>1. x \in Int /\ allocated'[t][b] = allocated[t][b]
    OBVIOUS
  <2>2. restocked'[t][b] + scrapped'[t][b] = restocked[t][b] + scrapped[t][b] + x
    OBVIOUS
  <2> HIDE DEF x
  <2>3. allocated'[t][b] - restocked'[t][b] - scrapped'[t][b] =
          allocated[t][b] - restocked[t][b] - scrapped[t][b] - x
    BY <1>1, <2>1, <2>2
  <2> QED BY <2>3 DEF x
<1>3. /\ KeptTable \in [SaleLines -> [Batches -> Int]]
      /\ KeptTable' \in [SaleLines -> [Batches -> Int]]
      /\ cost \in [Batches -> Int]
  BY DEF UnitsType
<1>4. \A t \in SaleLines : t # s => KeptTable'[t] = KeptTable[t]
  <2> TAKE t \in SaleLines
  <2> HAVE t # s
  <2>1. KeptTable[t] \in [Batches -> Int] /\ KeptTable'[t] \in [Batches -> Int]
    BY <1>3
  <2>2. \A b \in Batches : KeptTable[t][b] \in Int
    BY <2>1
  <2>3. \A b \in Batches : KeptTable'[t][b] = KeptTable[t][b]
    BY <1>2, <2>2
  <2> QED BY <2>1, <2>3
<1>5. m \in [Batches -> Int] /\ \A b \in Batches : KeptTable'[s][b] = KeptTable[s][b] + m[b]
  <2>1. \A b \in Batches : KeptTable[s][b] \in Int /\ d[b] \in Int
    BY <1>3
  <2> QED BY <1>2, <2>1
<1>6. TableChange(KeptTable, KeptTable', s, m, cost, cost)
  <2> HIDE DEF m
  <2> QED BY <1>3, <1>4, <1>5 DEF TableChange
<1>7. Worth(m, cost) = -Worth(d, cost) /\ Worth(d, cost) \in Int
  BY <1>3, WorthMinus, WorthInt
<1> HIDE DEF m
<1>8. TableWorth(KeptTable', cost) = TableWorth(KeptTable, cost) + Worth(m, cost)
  BY <1>6, TableWorthStep
<1>9. TableWorth(KeptTable, cost) \in Int
  BY <1>3, TableWorthInt
<1> QED BY <1>7, <1>8, <1>9 DEF KeptCost

\* The units returned in a step, and what a line has returned by then.
LEMMA ReturnedStep ==
  ASSUME TypeOK, TypeOK', NEW s \in SaleLines, NEW q \in Int, NEW take \in Spreads(s, q),
         \A t \in SaleLines, b \in Batches :
           restocked'[t][b] + scrapped'[t][b] =
             restocked[t][b] + scrapped[t][b] + (IF t = s THEN take[b] ELSE 0)
  PROVE  \A t \in SaleLines : /\ ReturnedOf(t) \in Int
                              /\ ReturnedOf(t)' = ReturnedOf(t) + (IF t = s THEN q ELSE 0)
<1>1. take \in [Batches -> Int] /\ SumUpTo(take, MaxBatches) = q
  BY DEF Spreads
<1> SUFFICES ASSUME NEW t \in SaleLines
             PROVE  /\ ReturnedOf(t) \in Int
                    /\ ReturnedOf(t)' = ReturnedOf(t) + (IF t = s THEN q ELSE 0)
  OBVIOUS
<1> DEFINE f == [b \in Batches |-> restocked[t][b] + scrapped[t][b]]
           g == [b \in Batches |-> restocked'[t][b] + scrapped'[t][b]]
<1>2. /\ \A b \in Batches : /\ restocked[t][b] \in Int /\ scrapped[t][b] \in Int
                            /\ restocked'[t][b] \in Int /\ scrapped'[t][b] \in Int
      /\ f \in [1..MaxBatches -> Int] /\ g \in [1..MaxBatches -> Int]
      /\ take \in [1..MaxBatches -> Int]
  <2>1. \A b \in Batches : /\ restocked[t][b] \in Int /\ scrapped[t][b] \in Int
                           /\ restocked'[t][b] \in Int /\ scrapped'[t][b] \in Int
    BY DEF TypeOK
  <2>2. f \in [1..MaxBatches -> Int]
    BY <2>1 DEF Batches
  <2>3. g \in [1..MaxBatches -> Int]
    BY <2>1 DEF Batches
  <2>4. take \in [1..MaxBatches -> Int]
    BY <1>1 DEF Batches
  <2> HIDE DEF f, g
  <2> QED BY <2>1, <2>2, <2>3, <2>4
<1>3. SumUpTo(f, MaxBatches) \in Int
  <2> HIDE DEF f
  <2> QED BY <1>2, SumInt
<1>4. ReturnedOf(t) = SumUpTo(f, MaxBatches) /\ ReturnedOf(t)' = SumUpTo(g, MaxBatches)
  BY DEF ReturnedOf
<1>5. CASE t = s
  <2>1. \A b \in 1..MaxBatches : g[b] = f[b] + take[b]
    BY <1>5 DEF Batches
  <2>2. SumUpTo(g, MaxBatches) = SumUpTo(f, MaxBatches) + SumUpTo(take, MaxBatches)
    <3> HIDE DEF f, g
    <3> QED BY <1>2, <2>1, SumAdd
  <2> QED BY <1>1, <1>3, <1>4, <1>5, <2>2
<1>6. CASE t # s
  <2>1. \A b \in 1..MaxBatches : g[b] = f[b]
    BY <1>2, <1>6 DEF Batches
  <2>2. g = f
    <3> HIDE DEF f, g
    <3> QED BY <1>2, <2>1
  <2> HIDE DEF f, g
  <2> QED BY <1>1, <1>3, <1>4, <1>6, <2>2
<1> QED BY <1>5, <1>6

LEMMA RestockFigures ==
  ASSUME StockInv, UnitsType, UnitsType', TypeOK', UNCHANGED cost,
         NEW s \in SaleLines, NEW q \in Int, ReturnGood(s, q),
         NEW back, back = [b \in Batches |-> restocked'[s][b] - restocked[s][b]]
  PROVE  /\ back \in [Batches -> Int]
         /\ OnHand' = OnHand + Value(back) /\ KeptCost' = KeptCost - Value(back)
         /\ SpoiltCost' = SpoiltCost /\ LostCost' = LostCost
         /\ \A t \in SaleLines : /\ ReturnedOf(t) \in Int
                                 /\ ReturnedOf(t)' = ReturnedOf(t) + (IF t = s THEN q ELSE 0)
<1>1. TypeOK
  BY DEF StockInv, TradeInv, IInv
<1>2. PICK take \in Spreads(s, q) :
        /\ ApplyMovement(saleWarehouse[s], take)
        /\ restocked' = [restocked EXCEPT ![s] = [b \in Batches |-> @[b] + take[b]]]
  BY DEF ReturnGood, RecordRestock
<1>3. take \in [Batches -> Int] /\ UNCHANGED <<allocated, scrapped, writtenOff>>
  BY DEF ReturnGood, Spreads, saleVars
<1>4. \A t \in SaleLines, b \in Batches :
        /\ restocked[t][b] \in Int /\ scrapped[t][b] \in Int
        /\ restocked'[t][b] = restocked[t][b] + (IF t = s THEN take[b] ELSE 0)
  <2> TAKE t \in SaleLines, b \in Batches
  <2>1. restocked \in [SaleLines -> [Batches -> Nat]] /\ scrapped[t][b] \in Nat
    BY <1>1 DEF TypeOK
  <2>2. restocked[t][b] \in Int
    BY <2>1
  <2>3. CASE t = s
    BY <1>2, <2>1, <2>2, <2>3
  <2>4. CASE t # s
    BY <1>2, <2>1, <2>2, <2>4
  <2> QED BY <2>1, <2>2, <2>3, <2>4
<1>5. back = take
  <2>1. \A b \in Batches : restocked'[s][b] - restocked[s][b] = take[b]
    BY <1>3, <1>4
  <2>2. take = [b \in Batches |-> take[b]]
    BY <1>3
  <2> QED BY <2>1, <2>2
<1>6. \A t \in SaleLines, b \in Batches :
        restocked'[t][b] + scrapped'[t][b] =
          restocked[t][b] + scrapped[t][b] + (IF t = s THEN take[b] ELSE 0)
  BY <1>3, <1>4
<1>7. KeptCost' = KeptCost - Worth(take, cost)
  BY <1>1, <1>3, <1>6, BroughtBack
<1>8. OnHand' = OnHand + Worth(take, cost)
  BY <1>2, <1>3, MovedWorth
<1>9. \A t \in SaleLines : /\ ReturnedOf(t) \in Int
                           /\ ReturnedOf(t)' = ReturnedOf(t) + (IF t = s THEN q ELSE 0)
  BY <1>1, <1>6, ReturnedStep
<1>10. Value(take) = Worth(take, cost)
  BY DEF Value, Worth
<1> QED BY <1>3, <1>5, <1>7, <1>8, <1>9, <1>10 DEF SpoiltCost, LostCost

LEMMA SpoiltFigures ==
  ASSUME StockInv, UnitsType, UnitsType', TypeOK', UNCHANGED cost,
         NEW s \in SaleLines, NEW q \in Int, ReturnDamaged(s, q),
         NEW back, back = [b \in Batches |-> scrapped'[s][b] - scrapped[s][b]]
  PROVE  /\ back \in [Batches -> Int]
         /\ SpoiltCost' = SpoiltCost + Value(back) /\ KeptCost' = KeptCost - Value(back)
         /\ OnHand' = OnHand /\ LostCost' = LostCost
         /\ \A t \in SaleLines : /\ ReturnedOf(t) \in Int
                                 /\ ReturnedOf(t)' = ReturnedOf(t) + (IF t = s THEN q ELSE 0)
<1>1. TypeOK
  BY DEF StockInv, TradeInv, IInv
<1>2. PICK take \in Spreads(s, q) :
        scrapped' = [scrapped EXCEPT ![s] = [b \in Batches |-> @[b] + take[b]]]
  BY DEF ReturnDamaged
<1>3. take \in [Batches -> Int] /\ UNCHANGED <<allocated, restocked, writtenOff, remaining>>
  BY DEF ReturnDamaged, Spreads, saleVars, stockVars
<1>4. \A t \in SaleLines, b \in Batches :
        /\ restocked[t][b] \in Int /\ scrapped[t][b] \in Int
        /\ scrapped'[t][b] = scrapped[t][b] + (IF t = s THEN take[b] ELSE 0)
  <2> TAKE t \in SaleLines, b \in Batches
  <2>1. scrapped \in [SaleLines -> [Batches -> Nat]] /\ restocked[t][b] \in Nat
    BY <1>1 DEF TypeOK
  <2>2. scrapped[t][b] \in Int
    BY <2>1
  <2>3. CASE t = s
    BY <1>2, <2>1, <2>2, <2>3
  <2>4. CASE t # s
    BY <1>2, <2>1, <2>2, <2>4
  <2> QED BY <2>1, <2>2, <2>3, <2>4
<1>5. back = take
  <2>1. \A b \in Batches : scrapped'[s][b] - scrapped[s][b] = take[b]
    BY <1>3, <1>4
  <2>2. take = [b \in Batches |-> take[b]]
    BY <1>3
  <2> QED BY <2>1, <2>2
<1>6. \A t \in SaleLines, b \in Batches :
        restocked'[t][b] + scrapped'[t][b] =
          restocked[t][b] + scrapped[t][b] + (IF t = s THEN take[b] ELSE 0)
  BY <1>3, <1>4
<1>7. KeptCost' = KeptCost - Worth(take, cost)
  BY <1>1, <1>3, <1>6, BroughtBack
<1>8. TableWorth(scrapped', cost) = TableWorth(scrapped, cost) + Worth(take, cost)
  <2>1. /\ scrapped \in [SaleLines -> [Batches -> Int]]
        /\ scrapped' \in [SaleLines -> [Batches -> Int]] /\ cost \in [Batches -> Int]
    BY DEF UnitsType
  <2>2. \A t \in SaleLines : t # s => scrapped'[t] = scrapped[t]
    BY <1>2, <2>1
  <2>3. TableChange(scrapped, scrapped', s, take, cost, cost)
    BY <1>3, <1>4, <2>1, <2>2 DEF TableChange
  <2> QED BY <2>3, TableWorthStep
<1>9. \A t \in SaleLines : /\ ReturnedOf(t) \in Int
                           /\ ReturnedOf(t)' = ReturnedOf(t) + (IF t = s THEN q ELSE 0)
  BY <1>1, <1>6, ReturnedStep
<1>10. Value(take) = Worth(take, cost)
  BY DEF Value, Worth
<1> QED BY <1>3, <1>5, <1>7, <1>8, <1>9, <1>10 DEF SpoiltCost, OnHand, LostCost

\* Goods sent back leave the stock at what was paid for them.
LEMMA SentBackFigures ==
  ASSUME StockInv, UnitsType, UnitsType', UNCHANGED cost,
         NEW b \in Batches, NEW q \in Int, ReturnToSupplier(b, q)
  PROVE  /\ OnHand' = OnHand - q * cost[b]
         /\ KeptCost' = KeptCost /\ SpoiltCost' = SpoiltCost /\ LostCost' = LostCost
<1> DEFINE d == [c \in Batches |-> IF c = b THEN -q ELSE 0]
<1>1. /\ ApplyMovement(origin[b], d)
      /\ UNCHANGED <<allocated, restocked, scrapped, writtenOff>>
  BY DEF ReturnToSupplier, saleVars, returnVars
<1>2. d \in [Batches -> Int] /\ \A c \in Batches : d[c] = IF c = b THEN -q ELSE 0
  OBVIOUS
<1>3. cost \in [Batches -> Int] /\ -q \in Int /\ cost[b] \in Int
  BY DEF UnitsType
<1> HIDE DEF d
<1>4. Worth(d, cost) = (-q) * cost[b]
  BY <1>2, <1>3, WorthPoint
<1>5. (-q) * cost[b] = -(q * cost[b]) /\ q * cost[b] \in Int
  BY <1>3, TimesRules
<1>6. OnHand' = OnHand + Worth(d, cost) /\ OnHand \in Int
  BY <1>1, <1>2, MovedWorth, FiguresInt
<1>7. OnHand' = OnHand - q * cost[b]
  BY <1>4, <1>5, <1>6
<1>8. KeptTable' = KeptTable
  BY <1>1 DEF KeptTable, Kept, Returnable
<1> QED BY <1>1, <1>7, <1>8 DEF KeptCost, SpoiltCost, LostCost

LEMMA SameFigures ==
  ASSUME UNCHANGED <<cost, remaining, allocated, restocked, scrapped, writtenOff>>
  PROVE  /\ OnHand' = OnHand /\ KeptCost' = KeptCost
         /\ SpoiltCost' = SpoiltCost /\ LostCost' = LostCost
<1>1. KeptTable' = KeptTable
  BY DEF KeptTable, Kept, Returnable
<1> QED BY <1>1 DEF OnHand, KeptCost, SpoiltCost, LostCost

-----------------------------------------------------------------------------
(***************************************************************************)
(* The figures of the documents.                                           *)
(***************************************************************************)

DebtColumn == [s \in SaleLines |-> SaleDebt(s)]
CashColumn == [s \in SaleLines |-> IF s <= nSales THEN SaleCash(s) ELSE 0]
SoldColumn == [s \in SaleLines |-> IF s <= nSales THEN SaleTotal(s) ELSE 0]
RefundColumn == [s \in SaleLines |-> IF s <= nSales THEN Refunded(s) ELSE 0]
OwingColumn == [b \in Batches |-> PurchaseDebt(b)]

Owed == SumUpTo(DebtColumn, MaxSales)
CashOfSales == SumUpTo(CashColumn, MaxSales)
Sold == SumUpTo(SoldColumn, MaxSales)
RefundsMade == SumUpTo(RefundColumn, MaxSales)
Owing == SumUpTo(OwingColumn, MaxBatches)
HeadersPaid == SumUpTo(purchaseHeader, MaxBatches)
Settled == SumUpTo(settled, MaxBatches)

\* What a line has brought back is a number.
LEMMA ReturnedInt ==
  ASSUME TypeOK, NEW s \in SaleLines PROVE ReturnedOf(s) \in Int
<1> DEFINE f == [b \in Batches |-> restocked[s][b] + scrapped[s][b]]
<1>1. f \in [1..MaxBatches -> Int]
  <2>1. \A b \in Batches : restocked[s][b] \in Nat /\ scrapped[s][b] \in Nat
    BY DEF TypeOK
  <2> QED BY <2>1 DEF Batches
<1>2. SumUpTo(f, MaxBatches) \in Int
  <2> HIDE DEF f
  <2> QED BY <1>1, SumInt
<1> QED BY <1>2 DEF ReturnedOf

ColumnsType ==
  /\ DebtColumn \in [1..MaxSales -> Int] /\ CashColumn \in [1..MaxSales -> Int]
  /\ SoldColumn \in [1..MaxSales -> Int] /\ RefundColumn \in [1..MaxSales -> Int]
  /\ OwingColumn \in [1..MaxBatches -> Int]
  /\ purchaseHeader \in [1..MaxBatches -> Int] /\ settled \in [1..MaxBatches -> Int]

\* The columns are columns of numbers.
LEMMA ColumnsInt == TypeOK /\ TradeTypeOK => ColumnsType
<1> SUFFICES ASSUME TypeOK, TradeTypeOK PROVE ColumnsType
  OBVIOUS
<1>1. ASSUME NEW s \in SaleLines
      PROVE  /\ SaleTotal(s) \in Int /\ Refunded(s) \in Int
             /\ SaleDebt(s) \in Int /\ SaleCash(s) \in Int
  <2>1. /\ saleQuantity[s] \in Int /\ price[s] \in Int /\ saleHeader[s] \in Int
        /\ collected[s] \in Int /\ ReturnedOf(s) \in Int
    BY ReturnedInt DEF TypeOK, TradeTypeOK
  <2>2. saleQuantity[s] * price[s] \in Int /\ ReturnedOf(s) * price[s] \in Int
    BY <2>1, TimesRules
  <2>3. SaleTotal(s) \in Int /\ Refunded(s) \in Int
    BY <2>1, <2>2 DEF SaleTotal, Refunded
  <2> QED BY <2>1, <2>2, <2>3 DEF SaleDebt, SaleCash
<1>2. ASSUME NEW b \in Batches PROVE PurchaseDebt(b) \in Int
  <2>1. /\ initial[b] \in Int /\ cost[b] \in Int /\ purchaseHeader[b] \in Int
        /\ sentBack[b] \in Int /\ settled[b] \in Int
    BY DEF TypeOK, TradeTypeOK
  <2>2. initial[b] * cost[b] \in Int /\ sentBack[b] * cost[b] \in Int
    BY <2>1, TimesRules
  <2> QED BY <2>1, <2>2 DEF PurchaseDebt, PurchaseTotal
<1>3. /\ DebtColumn \in [1..MaxSales -> Int] /\ CashColumn \in [1..MaxSales -> Int]
      /\ SoldColumn \in [1..MaxSales -> Int] /\ RefundColumn \in [1..MaxSales -> Int]
  BY <1>1 DEF DebtColumn, CashColumn, SoldColumn, RefundColumn, SaleLines
<1>4. OwingColumn \in [1..MaxBatches -> Int]
  BY <1>2 DEF OwingColumn, Batches
<1>5. purchaseHeader \in [1..MaxBatches -> Int] /\ settled \in [1..MaxBatches -> Int]
  BY DEF TradeTypeOK, Batches
<1> QED BY <1>3, <1>4, <1>5 DEF ColumnsType

LEMMA ColumnsIntAfter == TypeOK' /\ TradeTypeOK' => ColumnsType'
BY ColumnsInt, PTL

LEMMA DocumentsInt ==
  ASSUME TypeOK, TradeTypeOK
  PROVE  /\ Owed \in Int /\ CashOfSales \in Int /\ Sold \in Int /\ RefundsMade \in Int
         /\ Owing \in Int /\ HeadersPaid \in Int /\ Settled \in Int
BY ColumnsInt, SumInt DEF ColumnsType, Owed, CashOfSales, Sold, RefundsMade, Owing, HeadersPaid, Settled

\* Nothing of sale line s is touched.
SameSale(s) ==
  /\ saleQuantity'[s] = saleQuantity[s] /\ price'[s] = price[s]
  /\ saleHeader'[s] = saleHeader[s] /\ collected'[s] = collected[s]
  /\ ReturnedOf(s)' = ReturnedOf(s)
  /\ s \in onCredit' <=> s \in onCredit
  /\ s <= nSales' <=> s <= nSales

LEMMA SameSaleColumns ==
  ASSUME NEW s \in SaleLines, SameSale(s)
  PROVE  /\ DebtColumn'[s] = DebtColumn[s] /\ CashColumn'[s] = CashColumn[s]
         /\ SoldColumn'[s] = SoldColumn[s] /\ RefundColumn'[s] = RefundColumn[s]
<1>1. SaleTotal(s)' = SaleTotal(s) /\ Refunded(s)' = Refunded(s)
  BY DEF SameSale, SaleTotal, Refunded
<1>2. SaleDebt(s)' = SaleDebt(s) /\ SaleCash(s)' = SaleCash(s)
  BY <1>1 DEF SameSale, SaleDebt, SaleCash
<1> QED BY <1>1, <1>2 DEF DebtColumn, CashColumn, SoldColumn, RefundColumn, SameSale

\* One sale line changes.
LEMMA SaleStep ==
  ASSUME TypeOK, TradeTypeOK, TypeOK', TradeTypeOK', NEW k \in SaleLines,
         \A s \in SaleLines : s # k => SameSale(s),
         NEW debt \in Int, NEW cash \in Int, NEW sold \in Int, NEW refund \in Int,
         DebtColumn'[k] = DebtColumn[k] + debt, CashColumn'[k] = CashColumn[k] + cash,
         SoldColumn'[k] = SoldColumn[k] + sold, RefundColumn'[k] = RefundColumn[k] + refund
  PROVE  /\ Owed' = Owed + debt /\ CashOfSales' = CashOfSales + cash
         /\ Sold' = Sold + sold /\ RefundsMade' = RefundsMade + refund
<1>1. /\ DebtColumn \in [1..MaxSales -> Int] /\ CashColumn \in [1..MaxSales -> Int]
      /\ SoldColumn \in [1..MaxSales -> Int] /\ RefundColumn \in [1..MaxSales -> Int]
      /\ DebtColumn' \in [1..MaxSales -> Int] /\ CashColumn' \in [1..MaxSales -> Int]
      /\ SoldColumn' \in [1..MaxSales -> Int] /\ RefundColumn' \in [1..MaxSales -> Int]
  BY ColumnsInt, ColumnsIntAfter DEF ColumnsType
<1>2. k \in 1..MaxSales
  BY DEF SaleLines
<1>3. \A s \in 1..MaxSales : s # k =>
         /\ DebtColumn'[s] = DebtColumn[s] /\ CashColumn'[s] = CashColumn[s]
         /\ SoldColumn'[s] = SoldColumn[s] /\ RefundColumn'[s] = RefundColumn[s]
  BY SameSaleColumns DEF SaleLines
<1>4. SumUpTo(DebtColumn', MaxSales) = SumUpTo(DebtColumn, MaxSales) + debt
  <2>1. /\ DebtColumn \in [1..MaxSales -> Int] /\ DebtColumn' \in [1..MaxSales -> Int]
        /\ \A s \in 1..MaxSales : s # k => DebtColumn'[s] = DebtColumn[s]
    BY <1>1, <1>3
  <2> QED BY <1>2, <2>1, SumOneRow
<1>5. SumUpTo(CashColumn', MaxSales) = SumUpTo(CashColumn, MaxSales) + cash
  <2>1. /\ CashColumn \in [1..MaxSales -> Int] /\ CashColumn' \in [1..MaxSales -> Int]
        /\ \A s \in 1..MaxSales : s # k => CashColumn'[s] = CashColumn[s]
    BY <1>1, <1>3
  <2> QED BY <1>2, <2>1, SumOneRow
<1>6. SumUpTo(SoldColumn', MaxSales) = SumUpTo(SoldColumn, MaxSales) + sold
  <2>1. /\ SoldColumn \in [1..MaxSales -> Int] /\ SoldColumn' \in [1..MaxSales -> Int]
        /\ \A s \in 1..MaxSales : s # k => SoldColumn'[s] = SoldColumn[s]
    BY <1>1, <1>3
  <2> QED BY <1>2, <2>1, SumOneRow
<1>7. SumUpTo(RefundColumn', MaxSales) = SumUpTo(RefundColumn, MaxSales) + refund
  <2>1. /\ RefundColumn \in [1..MaxSales -> Int] /\ RefundColumn' \in [1..MaxSales -> Int]
        /\ \A s \in 1..MaxSales : s # k => RefundColumn'[s] = RefundColumn[s]
    BY <1>1, <1>3
  <2> QED BY <1>2, <2>1, SumOneRow
<1> QED BY <1>4, <1>5, <1>6, <1>7 DEF Owed, CashOfSales, Sold, RefundsMade

\* No sale line changes.
LEMMA SalesStand ==
  ASSUME TypeOK, TradeTypeOK, TypeOK', TradeTypeOK', \A s \in SaleLines : SameSale(s)
  PROVE  /\ Owed' = Owed /\ CashOfSales' = CashOfSales
         /\ Sold' = Sold /\ RefundsMade' = RefundsMade
<1>1. /\ DebtColumn' = DebtColumn /\ CashColumn' = CashColumn
      /\ SoldColumn' = SoldColumn /\ RefundColumn' = RefundColumn
  <2>1. \A s \in 1..MaxSales :
         /\ DebtColumn'[s] = DebtColumn[s] /\ CashColumn'[s] = CashColumn[s]
         /\ SoldColumn'[s] = SoldColumn[s] /\ RefundColumn'[s] = RefundColumn[s]
    BY SameSaleColumns DEF SaleLines
  <2>2. /\ DebtColumn \in [1..MaxSales -> Int] /\ CashColumn \in [1..MaxSales -> Int]
        /\ SoldColumn \in [1..MaxSales -> Int] /\ RefundColumn \in [1..MaxSales -> Int]
        /\ DebtColumn' \in [1..MaxSales -> Int] /\ CashColumn' \in [1..MaxSales -> Int]
        /\ SoldColumn' \in [1..MaxSales -> Int] /\ RefundColumn' \in [1..MaxSales -> Int]
    BY ColumnsInt, ColumnsIntAfter DEF ColumnsType
  <2> QED BY <2>1, <2>2
<1> QED BY <1>1 DEF Owed, CashOfSales, Sold, RefundsMade

\* Nothing of purchase b is touched.
SamePurchase(b) ==
  /\ initial'[b] = initial[b] /\ cost'[b] = cost[b] /\ purchaseHeader'[b] = purchaseHeader[b]
  /\ origin'[b] = origin[b] /\ sentBack'[b] = sentBack[b] /\ settled'[b] = settled[b]

LEMMA PurchaseStep ==
  ASSUME TypeOK, TradeTypeOK, TypeOK', TradeTypeOK', NEW k \in Batches,
         \A b \in Batches : b # k => SamePurchase(b),
         NEW debt \in Int, NEW header \in Int, NEW paid \in Int,
         OwingColumn'[k] = OwingColumn[k] + debt,
         purchaseHeader'[k] = purchaseHeader[k] + header, settled'[k] = settled[k] + paid
  PROVE  /\ Owing' = Owing + debt /\ HeadersPaid' = HeadersPaid + header
         /\ Settled' = Settled + paid
<1>1. /\ OwingColumn \in [1..MaxBatches -> Int] /\ purchaseHeader \in [1..MaxBatches -> Int]
      /\ settled \in [1..MaxBatches -> Int]
      /\ OwingColumn' \in [1..MaxBatches -> Int] /\ purchaseHeader' \in [1..MaxBatches -> Int]
      /\ settled' \in [1..MaxBatches -> Int]
  BY ColumnsInt, ColumnsIntAfter DEF ColumnsType
<1>2. k \in 1..MaxBatches
  BY DEF Batches
<1>3. \A b \in 1..MaxBatches : b # k =>
         /\ OwingColumn'[b] = OwingColumn[b] /\ purchaseHeader'[b] = purchaseHeader[b]
         /\ settled'[b] = settled[b]
  BY DEF Batches, SamePurchase, OwingColumn, PurchaseDebt, PurchaseTotal
<1>4. SumUpTo(OwingColumn', MaxBatches) = SumUpTo(OwingColumn, MaxBatches) + debt
  BY <1>1, <1>2, <1>3, SumOneRow
<1>5. SumUpTo(purchaseHeader', MaxBatches) = SumUpTo(purchaseHeader, MaxBatches) + header
  BY <1>1, <1>2, <1>3, SumOneRow
<1>6. SumUpTo(settled', MaxBatches) = SumUpTo(settled, MaxBatches) + paid
  BY <1>1, <1>2, <1>3, SumOneRow
<1> QED BY <1>4, <1>5, <1>6 DEF Owing, HeadersPaid, Settled

LEMMA PurchasesStand ==
  ASSUME UNCHANGED <<initial, cost, purchaseHeader, origin, sentBack, settled>>
  PROVE  Owing' = Owing /\ HeadersPaid' = HeadersPaid /\ Settled' = Settled
BY DEF Owing, OwingColumn, PurchaseDebt, PurchaseTotal, HeadersPaid, Settled

-----------------------------------------------------------------------------
(***************************************************************************)
(* What a transaction does to the accounts the figures are set against.    *)
(***************************************************************************)

\* From ledger l to ledger m the customer's account grew by r, the supplier's by p,
\* the inventory by g, cost of goods sold by c, shrinkage by k, revenue by v, cash by n.
Moves(l, m, r, p, g, c, k, v, n) ==
  /\ m.balance[Receivable] = l.balance[Receivable] + r
  /\ m.balance[Payable] = l.balance[Payable] + p
  /\ m.balance[Goods] = l.balance[Goods] + g
  /\ m.balance[CostOfGoods] = l.balance[CostOfGoods] + c
  /\ m.balance[Shrinkage] = l.balance[Shrinkage] + k
  /\ m.balance[SalesRevenue] = l.balance[SalesRevenue] + v
  /\ NetCash(m) = NetCash(l) + n

\* One transaction, as movements.
LEMMA PostingMoves ==
  ASSUME NEW l, LedgerType(l), NEW a \in Accounts, NEW b \in Accounts, a # b,
         NEW x \in Int, NEW r, NEW p, NEW g, NEW c, NEW k, NEW v, NEW n,
         r = (IF a = Receivable THEN x ELSE IF b = Receivable THEN -x ELSE 0),
         g = (IF a = Goods THEN x ELSE IF b = Goods THEN -x ELSE 0),
         c = (IF a = CostOfGoods THEN x ELSE IF b = CostOfGoods THEN -x ELSE 0),
         k = (IF a = Shrinkage THEN x ELSE IF b = Shrinkage THEN -x ELSE 0),
         p = (IF a = Payable THEN -x ELSE IF b = Payable THEN x ELSE 0),
         v = (IF a = SalesRevenue THEN -x ELSE IF b = SalesRevenue THEN x ELSE 0),
         n = (IF a \in PaymentAccounts THEN x ELSE 0) - (IF b \in PaymentAccounts THEN x ELSE 0)
  PROVE  Moves(l, Post(l, a, b, x), r, p, g, c, k, v, n)
<1> DEFINE in == IF a \in PaymentAccounts THEN x ELSE 0
           out == IF b \in PaymentAccounts THEN x ELSE 0
           m == Post(l, a, b, x)
<1>1. /\ \A d \in {Receivable, Goods, CostOfGoods, Shrinkage} :
           m.balance[d] = l.balance[d] + (IF a = d THEN x ELSE IF b = d THEN -x ELSE 0)
      /\ \A d \in {Payable, SalesRevenue} :
           m.balance[d] = l.balance[d] + (IF a = d THEN -x ELSE IF b = d THEN x ELSE 0)
      /\ NetCash(l) \in Int
      /\ NetCash(m) = NetCash(l) + in - out
  BY PostMoves
<1>2. in \in Int /\ out \in Int /\ n = in - out
  OBVIOUS
<1> HIDE DEF m, in, out
<1>3. NetCash(m) = NetCash(l) + n
  BY <1>1, <1>2
<1>4. Moves(l, m, r, p, g, c, k, v, n)
  BY <1>1, <1>3 DEF Moves
<1> QED BY <1>4 DEF m

\* The transactions of the services, as movements.
LEMMA TransactionMoves ==
  ASSUME NEW l, LedgerType(l), NEW x \in Int
  PROVE  /\ Moves(l, Post(l, Goods, Payable, x), 0, x, x, 0, 0, 0, 0)
         /\ Moves(l, Post(l, Payable, Goods, x), 0, -x, -x, 0, 0, 0, 0)
         /\ Moves(l, Post(l, Receivable, SalesRevenue, x), x, 0, 0, 0, 0, x, 0)
         /\ Moves(l, Post(l, SalesRevenue, Receivable, x), -x, 0, 0, 0, 0, -x, 0)
         /\ Moves(l, Post(l, SalesRevenue, CashInHand, x), 0, 0, 0, 0, 0, -x, -x)
         /\ Moves(l, Post(l, CostOfGoods, Goods, x), 0, 0, -x, x, 0, 0, 0)
         /\ Moves(l, Post(l, Goods, CostOfGoods, x), 0, 0, x, -x, 0, 0, 0)
         /\ Moves(l, Post(l, Shrinkage, CostOfGoods, x), 0, 0, 0, -x, x, 0, 0)
         /\ Moves(l, Post(l, Shrinkage, Goods, x), 0, 0, -x, 0, x, 0, 0)
         /\ Moves(l, Post(l, Goods, AdjustmentIncome, x), 0, 0, x, 0, 0, 0, 0)
         /\ Moves(l, Post(l, Receivable, OpeningEquity, x), x, 0, 0, 0, 0, 0, 0)
         /\ Moves(l, Post(l, OpeningEquity, Receivable, x), -x, 0, 0, 0, 0, 0, 0)
         /\ Moves(l, Post(l, OpeningEquity, Payable, x), 0, x, 0, 0, 0, 0, 0)
         /\ Moves(l, Post(l, Payable, OpeningEquity, x), 0, -x, 0, 0, 0, 0, 0)
<1> USE DEF Accounts, NAccounts, PaymentAccounts, CashInHand, Till, Safe, Bank, Receivable, Goods,
            Payable, SalesRevenue, AdjustmentIncome, OpeningEquity, CostOfGoods, Shrinkage
<1>1. x - 0 = x /\ 0 - x = -x /\ 0 - 0 = 0
  OBVIOUS
<1>2. Moves(l, Post(l, Goods, Payable, x), 0, x, x, 0, 0, 0, 0)
  BY <1>1, PostingMoves
<1>3. Moves(l, Post(l, Payable, Goods, x), 0, -x, -x, 0, 0, 0, 0)
  BY <1>1, PostingMoves
<1>4. Moves(l, Post(l, Receivable, SalesRevenue, x), x, 0, 0, 0, 0, x, 0)
  BY <1>1, PostingMoves
<1>5. Moves(l, Post(l, SalesRevenue, Receivable, x), -x, 0, 0, 0, 0, -x, 0)
  BY <1>1, PostingMoves
<1>6. Moves(l, Post(l, SalesRevenue, CashInHand, x), 0, 0, 0, 0, 0, -x, -x)
  BY <1>1, PostingMoves
<1>7. Moves(l, Post(l, CostOfGoods, Goods, x), 0, 0, -x, x, 0, 0, 0)
  BY <1>1, PostingMoves
<1>8. Moves(l, Post(l, Goods, CostOfGoods, x), 0, 0, x, -x, 0, 0, 0)
  BY <1>1, PostingMoves
<1>9. Moves(l, Post(l, Shrinkage, CostOfGoods, x), 0, 0, 0, -x, x, 0, 0)
  BY <1>1, PostingMoves
<1>10. Moves(l, Post(l, Shrinkage, Goods, x), 0, 0, -x, 0, x, 0, 0)
  BY <1>1, PostingMoves
<1>11. Moves(l, Post(l, Goods, AdjustmentIncome, x), 0, 0, x, 0, 0, 0, 0)
  BY <1>1, PostingMoves
<1>12. Moves(l, Post(l, Receivable, OpeningEquity, x), x, 0, 0, 0, 0, 0, 0)
  BY <1>1, PostingMoves
<1>13. Moves(l, Post(l, OpeningEquity, Receivable, x), -x, 0, 0, 0, 0, 0, 0)
  BY <1>1, PostingMoves
<1>14. Moves(l, Post(l, OpeningEquity, Payable, x), 0, x, 0, 0, 0, 0, 0)
  BY <1>1, PostingMoves
<1>15. Moves(l, Post(l, Payable, OpeningEquity, x), 0, -x, 0, 0, 0, 0, 0)
  BY <1>1, PostingMoves
<1> QED
  BY <1>2, <1>3, <1>4, <1>5, <1>6, <1>7, <1>8, <1>9, <1>10, <1>11, <1>12, <1>13, <1>14, <1>15

\* The same of money that moves through a drawer, a till or the bank.
LEMMA PaymentMoves ==
  ASSUME NEW l, LedgerType(l), NEW x \in Int, NEW place \in Places
  PROVE  /\ Moves(l, Post(l, Payable, place, x), 0, -x, 0, 0, 0, 0, -x)
         /\ Moves(l, Post(l, place, Payable, x), 0, x, 0, 0, 0, 0, x)
         /\ Moves(l, Post(l, Receivable, place, x), x, 0, 0, 0, 0, 0, -x)
         /\ Moves(l, Post(l, place, Receivable, x), -x, 0, 0, 0, 0, 0, x)
         /\ Moves(l, Post(l, place, SalesRevenue, x), 0, 0, 0, 0, 0, x, x)
<1>1. place \in {1, 2, 3, 4}
  BY DEF CashInHand, Till, Safe, Bank
<1> USE DEF Accounts, NAccounts, PaymentAccounts, CashInHand, Till, Safe, Bank, Receivable, Goods,
            Payable, SalesRevenue, CostOfGoods, Shrinkage
<1>2. x - 0 = x /\ 0 - x = -x /\ 0 - 0 = 0
  OBVIOUS
<1>3. Moves(l, Post(l, Payable, place, x), 0, -x, 0, 0, 0, 0, -x)
  BY <1>1, <1>2, PostingMoves
<1>4. Moves(l, Post(l, place, Payable, x), 0, x, 0, 0, 0, 0, x)
  BY <1>1, <1>2, PostingMoves
<1>5. Moves(l, Post(l, Receivable, place, x), x, 0, 0, 0, 0, 0, -x)
  BY <1>1, <1>2, PostingMoves
<1>6. Moves(l, Post(l, place, Receivable, x), -x, 0, 0, 0, 0, 0, x)
  BY <1>1, <1>2, PostingMoves
<1>7. Moves(l, Post(l, place, SalesRevenue, x), 0, 0, 0, 0, 0, x, x)
  BY <1>1, <1>2, PostingMoves
<1> QED BY <1>3, <1>4, <1>5, <1>6, <1>7

\* Two transactions of one service call.
LEMMA MovesTwice ==
  ASSUME NEW l, NEW m, NEW o, LedgerType(l),
         NEW r1 \in Int, NEW p1 \in Int, NEW g1 \in Int, NEW c1 \in Int,
         NEW k1 \in Int, NEW v1 \in Int, NEW n1 \in Int,
         NEW r2 \in Int, NEW p2 \in Int, NEW g2 \in Int, NEW c2 \in Int,
         NEW k2 \in Int, NEW v2 \in Int, NEW n2 \in Int,
         Moves(l, m, r1, p1, g1, c1, k1, v1, n1), Moves(m, o, r2, p2, g2, c2, k2, v2, n2)
  PROVE  Moves(l, o, r1 + r2, p1 + p2, g1 + g2, c1 + c2, k1 + k2, v1 + v2, n1 + n2)
<1>1. /\ l.balance[Receivable] \in Int /\ l.balance[Payable] \in Int /\ l.balance[Goods] \in Int
      /\ l.balance[CostOfGoods] \in Int /\ l.balance[Shrinkage] \in Int
      /\ l.balance[SalesRevenue] \in Int
  BY Chart DEF LedgerType
<1>2. NetCash(l) \in Int
  <2>1. Goods \in Accounts /\ Payable \in Accounts /\ Goods # Payable /\ 0 \in Int
    BY Chart DEF Goods, Payable
  <2> QED BY <2>1, PostMoves
<1> QED BY <1>1, <1>2 DEF Moves

-----------------------------------------------------------------------------
(***************************************************************************)
(* The ledger is explained by the stock and the documents.                 *)
(***************************************************************************)

CustomerOwes == Owed - onAccount[Receivable] + adjusted[Receivable]
StoreOwes == Owing + onAccount[Payable] + adjusted[Payable]
InStock == OnHand + HeadersPaid
WrittenDown == LostCost + SpoiltCost
Revenue == Sold - RefundsMade
CashPaid == CashOfSales - Settled + onAccount[Receivable] + onAccount[Payable]

\* Every account the documents determine holds what they say.
Explained ==
  /\ ledger.balance[Receivable] = CustomerOwes
  /\ ledger.balance[Payable] = StoreOwes
  /\ ledger.balance[Goods] = InStock
  /\ ledger.balance[CostOfGoods] = KeptCost
  /\ ledger.balance[Shrinkage] = WrittenDown
  /\ ledger.balance[SalesRevenue] = Revenue
  /\ NetCash(ledger) = CashPaid

\* The documents move as Moves says of the accounts.
DocumentsMove(r, p, g, c, k, v, n) ==
  /\ CustomerOwes' = CustomerOwes + r
  /\ StoreOwes' = StoreOwes + p
  /\ InStock' = InStock + g
  /\ KeptCost' = KeptCost + c
  /\ WrittenDown' = WrittenDown + k
  /\ Revenue' = Revenue + v
  /\ CashPaid' = CashPaid + n

LEMMA ExplainedStep ==
  ASSUME Explained, NEW r, NEW p, NEW g, NEW c, NEW k, NEW v, NEW n,
         Moves(ledger, ledger', r, p, g, c, k, v, n), DocumentsMove(r, p, g, c, k, v, n)
  PROVE  Explained'
<1>1. /\ (ledger.balance[Receivable])' = ledger'.balance[Receivable]
      /\ (ledger.balance[Payable])' = ledger'.balance[Payable]
      /\ (ledger.balance[Goods])' = ledger'.balance[Goods]
      /\ (ledger.balance[CostOfGoods])' = ledger'.balance[CostOfGoods]
      /\ (ledger.balance[Shrinkage])' = ledger'.balance[Shrinkage]
      /\ (ledger.balance[SalesRevenue])' = ledger'.balance[SalesRevenue]
      /\ NetCash(ledger)' = NetCash(ledger')
  BY DEF NetCash, Receivable, Payable, Goods, CostOfGoods, Shrinkage, SalesRevenue
<1> QED BY <1>1 DEF Explained, Moves, DocumentsMove

\* What the proofs about a step need to know of the two states.
LEMMA Typing ==
  ASSUME StockInv, TradeInv'
  PROVE  /\ TypeOK /\ TradeTypeOK /\ TypeOK' /\ TradeTypeOK' /\ UnitsType /\ UnitsType'
         /\ LedgerType(ledger)
         /\ OnHand \in Int /\ KeptCost \in Int /\ SpoiltCost \in Int /\ LostCost \in Int
         /\ Owed \in Int /\ CashOfSales \in Int /\ Sold \in Int /\ RefundsMade \in Int
         /\ Owing \in Int /\ HeadersPaid \in Int /\ Settled \in Int
         /\ onAccount[Receivable] \in Int /\ onAccount[Payable] \in Int
         /\ adjusted[Receivable] \in Int /\ adjusted[Payable] \in Int
<1>1. TypeOK /\ TradeTypeOK
  BY DEF StockInv, TradeInv, IInv
<1>2. TypeOK' /\ TradeTypeOK'
  BY DEF TradeInv, IInv
<1>3. UnitsType /\ UnitsType'
  BY <1>1, <1>2, UnitsAreIntegers, UnitsAreIntegersAfter
<1>4. LedgerType(ledger)
  BY <1>1 DEF TradeTypeOK
<1>5. /\ onAccount[Receivable] \in Int /\ onAccount[Payable] \in Int
      /\ adjusted[Receivable] \in Int /\ adjusted[Payable] \in Int
  BY <1>1 DEF TradeTypeOK, Parties
<1> QED BY <1>1, <1>2, <1>3, <1>4, <1>5, FiguresInt, DocumentsInt

\* Invoices of sales that nothing touches.
LEMMA SalesAlike ==
  ASSUME TypeOK, TradeTypeOK, TypeOK', TradeTypeOK',
         UNCHANGED <<nSales, saleQuantity, restocked, scrapped, price, saleHeader, onCredit,
                     collected>>
  PROVE  /\ Owed' = Owed /\ CashOfSales' = CashOfSales
         /\ Sold' = Sold /\ RefundsMade' = RefundsMade
<1>1. \A s \in SaleLines : SameSale(s)
  BY DEF SameSale, ReturnedOf
<1> QED BY <1>1, SalesStand

-----------------------------------------------------------------------------

LEMMA PayPurchaseExplained ==
  ASSUME StockInv, Explained, TradeInv', NEW b \in Batches, NEW amount \in Int,
         NEW place \in Places, PayPurchase(b, amount, place)
  PROVE  Explained'
<1>2. UNCHANGED <<vars, cost, purchaseHeader, invoiceVars, onAccount, adjusted>>
  BY DEF PayPurchase
<1>3. settled' = [settled EXCEPT ![b] = @ + amount] /\ origin[b] # 0
      /\ ledger' = Post(ledger, Payable, place, amount)
  BY DEF PayPurchase
<1>4. /\ OnHand' = OnHand /\ KeptCost' = KeptCost
      /\ SpoiltCost' = SpoiltCost /\ LostCost' = LostCost
  BY <1>2, SameFigures DEF vars, stockVars, saleVars, returnVars
<1>5. /\ Owed' = Owed /\ CashOfSales' = CashOfSales
      /\ Sold' = Sold /\ RefundsMade' = RefundsMade
  BY <1>2, Typing, SalesAlike DEF vars, saleVars, returnVars, invoiceVars
<1>6. Owing' = Owing + (-amount) /\ HeadersPaid' = HeadersPaid + 0 /\ Settled' = Settled + amount
  <2>1. settled \in [Batches -> Int] /\ purchaseHeader[b] \in Int /\ PurchaseTotal(b) \in Int
        /\ sentBack[b] * cost[b] \in Int
    <3>1. /\ initial[b] \in Int /\ cost[b] \in Int /\ sentBack[b] \in Int
      BY Typing DEF TypeOK, TradeTypeOK
    <3>2. initial[b] * cost[b] \in Int /\ sentBack[b] * cost[b] \in Int
      BY <3>1, TimesRules
    <3> QED BY <3>2, Typing DEF TradeTypeOK, PurchaseTotal
  <2>2. settled'[b] = settled[b] + amount /\ \A d \in Batches : d # b => settled'[d] = settled[d]
    BY <1>3, <2>1
  <2>3. \A d \in Batches : d # b => SamePurchase(d)
    BY <1>2, <2>2 DEF SamePurchase, vars, batchVars
  <2>4. PurchaseTotal(b)' = PurchaseTotal(b) /\ UNCHANGED <<origin, sentBack, cost, purchaseHeader>>
    BY <1>2 DEF PurchaseTotal, vars, batchVars
  <2>5. OwingColumn'[b] = OwingColumn[b] + (-amount)
    <3>1. OwingColumn[b] = PurchaseTotal(b) - sentBack[b] * cost[b] - settled[b]
      BY <1>3 DEF OwingColumn, PurchaseDebt
    <3>2. OwingColumn'[b] = PurchaseTotal(b)' - sentBack'[b] * cost'[b] - settled'[b]
      BY <1>3, <2>4 DEF OwingColumn, PurchaseDebt
    <3> QED BY <2>1, <2>2, <2>4, <3>1, <3>2
  <2>6. purchaseHeader'[b] = purchaseHeader[b] + 0 /\ -amount \in Int /\ 0 \in Int
    BY <2>1, <2>4
  <2> QED BY <2>2, <2>3, <2>5, <2>6, Typing, PurchaseStep
<1>7. Moves(ledger, ledger', 0, -amount, 0, 0, 0, 0, -amount)
  BY <1>3, Typing, PaymentMoves
<1>8. onAccount' = onAccount /\ adjusted' = adjusted
  BY <1>2
<1>9. DocumentsMove(0, -amount, 0, 0, 0, 0, -amount)
  BY <1>4, <1>5, <1>6, <1>8, Typing
     DEF DocumentsMove, CustomerOwes, StoreOwes, InStock, WrittenDown, Revenue, CashPaid
<1> QED BY <1>7, <1>9, ExplainedStep

LEMMA SendBackExplained ==
  ASSUME StockInv, Explained, TradeInv', NEW b \in Batches, NEW q \in Int, SendBack(b, q),
         UNCHANGED <<cost, purchaseHeader, settled, price, saleHeader, onCredit, collected,
                     onAccount, adjusted>>
  PROVE  Explained'
<1> DEFINE worth == q * cost[b]
<1>1. /\ ReturnToSupplier(b, q) /\ ledger' = Post(ledger, Payable, Goods, worth)
  BY DEF SendBack
<1>2. /\ sentBack' = [sentBack EXCEPT ![b] = @ + q] /\ origin[b] # 0
      /\ UNCHANGED <<batchVars, saleVars, returnVars>>
  BY <1>1 DEF ReturnToSupplier
<1>3. /\ initial[b] \in Int /\ cost[b] \in Int /\ sentBack[b] \in Int /\ settled[b] \in Int
      /\ purchaseHeader[b] \in Int /\ sentBack \in [Batches -> Nat]
  BY Typing DEF TypeOK, TradeTypeOK
<1>4. /\ initial[b] * cost[b] \in Int /\ sentBack[b] * cost[b] \in Int /\ worth \in Int
      /\ (sentBack[b] + q) * cost[b] = sentBack[b] * cost[b] + worth
  BY <1>3, TimesRules
<1> HIDE DEF worth
<1>5. /\ OnHand' = OnHand - worth /\ KeptCost' = KeptCost
      /\ SpoiltCost' = SpoiltCost /\ LostCost' = LostCost
  BY <1>1, Typing, SentBackFigures DEF worth
<1>6. /\ Owed' = Owed /\ CashOfSales' = CashOfSales
      /\ Sold' = Sold /\ RefundsMade' = RefundsMade
  BY <1>2, Typing, SalesAlike DEF saleVars, returnVars
<1>7. Owing' = Owing + (-worth) /\ HeadersPaid' = HeadersPaid + 0 /\ Settled' = Settled + 0
  <2>1. sentBack'[b] = sentBack[b] + q /\ \A d \in Batches : d # b => sentBack'[d] = sentBack[d]
    BY <1>2, <1>3
  <2>2. \A d \in Batches : d # b => SamePurchase(d)
    BY <1>2, <2>1 DEF SamePurchase, batchVars
  <2>3. UNCHANGED <<initial, origin, cost, purchaseHeader, settled>>
    BY <1>2 DEF batchVars
  <2>4. OwingColumn'[b] = OwingColumn[b] + (-worth)
    <3>1. OwingColumn[b] = PurchaseTotal(b) - sentBack[b] * cost[b] - settled[b]
      BY <1>2 DEF OwingColumn, PurchaseDebt
    <3>2. OwingColumn'[b] = PurchaseTotal(b)' - sentBack'[b] * cost'[b] - settled'[b]
      BY <1>2, <2>3 DEF OwingColumn, PurchaseDebt
    <3>3. PurchaseTotal(b)' = PurchaseTotal(b) /\ PurchaseTotal(b) \in Int
      BY <1>3, <1>4, <2>3 DEF PurchaseTotal
    <3>4. OwingColumn'[b] = PurchaseTotal(b) - (sentBack[b] + q) * cost[b] - settled[b]
      BY <2>1, <2>3, <3>2, <3>3
    <3> QED BY <1>3, <1>4, <3>1, <3>3, <3>4
  <2>5. /\ purchaseHeader'[b] = purchaseHeader[b] + 0 /\ settled'[b] = settled[b] + 0
        /\ -worth \in Int /\ 0 \in Int
    BY <1>3, <1>4, <2>3
  <2>6. TypeOK /\ TradeTypeOK /\ TypeOK' /\ TradeTypeOK'
    BY Typing
  <2> QED BY <2>2, <2>4, <2>5, <2>6, PurchaseStep
<1>8. Moves(ledger, ledger', 0, -worth, -worth, 0, 0, 0, 0)
  BY <1>1, <1>4, Typing, TransactionMoves
<1>9. onAccount' = onAccount /\ adjusted' = adjusted
  OBVIOUS
<1>10. DocumentsMove(0, -worth, -worth, 0, 0, 0, 0)
  BY <1>4, <1>5, <1>6, <1>7, <1>9, Typing
     DEF DocumentsMove, CustomerOwes, StoreOwes, InStock, WrittenDown, Revenue, CashPaid
<1> QED BY <1>8, <1>10, ExplainedStep

\* The amounts of an invoice are numbers.
LEMMA SaleInt ==
  ASSUME TypeOK, TradeTypeOK, NEW s \in SaleLines
  PROVE  /\ SaleTotal(s) \in Int /\ ReturnedOf(s) \in Int /\ price[s] \in Int
         /\ ReturnedOf(s) * price[s] \in Int /\ collected[s] \in Int
<1>1. saleQuantity[s] \in Int /\ price[s] \in Int /\ saleHeader[s] \in Int /\ collected[s] \in Int
  BY DEF TypeOK, TradeTypeOK
<1>2. ReturnedOf(s) \in Int
  BY ReturnedInt
<1>3. saleQuantity[s] * price[s] \in Int /\ ReturnedOf(s) * price[s] \in Int
  BY <1>1, <1>2, TimesRules
<1> QED BY <1>1, <1>2, <1>3 DEF SaleTotal

\* Invoices of purchases that nothing touches.
LEMMA PurchasesAlike ==
  ASSUME StockInv, TradeInv',
         UNCHANGED <<initial, cost, purchaseHeader, origin, sentBack, settled>>
  PROVE  /\ Owing' = Owing /\ HeadersPaid' = HeadersPaid /\ Settled' = Settled
         /\ Owing \in Int /\ HeadersPaid \in Int /\ Settled \in Int
BY PurchasesStand, Typing

LEMMA PaySaleExplained ==
  ASSUME StockInv, Explained, TradeInv', NEW s \in SaleLines, NEW amount \in Int,
         NEW place \in Places, PaySale(s, amount, place)
  PROVE  Explained'
<1>1. /\ UNCHANGED <<vars, purchaseVars, price, saleHeader, onCredit, onAccount, adjusted>>
      /\ collected' = [collected EXCEPT ![s] = @ + amount] /\ s \in onCredit
      /\ ledger' = Post(ledger, place, Receivable, amount)
  BY DEF PaySale
<1>2. TypeOK /\ TradeTypeOK /\ TypeOK' /\ TradeTypeOK'
  BY Typing
<1>3. s <= nSales
  BY <1>1, <1>2 DEF TradeTypeOK, TypeOK, SaleLines
<1>4. /\ OnHand' = OnHand /\ KeptCost' = KeptCost
      /\ SpoiltCost' = SpoiltCost /\ LostCost' = LostCost
  BY <1>1, SameFigures DEF vars, stockVars, saleVars, returnVars, purchaseVars
<1>5. Owing' = Owing /\ HeadersPaid' = HeadersPaid /\ Settled' = Settled
  BY <1>1, PurchasesAlike DEF vars, batchVars, purchaseVars
<1>6. /\ Owed' = Owed + (-amount) /\ CashOfSales' = CashOfSales + amount
      /\ Sold' = Sold + 0 /\ RefundsMade' = RefundsMade + 0
  <2>1. /\ collected'[s] = collected[s] + amount
        /\ \A t \in SaleLines : t # s => collected'[t] = collected[t]
    BY <1>1, <1>2 DEF TradeTypeOK
  <2>2. UNCHANGED <<saleQuantity, price, saleHeader, onCredit, nSales>>
        /\ \A t \in SaleLines : ReturnedOf(t)' = ReturnedOf(t) /\ SaleTotal(t)' = SaleTotal(t)
    BY <1>1 DEF ReturnedOf, SaleTotal, vars, saleVars, returnVars
  <2>3. \A t \in SaleLines : t # s => SameSale(t)
    BY <2>1, <2>2 DEF SameSale
  <2>4. DebtColumn'[s] = DebtColumn[s] + (-amount)
    <3>1. DebtColumn[s] = SaleTotal(s) - ReturnedOf(s) * price[s] - collected[s]
      BY <1>1 DEF DebtColumn, SaleDebt
    <3>2. DebtColumn'[s] = SaleTotal(s) - ReturnedOf(s) * price[s] - collected'[s]
      BY <1>1, <2>2 DEF DebtColumn, SaleDebt
    <3> QED BY <1>2, <2>1, <3>1, <3>2, SaleInt
  <2>5. CashColumn'[s] = CashColumn[s] + amount
    BY <1>1, <1>3, <2>1, <2>2 DEF CashColumn, SaleCash
  <2>6. SoldColumn'[s] = SoldColumn[s] + 0
    <3>1. SoldColumn[s] = SaleTotal(s) /\ SoldColumn'[s] = SaleTotal(s)
      BY <1>3, <2>2 DEF SoldColumn
    <3> QED BY <1>2, <3>1, SaleInt
  <2>7. RefundColumn'[s] = RefundColumn[s] + 0
    <3>1. /\ RefundColumn[s] = ReturnedOf(s) * price[s]
          /\ RefundColumn'[s] = ReturnedOf(s) * price[s]
      BY <1>3, <2>2 DEF RefundColumn, Refunded
    <3> QED BY <1>2, <3>1, SaleInt
  <2>8. -amount \in Int /\ 0 \in Int
    OBVIOUS
  <2> QED BY <1>2, <2>3, <2>4, <2>5, <2>6, <2>7, <2>8, SaleStep
<1>7. Moves(ledger, ledger', -amount, 0, 0, 0, 0, 0, amount)
  BY <1>1, Typing, PaymentMoves
<1>8. onAccount' = onAccount /\ adjusted' = adjusted
  BY <1>1
<1>9. DocumentsMove(-amount, 0, 0, 0, 0, 0, amount)
  BY <1>4, <1>5, <1>6, <1>8, Typing
     DEF DocumentsMove, CustomerOwes, StoreOwes, InStock, WrittenDown, Revenue, CashPaid
<1> QED BY <1>7, <1>9, ExplainedStep

\* What touches neither goods nor invoices.
LEMMA SameDocuments ==
  ASSUME StockInv, TradeInv', UNCHANGED <<vars, purchaseVars, invoiceVars>>
  PROVE  /\ OnHand' = OnHand /\ KeptCost' = KeptCost
         /\ SpoiltCost' = SpoiltCost /\ LostCost' = LostCost
         /\ Owed' = Owed /\ CashOfSales' = CashOfSales
         /\ Sold' = Sold /\ RefundsMade' = RefundsMade
         /\ Owing' = Owing /\ HeadersPaid' = HeadersPaid /\ Settled' = Settled
<1>1. /\ OnHand' = OnHand /\ KeptCost' = KeptCost
      /\ SpoiltCost' = SpoiltCost /\ LostCost' = LostCost
  BY SameFigures DEF vars, stockVars, saleVars, returnVars, purchaseVars
<1>2. /\ Owed' = Owed /\ CashOfSales' = CashOfSales
      /\ Sold' = Sold /\ RefundsMade' = RefundsMade
  BY Typing, SalesAlike DEF vars, saleVars, returnVars, invoiceVars
<1>3. Owing' = Owing /\ HeadersPaid' = HeadersPaid /\ Settled' = Settled
  BY PurchasesAlike DEF vars, batchVars, purchaseVars
<1> QED BY <1>1, <1>2, <1>3

LEMMA PartiesApart == Receivable # Payable /\ Parties = {Receivable, Payable}
BY DEF Receivable, Payable, Parties

LEMMA ReceiveFromExplained ==
  ASSUME StockInv, Explained, TradeInv', NEW party \in Parties, NEW amount \in Int,
         NEW place \in Places, ReceiveFrom(party, amount, place)
  PROVE  Explained'
<1>1. /\ UNCHANGED <<vars, purchaseVars, invoiceVars, adjusted>>
      /\ onAccount' = [onAccount EXCEPT ![party] = @ + amount]
      /\ ledger' = Post(ledger, place, party, amount)
  BY DEF ReceiveFrom
<1>2. onAccount \in [Parties -> Int]
  BY Typing DEF TradeTypeOK
<1>3. CASE party = Receivable
  <2>1. /\ onAccount'[Receivable] = onAccount[Receivable] + amount
        /\ onAccount'[Payable] = onAccount[Payable]
    BY <1>1, <1>2, <1>3, PartiesApart
  <2>2. Moves(ledger, ledger', -amount, 0, 0, 0, 0, 0, amount)
    BY <1>1, <1>3, Typing, PaymentMoves
  <2>3. adjusted' = adjusted
    BY <1>1
  <2>4. DocumentsMove(-amount, 0, 0, 0, 0, 0, amount)
    BY <1>1, <2>1, <2>3, SameDocuments, Typing
       DEF DocumentsMove, CustomerOwes, StoreOwes, InStock, WrittenDown, Revenue, CashPaid
  <2> QED BY <2>2, <2>4, ExplainedStep
<1>4. CASE party = Payable
  <2>1. /\ onAccount'[Payable] = onAccount[Payable] + amount
        /\ onAccount'[Receivable] = onAccount[Receivable]
    BY <1>1, <1>2, <1>4, PartiesApart
  <2>2. Moves(ledger, ledger', 0, amount, 0, 0, 0, 0, amount)
    BY <1>1, <1>4, Typing, PaymentMoves
  <2>3. adjusted' = adjusted
    BY <1>1
  <2>4. DocumentsMove(0, amount, 0, 0, 0, 0, amount)
    BY <1>1, <2>1, <2>3, SameDocuments, Typing
       DEF DocumentsMove, CustomerOwes, StoreOwes, InStock, WrittenDown, Revenue, CashPaid
  <2> QED BY <2>2, <2>4, ExplainedStep
<1> QED BY <1>3, <1>4, PartiesApart

LEMMA GiveToExplained ==
  ASSUME StockInv, Explained, TradeInv', NEW party \in Parties, NEW amount \in Int,
         NEW place \in Places, GiveTo(party, amount, place)
  PROVE  Explained'
<1>1. /\ UNCHANGED <<vars, purchaseVars, invoiceVars, adjusted>>
      /\ onAccount' = [onAccount EXCEPT ![party] = @ - amount]
      /\ ledger' = Post(ledger, party, place, amount)
  BY DEF GiveTo
<1>2. onAccount \in [Parties -> Int]
  BY Typing DEF TradeTypeOK
<1>3. CASE party = Receivable
  <2>1. /\ onAccount'[Receivable] = onAccount[Receivable] - amount
        /\ onAccount'[Payable] = onAccount[Payable]
    BY <1>1, <1>2, <1>3, PartiesApart
  <2>2. Moves(ledger, ledger', amount, 0, 0, 0, 0, 0, -amount)
    BY <1>1, <1>3, Typing, PaymentMoves
  <2>3. adjusted' = adjusted
    BY <1>1
  <2>4. DocumentsMove(amount, 0, 0, 0, 0, 0, -amount)
    BY <1>1, <2>1, <2>3, SameDocuments, Typing
       DEF DocumentsMove, CustomerOwes, StoreOwes, InStock, WrittenDown, Revenue, CashPaid
  <2> QED BY <2>2, <2>4, ExplainedStep
<1>4. CASE party = Payable
  <2>1. /\ onAccount'[Payable] = onAccount[Payable] - amount
        /\ onAccount'[Receivable] = onAccount[Receivable]
    BY <1>1, <1>2, <1>4, PartiesApart
  <2>2. Moves(ledger, ledger', 0, -amount, 0, 0, 0, 0, -amount)
    BY <1>1, <1>4, Typing, PaymentMoves
  <2>3. adjusted' = adjusted
    BY <1>1
  <2>4. StoreOwes' = StoreOwes + (-amount) /\ CashPaid' = CashPaid + (-amount)
    BY <1>1, <2>1, <2>3, SameDocuments, Typing DEF StoreOwes, CashPaid
  <2>5. /\ CustomerOwes' = CustomerOwes + 0 /\ InStock' = InStock + 0 /\ KeptCost' = KeptCost + 0
        /\ WrittenDown' = WrittenDown + 0 /\ Revenue' = Revenue + 0
    BY <1>1, <2>1, <2>3, SameDocuments, Typing
       DEF CustomerOwes, InStock, WrittenDown, Revenue
  <2>6. DocumentsMove(0, -amount, 0, 0, 0, 0, -amount)
    BY <2>4, <2>5 DEF DocumentsMove
  <2> QED BY <2>2, <2>6, ExplainedStep
<1> QED BY <1>3, <1>4, PartiesApart

LEMMA AdjustPartyExplained ==
  ASSUME StockInv, Explained, TradeInv', NEW party \in Parties, NEW amount \in Int,
         AdjustParty(party, amount)
  PROVE  Explained'
<1> DEFINE magnitude == IF amount < 0 THEN -amount ELSE amount
<1>1. /\ UNCHANGED <<vars, purchaseVars, invoiceVars, onAccount>>
      /\ adjusted' = [adjusted EXCEPT ![party] = @ + amount]
      /\ ledger' = PostToParty(ledger, party, amount)
      /\ amount # 0
  BY DEF AdjustParty
<1>2. adjusted \in [Parties -> Int] /\ onAccount' = onAccount
  BY <1>1, Typing DEF TradeTypeOK
<1>3. /\ magnitude \in Int /\ (amount > 0 => magnitude = amount /\ -(-magnitude) = amount)
      /\ (~(amount > 0) => -magnitude = amount)
  BY <1>1
<1>4. ledger' = IF (amount > 0) <=> (party \in DebitIncreases)
                THEN Post(ledger, party, OpeningEquity, magnitude)
                ELSE Post(ledger, OpeningEquity, party, magnitude)
  BY <1>1 DEF PostToParty
<1> HIDE DEF magnitude
<1>5. Receivable \in DebitIncreases /\ Payable \notin DebitIncreases
  BY DEF Receivable, Payable, DebitIncreases, CashInHand, Till, Safe, Bank, Goods, CostOfGoods,
         OperatingExpenses, Shrinkage
<1>6. CASE party = Receivable
  <2>1. /\ adjusted'[Receivable] = adjusted[Receivable] + amount
        /\ adjusted'[Payable] = adjusted[Payable]
    BY <1>1, <1>2, <1>6, PartiesApart
  <2>2. Moves(ledger, ledger', amount, 0, 0, 0, 0, 0, 0)
    <3>1. CASE amount > 0
      <4>1. ledger' = Post(ledger, Receivable, OpeningEquity, magnitude)
        BY <1>4, <1>5, <1>6, <3>1
      <4> QED BY <1>3, <3>1, <4>1, Typing, TransactionMoves
    <3>2. CASE ~(amount > 0)
      <4>1. ledger' = Post(ledger, OpeningEquity, Receivable, magnitude)
        BY <1>4, <1>5, <1>6, <3>2
      <4>2. Moves(ledger, Post(ledger, OpeningEquity, Receivable, magnitude),
                  -magnitude, 0, 0, 0, 0, 0, 0)
        BY <1>3, Typing, TransactionMoves
      <4> QED BY <1>3, <3>2, <4>1, <4>2
    <3> QED BY <3>1, <3>2
  <2>3. DocumentsMove(amount, 0, 0, 0, 0, 0, 0)
    BY <1>1, <1>2, <2>1, SameDocuments, Typing
       DEF DocumentsMove, CustomerOwes, StoreOwes, InStock, WrittenDown, Revenue, CashPaid
  <2> QED BY <2>2, <2>3, ExplainedStep
<1>7. CASE party = Payable
  <2>1. /\ adjusted'[Payable] = adjusted[Payable] + amount
        /\ adjusted'[Receivable] = adjusted[Receivable]
    BY <1>1, <1>2, <1>7, PartiesApart
  <2>2. Moves(ledger, ledger', 0, amount, 0, 0, 0, 0, 0)
    <3>1. CASE amount > 0
      <4>1. ledger' = Post(ledger, OpeningEquity, Payable, magnitude)
        BY <1>4, <1>5, <1>7, <3>1
      <4> QED BY <1>3, <3>1, <4>1, Typing, TransactionMoves
    <3>2. CASE ~(amount > 0)
      <4>1. ledger' = Post(ledger, Payable, OpeningEquity, magnitude)
        BY <1>4, <1>5, <1>7, <3>2
      <4>2. Moves(ledger, Post(ledger, Payable, OpeningEquity, magnitude),
                  0, -magnitude, 0, 0, 0, 0, 0)
        BY <1>3, Typing, TransactionMoves
      <4> QED BY <1>3, <3>2, <4>1, <4>2
    <3> QED BY <3>1, <3>2
  <2>3. DocumentsMove(0, amount, 0, 0, 0, 0, 0)
    BY <1>1, <1>2, <2>1, SameDocuments, Typing
       DEF DocumentsMove, CustomerOwes, StoreOwes, InStock, WrittenDown, Revenue, CashPaid
  <2> QED BY <2>2, <2>3, ExplainedStep
<1> QED BY <1>6, <1>7, PartiesApart

LEMMA LostGoodsExplained ==
  ASSUME StockInv, Explained, TradeInv', NEW w \in Warehouses, NEW q \in Int, LostGoods(w, q)
  PROVE  Explained'
<1> DEFINE worth == Value(Allocation(w, q))
<1>1. /\ AdjustDown(w, q) /\ UNCHANGED <<purchaseVars, invoiceVars, partyVars>>
      /\ ledger' = Post(ledger, Shrinkage, Goods, worth)
  BY DEF LostGoods
<1>2. /\ UNCHANGED <<batchVars, saleVars, returnVars, sentBack>>
  BY <1>1 DEF AdjustDown
<1>3. worth \in Int
  BY AllocationCost DEF StockInv
<1>4. /\ OnHand' = OnHand - worth /\ LostCost' = LostCost + worth
      /\ SpoiltCost' = SpoiltCost /\ KeptCost' = KeptCost
  BY <1>1, Typing, LostFigures DEF purchaseVars
<1> HIDE DEF worth
<1>5. /\ Owed' = Owed /\ CashOfSales' = CashOfSales
      /\ Sold' = Sold /\ RefundsMade' = RefundsMade
  BY <1>1, <1>2, Typing, SalesAlike DEF saleVars, returnVars, invoiceVars
<1>6. Owing' = Owing /\ HeadersPaid' = HeadersPaid /\ Settled' = Settled
  BY <1>1, <1>2, PurchasesAlike DEF batchVars, purchaseVars
<1>7. Moves(ledger, ledger', 0, 0, -worth, 0, worth, 0, 0)
  BY <1>1, <1>3, Typing, TransactionMoves
<1>8. onAccount' = onAccount /\ adjusted' = adjusted
  BY <1>1 DEF partyVars
<1>9. DocumentsMove(0, 0, -worth, 0, worth, 0, 0)
  BY <1>3, <1>4, <1>5, <1>6, <1>8, Typing
     DEF DocumentsMove, CustomerOwes, StoreOwes, InStock, WrittenDown, Revenue, CashPaid
<1> QED BY <1>7, <1>9, ExplainedStep

LEMMA MoveGoodsExplained ==
  ASSUME StockInv, Explained, TradeInv', NEW b, NEW from, NEW to, NEW q,
         MoveGoods(b, from, to, q)
  PROVE  Explained'
<1>1. /\ UNCHANGED <<purchaseVars, invoiceVars, partyVars, ledger>>
      /\ UNCHANGED <<batchVars, remaining, saleVars, returnVars, sentBack, writtenOff>>
  BY DEF MoveGoods, Transfer
<1>2. /\ OnHand' = OnHand /\ KeptCost' = KeptCost
      /\ SpoiltCost' = SpoiltCost /\ LostCost' = LostCost
  BY <1>1, SameFigures DEF saleVars, returnVars, purchaseVars
<1>3. /\ Owed' = Owed /\ CashOfSales' = CashOfSales
      /\ Sold' = Sold /\ RefundsMade' = RefundsMade
  BY <1>1, Typing, SalesAlike DEF saleVars, returnVars, invoiceVars
<1>4. Owing' = Owing /\ HeadersPaid' = HeadersPaid /\ Settled' = Settled
  BY <1>1, PurchasesAlike DEF batchVars, purchaseVars
<1>5. onAccount' = onAccount /\ adjusted' = adjusted /\ ledger' = ledger
  BY <1>1 DEF partyVars
<1> QED BY <1>2, <1>3, <1>4, <1>5
        DEF Explained, CustomerOwes, StoreOwes, InStock, WrittenDown, Revenue, CashPaid, NetCash

\* The documents after q units of sale s came back.
LEMMA ReturnDocuments ==
  ASSUME StockInv, TradeInv', NEW s \in SaleLines, NEW q \in Int, s <= nSales,
         \A t \in SaleLines : ReturnedOf(t)' = ReturnedOf(t) + (IF t = s THEN q ELSE 0),
         UNCHANGED <<nSales, saleQuantity, price, saleHeader, onCredit, collected>>
  PROVE  /\ q * price[s] \in Int
         /\ Owed' = Owed + (IF s \in onCredit THEN -(q * price[s]) ELSE 0)
         /\ CashOfSales' = CashOfSales + (IF s \in onCredit THEN 0 ELSE -(q * price[s]))
         /\ Sold' = Sold + 0
         /\ RefundsMade' = RefundsMade + q * price[s]
<1> DEFINE refund == q * price[s]
           fromDebt == IF s \in onCredit THEN -refund ELSE 0
           fromCash == IF s \in onCredit THEN 0 ELSE -refund
           returned == ReturnedOf(s) * price[s]
<1>1. TypeOK /\ TradeTypeOK /\ TypeOK' /\ TradeTypeOK'
  BY Typing
<1>2. /\ SaleTotal(s) \in Int /\ price[s] \in Int /\ ReturnedOf(s) \in Int
      /\ returned \in Int /\ collected[s] \in Int
  BY <1>1, SaleInt
<1>3. refund \in Int /\ (ReturnedOf(s) + q) * price[s] = returned + refund
  BY <1>2, TimesRules
<1>4. fromDebt \in Int /\ fromCash \in Int
  BY <1>3
<1>5. /\ SaleTotal(s)' = SaleTotal(s) /\ price'[s] = price[s] /\ collected'[s] = collected[s]
      /\ ReturnedOf(s)' * price'[s] = (ReturnedOf(s) + q) * price[s]
      /\ (s <= nSales)' /\ (s \in onCredit' <=> s \in onCredit)
  BY DEF SaleTotal
<1>6. \A t \in SaleLines : t # s => SameSale(t)
  <2> SUFFICES ASSUME NEW t \in SaleLines, t # s PROVE SameSale(t)
    OBVIOUS
  <2>1. ReturnedOf(t)' = ReturnedOf(t)
    <3>1. ReturnedOf(t) \in Int
      BY <1>1, ReturnedInt
    <3> QED BY <3>1
  <2> QED BY <2>1 DEF SameSale
<1> HIDE DEF refund, returned
<1>7. DebtColumn'[s] = DebtColumn[s] + fromDebt
  <2>1. CASE s \in onCredit
    <3>1. DebtColumn[s] = SaleTotal(s) - ReturnedOf(s) * price[s] - collected[s]
      BY <2>1 DEF DebtColumn, SaleDebt
    <3>2. DebtColumn'[s] = SaleTotal(s)' - ReturnedOf(s)' * price'[s] - collected'[s]
      BY <2>1 DEF DebtColumn, SaleDebt
    <3>3. DebtColumn[s] = SaleTotal(s) - returned - collected[s]
      BY <3>1 DEF returned
    <3>4. DebtColumn'[s] = SaleTotal(s) - (returned + refund) - collected[s]
      BY <1>3, <1>5, <3>2
    <3> QED BY <1>2, <1>3, <2>1, <3>3, <3>4
  <2>2. CASE s \notin onCredit
    <3>1. DebtColumn[s] = 0 /\ DebtColumn'[s] = 0
      BY <2>2 DEF DebtColumn, SaleDebt
    <3> QED BY <2>2, <3>1
  <2> QED BY <2>1, <2>2
<1>8. CashColumn'[s] = CashColumn[s] + fromCash
  <2>1. CASE s \in onCredit
    <3>1. CashColumn[s] = collected[s] /\ CashColumn'[s] = collected'[s]
      BY <1>5, <2>1 DEF CashColumn, SaleCash
    <3> QED BY <1>2, <1>5, <2>1, <3>1
  <2>2. CASE s \notin onCredit
    <3>1. CashColumn[s] = SaleTotal(s) - ReturnedOf(s) * price[s]
      BY <2>2 DEF CashColumn, SaleCash, Refunded
    <3>2. CashColumn'[s] = SaleTotal(s)' - ReturnedOf(s)' * price'[s]
      BY <1>5, <2>2 DEF CashColumn, SaleCash, Refunded
    <3>3. CashColumn[s] = SaleTotal(s) - returned
      BY <3>1 DEF returned
    <3>4. CashColumn'[s] = SaleTotal(s) - (returned + refund)
      BY <1>3, <1>5, <3>2
    <3> QED BY <1>2, <1>3, <2>2, <3>3, <3>4
  <2> QED BY <2>1, <2>2
<1>9. SoldColumn'[s] = SoldColumn[s] + 0
  <2>1. SoldColumn[s] = SaleTotal(s) /\ SoldColumn'[s] = SaleTotal(s)'
    BY <1>5 DEF SoldColumn
  <2> QED BY <1>2, <1>5, <2>1
<1>10. RefundColumn'[s] = RefundColumn[s] + refund
  <2>1. RefundColumn[s] = ReturnedOf(s) * price[s]
    BY DEF RefundColumn, Refunded
  <2>2. RefundColumn'[s] = ReturnedOf(s)' * price'[s]
    BY <1>5 DEF RefundColumn, Refunded
  <2>3. RefundColumn[s] = returned /\ RefundColumn'[s] = returned + refund
    BY <1>3, <1>5, <2>1, <2>2 DEF returned
  <2> QED BY <2>3
<1> HIDE DEF fromDebt, fromCash
<1>11. /\ Owed' = Owed + fromDebt /\ CashOfSales' = CashOfSales + fromCash
       /\ Sold' = Sold + 0 /\ RefundsMade' = RefundsMade + refund
  <2>1. 0 \in Int
    OBVIOUS
  <2> QED BY <1>1, <1>3, <1>4, <1>6, <1>7, <1>8, <1>9, <1>10, <2>1, SaleStep
<1> QED BY <1>3, <1>11 DEF fromDebt, fromCash, refund

\* A refund, against the account of the customer or from the drawer.
LEMMA RefundMoves ==
  ASSUME NEW l, LedgerType(l), NEW s, NEW x \in Int
  PROVE  LET m == Post(l, SalesRevenue, RefundTo(s), x)
         IN  /\ LedgerType(m)
             /\ Moves(l, m, IF s \in onCredit THEN -x ELSE 0, 0, 0, 0, 0, -x,
                            IF s \in onCredit THEN 0 ELSE -x)
<1>1. /\ SalesRevenue \in Accounts /\ RefundTo(s) \in Accounts /\ SalesRevenue # RefundTo(s)
  BY Chart DEF RefundTo, SalesRevenue, Receivable, CashInHand
<1>2. LedgerType(Post(l, SalesRevenue, RefundTo(s), x))
  BY <1>1, PostMoves
<1>3. CASE s \in onCredit
  <2>1. RefundTo(s) = Receivable
    BY <1>3 DEF RefundTo
  <2>2. Moves(l, Post(l, SalesRevenue, Receivable, x), -x, 0, 0, 0, 0, -x, 0)
    BY TransactionMoves
  <2> QED BY <1>2, <1>3, <2>1, <2>2
<1>4. CASE s \notin onCredit
  <2>1. RefundTo(s) = CashInHand
    BY <1>4 DEF RefundTo
  <2>2. Moves(l, Post(l, SalesRevenue, CashInHand, x), 0, 0, 0, 0, 0, -x, -x)
    BY TransactionMoves
  <2> QED BY <1>2, <1>4, <2>1, <2>2
<1> QED BY <1>3, <1>4

LEMMA TakeBackExplained ==
  ASSUME StockInv, Explained, TradeInv', NEW s \in SaleLines, NEW q \in Int, TakeBack(s, q),
         UNCHANGED <<cost, purchaseHeader, settled, price, saleHeader, onCredit, collected,
                     onAccount, adjusted>>
  PROVE  Explained'
<1> DEFINE back == [b \in Batches |-> restocked'[s][b] - restocked[s][b]]
           refund == q * price[s]
           fromDebt == IF s \in onCredit THEN -refund ELSE 0
           fromCash == IF s \in onCredit THEN 0 ELSE -refund
           m == Post(ledger, SalesRevenue, RefundTo(s), refund)
           worth == Value(back)
<1>1. ReturnGood(s, q) /\ ledger' = Post(m, Goods, CostOfGoods, worth)
  BY DEF TakeBack, RestockCost
<1>2. /\ s <= nSales /\ UNCHANGED <<batchVars, saleVars, scrapped, sentBack, writtenOff>>
  BY <1>1 DEF ReturnGood
<1>3. /\ back \in [Batches -> Int]
      /\ OnHand' = OnHand + worth /\ KeptCost' = KeptCost - worth
      /\ SpoiltCost' = SpoiltCost /\ LostCost' = LostCost
      /\ \A t \in SaleLines : ReturnedOf(t)' = ReturnedOf(t) + (IF t = s THEN q ELSE 0)
  <2> HIDE DEF worth
  <2> QED BY <1>1, Typing, RestockFigures DEF worth
<1>4. worth \in Int
  <2> HIDE DEF back
  <2> QED BY <1>3, Typing, ValueInt DEF UnitsType
<1> HIDE DEF back, worth
<1>5. /\ refund \in Int
      /\ Owed' = Owed + fromDebt /\ CashOfSales' = CashOfSales + fromCash
      /\ Sold' = Sold + 0 /\ RefundsMade' = RefundsMade + refund
  BY <1>2, <1>3, ReturnDocuments DEF saleVars
<1>6. fromDebt \in Int /\ fromCash \in Int
  BY <1>5
<1>7. Owing' = Owing /\ HeadersPaid' = HeadersPaid /\ Settled' = Settled
  BY <1>2, PurchasesAlike DEF batchVars
<1> HIDE DEF refund
<1>8. LedgerType(m) /\ Moves(ledger, m, fromDebt, 0, 0, 0, 0, -refund, fromCash)
  BY <1>5, Typing, RefundMoves
<1> HIDE DEF fromDebt, fromCash, m
<1>9. Moves(m, ledger', 0, 0, worth, -worth, 0, 0, 0)
  BY <1>1, <1>4, <1>8, TransactionMoves
<1>10. Moves(ledger, ledger', fromDebt + 0, 0 + 0, 0 + worth, 0 + -worth, 0 + 0, -refund + 0,
             fromCash + 0)
  <2>1. LedgerType(ledger) /\ 0 \in Int /\ -worth \in Int /\ -refund \in Int
    BY <1>4, <1>5, Typing
  <2> QED BY <1>4, <1>6, <1>8, <1>9, <2>1, MovesTwice
<1>11. DocumentsMove(fromDebt + 0, 0 + 0, 0 + worth, 0 + -worth, 0 + 0, -refund + 0,
                     fromCash + 0)
  BY <1>3, <1>4, <1>5, <1>6, <1>7, Typing
     DEF DocumentsMove, CustomerOwes, StoreOwes, InStock, WrittenDown, Revenue, CashPaid
<1> QED BY <1>10, <1>11, ExplainedStep

LEMMA ReturnSpoiledExplained ==
  ASSUME StockInv, Explained, TradeInv', NEW s \in SaleLines, NEW q \in Int, ReturnSpoiled(s, q)
  PROVE  Explained'
<1> DEFINE back == [b \in Batches |-> scrapped'[s][b] - scrapped[s][b]]
           refund == q * price[s]
           fromDebt == IF s \in onCredit THEN -refund ELSE 0
           fromCash == IF s \in onCredit THEN 0 ELSE -refund
           m == Post(ledger, SalesRevenue, RefundTo(s), refund)
           worth == Value(back)
<1>1. /\ ReturnDamaged(s, q) /\ ledger' = Post(m, Shrinkage, CostOfGoods, worth)
      /\ UNCHANGED <<purchaseVars, invoiceVars, partyVars>>
  BY DEF ReturnSpoiled, RestockCost, SpoilageAccount
<1>2. /\ s <= nSales /\ UNCHANGED <<batchVars, saleVars, sentBack>>
  BY <1>1 DEF ReturnDamaged
<1>3. UNCHANGED <<cost, purchaseHeader, settled, price, saleHeader, onCredit, collected,
                  onAccount, adjusted>>
  BY <1>1 DEF purchaseVars, invoiceVars, partyVars
<1>4. /\ back \in [Batches -> Int]
      /\ SpoiltCost' = SpoiltCost + worth /\ KeptCost' = KeptCost - worth
      /\ OnHand' = OnHand /\ LostCost' = LostCost
      /\ \A t \in SaleLines : ReturnedOf(t)' = ReturnedOf(t) + (IF t = s THEN q ELSE 0)
  <2> HIDE DEF worth
  <2> QED BY <1>1, <1>3, Typing, SpoiltFigures DEF worth
<1>5. worth \in Int
  <2> HIDE DEF back
  <2> QED BY <1>4, Typing, ValueInt DEF UnitsType
<1> HIDE DEF back, worth
<1>6. /\ refund \in Int
      /\ Owed' = Owed + fromDebt /\ CashOfSales' = CashOfSales + fromCash
      /\ Sold' = Sold + 0 /\ RefundsMade' = RefundsMade + refund
  BY <1>2, <1>3, <1>4, ReturnDocuments DEF saleVars
<1>7. fromDebt \in Int /\ fromCash \in Int
  BY <1>6
<1>8. Owing' = Owing /\ HeadersPaid' = HeadersPaid /\ Settled' = Settled
  BY <1>2, <1>3, PurchasesAlike DEF batchVars
<1> HIDE DEF refund
<1>9. LedgerType(m) /\ Moves(ledger, m, fromDebt, 0, 0, 0, 0, -refund, fromCash)
  BY <1>6, Typing, RefundMoves
<1> HIDE DEF fromDebt, fromCash, m
<1>10. Moves(m, ledger', 0, 0, 0, -worth, worth, 0, 0)
  BY <1>1, <1>5, <1>9, TransactionMoves
<1>11. Moves(ledger, ledger', fromDebt + 0, 0 + 0, 0 + 0, 0 + -worth, 0 + worth, -refund + 0,
             fromCash + 0)
  <2>1. LedgerType(ledger) /\ 0 \in Int /\ -worth \in Int /\ -refund \in Int
    BY <1>5, <1>6, Typing
  <2> QED BY <1>5, <1>7, <1>9, <1>10, <2>1, MovesTwice
<1>12. DocumentsMove(fromDebt + 0, 0 + 0, 0 + 0, 0 + -worth, 0 + worth, -refund + 0,
                     fromCash + 0)
  BY <1>3, <1>4, <1>5, <1>6, <1>7, <1>8, Typing
     DEF DocumentsMove, CustomerOwes, StoreOwes, InStock, WrittenDown, Revenue, CashPaid
<1> QED BY <1>11, <1>12, ExplainedStep

\* Batch k is created, and debt is what its purchase leaves the store owing.
BatchRow(k, q, c, h, paid, from, debt) ==
  /\ k = nBatches + 1
  /\ initial' = [initial EXCEPT ![k] = q] /\ cost' = [cost EXCEPT ![k] = c]
  /\ origin' = [origin EXCEPT ![k] = from]
  /\ purchaseHeader' = [purchaseHeader EXCEPT ![k] = h]
  /\ settled' = [settled EXCEPT ![k] = paid]
  /\ UNCHANGED sentBack
  /\ IF from = 0 THEN h = 0 /\ paid = 0 /\ debt = 0
                 ELSE debt = PurchaseTotal(k)' - paid

\* The purchase documents after a batch came in, bought or found.
LEMMA NewBatchDocuments ==
  ASSUME StockInv, TradeInv', NEW k \in Batches, NEW q \in Int, NEW c \in Int, NEW h \in Int,
         NEW paid \in Int, NEW from \in Nat, NEW debt \in Int,
         BatchRow(k, q, c, h, paid, from, debt)
  PROVE  /\ Owing' = Owing + debt
         /\ HeadersPaid' = HeadersPaid + h
         /\ Settled' = Settled + paid
<1> USE DEF BatchRow
<1>1. TypeOK /\ TradeTypeOK /\ TypeOK' /\ TradeTypeOK'
  BY Typing
<1>2. k > nBatches
  BY <1>1 DEF TypeOK
<1>3. origin[k] = 0 /\ purchaseHeader[k] = 0 /\ settled[k] = 0 /\ sentBack[k] = 0
  BY <1>2 DEF StockInv, NoInvoice, TradeInv, Unpaid, CoverInv, SpareRows
<1>4. /\ initial'[k] = q /\ cost'[k] = c /\ origin'[k] = from
      /\ purchaseHeader'[k] = h /\ settled'[k] = paid /\ sentBack'[k] = 0
  BY <1>1, <1>3 DEF TypeOK, TradeTypeOK
<1>5. \A b \in Batches : b # k => SamePurchase(b)
  BY <1>1 DEF SamePurchase, TypeOK, TradeTypeOK
<1>6. OwingColumn[k] = 0
  BY <1>3 DEF OwingColumn, PurchaseDebt
<1>7. OwingColumn'[k] = debt
  <2>1. CASE from = 0
    BY <1>4, <2>1 DEF OwingColumn, PurchaseDebt
  <2>2. CASE from # 0
    <3>1. OwingColumn'[k] = PurchaseTotal(k)' - sentBack'[k] * cost'[k] - settled'[k]
      BY <1>4, <2>2 DEF OwingColumn, PurchaseDebt
    <3>2. PurchaseTotal(k)' \in Int
      <4>1. q * c \in Int /\ PurchaseTotal(k)' = q * c + h
        BY <1>4, TimesRules DEF PurchaseTotal
      <4> QED BY <4>1
    <3>3. sentBack'[k] * cost'[k] = 0
      BY <1>4, TimesRules
    <3> QED BY <1>4, <2>2, <3>1, <3>2, <3>3
  <2> QED BY <2>1, <2>2
<1>8. OwingColumn'[k] = OwingColumn[k] + debt
  BY <1>6, <1>7
<1>9. purchaseHeader'[k] = purchaseHeader[k] + h /\ settled'[k] = settled[k] + paid
  BY <1>3, <1>4
<1> QED BY <1>1, <1>5, <1>8, <1>9, PurchaseStep

LEMMA FoundGoodsExplained ==
  ASSUME StockInv, Explained, TradeInv', NEW w \in Warehouses, NEW q \in Int, NEW c \in Int,
         FoundGoods(w, q, c)
  PROVE  Explained'
<1> DEFINE worth == q * c
<1>1. /\ AdjustUp(w, q) /\ cost' = [cost EXCEPT ![nBatches + 1] = c]
      /\ ledger' = Post(ledger, Goods, AdjustmentIncome, worth)
      /\ UNCHANGED <<purchaseHeader, settled, voidedPurchases, invoiceVars, partyVars>>
  BY DEF FoundGoods
<1>2. /\ ReceiveStock(w, q, NoExpiry, 0)
      /\ UNCHANGED <<saleVars, returnVars, sentBack, writtenOff>>
  BY <1>1 DEF AdjustUp
<1>3. nBatches < MaxBatches /\ nBatches \in Nat
  BY <1>2, Typing DEF ReceiveStock, TypeOK
<1>4. PICK k \in Batches : k = nBatches + 1
  BY <1>3 DEF Batches
<1>5. /\ initial' = [initial EXCEPT ![k] = q] /\ cost' = [cost EXCEPT ![k] = c]
      /\ origin' = [origin EXCEPT ![k] = 0]
  BY <1>1, <1>2, <1>4 DEF ReceiveStock
<1>6. k > nBatches
  BY <1>3, <1>4
<1>7. purchaseHeader[k] = 0 /\ settled[k] = 0
  BY <1>6 DEF StockInv, NoInvoice, TradeInv, Unpaid
<1>8. /\ purchaseHeader' = [purchaseHeader EXCEPT ![k] = 0]
      /\ settled' = [settled EXCEPT ![k] = 0]
  BY <1>1, <1>7, Typing DEF TradeTypeOK
<1>9. Owing' = Owing + 0 /\ HeadersPaid' = HeadersPaid + 0 /\ Settled' = Settled + 0
  <2>1. BatchRow(k, q, c, 0, 0, 0, 0)
    BY <1>2, <1>4, <1>5, <1>8 DEF BatchRow
  <2>2. 0 \in Int /\ 0 \in Nat
    OBVIOUS
  <2> QED BY <2>1, <2>2, NewBatchDocuments
<1>10. worth \in Int
  BY TimesRules
<1>11. /\ OnHand' = OnHand + worth
       /\ KeptCost' = KeptCost /\ SpoiltCost' = SpoiltCost /\ LostCost' = LostCost
  BY <1>1, <1>2, Typing, ReceiveFigures DEF saleVars, returnVars
<1> HIDE DEF worth
<1>12. /\ Owed' = Owed /\ CashOfSales' = CashOfSales
       /\ Sold' = Sold /\ RefundsMade' = RefundsMade
  BY <1>1, <1>2, Typing, SalesAlike DEF saleVars, returnVars, invoiceVars
<1>13. Moves(ledger, ledger', 0, 0, worth, 0, 0, 0, 0)
  BY <1>1, <1>10, Typing, TransactionMoves
<1>14. onAccount' = onAccount /\ adjusted' = adjusted
  BY <1>1 DEF partyVars
<1>15. DocumentsMove(0, 0, worth, 0, 0, 0, 0)
  BY <1>9, <1>10, <1>11, <1>12, <1>14, Typing
     DEF DocumentsMove, CustomerOwes, StoreOwes, InStock, WrittenDown, Revenue, CashPaid
<1> QED BY <1>13, <1>15, ExplainedStep

LEMMA BuyGoodsExplained ==
  ASSUME StockInv, Explained, TradeInv', NEW w \in Warehouses, NEW q \in Int, NEW e,
         NEW c \in Int, NEW h \in Int, NEW tendered \in Int, NEW place \in Places,
         BuyGoods(w, q, e, c, h, tendered, place)
  PROVE  Explained'
<1> DEFINE worth == q * c
           total == q * c + h
           paid == Applied(tendered, total)
           m == Post(ledger, Goods, Payable, total)
<1>1. /\ Purchase(w, q, e) /\ PaymentAccepted(tendered, total)
      /\ cost' = [cost EXCEPT ![nBatches + 1] = c]
      /\ purchaseHeader' = [purchaseHeader EXCEPT ![nBatches + 1] = h]
      /\ settled' = [settled EXCEPT ![nBatches + 1] = paid]
      /\ ledger' = Post(m, Payable, place, paid)
      /\ UNCHANGED <<voidedPurchases, invoiceVars, partyVars>>
  BY DEF BuyGoods
<1>2. /\ ReceiveStock(w, q, e, w)
      /\ UNCHANGED <<saleVars, returnVars, sentBack, writtenOff>>
  BY <1>1 DEF Purchase
<1>3. nBatches < MaxBatches /\ nBatches \in Nat
  BY <1>2, Typing DEF ReceiveStock, TypeOK
<1>4. PICK k \in Batches : k = nBatches + 1
  BY <1>3 DEF Batches
<1>5. worth \in Int /\ total \in Int
  BY TimesRules
<1>6. paid \in Int
  <2> HIDE DEF total
  <2>1. paid \in 0..Larger(0, total)
    BY <1>1, <1>5, AppliedBound
  <2> QED BY <1>5, <2>1 DEF Larger
<1> HIDE DEF paid
<1>7. /\ initial' = [initial EXCEPT ![k] = q] /\ cost' = [cost EXCEPT ![k] = c]
      /\ origin' = [origin EXCEPT ![k] = w]
      /\ purchaseHeader' = [purchaseHeader EXCEPT ![k] = h]
      /\ settled' = [settled EXCEPT ![k] = paid]
  BY <1>1, <1>2, <1>4 DEF ReceiveStock
<1>8. w \in Nat /\ w # 0
  BY WarehousesAssumption DEF Warehouses
<1>9. /\ Owing' = Owing + (total - paid) /\ HeadersPaid' = HeadersPaid + h
      /\ Settled' = Settled + paid
  <2>1. PurchaseTotal(k)' = total
    <3>1. initial'[k] = q /\ cost'[k] = c /\ purchaseHeader'[k] = h
      BY <1>7, Typing DEF TypeOK, TradeTypeOK
    <3> QED BY <3>1 DEF PurchaseTotal
  <2> HIDE DEF total
  <2>2. PICK debt \in Int : debt = total - paid
    BY <1>5, <1>6
  <2>3. BatchRow(k, q, c, h, paid, w, debt)
    BY <1>2, <1>4, <1>7, <1>8, <2>1, <2>2 DEF BatchRow
  <2>4. Owing' = Owing + debt /\ HeadersPaid' = HeadersPaid + h /\ Settled' = Settled + paid
    BY <1>6, <1>8, <2>3, NewBatchDocuments
  <2> QED BY <2>2, <2>4
<1>10. /\ OnHand' = OnHand + worth
       /\ KeptCost' = KeptCost /\ SpoiltCost' = SpoiltCost /\ LostCost' = LostCost
  BY <1>1, <1>2, Typing, ReceiveFigures DEF saleVars, returnVars
<1>11. /\ Owed' = Owed /\ CashOfSales' = CashOfSales
       /\ Sold' = Sold /\ RefundsMade' = RefundsMade
  BY <1>1, <1>2, Typing, SalesAlike DEF saleVars, returnVars, invoiceVars
<1>12. total = worth + h
  OBVIOUS
<1> HIDE DEF total, worth
<1>13. LedgerType(m) /\ Moves(ledger, m, 0, total, total, 0, 0, 0, 0)
  <2>1. Goods \in Accounts /\ Payable \in Accounts /\ Goods # Payable
    BY Chart DEF Goods, Payable
  <2>2. LedgerType(m)
    BY <1>5, <2>1, Typing, PostMoves
  <2> QED BY <1>5, <2>2, Typing, TransactionMoves
<1> HIDE DEF m
<1>14. Moves(m, ledger', 0, -paid, 0, 0, 0, 0, -paid)
  BY <1>1, <1>6, <1>13, PaymentMoves
<1>15. Moves(ledger, ledger', 0 + 0, total + -paid, total + 0, 0 + 0, 0 + 0, 0 + 0, 0 + -paid)
  <2>1. LedgerType(ledger) /\ 0 \in Int /\ -paid \in Int
    BY <1>6, Typing
  <2> QED BY <1>5, <1>13, <1>14, <2>1, MovesTwice
<1>16. onAccount' = onAccount /\ adjusted' = adjusted
  BY <1>1 DEF partyVars
<1>17. DocumentsMove(0 + 0, total + -paid, total + 0, 0 + 0, 0 + 0, 0 + 0, 0 + -paid)
  BY <1>5, <1>6, <1>9, <1>10, <1>11, <1>12, <1>16, Typing
     DEF DocumentsMove, CustomerOwes, StoreOwes, InStock, WrittenDown, Revenue, CashPaid
<1> QED BY <1>15, <1>17, ExplainedStep

\* Sale k is created; debt is what its buyer still owes and cash what was paid.
SaleRow(k, q, p, h, paid, total, debt, cash) ==
  /\ k = nSales + 1 /\ nSales' = nSales + 1
  /\ saleQuantity' = [saleQuantity EXCEPT ![k] = q] /\ price' = [price EXCEPT ![k] = p]
  /\ saleHeader' = [saleHeader EXCEPT ![k] = h] /\ collected' = [collected EXCEPT ![k] = paid]
  /\ onCredit' \in {onCredit, onCredit \cup {k}}
  /\ UNCHANGED <<restocked, scrapped>>
  /\ total = SaleTotal(k)'
  /\ IF k \in onCredit' THEN debt = total - paid /\ cash = paid
                        ELSE debt = 0 /\ cash = total

\* The documents after a sale.
LEMMA NewSaleDocuments ==
  ASSUME StockInv, TradeInv', NEW k \in SaleLines, NEW q \in Int, NEW p \in Int, NEW h \in Int,
         NEW paid \in Int, NEW total \in Int, NEW debt \in Int, NEW cash \in Int,
         SaleRow(k, q, p, h, paid, total, debt, cash)
  PROVE  /\ Owed' = Owed + debt /\ CashOfSales' = CashOfSales + cash
         /\ Sold' = Sold + total /\ RefundsMade' = RefundsMade + 0
<1> USE DEF SaleRow
<1>1. TypeOK /\ TradeTypeOK /\ TypeOK' /\ TradeTypeOK'
  BY Typing
<1>2. nSales \in Nat /\ k > nSales /\ ~(k <= nSales) /\ (k <= nSales)'
  BY <1>1 DEF TypeOK
<1>3. k \notin onCredit
  BY <1>1, <1>2 DEF TradeTypeOK
<1>4. \A s \in SaleLines : ReturnedOf(s)' = ReturnedOf(s)
  BY DEF ReturnedOf
<1>5. ReturnedOf(k)' = 0
  <2> DEFINE f == [b \in Batches |-> restocked[k][b] + scrapped[k][b]]
  <2>1. \A b \in Batches : restocked[k][b] = 0 /\ scrapped[k][b] = 0
    BY <1>2 DEF StockInv, TradeInv, IInv, BlankRows
  <2>2. f \in [1..MaxBatches -> Int] /\ \A b \in 1..MaxBatches : f[b] = 0
    BY <2>1 DEF Batches
  <2>3. SumUpTo(f, MaxBatches) = 0
    <3> HIDE DEF f
    <3> QED BY <2>2, SumZero
  <2> QED BY <1>4, <2>3 DEF ReturnedOf
<1>6. collected'[k] = paid /\ price'[k] = p
  BY <1>1 DEF TradeTypeOK
<1>7. \A s \in SaleLines : s # k => SameSale(s)
  <2> SUFFICES ASSUME NEW s \in SaleLines, s # k PROVE SameSale(s)
    OBVIOUS
  <2>1. /\ saleQuantity'[s] = saleQuantity[s] /\ price'[s] = price[s]
        /\ saleHeader'[s] = saleHeader[s] /\ collected'[s] = collected[s]
    BY <1>1 DEF TypeOK, TradeTypeOK
  <2>2. s \in onCredit' <=> s \in onCredit
    OBVIOUS
  <2>3. s <= nSales' <=> s <= nSales
    BY <1>2 DEF SaleLines
  <2> QED BY <1>4, <2>1, <2>2, <2>3 DEF SameSale
<1>8. DebtColumn'[k] = DebtColumn[k] + debt
  <2>1. DebtColumn[k] = 0
    BY <1>3 DEF DebtColumn, SaleDebt
  <2>2. DebtColumn'[k] = debt
    <3>1. CASE k \in onCredit'
      <4>1. DebtColumn'[k] = SaleTotal(k)' - ReturnedOf(k)' * price'[k] - collected'[k]
        BY <3>1 DEF DebtColumn, SaleDebt
      <4>2. ReturnedOf(k)' * price'[k] = 0
        BY <1>5, <1>6, TimesRules
      <4> QED BY <1>6, <3>1, <4>1, <4>2
    <3>2. CASE k \notin onCredit'
      BY <3>2 DEF DebtColumn, SaleDebt
    <3> QED BY <3>1, <3>2
  <2> QED BY <2>1, <2>2
<1>9. CashColumn'[k] = CashColumn[k] + cash
  <2>1. CashColumn[k] = 0
    BY <1>2 DEF CashColumn
  <2>2. CashColumn'[k] = cash
    <3>1. CASE k \in onCredit'
      BY <1>2, <1>6, <3>1 DEF CashColumn, SaleCash
    <3>2. CASE k \notin onCredit'
      <4>1. CashColumn'[k] = SaleTotal(k)' - ReturnedOf(k)' * price'[k]
        BY <1>2, <3>2 DEF CashColumn, SaleCash, Refunded
      <4>2. ReturnedOf(k)' * price'[k] = 0
        BY <1>5, <1>6, TimesRules
      <4> QED BY <3>2, <4>1, <4>2
    <3> QED BY <3>1, <3>2
  <2> QED BY <2>1, <2>2
<1>10. SoldColumn'[k] = SoldColumn[k] + total
  BY <1>2 DEF SoldColumn
<1>11. RefundColumn'[k] = RefundColumn[k] + 0
  <2>1. RefundColumn[k] = 0
    BY <1>2 DEF RefundColumn
  <2>2. RefundColumn'[k] = ReturnedOf(k)' * price'[k]
    BY <1>2 DEF RefundColumn, Refunded
  <2> QED BY <1>5, <1>6, <2>1, <2>2, TimesRules
<1>12. 0 \in Int
  OBVIOUS
<1> HIDE DEF SaleRow
<1> QED BY <1>1, <1>7, <1>8, <1>9, <1>10, <1>11, <1>12, SaleStep

LEMMA SellToCustomerExplained ==
  ASSUME StockInv, Explained, TradeInv', NEW w \in Warehouses, NEW q \in Int, NEW p \in Int,
         NEW h \in Int, NEW tendered \in Int, NEW place \in Places,
         SellToCustomer(w, q, p, h, tendered, place)
  PROVE  Explained'
<1> DEFINE total == q * p + h
           paid == Applied(tendered, total)
           worth == Value(Allocation(w, q))
           l1 == Post(ledger, Receivable, SalesRevenue, total)
           l2 == Post(l1, place, Receivable, paid)
<1>1. /\ Sell(w, q) /\ PaymentAccepted(tendered, total)
      /\ price' = [price EXCEPT ![nSales + 1] = p]
      /\ saleHeader' = [saleHeader EXCEPT ![nSales + 1] = h]
      /\ onCredit' = onCredit \cup {nSales + 1}
      /\ collected' = [collected EXCEPT ![nSales + 1] = paid]
      /\ ledger' = Post(l2, CostOfGoods, Goods, worth)
      /\ UNCHANGED <<purchaseVars, voidedSales, partyVars>>
  BY DEF SellToCustomer
<1>2. /\ nSales < MaxSales /\ nSales' = nSales + 1
      /\ saleQuantity' = [saleQuantity EXCEPT ![nSales + 1] = q]
      /\ UNCHANGED <<batchVars, returnVars, sentBack, writtenOff>>
  BY <1>1 DEF Sell
<1>3. nSales \in Nat /\ nSales + 1 \in 1..MaxSales
  BY <1>2, Typing DEF TypeOK
<1>4. PICK k \in SaleLines : k = nSales + 1
  BY <1>3 DEF SaleLines
<1>5. total \in Int
  BY TimesRules
<1>6. paid \in Int
  <2> HIDE DEF total
  <2>1. paid \in 0..Larger(0, total)
    BY <1>1, <1>5, AppliedBound
  <2> QED BY <1>5, <2>1 DEF Larger
<1> HIDE DEF paid
<1>7. worth \in Int
  BY AllocationCost DEF StockInv
<1>8. /\ OnHand' = OnHand - worth /\ KeptCost' = KeptCost + worth
      /\ SpoiltCost' = SpoiltCost /\ LostCost' = LostCost
  BY <1>1, Typing, SellFigures DEF purchaseVars
<1> HIDE DEF worth
<1>9. /\ Owed' = Owed + (total - paid) /\ CashOfSales' = CashOfSales + paid
      /\ Sold' = Sold + total /\ RefundsMade' = RefundsMade + 0
  <2>1. SaleTotal(k)' = total
    <3>1. saleQuantity'[k] = q /\ price'[k] = p /\ saleHeader'[k] = h
      BY <1>1, <1>2, <1>4, Typing DEF TypeOK, TradeTypeOK
    <3> QED BY <3>1 DEF SaleTotal
  <2> HIDE DEF total
  <2>2. PICK debt \in Int : debt = total - paid
    BY <1>5, <1>6
  <2>3. k \in onCredit' /\ onCredit' = onCredit \cup {k}
    BY <1>1, <1>4
  <2>4. SaleRow(k, q, p, h, paid, total, debt, paid)
    BY <1>1, <1>2, <1>4, <2>1, <2>2, <2>3 DEF SaleRow, returnVars
  <2>5. Owed' = Owed + debt /\ CashOfSales' = CashOfSales + paid
        /\ Sold' = Sold + total /\ RefundsMade' = RefundsMade + 0
    BY <1>5, <1>6, <2>2, <2>4, NewSaleDocuments
  <2> QED BY <2>2, <2>5
<1>10. Owing' = Owing /\ HeadersPaid' = HeadersPaid /\ Settled' = Settled
  BY <1>1, <1>2, PurchasesAlike DEF batchVars, purchaseVars
<1> HIDE DEF total
<1>11. LedgerType(l1) /\ Moves(ledger, l1, total, 0, 0, 0, 0, total, 0)
  <2>1. Receivable \in Accounts /\ SalesRevenue \in Accounts /\ Receivable # SalesRevenue
    BY Chart DEF Receivable, SalesRevenue
  <2>2. LedgerType(l1)
    BY <1>5, <2>1, Typing, PostMoves
  <2> QED BY <1>5, <2>2, Typing, TransactionMoves
<1> HIDE DEF l1
<1>12. LedgerType(l2) /\ Moves(l1, l2, -paid, 0, 0, 0, 0, 0, paid)
  <2>1. place \in Accounts /\ Receivable \in Accounts /\ place # Receivable
    BY Chart DEF Receivable, CashInHand, Till, Safe, Bank
  <2>2. LedgerType(l2)
    BY <1>6, <1>11, <2>1, PostMoves
  <2> QED BY <1>6, <1>11, <2>2, PaymentMoves
<1> HIDE DEF l2
<1>13. Moves(l2, ledger', 0, 0, -worth, worth, 0, 0, 0)
  BY <1>1, <1>7, <1>12, TransactionMoves
<1>14. Moves(ledger, l2, total + -paid, 0 + 0, 0 + 0, 0 + 0, 0 + 0, total + 0, 0 + paid)
  <2>1. LedgerType(ledger) /\ 0 \in Int /\ -paid \in Int
    BY <1>6, Typing
  <2> QED BY <1>5, <1>6, <1>11, <1>12, <2>1, MovesTwice
<1>15. PICK due \in Int : due = total + -paid
  BY <1>5, <1>6
<1>16. Moves(ledger, l2, due, 0, 0, 0, 0, total, paid)
  <2>1. 0 + 0 = 0 /\ total + 0 = total /\ 0 + paid = paid
    BY <1>5, <1>6
  <2> QED BY <1>14, <1>15, <2>1
<1>17. Moves(ledger, ledger', due + 0, 0 + 0, 0 + -worth, 0 + worth, 0 + 0, total + 0, paid + 0)
  <2>1. LedgerType(ledger) /\ 0 \in Int /\ -worth \in Int
    BY <1>7, Typing
  <2> QED BY <1>5, <1>6, <1>7, <1>13, <1>16, <2>1, MovesTwice
<1>18. onAccount' = onAccount /\ adjusted' = adjusted
  BY <1>1 DEF partyVars
<1>19. DocumentsMove(due + 0, 0 + 0, 0 + -worth, 0 + worth, 0 + 0, total + 0, paid + 0)
  BY <1>5, <1>6, <1>7, <1>8, <1>9, <1>10, <1>15, <1>18, Typing
     DEF DocumentsMove, CustomerOwes, StoreOwes, InStock, WrittenDown, Revenue, CashPaid
<1> QED BY <1>17, <1>19, ExplainedStep

LEMMA SellToWalkInExplained ==
  ASSUME StockInv, Explained, TradeInv', NEW w \in Warehouses, NEW q \in Int, NEW p \in Int,
         NEW h \in Int, NEW place \in Places, SellToWalkIn(w, q, p, h, place)
  PROVE  Explained'
<1> DEFINE total == q * p + h
           worth == Value(Allocation(w, q))
           l1 == Post(ledger, place, SalesRevenue, total)
<1>1. /\ Sell(w, q)
      /\ price' = [price EXCEPT ![nSales + 1] = p]
      /\ saleHeader' = [saleHeader EXCEPT ![nSales + 1] = h]
      /\ ledger' = Post(l1, CostOfGoods, Goods, worth)
      /\ UNCHANGED <<purchaseVars, onCredit, collected, voidedSales, partyVars>>
  BY DEF SellToWalkIn
<1>2. /\ nSales < MaxSales /\ nSales' = nSales + 1
      /\ saleQuantity' = [saleQuantity EXCEPT ![nSales + 1] = q]
      /\ UNCHANGED <<batchVars, returnVars, sentBack, writtenOff>>
  BY <1>1 DEF Sell
<1>3. nSales \in Nat /\ nSales + 1 \in 1..MaxSales
  BY <1>2, Typing DEF TypeOK
<1>4. PICK k \in SaleLines : k = nSales + 1
  BY <1>3 DEF SaleLines
<1>5. total \in Int
  BY TimesRules
<1>6. worth \in Int
  BY AllocationCost DEF StockInv
<1>7. /\ OnHand' = OnHand - worth /\ KeptCost' = KeptCost + worth
      /\ SpoiltCost' = SpoiltCost /\ LostCost' = LostCost
  BY <1>1, Typing, SellFigures DEF purchaseVars
<1> HIDE DEF worth
<1>8. /\ Owed' = Owed + 0 /\ CashOfSales' = CashOfSales + total
      /\ Sold' = Sold + total /\ RefundsMade' = RefundsMade + 0
  <2>1. SaleTotal(k)' = total
    <3>1. saleQuantity'[k] = q /\ price'[k] = p /\ saleHeader'[k] = h
      BY <1>1, <1>2, <1>4, Typing DEF TypeOK, TradeTypeOK
    <3> QED BY <3>1 DEF SaleTotal
  <2> HIDE DEF total
  <2>2. k > nSales
    BY <1>3, <1>4
  <2>3. k \notin onCredit' /\ collected[k] = 0
    <3>1. Unpaid
      BY DEF StockInv, TradeInv
    <3>2. collected[k] = 0
      BY <2>2, <3>1 DEF Unpaid
    <3>3. onCredit \subseteq 1..nSales /\ onCredit' = onCredit
      BY <1>1, Typing DEF TradeTypeOK
    <3>4. k \notin 1..nSales
      BY <1>3, <2>2
    <3>5. k \notin onCredit'
      BY <3>3, <3>4
    <3> QED BY <3>2, <3>5
  <2>4. collected' = [collected EXCEPT ![k] = 0]
    BY <1>1, <2>3, Typing DEF TradeTypeOK
  <2>5. SaleRow(k, q, p, h, 0, total, 0, total)
    BY <1>1, <1>2, <1>4, <2>1, <2>3, <2>4 DEF SaleRow, returnVars
  <2>6. 0 \in Int
    OBVIOUS
  <2> QED BY <1>5, <2>5, <2>6, NewSaleDocuments
<1>9. Owing' = Owing /\ HeadersPaid' = HeadersPaid /\ Settled' = Settled
  BY <1>1, <1>2, PurchasesAlike DEF batchVars, purchaseVars
<1> HIDE DEF total
<1>10. LedgerType(l1) /\ Moves(ledger, l1, 0, 0, 0, 0, 0, total, total)
  <2>1. place \in Accounts /\ SalesRevenue \in Accounts /\ place # SalesRevenue
    BY Chart DEF SalesRevenue, CashInHand, Till, Safe, Bank
  <2>2. LedgerType(l1)
    BY <1>5, <2>1, Typing, PostMoves
  <2> QED BY <1>5, <2>2, Typing, PaymentMoves
<1> HIDE DEF l1
<1>11. Moves(l1, ledger', 0, 0, -worth, worth, 0, 0, 0)
  BY <1>1, <1>6, <1>10, TransactionMoves
<1>12. Moves(ledger, ledger', 0 + 0, 0 + 0, 0 + -worth, 0 + worth, 0 + 0, total + 0, total + 0)
  <2>1. LedgerType(ledger) /\ 0 \in Int /\ -worth \in Int
    BY <1>6, Typing
  <2> QED BY <1>5, <1>6, <1>10, <1>11, <2>1, MovesTwice
<1>13. onAccount' = onAccount /\ adjusted' = adjusted
  BY <1>1 DEF partyVars
<1>14. DocumentsMove(0 + 0, 0 + 0, 0 + -worth, 0 + worth, 0 + 0, total + 0, total + 0)
  BY <1>5, <1>6, <1>7, <1>8, <1>9, <1>13, Typing
     DEF DocumentsMove, CustomerOwes, StoreOwes, InStock, WrittenDown, Revenue, CashPaid
<1> QED BY <1>12, <1>14, ExplainedStep

-----------------------------------------------------------------------------

\* An invoice comes with its batch.
LEMMA NoInvoiceStep ==
  ASSUME StockInv, [TradeNext]_tradeVars
  PROVE  NoInvoice'
<1>1. TypeOK /\ TradeTypeOK /\ NoInvoice
  BY DEF StockInv, TradeInv, IInv
<1>2. nBatches \in Nat /\ origin \in [Batches -> 0..NWarehouses] /\ purchaseHeader \in [Batches -> Int]
  BY <1>1 DEF TypeOK, TradeTypeOK
<1>3. ASSUME nBatches' = nBatches + 1, NEW from, NEW h,
             origin' = [origin EXCEPT ![nBatches + 1] = from],
             purchaseHeader' = [purchaseHeader EXCEPT ![nBatches + 1] = h]
      PROVE  NoInvoice'
  <2> SUFFICES ASSUME NEW b \in Batches, b > nBatches' PROVE origin'[b] = 0 /\ purchaseHeader'[b] = 0
    BY DEF NoInvoice
  <2>1. b > nBatches /\ b # nBatches + 1
    BY <1>2, <1>3 DEF Batches
  <2> QED BY <1>1, <1>2, <1>3, <2>1 DEF NoInvoice
<1>4. ASSUME NEW w \in Warehouses, NEW q \in Quantities, NEW e, NEW c \in Costs, NEW h \in Headers,
             NEW t \in Tenders, NEW place \in Places, BuyGoods(w, q, e, c, h, t, place)
      PROVE  NoInvoice'
  BY <1>3, <1>4 DEF BuyGoods, Purchase, ReceiveStock
<1>5. ASSUME NEW w \in Warehouses, NEW q \in Quantities, NEW c \in Costs, FoundGoods(w, q, c)
      PROVE  NoInvoice'
  <2>1. /\ nBatches' = nBatches + 1 /\ origin' = [origin EXCEPT ![nBatches + 1] = 0]
        /\ purchaseHeader' = purchaseHeader
    BY <1>5 DEF FoundGoods, AdjustUp, ReceiveStock
  <2> SUFFICES ASSUME NEW b \in Batches, b > nBatches' PROVE origin'[b] = 0 /\ purchaseHeader'[b] = 0
    BY DEF NoInvoice
  <2>2. b > nBatches
    BY <1>2, <2>1 DEF Batches
  <2> QED BY <1>1, <1>2, <2>1, <2>2 DEF NoInvoice
<1>6. ASSUME UNCHANGED <<nBatches, origin, purchaseHeader>>
      PROVE  NoInvoice'
  BY <1>1, <1>6 DEF NoInvoice
<1>7. ASSUME NEW b, NEW q, SendBack(b, q), UNCHANGED purchaseHeader
      PROVE  NoInvoice'
  BY <1>6, <1>7 DEF SendBack, ReturnToSupplier, batchVars
<1>8. ASSUME NEW s, NEW q, TakeBack(s, q), UNCHANGED purchaseVars
      PROVE  NoInvoice'
  BY <1>6, <1>8 DEF TakeBack, ReturnGood, batchVars, purchaseVars
<1>9. ASSUME NEW w, NEW q, Sell(w, q), UNCHANGED purchaseVars
      PROVE  NoInvoice'
  BY <1>6, <1>9 DEF Sell, batchVars, purchaseVars
<1>10. ASSUME UNCHANGED vars, UNCHANGED purchaseHeader
       PROVE  NoInvoice'
  BY <1>6, <1>10 DEF vars, batchVars
<1>11. CASE \E b \in Batches, a \in Amounts, place \in Places : PayPurchase(b, a, place)
  BY <1>10, <1>11 DEF PayPurchase
<1>12. CASE \/ \E b \in Batches, q \in Quantities : ReturnPurchase(b, q)
            \/ \E b \in Batches : CancelPurchase(b)
  BY <1>7, <1>12 DEF ReturnPurchase, CancelPurchase, purchaseVars
<1>13. CASE \/ \E s \in SaleLines, q \in Quantities : ReturnSale(s, q)
            \/ \E s \in SaleLines : CancelSale(s)
  BY <1>8, <1>13 DEF ReturnSale, CancelSale
<1>14. CASE \E s \in SaleLines, q \in Quantities : ReturnSpoiled(s, q)
  BY <1>6, <1>14 DEF ReturnSpoiled, ReturnDamaged, batchVars, purchaseVars
<1>15. CASE \/ \E w \in Warehouses, q \in Quantities, p \in Prices, h \in Headers,
                  t \in Tenders, place \in Places : SellToCustomer(w, q, p, h, t, place)
            \/ \E w \in Warehouses, q \in Quantities, p \in Prices, h \in Headers,
                  place \in Places : SellToWalkIn(w, q, p, h, place)
  BY <1>9, <1>15 DEF SellToCustomer, SellToWalkIn
<1>16. CASE \/ \E s \in SaleLines, a \in Amounts, place \in Places : PaySale(s, a, place)
            \/ \E p \in Parties, a \in Amounts, place \in Places :
                 ReceiveFrom(p, a, place) \/ GiveTo(p, a, place)
            \/ \E p \in Parties, a \in Amounts : AdjustParty(p, a)
  BY <1>10, <1>16 DEF PaySale, ReceiveFrom, GiveTo, AdjustParty, purchaseVars
<1>17. CASE \E w \in Warehouses, q \in Quantities : LostGoods(w, q)
  BY <1>6, <1>17 DEF LostGoods, AdjustDown, batchVars, purchaseVars
<1>18. CASE \E b \in Batches, from, to \in Warehouses, q \in Quantities : MoveGoods(b, from, to, q)
  BY <1>6, <1>18 DEF MoveGoods, Transfer, batchVars, purchaseVars
<1>19. CASE UNCHANGED tradeVars
  BY <1>10, <1>19 DEF tradeVars, purchaseVars
<1> QED
  BY <1>4, <1>5, <1>11, <1>12, <1>13, <1>14, <1>15, <1>16, <1>17, <1>18, <1>19 DEF TradeNext

\* Zero columns.
LEMMA NothingYet ==
  ASSUME TradeInit
  PROVE  /\ OnHand = 0 /\ KeptCost = 0 /\ SpoiltCost = 0 /\ LostCost = 0
         /\ Owed = 0 /\ CashOfSales = 0 /\ Sold = 0 /\ RefundsMade = 0
         /\ Owing = 0 /\ HeadersPaid = 0 /\ Settled = 0
<1>1. TypeOK /\ TradeTypeOK
  BY TradeInitInv DEF TradeInv, IInv
<1>2. UnitsType /\ ColumnsType
  BY <1>1, UnitsAreIntegers, ColumnsInt
<1>3. /\ nSales = 0 /\ onCredit = {}
      /\ \A b \in Batches : /\ remaining[b] = 0 /\ writtenOff[b] = 0 /\ origin[b] = 0
                            /\ purchaseHeader[b] = 0 /\ settled[b] = 0
      /\ \A s \in SaleLines, b \in Batches :
           allocated[s][b] = 0 /\ restocked[s][b] = 0 /\ scrapped[s][b] = 0
  BY DEF TradeInit, Init, PerBatch, PerSale
<1>4. ASSUME NEW f \in [1..MaxBatches -> Int], \A b \in 1..MaxBatches : f[b] = 0
      PROVE  SumUpTo(f, MaxBatches) = 0
  BY <1>4, SumZero
<1>5. ASSUME NEW f \in [1..MaxSales -> Int], \A s \in 1..MaxSales : f[s] = 0
      PROVE  SumUpTo(f, MaxSales) = 0
  BY <1>5, SumZero
<1>6. OnHand = 0 /\ LostCost = 0
  BY <1>2, <1>3, WorthZero DEF OnHand, LostCost, UnitsType
<1>7. KeptCost = 0
  <2> DEFINE f == [s \in SaleLines |-> Worth(KeptTable[s], cost)]
  <2>1. \A s \in SaleLines, b \in Batches : KeptTable[s][b] = 0
    BY <1>3 DEF KeptTable, Kept, Returnable
  <2>2. \A s \in SaleLines : Worth(KeptTable[s], cost) = 0
    BY <1>2, <2>1, WorthZero DEF UnitsType
  <2>3. f \in [1..MaxSales -> Int] /\ \A s \in 1..MaxSales : f[s] = 0
    BY <2>2 DEF SaleLines
  <2> HIDE DEF f
  <2>4. SumUpTo(f, MaxSales) = 0
    BY <1>5, <2>3
  <2> QED BY <2>4 DEF KeptCost, TableWorth, f
<1>8. SpoiltCost = 0
  <2> DEFINE f == [s \in SaleLines |-> Worth(scrapped[s], cost)]
  <2>1. \A s \in SaleLines : Worth(scrapped[s], cost) = 0
    BY <1>2, <1>3, WorthZero DEF UnitsType
  <2>2. f \in [1..MaxSales -> Int] /\ \A s \in 1..MaxSales : f[s] = 0
    BY <2>1 DEF SaleLines
  <2> HIDE DEF f
  <2>3. SumUpTo(f, MaxSales) = 0
    BY <1>5, <2>2
  <2> QED BY <2>3 DEF SpoiltCost, TableWorth, f
<1>9. Owed = 0
  <2>1. \A s \in 1..MaxSales : DebtColumn[s] = 0
    BY <1>3 DEF DebtColumn, SaleDebt, SaleLines
  <2> QED BY <1>2, <1>5, <2>1 DEF Owed, ColumnsType
<1>10. CashOfSales = 0
  <2>1. \A s \in 1..MaxSales : CashColumn[s] = 0
    BY <1>3 DEF CashColumn, SaleLines
  <2> QED BY <1>2, <1>5, <2>1 DEF CashOfSales, ColumnsType
<1>11. Sold = 0
  <2>1. \A s \in 1..MaxSales : SoldColumn[s] = 0
    BY <1>3 DEF SoldColumn, SaleLines
  <2> QED BY <1>2, <1>5, <2>1 DEF Sold, ColumnsType
<1>12. RefundsMade = 0
  <2>1. \A s \in 1..MaxSales : RefundColumn[s] = 0
    BY <1>3 DEF RefundColumn, SaleLines
  <2> QED BY <1>2, <1>5, <2>1 DEF RefundsMade, ColumnsType
<1>13. Owing = 0
  <2>1. \A b \in 1..MaxBatches : OwingColumn[b] = 0
    BY <1>3 DEF OwingColumn, PurchaseDebt, Batches
  <2> QED BY <1>2, <1>4, <2>1 DEF Owing, ColumnsType
<1>14. HeadersPaid = 0
  BY <1>2, <1>3, <1>4 DEF HeadersPaid, ColumnsType, Batches
<1>15. Settled = 0
  BY <1>2, <1>3, <1>4 DEF Settled, ColumnsType, Batches
<1> QED BY <1>6, <1>7, <1>8, <1>9, <1>10, <1>11, <1>12, <1>13, <1>14, <1>15

MoneyInv == StockInv /\ Explained

LEMMA InitMoneyInv == TradeInit => MoneyInv
<1> SUFFICES ASSUME TradeInit PROVE MoneyInv
  OBVIOUS
<1>1. TradeInv
  BY TradeInitInv
<1>2. CoverInv
  BY InitCoverInv DEF TradeInit
<1>3. NoInvoice
  BY DEF NoInvoice, TradeInit, Init, PerBatch
<1>4. /\ ledger.balance[Receivable] = 0 /\ ledger.balance[Payable] = 0
      /\ ledger.balance[Goods] = 0 /\ ledger.balance[CostOfGoods] = 0
      /\ ledger.balance[Shrinkage] = 0 /\ ledger.balance[SalesRevenue] = 0
  BY Chart DEF TradeInit, EmptyLedger
<1>5. /\ onAccount[Receivable] = 0 /\ onAccount[Payable] = 0
      /\ adjusted[Receivable] = 0 /\ adjusted[Payable] = 0
  BY PartiesApart DEF TradeInit
<1>6. NetCash(ledger) = 0
  BY EmptyCash DEF TradeInit
<1>7. Explained
  BY <1>4, <1>5, <1>6, NothingYet
     DEF Explained, CustomerOwes, StoreOwes, InStock, WrittenDown, Revenue, CashPaid
<1> QED BY <1>1, <1>2, <1>3, <1>7 DEF MoneyInv, StockInv

LEMMA StepStockInv == StockInv /\ [TradeNext]_tradeVars => StockInv'
<1> SUFFICES ASSUME StockInv, [TradeNext]_tradeVars PROVE StockInv'
  OBVIOUS
<1>1. TradeInv'
  BY TradeStepInv DEF StockInv
<1>2. [Next]_vars
  BY StockStep DEF StockInv, TradeInv
<1>3. CoverInv'
  BY <1>2, NextCoverInv DEF StockInv, TradeInv
<1>4. NoInvoice'
  BY NoInvoiceStep
<1> QED BY <1>1, <1>3, <1>4 DEF StockInv

LEMMA StepExplained ==
  ASSUME StockInv, Explained, TradeInv', [TradeNext]_tradeVars
  PROVE  Explained'
<1>1. Quantities \subseteq Int /\ Costs \subseteq Int /\ Prices \subseteq Int /\ Headers \subseteq Int
      /\ Tenders \subseteq Int /\ Amounts \subseteq Int
  OBVIOUS
<1>2. \A b \in Batches : initial[b] \in Int
  BY Typing DEF TypeOK
<1>3. \A s \in SaleLines : saleQuantity[s] \in Int
  BY Typing DEF TypeOK
<1>4. ASSUME NEW w \in Warehouses, NEW q \in Quantities, NEW e, NEW c \in Costs, NEW h \in Headers,
             NEW t \in Tenders, NEW place \in Places, BuyGoods(w, q, e, c, h, t, place)
      PROVE  Explained'
  BY <1>1, <1>4, BuyGoodsExplained
<1>5. ASSUME NEW b \in Batches, NEW a \in Amounts, NEW place \in Places, PayPurchase(b, a, place)
      PROVE  Explained'
  BY <1>1, <1>5, PayPurchaseExplained
<1>6. ASSUME NEW b \in Batches, NEW q \in Quantities, ReturnPurchase(b, q)
      PROVE  Explained'
  BY <1>1, <1>6, SendBackExplained DEF ReturnPurchase, purchaseVars, invoiceVars, partyVars
<1>7. ASSUME NEW b \in Batches, CancelPurchase(b)
      PROVE  Explained'
  BY <1>2, <1>7, SendBackExplained DEF CancelPurchase, invoiceVars, partyVars
<1>8. ASSUME NEW w \in Warehouses, NEW q \in Quantities, NEW p \in Prices, NEW h \in Headers,
             NEW t \in Tenders, NEW place \in Places, SellToCustomer(w, q, p, h, t, place)
      PROVE  Explained'
  BY <1>1, <1>8, SellToCustomerExplained
<1>9. ASSUME NEW w \in Warehouses, NEW q \in Quantities, NEW p \in Prices, NEW h \in Headers,
             NEW place \in Places, SellToWalkIn(w, q, p, h, place)
      PROVE  Explained'
  BY <1>1, <1>9, SellToWalkInExplained
<1>10. ASSUME NEW s \in SaleLines, NEW a \in Amounts, NEW place \in Places, PaySale(s, a, place)
       PROVE  Explained'
  BY <1>1, <1>10, PaySaleExplained
<1>11. ASSUME NEW s \in SaleLines, NEW q \in Quantities, ReturnSale(s, q)
       PROVE  Explained'
  BY <1>1, <1>11, TakeBackExplained DEF ReturnSale, purchaseVars, invoiceVars, partyVars
<1>12. ASSUME NEW s \in SaleLines, NEW q \in Quantities, ReturnSpoiled(s, q)
       PROVE  Explained'
  BY <1>1, <1>12, ReturnSpoiledExplained
<1>13. ASSUME NEW s \in SaleLines, CancelSale(s)
       PROVE  Explained'
  BY <1>3, <1>13, TakeBackExplained DEF CancelSale, purchaseVars, partyVars
<1>14. ASSUME NEW p \in Parties, NEW a \in Amounts, NEW place \in Places,
              ReceiveFrom(p, a, place) \/ GiveTo(p, a, place)
       PROVE  Explained'
  BY <1>1, <1>14, ReceiveFromExplained, GiveToExplained
<1>15. ASSUME NEW p \in Parties, NEW a \in Amounts, AdjustParty(p, a)
       PROVE  Explained'
  BY <1>1, <1>15, AdjustPartyExplained
<1>16. ASSUME NEW w \in Warehouses, NEW q \in Quantities, NEW c \in Costs, FoundGoods(w, q, c)
       PROVE  Explained'
  BY <1>1, <1>16, FoundGoodsExplained
<1>17. ASSUME NEW w \in Warehouses, NEW q \in Quantities, LostGoods(w, q)
       PROVE  Explained'
  BY <1>1, <1>17, LostGoodsExplained
<1>18. ASSUME NEW b, NEW from, NEW to, NEW q, MoveGoods(b, from, to, q)
       PROVE  Explained'
  BY <1>18, MoveGoodsExplained
<1>19. CASE UNCHANGED tradeVars
  <2>1. UNCHANGED <<vars, purchaseVars, invoiceVars, partyVars, ledger>>
    BY <1>19 DEF tradeVars
  <2>2. onAccount' = onAccount /\ adjusted' = adjusted /\ ledger' = ledger
    BY <2>1 DEF partyVars
  <2> QED BY <2>1, <2>2, SameDocuments
          DEF Explained, CustomerOwes, StoreOwes, InStock, WrittenDown, Revenue, CashPaid, NetCash
<1> QED
  BY <1>4, <1>5, <1>6, <1>7, <1>8, <1>9, <1>10, <1>11, <1>12, <1>13, <1>14, <1>15, <1>16, <1>17,
     <1>18, <1>19 DEF TradeNext

LEMMA StepMoneyInv == MoneyInv /\ [TradeNext]_tradeVars => MoneyInv'
<1> SUFFICES ASSUME MoneyInv, [TradeNext]_tradeVars PROVE MoneyInv'
  OBVIOUS
<1>1. StockInv'
  BY StepStockInv DEF MoneyInv
<1>2. TradeInv'
  BY <1>1 DEF StockInv
<1> QED BY <1>1, <1>2, StepExplained DEF MoneyInv

-----------------------------------------------------------------------------
(***************************************************************************)
(* The theorems about money.                                               *)
(***************************************************************************)

\* The ledger is explained by the stock and the documents, whatever the constants are.
THEOREM MoneyInductive == TradeSpec => []MoneyInv
BY InitMoneyInv, StepMoneyInv, PTL DEF TradeSpec

\* What the customer owes, by the ledger, is what the sales, their returns and the
\* payments say: no service call posts to the customer's account what it does not record.
THEOREM CustomerAccount == TradeSpec => []ReceivableExplained
<1>1. MoneyInv => ReceivableExplained
  BY DEF MoneyInv, Explained, ReceivableExplained, CustomerOwes, Owed, DebtColumn
<1> QED BY <1>1, MoneyInductive, PTL

\* The same of what the store owes the supplier.
THEOREM SupplierAccount == TradeSpec => []PayableExplained
<1>1. MoneyInv => PayableExplained
  BY DEF MoneyInv, Explained, PayableExplained, StoreOwes, Owing, OwingColumn
<1> QED BY <1>1, MoneyInductive, PTL

\* The inventory account is the valuation report plus the headers of the purchases.
THEOREM InventoryAccount == TradeSpec => []GoodsValued
<1>1. ASSUME MoneyInv PROVE GoodsValued
  <2>1. StockInv /\ ledger.balance[Goods] = InStock
    BY <1>1 DEF MoneyInv, Explained
  <2>2. \A b \in Batches : remaining[b] \in Nat
    BY <2>1, NoUnits
  <2>3. \A b \in Batches : (IF remaining[b] > 0 THEN remaining[b] ELSE 0) = remaining[b]
    BY <2>2
  <2>4. remaining \in [Batches -> Int]
    BY <2>1 DEF StockInv, TradeInv, IInv, TypeOK
  <2>5. [b \in Batches |-> IF remaining[b] > 0 THEN remaining[b] ELSE 0] = remaining
    BY <2>3, <2>4
  <2>6. InventoryValuation = OnHand
    BY <2>5 DEF InventoryValuation, Value, OnHand, Worth
  <2> QED BY <2>1, <2>6 DEF GoodsValued, InStock, HeadersPaid
<1> QED BY <1>1, MoneyInductive, PTL

\* Cost of goods sold is the cost of what customers kept, shrinkage the cost of what
\* was spoiled or lost: the reversals go back to the very batches the costs came from.
THEOREM CostAccounts == TradeSpec => []CostFollowsGoods
<1>1. ASSUME MoneyInv PROVE CostFollowsGoods
  <2>1. /\ ledger.balance[CostOfGoods] = KeptCost
        /\ ledger.balance[Shrinkage] = LostCost + SpoiltCost
    BY <1>1 DEF MoneyInv, Explained, WrittenDown
  <2>2. /\ [s \in SaleLines |-> Value(Kept(s))] = [s \in SaleLines |-> Worth(KeptTable[s], cost)]
        /\ [s \in SaleLines |-> Value(scrapped[s])] = [s \in SaleLines |-> Worth(scrapped[s], cost)]
    BY DEF Value, Worth, KeptTable
  <2>3. /\ KeptCost = SumUpTo([s \in SaleLines |-> Value(Kept(s))], MaxSales)
        /\ SpoiltCost = SumUpTo([s \in SaleLines |-> Value(scrapped[s])], MaxSales)
    BY <2>2 DEF KeptCost, SpoiltCost, TableWorth
  <2>4. LostCost = Value(writtenOff)
    BY DEF LostCost, Worth, Value
  <2> QED BY <2>1, <2>3, <2>4 DEF CostFollowsGoods
<1> QED BY <1>1, MoneyInductive, PTL

\* The cash flow report is what the documents say was paid.
THEOREM CashFlow == TradeSpec => []CashFlowExplained
<1>1. MoneyInv => CashFlowExplained
  BY DEF MoneyInv, Explained, CashFlowExplained, CashPaid, CashOfSales, CashColumn, Settled, OfSales
<1> QED BY <1>1, MoneyInductive, PTL

-----------------------------------------------------------------------------

\* Rounding moves a cost of n over d units by half a cent a unit at most.
LEMMA RoundedClose ==
  ASSUME NEW n \in Int, NEW d \in Int, d > 0
  PROVE  /\ Rounded(n, d) \in Int
         /\ -d <= 2 * (n - Rounded(n, d) * d)
         /\ 2 * (n - Rounded(n, d) * d) <= d
<1>1. PICK c \in Int : c = 2 * d /\ c > 0
  OBVIOUS
<1>2. \A a \in Int : /\ a \div c \in Int
                     /\ c * (a \div c) <= a /\ a < c * (a \div c) + c
  BY <1>1
<1>3. \A k \in Int : c * k = 2 * (k * d) /\ k * d \in Int /\ (-k) * d = -(k * d)
  BY <1>1
<1>4. CASE n >= 0
  <2>1. PICK k \in Int : k = (2 * n + d) \div c
    BY <1>2
  <2>2. Rounded(n, d) = k
    BY <1>1, <1>4, <2>1 DEF Rounded
  <2>3. PICK m \in Int : m = k * d /\ c * k = 2 * m
    BY <1>3
  <2>4. 2 * m <= 2 * n + d /\ 2 * n + d < 2 * m + 2 * d
    BY <1>1, <1>2, <2>1, <2>3
  <2>5. Rounded(n, d) * d = m
    BY <2>2, <2>3
  <2> QED BY <2>2, <2>4, <2>5
<1>5. CASE n < 0
  <2>1. PICK k \in Int : k = (d - 2 * n) \div c
    BY <1>2
  <2>2. Rounded(n, d) = -k
    BY <1>1, <1>5, <2>1 DEF Rounded
  <2>3. PICK m \in Int : m = k * d /\ c * k = 2 * m /\ (-k) * d = -m
    BY <1>3
  <2>4. 2 * m <= d - 2 * n /\ d - 2 * n < 2 * m + 2 * d
    BY <1>1, <1>2, <2>1, <2>3
  <2>5. Rounded(n, d) * d = -m
    BY <2>2, <2>3
  <2> QED BY <2>2, <2>4, <2>5
<1> QED BY <1>4, <1>5

\* What the rounding of the stored cost makes of a line.
GapOf(s) == Value(allocated[s]) - CostPriceAtSale(s) * saleQuantity[s]

LEMMA GapBound ==
  ASSUME StockInv, NEW s \in SaleLines
  PROVE  /\ CostPriceAtSale(s) \in Int /\ Value(allocated[s]) \in Int /\ saleQuantity[s] \in Int
         /\ CostPriceAtSale(s) * saleQuantity[s] \in Int /\ Larger(0, saleQuantity[s]) \in Nat
         /\ -Larger(0, saleQuantity[s]) <= 2 * GapOf(s)
         /\ 2 * GapOf(s) <= Larger(0, saleQuantity[s])
<1> DEFINE u == SumUpTo(allocated[s], MaxBatches)
           v == Value(allocated[s])
           q == saleQuantity[s]
           r == CostPriceAtSale(s)
<1>1. allocated[s] \in [Batches -> Nat] /\ q \in Int /\ cost \in [Batches -> Int]
  BY DEF StockInv, TradeInv, IInv, TypeOK, TradeTypeOK
<1>2. v \in Int
  <2>1. allocated[s] \in [Batches -> Int]
    BY <1>1
  <2> QED BY <1>1, <2>1, ValueInt
<1>3. u = Larger(0, q)
  BY DEF StockInv, CoverInv, SaleCovered
<1>4. r = IF u = 0 THEN 0 ELSE Rounded(v, u)
  BY DEF CostPriceAtSale
<1>5. GapOf(s) = v - r * q
  BY DEF GapOf
<1>6. u = 0 => v = 0
  <2>1. ASSUME u = 0 PROVE \A b \in Batches : allocated[s][b] = 0
    BY <1>1, <2>1, SumZeroRows DEF Batches
  <2>2. ASSUME \A b \in Batches : allocated[s][b] = 0 PROVE v = 0
    <3>1. allocated[s] \in [Batches -> Int]
      BY <1>1
    <3>2. Worth(allocated[s], cost) = 0
      BY <1>1, <2>2, <3>1, WorthZero
    <3> QED BY <3>2 DEF Worth, Value
  <2> QED BY <2>1, <2>2
<1> HIDE DEF u, v, q, r
<1>7. CASE q > 0
  <2>1. u = q /\ u > 0
    BY <1>1, <1>3, <1>7 DEF Larger
  <2>2. r = Rounded(v, q)
    BY <1>4, <2>1
  <2>3. r \in Int /\ -q <= 2 * (v - r * q) /\ 2 * (v - r * q) <= q
    BY <1>1, <1>2, <1>7, <2>2, RoundedClose
  <2>4. r * q \in Int
    BY <1>1, <2>3
  <2>5. Larger(0, q) = q
    BY <1>3, <2>1
  <2> QED BY <1>1, <1>2, <1>5, <1>7, <2>3, <2>4, <2>5 DEF q, r, v
<1>8. CASE ~(q > 0)
  <2>1. u = 0 /\ Larger(0, q) = 0
    BY <1>1, <1>3, <1>8 DEF Larger
  <2>2. r = 0 /\ v = 0 /\ r * q = 0
    BY <1>1, <1>4, <1>6, <2>1, TimesRules
  <2>3. GapOf(s) = 0
    BY <1>5, <2>2
  <2> QED BY <1>1, <2>1, <2>2, <2>3 DEF q, r, v
<1> QED BY <1>7, <1>8

\* The profit of a line is its revenue less its cost and what the report overlooks.
LEMMA LineProfitExplained ==
  ASSUME StockInv, NEW s \in SaleLines
  PROVE  /\ TotalProfit(s) \in Int /\ Overlooked(s) \in Int /\ Value(Kept(s)) \in Int
         /\ SaleTotal(s) \in Int /\ Refunded(s) \in Int /\ GapOf(s) \in Int
         /\ TotalProfit(s) = SaleTotal(s) - Refunded(s) - Value(Kept(s)) + Overlooked(s) + GapOf(s)
<1> DEFINE q == saleQuantity[s]
           p == price[s]
           r == CostPriceAtSale(s)
           h == saleHeader[s]
<1>1. TypeOK /\ TradeTypeOK /\ UnitsType
  BY UnitsAreIntegers DEF StockInv, TradeInv, IInv
<1>2. p \in Int /\ h \in Int /\ q \in Int /\ SaleTotal(s) \in Int /\ Refunded(s) \in Int
  BY <1>1, SaleInt DEF TradeTypeOK, TypeOK, Refunded
<1>3. r \in Int /\ Value(allocated[s]) \in Int /\ GapOf(s) = Value(allocated[s]) - r * q
      /\ r * q \in Int
  BY GapBound DEF GapOf
<1>4. Value(allocated[s]) = Value(Kept(s)) + CostReturned(s)
      /\ Value(Kept(s)) \in Int /\ CostReturned(s) \in Int
  <2> DEFINE a == allocated[s]
             back == [b \in Batches |-> restocked[s][b] + scrapped[s][b]]
             keep == Kept(s)
  <2>1. /\ a \in [Batches -> Int] /\ back \in [Batches -> Int] /\ keep \in [Batches -> Int]
        /\ cost \in [Batches -> Int]
        /\ \A b \in Batches : a[b] = keep[b] + back[b]
    BY <1>1 DEF TypeOK, TradeTypeOK, Kept, Returnable
  <2> HIDE DEF a, back, keep
  <2>2. Worth(a, cost) = Worth(keep, cost) + Worth(back, cost)
    BY <2>1, UnitsCome
  <2>3. Worth(keep, cost) \in Int /\ Worth(back, cost) \in Int
    BY <2>1, WorthInt
  <2> QED BY <2>2, <2>3 DEF Worth, Value, CostReturned, a, back, keep
<1>5. Tax(s) \in Int /\ Discount(s) \in Int /\ Tax(s) - Discount(s) = h
  BY <1>2 DEF Tax, Discount, Larger
<1>6. PICK t \in Int : t = q * p
  BY <1>2, TimesRules
<1>7. (p - r) * q = t - r * q
  <2>1. (p - r) * q = p * q - r * q
    BY <1>2, <1>3, TimesRules
  <2>2. p * q = q * p
    BY <1>2
  <2> QED BY <1>6, <2>1, <2>2
<1>8. /\ TotalProfit(s) = (p - r) * q - Discount(s)
      /\ SaleTotal(s) = t + h
      /\ Overlooked(s) = Refunded(s) - CostReturned(s) - Tax(s)
  BY <1>6 DEF TotalProfit, SaleTotal, Overlooked
<1> HIDE DEF q, p, r, h
<1>9. PICK m \in Int : m = r * q
  BY <1>3
<1>10. TotalProfit(s) = t - m - Discount(s) /\ GapOf(s) = Value(allocated[s]) - m
  BY <1>3, <1>7, <1>8, <1>9
<1>11. TotalProfit(s) \in Int /\ Overlooked(s) \in Int /\ GapOf(s) \in Int
  BY <1>2, <1>3, <1>4, <1>5, <1>8, <1>10
<1>12. TotalProfit(s) = SaleTotal(s) - Refunded(s) - Value(Kept(s)) + Overlooked(s) + GapOf(s)
  <2>1. SaleTotal(s) = t + Tax(s) - Discount(s)
    BY <1>5, <1>8
  <2>2. GapOf(s) = Value(Kept(s)) + CostReturned(s) - m
    BY <1>4, <1>10
  <2>3. Overlooked(s) + GapOf(s) = Refunded(s) - Tax(s) + Value(Kept(s)) - m
    BY <1>2, <1>4, <1>5, <1>8, <2>2
  <2>4. SaleTotal(s) - Refunded(s) - Value(Kept(s)) + Overlooked(s) + GapOf(s)
          = SaleTotal(s) - Refunded(s) - Value(Kept(s)) + (Overlooked(s) + GapOf(s))
    BY <1>2, <1>4, <1>11
  <2> QED BY <1>2, <1>4, <1>5, <1>10, <2>1, <2>3, <2>4
<1> QED BY <1>2, <1>4, <1>11, <1>12

\* Rounding moves the profit of all sales by half a cent for every unit at most.
GapColumn == [s \in SaleLines |-> IF s <= nSales THEN GapOf(s) ELSE 0]
UnitColumn == [s \in SaleLines |-> IF s <= nSales THEN Larger(0, saleQuantity[s]) ELSE 0]

LEMMA GapsBounded ==
  ASSUME StockInv
  PROVE  /\ SumUpTo(GapColumn, MaxSales) \in Int /\ SumUpTo(UnitColumn, MaxSales) \in Int
         /\ 2 * SumUpTo(GapColumn, MaxSales)
              \in -SumUpTo(UnitColumn, MaxSales)..SumUpTo(UnitColumn, MaxSales)
<1> DEFINE twice == [s \in 1..MaxSales |-> GapColumn[s] + GapColumn[s]]
           minus == [s \in 1..MaxSales |-> -UnitColumn[s]]
<1>1. \A s \in SaleLines : /\ GapOf(s) \in Int /\ Larger(0, saleQuantity[s]) \in Int
                           /\ -Larger(0, saleQuantity[s]) <= GapOf(s) + GapOf(s)
                           /\ GapOf(s) + GapOf(s) <= Larger(0, saleQuantity[s])
  <2> SUFFICES ASSUME NEW s \in SaleLines
               PROVE  /\ GapOf(s) \in Int /\ Larger(0, saleQuantity[s]) \in Int
                      /\ -Larger(0, saleQuantity[s]) <= GapOf(s) + GapOf(s)
                      /\ GapOf(s) + GapOf(s) <= Larger(0, saleQuantity[s])
    OBVIOUS
  <2>1. GapOf(s) \in Int
    BY LineProfitExplained
  <2> QED BY <2>1, GapBound
<1>2. \A s \in 1..MaxSales : /\ GapColumn[s] \in Int /\ UnitColumn[s] \in Int
                             /\ -UnitColumn[s] <= GapColumn[s] + GapColumn[s]
                             /\ GapColumn[s] + GapColumn[s] <= UnitColumn[s]
  <2> SUFFICES ASSUME NEW s \in SaleLines
               PROVE  /\ GapColumn[s] \in Int /\ UnitColumn[s] \in Int
                      /\ -UnitColumn[s] <= GapColumn[s] + GapColumn[s]
                      /\ GapColumn[s] + GapColumn[s] <= UnitColumn[s]
    BY DEF SaleLines
  <2>1. CASE s <= nSales
    <3>1. GapColumn[s] = GapOf(s) /\ UnitColumn[s] = Larger(0, saleQuantity[s])
      BY <2>1 DEF GapColumn, UnitColumn
    <3> QED BY <1>1, <3>1
  <2>2. CASE ~(s <= nSales)
    <3>1. GapColumn[s] = 0 /\ UnitColumn[s] = 0
      BY <2>2 DEF GapColumn, UnitColumn
    <3> QED BY <3>1
  <2> QED BY <2>1, <2>2
<1>3. GapColumn \in [1..MaxSales -> Int] /\ UnitColumn \in [1..MaxSales -> Int]
  BY <1>2 DEF GapColumn, UnitColumn, SaleLines
<1>4. /\ twice \in [1..MaxSales -> Int] /\ minus \in [1..MaxSales -> Int]
      /\ \A s \in 1..MaxSales : twice[s] = GapColumn[s] + GapColumn[s] /\ minus[s] = -UnitColumn[s]
  BY <1>2
<1> HIDE DEF twice, minus
<1>5. AddUp(twice, GapColumn, GapColumn, MaxSales)
  BY <1>3, <1>4 DEF AddUp
<1>6. /\ SumUpTo(twice, MaxSales) = SumUpTo(GapColumn, MaxSales) + SumUpTo(GapColumn, MaxSales)
      /\ SumUpTo(GapColumn, MaxSales) \in Int
  BY <1>5, SumAddUp
<1>7. SumUpTo(UnitColumn, MaxSales) \in Int
  BY <1>3, SumInt
<1>8. SumUpTo(minus, MaxSales) = -SumUpTo(UnitColumn, MaxSales)
  BY <1>3, <1>4, SumMinus
<1>9. SumUpTo(twice, MaxSales) <= SumUpTo(UnitColumn, MaxSales)
  <2>1. \A s \in 1..MaxSales : twice[s] <= UnitColumn[s]
    BY <1>2, <1>4
  <2> QED BY <1>3, <1>4, <2>1, SumMonotone
<1>10. SumUpTo(minus, MaxSales) <= SumUpTo(twice, MaxSales)
  <2>1. \A s \in 1..MaxSales : minus[s] <= twice[s]
    BY <1>2, <1>4
  <2> QED BY <1>4, <2>1, SumMonotone
<1> QED BY <1>6, <1>7, <1>8, <1>9, <1>10

\* The sales report is the revenue account before refunds, and the profit report is
\* revenue less cost of goods sold before returns and tax: what separates the report
\* from the books is the rounding of the stored unit cost and nothing else, and that by
\* half a cent for every unit sold at most.
THEOREM ProfitReport == TradeSpec => []ProfitAgrees
<1>1. ASSUME MoneyInv PROVE ProfitAgrees
  <2> DEFINE profits == [s \in SaleLines |-> IF s <= nSales THEN TotalProfit(s) ELSE 0]
             costs == [s \in SaleLines |-> Worth(KeptTable[s], cost)]
             missed == [s \in SaleLines |-> IF s <= nSales THEN Overlooked(s) ELSE 0]
             units == SumUpTo(UnitColumn, MaxSales)
             gaps == SumUpTo(GapColumn, MaxSales)
  <2>1. /\ StockInv /\ ledger.balance[SalesRevenue] = Sold - RefundsMade
        /\ ledger.balance[CostOfGoods] = KeptCost
    BY <1>1 DEF MoneyInv, Explained, Revenue
  <2>2. TypeOK /\ TradeTypeOK /\ UnitsType /\ BlankRows
    BY <2>1, UnitsAreIntegers DEF StockInv, TradeInv, IInv
  <2>3. \A s \in SaleLines : Worth(KeptTable[s], cost) = Value(Kept(s))
    BY DEF Worth, Value, KeptTable
  <2>4. FiveColumns(profits, SoldColumn, RefundColumn, costs, missed, GapColumn, MaxSales)
    <3>1. ASSUME NEW s \in SaleLines
          PROVE  /\ profits[s] \in Int /\ SoldColumn[s] \in Int /\ RefundColumn[s] \in Int
                 /\ costs[s] \in Int /\ missed[s] \in Int /\ GapColumn[s] \in Int
                 /\ profits[s] = SoldColumn[s] - RefundColumn[s] - costs[s] + missed[s] + GapColumn[s]
      <4>1. CASE s <= nSales
        <5>1. /\ profits[s] = TotalProfit(s) /\ SoldColumn[s] = SaleTotal(s)
              /\ RefundColumn[s] = Refunded(s) /\ costs[s] = Value(Kept(s))
              /\ missed[s] = Overlooked(s) /\ GapColumn[s] = GapOf(s)
          BY <2>3, <4>1 DEF SoldColumn, RefundColumn, GapColumn
        <5> HIDE DEF profits, costs, missed
        <5> QED BY <2>1, <5>1, LineProfitExplained
      <4>2. CASE ~(s <= nSales)
        <5>1. /\ profits[s] = 0 /\ SoldColumn[s] = 0 /\ RefundColumn[s] = 0
              /\ missed[s] = 0 /\ GapColumn[s] = 0
          BY <4>2 DEF SoldColumn, RefundColumn, GapColumn
        <5>2. costs[s] = 0
          <6>1. s > nSales
            BY <2>2, <4>2 DEF TypeOK, SaleLines
          <6>2. \A b \in Batches : KeptTable[s][b] = 0
            BY <2>2, <6>1 DEF BlankRows, KeptTable, Kept, Returnable
          <6>3. KeptTable[s] \in [Batches -> Int] /\ cost \in [Batches -> Int]
            BY <2>2 DEF UnitsType
          <6> QED BY <6>2, <6>3, WorthZero
        <5> HIDE DEF profits, costs, missed
        <5> QED BY <5>1, <5>2
      <4> QED BY <4>1, <4>2
    <3>2. /\ profits \in [1..MaxSales -> Int] /\ SoldColumn \in [1..MaxSales -> Int]
          /\ RefundColumn \in [1..MaxSales -> Int] /\ costs \in [1..MaxSales -> Int]
          /\ missed \in [1..MaxSales -> Int] /\ GapColumn \in [1..MaxSales -> Int]
      BY <3>1 DEF SaleLines, SoldColumn, RefundColumn, GapColumn
    <3> HIDE DEF profits, costs, missed
    <3> QED BY <3>1, <3>2 DEF FiveColumns, SaleLines
  <2>5. /\ SumUpTo(profits, MaxSales)
             = SumUpTo(SoldColumn, MaxSales) - SumUpTo(RefundColumn, MaxSales)
                 - SumUpTo(costs, MaxSales) + SumUpTo(missed, MaxSales) + SumUpTo(GapColumn, MaxSales)
        /\ SumUpTo(SoldColumn, MaxSales) \in Int /\ SumUpTo(RefundColumn, MaxSales) \in Int
        /\ SumUpTo(costs, MaxSales) \in Int /\ SumUpTo(missed, MaxSales) \in Int
        /\ SumUpTo(GapColumn, MaxSales) \in Int
    <3> HIDE DEF profits, costs, missed
    <3> QED BY <2>4, SumOfFive
  <2>6. KeptCost = SumUpTo(costs, MaxSales)
    BY DEF KeptCost, TableWorth
  <2>7. /\ ProfitReported = SumUpTo(profits, MaxSales)
        /\ OfSales(Overlooked) = SumUpTo(missed, MaxSales)
        /\ OfSales(Refunded) = RefundsMade /\ SalesReported = Sold
        /\ OfSales(LAMBDA s : Larger(0, saleQuantity[s])) = units
    BY DEF ProfitReported, OfSales, RefundsMade, RefundColumn, SalesReported, Sold, SoldColumn,
           UnitColumn
  <2>8. 2 * gaps \in -units..units /\ gaps \in Int
    BY <2>1, GapsBounded
  <2> HIDE DEF profits, costs, missed, units, gaps
  <2>9. ProfitReported - (ledger.balance[SalesRevenue] - ledger.balance[CostOfGoods])
          - OfSales(Overlooked) = gaps
    BY <2>1, <2>5, <2>6, <2>7 DEF Sold, RefundsMade, gaps
  <2>10. SalesReported = ledger.balance[SalesRevenue] + OfSales(Refunded)
    BY <2>1, <2>5, <2>7 DEF Sold, RefundsMade
  <2> QED BY <2>7, <2>8, <2>9, <2>10 DEF ProfitAgrees
<1> QED BY <1>1, MoneyInductive, PTL

=============================================================================
