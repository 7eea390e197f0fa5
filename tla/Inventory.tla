----------------------------- MODULE Inventory -----------------------------
(***************************************************************************)
(* The stock of one product: inventory/services.py, with the stock side of *)
(* the sales and purchases services that move goods.  Each service call is *)
(* one transaction.atomic() block, so each is one step here; the row locks *)
(* and the interleaving inside the blocks are the subject of another       *)
(* module.                                                                 *)
(*                                                                         *)
(* The same goods are counted in four places that every operation has to   *)
(* keep in agreement: BatchStock (per batch and warehouse, what FIFO       *)
(* allocation reads), ProductBatch.remaining_quantity, WarehouseStock and  *)
(* Product.stock.  Quantities are integers (hundredths of a unit).         *)
(***************************************************************************)
EXTENDS Integers, Sums

CONSTANTS
  NWarehouses,   \* warehouses are 1..NWarehouses
  MaxBatches,    \* bound on ProductBatch rows ever created
  MaxSales,      \* bound on sale lines ever created
  Quantities,    \* quantities a form may submit: nothing validates their sign
  ExpiryDates,   \* dates a purchase line may carry, as day numbers
  NoExpiry       \* expiry_date = NULL

ASSUME WarehousesAssumption == NWarehouses \in Nat \ {0}
ASSUME BatchesAssumption == MaxBatches \in Nat
ASSUME SalesAssumption == MaxSales \in Nat
ASSUME QuantitiesAssumption == Quantities \subseteq Int
ASSUME ExpiryAssumption == ExpiryDates \subseteq Nat /\ NoExpiry \notin Nat

Warehouses == 1..NWarehouses
Batches == 1..MaxBatches
SaleLines == 1..MaxSales

VARIABLES
  nBatches,       \* ProductBatch rows created so far
  expiry,         \* ProductBatch.expiry_date
  initial,        \* ProductBatch.initial_quantity
  remaining,      \* ProductBatch.remaining_quantity
  status,         \* ProductBatch.status
  origin,         \* warehouse of the purchase that brought the batch, 0 for an adjustment
  batchStock,     \* BatchStock.quantity
  warehouseStock, \* WarehouseStock.quantity
  productStock,   \* Product.stock
  movements,      \* net quantity of the InventoryTransaction rows of a batch in a warehouse
  nSales,         \* SaleItem rows created so far
  saleWarehouse,  \* Sale.warehouse
  saleQuantity,   \* SaleItem.quantity
  allocated,      \* BatchAllocation.quantity
  restocked,      \* SalesReturnAllocation.quantity of GOOD lines
  scrapped,       \* SalesReturnAllocation.quantity of DAMAGED and EXPIRED lines
  sentBack,       \* PurchaseReturnItem.quantity
  writtenOff      \* quantity removed by DECREASE adjustments

batchVars == <<nBatches, expiry, initial, origin>>
stockVars == <<remaining, status, batchStock, warehouseStock, productStock, movements>>
saleVars == <<nSales, saleWarehouse, saleQuantity, allocated>>
returnVars == <<restocked, scrapped>>
vars == <<batchVars, stockVars, saleVars, returnVars, sentBack, writtenOff>>

-----------------------------------------------------------------------------
(***************************************************************************)
(* FEFO allocation.                                                        *)
(***************************************************************************)

\* Fault: NULL dates come first, as on a database that sorts them low.
NullsFirst(b, c) ==
  /\ expiry[c] # NoExpiry
  /\ expiry[b] = NoExpiry \/ expiry[b] < expiry[c]

\* order_by(expiry_date asc nulls last, batch_id).
ExpiresBefore(b, c) ==
  /\ expiry[b] # NoExpiry
  /\ expiry[c] = NoExpiry \/ expiry[b] < expiry[c]

PickedBefore(b, c) ==
  \/ ExpiresBefore(b, c)
  \/ expiry[b] = expiry[c] /\ b < c

\* Rows of the allocation query: stock here, of an active batch.
Pickable(b, w) == b <= nBatches /\ batchStock[b][w] > 0 /\ status[b] = "active"

Available(b, w) == IF Pickable(b, w) THEN batchStock[b][w] ELSE 0
OnShelf(w) == SumUpTo([b \in Batches |-> Available(b, w)], MaxBatches)

\* What the loop has already taken from the rows before b when it reaches b
\* would cover this much of the quantity asked for.
ShelfBefore(b, w) ==
  SumUpTo([c \in Batches |-> IF PickedBefore(c, b) THEN Available(c, w) ELSE 0], MaxBatches)

Smaller(m, n) == IF m <= n THEN m ELSE n
Larger(m, n) == IF m >= n THEN m ELSE n

\* take = min(bs.quantity, remaining): what batch b contributes to quantity q.
Allocation(w, q) ==
  [b \in Batches |-> Smaller(Available(b, w), Larger(0, q - ShelfBefore(b, w)))]

\* Fault: the loop's left-over is not looked at.
CoversAnything(w, q) == TRUE

\* InsufficientStockError is raised when the loop ends with quantity left over.
Covers(w, q) == q <= OnShelf(w)

-----------------------------------------------------------------------------
(***************************************************************************)
(* Updates of the stock tables.                                            *)
(***************************************************************************)

\* SUM(WarehouseStock.quantity) of the product.
ProductTotal(stock) == SumUpTo(stock, NWarehouses)

\* Fault: the total is taken before WarehouseStock is updated.
RecomputeTooEarly == productStock' = ProductTotal(warehouseStock)

\* recompute_product_stock, the last statement of whatever moved the goods.
RecomputeProductStock == productStock' = ProductTotal(warehouseStock')

\* BatchStock, remaining_quantity, WarehouseStock and the movement log after
\* change[b] units of every batch b enter (or, negative, leave) warehouse w.
ApplyMovement(w, change) ==
  /\ batchStock' = [b \in Batches |-> [batchStock[b] EXCEPT ![w] = @ + change[b]]]
  /\ remaining' = [b \in Batches |-> remaining[b] + change[b]]
  /\ warehouseStock' = [warehouseStock EXCEPT ![w] = @ + SumUpTo(change, MaxBatches)]
  /\ movements' = [b \in Batches |-> [movements[b] EXCEPT ![w] = @ + change[b]]]
  /\ RecomputeProductStock

\* receive_stock: a new batch with its BatchStock row.  A negative quantity
\* violates the batchstock_quantity_gte_0 constraint and rolls back.
ReceiveStock(w, q, e, from) ==
  /\ nBatches < MaxBatches
  /\ q >= 0
  /\ nBatches' = nBatches + 1
  /\ expiry' = [expiry EXCEPT ![nBatches + 1] = e]
  /\ initial' = [initial EXCEPT ![nBatches + 1] = q]
  /\ origin' = [origin EXCEPT ![nBatches + 1] = from]
  /\ status' = [status EXCEPT ![nBatches + 1] = "active"]
  /\ ApplyMovement(w, [b \in Batches |-> IF b = nBatches + 1 THEN q ELSE 0])

\* consume_allocations: batches drained to zero become DEPLETED.
ConsumeAllocations(w, take) ==
  /\ ApplyMovement(w, [b \in Batches |-> -take[b]])
  /\ status' = [b \in Batches |->
                  IF take[b] > 0 /\ remaining'[b] <= 0 THEN "depleted" ELSE status[b]]

-----------------------------------------------------------------------------
(***************************************************************************)
(* Operations.                                                             *)
(***************************************************************************)

\* create_purchase, one line.
Purchase(w, q, e) ==
  /\ ReceiveStock(w, q, e, w)
  /\ UNCHANGED <<saleVars, returnVars, sentBack, writtenOff>>

\* adjust_stock, INCREASE: a batch of its own, with no expiry date and no purchase.
AdjustUp(w, q) ==
  /\ ReceiveStock(w, q, NoExpiry, 0)
  /\ UNCHANGED <<saleVars, returnVars, sentBack, writtenOff>>

\* adjust_stock, DECREASE.
AdjustDown(w, q) ==
  /\ Covers(w, q)
  /\ LET take == Allocation(w, q) IN
       /\ ConsumeAllocations(w, take)
       /\ writtenOff' = [b \in Batches |-> writtenOff[b] + take[b]]
  /\ UNCHANGED <<batchVars, saleVars, returnVars, sentBack>>

\* create_sale, one line: allocate, record the BatchAllocation rows, consume.
Sell(w, q) ==
  /\ nSales < MaxSales
  /\ Covers(w, q)
  /\ LET take == Allocation(w, q) IN
       /\ ConsumeAllocations(w, take)
       /\ allocated' = [allocated EXCEPT ![nSales + 1] = take]
  /\ nSales' = nSales + 1
  /\ saleWarehouse' = [saleWarehouse EXCEPT ![nSales + 1] = w]
  /\ saleQuantity' = [saleQuantity EXCEPT ![nSales + 1] = q]
  /\ UNCHANGED <<batchVars, returnVars, sentBack, writtenOff>>

\* BatchAllocation.returnable_quantity and SaleItem.returnable_quantity.
Returnable(s, b) == allocated[s][b] - restocked[s][b] - scrapped[s][b]
ReturnedOf(s) == SumUpTo([b \in Batches |-> restocked[s][b] + scrapped[s][b]], MaxBatches)

\* The ways create_sales_return may spread q over the allocations of a line.
\* It empties them one after the other, in an order the query leaves open, so
\* at most one of them is left part-returned.
Spreads(s, q) ==
  {take \in [Batches -> 0..q] :
     /\ \A b \in Batches : take[b] <= Returnable(s, b)
     /\ SumUpTo(take, MaxBatches) = q
     /\ \A b, c \in {d \in Batches : take[d] \in 1..(Returnable(s, d) - 1)} : b = c}

\* Fault: a batch sold out stays DEPLETED when goods come back to it.
StaysDepleted(take) == status' = status

\* A batch that is restocked is active again.
Reactivate(take) == status' = [b \in Batches |-> IF take[b] > 0 THEN "active" ELSE status[b]]

\* Fault: only the latest return of a line counts.
RecordLatest(s, take) == restocked' = [restocked EXCEPT ![s] = take]

\* The SalesReturnAllocation rows of a GOOD line.
RecordRestock(s, take) == restocked' = [restocked EXCEPT ![s] = [b \in Batches |-> @[b] + take[b]]]

\* create_sales_return of a GOOD line: the very batches sold are restocked,
\* into the warehouse of the sale, and are active again.
ReturnGood(s, q) ==
  /\ s <= nSales
  /\ q > 0 /\ q <= saleQuantity[s] - ReturnedOf(s)
  /\ \E take \in Spreads(s, q) :
       /\ ApplyMovement(saleWarehouse[s], take)
       /\ Reactivate(take)
       /\ RecordRestock(s, take)
  /\ UNCHANGED <<batchVars, saleVars, scrapped, sentBack, writtenOff>>

\* create_sales_return of a DAMAGED or EXPIRED line: recorded, not restocked.
ReturnDamaged(s, q) ==
  /\ s <= nSales
  /\ q > 0 /\ q <= saleQuantity[s] - ReturnedOf(s)
  /\ \E take \in Spreads(s, q) :
       scrapped' = [scrapped EXCEPT ![s] = [b \in Batches |-> @[b] + take[b]]]
  /\ UNCHANGED <<batchVars, stockVars, saleVars, restocked, sentBack, writtenOff>>

\* Fault: goods transferred to another warehouse count as still here.
StillSomewhere(b, q) == q <= remaining[b]

\* What is returned is still in the warehouse that received it.
StillHere(b, q) == q <= batchStock[b][origin[b]]

\* create_purchase_return, one line: only what is still where it was received.
\* The batch keeps its status even when nothing is left of it.
ReturnToSupplier(b, q) ==
  /\ b <= nBatches /\ origin[b] # 0
  /\ q > 0
  /\ q <= initial[b] - sentBack[b]
  /\ q <= remaining[b]
  /\ StillHere(b, q)
  /\ ApplyMovement(origin[b], [c \in Batches |-> IF c = b THEN -q ELSE 0])
  /\ sentBack' = [sentBack EXCEPT ![b] = @ + q]
  /\ UNCHANGED <<batchVars, status, saleVars, returnVars, writtenOff>>

\* A row of quantities per warehouse after q units moved.
Moved(row, from, to, q) ==
  [v \in Warehouses |-> row[v] - (IF v = from THEN q ELSE 0) + (IF v = to THEN q ELSE 0)]

\* Fault: only the TRANSFER_OUT row is written.
LogOutOnly(b, from, to, q) ==
  movements' = [movements EXCEPT ![b][from] = @ - q]

\* The TRANSFER_OUT and the TRANSFER_IN row.
LogTransfer(b, from, to, q) ==
  movements' = [movements EXCEPT ![b] = Moved(@, from, to, q)]

\* transfer_stock, one item.  Nothing in the service stops from = to or a negative
\* quantity, which moves goods the other way unless batchstock_quantity_gte_0 objects.
\* Product.stock is not recomputed.
Transfer(b, from, to, q) ==
  /\ b <= nBatches
  /\ q <= batchStock[b][from]
  /\ from # to => batchStock[b][to] + q >= 0
  /\ batchStock' = [batchStock EXCEPT ![b] = Moved(@, from, to, q)]
  /\ warehouseStock' = Moved(warehouseStock, from, to, q)
  /\ LogTransfer(b, from, to, q)
  /\ UNCHANGED <<batchVars, remaining, status, productStock>>
  /\ UNCHANGED <<saleVars, returnVars, sentBack, writtenOff>>

-----------------------------------------------------------------------------

PerBatch(v) == [b \in Batches |-> v]
PerSale(v) == [s \in SaleLines |-> v]

Init ==
  /\ nBatches = 0
  /\ expiry = PerBatch(NoExpiry)
  /\ initial = PerBatch(0)
  /\ remaining = PerBatch(0)
  /\ status = PerBatch("active")
  /\ origin = PerBatch(0)
  /\ batchStock = PerBatch([w \in Warehouses |-> 0])
  /\ warehouseStock = [w \in Warehouses |-> 0]
  /\ productStock = 0
  /\ movements = PerBatch([w \in Warehouses |-> 0])
  /\ nSales = 0
  /\ saleWarehouse = PerSale(1)
  /\ saleQuantity = PerSale(0)
  /\ allocated = PerSale(PerBatch(0))
  /\ restocked = PerSale(PerBatch(0))
  /\ scrapped = PerSale(PerBatch(0))
  /\ sentBack = PerBatch(0)
  /\ writtenOff = PerBatch(0)

Next ==
  \/ \E w \in Warehouses, q \in Quantities, e \in ExpiryDates \cup {NoExpiry} : Purchase(w, q, e)
  \/ \E w \in Warehouses, q \in Quantities : AdjustUp(w, q)
  \/ \E w \in Warehouses, q \in Quantities : AdjustDown(w, q)
  \/ \E w \in Warehouses, q \in Quantities : Sell(w, q)
  \/ \E s \in SaleLines, q \in Quantities : ReturnGood(s, q)
  \/ \E s \in SaleLines, q \in Quantities : ReturnDamaged(s, q)
  \/ \E b \in Batches, q \in Quantities : ReturnToSupplier(b, q)
  \/ \E b \in Batches, from, to \in Warehouses, q \in Quantities : Transfer(b, from, to, q)

Spec == Init /\ [][Next]_vars

-----------------------------------------------------------------------------
(***************************************************************************)
(* Properties.                                                             *)
(***************************************************************************)

\* Every column holds what its field can hold; in particular BatchStock.quantity,
\* which carries the CHECK constraint batchstock_quantity_gte_0, is never negative:
\* no service call ever makes the database reject a decrement.
TypeOK ==
  /\ nBatches \in 0..MaxBatches
  /\ expiry \in [Batches -> ExpiryDates \cup {NoExpiry}]
  /\ initial \in [Batches -> Nat]
  /\ remaining \in [Batches -> Int]
  /\ status \in [Batches -> {"active", "depleted"}]
  /\ origin \in [Batches -> 0..NWarehouses]
  /\ batchStock \in [Batches -> [Warehouses -> Nat]]
  /\ warehouseStock \in [Warehouses -> Int]
  /\ productStock \in Int
  /\ movements \in [Batches -> [Warehouses -> Int]]
  /\ nSales \in 0..MaxSales
  /\ saleWarehouse \in [SaleLines -> Warehouses]
  /\ saleQuantity \in [SaleLines -> Int]
  /\ allocated \in [SaleLines -> [Batches -> Nat]]
  /\ restocked \in [SaleLines -> [Batches -> Nat]]
  /\ scrapped \in [SaleLines -> [Batches -> Nat]]
  /\ sentBack \in [Batches -> Nat]
  /\ writtenOff \in [Batches -> Nat]

\* The rollups agree with BatchStock, "the real source of truth" (the docstring of
\* inventory.models.BatchStock): WarehouseStock is the sum over the batches,
\* remaining_quantity the sum over the warehouses, Product.stock the sum over all.
WarehouseRollup ==
  \A w \in Warehouses :
    warehouseStock[w] = SumUpTo([b \in Batches |-> batchStock[b][w]], MaxBatches)
BatchRollup ==
  \A b \in Batches : remaining[b] = SumUpTo(batchStock[b], NWarehouses)
ProductRollup == productStock = ProductTotal(warehouseStock)
RollupsAgree == WarehouseRollup /\ BatchRollup /\ ProductRollup

\* No goods are stranded: a batch that has stock anywhere is ACTIVE, so every unit
\* counted in WarehouseStock can be allocated to a sale.  Returns into a DEPLETED
\* batch are where this is at risk.
NoStrandedStock ==
  \A b \in Batches, w \in Warehouses : batchStock[b][w] > 0 => Pickable(b, w)

\* The InventoryTransaction rows explain the shelf: what entered a warehouse less
\* what left it is what is there, batch by batch.
MovementsExplainStock ==
  \A b \in Batches, w \in Warehouses : movements[b][w] = batchStock[b][w]

\* Every unit a batch came with is on hand, with a customer, with the supplier again
\* or written off: nothing is duplicated or lost by returns, transfers or voids.
WithCustomers(b) == SumUpTo([s \in SaleLines |-> allocated[s][b] - restocked[s][b]], MaxSales)
Conservation ==
  \A b \in Batches : initial[b] = remaining[b] + WithCustomers(b) + sentBack[b] + writtenOff[b]

\* A sale line is covered exactly by its allocations (a line of zero or negative
\* quantity by none), and no allocation is returned beyond what it supplied.
SaleCovered ==
  \A s \in SaleLines :
    /\ SumUpTo(allocated[s], MaxBatches) = Larger(0, saleQuantity[s])
    /\ \A b \in Batches : Returnable(s, b) >= 0

\* First expiring, first out: a sale takes from a batch only what the batches due
\* before it, dated before undated, older before newer, cannot supply.
DueBefore(c, b) ==
  \/ expiry[c] \in Nat /\ expiry[b] \in Nat /\ expiry[c] < expiry[b]
  \/ expiry[c] \in Nat /\ expiry[b] = NoExpiry
  \/ expiry[c] = expiry[b] /\ c < b
FirstOut ==
  \A s \in SaleLines, b, c \in Batches :
    /\ allocated'[s][b] > allocated[s][b]
    /\ c <= nBatches /\ DueBefore(c, b)
    => batchStock'[c][saleWarehouse'[s]] = 0
FefoDiscipline == [][FirstOut]_vars

\* Rows not created yet are blank: with this, the properties above are inductive.
BlankRows ==
  /\ \A b \in Batches : b > nBatches => initial[b] = 0
  /\ \A s \in SaleLines, b \in Batches : b > nBatches => allocated[s][b] = 0
  /\ \A s \in SaleLines, b \in Batches :
       s > nSales => allocated[s][b] = 0 /\ restocked[s][b] = 0 /\ scrapped[s][b] = 0

SpareRows ==
  /\ \A b \in Batches : b > nBatches => sentBack[b] = 0 /\ writtenOff[b] = 0
  /\ \A s \in SaleLines : s > nSales => saleQuantity[s] = 0

IInv ==
  /\ TypeOK
  /\ BlankRows
  /\ RollupsAgree
  /\ MovementsExplainStock
  /\ Conservation
  /\ NoStrandedStock

\* Inductive beside IInv: the sale lines, and the rows not created yet.
CoverInv == SaleCovered /\ SpareRows

=============================================================================
