---------------------------- MODULE StockLocking ----------------------------
(***************************************************************************)
(* Requests that move goods at the same time, statement by statement.      *)
(* Each is one database transaction: what it writes is its own until it    *)
(* commits, what it reads is what others have committed and what it has    *)
(* written itself, and a row it has locked or updated is locked until its  *)
(* end (PostgreSQL, READ COMMITTED).  A sale locks the rows it allocates   *)
(* from; a return checks what is returnable without any lock; everybody    *)
(* updates WarehouseStock, adds up Product.stock and posts to the ledger.  *)
(*                                                                         *)
(* Batches are numbered in the order of the allocation query.  The sale    *)
(* lines that returns are about were sold earlier, one from each batch.    *)
(***************************************************************************)
EXTENDS Integers, Sequences, FiniteSets, Sums

CONSTANTS
  NProducts, NBatches, NWarehouses,
  Sales, Returns, Receipts,   \* requests that move goods
  Fragile,                    \* bound: the movers whose worker may die
  ProductOf,    \* product of a batch
  Opening,      \* BatchStock.quantity at first; a batch yet to be received has none
  Sold,         \* SaleItem.quantity of the line sold earlier from a batch
  WarehouseOf,  \* warehouse of a sale, a return or a receipt
  Lines,        \* their lines; the batch of a sale's line is left to allocation
  Nothing       \* nothing read

Products == 1..NProducts
Batches == 1..NBatches
Warehouses == 1..NWarehouses
Movers == Sales \cup Returns \cup Receipts

ASSUME CountsAssumption == NProducts \in Nat /\ NBatches \in Nat /\ NWarehouses \in Nat
ASSUME DisjointAssumption ==
  /\ Sales \cap Returns = {} /\ Sales \cap Receipts = {} /\ Returns \cap Receipts = {}
  /\ Fragile \subseteq Movers
ASSUME StockAssumption ==
  /\ ProductOf \in [Batches -> Products]
  /\ Opening \in [Batches -> [Warehouses -> Nat]]
  /\ Sold \in [Batches -> Nat]
ASSUME RequestsAssumption ==
  /\ WarehouseOf \in [Movers -> Warehouses]
  /\ \A r \in Movers : Len(Lines[r]) \in Nat \ {0}
  /\ \A r \in Movers : \A i \in 1..Len(Lines[r]) :
       /\ Lines[r][i].product \in Products /\ Lines[r][i].quantity \in Nat \ {0}
       /\ r \notin Sales => /\ Lines[r][i].batch \in Batches
                           /\ ProductOf[Lines[r][i].batch] = Lines[r][i].product
\* Every line of a receipt makes a batch of its own.
ASSUME ReceiptsAssumption ==
  \A r, s \in Receipts : \A i \in 1..Len(Lines[r]), j \in 1..Len(Lines[s]) :
    Lines[r][i].batch = Lines[s][j].batch => r = s /\ i = j
ASSUME NothingAssumption == Nothing \notin Int

VARIABLES
  shelf,      \* BatchStock.quantity, as committed
  remaining,  \* ProductBatch.remaining_quantity
  status,     \* ProductBatch.status
  total,      \* WarehouseStock.quantity
  stock,      \* Product.stock
  returned,   \* SalesReturnItem.quantity of the line sold from a batch
  locks,      \* rows a transaction has locked
  pc,         \* where a request is
  line,       \* the line it is at
  queue,      \* rows that its statement is about to lock, in order
  change,     \* what it has done to the batches in its warehouse, uncommitted
  written,    \* Product.stock as it has written it, uncommitted
  raced       \* lines of which two returns were under way at once (history)

tables == <<shelf, remaining, status, total, stock, returned>>
local == <<line, queue, change, written>>
vars == <<tables, locks, pc, local, raced>>

-----------------------------------------------------------------------------
(***************************************************************************)
(* Rows and their locks.                                                   *)
(***************************************************************************)

StockRow(b, w) == <<"BatchStock", b, w>>
BatchRow(b) == <<"ProductBatch", b>>
TotalRow(p, w) == <<"WarehouseStock", p, w>>
ProductRow(p) == <<"Product", p>>
AccountRow(a) == <<"Account", a>>

Current(r) == Lines[r][line[r]]

Goto(r, step) == pc' = [pc EXCEPT ![r] = step]

\* The row a request asks for next.
Wanted(r) ==
  CASE pc[r] \in {"lock", "post"} -> Head(queue[r])
    [] pc[r] = "batch" -> BatchRow(Current(r).batch)
    [] pc[r] = "shelf" -> StockRow(Current(r).batch, WarehouseOf[r])
    [] pc[r] = "total" -> TotalRow(Current(r).product, WarehouseOf[r])
    [] pc[r] = "product" -> ProductRow(Current(r).product)

Locking(r) ==
  \/ pc[r] \in {"batch", "shelf", "total", "product"}
  \/ /\ pc[r] \in {"lock", "post"}
     /\ queue[r] # <<>>

WaitsFor(r, s) == r # s /\ Locking(r) /\ Wanted(r) \in locks[s]

\* A row lock is granted when no other transaction holds it, and kept.
LockWanted(r) ==
  /\ Locking(r)
  /\ \A s \in Movers : ~WaitsFor(r, s)
  /\ locks' = [locks EXCEPT ![r] = @ \cup {Wanted(r)}]

Release(r) == locks' = [locks EXCEPT ![r] = {}]

\* The transaction is rolled back: none of its writes has been seen by anyone.
Rollback(r) ==
  /\ Release(r)
  /\ Goto(r, "refused")
  /\ queue' = [queue EXCEPT ![r] = <<>>]
  /\ change' = [change EXCEPT ![r] = [b \in Batches |-> 0]]
  /\ written' = [written EXCEPT ![r] = [p \in Products |-> Nothing]]
  /\ UNCHANGED <<tables, line, raced>>

-----------------------------------------------------------------------------
(***************************************************************************)
(* A line of a sale.                                                       *)
(***************************************************************************)

\* What a request sees of a row: the committed value and its own writes.
Seen(r, b) == shelf[b][WarehouseOf[r]] + change[r][b]

\* Rows of the allocation query.
Pickable(r) ==
  {b \in Batches : ProductOf[b] = Current(r).product /\ Seen(r, b) > 0 /\ status[b] = "active"}

\* SELECT ... FOR UPDATE locks both rows of the join, pair by pair in the query's order.
RowsToLock(r) ==
  LET batches == SelectSeq([b \in Batches |-> b], LAMBDA b : b \in Pickable(r))
      half(i) == (i + 1) \div 2
  IN  [i \in 1..(2 * Len(batches)) |->
         IF i % 2 = 1 THEN StockRow(batches[half(i)], WarehouseOf[r])
                      ELSE BatchRow(batches[half(i)])]

\* allocate_stock_fifo: the query finds its rows.
QueryBatches(r) ==
  /\ r \in Sales /\ pc[r] = "start"
  /\ queue' = [queue EXCEPT ![r] = RowsToLock(r)]
  /\ Goto(r, "lock")
  /\ UNCHANGED <<tables, locks, line, change, written, raced>>

\* Fault: the query forgets FOR UPDATE, and the plan is made of rows others may spend.
PlanUnlocked(r) ==
  /\ pc[r] \in {"lock", "post"} /\ queue[r] # <<>>
  /\ locks' = [locks EXCEPT ![r] = @ \cup {Wanted(r)}]
  /\ queue' = [queue EXCEPT ![r] = Tail(@)]
  /\ UNCHANGED <<tables, pc, line, change, written, raced>>

\* The rows of a statement are locked one after the other.
LockNext(r) ==
  /\ LockWanted(r)
  /\ pc[r] \in {"lock", "post"}
  /\ queue' = [queue EXCEPT ![r] = Tail(@)]
  /\ UNCHANGED <<tables, pc, line, change, written, raced>>

\* Rows that are locked are looked at again: others may have emptied them meanwhile.
\* What has come onto the shelf since the query is not seen.
Locked(r) == {b \in Pickable(r) : StockRow(b, WarehouseOf[r]) \in locks[r]}

Smaller(m, n) == IF m <= n THEN m ELSE n
Larger(m, n) == IF m >= n THEN m ELSE n

OnShelf(r, S) == SumUpTo([b \in Batches |-> IF b \in S THEN Seen(r, b) ELSE 0], NBatches)

\* Fault: a batch that is begun is taken whole.
TakeWhole(r, b) == IF b \in Locked(r) THEN Seen(r, b) ELSE 0

\* take = min(bs.quantity, remaining), in the order of the rows.
Take(r, b) ==
  IF b \in Locked(r)
  THEN Smaller(Seen(r, b), Larger(0, Current(r).quantity - OnShelf(r, Locked(r) \cap 1..(b - 1))))
  ELSE 0

\* consume_allocations: the rows are decremented; they are locked already.
Allocate(r) ==
  /\ pc[r] = "lock" /\ queue[r] = <<>>
  /\ OnShelf(r, Locked(r)) >= Current(r).quantity
  /\ change' = [change EXCEPT ![r] = [b \in Batches |-> @[b] - Take(r, b)]]
  /\ Goto(r, "total")
  /\ UNCHANGED <<tables, locks, line, queue, written, raced>>

\* InsufficientStockError.
RefuseSale(r) ==
  /\ pc[r] = "lock" /\ queue[r] = <<>>
  /\ OnShelf(r, Locked(r)) < Current(r).quantity
  /\ Rollback(r)

-----------------------------------------------------------------------------
(***************************************************************************)
(* A line of a return, and of a receipt.                                   *)
(***************************************************************************)

\* Fault: earlier returns of the line are not counted.
ReturnableSold(r, b) == Sold[b]

\* SaleItem.returnable_quantity and BatchAllocation.returnable_quantity, read without a lock:
\* less what has been returned, by others who have committed and by this request so far.
Returnable(r, b) == Sold[b] - returned[b] - change[r][b]

\* Another return of the line of batch b has passed the check and is not committed.
Overlaps(r, b) == \E s \in Returns \ {r} : change[s][b] > 0

\* create_sales_return asks of the line, and then of its allocations; what has been returned
\* only grows, so the second answer is the one that counts.
CheckLine(r) ==
  LET b == Current(r).batch IN
  /\ r \in Returns /\ pc[r] = "start"
  /\ Current(r).quantity <= Returnable(r, b)
  /\ change' = [change EXCEPT ![r][b] = @ + Current(r).quantity]
  /\ raced' = IF Overlaps(r, b) THEN raced \cup {b} ELSE raced
  /\ Goto(r, "batch")
  /\ UNCHANGED <<tables, locks, line, queue, written>>

\* ValueError of either check.
RefuseReturn(r) ==
  /\ r \in Returns /\ pc[r] = "start"
  /\ Current(r).quantity > Returnable(r, Current(r).batch)
  /\ Rollback(r)

\* A GOOD line: ProductBatch is updated first, BatchStock after it.
UpdateBatch(r) ==
  /\ LockWanted(r) /\ pc[r] \in {"batch", "shelf"}
  /\ Goto(r, IF pc[r] = "batch" THEN "shelf" ELSE "total")
  /\ UNCHANGED <<tables, local, raced>>

\* receive_stock inserts the batch and its row, which nobody else can see.
InsertBatch(r) ==
  /\ r \in Receipts /\ pc[r] = "start"
  /\ change' = [change EXCEPT ![r][Current(r).batch] = Current(r).quantity]
  /\ Goto(r, "total")
  /\ UNCHANGED <<tables, locks, line, queue, written, raced>>

-----------------------------------------------------------------------------
(***************************************************************************)
(* What every line ends with, and the end of the transaction.              *)
(***************************************************************************)

ChangeOf(r, p) ==
  SumUpTo([b \in Batches |-> IF ProductOf[b] = p THEN change[r][b] ELSE 0], NBatches)

\* Fault: the new quantity is worked out first and written last, so nobody waits here.
UpdateTotalLast(r) ==
  /\ pc[r] = "total"
  /\ Goto(r, "sum")
  /\ UNCHANGED <<tables, locks, local, raced>>

\* WarehouseStock.update(quantity=F('quantity') + ...): waits for the row, then relative.
UpdateTotal(r) ==
  /\ LockWanted(r) /\ pc[r] = "total"
  /\ Goto(r, "sum")
  /\ UNCHANGED <<tables, local, raced>>

\* recompute_product_stock, first statement: the sum over the warehouses.
ReadSum(r) ==
  LET p == Current(r).product IN
  /\ pc[r] = "sum"
  /\ written' = [written EXCEPT ![r][p] = SumUpTo(total[p], NWarehouses) + ChangeOf(r, p)]
  /\ Goto(r, "product")
  /\ UNCHANGED <<tables, locks, line, queue, change, raced>>

\* The accounts the postings update, in their order: 1 customers', 2 revenue, 3 cost of
\* goods, 4 inventory, 5 suppliers'.
Postings(r) ==
  CASE r \in Sales -> <<AccountRow(1), AccountRow(2), AccountRow(3), AccountRow(4)>>
    [] r \in Returns -> <<AccountRow(2), AccountRow(1), AccountRow(4), AccountRow(3)>>
    [] r \in Receipts -> <<AccountRow(4), AccountRow(5)>>

\* Second statement: the sum is written to Product.stock.
WriteSum(r) ==
  /\ LockWanted(r) /\ pc[r] = "product"
  /\ IF line[r] < Len(Lines[r])
     THEN /\ line' = [line EXCEPT ![r] = @ + 1]
          /\ Goto(r, "start")
          /\ UNCHANGED queue
     ELSE /\ queue' = [queue EXCEPT ![r] = Postings(r)]
          /\ Goto(r, "post")
          /\ UNCHANGED line
  /\ UNCHANGED <<tables, change, written, raced>>

\* Fault: goods come back to the shelf and not to the batch.
LeftUnreturned(r, b) == remaining[b] + Smaller(change[r][b], 0)

\* What is left of a batch in all warehouses after r.
Left(r, b) == remaining[b] + change[r][b]

\* Fault: a batch counts as empty when its row in this warehouse is.
DepletedHere(r, b) == change[r][b] < 0 /\ Seen(r, b) <= 0

\* A batch is DEPLETED by the sale that leaves nothing of it.
Depletes(r, b) == change[r][b] < 0 /\ Left(r, b) <= 0

Commit(r) ==
  LET w == WarehouseOf[r] IN
  /\ pc[r] = "post" /\ queue[r] = <<>>
  /\ shelf' = [b \in Batches |-> [shelf[b] EXCEPT ![w] = @ + change[r][b]]]
  /\ remaining' = [b \in Batches |-> Left(r, b)]
  /\ status' = [b \in Batches |-> CASE Depletes(r, b) -> "depleted"
                                    [] change[r][b] > 0 -> "active"
                                    [] OTHER -> status[b]]
  /\ total' = [p \in Products |-> [total[p] EXCEPT ![w] = @ + ChangeOf(r, p)]]
  /\ stock' = [p \in Products |-> IF written[r][p] = Nothing THEN stock[p] ELSE written[r][p]]
  /\ returned' = [b \in Batches |-> returned[b] + IF r \in Returns THEN change[r][b] ELSE 0]
  /\ Release(r)
  /\ Goto(r, "served")
  /\ change' = [change EXCEPT ![r] = [b \in Batches |-> 0]]
  /\ written' = [written EXCEPT ![r] = [p \in Products |-> Nothing]]
  /\ UNCHANGED <<line, queue, raced>>

\* Transactions that wait for each other in a circle: the database aborts one of them.
Abort(r) ==
  /\ \E s \in Movers : WaitsFor(r, s)
  /\ \E circle \in SUBSET Movers :
       /\ r \in circle
       /\ \A s \in circle : /\ \E t \in circle : WaitsFor(s, t)
                            /\ \E t \in circle : WaitsFor(t, s)
  /\ Rollback(r)

\* The worker dies, and the database rolls back what it had open.
Crash(r) == r \in Fragile /\ pc[r] \notin {"served", "refused"} /\ Rollback(r)

-----------------------------------------------------------------------------

Init ==
  /\ shelf = Opening
  /\ remaining = [b \in Batches |-> SumUpTo(Opening[b], NWarehouses)]
  /\ status = [b \in Batches |-> IF SumUpTo(Opening[b], NWarehouses) > 0 \/ Sold[b] = 0
                                 THEN "active" ELSE "depleted"]
  /\ total = [p \in Products |-> [w \in Warehouses |->
       SumUpTo([b \in Batches |-> IF ProductOf[b] = p THEN Opening[b][w] ELSE 0], NBatches)]]
  /\ stock = [p \in Products |-> SumUpTo(total[p], NWarehouses)]
  /\ returned = [b \in Batches |-> 0]
  /\ locks = [r \in Movers |-> {}]
  /\ pc = [r \in Movers |-> "start"]
  /\ line = [r \in Movers |-> 1]
  /\ queue = [r \in Movers |-> <<>>]
  /\ change = [r \in Movers |-> [b \in Batches |-> 0]]
  /\ written = [r \in Movers |-> [p \in Products |-> Nothing]]
  /\ raced = {}

Step(r) ==
  \/ QueryBatches(r) \/ LockNext(r) \/ Allocate(r) \/ RefuseSale(r)
  \/ CheckLine(r) \/ RefuseReturn(r) \/ UpdateBatch(r)
  \/ InsertBatch(r)
  \/ UpdateTotal(r) \/ ReadSum(r) \/ WriteSum(r) \/ Commit(r)
  \/ Abort(r)

Next == \E r \in Movers : Step(r) \/ Crash(r)

\* While some request can go on, some request does; no worker has to crash.
Spec == Init /\ [][Next]_vars /\ WF_vars(\E r \in Movers : Step(r))

-----------------------------------------------------------------------------
(***************************************************************************)
(* Properties.                                                             *)
(***************************************************************************)

Steps ==
  {"start", "lock", "batch", "shelf", "total", "sum", "product", "post", "served", "refused"}

\* Every column and every local variable of a request holds what it can hold; no two
\* transactions hold a lock on one row.
TypeOK ==
  /\ shelf \in [Batches -> [Warehouses -> Nat]]
  /\ remaining \in [Batches -> Nat]
  /\ status \in [Batches -> {"active", "depleted"}]
  /\ total \in [Products -> [Warehouses -> Nat]]
  /\ stock \in [Products -> Nat]
  /\ returned \in [Batches -> Nat]
  /\ pc \in [Movers -> Steps]
  /\ line \in [Movers -> Nat]
  /\ \A r \in Movers : line[r] \in 1..Len(Lines[r])
  /\ change \in [Movers -> [Batches -> Int]]
  /\ written \in [Movers -> [Products -> Nat \cup {Nothing}]]
  /\ raced \subseteq Batches
  /\ \A r, s \in Movers : r # s => locks[r] \cap locks[s] = {}

\* The two rollups that are updated relative to themselves are exact after every commit,
\* whatever ran at the same time: remaining_quantity and WarehouseStock.
RollupsExact ==
  /\ \A b \in Batches : remaining[b] = SumUpTo(shelf[b], NWarehouses)
  /\ \A p \in Products, w \in Warehouses :
       total[p][w] =
         SumUpTo([b \in Batches |-> IF ProductOf[b] = p THEN shelf[b][w] ELSE 0], NBatches)

\* The rollup that is written as a whole, Product.stock, is exact only of a product that
\* moves in one warehouse, whose WarehouseStock row makes its movers wait for each other.
InOneWarehouse(p) ==
  \A r, s \in {m \in Movers : \E i \in 1..Len(Lines[m]) : Lines[m][i].product = p} :
    WarehouseOf[r] = WarehouseOf[s]
StockExact ==
  \A p \in Products : InOneWarehouse(p) => stock[p] = SumUpTo(total[p], NWarehouses)

\* Goods on a shelf can be sold: no interleaving of a sale that empties a batch with a
\* return to it, or with another warehouse, leaves them in a DEPLETED batch.
NothingStranded ==
  \A b \in Batches, w \in Warehouses : shelf[b][w] > 0 => status[b] = "active"

\* No more of a line is returned than was sold, unless two returns of it overlap: the
\* checks of create_sales_return take no lock.
ReturnsWithinSale == \A b \in Batches : b \notin raced => returned[b] <= Sold[b]

\* Requests take effect one at a time and as a whole, and are answered.
Asked ==
  [r \in Movers |-> [p \in Products |->
     LET asked == SumUpTo([i \in 1..Len(Lines[r]) |->
           IF Lines[r][i].product = p THEN Lines[r][i].quantity ELSE 0], Len(Lines[r]))
     IN  IF r \in Sales THEN -asked ELSE asked]]
Outcome ==
  [r \in Movers |-> IF pc[r] \in {"served", "refused"} THEN pc[r] ELSE "pending"]
StockBook == INSTANCE StockBook WITH Requests <- Movers, outcome <- Outcome
BookKept == StockBook!Book

=============================================================================
