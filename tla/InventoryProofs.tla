--------------------------- MODULE InventoryProofs ---------------------------
(***************************************************************************)
(* The stock tables agree, nothing is stranded and nothing is lost, for    *)
(* any number of warehouses, batches and sales.                            *)
(***************************************************************************)
EXTENDS Inventory, SumsProofs

USE WarehousesAssumption, BatchesAssumption, SalesAssumption,
    QuantitiesAssumption, ExpiryAssumption

\* What a batch contributes to a sale is there, and comes from pickable stock.
LEMMA AllocationType ==
  ASSUME TypeOK, NEW w \in Warehouses, NEW q \in Int
  PROVE  /\ Allocation(w, q) \in [Batches -> Nat]
         /\ \A b \in Batches : /\ Allocation(w, q)[b] <= batchStock[b][w]
                               /\ Allocation(w, q)[b] > 0 => Pickable(b, w)
<1>1. \A b \in Batches : /\ Available(b, w) \in Nat
                         /\ Available(b, w) <= batchStock[b][w]
                         /\ Available(b, w) > 0 => Pickable(b, w)
  <2> TAKE b \in Batches
  <2>1. batchStock[b][w] \in Nat
    BY DEF TypeOK
  <2> QED BY <2>1 DEF Available
<1>2. \A b \in Batches : ShelfBefore(b, w) \in Int
  <2> TAKE b \in Batches
  <2> DEFINE f == [c \in Batches |-> IF PickedBefore(c, b) THEN Available(c, w) ELSE 0]
  <2>1. f \in [1..MaxBatches -> Int]
    BY <1>1 DEF Batches
  <2>2. SumUpTo(f, MaxBatches) \in Int
    <3> HIDE DEF f
    <3> QED BY <2>1, SumInt
  <2> QED BY <2>2 DEF ShelfBefore
<1>3. ASSUME NEW b \in Batches
      PROVE  /\ Allocation(w, q)[b] \in Nat
             /\ Allocation(w, q)[b] <= Available(b, w)
  <2> DEFINE a == Available(b, w)
             r == q - ShelfBefore(b, w)
  <2>1. a \in Nat /\ r \in Int
    BY <1>1, <1>2
  <2>2. Allocation(w, q)[b] = Smaller(a, Larger(0, r))
    BY DEF Allocation
  <2> HIDE DEF a, r
  <2>3. Larger(0, r) \in Nat
    BY <2>1 DEF Larger
  <2>4. Smaller(a, Larger(0, r)) \in Nat /\ Smaller(a, Larger(0, r)) <= a
    BY <2>1, <2>3 DEF Smaller
  <2> QED BY <2>2, <2>4 DEF a
<1>4. Allocation(w, q) \in [Batches -> Nat]
  <2>1. Allocation(w, q) = [b \in Batches |-> Allocation(w, q)[b]]
    BY DEF Allocation
  <2> QED BY <2>1, <1>3
<1>5. ASSUME NEW b \in Batches
      PROVE  /\ Allocation(w, q)[b] <= batchStock[b][w]
             /\ Allocation(w, q)[b] > 0 => Pickable(b, w)
  <2>1. batchStock[b][w] \in Nat
    BY DEF TypeOK
  <2> QED BY <1>1, <1>3, <2>1
<1> QED BY <1>4, <1>5

\* Any movement that leaves BatchStock non-negative keeps the four counts of the
\* same goods in agreement.
LEMMA MovementKeepsRollups ==
  ASSUME TypeOK, RollupsAgree, MovementsExplainStock,
         NEW w \in Warehouses, NEW change \in [Batches -> Int],
         \A b \in Batches : batchStock[b][w] + change[b] >= 0,
         ApplyMovement(w, change)
  PROVE  /\ batchStock' \in [Batches -> [Warehouses -> Nat]]
         /\ remaining' \in [Batches -> Int]
         /\ \A b \in Batches : remaining'[b] = remaining[b] + change[b]
         /\ \A b \in Batches, v \in Warehouses :
              batchStock'[b][v] = batchStock[b][v] + (IF v = w THEN change[b] ELSE 0)
         /\ warehouseStock' \in [Warehouses -> Int]
         /\ productStock' \in Int
         /\ movements' \in [Batches -> [Warehouses -> Int]]
         /\ RollupsAgree'
         /\ MovementsExplainStock'
<1>1. \A b \in Batches, v \in Warehouses :
        /\ batchStock'[b][v] = batchStock[b][v] + (IF v = w THEN change[b] ELSE 0)
        /\ batchStock'[b][v] \in Nat
  BY DEF ApplyMovement, TypeOK
<1>2. batchStock' \in [Batches -> [Warehouses -> Nat]]
  BY <1>1 DEF ApplyMovement, TypeOK
<1>3. remaining' \in [Batches -> Int] /\ \A b \in Batches : remaining'[b] = remaining[b] + change[b]
  BY DEF ApplyMovement, TypeOK
<1>4. movements' \in [Batches -> [Warehouses -> Int]] /\ MovementsExplainStock'
  <2>1. \A b \in Batches, v \in Warehouses :
          movements'[b][v] = movements[b][v] + (IF v = w THEN change[b] ELSE 0)
    BY DEF ApplyMovement, TypeOK
  <2>2. movements' \in [Batches -> [Warehouses -> Int]]
    BY DEF ApplyMovement, TypeOK
  <2> QED BY <1>1, <2>1, <2>2 DEF MovementsExplainStock
<1>5. SumUpTo(change, MaxBatches) \in Int
  BY SumInt DEF Batches
<1>6. /\ warehouseStock' \in [Warehouses -> Int]
      /\ \A v \in Warehouses : warehouseStock'[v] =
           warehouseStock[v] + (IF v = w THEN SumUpTo(change, MaxBatches) ELSE 0)
  BY <1>5 DEF ApplyMovement, TypeOK
<1>7. WarehouseRollup'
  <2> SUFFICES ASSUME NEW v \in Warehouses
               PROVE  warehouseStock'[v] = SumUpTo([b \in Batches |-> batchStock'[b][v]], MaxBatches)
    BY DEF WarehouseRollup
  <2> DEFINE f == [b \in Batches |-> batchStock[b][v]]
             g == [b \in Batches |-> batchStock'[b][v]]
  <2>1. f \in [1..MaxBatches -> Int] /\ g \in [1..MaxBatches -> Int]
    BY <1>2 DEF TypeOK, Batches
  <2>2. warehouseStock[v] = SumUpTo(f, MaxBatches)
    BY DEF RollupsAgree, WarehouseRollup
  <2>3. CASE v = w
    <3>1. \A b \in 1..MaxBatches : g[b] = f[b] + change[b]
      BY <1>1, <2>3 DEF Batches
    <3>2. change \in [1..MaxBatches -> Int]
      BY DEF Batches
    <3>3. SumUpTo(g, MaxBatches) = SumUpTo(f, MaxBatches) + SumUpTo(change, MaxBatches)
      <4> HIDE DEF f, g
      <4> QED BY <2>1, <3>1, <3>2, SumAdd
    <3>4. warehouseStock'[v] = warehouseStock[v] + SumUpTo(change, MaxBatches)
      BY <1>6, <2>3
    <3> QED BY <2>2, <3>3, <3>4
  <2>4. CASE v # w
    <3>1. \A b \in 1..MaxBatches : g[b] = f[b]
      BY <1>1, <2>4 DEF Batches, TypeOK
    <3>2. SumUpTo(g, MaxBatches) = SumUpTo(f, MaxBatches)
      <4> HIDE DEF f, g
      <4> QED BY <2>1, <3>1, SumCong
    <3>3. warehouseStock'[v] = warehouseStock[v]
      BY <1>6, <2>4 DEF TypeOK
    <3> QED BY <2>2, <3>2, <3>3
  <2> QED BY <2>3, <2>4
<1>8. BatchRollup'
  <2> SUFFICES ASSUME NEW b \in Batches
               PROVE  remaining'[b] = SumUpTo(batchStock'[b], NWarehouses)
    BY DEF BatchRollup
  <2> DEFINE f == batchStock[b]
             g == batchStock'[b]
             d == change[b]
  <2>1. f \in [1..NWarehouses -> Int] /\ g \in [1..NWarehouses -> Int]
    <3>1. f \in [1..NWarehouses -> Nat] /\ g \in [1..NWarehouses -> Nat]
      BY <1>2 DEF TypeOK, Warehouses
    <3> HIDE DEF f, g
    <3> QED BY <3>1
  <2>2. \A v \in 1..NWarehouses : g[v] = f[v] + (IF v = w THEN d ELSE 0)
    BY <1>1 DEF Warehouses
  <2>3. w \in 1..NWarehouses /\ NWarehouses \in Nat /\ d \in Int
    BY DEF Warehouses
  <2>4. SumUpTo(g, NWarehouses) = SumUpTo(f, NWarehouses) + d
    <3> DEFINE p == [v \in 1..NWarehouses |-> IF v = w THEN d ELSE 0]
    <3>1. p \in [1..NWarehouses -> Int] /\ \A v \in 1..NWarehouses : g[v] = f[v] + p[v]
      BY <2>2, <2>3
    <3>2. SumUpTo(p, NWarehouses) = d
      BY <2>3, SumPoint
    <3> HIDE DEF f, g, d, p
    <3> QED BY <2>1, <2>3, <3>1, <3>2, SumAdd
  <2>5. remaining[b] = SumUpTo(f, NWarehouses)
    BY DEF RollupsAgree, BatchRollup
  <2> QED BY <1>3, <2>4, <2>5
<1>9. ProductRollup' /\ productStock' \in Int
  <2>1. productStock' = SumUpTo(warehouseStock', NWarehouses)
    BY DEF ApplyMovement, RecomputeProductStock, ProductTotal
  <2>2. SumUpTo(warehouseStock', NWarehouses) \in Int
    BY <1>6, SumInt DEF Warehouses
  <2> QED BY <2>1, <2>2 DEF ProductRollup, ProductTotal
<1> QED BY <1>1, <1>2, <1>3, <1>4, <1>6, <1>7, <1>8, <1>9 DEF RollupsAgree

-----------------------------------------------------------------------------
(***************************************************************************)
(* Goods with customers.                                                   *)
(***************************************************************************)

LEMMA WithCustomersInt ==
  ASSUME allocated \in [SaleLines -> [Batches -> Nat]],
         restocked \in [SaleLines -> [Batches -> Nat]], NEW b \in Batches
  PROVE  WithCustomers(b) \in Int
<1> DEFINE f == [s \in SaleLines |-> allocated[s][b] - restocked[s][b]]
<1>1. f \in [1..MaxSales -> Int]
  BY DEF SaleLines
<1>2. SumUpTo(f, MaxSales) \in Int
  <2> HIDE DEF f
  <2> QED BY <1>1, SumInt
<1> QED BY <1>2 DEF WithCustomers

\* What one sale line takes or brings back is what the total changes by.
LEMMA WithCustomersStep ==
  ASSUME allocated \in [SaleLines -> [Batches -> Nat]],
         restocked \in [SaleLines -> [Batches -> Nat]],
         allocated' \in [SaleLines -> [Batches -> Nat]],
         restocked' \in [SaleLines -> [Batches -> Nat]],
         NEW b \in Batches, NEW s \in SaleLines, NEW d \in Int,
         \A t \in SaleLines : allocated'[t][b] - restocked'[t][b] =
            (allocated[t][b] - restocked[t][b]) + (IF t = s THEN d ELSE 0)
  PROVE  WithCustomers(b)' = WithCustomers(b) + d
<1> DEFINE f == [t \in SaleLines |-> allocated[t][b] - restocked[t][b]]
           g == [t \in SaleLines |-> allocated'[t][b] - restocked'[t][b]]
           p == [t \in 1..MaxSales |-> IF t = s THEN d ELSE 0]
<1>1. f \in [1..MaxSales -> Int] /\ g \in [1..MaxSales -> Int]
  BY DEF SaleLines
<1>2. p \in [1..MaxSales -> Int] /\ \A t \in 1..MaxSales : g[t] = f[t] + p[t]
  BY DEF SaleLines
<1>3. SumUpTo(p, MaxSales) = d
  BY SumPoint DEF SaleLines
<1>4. SumUpTo(g, MaxSales) = SumUpTo(f, MaxSales) + d
  <2> HIDE DEF f, g, p
  <2> QED BY <1>1, <1>2, <1>3, SumAdd
<1> QED BY <1>4 DEF WithCustomers

-----------------------------------------------------------------------------
(***************************************************************************)
(* Each operation preserves the inductive invariant.                       *)
(***************************************************************************)

\* Purchase and AdjustUp.
LEMMA ReceiveKeepsIInv ==
  ASSUME IInv, NEW w \in Warehouses, NEW q \in Int, NEW e \in ExpiryDates \cup {NoExpiry},
         NEW from \in 0..NWarehouses, ReceiveStock(w, q, e, from),
         UNCHANGED <<saleVars, returnVars, sentBack, writtenOff>>
  PROVE  IInv'
<1> DEFINE new == nBatches + 1
           change == [b \in Batches |-> IF b = new THEN q ELSE 0]
<1>1. /\ TypeOK /\ BlankRows /\ RollupsAgree /\ MovementsExplainStock
      /\ Conservation /\ NoStrandedStock
  BY DEF IInv
<1>2. /\ nBatches < MaxBatches /\ q \in Nat /\ nBatches' = new
      /\ expiry' = [expiry EXCEPT ![new] = e]
      /\ initial' = [initial EXCEPT ![new] = q]
      /\ origin' = [origin EXCEPT ![new] = from]
      /\ status' = [status EXCEPT ![new] = "active"]
      /\ ApplyMovement(w, change)
  BY DEF ReceiveStock
<1>3. new \in Batches
  BY <1>1, <1>2 DEF TypeOK, Batches
<1>4. UNCHANGED <<nSales, saleWarehouse, saleQuantity, allocated, restocked, scrapped, sentBack, writtenOff>>
  BY DEF saleVars, returnVars
<1>5. change \in [Batches -> Int] /\ \A b \in Batches : batchStock[b][w] + change[b] >= 0
  BY <1>1, <1>2 DEF TypeOK
<1>6. /\ batchStock' \in [Batches -> [Warehouses -> Nat]]
      /\ remaining' \in [Batches -> Int]
      /\ \A b \in Batches : remaining'[b] = remaining[b] + change[b]
      /\ \A b \in Batches, v \in Warehouses :
           batchStock'[b][v] = batchStock[b][v] + (IF v = w THEN change[b] ELSE 0)
      /\ warehouseStock' \in [Warehouses -> Int]
      /\ productStock' \in Int
      /\ movements' \in [Batches -> [Warehouses -> Int]]
      /\ RollupsAgree'
      /\ MovementsExplainStock'
  <2> HIDE DEF change
  <2> QED BY <1>1, <1>2, <1>5, MovementKeepsRollups
<1>7. TypeOK'
  <2>1. nBatches' \in 0..MaxBatches
    BY <1>1, <1>2 DEF TypeOK
  <2>2. expiry' \in [Batches -> ExpiryDates \cup {NoExpiry}]
    BY <1>1, <1>2 DEF TypeOK
  <2>3. initial' \in [Batches -> Nat]
    BY <1>1, <1>2 DEF TypeOK
  <2>4. origin' \in [Batches -> 0..NWarehouses]
    BY <1>1, <1>2 DEF TypeOK
  <2>5. status' \in [Batches -> {"active", "depleted"}]
    BY <1>1, <1>2 DEF TypeOK
  <2> QED BY <1>1, <1>4, <1>6, <2>1, <2>2, <2>3, <2>4, <2>5 DEF TypeOK
<1>8. BlankRows'
  <2>1. nBatches \in Nat /\ initial \in [Batches -> Nat]
    BY <1>1 DEF TypeOK
  <2>2. ASSUME NEW b \in Batches, b > nBatches' PROVE initial'[b] = 0
    <3>1. b > nBatches /\ b # new
      BY <1>2, <2>1, <2>2 DEF Batches
    <3>2. initial'[b] = initial[b]
      BY <1>2, <2>1, <3>1
    <3> QED BY <1>1, <3>1, <3>2 DEF BlankRows
  <2>3. ASSUME NEW s \in SaleLines, NEW b \in Batches, b > nBatches' PROVE allocated'[s][b] = 0
    <3>1. b > nBatches
      BY <1>2, <2>1, <2>3 DEF Batches
    <3> QED BY <1>1, <1>4, <3>1 DEF BlankRows
  <2>4. ASSUME NEW s \in SaleLines, NEW b \in Batches, s > nSales'
        PROVE  allocated'[s][b] = 0 /\ restocked'[s][b] = 0 /\ scrapped'[s][b] = 0
    BY <1>1, <1>4, <2>4 DEF BlankRows
  <2> QED BY <2>2, <2>3, <2>4 DEF BlankRows
<1>9. Conservation'
  <2> SUFFICES ASSUME NEW b \in Batches
               PROVE  initial'[b] = remaining'[b] + WithCustomers(b)' + sentBack'[b] + writtenOff'[b]
    BY DEF Conservation
  <2>1. WithCustomers(b)' = WithCustomers(b) /\ WithCustomers(b) \in Int
    BY <1>1, <1>4, WithCustomersInt DEF WithCustomers, TypeOK
  <2>2. initial[b] = remaining[b] + WithCustomers(b) + sentBack[b] + writtenOff[b]
    BY <1>1 DEF Conservation
  <2>3. initial'[b] = initial[b] + change[b]
    <3>1. initial \in [Batches -> Nat] /\ nBatches \in Nat /\ initial[new] = 0
      BY <1>1, <1>3 DEF BlankRows, TypeOK
    <3>2. initial' = [initial EXCEPT ![new] = q]
      BY <1>2
    <3>3. change[b] = IF b = new THEN q ELSE 0
      OBVIOUS
    <3> HIDE DEF new, change
    <3> QED BY <1>3, <3>1, <3>2, <3>3
  <2>4. /\ initial[b] \in Int /\ remaining[b] \in Int /\ change[b] \in Int
        /\ sentBack[b] \in Int /\ writtenOff[b] \in Int
    BY <1>1, <1>5 DEF TypeOK
  <2> HIDE DEF change
  <2> QED BY <1>4, <1>6, <2>1, <2>2, <2>3, <2>4
<1>10. NoStrandedStock'
  <2> SUFFICES ASSUME NEW b \in Batches, NEW v \in Warehouses, batchStock'[b][v] > 0
               PROVE  b <= nBatches' /\ status'[b] = "active"
    BY DEF NoStrandedStock, Pickable
  <2>1. CASE b = new
    BY <1>1, <1>2, <1>3, <2>1 DEF TypeOK
  <2>2. CASE b # new
    <3>1. batchStock[b][v] > 0
      BY <1>1, <1>6, <2>2 DEF TypeOK
    <3> QED BY <1>1, <1>2, <2>2, <3>1 DEF NoStrandedStock, Pickable, TypeOK, Batches
  <2> QED BY <2>1, <2>2
<1> QED BY <1>6, <1>7, <1>8, <1>9, <1>10 DEF IInv

\* Consuming an allocation: the counts agree, and a batch is DEPLETED only when
\* nothing of it is left in any warehouse.
LEMMA ConsumeKeepsStock ==
  ASSUME TypeOK, RollupsAgree, MovementsExplainStock, NoStrandedStock,
         NEW w \in Warehouses, NEW take \in [Batches -> Nat],
         \A b \in Batches : take[b] <= batchStock[b][w],
         ConsumeAllocations(w, take), nBatches' = nBatches
  PROVE  /\ batchStock' \in [Batches -> [Warehouses -> Nat]]
         /\ remaining' \in [Batches -> Int]
         /\ \A b \in Batches : remaining'[b] = remaining[b] - take[b]
         /\ warehouseStock' \in [Warehouses -> Int]
         /\ productStock' \in Int
         /\ movements' \in [Batches -> [Warehouses -> Int]]
         /\ status' \in [Batches -> {"active", "depleted"}]
         /\ RollupsAgree'
         /\ MovementsExplainStock'
         /\ NoStrandedStock'
<1> DEFINE change == [b \in Batches |-> -take[b]]
<1>1. /\ ApplyMovement(w, change)
      /\ status' = [b \in Batches |->
                      IF take[b] > 0 /\ remaining'[b] <= 0 THEN "depleted" ELSE status[b]]
  BY DEF ConsumeAllocations
<1>2. /\ change \in [Batches -> Int]
      /\ \A b \in Batches : change[b] = -take[b] /\ batchStock[b][w] + change[b] >= 0
  BY DEF TypeOK
<1>3. /\ batchStock' \in [Batches -> [Warehouses -> Nat]]
      /\ remaining' \in [Batches -> Int]
      /\ \A b \in Batches : remaining'[b] = remaining[b] + change[b]
      /\ \A b \in Batches, v \in Warehouses :
           batchStock'[b][v] = batchStock[b][v] + (IF v = w THEN change[b] ELSE 0)
      /\ warehouseStock' \in [Warehouses -> Int]
      /\ productStock' \in Int
      /\ movements' \in [Batches -> [Warehouses -> Int]]
      /\ RollupsAgree'
      /\ MovementsExplainStock'
  <2> HIDE DEF change
  <2> QED BY <1>1, <1>2, MovementKeepsRollups
<1>4. \A b \in Batches : remaining'[b] = remaining[b] - take[b]
  BY <1>2, <1>3 DEF TypeOK
<1>5. status' \in [Batches -> {"active", "depleted"}]
  BY <1>1 DEF TypeOK
<1>6. ASSUME NEW b \in Batches, NEW v \in Warehouses, batchStock'[b][v] > 0
      PROVE  b <= nBatches' /\ status'[b] = "active"
  <2>1. batchStock[b][v] >= batchStock'[b][v]
    <3>1. change[b] = -take[b] /\ take[b] \in Nat /\ batchStock[b][v] \in Nat
      BY <1>2 DEF TypeOK
    <3>2. batchStock'[b][v] = batchStock[b][v] + (IF v = w THEN change[b] ELSE 0)
      BY <1>3
    <3> HIDE DEF change
    <3> QED BY <3>1, <3>2
  <2>2. b <= nBatches /\ status[b] = "active"
    BY <1>3, <1>6, <2>1 DEF NoStrandedStock, Pickable, TypeOK
  <2>3. remaining'[b] > 0
    <3> DEFINE row == batchStock'[b]
    <3>1. row \in [1..NWarehouses -> Nat] /\ v \in 1..NWarehouses /\ row[v] > 0
      BY <1>3, <1>6 DEF Warehouses
    <3>2. row[v] <= SumUpTo(row, NWarehouses) /\ SumUpTo(row, NWarehouses) \in Nat
      <4> HIDE DEF row
      <4> QED BY <3>1, SumBound, SumNat
    <3>3. remaining'[b] = SumUpTo(row, NWarehouses)
      BY <1>3 DEF RollupsAgree, BatchRollup
    <3> QED BY <3>1, <3>2, <3>3
  <2>4. status'[b] = status[b]
    BY <1>1, <1>3, <2>3
  <2> QED BY <2>2, <2>4
<1>7. NoStrandedStock'
  BY <1>6 DEF NoStrandedStock, Pickable
<1> QED BY <1>3, <1>4, <1>5, <1>7

LEMMA AdjustDownKeepsIInv ==
  ASSUME IInv, NEW w \in Warehouses, NEW q \in Int, AdjustDown(w, q)
  PROVE  IInv'
<1> DEFINE take == Allocation(w, q)
<1>1. /\ TypeOK /\ BlankRows /\ RollupsAgree /\ MovementsExplainStock
      /\ Conservation /\ NoStrandedStock
  BY DEF IInv
<1>2. /\ ConsumeAllocations(w, take)
      /\ writtenOff' = [b \in Batches |-> writtenOff[b] + take[b]]
      /\ UNCHANGED <<nBatches, expiry, initial, origin>>
      /\ UNCHANGED <<nSales, saleWarehouse, saleQuantity, allocated, restocked, scrapped, sentBack>>
  BY DEF AdjustDown, batchVars, saleVars, returnVars
<1>3. take \in [Batches -> Nat] /\ \A b \in Batches : take[b] <= batchStock[b][w]
  BY <1>1, AllocationType
<1> HIDE DEF take
<1>4. /\ batchStock' \in [Batches -> [Warehouses -> Nat]]
      /\ remaining' \in [Batches -> Int]
      /\ \A b \in Batches : remaining'[b] = remaining[b] - take[b]
      /\ warehouseStock' \in [Warehouses -> Int]
      /\ productStock' \in Int
      /\ movements' \in [Batches -> [Warehouses -> Int]]
      /\ status' \in [Batches -> {"active", "depleted"}]
      /\ RollupsAgree' /\ MovementsExplainStock' /\ NoStrandedStock'
  BY <1>1, <1>2, <1>3, ConsumeKeepsStock
<1>5. TypeOK'
  <2>1. writtenOff' \in [Batches -> Nat]
    BY <1>1, <1>2, <1>3 DEF TypeOK
  <2> QED BY <1>1, <1>2, <1>4, <2>1 DEF TypeOK
<1>6. BlankRows'
  BY <1>1, <1>2 DEF BlankRows
<1>7. Conservation'
  <2> SUFFICES ASSUME NEW b \in Batches
               PROVE  initial'[b] = remaining'[b] + WithCustomers(b)' + sentBack'[b] + writtenOff'[b]
    BY DEF Conservation
  <2>1. WithCustomers(b)' = WithCustomers(b) /\ WithCustomers(b) \in Int
    BY <1>1, <1>2, WithCustomersInt DEF WithCustomers, TypeOK
  <2>2. initial[b] = remaining[b] + WithCustomers(b) + sentBack[b] + writtenOff[b]
    BY <1>1 DEF Conservation
  <2>3. /\ initial[b] \in Int /\ remaining[b] \in Int /\ take[b] \in Int
        /\ sentBack[b] \in Int /\ writtenOff[b] \in Int
    BY <1>1, <1>3 DEF TypeOK
  <2>4. writtenOff'[b] = writtenOff[b] + take[b]
    BY <1>2
  <2> QED BY <1>2, <1>4, <2>1, <2>2, <2>3, <2>4
<1> QED BY <1>4, <1>5, <1>6, <1>7 DEF IInv

LEMMA SellKeepsIInv ==
  ASSUME IInv, NEW w \in Warehouses, NEW q \in Int, Sell(w, q)
  PROVE  IInv'
<1> DEFINE take == Allocation(w, q)
           s == nSales + 1
<1>1. /\ TypeOK /\ BlankRows /\ RollupsAgree /\ MovementsExplainStock
      /\ Conservation /\ NoStrandedStock
  BY DEF IInv
<1>2. /\ nSales < MaxSales
      /\ ConsumeAllocations(w, take)
      /\ allocated' = [allocated EXCEPT ![s] = take]
      /\ nSales' = s
      /\ saleWarehouse' = [saleWarehouse EXCEPT ![s] = w]
      /\ saleQuantity' = [saleQuantity EXCEPT ![s] = q]
      /\ UNCHANGED <<nBatches, expiry, initial, origin, restocked, scrapped, sentBack, writtenOff>>
  BY DEF Sell, batchVars, returnVars
<1>3. /\ take \in [Batches -> Nat]
      /\ \A b \in Batches : take[b] <= batchStock[b][w] /\ (take[b] > 0 => b <= nBatches)
  BY <1>1, AllocationType DEF Pickable
<1>4. s \in SaleLines /\ nSales \in Nat /\ s > nSales
  BY <1>1, <1>2 DEF TypeOK, SaleLines
<1> HIDE DEF take, s
<1>5. /\ batchStock' \in [Batches -> [Warehouses -> Nat]]
      /\ remaining' \in [Batches -> Int]
      /\ \A b \in Batches : remaining'[b] = remaining[b] - take[b]
      /\ warehouseStock' \in [Warehouses -> Int]
      /\ productStock' \in Int
      /\ movements' \in [Batches -> [Warehouses -> Int]]
      /\ status' \in [Batches -> {"active", "depleted"}]
      /\ RollupsAgree' /\ MovementsExplainStock' /\ NoStrandedStock'
  BY <1>1, <1>2, <1>3, ConsumeKeepsStock
<1>6. /\ allocated \in [SaleLines -> [Batches -> Nat]]
      /\ allocated' \in [SaleLines -> [Batches -> Nat]]
  BY <1>1, <1>2, <1>3 DEF TypeOK
<1>7. TypeOK'
  <2>1. saleWarehouse' \in [SaleLines -> Warehouses]
    BY <1>1, <1>2 DEF TypeOK
  <2>2. saleQuantity' \in [SaleLines -> Int]
    BY <1>1, <1>2 DEF TypeOK
  <2>3. nSales' \in 0..MaxSales
    BY <1>2, <1>4 DEF SaleLines
  <2> QED BY <1>1, <1>2, <1>5, <1>6, <2>1, <2>2, <2>3 DEF TypeOK
<1>8. BlankRows'
  <2>1. ASSUME NEW t \in SaleLines, NEW b \in Batches, b > nBatches' PROVE allocated'[t][b] = 0
    <3>1. nBatches' = nBatches /\ nBatches \in Nat
      BY <1>1, <1>2 DEF TypeOK
    <3>2. take[b] = 0
      BY <1>3, <2>1, <3>1 DEF Batches
    <3>3. allocated[t][b] = 0
      BY <1>1, <2>1, <3>1 DEF BlankRows
    <3> QED BY <1>2, <1>6, <3>2, <3>3
  <2>2. ASSUME NEW t \in SaleLines, NEW b \in Batches, t > nSales'
        PROVE  allocated'[t][b] = 0 /\ restocked'[t][b] = 0 /\ scrapped'[t][b] = 0
    <3>1. t > nSales /\ t # s
      BY <1>2, <1>4, <2>2 DEF SaleLines
    <3>2. allocated'[t] = allocated[t]
      BY <1>2, <1>6, <3>1
    <3> QED BY <1>1, <1>2, <3>1, <3>2 DEF BlankRows
  <2>3. \A b \in Batches : b > nBatches' => initial'[b] = 0
    BY <1>1, <1>2 DEF BlankRows
  <2> QED BY <2>1, <2>2, <2>3 DEF BlankRows
<1>9. Conservation'
  <2> SUFFICES ASSUME NEW b \in Batches
               PROVE  initial'[b] = remaining'[b] + WithCustomers(b)' + sentBack'[b] + writtenOff'[b]
    BY DEF Conservation
  <2> DEFINE d == take[b]
  <2>1. d \in Int /\ d = take[b]
    BY <1>3
  <2>2. restocked \in [SaleLines -> [Batches -> Nat]] /\ restocked' = restocked
    BY <1>1, <1>2 DEF TypeOK
  <2>3. \A t \in SaleLines : allocated'[t][b] - restocked'[t][b] =
            (allocated[t][b] - restocked[t][b]) + (IF t = s THEN d ELSE 0)
    <3> TAKE t \in SaleLines
    <3>1. CASE t = s
      <4>1. allocated[s][b] = 0 /\ allocated'[s][b] = take[b]
        BY <1>1, <1>2, <1>4, <1>6 DEF BlankRows
      <4> QED BY <2>1, <2>2, <3>1, <4>1
    <3>2. CASE t # s
      <4>1. allocated'[t] = allocated[t]
        BY <1>2, <1>6, <3>2
      <4> QED BY <1>6, <2>2, <3>2, <4>1
    <3> QED BY <3>1, <3>2
  <2> HIDE DEF d
  <2>4. WithCustomers(b)' = WithCustomers(b) + d
    BY <1>4, <1>6, <2>1, <2>2, <2>3, WithCustomersStep
  <2>5. WithCustomers(b) \in Int
    BY <1>6, <2>2, WithCustomersInt
  <2>6. initial[b] = remaining[b] + WithCustomers(b) + sentBack[b] + writtenOff[b]
    BY <1>1 DEF Conservation
  <2>7. /\ initial[b] \in Int /\ remaining[b] \in Int
        /\ sentBack[b] \in Int /\ writtenOff[b] \in Int
    BY <1>1 DEF TypeOK
  <2> QED BY <1>2, <1>5, <2>1, <2>4, <2>5, <2>6, <2>7
<1> QED BY <1>5, <1>7, <1>8, <1>9 DEF IInv

LEMMA ReturnGoodKeepsIInv ==
  ASSUME IInv, NEW s \in SaleLines, NEW q \in Int, ReturnGood(s, q)
  PROVE  IInv'
<1>1. /\ TypeOK /\ BlankRows /\ RollupsAgree /\ MovementsExplainStock
      /\ Conservation /\ NoStrandedStock
  BY DEF IInv
<1>2. PICK take \in Spreads(s, q) :
        /\ ApplyMovement(saleWarehouse[s], take)
        /\ status' = [b \in Batches |-> IF take[b] > 0 THEN "active" ELSE status[b]]
        /\ restocked' = [restocked EXCEPT ![s] = [b \in Batches |-> @[b] + take[b]]]
  BY DEF ReturnGood, Reactivate, RecordRestock
<1>3. /\ s <= nSales
      /\ UNCHANGED <<nBatches, expiry, initial, origin, nSales, saleWarehouse, saleQuantity,
                     allocated, scrapped, sentBack, writtenOff>>
  BY DEF ReturnGood, batchVars, saleVars
<1>4. /\ take \in [Batches -> Nat] /\ take \in [Batches -> Int]
      /\ \A b \in Batches : take[b] <= Returnable(s, b)
  BY DEF Spreads
<1>5. \A b \in Batches : take[b] > 0 => b <= nBatches
  <2> SUFFICES ASSUME NEW b \in Batches, take[b] > 0, ~ (b <= nBatches) PROVE FALSE
    OBVIOUS
  <2>1. allocated[s][b] = 0
    BY <1>1 DEF BlankRows, TypeOK, Batches
  <2>2. restocked[s][b] \in Nat /\ scrapped[s][b] \in Nat /\ take[b] \in Nat
    BY <1>1, <1>4 DEF TypeOK
  <2> QED BY <1>4, <2>1, <2>2 DEF Returnable
<1> DEFINE w == saleWarehouse[s]
<1>6. w \in Warehouses
  BY <1>1 DEF TypeOK
<1>7. \A b \in Batches : batchStock[b][w] + take[b] >= 0
  <2> TAKE b \in Batches
  <2>1. batchStock[b][w] \in Nat /\ take[b] \in Nat
    BY <1>1, <1>4, <1>6 DEF TypeOK
  <2> QED BY <2>1
<1>8. /\ batchStock' \in [Batches -> [Warehouses -> Nat]]
      /\ remaining' \in [Batches -> Int]
      /\ \A b \in Batches : remaining'[b] = remaining[b] + take[b]
      /\ \A b \in Batches, v \in Warehouses :
           batchStock'[b][v] = batchStock[b][v] + (IF v = w THEN take[b] ELSE 0)
      /\ warehouseStock' \in [Warehouses -> Int]
      /\ productStock' \in Int
      /\ movements' \in [Batches -> [Warehouses -> Int]]
      /\ RollupsAgree' /\ MovementsExplainStock'
  <2>1. ApplyMovement(w, take)
    BY <1>2
  <2> HIDE DEF w
  <2> QED BY <1>1, <1>4, <1>6, <1>7, <2>1, MovementKeepsRollups
<1> HIDE DEF w
<1>9. /\ restocked \in [SaleLines -> [Batches -> Nat]]
      /\ allocated \in [SaleLines -> [Batches -> Nat]]
      /\ restocked' \in [SaleLines -> [Batches -> Nat]]
      /\ \A t \in SaleLines, b \in Batches :
           restocked'[t][b] = restocked[t][b] + (IF t = s THEN take[b] ELSE 0)
  BY <1>1, <1>2, <1>4 DEF TypeOK
<1>10. TypeOK'
  <2>1. status' \in [Batches -> {"active", "depleted"}]
    BY <1>1, <1>2 DEF TypeOK
  <2> QED BY <1>1, <1>3, <1>8, <1>9, <2>1 DEF TypeOK
<1>11. BlankRows'
  <2>1. ASSUME NEW t \in SaleLines, NEW b \in Batches, t > nSales'
        PROVE  restocked'[t][b] = 0
    <3>1. t > nSales /\ t # s
      BY <1>1, <1>3, <2>1 DEF SaleLines, TypeOK
    <3>2. restocked[t][b] = 0
      BY <1>1, <3>1 DEF BlankRows
    <3> QED BY <1>9, <3>1, <3>2
  <2> QED BY <1>1, <1>3, <2>1 DEF BlankRows
<1>12. Conservation'
  <2> SUFFICES ASSUME NEW b \in Batches
               PROVE  initial'[b] = remaining'[b] + WithCustomers(b)' + sentBack'[b] + writtenOff'[b]
    BY DEF Conservation
  <2> DEFINE d == -take[b]
  <2>1. d \in Int /\ take[b] \in Int /\ d = -take[b]
    BY <1>4
  <2>2. \A t \in SaleLines : allocated'[t][b] - restocked'[t][b] =
            (allocated[t][b] - restocked[t][b]) + (IF t = s THEN d ELSE 0)
    <3> TAKE t \in SaleLines
    <3>1. allocated[t][b] \in Int /\ restocked[t][b] \in Int /\ allocated' = allocated
      BY <1>3, <1>9
    <3>2. restocked'[t][b] = restocked[t][b] + (IF t = s THEN take[b] ELSE 0)
      BY <1>9
    <3> HIDE DEF d
    <3> QED BY <2>1, <3>1, <3>2
  <2> HIDE DEF d
  <2>3. WithCustomers(b)' = WithCustomers(b) + d
    BY <1>3, <1>9, <2>1, <2>2, WithCustomersStep
  <2>4. WithCustomers(b) \in Int
    BY <1>9, WithCustomersInt
  <2>5. initial[b] = remaining[b] + WithCustomers(b) + sentBack[b] + writtenOff[b]
    BY <1>1 DEF Conservation
  <2>6. /\ initial[b] \in Int /\ remaining[b] \in Int
        /\ sentBack[b] \in Int /\ writtenOff[b] \in Int
    BY <1>1 DEF TypeOK
  <2> QED BY <1>3, <1>8, <2>1, <2>3, <2>4, <2>5, <2>6
<1>13. NoStrandedStock'
  <2> SUFFICES ASSUME NEW b \in Batches, NEW v \in Warehouses, batchStock'[b][v] > 0
               PROVE  b <= nBatches' /\ status'[b] = "active"
    BY DEF NoStrandedStock, Pickable
  <2>1. CASE take[b] > 0
    BY <1>2, <1>3, <1>5, <2>1
  <2>2. CASE ~ (take[b] > 0)
    <3>1. take[b] = 0
      BY <1>4, <2>2
    <3>2. batchStock[b][v] > 0
      <4>1. batchStock[b][v] \in Nat
        BY <1>1 DEF TypeOK
      <4>2. batchStock'[b][v] = batchStock[b][v] + (IF v = w THEN take[b] ELSE 0)
        BY <1>8
      <4> QED BY <3>1, <4>1, <4>2
    <3>3. b <= nBatches /\ status[b] = "active"
      BY <1>1, <3>2 DEF NoStrandedStock, Pickable
    <3> QED BY <1>2, <1>3, <2>2, <3>3
  <2> QED BY <2>1, <2>2
<1> QED BY <1>8, <1>10, <1>11, <1>12, <1>13 DEF IInv

LEMMA ReturnDamagedKeepsIInv ==
  ASSUME IInv, NEW s \in SaleLines, NEW q \in Int, ReturnDamaged(s, q)
  PROVE  IInv'
<1>1. /\ TypeOK /\ BlankRows /\ RollupsAgree /\ MovementsExplainStock
      /\ Conservation /\ NoStrandedStock
  BY DEF IInv
<1>2. PICK take \in Spreads(s, q) :
        scrapped' = [scrapped EXCEPT ![s] = [b \in Batches |-> @[b] + take[b]]]
  BY DEF ReturnDamaged
<1>3. s <= nSales /\ take \in [Batches -> Nat]
  BY DEF ReturnDamaged, Spreads
<1>4. /\ UNCHANGED <<nBatches, expiry, initial, origin, nSales, saleWarehouse, saleQuantity, allocated>>
      /\ UNCHANGED <<remaining, status, batchStock, warehouseStock, productStock, movements>>
      /\ UNCHANGED <<restocked, sentBack, writtenOff>>
  BY DEF ReturnDamaged, batchVars, stockVars, saleVars
<1>5. TypeOK'
  <2>1. scrapped' \in [SaleLines -> [Batches -> Nat]]
    BY <1>1, <1>2, <1>3 DEF TypeOK
  <2> QED BY <1>1, <1>4, <2>1 DEF TypeOK
<1>6. BlankRows'
  <2>1. ASSUME NEW t \in SaleLines, NEW b \in Batches, t > nSales'
        PROVE  scrapped'[t][b] = 0
    <3>1. t > nSales /\ t # s
      BY <1>1, <1>3, <1>4, <2>1 DEF SaleLines, TypeOK
    <3>2. scrapped'[t] = scrapped[t]
      BY <1>1, <1>2, <3>1 DEF TypeOK
    <3> QED BY <1>1, <3>1, <3>2 DEF BlankRows
  <2> QED BY <1>1, <1>4, <2>1 DEF BlankRows
<1>7. RollupsAgree' /\ MovementsExplainStock' /\ NoStrandedStock'
  BY <1>1, <1>4 DEF RollupsAgree, WarehouseRollup, BatchRollup, ProductRollup, ProductTotal,
                    MovementsExplainStock, NoStrandedStock, Pickable
<1>8. Conservation'
  BY <1>1, <1>4 DEF Conservation, WithCustomers
<1> QED BY <1>5, <1>6, <1>7, <1>8 DEF IInv

LEMMA ReturnToSupplierKeepsIInv ==
  ASSUME IInv, NEW b \in Batches, NEW q \in Int, ReturnToSupplier(b, q)
  PROVE  IInv'
<1> DEFINE w == origin[b]
           change == [c \in Batches |-> IF c = b THEN -q ELSE 0]
<1>1. /\ TypeOK /\ BlankRows /\ RollupsAgree /\ MovementsExplainStock
      /\ Conservation /\ NoStrandedStock
  BY DEF IInv
<1>2. /\ q > 0 /\ w # 0 /\ q <= batchStock[b][w]
      /\ ApplyMovement(w, change)
      /\ sentBack' = [sentBack EXCEPT ![b] = @ + q]
      /\ UNCHANGED <<nBatches, expiry, initial, origin, status, nSales, saleWarehouse,
                     saleQuantity, allocated, restocked, scrapped, writtenOff>>
  BY DEF ReturnToSupplier, StillHere, batchVars, saleVars, returnVars
<1>3. w \in Warehouses
  BY <1>1, <1>2 DEF TypeOK, Warehouses
<1>4. /\ change \in [Batches -> Int]
      /\ \A c \in Batches : change[c] = (IF c = b THEN -q ELSE 0)
  OBVIOUS
<1>5. \A c \in Batches : batchStock[c][w] + change[c] >= 0 /\ change[c] <= 0
  <2> TAKE c \in Batches
  <2>1. batchStock[c][w] \in Nat /\ batchStock[b][w] \in Nat
    BY <1>1, <1>3 DEF TypeOK
  <2> HIDE DEF w, change
  <2> QED BY <1>2, <1>4, <2>1
<1>6. /\ batchStock' \in [Batches -> [Warehouses -> Nat]]
      /\ remaining' \in [Batches -> Int]
      /\ \A c \in Batches : remaining'[c] = remaining[c] + change[c]
      /\ \A c \in Batches, v \in Warehouses :
           batchStock'[c][v] = batchStock[c][v] + (IF v = w THEN change[c] ELSE 0)
      /\ warehouseStock' \in [Warehouses -> Int]
      /\ productStock' \in Int
      /\ movements' \in [Batches -> [Warehouses -> Int]]
      /\ RollupsAgree' /\ MovementsExplainStock'
  <2> HIDE DEF w, change
  <2> QED BY <1>1, <1>2, <1>3, <1>4, <1>5, MovementKeepsRollups
<1> HIDE DEF w, change
<1>7. sentBack' \in [Batches -> Nat]
      /\ \A c \in Batches : sentBack'[c] = sentBack[c] + (IF c = b THEN q ELSE 0)
  BY <1>1, <1>2 DEF TypeOK
<1>8. TypeOK'
  BY <1>1, <1>2, <1>6, <1>7 DEF TypeOK
<1>9. BlankRows'
  BY <1>1, <1>2 DEF BlankRows
<1>10. Conservation'
  <2> SUFFICES ASSUME NEW c \in Batches
               PROVE  initial'[c] = remaining'[c] + WithCustomers(c)' + sentBack'[c] + writtenOff'[c]
    BY DEF Conservation
  <2>1. WithCustomers(c)' = WithCustomers(c) /\ WithCustomers(c) \in Int
    BY <1>1, <1>2, WithCustomersInt DEF WithCustomers, TypeOK
  <2>2. initial[c] = remaining[c] + WithCustomers(c) + sentBack[c] + writtenOff[c]
    BY <1>1 DEF Conservation
  <2>3. /\ initial[c] \in Int /\ remaining[c] \in Int /\ sentBack[c] \in Int /\ writtenOff[c] \in Int
        /\ initial'[c] = initial[c] /\ writtenOff'[c] = writtenOff[c]
    BY <1>1, <1>2 DEF TypeOK
  <2> QED BY <1>4, <1>6, <1>7, <2>1, <2>2, <2>3
<1>11. NoStrandedStock'
  <2> SUFFICES ASSUME NEW c \in Batches, NEW v \in Warehouses, batchStock'[c][v] > 0
               PROVE  c <= nBatches' /\ status'[c] = "active"
    BY DEF NoStrandedStock, Pickable
  <2>1. batchStock[c][v] > 0
    <3>1. batchStock[c][v] \in Nat /\ change[c] \in Int /\ change[c] <= 0
      BY <1>1, <1>4, <1>5 DEF TypeOK
    <3>2. batchStock'[c][v] = batchStock[c][v] + (IF v = w THEN change[c] ELSE 0)
      BY <1>6
    <3> QED BY <3>1, <3>2
  <2> QED BY <1>1, <1>2, <2>1 DEF NoStrandedStock, Pickable
<1> QED BY <1>6, <1>8, <1>9, <1>10, <1>11 DEF IInv

\* Moving goods between two warehouses changes no total.
LEMMA MovedTotal ==
  ASSUME NEW row \in [Warehouses -> Int], NEW from \in Warehouses, NEW to \in Warehouses, NEW q \in Int
  PROVE  /\ Moved(row, from, to, q) \in [Warehouses -> Int]
         /\ SumUpTo(Moved(row, from, to, q), NWarehouses) = SumUpTo(row, NWarehouses)
<1> DEFINE put == [v \in 1..NWarehouses |-> IF v = to THEN q ELSE 0]
           take == [v \in 1..NWarehouses |-> IF v = from THEN -q ELSE 0]
           move == [v \in 1..NWarehouses |-> put[v] + take[v]]
           moved == Moved(row, from, to, q)
<1>1. /\ put \in [1..NWarehouses -> Int] /\ take \in [1..NWarehouses -> Int]
      /\ move \in [1..NWarehouses -> Int]
      /\ \A v \in 1..NWarehouses : move[v] = put[v] + take[v]
      /\ NWarehouses \in Nat
  OBVIOUS
<1>2. SumUpTo(put, NWarehouses) = q
  BY SumPoint DEF Warehouses
<1>3. SumUpTo(take, NWarehouses) = -q
  <2>1. -q \in Int /\ from \in 1..NWarehouses /\ NWarehouses \in Nat
    BY DEF Warehouses
  <2> QED BY <2>1, SumPoint
<1>4. /\ row \in [1..NWarehouses -> Int] /\ moved \in [1..NWarehouses -> Int]
      /\ \A v \in 1..NWarehouses : moved[v] = row[v] + move[v]
  BY DEF Moved, Warehouses
<1>5. moved \in [Warehouses -> Int]
  BY <1>4 DEF Warehouses
<1> HIDE DEF put, take, move, moved
<1>6. SumUpTo(move, NWarehouses) = SumUpTo(put, NWarehouses) + SumUpTo(take, NWarehouses)
  BY <1>1, SumAdd
<1>7. SumUpTo(moved, NWarehouses) = SumUpTo(row, NWarehouses) + SumUpTo(move, NWarehouses)
  <2>1. NWarehouses \in Nat /\ move \in [1..NWarehouses -> Int]
    BY <1>1
  <2> QED BY <1>4, <2>1, SumAdd
<1>8. SumUpTo(row, NWarehouses) \in Int
  BY <1>4, SumInt
<1> QED BY <1>2, <1>3, <1>5, <1>6, <1>7, <1>8 DEF moved

\* A transfer leaves the batch's total, and the product's, what they were: this is
\* why transfer_stock may leave remaining_quantity and Product.stock alone.
LEMMA TransferKeepsIInv ==
  ASSUME IInv, NEW b \in Batches, NEW from \in Warehouses, NEW to \in Warehouses,
         NEW q \in Int, Transfer(b, from, to, q)
  PROVE  IInv'
<1>1. /\ TypeOK /\ BlankRows /\ RollupsAgree /\ MovementsExplainStock
      /\ Conservation /\ NoStrandedStock
  BY DEF IInv
<1>2. /\ q <= batchStock[b][from] /\ (from # to => batchStock[b][to] + q >= 0)
      /\ batchStock' = [batchStock EXCEPT ![b] = Moved(@, from, to, q)]
      /\ warehouseStock' = Moved(warehouseStock, from, to, q)
      /\ movements' = [movements EXCEPT ![b] = Moved(@, from, to, q)]
  BY DEF Transfer, LogTransfer
<1>3. /\ UNCHANGED <<nBatches, expiry, initial, origin, remaining, status, productStock>>
      /\ UNCHANGED <<nSales, saleWarehouse, saleQuantity, allocated, restocked, scrapped,
                     sentBack, writtenOff>>
  BY DEF Transfer, batchVars, saleVars, returnVars
<1> DEFINE delta(v) == (IF v = to THEN q ELSE 0) - (IF v = from THEN q ELSE 0)
<1>4. \A row \in [Warehouses -> Int], v \in Warehouses :
        /\ Moved(row, from, to, q)[v] = row[v] + delta(v)
        /\ delta(v) \in Int
  BY DEF Moved
<1>5. /\ batchStock \in [Batches -> [Warehouses -> Nat]]
      /\ batchStock[b] \in [Warehouses -> Nat] /\ batchStock[b] \in [Warehouses -> Int]
      /\ movements \in [Batches -> [Warehouses -> Int]]
      /\ warehouseStock \in [Warehouses -> Int]
  <2>1. batchStock \in [Batches -> [Warehouses -> Nat]] /\ batchStock[b] \in [Warehouses -> Nat]
    BY <1>1 DEF TypeOK
  <2>2. batchStock[b] \in [Warehouses -> Int]
    BY <2>1
  <2> QED BY <1>1, <2>1, <2>2 DEF TypeOK
<1>6. /\ batchStock'[b] = Moved(batchStock[b], from, to, q)
      /\ movements'[b] = Moved(movements[b], from, to, q)
      /\ \A c \in Batches : c # b => batchStock'[c] = batchStock[c] /\ movements'[c] = movements[c]
  BY <1>2, <1>5
<1>7. \A v \in Warehouses : /\ batchStock'[b][v] = batchStock[b][v] + delta(v)
                            /\ movements'[b][v] = movements[b][v] + delta(v)
                            /\ warehouseStock'[v] = warehouseStock[v] + delta(v)
  BY <1>2, <1>4, <1>5, <1>6
<1>8. batchStock' \in [Batches -> [Warehouses -> Nat]]
  <2>1. ASSUME NEW v \in Warehouses PROVE batchStock'[b][v] \in Nat
    <3>1. /\ batchStock[b][v] \in Nat
          /\ v = from => q <= batchStock[b][v]
          /\ v = to /\ from # to => batchStock[b][v] + q >= 0
      BY <1>2, <1>5
    <3> QED BY <1>7, <3>1
  <2>2. Moved(batchStock[b], from, to, q) \in [Warehouses -> Nat]
    BY <1>6, <2>1 DEF Moved
  <2> QED BY <1>2, <1>5, <2>2
<1>9. /\ movements' \in [Batches -> [Warehouses -> Int]]
      /\ warehouseStock' \in [Warehouses -> Int]
  BY <1>2, <1>5, MovedTotal
<1> HIDE DEF delta
<1>10. TypeOK'
  BY <1>1, <1>3, <1>8, <1>9 DEF TypeOK
<1>11. BlankRows'
  BY <1>1, <1>3 DEF BlankRows
<1>12. MovementsExplainStock'
  <2> SUFFICES ASSUME NEW c \in Batches, NEW v \in Warehouses
               PROVE  movements'[c][v] = batchStock'[c][v]
    BY DEF MovementsExplainStock
  <2>1. movements[c][v] = batchStock[c][v]
    BY <1>1 DEF MovementsExplainStock
  <2> QED BY <1>6, <1>7, <2>1
<1>13. Conservation'
  BY <1>1, <1>3 DEF Conservation, WithCustomers
<1>14. WarehouseRollup'
  <2> SUFFICES ASSUME NEW v \in Warehouses
               PROVE  warehouseStock'[v] = SumUpTo([c \in Batches |-> batchStock'[c][v]], MaxBatches)
    BY DEF WarehouseRollup
  <2> DEFINE d == delta(v)
             f == [c \in Batches |-> batchStock[c][v]]
             g == [c \in Batches |-> batchStock'[c][v]]
             p == [c \in 1..MaxBatches |-> IF c = b THEN d ELSE 0]
  <2>1. d \in Int
    BY <1>4, <1>5
  <2>2. \A c \in Batches : batchStock[c][v] \in Nat /\ batchStock'[c][v] \in Nat
    BY <1>5, <1>8
  <2>3. f \in [1..MaxBatches -> Int] /\ g \in [1..MaxBatches -> Int]
    BY <2>2 DEF Batches
  <2>4. \A c \in Batches : batchStock'[c][v] = batchStock[c][v] + (IF c = b THEN d ELSE 0)
    BY <1>6, <1>7, <2>2
  <2>5. p \in [1..MaxBatches -> Int] /\ \A c \in 1..MaxBatches : g[c] = f[c] + p[c]
    <3> HIDE DEF d
    <3> QED BY <2>1, <2>4 DEF Batches
  <2>6. SumUpTo(p, MaxBatches) = d
    <3> HIDE DEF d
    <3> QED BY <2>1, SumPoint DEF Batches
  <2>7. SumUpTo(g, MaxBatches) = SumUpTo(f, MaxBatches) + d
    <3> HIDE DEF d, f, g, p
    <3> QED BY <2>3, <2>5, <2>6, SumAdd
  <2>8. warehouseStock[v] = SumUpTo(f, MaxBatches)
    BY <1>1 DEF RollupsAgree, WarehouseRollup
  <2> QED BY <1>7, <2>7, <2>8
<1>15. BatchRollup'
  <2> SUFFICES ASSUME NEW c \in Batches
               PROVE  remaining'[c] = SumUpTo(batchStock'[c], NWarehouses)
    BY DEF BatchRollup
  <2>1. remaining'[c] = SumUpTo(batchStock[c], NWarehouses)
    BY <1>1, <1>3 DEF RollupsAgree, BatchRollup
  <2>2. SumUpTo(batchStock'[b], NWarehouses) = SumUpTo(batchStock[b], NWarehouses)
    <3> DEFINE row == batchStock[b]
               moved == Moved(row, from, to, q)
    <3>1. row \in [Warehouses -> Int] /\ batchStock'[b] = moved
      BY <1>5, <1>6
    <3>2. SumUpTo(moved, NWarehouses) = SumUpTo(row, NWarehouses)
      <4> HIDE DEF row
      <4> QED BY <3>1, MovedTotal
    <3> HIDE DEF row, moved
    <3>3. SumUpTo(batchStock'[b], NWarehouses) = SumUpTo(row, NWarehouses)
      BY <3>1, <3>2
    <3> QED BY <3>3 DEF row
  <2> QED BY <1>6, <2>1, <2>2
<1>16. ProductRollup'
  <2>1. SumUpTo(warehouseStock', NWarehouses) = SumUpTo(warehouseStock, NWarehouses)
    BY <1>2, <1>5, MovedTotal
  <2> QED BY <1>1, <1>3, <2>1 DEF RollupsAgree, ProductRollup, ProductTotal
<1>17. NoStrandedStock'
  <2> SUFFICES ASSUME NEW c \in Batches, NEW v \in Warehouses, batchStock'[c][v] > 0
               PROVE  c <= nBatches' /\ status'[c] = "active"
    BY DEF NoStrandedStock, Pickable
  <2>1. c <= nBatches /\ status[c] = "active"
    <3>1. CASE c = b
      <4>1. /\ batchStock[b][v] \in Nat /\ batchStock[b][from] \in Nat
            /\ batchStock[b][to] \in Nat
        BY <1>5
      <4>2. batchStock[b][v] + delta(v) > 0
        BY <1>7, <3>1
      <4>3. batchStock[b][v] > 0 \/ batchStock[b][from] > 0 \/ batchStock[b][to] > 0
        BY <1>2, <4>1, <4>2 DEF delta
      <4> QED BY <1>1, <3>1, <4>3 DEF NoStrandedStock, Pickable
    <3>2. CASE c # b
      <4>1. batchStock[c][v] > 0
        BY <1>6, <3>2
      <4> QED BY <1>1, <4>1 DEF NoStrandedStock, Pickable
    <3> QED BY <3>1, <3>2
  <2> QED BY <1>3, <2>1
<1> QED BY <1>10, <1>11, <1>12, <1>13, <1>14, <1>15, <1>16, <1>17 DEF IInv, RollupsAgree

-----------------------------------------------------------------------------
(***************************************************************************)
(* What a sale line is covered by, and in which order.                     *)
(***************************************************************************)

\* The order in which batches are picked, as a set of pairs.
PickOrder == {pair \in Batches \X Batches : PickedBefore(pair[1], pair[2])}

\* Due dates and, between equal ones, the age of the batch put all batches in order.
LEMMA PickOrderIsTotal ==
  ASSUME TypeOK
  PROVE  OrdersRows(PickOrder, MaxBatches)
<1>1. \A b \in 1..MaxBatches : expiry[b] \in Nat \/ expiry[b] = NoExpiry
  BY DEF TypeOK, Batches
<1>2. \A b, c \in 1..MaxBatches : <<b, c>> \in PickOrder <=> PickedBefore(b, c)
  BY DEF PickOrder, Batches
<1>3. ASSUME NEW i \in 1..MaxBatches PROVE ~ PickedBefore(i, i)
  BY <1>1, <1>3 DEF PickedBefore, ExpiresBefore
<1>4. ASSUME NEW i \in 1..MaxBatches, NEW j \in 1..MaxBatches, NEW k \in 1..MaxBatches,
             PickedBefore(i, j), PickedBefore(j, k)
      PROVE  PickedBefore(i, k)
  BY <1>1, <1>4 DEF PickedBefore, ExpiresBefore
<1>5. ASSUME NEW i \in 1..MaxBatches, NEW j \in 1..MaxBatches
      PROVE  i = j \/ PickedBefore(i, j) \/ PickedBefore(j, i)
  BY <1>1, <1>5 DEF PickedBefore, ExpiresBefore
<1> QED BY <1>2, <1>3, <1>4, <1>5 DEF OrdersRows

\* What a batch has to give, as the allocation loop counts it.
LEMMA AvailableType ==
  ASSUME TypeOK, NEW w \in Warehouses
  PROVE  \A b \in Batches : Available(b, w) \in Nat
BY DEF TypeOK, Available

\* The loop ends with the whole quantity allocated when the shelf covers it.
LEMMA AllocationTotal ==
  ASSUME TypeOK, NEW w \in Warehouses, NEW q \in Int, Covers(w, q)
  PROVE  SumUpTo(Allocation(w, q), MaxBatches) = Larger(0, q)
<1> DEFINE n == MaxBatches
           f == [b \in 1..MaxBatches |-> Available(b, w)]
           t == Allocation(w, q)
           r == Larger(0, q)
<1>1. /\ n \in Nat /\ r \in Nat
      /\ f \in [1..n -> Nat] /\ t \in [1..n -> Nat]
  BY AvailableType, AllocationType DEF Larger, Batches
<1>2. ASSUME NEW k \in 1..n
      PROVE  LET a == SumUpTo(OnlyRows(f, RowsBefore(PickOrder, k, n), n), n) IN
               t[k] = IF a + f[k] <= r THEN f[k] ELSE IF a <= r THEN r - a ELSE 0
  <2> DEFINE g == OnlyRows(f, RowsBefore(PickOrder, k, n), n)
             a == SumUpTo(g, n)
             v == f[k]
  <2>1. g = [c \in Batches |-> IF PickedBefore(c, k) THEN Available(c, w) ELSE 0]
    BY DEF OnlyRows, RowsBefore, PickOrder, Batches
  <2>2. a = ShelfBefore(k, w)
    BY <2>1 DEF ShelfBefore
  <2>3. g \in [1..n -> Nat]
    BY <1>1 DEF OnlyRows
  <2>4. a \in Nat
    <3> HIDE DEF g, n
    <3> QED BY <1>1, <2>3, SumNat
  <2>5. v \in Nat /\ v = Available(k, w)
    BY <1>1
  <2>6. t[k] = Smaller(Available(k, w), Larger(0, q - ShelfBefore(k, w)))
    BY DEF Allocation, Batches
  <2> HIDE DEF g, a, v, t, f
  <2>7. t[k] = Smaller(v, Larger(0, q - a))
    BY <2>2, <2>5, <2>6
  <2>8. t[k] = IF a + v <= r THEN v ELSE IF a <= r THEN r - a ELSE 0
    BY <2>4, <2>5, <2>7 DEF Smaller, Larger
  <2> QED BY <2>8 DEF a, g, v
<1>3. SumUpTo(t, n) = IF r <= SumUpTo(f, n) THEN r ELSE SumUpTo(f, n)
  <2> HIDE DEF n, f, t, r
  <2> DEFINE R == PickOrder
  <2>1. OrdersRows(R, n)
    BY PickOrderIsTotal DEF n
  <2>2. TakenInOrder(t, f, R, r, n)
    BY <1>2 DEF TakenInOrder
  <2> HIDE DEF R
  <2> QED BY <1>1, <2>1, <2>2, SumGreedyInOrder
<1>4. SumUpTo(f, n) = OnShelf(w)
  BY DEF OnShelf, Batches
<1>5. SumUpTo(f, n) \in Nat
  <2> HIDE DEF n, f
  <2> QED BY <1>1, SumNat
<1>6. r <= SumUpTo(f, n)
  <2> HIDE DEF f, n
  <2> QED BY <1>4, <1>5 DEF Covers, Larger
<1> HIDE DEF f, n, t, r
<1>7. SumUpTo(t, n) = r
  BY <1>3, <1>6
<1> QED BY <1>7 DEF t, n, r

\* A sale takes all there is of every batch due before one it takes from.
LEMMA AllocationInOrder ==
  ASSUME TypeOK, NEW w \in Warehouses, NEW q \in Int,
         NEW b \in Batches, NEW c \in Batches, PickedBefore(c, b), Allocation(w, q)[b] > 0
  PROVE  Allocation(w, q)[c] = Available(c, w)
<1> DEFINE before(d) == [e \in Batches |-> IF PickedBefore(e, d) THEN Available(e, w) ELSE 0]
           upto == [e \in Batches |-> before(c)[e] + (IF e = c THEN Available(c, w) ELSE 0)]
           x == ShelfBefore(c, w)
           y == ShelfBefore(b, w)
           v == Available(c, w)
           u == Available(b, w)
<1>1. \A d \in Batches : before(d) \in [1..MaxBatches -> Int]
  BY AvailableType DEF Batches
<1>2. v \in Nat /\ u \in Nat /\ c \in 1..MaxBatches
  BY AvailableType DEF Batches
<1>3. upto \in [1..MaxBatches -> Int]
  BY <1>1, <1>2 DEF Batches
<1>4. SumUpTo(upto, MaxBatches) = SumUpTo(before(c), MaxBatches) + v
  <2>1. \A e \in 1..MaxBatches : upto[e] = before(c)[e] + (IF e = c THEN v ELSE 0)
    BY DEF Batches
  <2>2. before(c) \in [1..MaxBatches -> Int] /\ v \in Int
    BY <1>1, <1>2
  <2> DEFINE g == before(c)
  <2>3. /\ g \in [1..MaxBatches -> Int] /\ upto \in [1..MaxBatches -> Int]
        /\ c \in 1..MaxBatches /\ v \in Int
        /\ \A e \in 1..MaxBatches : upto[e] = g[e] + (IF e = c THEN v ELSE 0)
    <3> HIDE DEF before, upto, v
    <3> QED BY <1>2, <1>3, <2>1, <2>2
  <2> HIDE DEF g, upto, v
  <2>4. SumUpTo(upto, MaxBatches) = SumUpTo(g, MaxBatches) + v
    BY <2>3, SumUpdate
  <2> QED BY <2>4 DEF g
<1>5. \A e \in 1..MaxBatches : upto[e] <= before(b)[e]
  <2> SUFFICES ASSUME NEW e \in Batches PROVE upto[e] <= before(b)[e]
    BY DEF Batches
  <2>1. Available(e, w) \in Nat
    BY AvailableType
  <2>2. PickedBefore(e, c) => PickedBefore(e, b) /\ e # c
    <3>1. /\ PickedBefore(e, c) => PickedBefore(e, b)
          /\ ~ PickedBefore(c, c)
      BY PickOrderIsTotal DEF OrdersRows, PickOrder, Batches
    <3> QED BY <3>1
  <2> QED BY <2>1, <2>2
<1>6. SumUpTo(upto, MaxBatches) <= SumUpTo(before(b), MaxBatches)
  <2> DEFINE g == before(b)
  <2>1. g \in [1..MaxBatches -> Int] /\ \A e \in 1..MaxBatches : upto[e] <= g[e]
    <3> HIDE DEF before, upto
    <3> QED BY <1>1, <1>5
  <2> HIDE DEF g, upto
  <2>2. SumUpTo(upto, MaxBatches) <= SumUpTo(g, MaxBatches)
    BY <1>3, <2>1, SumMonotone
  <2> QED BY <2>2 DEF g
<1>7. SumUpTo(before(c), MaxBatches) = x /\ SumUpTo(before(b), MaxBatches) = y
  BY DEF ShelfBefore
<1>8. x \in Int /\ y \in Int
  <2>1. SumUpTo(before(c), MaxBatches) \in Int /\ SumUpTo(before(b), MaxBatches) \in Int
    <3>1. before(c) \in [1..MaxBatches -> Int] /\ before(b) \in [1..MaxBatches -> Int]
      BY <1>1
    <3> HIDE DEF before
    <3> QED BY <3>1, SumInt
  <2> QED BY <1>7, <2>1
<1>9. /\ Allocation(w, q)[b] = Smaller(u, Larger(0, q - y))
      /\ Allocation(w, q)[c] = Smaller(v, Larger(0, q - x))
  BY DEF Allocation
<1> HIDE DEF before, upto, x, y, v, u
<1>10. x + v <= y
  BY <1>4, <1>6, <1>7
<1>11. Allocation(w, q)[c] = v
  BY <1>2, <1>8, <1>9, <1>10 DEF Smaller, Larger
<1> QED BY <1>11 DEF v

-----------------------------------------------------------------------------
(***************************************************************************)
(* The theorems.                                                           *)
(***************************************************************************)

LEMMA InitIInv == Init => IInv
<1> SUFFICES ASSUME Init PROVE IInv
  OBVIOUS
<1>1. /\ nBatches = 0 /\ nSales = 0
      /\ expiry = [b \in Batches |-> NoExpiry]
      /\ initial = [b \in Batches |-> 0]
      /\ remaining = [b \in Batches |-> 0]
      /\ status = [b \in Batches |-> "active"]
      /\ origin = [b \in Batches |-> 0]
      /\ batchStock = [b \in Batches |-> [w \in Warehouses |-> 0]]
      /\ warehouseStock = [w \in Warehouses |-> 0]
      /\ productStock = 0
      /\ movements = [b \in Batches |-> [w \in Warehouses |-> 0]]
      /\ saleWarehouse = [s \in SaleLines |-> 1]
      /\ saleQuantity = [s \in SaleLines |-> 0]
      /\ allocated = [s \in SaleLines |-> [b \in Batches |-> 0]]
      /\ restocked = [s \in SaleLines |-> [b \in Batches |-> 0]]
      /\ scrapped = [s \in SaleLines |-> [b \in Batches |-> 0]]
      /\ sentBack = [b \in Batches |-> 0]
      /\ writtenOff = [b \in Batches |-> 0]
  BY DEF Init, PerBatch, PerSale
<1>2. TypeOK
  BY <1>1 DEF TypeOK, Warehouses
<1>3. BlankRows
  BY <1>1 DEF BlankRows
<1>4. WarehouseRollup
  <2> SUFFICES ASSUME NEW w \in Warehouses
               PROVE  warehouseStock[w] = SumUpTo([b \in Batches |-> batchStock[b][w]], MaxBatches)
    BY DEF WarehouseRollup
  <2> DEFINE f == [b \in Batches |-> batchStock[b][w]]
  <2>1. f \in [1..MaxBatches -> Int] /\ \A b \in 1..MaxBatches : f[b] = 0
    BY <1>1 DEF Batches
  <2>2. SumUpTo(f, MaxBatches) = 0
    <3> HIDE DEF f
    <3> QED BY <2>1, SumZero
  <2> QED BY <1>1, <2>2
<1>5. BatchRollup
  <2> SUFFICES ASSUME NEW b \in Batches
               PROVE  remaining[b] = SumUpTo(batchStock[b], NWarehouses)
    BY DEF BatchRollup
  <2> DEFINE f == [w \in Warehouses |-> 0]
  <2>1. f \in [1..NWarehouses -> Int] /\ \A w \in 1..NWarehouses : f[w] = 0
    BY DEF Warehouses
  <2>2. SumUpTo(f, NWarehouses) = 0
    <3>1. NWarehouses \in Nat
      OBVIOUS
    <3> HIDE DEF f
    <3> QED BY <2>1, <3>1, SumZero
  <2> QED BY <1>1, <2>2
<1>6. ProductRollup
  <2>1. warehouseStock \in [1..NWarehouses -> Int] /\ \A w \in 1..NWarehouses : warehouseStock[w] = 0
    BY <1>1 DEF Warehouses
  <2>2. NWarehouses \in Nat
    OBVIOUS
  <2> QED BY <1>1, <2>1, <2>2, SumZero DEF ProductRollup, ProductTotal
<1>7. Conservation
  <2> SUFFICES ASSUME NEW b \in Batches
               PROVE  initial[b] = remaining[b] + WithCustomers(b) + sentBack[b] + writtenOff[b]
    BY DEF Conservation
  <2> DEFINE f == [s \in SaleLines |-> allocated[s][b] - restocked[s][b]]
  <2>1. f \in [1..MaxSales -> Int] /\ \A s \in 1..MaxSales : f[s] = 0
    BY <1>1 DEF SaleLines
  <2>2. SumUpTo(f, MaxSales) = 0
    <3> HIDE DEF f
    <3> QED BY <2>1, SumZero
  <2>3. WithCustomers(b) = 0
    BY <2>2 DEF WithCustomers
  <2> QED BY <1>1, <2>3
<1>8. MovementsExplainStock /\ NoStrandedStock
  BY <1>1 DEF MovementsExplainStock, NoStrandedStock
<1> QED BY <1>2, <1>3, <1>4, <1>5, <1>6, <1>7, <1>8 DEF IInv, RollupsAgree

LEMMA NextIInv == IInv /\ [Next]_vars => IInv'
<1> SUFFICES ASSUME IInv, [Next]_vars PROVE IInv'
  OBVIOUS
<1>1. ASSUME NEW w \in Warehouses, NEW q \in Quantities, NEW e \in ExpiryDates \cup {NoExpiry},
             Purchase(w, q, e)
      PROVE  IInv'
  <2>1. q \in Int /\ w \in 0..NWarehouses
    BY DEF Warehouses
  <2> QED BY <1>1, <2>1, ReceiveKeepsIInv DEF Purchase
<1>2. ASSUME NEW w \in Warehouses, NEW q \in Quantities, AdjustUp(w, q) PROVE IInv'
  <2>1. q \in Int /\ 0 \in 0..NWarehouses /\ NoExpiry \in ExpiryDates \cup {NoExpiry}
    OBVIOUS
  <2> QED BY <1>2, <2>1, ReceiveKeepsIInv DEF AdjustUp
<1>3. ASSUME NEW w \in Warehouses, NEW q \in Quantities, AdjustDown(w, q) PROVE IInv'
  BY <1>3, AdjustDownKeepsIInv
<1>4. ASSUME NEW w \in Warehouses, NEW q \in Quantities, Sell(w, q) PROVE IInv'
  BY <1>4, SellKeepsIInv
<1>5. ASSUME NEW s \in SaleLines, NEW q \in Quantities, ReturnGood(s, q) PROVE IInv'
  BY <1>5, ReturnGoodKeepsIInv
<1>6. ASSUME NEW s \in SaleLines, NEW q \in Quantities, ReturnDamaged(s, q) PROVE IInv'
  BY <1>6, ReturnDamagedKeepsIInv
<1>7. ASSUME NEW b \in Batches, NEW q \in Quantities, ReturnToSupplier(b, q) PROVE IInv'
  BY <1>7, ReturnToSupplierKeepsIInv
<1>8. ASSUME NEW b \in Batches, NEW from \in Warehouses, NEW to \in Warehouses,
             NEW q \in Quantities, Transfer(b, from, to, q)
      PROVE  IInv'
  BY <1>8, TransferKeepsIInv
<1>9. CASE UNCHANGED vars
  BY <1>9 DEF vars, batchVars, stockVars, saleVars, returnVars, IInv, TypeOK, BlankRows,
              RollupsAgree, WarehouseRollup, BatchRollup, ProductRollup, ProductTotal,
              MovementsExplainStock, Conservation, WithCustomers, NoStrandedStock, Pickable
<1> QED BY <1>1, <1>2, <1>3, <1>4, <1>5, <1>6, <1>7, <1>8, <1>9 DEF Next

\* The inductive invariant holds in every reachable state.
THEOREM Inductive == Spec => []IInv
BY InitIInv, NextIInv, PTL DEF Spec

\* No service call ever makes a batch's stock negative, so the CHECK constraint of
\* BatchStock rejects no decrement of these services.
THEOREM TypeCorrect == Spec => []TypeOK
<1>1. IInv => TypeOK
  BY DEF IInv
<1> QED BY <1>1, Inductive, PTL

\* WarehouseStock, remaining_quantity and Product.stock never drift from BatchStock
\* when the service calls are serial.
THEOREM StockTablesAgree == Spec => []RollupsAgree
<1>1. IInv => RollupsAgree
  BY DEF IInv
<1> QED BY <1>1, Inductive, PTL

\* Whatever is on a shelf can be allocated to a sale.
THEOREM NothingStranded == Spec => []NoStrandedStock
<1>1. IInv => NoStrandedStock
  BY DEF IInv
<1> QED BY <1>1, Inductive, PTL

\* The movement log accounts for the stock of every batch in every warehouse.
THEOREM LogExplainsStock == Spec => []MovementsExplainStock
<1>1. IInv => MovementsExplainStock
  BY DEF IInv
<1> QED BY <1>1, Inductive, PTL

\* Nothing is lost or made twice: every unit received is on hand, with a customer,
\* sent back or written off.
THEOREM GoodsConserved == Spec => []Conservation
<1>1. IInv => Conservation
  BY DEF IInv
<1> QED BY <1>1, Inductive, PTL


\* With no line and no batch there is nothing to cover.
LEMMA InitCoverInv == Init => CoverInv
<1> SUFFICES ASSUME Init PROVE CoverInv
  OBVIOUS
<1>1. /\ allocated = [s \in SaleLines |-> [b \in Batches |-> 0]]
      /\ restocked = [s \in SaleLines |-> [b \in Batches |-> 0]]
      /\ scrapped = [s \in SaleLines |-> [b \in Batches |-> 0]]
      /\ saleQuantity = [s \in SaleLines |-> 0]
      /\ sentBack = [b \in Batches |-> 0] /\ writtenOff = [b \in Batches |-> 0]
  BY DEF Init, PerBatch, PerSale
<1>2. \A s \in SaleLines : SumUpTo(allocated[s], MaxBatches) = 0
  <2> TAKE s \in SaleLines
  <2>1. allocated[s] \in [1..MaxBatches -> Int] /\ \A b \in 1..MaxBatches : allocated[s][b] = 0
    BY <1>1 DEF Batches
  <2> QED BY <2>1, SumZero
<1>3. SaleCovered
  BY <1>1, <1>2 DEF SaleCovered, Returnable, Larger
<1> QED BY <1>1, <1>3 DEF CoverInv, SpareRows

\* A new sale line is covered by what the loop allocated to it.
LEMMA SellKeepsCover ==
  ASSUME IInv, CoverInv, NEW w \in Warehouses, NEW q \in Int, Sell(w, q)
  PROVE  CoverInv'
<1> DEFINE take == Allocation(w, q)
<1>1. TypeOK /\ BlankRows /\ SaleCovered /\ SpareRows
  BY DEF IInv, CoverInv
<1>2. /\ nSales < MaxSales /\ Covers(w, q)
      /\ allocated' = [allocated EXCEPT ![nSales + 1] = take]
      /\ saleQuantity' = [saleQuantity EXCEPT ![nSales + 1] = q]
      /\ nSales' = nSales + 1
      /\ UNCHANGED <<nBatches, restocked, scrapped, sentBack, writtenOff>>
  BY DEF Sell, batchVars, returnVars
<1>3. /\ allocated \in [SaleLines -> [Batches -> Nat]] /\ saleQuantity \in [SaleLines -> Int]
      /\ nSales \in Nat /\ nSales + 1 \in SaleLines
  <2>1. nSales \in Nat /\ nSales + 1 \in 1..MaxSales
    BY <1>1, <1>2 DEF TypeOK
  <2> QED BY <1>1, <2>1 DEF TypeOK, SaleLines
<1>4. take \in [Batches -> Nat] /\ SumUpTo(take, MaxBatches) = Larger(0, q)
  BY <1>1, <1>2, AllocationType, AllocationTotal
<1> HIDE DEF take
<1>5. \A s \in SaleLines : s # nSales + 1 =>
        allocated'[s] = allocated[s] /\ saleQuantity'[s] = saleQuantity[s]
  BY <1>2, <1>3
<1>6. allocated'[nSales + 1] = take /\ saleQuantity'[nSales + 1] = q
  BY <1>2, <1>3
<1>7. SaleCovered'
  <2> SUFFICES ASSUME NEW s \in SaleLines
               PROVE  /\ SumUpTo(allocated'[s], MaxBatches) = Larger(0, saleQuantity'[s])
                      /\ \A b \in Batches : allocated'[s][b] - restocked'[s][b] - scrapped'[s][b] >= 0
    BY DEF SaleCovered, Returnable, Larger
  <2>1. CASE s = nSales + 1
    <3>1. \A b \in Batches : restocked'[s][b] = 0 /\ scrapped'[s][b] = 0
      BY <1>1, <1>2, <1>3, <2>1 DEF BlankRows
    <3>2. \A b \in Batches : take[b] \in Nat
      BY <1>4
    <3> QED BY <1>4, <1>6, <2>1, <3>1, <3>2
  <2>2. CASE s # nSales + 1
    BY <1>1, <1>2, <1>5, <2>2 DEF SaleCovered, Returnable
  <2> QED BY <2>1, <2>2
<1>8. SpareRows'
  <2>1. ASSUME NEW s \in SaleLines, s > nSales' PROVE saleQuantity'[s] = 0
    <3>1. s > nSales /\ s # nSales + 1
      BY <1>2, <1>3, <2>1 DEF SaleLines
    <3> QED BY <1>1, <1>5, <3>1 DEF SpareRows
  <2> QED BY <1>1, <1>2, <2>1 DEF SpareRows
<1> QED BY <1>7, <1>8 DEF CoverInv

\* A return takes from an allocation no more than what is still returnable of it.
LEMMA ReturnKeepsCover ==
  ASSUME IInv, CoverInv, NEW s \in SaleLines, NEW q \in Int,
         ReturnGood(s, q) \/ ReturnDamaged(s, q)
  PROVE  CoverInv'
<1>1. TypeOK /\ SaleCovered /\ SpareRows
  BY DEF IInv, CoverInv
<1>2. PICK take \in Spreads(s, q) :
        \/ /\ restocked' = [restocked EXCEPT ![s] = [b \in Batches |-> @[b] + take[b]]]
           /\ scrapped' = scrapped
        \/ /\ scrapped' = [scrapped EXCEPT ![s] = [b \in Batches |-> @[b] + take[b]]]
           /\ restocked' = restocked
  <2>1. CASE ReturnGood(s, q)
    BY <2>1 DEF ReturnGood, RecordRestock
  <2>2. CASE ReturnDamaged(s, q)
    BY <2>2 DEF ReturnDamaged
  <2> QED BY <2>1, <2>2
<1>3. /\ \A b \in Batches : take[b] \in Int /\ take[b] <= Returnable(s, b)
      /\ UNCHANGED <<nBatches, nSales, allocated, saleQuantity, sentBack, writtenOff>>
  BY DEF ReturnGood, ReturnDamaged, Spreads, batchVars, saleVars
<1>4. /\ allocated \in [SaleLines -> [Batches -> Nat]]
      /\ restocked \in [SaleLines -> [Batches -> Nat]]
      /\ scrapped \in [SaleLines -> [Batches -> Nat]]
  BY <1>1 DEF TypeOK
<1>5. ASSUME NEW t \in SaleLines, NEW b \in Batches
      PROVE  allocated[t][b] - restocked'[t][b] - scrapped'[t][b] >= 0
  <2>1. allocated[t][b] \in Nat /\ restocked[t][b] \in Nat /\ scrapped[t][b] \in Nat
    BY <1>4
  <2>2. allocated[t][b] - restocked[t][b] - scrapped[t][b] >= 0
    BY <1>1 DEF SaleCovered, Returnable
  <2>3. CASE t = s
    <3>1. \/ restocked'[t][b] = restocked[t][b] + take[b] /\ scrapped'[t][b] = scrapped[t][b]
          \/ scrapped'[t][b] = scrapped[t][b] + take[b] /\ restocked'[t][b] = restocked[t][b]
      BY <1>2, <1>4, <2>3
    <3>2. take[b] \in Int /\ take[b] <= allocated[t][b] - restocked[t][b] - scrapped[t][b]
      BY <1>3, <2>3 DEF Returnable
    <3> QED BY <2>1, <3>1, <3>2
  <2>4. CASE t # s
    <3>1. restocked'[t] = restocked[t] /\ scrapped'[t] = scrapped[t]
      BY <1>2, <1>4, <2>4
    <3> QED BY <2>2, <3>1
  <2> QED BY <2>3, <2>4
<1>6. SaleCovered'
  BY <1>1, <1>3, <1>5 DEF SaleCovered, Returnable, Larger
<1>7. SpareRows'
  BY <1>1, <1>3 DEF SpareRows
<1> QED BY <1>6, <1>7 DEF CoverInv

LEMMA NextCoverInv == IInv /\ CoverInv /\ [Next]_vars => CoverInv'
<1> SUFFICES ASSUME IInv, CoverInv, [Next]_vars PROVE CoverInv'
  OBVIOUS
<1>1. TypeOK /\ SaleCovered /\ SpareRows
  BY DEF IInv, CoverInv
<1>2. ASSUME UNCHANGED <<saleVars, returnVars, sentBack, writtenOff>>,
             nBatches' = nBatches \/ nBatches' = nBatches + 1
      PROVE  CoverInv'
  <2>1. SaleCovered'
    BY <1>1, <1>2 DEF SaleCovered, Returnable, Larger, saleVars, returnVars
  <2>2. nBatches \in Nat /\ \A b \in Batches : b > nBatches' => b > nBatches
    BY <1>1, <1>2 DEF TypeOK, Batches
  <2>3. SpareRows'
    BY <1>1, <1>2, <2>2 DEF SpareRows, saleVars
  <2> QED BY <2>1, <2>3 DEF CoverInv
<1>3. ASSUME NEW w \in Warehouses, NEW q \in Quantities, NEW e \in ExpiryDates \cup {NoExpiry},
             Purchase(w, q, e)
      PROVE  CoverInv'
  BY <1>2, <1>3 DEF Purchase, ReceiveStock
<1>4. ASSUME NEW w \in Warehouses, NEW q \in Quantities, AdjustUp(w, q) PROVE CoverInv'
  BY <1>2, <1>4 DEF AdjustUp, ReceiveStock
<1>5. ASSUME NEW w \in Warehouses, NEW q \in Quantities, AdjustDown(w, q) PROVE CoverInv'
  <2> DEFINE take == Allocation(w, q)
  <2>1. /\ writtenOff' = [b \in Batches |-> writtenOff[b] + take[b]]
        /\ UNCHANGED <<nBatches, nSales, saleQuantity, allocated, restocked, scrapped, sentBack>>
    BY <1>5 DEF AdjustDown, batchVars, saleVars, returnVars
  <2>2. \A b \in Batches : b > nBatches => take[b] = 0
    <3>1. \A b \in Batches : take[b] \in Nat /\ (take[b] > 0 => b <= nBatches)
      <4>1. q \in Int
        OBVIOUS
      <4> QED BY <1>1, <4>1, AllocationType DEF Pickable
    <3>2. nBatches \in Nat /\ Batches \subseteq Nat
      BY <1>1 DEF TypeOK, Batches
    <3> QED BY <3>1, <3>2
  <2> HIDE DEF take
  <2>3. SaleCovered'
    BY <1>1, <2>1 DEF SaleCovered, Returnable, Larger
  <2>4. SpareRows'
    BY <1>1, <2>1, <2>2 DEF SpareRows
  <2> QED BY <2>3, <2>4 DEF CoverInv
<1>6. ASSUME NEW w \in Warehouses, NEW q \in Quantities, Sell(w, q) PROVE CoverInv'
  BY <1>6, SellKeepsCover
<1>7. ASSUME NEW s \in SaleLines, NEW q \in Quantities, ReturnGood(s, q) PROVE CoverInv'
  BY <1>7, ReturnKeepsCover
<1>8. ASSUME NEW s \in SaleLines, NEW q \in Quantities, ReturnDamaged(s, q) PROVE CoverInv'
  BY <1>8, ReturnKeepsCover
<1>9. ASSUME NEW b \in Batches, NEW q \in Quantities, ReturnToSupplier(b, q) PROVE CoverInv'
  <2>1. /\ b <= nBatches
        /\ sentBack' = [sentBack EXCEPT ![b] = @ + q]
        /\ UNCHANGED <<nBatches, nSales, saleQuantity, allocated, restocked, scrapped, writtenOff>>
    BY <1>9 DEF ReturnToSupplier, batchVars, saleVars, returnVars
  <2>2. SaleCovered'
    BY <1>1, <2>1 DEF SaleCovered, Returnable, Larger
  <2>3. SpareRows'
    <3>1. ASSUME NEW c \in Batches, c > nBatches' PROVE sentBack'[c] = 0
      <4>1. c > nBatches /\ c # b
        BY <1>1, <2>1, <3>1 DEF TypeOK, Batches
      <4> QED BY <1>1, <2>1, <4>1 DEF SpareRows, TypeOK
    <3> QED BY <1>1, <2>1, <3>1 DEF SpareRows
  <2> QED BY <2>2, <2>3 DEF CoverInv
<1>10. ASSUME NEW b \in Batches, NEW from \in Warehouses, NEW to \in Warehouses,
              NEW q \in Quantities, Transfer(b, from, to, q)
       PROVE  CoverInv'
  BY <1>2, <1>10 DEF Transfer, batchVars
<1>11. CASE UNCHANGED vars
  BY <1>2, <1>11 DEF vars, batchVars
<1> QED BY <1>3, <1>4, <1>5, <1>6, <1>7, <1>8, <1>9, <1>10, <1>11 DEF Next

\* Every sale line is covered exactly by the batches it was sold from, and no allocation
\* is returned beyond what it supplied, whatever mixture of sales, returns, purchases,
\* adjustments and transfers runs.
THEOREM SalesCovered == Spec => []SaleCovered
<1>1. Spec => [](IInv /\ CoverInv)
  BY InitIInv, NextIInv, InitCoverInv, NextCoverInv, PTL DEF Spec
<1>2. IInv /\ CoverInv => SaleCovered
  BY DEF CoverInv
<1> QED BY <1>1, <1>2, PTL

\* The due dates of the properties are the order of the query.
LEMMA DueIsPicked ==
  ASSUME TypeOK, NEW b \in Batches, NEW c \in Batches, DueBefore(c, b)
  PROVE  PickedBefore(c, b)
<1>1. /\ expiry[b] \in Nat \/ expiry[b] = NoExpiry
      /\ expiry[c] \in Nat \/ expiry[c] = NoExpiry
  BY DEF TypeOK
<1> QED BY <1>1 DEF DueBefore, PickedBefore, ExpiresBefore

\* Only a sale allocates, and it leaves nothing of the batches due before one it takes.
LEMMA SellIsFirstOut ==
  ASSUME IInv, NEW w \in Warehouses, NEW q \in Int, Sell(w, q)
  PROVE  FirstOut
<1> DEFINE take == Allocation(w, q)
<1>1. TypeOK /\ NoStrandedStock /\ BlankRows
  BY DEF IInv
<1>2. /\ nSales < MaxSales
      /\ allocated' = [allocated EXCEPT ![nSales + 1] = take]
      /\ saleWarehouse' = [saleWarehouse EXCEPT ![nSales + 1] = w]
      /\ batchStock' = [b \in Batches |-> [batchStock[b] EXCEPT ![w] = @ + (-take[b])]]
  <2>1. ConsumeAllocations(w, take)
    BY DEF Sell
  <2>2. ApplyMovement(w, [b \in Batches |-> -take[b]])
    BY <2>1 DEF ConsumeAllocations
  <2>3. batchStock' = [b \in Batches |-> [batchStock[b] EXCEPT ![w] = @ + (-take[b])]]
    BY <2>2 DEF ApplyMovement
  <2> QED BY <2>3 DEF Sell
<1>3. /\ nSales \in Nat /\ nSales + 1 \in SaleLines
      /\ allocated \in [SaleLines -> [Batches -> Nat]]
      /\ saleWarehouse \in [SaleLines -> Warehouses]
      /\ batchStock \in [Batches -> [Warehouses -> Nat]]
  <2>1. nSales \in Nat /\ nSales + 1 \in 1..MaxSales
    BY <1>1, <1>2 DEF TypeOK
  <2> QED BY <1>1, <2>1 DEF TypeOK, SaleLines
<1> SUFFICES ASSUME NEW s \in SaleLines, NEW b \in Batches, NEW c \in Batches,
                    allocated'[s][b] > allocated[s][b], c <= nBatches, DueBefore(c, b)
             PROVE  batchStock'[c][saleWarehouse'[s]] = 0
  BY DEF FirstOut
<1>4. take \in [Batches -> Nat]
  BY <1>1, AllocationType
<1> HIDE DEF take
<1>5. s = nSales + 1
  <2> SUFFICES ASSUME s # nSales + 1 PROVE FALSE
    OBVIOUS
  <2>1. allocated'[s][b] = allocated[s][b] /\ allocated[s][b] \in Nat
    BY <1>2, <1>3
  <2> QED BY <2>1
<1>6. take[b] > 0 /\ saleWarehouse'[s] = w
  <2>1. allocated'[s] = take /\ allocated[s][b] \in Nat /\ take[b] \in Nat
    BY <1>2, <1>3, <1>4, <1>5
  <2>2. allocated[s][b] = 0
    BY <1>1, <1>3, <1>5 DEF BlankRows
  <2> QED BY <1>2, <1>3, <1>5, <2>1, <2>2
<1>7. take[c] = Available(c, w)
  BY <1>1, <1>6, DueIsPicked, AllocationInOrder DEF take
<1>8. Available(c, w) = batchStock[c][w] /\ batchStock[c][w] \in Nat
  <2>1. batchStock[c][w] \in Nat
    BY <1>3
  <2>2. batchStock[c][w] > 0 => Pickable(c, w)
    BY <1>1 DEF NoStrandedStock
  <2>3. CASE batchStock[c][w] > 0
    BY <2>1, <2>2, <2>3 DEF Available
  <2>4. CASE batchStock[c][w] = 0
    BY <2>1, <2>4 DEF Available
  <2> QED BY <2>1, <2>3, <2>4
<1>9. batchStock'[c][w] = batchStock[c][w] + (-take[c])
  BY <1>2, <1>3
<1> QED BY <1>6, <1>7, <1>8, <1>9

\* First expiring, first out, for any stock and any quantity asked for.
THEOREM FirstExpiringFirstOut == Spec => FefoDiscipline
<1>1. IInv /\ [Next]_vars => [FirstOut]_vars
  <2> SUFFICES ASSUME IInv, Next PROVE FirstOut
    OBVIOUS
  <2>1. ASSUME allocated' = allocated PROVE FirstOut
    <3> SUFFICES ASSUME NEW s \in SaleLines, NEW b \in Batches,
                        allocated'[s][b] > allocated[s][b]
                 PROVE  FALSE
      BY DEF FirstOut
    <3>1. allocated[s][b] \in Nat
      BY DEF IInv, TypeOK
    <3> QED BY <2>1, <3>1
  <2>2. ASSUME NEW w \in Warehouses, NEW q \in Quantities, Sell(w, q) PROVE FirstOut
    BY <2>2, SellIsFirstOut
  <2>3. CASE \/ \E w \in Warehouses, q \in Quantities, e \in ExpiryDates \cup {NoExpiry} : Purchase(w, q, e)
             \/ \E w \in Warehouses, q \in Quantities : AdjustUp(w, q) \/ AdjustDown(w, q)
             \/ \E s \in SaleLines, q \in Quantities : ReturnGood(s, q) \/ ReturnDamaged(s, q)
             \/ \E b \in Batches, q \in Quantities : ReturnToSupplier(b, q)
             \/ \E b \in Batches, from, to \in Warehouses, q \in Quantities : Transfer(b, from, to, q)
    <3>1. allocated' = allocated
      BY <2>3 DEF Purchase, AdjustUp, AdjustDown, ReturnGood, ReturnDamaged,
                  ReturnToSupplier, Transfer, saleVars
    <3> QED BY <2>1, <3>1
  <2> QED BY <2>2, <2>3 DEF Next
<1> QED BY <1>1, Inductive, PTL DEF Spec, FefoDiscipline

=============================================================================
