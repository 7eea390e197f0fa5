------------------------- MODULE StockLockingProofs -------------------------
(***************************************************************************)
(* Proofs about StockLocking: the rollups are exact after every commit, a  *)
(* product that moves in one warehouse has an exact Product.stock, nothing *)
(* is stranded in a depleted batch, returns that do not overlap stay       *)
(* within what was sold, and every step is a step of StockBook.            *)
(*                                                                         *)
(* The inductive invariant says what a transaction that is under way may   *)
(* rely on.  It holds the rows it has taken goods from, so the goods it    *)
(* sees stay there; it holds the WarehouseStock rows whose sums it has     *)
(* written, so the sums stay right; and what it has changed is what the    *)
(* lines behind it asked for.                                              *)
(***************************************************************************)
EXTENDS StockLocking, SumsProofs

Functions ==
  /\ locks = [r \in Movers |-> locks[r]]
  /\ queue = [r \in Movers |-> queue[r]]

\* A transaction sees no less than nothing, and owns every row it has taken from.
OwnWrites(r) ==
  \A b \in Batches :
    /\ Seen(r, b) >= 0
    /\ change[r][b] < 0 => StockRow(b, WarehouseOf[r]) \in locks[r]
    /\ IF r \in Sales THEN change[r][b] <= 0 ELSE change[r][b] >= 0

Ended(r) == pc[r] \in {"served", "refused"}

\* Lines whose goods r has moved.
LinesDone(r) == IF pc[r] \in {"start", "lock"} THEN line[r] - 1 ELSE line[r]

Units(r, p) ==
  [i \in 1..Len(Lines[r]) |-> IF Lines[r][i].product = p THEN Lines[r][i].quantity ELSE 0]

Signed(r, n) == IF r \in Sales THEN -n ELSE n

\* What r has moved is what these lines asked for.
Progress(r) ==
  /\ ~Ended(r) => \A p \in Products : ChangeOf(r, p) = Signed(r, SumUpTo(Units(r, p), LinesDone(r)))
  /\ pc[r] = "post" => line[r] = Len(Lines[r])
  /\ pc[r] = "lock" => r \in Sales

\* A receipt has touched the batches of these lines only.
NewBatches(r) ==
  r \in Receipts =>
    \A b \in Batches : change[r][b] # 0 => \E i \in 1..LinesDone(r) : Lines[r][i].batch = b

\* r has moved goods of p, and has yet to write the sum for it.
Midway(r, p) == pc[r] \in {"batch", "shelf", "total", "sum"} /\ Current(r).product = p

\* A sum that r has written is of rows it holds, and is what Product.stock has to be.
SumsWritten(r) ==
  \A p \in Products :
    /\ pc[r] \in {"sum", "product"} /\ Current(r).product = p =>
         TotalRow(p, WarehouseOf[r]) \in locks[r]
    /\ written[r][p] # Nothing =>
         /\ TotalRow(p, WarehouseOf[r]) \in locks[r]
         /\ \E i \in 1..line[r] : Lines[r][i].product = p
    /\ ~Midway(r, p) =>
         IF written[r][p] = Nothing
         THEN ChangeOf(r, p) = 0
         ELSE InOneWarehouse(p) =>
                written[r][p] = SumUpTo(total[p], NWarehouses) + ChangeOf(r, p)

RequestInv(r) == OwnWrites(r) /\ Progress(r) /\ NewBatches(r) /\ SumsWritten(r)

\* A line on which no two returns have met has at most one under way, which fits.
ReturnsFit ==
  \A b \in Batches : b \notin raced =>
    /\ returned[b] <= Sold[b]
    /\ \A r \in Returns : returned[b] + change[r][b] <= Sold[b]
    /\ \A r, s \in Returns : change[r][b] > 0 /\ change[s][b] > 0 => r = s

TablesInv == RollupsExact /\ StockExact /\ NothingStranded

LockingInv ==
  /\ TypeOK /\ Functions
  /\ TablesInv /\ ReturnsFit
  /\ \A r \in Movers : RequestInv(r)

-----------------------------------------------------------------------------
(***************************************************************************)
(* Requests and their sums.                                                *)
(***************************************************************************)

USE CountsAssumption

\* The line a request is at is one of its lines.
LEMMA CurrentLine ==
  ASSUME TypeOK, NEW r \in Movers
  PROVE  /\ line[r] \in 1..Len(Lines[r]) /\ Len(Lines[r]) \in Nat
         /\ Current(r).product \in Products /\ Current(r).quantity \in Nat \ {0}
         /\ WarehouseOf[r] \in Warehouses
         /\ r \notin Sales => /\ Current(r).batch \in Batches
                              /\ ProductOf[Current(r).batch] = Current(r).product
<1>1. line[r] \in 1..Len(Lines[r])
  BY DEF TypeOK
<1> QED BY <1>1, RequestsAssumption DEF Current

\* What a request has changed of a product, as a column and as a total.
Changes(r, p) == [b \in Batches |-> IF ProductOf[b] = p THEN change[r][b] ELSE 0]

LEMMA ChangesType ==
  ASSUME TypeOK, NEW r \in Movers, NEW p
  PROVE  /\ Changes(r, p) \in [1..NBatches -> Int]
         /\ ChangeOf(r, p) = SumUpTo(Changes(r, p), NBatches)
         /\ ChangeOf(r, p) \in Int
<1>1. change[r] \in [Batches -> Int]
  BY DEF TypeOK
<1>2. Changes(r, p) \in [1..NBatches -> Int]
  BY <1>1 DEF Changes, Batches
<1>3. ChangeOf(r, p) = SumUpTo(Changes(r, p), NBatches)
  BY DEF ChangeOf, Changes
<1> QED BY <1>2, <1>3, SumInt

\* What a product has on the shelves of a warehouse.
Column(p, w) == [b \in Batches |-> IF ProductOf[b] = p THEN shelf[b][w] ELSE 0]

LEMMA ColumnType ==
  ASSUME TypeOK, NEW p, NEW w \in Warehouses
  PROVE  /\ Column(p, w) \in [1..NBatches -> Nat]
         /\ Column(p, w) \in [1..NBatches -> Int]
<1>1. \A b \in Batches : shelf[b][w] \in Nat
  BY DEF TypeOK
<1> QED BY <1>1 DEF Column, Batches

\* Changing one batch of a product, or none.
LEMMA ColumnStep ==
  ASSUME TypeOK, NEW r \in Movers, NEW b \in Batches, NEW d \in Int,
         change'[r] \in [Batches -> Int],
         \A c \in Batches : change'[r][c] = change[r][c] + (IF c = b THEN d ELSE 0)
  PROVE  \A p \in Products :
           ChangeOf(r, p)' = ChangeOf(r, p) + (IF p = ProductOf[b] THEN d ELSE 0)
<1> TAKE p \in Products
<1> DEFINE old == Changes(r, p)
           new == Changes(r, p)'
<1>1. /\ old \in [1..NBatches -> Int] /\ ChangeOf(r, p) = SumUpTo(old, NBatches)
      /\ ChangeOf(r, p) \in Int
  BY ChangesType
<1>2. new \in [1..NBatches -> Int] /\ ChangeOf(r, p)' = SumUpTo(new, NBatches)
  <2>2. new = [c \in Batches |-> IF ProductOf[c] = p THEN change'[r][c] ELSE 0]
    BY DEF Changes
  <2>3. ChangeOf(r, p)' = SumUpTo([c \in Batches |-> IF ProductOf[c] = p THEN change'[r][c] ELSE 0], NBatches)
    BY DEF ChangeOf
  <2> QED BY <2>2, <2>3 DEF Batches
<1> DEFINE e == IF p = ProductOf[b] THEN d ELSE 0
<1>3. e \in Int /\ \A c \in 1..NBatches : new[c] = old[c] + (IF c = b THEN e ELSE 0)
  <2>1. \A c \in Batches : change[r][c] \in Int /\ change'[r][c] \in Int
    BY DEF TypeOK
  <2> QED BY <2>1 DEF Changes, Batches
<1> HIDE DEF old, new, e
<1>4. SumUpTo(new, NBatches) = SumUpTo(old, NBatches) + e
  BY <1>1, <1>2, <1>3, SumUpdate DEF Batches
<1> QED BY <1>1, <1>2, <1>4 DEF e

-----------------------------------------------------------------------------
(***************************************************************************)
(* Steps before the commit: the tables stay as they are.                   *)
(***************************************************************************)

\* What the invariant says of a request depends on the tables and on the request alone, and
\* it may hold more rows than before.
LEMMA SameRequest ==
  ASSUME NEW s \in Movers, RequestInv(s), UNCHANGED tables,
         locks[s] \subseteq locks'[s], pc'[s] = pc[s], line'[s] = line[s],
         change'[s] = change[s], written'[s] = written[s]
  PROVE  RequestInv(s)'
<1>1. \A p : ChangeOf(s, p)' = ChangeOf(s, p)
  BY DEF ChangeOf
<1>2. LinesDone(s)' = LinesDone(s) /\ Current(s)' = Current(s) /\ Ended(s)' = Ended(s)
  BY DEF LinesDone, Current, Ended
<1>3. OwnWrites(s)'
  BY DEF RequestInv, OwnWrites, Seen, tables
<1>4. Progress(s)'
  BY <1>1, <1>2 DEF RequestInv, Progress, Units, Signed
<1>5. NewBatches(s)'
  BY <1>2 DEF RequestInv, NewBatches
<1>6. SumsWritten(s)'
  <2>1. \A p : Midway(s, p)' <=> Midway(s, p)
    BY <1>2 DEF Midway
  <2>2. total' = total
    BY DEF tables
  <2>3. \A p : InOneWarehouse(p)' <=> InOneWarehouse(p)
    BY DEF InOneWarehouse
  <2>4. SumsWritten(s)
    BY DEF RequestInv
  <2> QED BY <1>1, <1>2, <2>1, <2>2, <2>3, <2>4 DEF SumsWritten
<1> QED BY <1>3, <1>4, <1>5, <1>6 DEF RequestInv

\* The tables and what they are compared with.
LEMMA SameTables ==
  ASSUME TablesInv, UNCHANGED tables PROVE TablesInv'
BY DEF TablesInv, RollupsExact, StockExact, NothingStranded, InOneWarehouse, tables

\* A request gets the row it wants, which no other request holds.
LEMMA LockIsExclusive ==
  ASSUME TypeOK, Functions, NEW r \in Movers, LockWanted(r)
  PROVE  /\ \A s, t \in Movers : s # t => locks'[s] \cap locks'[t] = {}
         /\ locks' = [s \in Movers |-> locks'[s]]
         /\ \A s \in Movers : locks[s] \subseteq locks'[s]
         /\ Wanted(r) \in locks'[r]
<1>1. locks' = [s \in Movers |-> IF s = r THEN locks[s] \cup {Wanted(r)} ELSE locks[s]]
  BY DEF LockWanted, Functions
<1>2. \A s \in Movers : s # r => Wanted(r) \notin locks[s]
  BY DEF LockWanted, WaitsFor
<1>3. \A s, t \in Movers : s # t => locks[s] \cap locks[t] = {}
  BY DEF TypeOK
<1> HIDE DEF Wanted
<1> QED BY <1>1, <1>2, <1>3

\* A step of r that finds rows, locks them or goes on to the next statement, while what it
\* has changed and written, and what it has changed them for, stay the same.
LEMMA WalkKeeps ==
  ASSUME LockingInv, NEW r \in Movers,
         UNCHANGED tables, UNCHANGED <<change, written, raced>>,
         \A s, t \in Movers : s # t => locks'[s] \cap locks'[t] = {},
         \A s \in Movers : locks[s] \subseteq locks'[s],
         Functions', pc' \in [Movers -> Steps], line' \in [Movers -> Nat],
         \A s \in Movers : s # r => pc'[s] = pc[s] /\ line'[s] = line[s],
         ~Ended(r), LinesDone(r)' = LinesDone(r),
         line[r] <= line'[r], line'[r] <= Len(Lines[r]),
         pc'[r] = "post" => line'[r] = Len(Lines[r]),
         pc'[r] = "lock" => r \in Sales,
         \A p \in Products : Midway(r, p)' <=> Midway(r, p),
         pc'[r] \in {"sum", "product"} =>
           TotalRow(Current(r)'.product, WarehouseOf[r]) \in locks'[r]
  PROVE  LockingInv'
<1>1. TypeOK'
  <2>1. ASSUME NEW s \in Movers PROVE line'[s] \in 1..Len(Lines[s])
    <3>1. line[s] \in 1..Len(Lines[s]) /\ line[r] \in 1..Len(Lines[r]) /\ line'[r] \in Nat
          /\ Len(Lines[r]) \in Nat
      BY CurrentLine DEF LockingInv
    <3> QED BY <3>1
  <2> QED BY <2>1 DEF LockingInv, TypeOK, tables
<1>2. TablesInv' /\ ReturnsFit'
  <2>1. ReturnsFit'
    BY DEF LockingInv, ReturnsFit, tables
  <2> QED BY <2>1, SameTables DEF LockingInv
<1>3. ASSUME NEW s \in Movers, s # r PROVE RequestInv(s)'
  BY <1>3, SameRequest DEF LockingInv
<1>4. RequestInv(r)'
  <2>1. RequestInv(r)
    BY DEF LockingInv
  <2>2. \A p : ChangeOf(r, p)' = ChangeOf(r, p)
    BY DEF ChangeOf
  <2>3. OwnWrites(r)'
    BY <2>1 DEF RequestInv, OwnWrites, Seen, tables
  <2>4. Progress(r)'
    BY <2>1, <2>2 DEF RequestInv, Progress, Units, Signed
  <2>5. NewBatches(r)'
    BY <2>1 DEF RequestInv, NewBatches
  <2>6. SumsWritten(r)'
    <3>1. total' = total
      BY DEF tables
    <3>2. \A p : InOneWarehouse(p)' <=> InOneWarehouse(p)
      BY DEF InOneWarehouse
    <3>3. SumsWritten(r)
      BY <2>1 DEF RequestInv
    <3>4. line[r] \in Nat /\ line'[r] \in Nat
      BY DEF LockingInv, TypeOK
    <3>5. \A i \in 1..line[r] : i \in 1..line'[r]
      BY <3>4
    <3> QED BY <2>2, <3>1, <3>2, <3>3, <3>5 DEF SumsWritten
  <2> QED BY <2>3, <2>4, <2>5, <2>6 DEF RequestInv
<1> QED BY <1>1, <1>2, <1>3, <1>4 DEF LockingInv

LEMMA QueryKeeps ==
  ASSUME LockingInv, NEW r \in Movers, QueryBatches(r) PROVE LockingInv'
<1>1. /\ pc[r] = "start" /\ pc' = [pc EXCEPT ![r] = "lock"] /\ pc \in [Movers -> Steps]
      /\ queue' = [queue EXCEPT ![r] = RowsToLock(r)] /\ queue = [s \in Movers |-> queue[s]]
      /\ UNCHANGED tables /\ UNCHANGED <<locks, line, change, written, raced>>
  BY DEF QueryBatches, Goto, LockingInv, TypeOK, Functions
<1>2. Functions'
  <2> HIDE DEF RowsToLock
  <2> QED BY <1>1 DEF LockingInv, Functions
<1>3. LinesDone(r)' = LinesDone(r) /\ ~Ended(r) /\ \A p \in Products : Midway(r, p)' <=> Midway(r, p)
  BY <1>1 DEF LinesDone, Ended, Midway
<1>4. \A s, t \in Movers : s # t => locks'[s] \cap locks'[t] = {}
  BY <1>1 DEF LockingInv, TypeOK
<1>5. line \in [Movers -> Nat] /\ line[r] \in 1..Len(Lines[r])
  BY DEF LockingInv, TypeOK
<1>6. r \in Sales /\ pc' \in [Movers -> Steps] /\ pc'[r] = "lock" /\ \A s \in Movers : s # r => pc'[s] = pc[s]
  BY <1>1 DEF Steps, QueryBatches
<1> QED BY <1>1, <1>2, <1>3, <1>4, <1>5, <1>6, WalkKeeps

\* A row is locked and the request goes on to its next statement.
LEMMA LockStepKeeps ==
  ASSUME LockingInv, NEW r \in Movers, LockWanted(r), UNCHANGED <<tables, change, written, raced>>,
         queue' = [s \in Movers |-> queue'[s]],
         pc' \in [Movers -> Steps], line' \in [Movers -> Nat],
         \A s \in Movers : s # r => pc'[s] = pc[s] /\ line'[s] = line[s],
         LinesDone(r)' = LinesDone(r),
         line[r] <= line'[r], line'[r] <= Len(Lines[r]),
         pc'[r] = "post" => line'[r] = Len(Lines[r]),
         pc'[r] = "lock" => r \in Sales,
         \A p \in Products : Midway(r, p)' <=> Midway(r, p),
         pc'[r] \in {"sum", "product"} =>
           TotalRow(Current(r)'.product, WarehouseOf[r]) = Wanted(r)
  PROVE  LockingInv'
<1>1. /\ \A s, t \in Movers : s # t => locks'[s] \cap locks'[t] = {}
      /\ locks' = [s \in Movers |-> locks'[s]]
      /\ \A s \in Movers : locks[s] \subseteq locks'[s]
      /\ Wanted(r) \in locks'[r]
  BY LockIsExclusive DEF LockingInv
<1>2. Functions'
  BY <1>1 DEF Functions
<1>3. ~Ended(r)
  BY DEF LockWanted, Locking, Ended
<1>4. pc'[r] \in {"sum", "product"} => TotalRow(Current(r)'.product, WarehouseOf[r]) \in locks'[r]
  BY <1>1
<1> HIDE DEF Wanted
<1> QED BY <1>1, <1>2, <1>3, <1>4, WalkKeeps

LEMMA LockNextKeeps ==
  ASSUME LockingInv, NEW r \in Movers, LockNext(r) PROVE LockingInv'
<1>1. /\ queue' = [queue EXCEPT ![r] = Tail(@)] /\ queue = [s \in Movers |-> queue[s]]
      /\ UNCHANGED tables /\ UNCHANGED <<pc, line, change, written, raced>>
      /\ LockWanted(r) /\ pc[r] \in {"lock", "post"}
  BY DEF LockNext, LockingInv, Functions
<1>2. queue' = [s \in Movers |-> queue'[s]]
  BY <1>1
<1>3. LinesDone(r)' = LinesDone(r) /\ \A p \in Products : Midway(r, p)' <=> Midway(r, p)
  BY <1>1 DEF LinesDone, Midway, Current
<1>4. /\ pc \in [Movers -> Steps] /\ line \in [Movers -> Nat] /\ line[r] \in 1..Len(Lines[r])
      /\ pc[r] = "post" => line[r] = Len(Lines[r])
      /\ pc[r] = "lock" => r \in Sales
  BY DEF LockingInv, TypeOK, RequestInv, Progress
<1>5. /\ pc' \in [Movers -> Steps] /\ line' \in [Movers -> Nat]
      /\ \A s \in Movers : s # r => pc'[s] = pc[s] /\ line'[s] = line[s]
      /\ line[r] <= line'[r] /\ line'[r] <= Len(Lines[r])
      /\ pc'[r] = "post" => line'[r] = Len(Lines[r])
      /\ pc'[r] = "lock" => r \in Sales
      /\ pc'[r] \notin {"sum", "product"}
  BY <1>1, <1>4, CurrentLine DEF LockingInv
<1> QED BY <1>1, <1>2, <1>3, <1>5, LockStepKeeps

LEMMA UpdateBatchKeeps ==
  ASSUME LockingInv, NEW r \in Movers, UpdateBatch(r) PROVE LockingInv'
<1>1. /\ LockWanted(r) /\ pc[r] \in {"batch", "shelf"}
      /\ UNCHANGED tables /\ UNCHANGED <<line, queue, change, written, raced>>
  BY DEF UpdateBatch, local
<1>2. /\ pc \in [Movers -> Steps] /\ line \in [Movers -> Nat] /\ line[r] \in 1..Len(Lines[r])
      /\ queue = [s \in Movers |-> queue[s]]
  BY DEF LockingInv, TypeOK, Functions
<1>3. /\ pc' \in [Movers -> Steps] /\ pc'[r] \in {"shelf", "total"}
      /\ pc'[r] # "post" /\ pc'[r] \notin {"sum", "product"}
      /\ \A s \in Movers : s # r => pc'[s] = pc[s]
  BY <1>2 DEF Steps, UpdateBatch, Goto
<1>4. LinesDone(r)' = LinesDone(r) /\ \A p \in Products : Midway(r, p)' <=> Midway(r, p)
  BY <1>1, <1>3 DEF LinesDone, Midway, Current
<1>5. /\ pc'[r] = "post" => line'[r] = Len(Lines[r])
      /\ pc'[r] \in {"sum", "product"} => TotalRow(Current(r)'.product, WarehouseOf[r]) = Wanted(r)
  BY <1>3
<1>6. line[r] <= line'[r] /\ line'[r] <= Len(Lines[r])
  BY <1>1, <1>2, CurrentLine DEF LockingInv
<1> QED BY <1>1, <1>2, <1>3, <1>4, <1>5, <1>6, LockStepKeeps

LEMMA UpdateTotalKeeps ==
  ASSUME LockingInv, NEW r \in Movers, UpdateTotal(r) PROVE LockingInv'
<1>1. /\ LockWanted(r) /\ pc[r] = "total" /\ pc' = [pc EXCEPT ![r] = "sum"]
      /\ UNCHANGED tables /\ UNCHANGED <<line, queue, change, written, raced>>
  BY DEF UpdateTotal, Goto, local
<1>2. /\ pc \in [Movers -> Steps] /\ line \in [Movers -> Nat] /\ line[r] \in 1..Len(Lines[r])
      /\ queue = [s \in Movers |-> queue[s]]
  BY DEF LockingInv, TypeOK, Functions
<1>3. /\ pc' \in [Movers -> Steps] /\ pc'[r] = "sum"
      /\ \A s \in Movers : s # r => pc'[s] = pc[s]
  BY <1>1, <1>2 DEF Steps
<1>4. LinesDone(r)' = LinesDone(r) /\ \A p \in Products : Midway(r, p)' <=> Midway(r, p)
  BY <1>1, <1>3 DEF LinesDone, Midway, Current
<1>5. TotalRow(Current(r)'.product, WarehouseOf[r]) = Wanted(r)
  BY <1>1 DEF Wanted, Current
<1> QED BY <1>1, <1>2, <1>3, <1>4, <1>5, LockStepKeeps

LEMMA WriteSumKeeps ==
  ASSUME LockingInv, NEW r \in Movers, WriteSum(r) PROVE LockingInv'
<1>1. /\ LockWanted(r) /\ pc[r] = "product"
      /\ UNCHANGED tables /\ UNCHANGED <<change, written, raced>>
      /\ IF line[r] < Len(Lines[r])
         THEN line' = [line EXCEPT ![r] = @ + 1] /\ pc' = [pc EXCEPT ![r] = "start"] /\ queue' = queue
         ELSE line' = line /\ pc' = [pc EXCEPT ![r] = "post"]
              /\ queue' = [queue EXCEPT ![r] = Postings(r)]
  BY DEF WriteSum, Goto
<1>2. /\ pc \in [Movers -> Steps] /\ line \in [Movers -> Nat] /\ line[r] \in 1..Len(Lines[r])
      /\ queue = [s \in Movers |-> queue[s]] /\ Len(Lines[r]) \in Nat
  BY CurrentLine DEF LockingInv, TypeOK, Functions
<1>3. queue' = [s \in Movers |-> queue'[s]]
  <2> HIDE DEF Postings
  <2> QED BY <1>1, <1>2
<1>4. /\ pc' \in [Movers -> Steps] /\ line' \in [Movers -> Nat]
      /\ \A s \in Movers : s # r => pc'[s] = pc[s] /\ line'[s] = line[s]
      /\ pc'[r] \in {"start", "post"} /\ pc'[r] \notin {"sum", "product"}
      /\ pc'[r] = "start" => line'[r] = line[r] + 1
      /\ pc'[r] = "post" => line'[r] = line[r] /\ line'[r] = Len(Lines[r])
      /\ line[r] <= line'[r] /\ line'[r] <= Len(Lines[r])
  <2>1. CASE line[r] < Len(Lines[r])
    <3>1. line' = [line EXCEPT ![r] = @ + 1] /\ pc' = [pc EXCEPT ![r] = "start"]
      BY <1>1, <2>1
    <3>2. line[r] + 1 \in Nat /\ "start" \in Steps /\ line[r] + 1 <= Len(Lines[r])
      BY <1>2, <2>1 DEF Steps
    <3> HIDE DEF Steps
    <3> QED BY <1>2, <3>1, <3>2
  <2>2. CASE ~(line[r] < Len(Lines[r]))
    <3>1. line' = line /\ pc' = [pc EXCEPT ![r] = "post"]
      BY <1>1, <2>2
    <3>2. line[r] = Len(Lines[r]) /\ "post" \in Steps
      BY <1>2, <2>2 DEF Steps
    <3> QED BY <1>2, <3>1, <3>2
  <2> QED BY <2>1, <2>2
<1>5. LinesDone(r)' = LinesDone(r) /\ \A p \in Products : Midway(r, p)' <=> Midway(r, p)
  BY <1>1, <1>2, <1>4 DEF LinesDone, Midway
<1> QED BY <1>1, <1>3, <1>4, <1>5, LockStepKeeps

-----------------------------------------------------------------------------
(***************************************************************************)
(* Steps that move goods, still before the commit.                         *)
(***************************************************************************)

\* The total of the lines done grows by the line that r is at.
LEMMA LineCounted ==
  ASSUME TypeOK, NEW r \in Movers, NEW p \in Products
  PROVE  /\ SumUpTo(Units(r, p), line[r] - 1) \in Int
         /\ SumUpTo(Units(r, p), line[r]) =
              SumUpTo(Units(r, p), line[r] - 1)
                + (IF p = Current(r).product THEN Current(r).quantity ELSE 0)
<1>1. line[r] \in 1..Len(Lines[r]) /\ Len(Lines[r]) \in Nat
  BY CurrentLine
<1>2. Units(r, p) \in [1..Len(Lines[r]) -> Int]
  BY RequestsAssumption DEF Units
<1> DEFINE m == line[r] - 1
<1>3. m \in Nat /\ m + 1 = line[r] /\ m <= Len(Lines[r])
  BY <1>1
<1>4. SumUpTo(Units(r, p), m + 1) = SumUpTo(Units(r, p), m) + Units(r, p)[m + 1]
  BY <1>3, SumEquation
<1>5. SumUpTo(Units(r, p), m) \in Int
  BY <1>1, <1>2, <1>3, SumsInt
<1>6. Units(r, p)[line[r]] = IF p = Current(r).product THEN Current(r).quantity ELSE 0
  BY <1>1 DEF Units, Current
<1> QED BY <1>3, <1>4, <1>5, <1>6

\* The goods of a line are moved, as many as it asks for.
LEMMA MoveKeeps ==
  ASSUME LockingInv, NEW r \in Movers, pc[r] \in {"start", "lock"},
         UNCHANGED tables, UNCHANGED <<locks, line, queue, written>>,
         raced \subseteq raced', raced' \subseteq Batches,
         change' = [change EXCEPT ![r] = change'[r]], change'[r] \in [Batches -> Int],
         pc' = [pc EXCEPT ![r] = pc'[r]], pc'[r] \in {"batch", "total"},
         \A p \in Products : ChangeOf(r, p)' = ChangeOf(r, p)
           + (IF p = Current(r).product THEN Signed(r, Current(r).quantity) ELSE 0),
         OwnWrites(r)', NewBatches(r)', ReturnsFit'
  PROVE  LockingInv'
<1>1. /\ pc \in [Movers -> Steps] /\ change \in [Movers -> [Batches -> Int]]
      /\ TypeOK /\ RequestInv(r) /\ line[r] \in 1..Len(Lines[r]) /\ Len(Lines[r]) \in Nat
  BY CurrentLine DEF LockingInv, TypeOK
<1>2. /\ \A s \in Movers : s # r => pc'[s] = pc[s] /\ change'[s] = change[s]
      /\ pc' \in [Movers -> Steps] /\ change' \in [Movers -> [Batches -> Int]]
  <2>1. pc'[r] \in Steps
    BY DEF Steps
  <2> HIDE DEF Steps
  <2> QED BY <1>1, <2>1
<1>3. TypeOK'
  BY <1>2 DEF LockingInv, TypeOK, tables
<1>4. Functions' /\ TablesInv'
  BY SameTables DEF LockingInv, Functions
<1>5. ASSUME NEW s \in Movers, s # r PROVE RequestInv(s)'
  BY <1>2, <1>5, SameRequest DEF LockingInv
<1>6. Progress(r)'
  <2>1. LinesDone(r) = line[r] - 1 /\ LinesDone(r)' = line[r] /\ ~Ended(r) /\ pc'[r] # "post"
    BY DEF LinesDone, Ended
  <2>2. ASSUME NEW p \in Products
        PROVE  ChangeOf(r, p)' = Signed(r, SumUpTo(Units(r, p), line[r]))
    <3> DEFINE before == SumUpTo(Units(r, p), line[r] - 1)
               after == SumUpTo(Units(r, p), line[r])
               d == IF p = Current(r).product THEN Current(r).quantity ELSE 0
    <3>1. before \in Int /\ after = before + d
      BY <1>1, LineCounted
    <3>2. d \in Int
      BY <1>1, CurrentLine
    <3>3. ChangeOf(r, p) = Signed(r, before)
      BY <1>1, <2>1 DEF RequestInv, Progress
    <3>4. ChangeOf(r, p)' = Signed(r, before) + Signed(r, d)
      BY <3>3 DEF Signed
    <3> HIDE DEF before, after, d
    <3>5. ChangeOf(r, p)' = Signed(r, after)
      BY <3>1, <3>2, <3>4 DEF Signed
    <3> QED BY <3>5 DEF after
  <2> QED BY <2>1, <2>2 DEF Progress, Units, Signed
<1>7. SumsWritten(r)'
  <2>1. /\ SumsWritten(r) /\ total' = total
        /\ pc'[r] \notin {"sum", "product"}
    BY <1>1 DEF RequestInv, tables
  <2>2. \A p : InOneWarehouse(p)' <=> InOneWarehouse(p)
    BY DEF InOneWarehouse
  <2>3. \A p \in Products : ~Midway(r, p)' => ~Midway(r, p) /\ p # Current(r).product
    BY DEF Midway, Current
  <2>4. \A p \in Products : ChangeOf(r, p) \in Int
    BY <1>1, ChangesType
  <2>5. \A p \in Products : ~Midway(r, p)' => ChangeOf(r, p)' = ChangeOf(r, p)
    BY <2>3, <2>4
  <2> QED BY <2>1, <2>2, <2>3, <2>5 DEF SumsWritten
<1> QED BY <1>3, <1>4, <1>5, <1>6, <1>7 DEF LockingInv, RequestInv

\* A receipt has not touched the batch it is about to insert.
LEMMA BatchIsNew ==
  ASSUME LockingInv, NEW r \in Receipts, pc[r] = "start"
  PROVE  r \in Movers /\ r \notin Sales /\ r \notin Returns /\ change[r][Current(r).batch] = 0
<1>1. r \in Movers /\ r \notin Sales /\ r \notin Returns
  BY DisjointAssumption DEF Movers
<1>2. /\ line[r] \in 1..Len(Lines[r]) /\ Len(Lines[r]) \in Nat /\ Current(r).batch \in Batches
      /\ LinesDone(r) = line[r] - 1
  BY <1>1, CurrentLine DEF LockingInv, LinesDone
<1>3. \A i \in 1..(line[r] - 1) : Lines[r][i].batch # Current(r).batch
  <2>1. \A i \in 1..(line[r] - 1) : i \in 1..Len(Lines[r]) /\ i # line[r]
    BY <1>2
  <2>2. \A i, j \in 1..Len(Lines[r]) : Lines[r][i].batch = Lines[r][j].batch => i = j
    BY ReceiptsAssumption
  <2> QED BY <1>2, <2>1, <2>2 DEF Current
<1>4. NewBatches(r)
  BY <1>1 DEF LockingInv, RequestInv
<1> QED BY <1>1, <1>2, <1>3, <1>4 DEF NewBatches

LEMMA InsertBatchKeeps ==
  ASSUME LockingInv, NEW r \in Movers, InsertBatch(r) PROVE LockingInv'
<1> DEFINE b == Current(r).batch
           q == Current(r).quantity
<1>1. /\ r \in Receipts /\ pc[r] = "start" /\ pc' = [pc EXCEPT ![r] = "total"]
      /\ change' = [change EXCEPT ![r] = [change[r] EXCEPT ![b] = q]]
      /\ UNCHANGED tables /\ UNCHANGED <<locks, line, queue, written, raced>>
  BY DEF InsertBatch, Goto
<1>2. /\ r \notin Sales /\ r \notin Returns /\ change[r][b] = 0
      /\ TypeOK /\ RequestInv(r)
      /\ pc \in [Movers -> Steps] /\ change \in [Movers -> [Batches -> Int]]
  BY <1>1, BatchIsNew DEF LockingInv, TypeOK
<1>3. b \in Batches /\ q \in Nat /\ q > 0 /\ ProductOf[b] = Current(r).product
  BY <1>2, CurrentLine
<1>4. pc'[r] = "total" /\ line[r] \in 1..Len(Lines[r]) /\ Len(Lines[r]) \in Nat
  BY <1>1, <1>2, CurrentLine
<1> HIDE DEF b, q
<1>5. /\ change'[r] \in [Batches -> Int]
      /\ \A c \in Batches : change'[r][c] = change[r][c] + (IF c = b THEN q ELSE 0)
  BY <1>1, <1>2, <1>3
<1>6. \A p \in Products : ChangeOf(r, p)' = ChangeOf(r, p) + (IF p = ProductOf[b] THEN q ELSE 0)
  BY <1>2, <1>3, <1>5, ColumnStep
<1>7. OwnWrites(r)'
  <2>1. \A c \in Batches : change'[r][c] >= change[r][c] /\ change[r][c] \in Int
    BY <1>2, <1>3, <1>5
  <2>2. \A c \in Batches : shelf[c][WarehouseOf[r]] \in Int
    BY <1>2, CurrentLine DEF TypeOK
  <2>3. \A c \in Batches : change'[r][c] >= 0 /\ Seen(r, c)' >= 0
    BY <1>1, <1>2, <1>5, <2>1, <2>2 DEF RequestInv, OwnWrites, Seen, tables
  <2> QED BY <1>2, <1>5, <2>3 DEF OwnWrites
<1>8. NewBatches(r)'
  <2>1. LinesDone(r)' = line[r] /\ LinesDone(r) = line[r] - 1
    BY <1>1, <1>4 DEF LinesDone
  <2>2. \A i \in 1..(line[r] - 1) : i \in 1..line[r]
    BY <1>4
  <2>3. ASSUME NEW c \in Batches, change'[r][c] # 0
        PROVE  \E i \in 1..line[r] : Lines[r][i].batch = c
    <3>1. CASE c = b
      BY <1>4, <3>1 DEF b, Current
    <3>2. CASE c # b
      <4>1. change[r][c] # 0
        BY <1>2, <1>5, <2>3, <3>2
      <4> QED BY <1>1, <1>2, <2>1, <2>2, <4>1 DEF RequestInv, NewBatches
    <3> QED BY <3>1, <3>2
  <2> QED BY <2>1, <2>3 DEF NewBatches
<1>9. ReturnsFit'
  <2>1. \A s \in Returns : s \in Movers /\ s # r
    BY <1>2 DEF Movers
  <2>2. \A s \in Returns : change'[s] = change[s]
    BY <1>1, <1>2, <2>1
  <2> QED BY <1>1, <2>2 DEF LockingInv, ReturnsFit, tables
<1>10. raced' \subseteq Batches
  BY <1>1 DEF LockingInv, TypeOK
<1>11. \A p \in Products : ChangeOf(r, p)' = ChangeOf(r, p)
         + (IF p = Current(r).product THEN Signed(r, Current(r).quantity) ELSE 0)
  BY <1>2, <1>3, <1>6 DEF Signed, b, q
<1>12. /\ change' = [change EXCEPT ![r] = change'[r]] /\ pc' = [pc EXCEPT ![r] = pc'[r]]
       /\ pc[r] \in {"start", "lock"} /\ pc'[r] \in {"batch", "total"} /\ raced \subseteq raced'
  BY <1>1, <1>2, <1>4
<1> QED BY <1>1, <1>5, <1>7, <1>8, <1>9, <1>10, <1>11, <1>12, MoveKeeps

\* A return that fits what is left to return, if no other return of the line is under way.
LEMMA CheckLineKeeps ==
  ASSUME LockingInv, NEW r \in Movers, CheckLine(r) PROVE LockingInv'
<1> DEFINE b == Current(r).batch
           q == Current(r).quantity
<1>1. /\ r \in Returns /\ pc[r] = "start" /\ pc' = [pc EXCEPT ![r] = "batch"]
      /\ q <= Returnable(r, b)
      /\ change' = [change EXCEPT ![r] = [change[r] EXCEPT ![b] = change[r][b] + q]]
      /\ raced' = IF Overlaps(r, b) THEN raced \cup {b} ELSE raced
      /\ UNCHANGED tables /\ UNCHANGED <<locks, line, queue, written>>
  BY DEF CheckLine, Goto
<1>2. /\ r \notin Sales /\ r \notin Receipts
      /\ TypeOK /\ RequestInv(r) /\ ReturnsFit
      /\ pc \in [Movers -> Steps] /\ change \in [Movers -> [Batches -> Int]]
      /\ raced \subseteq Batches /\ returned \in [Batches -> Nat]
  BY <1>1, DisjointAssumption DEF LockingInv, TypeOK
<1>3. b \in Batches /\ q \in Nat /\ q > 0 /\ ProductOf[b] = Current(r).product
  BY <1>2, CurrentLine
<1>4. pc'[r] = "batch"
  BY <1>1, <1>2
<1> HIDE DEF b, q
<1>5. /\ change'[r] \in [Batches -> Int]
      /\ \A c \in Batches : change'[r][c] = change[r][c] + (IF c = b THEN q ELSE 0)
  BY <1>1, <1>2, <1>3
<1>6. \A p \in Products : ChangeOf(r, p)' = ChangeOf(r, p) + (IF p = ProductOf[b] THEN q ELSE 0)
  <2>1. TypeOK /\ b \in Batches /\ q \in Int
    BY <1>2, <1>3
  <2> QED BY <2>1, <1>5, ColumnStep
<1>7. OwnWrites(r)'
  <2>1. \A c \in Batches : change'[r][c] >= change[r][c] /\ change[r][c] \in Int /\ change'[r][c] \in Int
    BY <1>2, <1>3, <1>5
  <2>2. \A c \in Batches : shelf[c][WarehouseOf[r]] \in Int
    BY <1>2, CurrentLine DEF TypeOK
  <2>3. \A c \in Batches : change'[r][c] >= 0 /\ Seen(r, c)' >= 0
    BY <1>1, <1>2, <1>5, <2>1, <2>2 DEF RequestInv, OwnWrites, Seen, tables
  <2> QED BY <1>2, <1>5, <2>3 DEF OwnWrites
<1>8. NewBatches(r)'
  BY <1>2 DEF NewBatches
<1>9. raced \subseteq raced' /\ raced' \subseteq Batches
  BY <1>1, <1>2, <1>3
<1>10. ReturnsFit'
  <2>1. \A s \in Returns : s \in Movers /\ change[s] \in [Batches -> Int]
                           /\ (s # r => change'[s] = change[s])
    BY <1>1, <1>2 DEF Movers
  <2>2. returned' = returned
    BY <1>1 DEF tables
  <2>3. ASSUME NEW c \in Batches, c # b, c \notin raced'
        PROVE  /\ returned[c] <= Sold[c]
               /\ \A s \in Returns : returned[c] + change'[s][c] <= Sold[c]
               /\ \A s, t \in Returns : change'[s][c] > 0 /\ change'[t][c] > 0 => s = t
    <3>1. c \notin raced
      BY <1>9, <2>3
    <3>2. \A s \in Returns : change'[s][c] = change[s][c]
      BY <1>2, <1>5, <2>1, <2>3
    <3> QED BY <1>2, <3>1, <3>2 DEF ReturnsFit
  <2>4. ASSUME b \notin raced'
        PROVE  /\ returned[b] <= Sold[b]
               /\ \A s \in Returns : returned[b] + change'[s][b] <= Sold[b]
               /\ \A s, t \in Returns : change'[s][b] > 0 /\ change'[t][b] > 0 => s = t
    <3>1. b \notin raced /\ ~Overlaps(r, b)
      BY <1>1, <2>4
    <3>2. \A s \in Returns \ {r} : ~(change[s][b] > 0) /\ change'[s][b] = change[s][b]
      BY <2>1, <3>1 DEF Overlaps
    <3>3. returned[b] + change'[r][b] <= Sold[b]
      <4>1. /\ change[r][b] \in Int /\ returned[b] \in Nat /\ Sold[b] \in Nat
            /\ change'[r][b] = change[r][b] + q
        BY <1>2, <1>3, <1>5, StockAssumption
      <4>2. q <= Sold[b] - returned[b] - change[r][b]
        BY <1>1 DEF Returnable
      <4> QED BY <1>3, <4>1, <4>2
    <3>4. /\ returned[b] <= Sold[b] /\ \A s \in Returns : returned[b] + change[s][b] <= Sold[b]
      BY <1>2, <1>3, <3>1 DEF ReturnsFit
    <3> QED BY <3>2, <3>3, <3>4
  <2> QED BY <2>2, <2>3, <2>4 DEF ReturnsFit
<1>11. \A p \in Products : ChangeOf(r, p)' = ChangeOf(r, p)
         + (IF p = Current(r).product THEN Signed(r, Current(r).quantity) ELSE 0)
  <2>1. Signed(r, q) = q
    BY <1>2 DEF Signed
  <2> QED BY <1>3, <1>6, <2>1 DEF q
<1>12. /\ change' = [change EXCEPT ![r] = change'[r]] /\ pc' = [pc EXCEPT ![r] = pc'[r]]
       /\ pc[r] \in {"start", "lock"} /\ pc'[r] \in {"batch", "total"}
  BY <1>1, <1>2, <1>4
<1> QED BY <1>1, <1>5, <1>7, <1>8, <1>9, <1>10, <1>11, <1>12, MoveKeeps

-----------------------------------------------------------------------------
(***************************************************************************)
(* Allocation.                                                             *)
(***************************************************************************)

\* What a sale may take from: the rows it has locked.
Offered(r) == [b \in Batches |-> IF b \in Locked(r) THEN Seen(r, b) ELSE 0]
Taken(r) == [b \in Batches |-> Take(r, b)]

LEMMA OfferedType ==
  ASSUME TypeOK, NEW r \in Movers
  PROVE  /\ Offered(r) \in [1..NBatches -> Nat]
         /\ \A b \in Batches : Seen(r, b) \in Int
         /\ \A b \in Locked(r) : /\ b \in Batches /\ Seen(r, b) > 0
                                 /\ ProductOf[b] = Current(r).product
                                 /\ StockRow(b, WarehouseOf[r]) \in locks[r]
         /\ OnShelf(r, Locked(r)) = SumUpTo(Offered(r), NBatches)
         /\ SumUpTo(Offered(r), NBatches) \in Nat
<1>1. \A b \in Batches : Seen(r, b) \in Int
  BY CurrentLine DEF TypeOK, Seen
<1>2. \A b \in Locked(r) : /\ b \in Batches /\ Seen(r, b) > 0
                           /\ ProductOf[b] = Current(r).product
                           /\ StockRow(b, WarehouseOf[r]) \in locks[r]
  BY DEF Locked, Pickable
<1> HIDE DEF Locked, Seen
<1>3. Offered(r) \in [1..NBatches -> Nat]
  BY <1>1, <1>2 DEF Offered, Batches
<1>4. OnShelf(r, Locked(r)) = SumUpTo(Offered(r), NBatches)
  BY DEF OnShelf, Offered
<1> QED BY <1>1, <1>2, <1>3, <1>4, SumNat

\* What is taken in all is the quantity of the line, if there is as much.
LEMMA TakenTotal ==
  ASSUME TypeOK, NEW r \in Movers, OnShelf(r, Locked(r)) >= Current(r).quantity
  PROVE  /\ Taken(r) \in [1..NBatches -> Nat]
         /\ \A b \in Batches : Take(r, b) <= Offered(r)[b]
         /\ SumUpTo(Taken(r), NBatches) = Current(r).quantity
<1> DEFINE f == Offered(r)
           t == Taken(r)
           q == Current(r).quantity
<1>1. /\ f \in [1..NBatches -> Nat] /\ f \in [1..NBatches -> Int] /\ q \in Nat
      /\ OnShelf(r, Locked(r)) = SumUpTo(f, NBatches)
      /\ SumUpTo(f, NBatches) \in Nat
  <2>1. f \in [1..NBatches -> Nat]
    BY OfferedType
  <2>2. f \in [1..NBatches -> Int]
    <3> HIDE DEF f
    <3> QED BY <2>1
  <2> QED BY <2>1, <2>2, OfferedType, CurrentLine
<1>2. \A k \in 1..NBatches : OnShelf(r, Locked(r) \cap 1..(k - 1)) = SumUpTo(f, k - 1)
  <2> TAKE k \in 1..NBatches
  <2>1. OnShelf(r, Locked(r) \cap 1..(k - 1)) =
          SumUpTo([b \in Batches |-> IF b \in Locked(r) \cap 1..(k - 1) THEN Seen(r, b) ELSE 0], NBatches)
    BY DEF OnShelf
  <2>2. [b \in Batches |-> IF b \in Locked(r) \cap 1..(k - 1) THEN Seen(r, b) ELSE 0]
          = [b \in 1..NBatches |-> IF b < k THEN f[b] ELSE 0]
    <3>1. \A b \in 1..NBatches : b \in 1..(k - 1) <=> b < k
      OBVIOUS
    <3> HIDE DEF Locked, Seen
    <3> QED BY <3>1 DEF Offered, Batches
  <2>3. SumUpTo([b \in 1..NBatches |-> IF b < k THEN f[b] ELSE 0], NBatches) = SumUpTo(f, k - 1)
    <3> HIDE DEF f
    <3> QED BY <1>1, SumPrefix
  <2> QED BY <2>1, <2>2, <2>3
<1>3. \A k \in 1..NBatches : SumUpTo(f, k - 1) \in Nat
  <2> HIDE DEF f
  <2>1. \A m \in Nat : m <= NBatches => SumUpTo(f, m) \in Nat
    BY <1>1, SumsNat
  <2>2. \A k \in 1..NBatches : k - 1 \in Nat /\ k - 1 <= NBatches
    OBVIOUS
  <2> QED BY <2>1, <2>2
<1>4. ASSUME NEW k \in 1..NBatches
      PROVE  /\ Take(r, k) \in Nat /\ Take(r, k) <= f[k]
             /\ Take(r, k) = IF SumUpTo(f, k - 1) + f[k] <= q THEN f[k]
                             ELSE IF SumUpTo(f, k - 1) <= q THEN q - SumUpTo(f, k - 1) ELSE 0
  <2>1. f[k] = IF k \in Locked(r) THEN Seen(r, k) ELSE 0
    BY DEF Offered, Batches
  <2>2. Take(r, k) = IF k \in Locked(r)
                     THEN Smaller(Seen(r, k), Larger(0, q - SumUpTo(f, k - 1))) ELSE 0
    BY <1>2 DEF Take
  <2>3. f[k] \in Nat /\ SumUpTo(f, k - 1) \in Nat
    <3> HIDE DEF f
    <3> QED BY <1>1, <1>3
  <2> DEFINE a == SumUpTo(f, k - 1)
             y == f[k]
  <2> HIDE DEF f, q, a, y
  <2>4. Take(r, k) = IF k \in Locked(r) THEN Smaller(y, Larger(0, q - a)) ELSE 0
    BY <2>1, <2>2 DEF a, y
  <2>5. k \notin Locked(r) => y = 0
    BY <2>1 DEF y
  <2>6. y \in Nat /\ a \in Nat /\ q \in Nat
    BY <1>1, <2>3 DEF a, y
  <2>7. /\ Take(r, k) \in Nat /\ Take(r, k) <= y
        /\ Take(r, k) = IF a + y <= q THEN y ELSE IF a <= q THEN q - a ELSE 0
    BY <2>4, <2>5, <2>6 DEF Smaller, Larger
  <2> QED BY <2>7 DEF a, y
<1>5. t \in [1..NBatches -> Nat] /\ \A k \in 1..NBatches : t[k] = Take(r, k)
  BY <1>4 DEF Taken, Batches
<1>6. SumUpTo(t, NBatches) = IF q <= SumUpTo(f, NBatches) THEN q ELSE SumUpTo(f, NBatches)
  <2>1. \A k \in 1..NBatches :
          t[k] = IF SumUpTo(f, k - 1) + f[k] <= q THEN f[k]
                 ELSE IF SumUpTo(f, k - 1) <= q THEN q - SumUpTo(f, k - 1) ELSE 0
    <3> HIDE DEF f, t, q
    <3> QED BY <1>4, <1>5
  <2> HIDE DEF f, t, q
  <2> QED BY <1>1, <1>5, <2>1, SumGreedy
<1>7. q <= SumUpTo(f, NBatches)
  BY <1>1
<1> QED BY <1>4, <1>5, <1>6, <1>7 DEF Batches
\* Only the product of the line loses goods.
LEMMA TakenOfProduct ==
  ASSUME TypeOK, NEW r \in Movers, OnShelf(r, Locked(r)) >= Current(r).quantity,
         change'[r] \in [Batches -> Int],
         \A b \in Batches : change'[r][b] = change[r][b] - Take(r, b),
         NEW p \in Products
  PROVE  ChangeOf(r, p)' = ChangeOf(r, p) - (IF p = Current(r).product THEN Current(r).quantity ELSE 0)
<1> DEFINE old == Changes(r, p)
           new == Changes(r, p)'
           taken == [b \in 1..NBatches |-> IF ProductOf[b] = p THEN Take(r, b) ELSE 0]
           q == Current(r).quantity
<1>1. /\ old \in [1..NBatches -> Int] /\ ChangeOf(r, p) = SumUpTo(old, NBatches)
      /\ ChangeOf(r, p) \in Int /\ q \in Nat
  BY ChangesType, CurrentLine
<1>2. new \in [1..NBatches -> Int] /\ ChangeOf(r, p)' = SumUpTo(new, NBatches)
  <2>2. new = [c \in Batches |-> IF ProductOf[c] = p THEN change'[r][c] ELSE 0]
    BY DEF Changes
  <2>3. ChangeOf(r, p)' = SumUpTo([c \in Batches |-> IF ProductOf[c] = p THEN change'[r][c] ELSE 0], NBatches)
    BY DEF ChangeOf
  <2> QED BY <2>2, <2>3 DEF Batches
<1>3. \A b \in 1..NBatches : Take(r, b) \in Nat
                             /\ (ProductOf[b] # Current(r).product => Take(r, b) = 0)
  <2>1. \A b \in 1..NBatches : Take(r, b) \in Nat
    BY TakenTotal DEF Taken, Batches
  <2>2. \A b \in 1..NBatches : ProductOf[b] # Current(r).product => Take(r, b) = 0
    BY OfferedType DEF Take, Batches
  <2> QED BY <2>1, <2>2
<1>4. /\ taken \in [1..NBatches -> Int]
      /\ \A b \in 1..NBatches : old[b] = new[b] + taken[b]
  <2>1. taken \in [1..NBatches -> Int]
    <3> HIDE DEF Take
    <3> QED BY <1>3
  <2>2. \A b \in 1..NBatches : change[r][b] \in Int /\ change'[r][b] = change[r][b] - Take(r, b)
    BY DEF TypeOK, Batches
  <2> HIDE DEF Take
  <2> QED BY <1>3, <2>1, <2>2 DEF Changes, Batches
<1>5. SumUpTo(taken, NBatches) = IF p = Current(r).product THEN q ELSE 0
  <2>1. CASE p = Current(r).product
    <3>1. taken = Taken(r)
      <4> HIDE DEF Take
      <4> QED BY <1>3, <2>1 DEF Taken, Batches
    <3> QED BY <2>1, <3>1, TakenTotal
  <2>2. CASE p # Current(r).product
    <3>1. \A b \in 1..NBatches : taken[b] = 0
      <4> HIDE DEF Take
      <4> QED BY <1>3, <2>2
    <3> HIDE DEF taken
    <3> QED BY <1>4, <2>2, <3>1, SumZero
  <2> QED BY <2>1, <2>2
<1>6. SumUpTo(old, NBatches) = SumUpTo(new, NBatches) + SumUpTo(taken, NBatches)
  <2> HIDE DEF old, new, taken
  <2> QED BY <1>1, <1>2, <1>4, SumAdd
<1>7. SumUpTo(new, NBatches) \in Int
  <2> HIDE DEF new
  <2> QED BY <1>2, SumInt
<1> HIDE DEF old, new, taken, q
<1> QED BY <1>1, <1>2, <1>5, <1>6, <1>7 DEF q

\* A sale takes what it sees of rows that are locked.
LEMMA AllocateKeeps ==
  ASSUME LockingInv, NEW r \in Movers, Allocate(r) PROVE LockingInv'
<1>1. /\ pc[r] = "lock" /\ pc' = [pc EXCEPT ![r] = "total"]
      /\ OnShelf(r, Locked(r)) >= Current(r).quantity
      /\ change' = [change EXCEPT ![r] = [b \in Batches |-> change[r][b] - Take(r, b)]]
      /\ UNCHANGED tables /\ UNCHANGED <<locks, line, queue, written, raced>>
  BY DEF Allocate, Goto
<1>2. /\ TypeOK /\ RequestInv(r) /\ ReturnsFit
      /\ pc \in [Movers -> Steps] /\ change \in [Movers -> [Batches -> Int]]
      /\ raced \subseteq Batches
  BY DEF LockingInv, TypeOK
<1>3. r \in Sales /\ r \notin Receipts /\ r \notin Returns
  BY <1>1, <1>2, DisjointAssumption DEF RequestInv, Progress
<1>4. \A b \in Batches : /\ Take(r, b) \in Nat /\ Take(r, b) <= Offered(r)[b]
                         /\ change[r][b] \in Int
  <2>1. \A b \in Batches : Take(r, b) \in Nat /\ Take(r, b) <= Offered(r)[b]
    BY <1>1, <1>2, TakenTotal DEF Taken, Batches
  <2> QED BY <1>2, <2>1
<1>5. /\ change'[r] = [b \in Batches |-> change[r][b] - Take(r, b)]
      /\ change'[r] \in [Batches -> Int]
      /\ \A b \in Batches : change'[r][b] = change[r][b] - Take(r, b)
  <2> HIDE DEF Take
  <2> QED BY <1>1, <1>2, <1>4
<1>6. \A p \in Products : ChangeOf(r, p)' = ChangeOf(r, p)
         + (IF p = Current(r).product THEN Signed(r, Current(r).quantity) ELSE 0)
  <2> TAKE p \in Products
  <2>1. ChangeOf(r, p)' = ChangeOf(r, p) - (IF p = Current(r).product THEN Current(r).quantity ELSE 0)
    BY <1>1, <1>2, <1>5, TakenOfProduct
  <2>2. ChangeOf(r, p) \in Int /\ Current(r).quantity \in Nat
    BY <1>2, ChangesType, CurrentLine
  <2> QED BY <1>3, <2>1, <2>2 DEF Signed
<1>7. OwnWrites(r)'
  <2> SUFFICES ASSUME NEW b \in Batches
               PROVE  /\ Seen(r, b)' >= 0 /\ change'[r][b] <= 0
                      /\ change'[r][b] < 0 => StockRow(b, WarehouseOf[r]) \in locks[r]
    BY <1>1, <1>3 DEF OwnWrites
  <2>1. /\ Seen(r, b) >= 0 /\ change[r][b] <= 0
        /\ change[r][b] < 0 => StockRow(b, WarehouseOf[r]) \in locks[r]
    BY <1>2, <1>3 DEF RequestInv, OwnWrites
  <2>2. shelf[b][WarehouseOf[r]] \in Int
    BY <1>2, CurrentLine DEF TypeOK
  <2>3. Seen(r, b)' = Seen(r, b) - Take(r, b)
    <3>1. shelf' = shelf
      BY <1>1 DEF tables
    <3> HIDE DEF Take
    <3> QED BY <1>4, <1>5, <2>2, <3>1 DEF Seen
  <2>4. CASE b \in Locked(r)
    <3>1. Take(r, b) <= Seen(r, b) /\ StockRow(b, WarehouseOf[r]) \in locks[r] /\ Seen(r, b) \in Int
      BY <1>2, <1>4, <2>4, OfferedType DEF Offered
    <3> HIDE DEF Take, Seen, StockRow
    <3> QED BY <1>4, <1>5, <2>1, <2>3, <3>1
  <2>5. CASE b \notin Locked(r)
    <3>1. Take(r, b) = 0
      BY <2>5 DEF Take
    <3>2. Seen(r, b) \in Int
      BY <1>2, OfferedType
    <3> HIDE DEF Take, Seen, StockRow
    <3> QED BY <1>4, <1>5, <2>1, <2>3, <3>1, <3>2
  <2> QED BY <2>4, <2>5
<1>8. NewBatches(r)'
  BY <1>3 DEF NewBatches
<1>9. ReturnsFit'
  <2>1. \A s \in Returns : change'[s] = change[s]
    BY <1>1, <1>2, <1>3 DEF Movers
  <2> QED BY <1>1, <1>2, <2>1 DEF ReturnsFit, tables
<1>10. /\ change' = [change EXCEPT ![r] = change'[r]] /\ pc' = [pc EXCEPT ![r] = pc'[r]]
       /\ pc[r] \in {"start", "lock"} /\ pc'[r] \in {"batch", "total"}
       /\ raced \subseteq raced' /\ raced' \subseteq Batches
  <2> HIDE DEF Take
  <2> QED BY <1>1, <1>2, <1>5
<1> QED BY <1>1, <1>5, <1>6, <1>7, <1>8, <1>9, <1>10, MoveKeeps
-----------------------------------------------------------------------------
(***************************************************************************)
(* The sum that is read, and the end without effect.                       *)
(***************************************************************************)

\* What a request adds up to as it sees the shelves is the committed total and its change.
LEMMA TotalSeen ==
  ASSUME TypeOK, RollupsExact, NEW r \in Movers, OwnWrites(r), NEW p \in Products
  PROVE  /\ total[p] \in [1..NWarehouses -> Int]
         /\ WarehouseOf[r] \in 1..NWarehouses
         /\ ChangeOf(r, p) \in Int
         /\ total[p][WarehouseOf[r]] + ChangeOf(r, p) \in Nat
<1> DEFINE w == WarehouseOf[r]
           column == Column(p, w)
           old == Changes(r, p)
           seen == [b \in 1..NBatches |-> IF ProductOf[b] = p THEN Seen(r, b) ELSE 0]
<1>1. w \in Warehouses
  BY CurrentLine
<1>2. /\ column \in [1..NBatches -> Int]
      /\ old \in [1..NBatches -> Int] /\ ChangeOf(r, p) = SumUpTo(old, NBatches)
      /\ ChangeOf(r, p) \in Int
  BY <1>1, ColumnType, ChangesType
<1>3. total[p][w] = SumUpTo(column, NBatches)
  BY <1>1 DEF RollupsExact, Column
<1>4. \A b \in 1..NBatches : Seen(r, b) \in Nat
  BY OfferedType DEF OwnWrites, Batches
<1>5. seen \in [1..NBatches -> Nat] /\ seen \in [1..NBatches -> Int]
  <2> HIDE DEF Seen
  <2> QED BY <1>4
<1>6. \A b \in 1..NBatches : seen[b] = column[b] + old[b]
  <2>1. \A b \in 1..NBatches : shelf[b][w] \in Int /\ change[r][b] \in Int
    <3> HIDE DEF w
    <3>1. \A b \in Batches : shelf[b][w] \in Nat
      BY <1>1 DEF TypeOK
    <3>2. change[r] \in [Batches -> Int]
      BY DEF TypeOK
    <3> QED BY <3>1, <3>2 DEF Batches
  <2> TAKE b \in 1..NBatches
  <2>2. column[b] = IF ProductOf[b] = p THEN shelf[b][w] ELSE 0
    BY DEF Column, Batches
  <2>3. old[b] = IF ProductOf[b] = p THEN change[r][b] ELSE 0
    BY DEF Changes, Batches
  <2>4. seen[b] = IF ProductOf[b] = p THEN shelf[b][w] + change[r][b] ELSE 0
    BY DEF Seen
  <2> HIDE DEF column, old, seen, w
  <2> QED BY <2>1, <2>2, <2>3, <2>4
<1>7. SumUpTo(seen, NBatches) \in Nat
  <2> HIDE DEF seen
  <2> QED BY <1>5, SumNat
<1>8. SumUpTo(seen, NBatches) = SumUpTo(column, NBatches) + SumUpTo(old, NBatches)
  <2> HIDE DEF seen, column, old
  <2> QED BY <1>2, <1>5, <1>6, SumAdd
<1>9. total[p] \in [1..NWarehouses -> Int]
  BY DEF TypeOK, Warehouses
<1> HIDE DEF seen, column, old
<1> QED BY <1>1, <1>2, <1>3, <1>7, <1>8, <1>9 DEF Warehouses

\* The sum a request reads is of goods that are there.
LEMMA SumSeen ==
  ASSUME TypeOK, RollupsExact, NEW r \in Movers, OwnWrites(r), NEW p \in Products
  PROVE  SumUpTo(total[p], NWarehouses) + ChangeOf(r, p) \in Nat
<1> DEFINE w == WarehouseOf[r]
           d == ChangeOf(r, p)
           g == [v \in 1..NWarehouses |-> total[p][v] + (IF v = w THEN d ELSE 0)]
<1>1. /\ total[p] \in [1..NWarehouses -> Int] /\ w \in 1..NWarehouses /\ d \in Int
      /\ total[p][w] + d \in Nat
  BY TotalSeen
<1>2. \A v \in 1..NWarehouses : total[p][v] \in Nat
  BY DEF TypeOK, Warehouses
<1> HIDE DEF d, w
<1>3. g \in [1..NWarehouses -> Nat] /\ g \in [1..NWarehouses -> Int]
  <2>1. \A v \in 1..NWarehouses : total[p][v] + (IF v = w THEN d ELSE 0) \in Nat
    BY <1>1, <1>2
  <2>2. \A v \in 1..NWarehouses : total[p][v] + (IF v = w THEN d ELSE 0) \in Int
    BY <2>1
  <2> QED BY <2>1, <2>2
<1>4. \A v \in 1..NWarehouses : g[v] = total[p][v] + (IF v = w THEN d ELSE 0)
  OBVIOUS
<1> HIDE DEF g
<1>5. SumUpTo(g, NWarehouses) \in Nat
  BY <1>3, SumNat
<1>6. SumUpTo(g, NWarehouses) = SumUpTo(total[p], NWarehouses) + d
  BY <1>1, <1>3, <1>4, SumUpdate
<1> QED BY <1>5, <1>6 DEF d

LEMMA ReadSumKeeps ==
  ASSUME LockingInv, NEW r \in Movers, ReadSum(r) PROVE LockingInv'
<1> DEFINE p == Current(r).product
           n == SumUpTo(total[p], NWarehouses) + ChangeOf(r, p)
<1>1. /\ pc[r] = "sum" /\ pc' = [pc EXCEPT ![r] = "product"]
      /\ written' = [written EXCEPT ![r] = [written[r] EXCEPT ![p] = n]]
      /\ UNCHANGED tables /\ UNCHANGED <<locks, line, queue, change, raced>>
  BY DEF ReadSum, Goto
<1>2. /\ TypeOK /\ RequestInv(r) /\ RollupsExact /\ p \in Products
      /\ pc \in [Movers -> Steps] /\ written \in [Movers -> [Products -> Nat \cup {Nothing}]]
      /\ line[r] \in 1..Len(Lines[r]) /\ Len(Lines[r]) \in Nat
  BY CurrentLine DEF LockingInv, TypeOK, TablesInv
<1>3. n \in Nat /\ n # Nothing
  BY <1>2, SumSeen, NothingAssumption DEF RequestInv
<1> HIDE DEF n, p
<1>4. /\ pc' \in [Movers -> Steps] /\ pc'[r] = "product"
      /\ written' \in [Movers -> [Products -> Nat \cup {Nothing}]]
      /\ \A x \in Products : written'[r][x] = IF x = p THEN n ELSE written[r][x]
      /\ \A s \in Movers : s # r => pc'[s] = pc[s] /\ written'[s] = written[s]
  <2>1. "product" \in Steps
    BY DEF Steps
  <2> HIDE DEF Steps
  <2> QED BY <1>1, <1>2, <1>3, <2>1
<1>5. TypeOK'
  BY <1>1, <1>4 DEF LockingInv, TypeOK, tables
<1>6. Functions' /\ TablesInv' /\ ReturnsFit'
  <2>1. Functions' /\ ReturnsFit'
    BY <1>1 DEF LockingInv, Functions, ReturnsFit, tables
  <2> QED BY <1>1, <2>1, SameTables DEF LockingInv
<1>7. ASSUME NEW s \in Movers, s # r PROVE RequestInv(s)'
  BY <1>1, <1>4, <1>7, SameRequest DEF LockingInv
<1>8. RequestInv(r)'
  <2>1. /\ \A x : ChangeOf(r, x)' = ChangeOf(r, x)
        /\ LinesDone(r)' = LinesDone(r) /\ ~Ended(r) /\ Current(r)' = Current(r)
    BY <1>1, <1>4 DEF ChangeOf, LinesDone, Ended, Current
  <2>2. OwnWrites(r)'
    BY <1>1, <1>2 DEF RequestInv, OwnWrites, Seen, tables
  <2>3. Progress(r)'
    BY <1>2, <1>4, <2>1 DEF RequestInv, Progress, Units, Signed
  <2>4. NewBatches(r)'
    BY <1>1, <1>2, <2>1 DEF RequestInv, NewBatches
  <2>5. SumsWritten(r)'
    <3>1. SumsWritten(r) /\ total' = total /\ \A x : InOneWarehouse(x)' <=> InOneWarehouse(x)
      BY <1>1, <1>2 DEF RequestInv, tables, InOneWarehouse
    <3>2. TotalRow(p, WarehouseOf[r]) \in locks[r]
      BY <1>1, <1>2, <3>1 DEF SumsWritten, p
    <3>3. \A x \in Products : x # p => ~Midway(r, x)
      BY DEF Midway, p
    <3>4. Lines[r][line[r]].product = p /\ line[r] \in 1..line[r]
      BY <1>2 DEF p, Current
    <3> SUFFICES ASSUME NEW x \in Products
                 PROVE  /\ Current(r).product = x => TotalRow(x, WarehouseOf[r]) \in locks[r]
                        /\ written'[r][x] # Nothing =>
                             /\ TotalRow(x, WarehouseOf[r]) \in locks[r]
                             /\ \E i \in 1..line[r] : Lines[r][i].product = x
                        /\ IF written'[r][x] = Nothing
                           THEN ChangeOf(r, x) = 0
                           ELSE InOneWarehouse(x) =>
                                  written'[r][x] = SumUpTo(total[x], NWarehouses) + ChangeOf(r, x)
      BY <1>1, <2>1, <3>1 DEF SumsWritten
    <3>5. CASE x = p
      <4>1. written'[r][x] = n /\ written'[r][x] # Nothing
        BY <1>3, <1>4, <3>5
      <4>2. n = SumUpTo(total[x], NWarehouses) + ChangeOf(r, x)
        BY <3>5 DEF n, p
      <4> QED BY <3>2, <3>4, <3>5, <4>1, <4>2
    <3>6. CASE x # p
      <4>1. written'[r][x] = written[r][x] /\ ~Midway(r, x)
        BY <1>4, <3>3, <3>6
      <4> QED BY <3>1, <3>6, <4>1 DEF SumsWritten, p
    <3> QED BY <3>5, <3>6
  <2> QED BY <2>2, <2>3, <2>4, <2>5 DEF RequestInv
<1> QED BY <1>5, <1>6, <1>7, <1>8 DEF LockingInv

\* A request that has ended has nothing of its own left.
LEMMA EndedRequest ==
  ASSUME NEW r \in Movers, TypeOK', pc'[r] \in {"served", "refused"},
         change'[r] = [b \in Batches |-> 0], written'[r] = [p \in Products |-> Nothing]
  PROVE  RequestInv(r)'
<1>1. /\ \A b \in Batches : change'[r][b] = 0 /\ shelf'[b][WarehouseOf[r]] \in Nat
      /\ \A p \in Products : written'[r][p] = Nothing
  BY RequestsAssumption DEF TypeOK
<1>2. ASSUME NEW p \in Products PROVE ChangeOf(r, p)' = 0
  <2> DEFINE f == [b \in 1..NBatches |-> IF ProductOf[b] = p THEN change'[r][b] ELSE 0]
  <2>1. \A b \in 1..NBatches : f[b] = 0
    BY <1>1 DEF Batches
  <2>2. ChangeOf(r, p)' = SumUpTo(f, NBatches)
    BY DEF ChangeOf, Batches
  <2>3. f \in [1..NBatches -> Int]
    BY <2>1
  <2> HIDE DEF f
  <2> QED BY <2>1, <2>2, <2>3, SumZero
<1>3. OwnWrites(r)'
  BY <1>1 DEF OwnWrites, Seen
<1>4. Progress(r)'
  BY DEF Progress, Ended
<1>5. NewBatches(r)'
  BY <1>1 DEF NewBatches
<1>6. SumsWritten(r)'
  BY <1>1, <1>2 DEF SumsWritten
<1> QED BY <1>3, <1>4, <1>5, <1>6 DEF RequestInv

LEMMA RollbackKeeps ==
  ASSUME LockingInv, NEW r \in Movers, Rollback(r) PROVE LockingInv'
<1>1. /\ locks' = [locks EXCEPT ![r] = {}] /\ pc' = [pc EXCEPT ![r] = "refused"]
      /\ queue' = [queue EXCEPT ![r] = <<>>]
      /\ change' = [change EXCEPT ![r] = [b \in Batches |-> 0]]
      /\ written' = [written EXCEPT ![r] = [p \in Products |-> Nothing]]
      /\ UNCHANGED tables /\ UNCHANGED <<line, raced>>
  BY DEF Rollback, Release, Goto
<1>2. /\ pc \in [Movers -> Steps] /\ written \in [Movers -> [Products -> Nat \cup {Nothing}]]
      /\ change \in [Movers -> [Batches -> Int]]
      /\ locks = [s \in Movers |-> locks[s]] /\ queue = [s \in Movers |-> queue[s]]
      /\ \A s, t \in Movers : s # t => locks[s] \cap locks[t] = {}
  BY DEF LockingInv, TypeOK, Functions
<1>3. /\ pc'[r] = "refused" /\ locks'[r] = {}
      /\ change'[r] = [b \in Batches |-> 0] /\ written'[r] = [p \in Products |-> Nothing]
      /\ \A s \in Movers : s # r => /\ pc'[s] = pc[s] /\ locks'[s] = locks[s]
                                    /\ change'[s] = change[s] /\ written'[s] = written[s]
      /\ locks' = [s \in Movers |-> locks'[s]] /\ queue' = [s \in Movers |-> queue'[s]]
  BY <1>1, <1>2
<1>4. /\ pc' \in [Movers -> Steps] /\ change' \in [Movers -> [Batches -> Int]]
      /\ written' \in [Movers -> [Products -> Nat \cup {Nothing}]]
      /\ \A s, t \in Movers : s # t => locks'[s] \cap locks'[t] = {}
  <2>1. "refused" \in Steps
    BY DEF Steps
  <2> HIDE DEF Steps
  <2>2. pc' \in [Movers -> Steps]
    BY <1>1, <1>2, <2>1
  <2>3. change' \in [Movers -> [Batches -> Int]]
    BY <1>1, <1>2
  <2>4. written' \in [Movers -> [Products -> Nat \cup {Nothing}]]
    BY <1>1, <1>2
  <2>5. \A s, t \in Movers : s # t => locks'[s] \cap locks'[t] = {}
    BY <1>2, <1>3
  <2> QED BY <2>2, <2>3, <2>4, <2>5
<1>5. TypeOK'
  BY <1>1, <1>4 DEF LockingInv, TypeOK, tables
<1>6. ReturnsFit'
  <2>1. \A s \in Returns : s \in Movers
    BY DEF Movers
  <2>2. \A s \in Returns, b \in Batches : change'[s][b] = IF s = r THEN 0 ELSE change[s][b]
    BY <1>3, <2>1
  <2>3. \A b \in Batches : returned[b] \in Nat
    BY DEF LockingInv, TypeOK
  <2>4. returned' = returned /\ raced' = raced
    BY <1>1 DEF tables
  <2> QED BY <2>2, <2>3, <2>4 DEF LockingInv, ReturnsFit
<1>7. Functions' /\ TablesInv'
  BY <1>1, <1>3, SameTables DEF LockingInv, Functions
<1>8. ASSUME NEW s \in Movers, s # r PROVE RequestInv(s)'
  BY <1>1, <1>3, <1>8, SameRequest DEF LockingInv
<1>9. RequestInv(r)'
  BY <1>3, <1>5, EndedRequest
<1> QED BY <1>5, <1>6, <1>7, <1>8, <1>9 DEF LockingInv
-----------------------------------------------------------------------------
(***************************************************************************)
(* The commit.                                                             *)
(***************************************************************************)

\* The shelves of the warehouse change by what was changed, and nothing is overdrawn.
LEMMA CommitShelf ==
  ASSUME LockingInv, NEW r \in Movers, Commit(r)
  PROVE  /\ shelf' \in [Batches -> [Warehouses -> Nat]]
         /\ \A b \in Batches, w \in Warehouses :
              /\ shelf[b][w] \in Nat /\ shelf'[b][w] \in Nat /\ change[r][b] \in Int
              /\ shelf'[b][w] = shelf[b][w] + (IF w = WarehouseOf[r] THEN change[r][b] ELSE 0)
<1>1. /\ shelf \in [Batches -> [Warehouses -> Nat]] /\ change[r] \in [Batches -> Int]
      /\ WarehouseOf[r] \in Warehouses
  BY CurrentLine DEF LockingInv, TypeOK
<1>2. \A b \in Batches : Seen(r, b) >= 0
  BY DEF LockingInv, RequestInv, OwnWrites
<1>3. shelf' = [b \in Batches |-> [shelf[b] EXCEPT ![WarehouseOf[r]] = @ + change[r][b]]]
  BY DEF Commit
<1>4. ASSUME NEW b \in Batches
      PROVE  /\ shelf'[b] \in [Warehouses -> Nat]
             /\ \A w \in Warehouses :
                  /\ shelf[b][w] \in Nat /\ change[r][b] \in Int
                  /\ shelf'[b][w] = shelf[b][w] + (IF w = WarehouseOf[r] THEN change[r][b] ELSE 0)
  <2>1. /\ shelf[b] \in [Warehouses -> Nat] /\ change[r][b] \in Int
        /\ shelf'[b] = [shelf[b] EXCEPT ![WarehouseOf[r]] = shelf[b][WarehouseOf[r]] + change[r][b]]
    BY <1>1, <1>3
  <2>2. shelf[b][WarehouseOf[r]] + change[r][b] \in Nat
    <3>1. shelf[b][WarehouseOf[r]] + change[r][b] >= 0
      BY <1>2 DEF Seen
    <3> QED BY <1>1, <2>1, <3>1
  <2>3. \A w \in Warehouses : shelf[b][w] \in Nat
    BY <2>1
  <2> QED BY <1>1, <2>1, <2>2, <2>3
<1>5. shelf' = [b \in Batches |-> shelf'[b]]
  BY <1>3
<1>6. shelf' \in [Batches -> [Warehouses -> Nat]]
  BY <1>4, <1>5
<1>7. \A b \in Batches, w \in Warehouses : shelf'[b][w] \in Nat
  BY <1>6
<1> QED BY <1>4, <1>6, <1>7

\* And so do the totals of the warehouse.
LEMMA CommitTotal ==
  ASSUME LockingInv, NEW r \in Movers, Commit(r)
  PROVE  /\ total' \in [Products -> [Warehouses -> Nat]]
         /\ \A p \in Products :
              /\ total[p] \in [1..NWarehouses -> Int] /\ total'[p] \in [1..NWarehouses -> Int]
              /\ ChangeOf(r, p) \in Int
              /\ \A w \in Warehouses :
                   total'[p][w] = total[p][w] + (IF w = WarehouseOf[r] THEN ChangeOf(r, p) ELSE 0)
<1>1. total' = [p \in Products |-> [total[p] EXCEPT ![WarehouseOf[r]] = @ + ChangeOf(r, p)]]
  BY DEF Commit
<1>2. ASSUME NEW p \in Products
      PROVE  /\ total'[p] \in [Warehouses -> Nat] /\ total'[p] \in [1..NWarehouses -> Int]
             /\ total[p] \in [1..NWarehouses -> Int]
             /\ ChangeOf(r, p) \in Int
             /\ \A w \in Warehouses :
                  total'[p][w] = total[p][w] + (IF w = WarehouseOf[r] THEN ChangeOf(r, p) ELSE 0)
  <2> DEFINE d == ChangeOf(r, p)
             v == WarehouseOf[r]
  <2>1. /\ total[p] \in [1..NWarehouses -> Int] /\ v \in 1..NWarehouses /\ d \in Int
        /\ total[p][v] + d \in Nat
    BY TotalSeen DEF LockingInv, TablesInv, RequestInv
  <2>2. total[p] \in [Warehouses -> Nat]
    BY DEF LockingInv, TypeOK
  <2>3. total'[p] = [total[p] EXCEPT ![v] = total[p][v] + d]
    BY <1>1, <2>2
  <2> HIDE DEF d, v
  <2>4. total'[p] \in [Warehouses -> Nat]
    BY <2>1, <2>2, <2>3
  <2>5. total'[p] \in [1..NWarehouses -> Int]
    BY <2>4 DEF Warehouses
  <2>6. \A w \in Warehouses : total'[p][w] = total[p][w] + (IF w = v THEN d ELSE 0)
    BY <2>1, <2>2, <2>3 DEF Warehouses
  <2> QED BY <2>1, <2>4, <2>5, <2>6 DEF d, v
<1>3. total' = [p \in Products |-> total'[p]]
  BY <1>1
<1> QED BY <1>2, <1>3

\* A batch and its remaining quantity, which no other warehouse is left out of.
LEMMA CommitRemaining ==
  ASSUME LockingInv, NEW r \in Movers, Commit(r)
  PROVE  /\ remaining' \in [Batches -> Nat]
         /\ \A b \in Batches : /\ remaining'[b] = SumUpTo(shelf'[b], NWarehouses)
                               /\ remaining'[b] = Left(r, b)
<1>1. remaining' = [b \in Batches |-> Left(r, b)]
  BY DEF Commit
<1>2. ASSUME NEW b \in Batches
      PROVE  Left(r, b) = SumUpTo(shelf'[b], NWarehouses) /\ Left(r, b) \in Nat
  <2> DEFINE d == change[r][b]
             v == WarehouseOf[r]
  <2>1. /\ shelf[b] \in [1..NWarehouses -> Int] /\ shelf'[b] \in [1..NWarehouses -> Int]
        /\ shelf'[b] \in [1..NWarehouses -> Nat]
    <3>1. shelf[b] \in [Warehouses -> Nat] /\ shelf'[b] \in [Warehouses -> Nat]
      BY CommitShelf DEF LockingInv, TypeOK
    <3> QED BY <3>1 DEF Warehouses
  <2>2. d \in Int /\ v \in 1..NWarehouses
    BY CurrentLine DEF LockingInv, TypeOK, Warehouses
  <2>3. \A w \in 1..NWarehouses : shelf'[b][w] = shelf[b][w] + (IF w = v THEN d ELSE 0)
    BY CommitShelf DEF Warehouses
  <2>4. Left(r, b) = SumUpTo(shelf[b], NWarehouses) + d
    BY DEF Left, LockingInv, TablesInv, RollupsExact
  <2> HIDE DEF d, v
  <2>5. SumUpTo(shelf'[b], NWarehouses) = SumUpTo(shelf[b], NWarehouses) + d
    BY <2>1, <2>2, <2>3, SumUpdate
  <2>6. SumUpTo(shelf'[b], NWarehouses) \in Nat
    BY <2>1, SumNat
  <2> QED BY <2>4, <2>5, <2>6
<1> HIDE DEF Left
<1> QED BY <1>1, <1>2

LEMMA CommitRollups ==
  ASSUME LockingInv, NEW r \in Movers, Commit(r) PROVE RollupsExact'
<1>1. \A b \in Batches : remaining'[b] = SumUpTo(shelf'[b], NWarehouses)
  BY CommitRemaining
<1>2. ASSUME NEW p \in Products, NEW w \in Warehouses
      PROVE  total'[p][w] =
               SumUpTo([b \in Batches |-> IF ProductOf[b] = p THEN shelf'[b][w] ELSE 0], NBatches)
  <2> DEFINE old == Column(p, w)
             new == [b \in Batches |-> IF ProductOf[b] = p THEN shelf'[b][w] ELSE 0]
             moved == Changes(r, p)
  <2>1. /\ old \in [1..NBatches -> Int] /\ moved \in [1..NBatches -> Int]
        /\ ChangeOf(r, p) = SumUpTo(moved, NBatches)
    BY ColumnType, ChangesType DEF LockingInv
  <2>2. total[p][w] = SumUpTo(old, NBatches)
    BY DEF LockingInv, TablesInv, RollupsExact, Column
  <2>3. \A b \in Batches :
          /\ shelf[b][w] \in Nat /\ shelf'[b][w] \in Nat /\ change[r][b] \in Int
          /\ shelf'[b][w] = shelf[b][w] + (IF w = WarehouseOf[r] THEN change[r][b] ELSE 0)
    BY CommitShelf
  <2>4. new \in [1..NBatches -> Int]
    BY <2>3 DEF Batches
  <2>5. total'[p][w] = total[p][w] + (IF w = WarehouseOf[r] THEN ChangeOf(r, p) ELSE 0)
        /\ total[p][w] \in Int
    <3>1. total[p][w] \in Nat
      BY DEF LockingInv, TypeOK
    <3> QED BY <3>1, CommitTotal
  <2>6. CASE w = WarehouseOf[r]
    <3>1. \A b \in 1..NBatches : new[b] = old[b] + moved[b]
      BY <2>3, <2>6 DEF Column, Changes, Batches
    <3> HIDE DEF old, new, moved
    <3>2. SumUpTo(new, NBatches) = SumUpTo(old, NBatches) + SumUpTo(moved, NBatches)
      BY <2>1, <2>4, <3>1, SumAdd
    <3>3. total'[p][w] = SumUpTo(new, NBatches)
      BY <2>1, <2>2, <2>5, <2>6, <3>2
    <3> QED BY <3>3 DEF new
  <2>7. CASE w # WarehouseOf[r]
    <3>1. new = old
      BY <2>3, <2>7 DEF Column
    <3> HIDE DEF old, new, moved
    <3>2. total'[p][w] = SumUpTo(new, NBatches)
      BY <2>2, <2>5, <2>7, <3>1
    <3> QED BY <3>2 DEF new
  <2> QED BY <2>6, <2>7
<1> QED BY <1>1, <1>2 DEF RollupsExact

\* The total of a product changes by what was changed of it.
LEMMA CommitSum ==
  ASSUME LockingInv, NEW r \in Movers, Commit(r), NEW p \in Products
  PROVE  /\ ChangeOf(r, p) \in Int /\ SumUpTo(total[p], NWarehouses) \in Int
         /\ SumUpTo(total'[p], NWarehouses) = SumUpTo(total[p], NWarehouses) + ChangeOf(r, p)
<1> DEFINE d == ChangeOf(r, p)
           v == WarehouseOf[r]
<1>1. /\ total[p] \in [1..NWarehouses -> Int] /\ total'[p] \in [1..NWarehouses -> Int]
      /\ d \in Int /\ v \in 1..NWarehouses
      /\ \A w \in 1..NWarehouses : total'[p][w] = total[p][w] + (IF w = v THEN d ELSE 0)
  BY CommitTotal, CurrentLine DEF LockingInv, Warehouses
<1> HIDE DEF d, v
<1>2. SumUpTo(total'[p], NWarehouses) = SumUpTo(total[p], NWarehouses) + d
  BY <1>1, SumUpdate
<1> QED BY <1>1, <1>2, SumInt DEF d

\* What the commit writes to Product.stock is the total at that moment.
LEMMA CommitStock ==
  ASSUME LockingInv, NEW r \in Movers, Commit(r) PROVE StockExact' /\ stock' \in [Products -> Nat]
<1>1. /\ stock' = [p \in Products |-> IF written[r][p] = Nothing THEN stock[p] ELSE written[r][p]]
      /\ pc[r] = "post"
  BY DEF Commit
<1>2. \A p \in Products : stock[p] \in Nat /\ written[r][p] \in Nat \cup {Nothing}
  BY DEF LockingInv, TypeOK
<1>3. ASSUME NEW p \in Products, InOneWarehouse(p)
      PROVE  stock'[p] = SumUpTo(total'[p], NWarehouses)
  <2>1. stock[p] = SumUpTo(total[p], NWarehouses)
    BY <1>3 DEF LockingInv, TablesInv, StockExact
  <2>2. IF written[r][p] = Nothing
        THEN ChangeOf(r, p) = 0
        ELSE written[r][p] = SumUpTo(total[p], NWarehouses) + ChangeOf(r, p)
    BY <1>1, <1>3 DEF LockingInv, RequestInv, SumsWritten, Midway
  <2>3. /\ ChangeOf(r, p) \in Int /\ SumUpTo(total[p], NWarehouses) \in Int
        /\ SumUpTo(total'[p], NWarehouses) = SumUpTo(total[p], NWarehouses) + ChangeOf(r, p)
    BY CommitSum
  <2>4. stock'[p] = IF written[r][p] = Nothing THEN stock[p] ELSE written[r][p]
    BY <1>1
  <2> QED BY <2>1, <2>2, <2>3, <2>4
<1>4. \A p : InOneWarehouse(p)' <=> InOneWarehouse(p)
  BY DEF InOneWarehouse
<1>5. StockExact'
  BY <1>3, <1>4 DEF StockExact
<1> QED BY <1>1, <1>2, <1>5
\* Goods are left on a shelf only of a batch that the commit does not deplete.
LEMMA CommitStatus ==
  ASSUME LockingInv, NEW r \in Movers, Commit(r)
  PROVE  NothingStranded' /\ status' \in [Batches -> {"active", "depleted"}]
<1>1. status' = [b \in Batches |-> CASE Depletes(r, b) -> "depleted"
                                     [] change[r][b] > 0 -> "active"
                                     [] OTHER -> status[b]]
  BY DEF Commit
<1>2. \A b \in Batches : change[r][b] \in Int /\ status[b] \in {"active", "depleted"}
  BY DEF LockingInv, TypeOK
<1>3. ASSUME NEW b \in Batches
      PROVE  /\ Depletes(r, b) => status'[b] = "depleted"
             /\ change[r][b] > 0 => status'[b] = "active"
             /\ ~Depletes(r, b) /\ ~(change[r][b] > 0) => status'[b] = status[b]
  <2>1. Depletes(r, b) => ~(change[r][b] > 0)
    BY <1>2 DEF Depletes
  <2> HIDE DEF Depletes
  <2> QED BY <1>1, <2>1
<1>4. ASSUME NEW b \in Batches, NEW w \in Warehouses, shelf'[b][w] > 0
      PROVE  status'[b] = "active"
  <2>1. /\ shelf[b][w] \in Nat /\ shelf'[b][w] \in Nat /\ change[r][b] \in Int
        /\ shelf'[b][w] = shelf[b][w] + (IF w = WarehouseOf[r] THEN change[r][b] ELSE 0)
    BY CommitShelf
  <2>2. ~Depletes(r, b)
    <3>1. shelf'[b] \in [1..NWarehouses -> Nat]
      BY CommitShelf DEF Warehouses
    <3>2. shelf'[b][w] <= SumUpTo(shelf'[b], NWarehouses)
      BY <3>1, SumBound DEF Warehouses
    <3>3. Left(r, b) = SumUpTo(shelf'[b], NWarehouses) /\ Left(r, b) \in Nat
      BY CommitRemaining
    <3> HIDE DEF Left
    <3>4. Left(r, b) > 0
      BY <1>4, <2>1, <3>2, <3>3
    <3> QED BY <3>3, <3>4 DEF Depletes
  <2>3. CASE change[r][b] > 0
    BY <1>3, <2>3
  <2>4. CASE ~(change[r][b] > 0)
    <3>1. shelf[b][w] > 0
      BY <1>4, <2>1, <2>4
    <3>2. status[b] = "active"
      BY <3>1 DEF LockingInv, TablesInv, NothingStranded
    <3> QED BY <1>3, <2>2, <2>4, <3>2
  <2> QED BY <2>3, <2>4
<1>5. status' \in [Batches -> {"active", "depleted"}]
  <2>1. \A b \in Batches : status'[b] \in {"active", "depleted"}
    BY <1>2, <1>3
  <2>2. status' = [b \in Batches |-> status'[b]]
    <3> HIDE DEF Depletes
    <3> QED BY <1>1
  <2> QED BY <2>1, <2>2
<1> QED BY <1>4, <1>5 DEF NothingStranded

\* A return that commits alone leaves room for what is counted of it.
LEMMA CommitReturns ==
  ASSUME LockingInv, NEW r \in Movers, Commit(r)
  PROVE  ReturnsFit' /\ returned' \in [Batches -> Nat]
<1>1. /\ returned' = [b \in Batches |-> returned[b] + IF r \in Returns THEN change[r][b] ELSE 0]
      /\ change' = [change EXCEPT ![r] = [b \in Batches |-> 0]] /\ raced' = raced
  BY DEF Commit
<1>2. /\ change \in [Movers -> [Batches -> Int]] /\ \A b \in Batches : returned[b] \in Nat
      /\ \A s \in Movers, b \in Batches : change[s][b] \in Int
  BY DEF LockingInv, TypeOK
<1>3. \A s \in Returns : s \in Movers /\ \A b \in Batches : change[s][b] >= 0
  <2>1. \A s \in Returns : s \in Movers /\ s \notin Sales
    BY DisjointAssumption DEF Movers
  <2> QED BY <2>1 DEF LockingInv, RequestInv, OwnWrites
<1>4. \A s \in Movers, b \in Batches : change'[s][b] = IF s = r THEN 0 ELSE change[s][b]
  BY <1>1, <1>2
<1>5. \A b \in Batches : returned'[b] = returned[b] + IF r \in Returns THEN change[r][b] ELSE 0
  BY <1>1
<1>6. \A b \in Batches : returned'[b] \in Nat
  BY <1>2, <1>3, <1>5
<1>7. ASSUME NEW b \in Batches, b \notin raced, Sold[b] \in Int
      PROVE  /\ returned'[b] <= Sold[b]
             /\ \A s \in Returns : returned'[b] + change'[s][b] <= Sold[b]
             /\ \A s, t \in Returns : change'[s][b] > 0 /\ change'[t][b] > 0 => s = t
  <2>1. /\ returned[b] <= Sold[b]
        /\ \A s \in Returns : returned[b] + change[s][b] <= Sold[b]
        /\ \A s, t \in Returns : change[s][b] > 0 /\ change[t][b] > 0 => s = t
    BY <1>7 DEF LockingInv, ReturnsFit
  <2>2. returned'[b] <= Sold[b]
    BY <1>2, <1>5, <2>1
  <2>3. ASSUME NEW s \in Returns PROVE returned'[b] + change'[s][b] <= Sold[b]
    <3>1. /\ s \in Movers /\ change'[s][b] = (IF s = r THEN 0 ELSE change[s][b])
          /\ change[s][b] \in Int /\ change[s][b] >= 0 /\ change[r][b] \in Int
          /\ returned[b] \in Nat /\ returned'[b] \in Nat
      BY <1>2, <1>3, <1>4, <1>6
    <3>2. CASE s = r
      BY <2>2, <3>1, <3>2
    <3>3. CASE s # r /\ r \in Returns
      <4>1. change[r][b] >= 0 /\ (change[r][b] > 0 => ~(change[s][b] > 0))
        BY <1>3, <2>1, <3>3
      <4> QED BY <1>5, <2>1, <2>2, <3>1, <3>3, <4>1
    <3>4. CASE s # r /\ r \notin Returns
      <4>1. returned'[b] = returned[b] /\ change'[s][b] = change[s][b]
        BY <1>5, <3>1, <3>4
      <4> QED BY <2>1, <4>1
    <3> QED BY <3>2, <3>3, <3>4
  <2>4. \A s, t \in Returns : change'[s][b] > 0 /\ change'[t][b] > 0 => s = t
    BY <1>3, <1>4, <2>1
  <2> QED BY <2>2, <2>3, <2>4
<1>8. ReturnsFit'
  <2>1. \A b \in Batches : Sold[b] \in Int
    BY StockAssumption
  <2> QED BY <1>1, <1>7, <2>1 DEF ReturnsFit
<1> QED BY <1>1, <1>6, <1>8

\* A row that another request has taken goods from keeps what that request sees of it.
LEMMA CommitOthersSeen ==
  ASSUME LockingInv, NEW r \in Movers, Commit(r), NEW s \in Movers, s # r,
         change'[s] = change[s], locks'[s] = locks[s]
  PROVE  OwnWrites(s)'
<1> SUFFICES ASSUME NEW b \in Batches PROVE Seen(s, b)' >= 0
  BY DEF LockingInv, RequestInv, OwnWrites
<1> DEFINE w == WarehouseOf[s]
<1>1. w \in Warehouses
  BY CurrentLine DEF LockingInv
<1>2. /\ shelf[b][w] \in Nat /\ shelf'[b][w] \in Nat /\ change[r][b] \in Int
      /\ shelf'[b][w] = shelf[b][w] + (IF w = WarehouseOf[r] THEN change[r][b] ELSE 0)
  BY <1>1, CommitShelf
<1>3. change[s][b] \in Int /\ Seen(s, b) >= 0
  BY DEF LockingInv, TypeOK, RequestInv, OwnWrites
<1>4. CASE w = WarehouseOf[r] /\ change[r][b] < 0
  <2>1. StockRow(b, w) \in locks[r]
    BY <1>4 DEF LockingInv, RequestInv, OwnWrites
  <2>2. StockRow(b, w) \notin locks[s]
    BY <2>1 DEF LockingInv, TypeOK
  <2>3. ~(change[s][b] < 0)
    BY <2>2 DEF LockingInv, RequestInv, OwnWrites
  <2> QED BY <1>2, <1>3, <2>3 DEF Seen
<1>5. CASE ~(w = WarehouseOf[r] /\ change[r][b] < 0)
  BY <1>2, <1>3, <1>5 DEF Seen
<1> QED BY <1>4, <1>5

\* A sum that another request has written is of a row it holds: of a product that moves in
\* one warehouse, the commit has changed nothing.
LEMMA CommitOthersSums ==
  ASSUME LockingInv, NEW r \in Movers, Commit(r), NEW s \in Movers, s # r,
         pc'[s] = pc[s], line'[s] = line[s], written'[s] = written[s],
         change'[s] = change[s], locks'[s] = locks[s]
  PROVE  SumsWritten(s)'
<1>1. SumsWritten(s) /\ SumsWritten(r) /\ pc[r] = "post"
  BY DEF LockingInv, RequestInv, Commit
<1>2. /\ \A p : ChangeOf(s, p)' = ChangeOf(s, p)
      /\ \A p : Midway(s, p)' <=> Midway(s, p)
      /\ \A p : InOneWarehouse(p)' <=> InOneWarehouse(p)
      /\ Current(s)' = Current(s)
  BY DEF ChangeOf, Midway, InOneWarehouse, Current
<1>3. ASSUME NEW p \in Products, written[s][p] # Nothing, InOneWarehouse(p)
      PROVE  SumUpTo(total'[p], NWarehouses) = SumUpTo(total[p], NWarehouses)
  <2>1. TotalRow(p, WarehouseOf[s]) \in locks[s] /\ \E i \in 1..line[s] : Lines[s][i].product = p
    BY <1>1, <1>3 DEF SumsWritten
  <2>2. ASSUME written[r][p] # Nothing PROVE FALSE
    <3>1. TotalRow(p, WarehouseOf[r]) \in locks[r] /\ \E i \in 1..line[r] : Lines[r][i].product = p
      BY <1>1, <2>2 DEF SumsWritten
    <3>2. \A m \in Movers : 1..line[m] \subseteq 1..Len(Lines[m])
      BY CurrentLine DEF LockingInv
    <3>3. WarehouseOf[r] = WarehouseOf[s]
      BY <1>3, <2>1, <3>1, <3>2 DEF InOneWarehouse
    <3> QED BY <2>1, <3>1, <3>3 DEF LockingInv, TypeOK
  <2>3. ChangeOf(r, p) = 0
    BY <1>1, <2>2 DEF SumsWritten, Midway
  <2>4. /\ SumUpTo(total[p], NWarehouses) \in Int
        /\ SumUpTo(total'[p], NWarehouses) = SumUpTo(total[p], NWarehouses) + ChangeOf(r, p)
    BY CommitSum
  <2> QED BY <2>3, <2>4
<1> QED BY <1>1, <1>2, <1>3 DEF SumsWritten

LEMMA CommitKeeps ==
  ASSUME LockingInv, NEW r \in Movers, Commit(r) PROVE LockingInv'
<1>1. /\ locks' = [locks EXCEPT ![r] = {}] /\ pc' = [pc EXCEPT ![r] = "served"]
      /\ change' = [change EXCEPT ![r] = [b \in Batches |-> 0]]
      /\ written' = [written EXCEPT ![r] = [p \in Products |-> Nothing]]
      /\ UNCHANGED <<line, queue, raced>>
  BY DEF Commit, Release, Goto
<1>2. /\ pc \in [Movers -> Steps] /\ written \in [Movers -> [Products -> Nat \cup {Nothing}]]
      /\ change \in [Movers -> [Batches -> Int]]
      /\ locks = [s \in Movers |-> locks[s]]
      /\ \A s, t \in Movers : s # t => locks[s] \cap locks[t] = {}
  BY DEF LockingInv, TypeOK, Functions
<1>3. /\ pc'[r] = "served" /\ locks'[r] = {}
      /\ change'[r] = [b \in Batches |-> 0] /\ written'[r] = [p \in Products |-> Nothing]
      /\ \A s \in Movers : s # r => /\ pc'[s] = pc[s] /\ locks'[s] = locks[s]
                                    /\ change'[s] = change[s] /\ written'[s] = written[s]
      /\ locks' = [s \in Movers |-> locks'[s]]
  BY <1>1, <1>2
<1>4. pc' \in [Movers -> Steps]
  <2>1. "served" \in Steps
    BY DEF Steps
  <2> HIDE DEF Steps
  <2> QED BY <1>1, <1>2, <2>1
<1>5. change' \in [Movers -> [Batches -> Int]]
  BY <1>1, <1>2
<1>6. written' \in [Movers -> [Products -> Nat \cup {Nothing}]]
  BY <1>1, <1>2
<1>7. \A s, t \in Movers : s # t => locks'[s] \cap locks'[t] = {}
  BY <1>2, <1>3
<1>8. TypeOK'
  <2>1. /\ shelf' \in [Batches -> [Warehouses -> Nat]]
        /\ remaining' \in [Batches -> Nat]
        /\ status' \in [Batches -> {"active", "depleted"}]
        /\ total' \in [Products -> [Warehouses -> Nat]]
        /\ stock' \in [Products -> Nat]
        /\ returned' \in [Batches -> Nat]
    BY CommitShelf, CommitRemaining, CommitStatus, CommitTotal, CommitStock, CommitReturns
  <2>2. /\ line' \in [Movers -> Nat] /\ \A s \in Movers : line'[s] \in 1..Len(Lines[s])
        /\ raced' \subseteq Batches
    BY <1>1 DEF LockingInv, TypeOK
  <2> QED BY <1>4, <1>5, <1>6, <1>7, <2>1, <2>2 DEF TypeOK
<1>9. Functions' /\ TablesInv' /\ ReturnsFit'
  <2>1. Functions'
    BY <1>1, <1>3 DEF LockingInv, Functions
  <2> QED BY <2>1, CommitRollups, CommitStock, CommitStatus, CommitReturns DEF TablesInv
<1>10. ASSUME NEW s \in Movers, s # r PROVE RequestInv(s)'
  <2>1. /\ pc'[s] = pc[s] /\ line'[s] = line[s] /\ written'[s] = written[s]
        /\ change'[s] = change[s] /\ locks'[s] = locks[s]
    BY <1>1, <1>3, <1>10
  <2>2. /\ \A p : ChangeOf(s, p)' = ChangeOf(s, p)
        /\ LinesDone(s)' = LinesDone(s) /\ Ended(s)' = Ended(s)
    BY <2>1 DEF ChangeOf, LinesDone, Ended
  <2>3. OwnWrites(s)'
    BY <1>10, <2>1, CommitOthersSeen
  <2>4. SumsWritten(s)'
    BY <1>10, <2>1, CommitOthersSums
  <2>5. Progress(s)'
    BY <2>1, <2>2 DEF LockingInv, RequestInv, Progress, Units, Signed
  <2>6. NewBatches(s)'
    BY <2>1, <2>2 DEF LockingInv, RequestInv, NewBatches
  <2> QED BY <2>3, <2>4, <2>5, <2>6 DEF RequestInv
<1>11. RequestInv(r)'
  BY <1>3, <1>8, EndedRequest
<1> QED BY <1>8, <1>9, <1>10, <1>11 DEF LockingInv
-----------------------------------------------------------------------------
(***************************************************************************)
(* The invariant.                                                          *)
(***************************************************************************)

\* What is on the shelves at first adds up.
LEMMA OpeningSums ==
  /\ \A b \in Batches : /\ SumUpTo(Opening[b], NWarehouses) \in Nat
                        /\ \A w \in Warehouses : /\ Opening[b][w] \in Nat
                                                 /\ Opening[b][w] <= SumUpTo(Opening[b], NWarehouses)
  /\ \A p \in Products, w \in Warehouses :
       SumUpTo([b \in Batches |-> IF ProductOf[b] = p THEN Opening[b][w] ELSE 0], NBatches) \in Nat
<1>1. ASSUME NEW b \in Batches
      PROVE  /\ SumUpTo(Opening[b], NWarehouses) \in Nat
             /\ \A w \in Warehouses : /\ Opening[b][w] \in Nat
                                      /\ Opening[b][w] <= SumUpTo(Opening[b], NWarehouses)
  <2>1. Opening[b] \in [1..NWarehouses -> Nat]
    BY StockAssumption DEF Warehouses
  <2> QED BY <2>1, SumNat, SumBound DEF Warehouses
<1>2. ASSUME NEW p \in Products, NEW w \in Warehouses
      PROVE  SumUpTo([b \in Batches |-> IF ProductOf[b] = p THEN Opening[b][w] ELSE 0], NBatches) \in Nat
  <2> DEFINE f == [b \in Batches |-> IF ProductOf[b] = p THEN Opening[b][w] ELSE 0]
  <2>1. f \in [1..NBatches -> Nat]
    BY <1>1 DEF Batches
  <2> HIDE DEF f
  <2>2. SumUpTo(f, NBatches) \in Nat
    BY <2>1, SumNat
  <2> QED BY <2>2 DEF f
<1> QED BY <1>1, <1>2

LEMMA InitInv == Init => LockingInv
<1> SUFFICES ASSUME Init PROVE LockingInv
  OBVIOUS
<1>1. \A b \in Batches : SumUpTo(Opening[b], NWarehouses) \in Nat
  BY OpeningSums
<1>2. shelf = Opening /\ shelf \in [Batches -> [Warehouses -> Nat]]
  BY StockAssumption DEF Init
<1>3. remaining \in [Batches -> Nat] /\ status \in [Batches -> {"active", "depleted"}]
  BY <1>1 DEF Init
<1>4. total \in [Products -> [Warehouses -> Nat]]
  BY OpeningSums DEF Init
<1>5. stock \in [Products -> Nat]
  <2>1. \A p \in Products : total[p] \in [1..NWarehouses -> Nat]
    BY <1>4 DEF Warehouses
  <2>2. \A p \in Products : SumUpTo(total[p], NWarehouses) \in Nat
    BY <2>1, SumNat
  <2>3. stock = [p \in Products |-> SumUpTo(total[p], NWarehouses)]
    BY DEF Init
  <2> QED BY <2>2, <2>3
<1>6. \A r \in Movers : /\ pc[r] = "start" /\ line[r] = 1 /\ locks[r] = {}
                        /\ change[r] = [b \in Batches |-> 0]
                        /\ written[r] = [p \in Products |-> Nothing]
                        /\ Len(Lines[r]) \in Nat \ {0}
  BY RequestsAssumption DEF Init
<1>7. TypeOK
  <2>1. pc \in [Movers -> Steps]
    <3>1. "start" \in Steps
      BY DEF Steps
    <3> HIDE DEF Steps
    <3> QED BY <3>1 DEF Init
  <2>2. line \in [Movers -> Nat] /\ \A r \in Movers : line[r] \in 1..Len(Lines[r])
    <3>1. line \in [Movers -> Nat]
      BY DEF Init
    <3> QED BY <1>6, <3>1
  <2>3. /\ change \in [Movers -> [Batches -> Int]]
        /\ written \in [Movers -> [Products -> Nat \cup {Nothing}]]
        /\ returned \in [Batches -> Nat] /\ raced \subseteq Batches
    BY DEF Init
  <2>4. \A r, s \in Movers : r # s => locks[r] \cap locks[s] = {}
    BY <1>6
  <2> QED BY <1>2, <1>3, <1>4, <1>5, <2>1, <2>2, <2>3, <2>4 DEF TypeOK
<1>8. Functions
  BY DEF Init, Functions
<1>9. TablesInv
  <2>1. RollupsExact
    BY DEF Init, RollupsExact
  <2>2. StockExact
    BY DEF Init, StockExact
  <2>3. ASSUME NEW b \in Batches, NEW w \in Warehouses, shelf[b][w] > 0
        PROVE  status[b] = "active"
    <3>1. SumUpTo(Opening[b], NWarehouses) > 0
      BY <1>2, <2>3, OpeningSums
    <3> QED BY <3>1 DEF Init
  <2> QED BY <2>1, <2>2, <2>3 DEF TablesInv, NothingStranded
<1>10. ReturnsFit
  <2>1. \A r \in Returns, b \in Batches : change[r][b] = 0
    BY <1>6 DEF Movers
  <2>2. \A b \in Batches : returned[b] = 0 /\ Sold[b] \in Nat
    BY StockAssumption DEF Init
  <2> QED BY <2>1, <2>2 DEF ReturnsFit
<1>11. ASSUME NEW r \in Movers PROVE RequestInv(r)
  <2>1. \A b \in Batches : change[r][b] = 0 /\ shelf[b][WarehouseOf[r]] \in Nat
    BY <1>2, <1>6, RequestsAssumption
  <2>2. ASSUME NEW p \in Products PROVE ChangeOf(r, p) = 0
    <3> DEFINE f == [b \in 1..NBatches |-> IF ProductOf[b] = p THEN change[r][b] ELSE 0]
    <3>1. \A b \in 1..NBatches : f[b] = 0
      BY <2>1 DEF Batches
    <3>2. ChangeOf(r, p) = SumUpTo(f, NBatches)
      BY DEF ChangeOf, Batches
    <3>3. f \in [1..NBatches -> Int]
      BY <3>1
    <3> HIDE DEF f
    <3> QED BY <3>1, <3>2, <3>3, SumZero
  <2>3. OwnWrites(r)
    BY <2>1 DEF OwnWrites, Seen
  <2>4. Progress(r)
    <3>1. LinesDone(r) = 0 /\ \A p : SumUpTo(Units(r, p), 0) = 0
      BY <1>6, SumEquation DEF LinesDone
    <3> QED BY <1>6, <2>2, <3>1 DEF Progress, Signed
  <2>5. NewBatches(r)
    BY <2>1 DEF NewBatches
  <2>6. SumsWritten(r)
    BY <1>6, <2>2 DEF SumsWritten
  <2> QED BY <2>3, <2>4, <2>5, <2>6 DEF RequestInv
<1> QED BY <1>7, <1>8, <1>9, <1>10, <1>11 DEF LockingInv

LEMMA StepKeeps ==
  ASSUME LockingInv, NEW r \in Movers, Step(r) \/ Crash(r) PROVE LockingInv'
<1>1. CASE QueryBatches(r)
  BY <1>1, QueryKeeps
<1>2. CASE LockNext(r)
  BY <1>2, LockNextKeeps
<1>3. CASE Allocate(r)
  BY <1>3, AllocateKeeps
<1>4. CASE RefuseSale(r) \/ RefuseReturn(r) \/ Abort(r) \/ Crash(r)
  BY <1>4, RollbackKeeps DEF RefuseSale, RefuseReturn, Abort, Crash
<1>5. CASE CheckLine(r)
  BY <1>5, CheckLineKeeps
<1>6. CASE UpdateBatch(r)
  BY <1>6, UpdateBatchKeeps
<1>7. CASE InsertBatch(r)
  BY <1>7, InsertBatchKeeps
<1>8. CASE UpdateTotal(r)
  BY <1>8, UpdateTotalKeeps
<1>9. CASE ReadSum(r)
  BY <1>9, ReadSumKeeps
<1>10. CASE WriteSum(r)
  BY <1>10, WriteSumKeeps
<1>11. CASE Commit(r)
  BY <1>11, CommitKeeps
<1> QED BY <1>1, <1>2, <1>3, <1>4, <1>5, <1>6, <1>7, <1>8, <1>9, <1>10, <1>11 DEF Step

LEMMA NextInv == LockingInv /\ [Next]_vars => LockingInv'
<1>1. LockingInv /\ Next => LockingInv'
  BY StepKeeps DEF Next
<1>2. ASSUME LockingInv, UNCHANGED vars PROVE LockingInv'
  <2>1. /\ UNCHANGED tables /\ UNCHANGED <<locks, pc, line, queue, change, written, raced>>
    BY <1>2 DEF vars, local
  <2>2. TypeOK' /\ Functions' /\ ReturnsFit'
    BY <1>2, <2>1 DEF LockingInv, TypeOK, Functions, ReturnsFit, tables
  <2>3. TablesInv'
    BY <1>2, <2>1, SameTables DEF LockingInv
  <2>4. \A r \in Movers : RequestInv(r)'
    BY <1>2, <2>1, SameRequest DEF LockingInv
  <2> QED BY <2>2, <2>3, <2>4 DEF LockingInv
<1> QED BY <1>1, <1>2

\* What a request that is under way relies on, whatever runs beside it.
THEOREM LockingInvariant == Spec => []LockingInv
BY InitInv, NextInv, PTL DEF Spec

\* TypeOK: every column and local variable holds what it can hold (no quantity is ever
\* negative, no sum that is read is), and no two transactions hold a lock on one row.
THEOREM LockingTypeCorrect == Spec => []TypeOK
<1>1. LockingInv => TypeOK
  BY DEF LockingInv
<1> QED BY <1>1, LockingInvariant, PTL

\* RollupsExact: remaining_quantity and WarehouseStock, which update themselves by F(), are
\* exact after every commit, for any requests in any interleaving.
THEOREM RollupsAlwaysExact == Spec => []RollupsExact
<1>1. LockingInv => RollupsExact
  BY DEF LockingInv, TablesInv
<1> QED BY <1>1, LockingInvariant, PTL

\* StockExact: Product.stock, which is written as a whole from a sum read one statement
\* before, is exact of every product that moves in one warehouse only.
THEOREM StockAlwaysExact == Spec => []StockExact
<1>1. LockingInv => StockExact
  BY DEF LockingInv, TablesInv
<1> QED BY <1>1, LockingInvariant, PTL

\* NothingStranded: no interleaving leaves goods on a shelf in a batch that is depleted.
THEOREM NothingEverStranded == Spec => []NothingStranded
<1>1. LockingInv => NothingStranded
  BY DEF LockingInv, TablesInv
<1> QED BY <1>1, LockingInvariant, PTL

\* ReturnsWithinSale: a line no two returns of which have overlapped is never returned more
\* often than it was sold, though the check takes no lock.
THEOREM ReturnsStayWithinSale == Spec => []ReturnsWithinSale
<1>1. LockingInv => ReturnsWithinSale
  BY DEF LockingInv, ReturnsFit, ReturnsWithinSale
<1> QED BY <1>1, LockingInvariant, PTL
-----------------------------------------------------------------------------
(***************************************************************************)
(* The stock book: every step of a request is a step of the book, or one   *)
(* that nobody sees.                                                       *)
(***************************************************************************)

\* What a request was asked for is what all its lines add up to.
LEMMA AskedOf ==
  ASSUME NEW r \in Movers, NEW p \in Products
  PROVE  /\ Asked[r][p] = Signed(r, SumUpTo(Units(r, p), Len(Lines[r])))
         /\ SumUpTo(Units(r, p), Len(Lines[r])) \in Nat
<1>1. Len(Lines[r]) \in Nat /\ Units(r, p) \in [1..Len(Lines[r]) -> Nat]
  BY RequestsAssumption DEF Units
<1>2. SumUpTo(Units(r, p), Len(Lines[r])) \in Nat
  BY <1>1, SumNat
<1>3. Asked[r][p] = IF r \in Sales THEN -SumUpTo(Units(r, p), Len(Lines[r]))
                    ELSE SumUpTo(Units(r, p), Len(Lines[r]))
  BY DEF Asked, Units
<1> QED BY <1>2, <1>3 DEF Signed

LEMMA SameSums == \A f, n : StockBook!SumUpTo(f, n) = SumUpTo(f, n)
BY DEF SumUpTo, StockBook!SumUpTo

\* The commit of a request serves it: every product changes by what was asked.
LEMMA CommitServes ==
  ASSUME LockingInv, NEW r \in Movers, Commit(r)
  PROVE  StockBook!Serve(r)
<1>1. pc[r] = "post" /\ pc' = [pc EXCEPT ![r] = "served"] /\ pc \in [Movers -> Steps]
      /\ line[r] = Len(Lines[r])
  BY DEF Commit, Goto, LockingInv, TypeOK, RequestInv, Progress
<1>2. Outcome[r] = "pending" /\ Outcome' = [Outcome EXCEPT ![r] = "served"]
  BY <1>1 DEF Outcome
<1>3. ASSUME NEW b \in Batches
      PROVE  /\ StockBook!Change(r, b) = change[r][b] /\ change[r][b] \in Int
             /\ shelf'[b][WarehouseOf[r]] >= 0
             /\ \A w \in Warehouses \ {WarehouseOf[r]} : shelf'[b][w] = shelf[b][w]
  <2>1. WarehouseOf[r] \in Warehouses
    BY CurrentLine DEF LockingInv
  <2> QED BY <2>1, CommitShelf DEF StockBook!Change
<1>4. ASSUME NEW p \in Products
      PROVE  /\ StockBook!ChangeOf(r, p) = Asked[r][p]
  <2>1. StockBook!ChangeOf(r, p) =
          SumUpTo([b \in Batches |-> IF ProductOf[b] = p THEN StockBook!Change(r, b) ELSE 0], NBatches)
    BY SameSums DEF StockBook!ChangeOf, StockBook!Batches, Batches
  <2>2. [b \in Batches |-> IF ProductOf[b] = p THEN StockBook!Change(r, b) ELSE 0]
          = [b \in Batches |-> IF ProductOf[b] = p THEN change[r][b] ELSE 0]
    BY <1>3
  <2>3. StockBook!ChangeOf(r, p) = ChangeOf(r, p)
    BY <2>1, <2>2 DEF ChangeOf
  <2>4. ChangeOf(r, p) = Signed(r, SumUpTo(Units(r, p), Len(Lines[r])))
    BY <1>1 DEF LockingInv, RequestInv, Progress, Ended, LinesDone
  <2> QED BY <2>3, <2>4, AskedOf
<1>5. ASSUME NEW b \in Batches
      PROVE  StockBook!Change(r, b) * Asked[r][ProductOf[b]] >= 0
  <2> DEFINE n == SumUpTo(Units(r, ProductOf[b]), Len(Lines[r]))
  <2>1. n \in Nat /\ Asked[r][ProductOf[b]] = Signed(r, n)
    BY AskedOf, StockAssumption
  <2>2. IF r \in Sales THEN change[r][b] <= 0 ELSE change[r][b] >= 0
    BY DEF LockingInv, RequestInv, OwnWrites
  <2> HIDE DEF n
  <2>3. \A x, y \in Int : x >= 0 /\ y >= 0 => x * y >= 0
    OBVIOUS
  <2>4. \A x, y \in Int : x <= 0 /\ y <= 0 => x * y >= 0
    OBVIOUS
  <2>5. change[r][b] * Signed(r, n) >= 0
    <3>1. CASE r \in Sales
      <4>1. Signed(r, n) \in Int /\ Signed(r, n) <= 0 /\ change[r][b] <= 0
        BY <2>1, <2>2, <3>1 DEF Signed
      <4> QED BY <1>3, <2>4, <4>1
    <3>2. CASE r \notin Sales
      <4>1. Signed(r, n) \in Int /\ Signed(r, n) >= 0 /\ change[r][b] >= 0
        BY <2>1, <2>2, <3>2 DEF Signed
      <4> QED BY <1>3, <2>3, <4>1
    <3> QED BY <3>1, <3>2
  <2> QED BY <1>3, <2>1, <2>5
<1> QED BY <1>2, <1>3, <1>4, <1>5
    DEF StockBook!Serve, StockBook!Products, Products, StockBook!Batches, Batches,
        StockBook!Warehouses, Warehouses

\* A request that is rolled back is refused, and nothing has happened.
LEMMA RollbackRefuses ==
  ASSUME LockingInv, NEW r \in Movers, Rollback(r), ~Ended(r)
  PROVE  StockBook!Refuse(r)
<1>1. pc' = [pc EXCEPT ![r] = "refused"] /\ pc \in [Movers -> Steps] /\ shelf' = shelf
  BY DEF Rollback, Goto, LockingInv, TypeOK, tables
<1>2. Outcome[r] = "pending" /\ Outcome' = [Outcome EXCEPT ![r] = "refused"]
  BY <1>1 DEF Outcome, Ended
<1> QED BY <1>1, <1>2 DEF StockBook!Refuse

\* The other steps are not seen.
LEMMA OthersUnseen ==
  ASSUME LockingInv, NEW r \in Movers, UNCHANGED tables, ~Ended(r),
         NEW step \in Steps \ {"served", "refused"}, Goto(r, step)
  PROVE  UNCHANGED <<shelf, Outcome>>
<1>1. pc' = [pc EXCEPT ![r] = step] /\ pc \in [Movers -> Steps] /\ shelf' = shelf
  BY DEF Goto, LockingInv, TypeOK, tables
<1>2. Outcome' = Outcome
  BY <1>1 DEF Outcome, Ended
<1> QED BY <1>1, <1>2

LEMMA StepOfBook ==
  ASSUME LockingInv, NEW r \in Movers, Step(r) \/ Crash(r)
  PROVE  StockBook!Serve(r) \/ StockBook!Refuse(r) \/ UNCHANGED <<shelf, Outcome>>
<1>1. CASE QueryBatches(r) \/ CheckLine(r) \/ InsertBatch(r) \/ Allocate(r) \/ ReadSum(r)
  <2>1. ~Ended(r) /\ UNCHANGED tables /\ \E step \in Steps \ {"served", "refused"} : Goto(r, step)
    <3> HIDE DEF Goto
    <3> QED BY <1>1 DEF QueryBatches, CheckLine, InsertBatch, Allocate, ReadSum, Ended, Steps
  <2> QED BY <2>1, OthersUnseen
<1>2. CASE UpdateBatch(r) \/ UpdateTotal(r) \/ WriteSum(r)
  <2>1. ~Ended(r) /\ UNCHANGED tables
    BY <1>2 DEF UpdateBatch, UpdateTotal, WriteSum, Ended
  <2>2. \E step \in Steps \ {"served", "refused"} : Goto(r, step)
    <3>1. {"shelf", "total", "sum", "start", "post"} \subseteq Steps \ {"served", "refused"}
      BY DEF Steps
    <3> HIDE DEF Goto, Steps
    <3> QED BY <1>2, <3>1 DEF UpdateBatch, UpdateTotal, WriteSum
  <2> QED BY <2>1, <2>2, OthersUnseen
<1>3. CASE LockNext(r)
  BY <1>3 DEF LockNext, Outcome, tables
<1>4. CASE RefuseSale(r) \/ RefuseReturn(r) \/ Abort(r) \/ Crash(r)
  <2>1. Rollback(r) /\ ~Ended(r)
    <3> HIDE DEF Rollback, Wanted
    <3> QED BY <1>4 DEF RefuseSale, RefuseReturn, Abort, Crash, WaitsFor, Locking, Ended
  <2> QED BY <2>1, RollbackRefuses
<1>5. CASE Commit(r)
  BY <1>5, CommitServes
<1> QED BY <1>1, <1>2, <1>3, <1>4, <1>5 DEF Step

\* Requests that move goods at the same time behave as if each took effect at one moment
\* and as a whole, whatever statements they consist of: StockBook, without its liveness.
THEOREM LockingKeepsBook == Spec => StockBook!BookSafety
<1>1. Init => StockBook!BookInit
  BY DEF Init, StockBook!BookInit, Outcome
<1>2. LockingInv /\ [Next]_vars => [StockBook!BookNext]_<<shelf, Outcome>>
  <2>1. LockingInv /\ Next => [StockBook!BookNext]_<<shelf, Outcome>>
    BY StepOfBook DEF Next, StockBook!BookNext
  <2>2. UNCHANGED vars => UNCHANGED <<shelf, Outcome>>
    BY DEF vars, tables, Outcome
  <2> QED BY <2>1, <2>2
<1> QED BY <1>1, <1>2, LockingInvariant, PTL DEF Spec, StockBook!BookSafety, StockBook!bookVars

\* BookKept, up to what TLC checks: all that is left of it is that every request is answered.
THEOREM BookKeptWhenAnswered == Spec /\ <>StockBook!Answered => BookKept
BY LockingKeepsBook, PTL DEF BookKept, StockBook!Book

=============================================================================
