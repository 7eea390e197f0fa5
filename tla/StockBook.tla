----------------------------- MODULE StockBook -----------------------------
(***************************************************************************)
(* What the stock services promise to requests that run at the same time:  *)
(* a request takes effect at one moment and as a whole, moves what it was  *)
(* asked to move and nothing else, never takes what is not there, or has   *)
(* no effect at all; and it is answered.  Nothing is said of how: the rows *)
(* they lock and the statements they consist of are in StockLocking, which *)
(* is shown to implement this.                                             *)
(***************************************************************************)
EXTENDS Integers, Sums

CONSTANTS
  NProducts, NBatches, NWarehouses,
  Requests,
  ProductOf,    \* product of a batch
  WarehouseOf,  \* warehouse a request acts on
  Asked,        \* Asked[r][p]: units of product p that request r brings in, or takes if negative
  Opening       \* what the shelf holds at first

Products == 1..NProducts
Batches == 1..NBatches
Warehouses == 1..NWarehouses

VARIABLES
  shelf,    \* BatchStock.quantity
  outcome   \* what a request has been told

bookVars == <<shelf, outcome>>

BookInit ==
  /\ shelf = Opening
  /\ outcome = [r \in Requests |-> "pending"]

\* How much the row of batch b in the warehouse of r changes in a step.
Change(r, b) == shelf'[b][WarehouseOf[r]] - shelf[b][WarehouseOf[r]]

ChangeOf(r, p) ==
  SumUpTo([b \in Batches |-> IF ProductOf[b] = p THEN Change(r, b) ELSE 0], NBatches)

\* The request is served: every product changes by what was asked, all batches one way.
Serve(r) ==
  /\ outcome[r] = "pending"
  /\ outcome' = [outcome EXCEPT ![r] = "served"]
  /\ \A p \in Products : ChangeOf(r, p) = Asked[r][p]
  /\ \A b \in Batches :
       /\ Change(r, b) * Asked[r][ProductOf[b]] >= 0
       /\ shelf'[b][WarehouseOf[r]] >= 0
       /\ \A w \in Warehouses \ {WarehouseOf[r]} : shelf'[b][w] = shelf[b][w]

\* The request is refused, or its worker is lost: nothing has happened.
Refuse(r) ==
  /\ outcome[r] = "pending"
  /\ outcome' = [outcome EXCEPT ![r] = "refused"]
  /\ UNCHANGED shelf

BookNext == \E r \in Requests : Serve(r) \/ Refuse(r)

Answered == \A r \in Requests : outcome[r] # "pending"

BookSafety == BookInit /\ [][BookNext]_bookVars

Book == BookSafety /\ <>Answered

=============================================================================
