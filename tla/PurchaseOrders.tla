--------------------------- MODULE PurchaseOrders ---------------------------
(***************************************************************************)
(* A purchase order and the purchases that fulfil it.  Buyers open the     *)
(* purchase form from the order, which fills in what is still pending, and *)
(* send it in when they like; each purchase is a database transaction      *)
(* whose rows others see at its end.  Two of them meet at the rows of the  *)
(* products they receive, and at the inventory account, which a purchase   *)
(* of no value does not post to.                                           *)
(***************************************************************************)
EXTENDS PartyAccounts, Catalogue, FiniteSets

CONSTANTS
  Buyers,        \* those of Requests that are purchase forms
  NLines,        \* order lines
  LineProduct,   \* PurchaseOrderItem.product
  Ordered,       \* PurchaseOrderItem.quantity
  OrderedFrom    \* PurchaseOrder.supplier

Lines == 1..NLines

ASSUME OrderAssumption ==
  /\ Buyers \subseteq Requests
  /\ NLines \in Nat \ {0} /\ LineProduct \in [Lines -> Products] /\ Ordered \in [Lines -> Nat \ {0}]
  /\ OrderedFrom \in Suppliers

VARIABLES
  orderStatus,   \* PurchaseOrder.status
  received,      \* quantity of the PurchaseItem rows of a line, cancelled purchases included
  desk,          \* where a buyer is
  cart,          \* quantity per line in a buyer's form
  worth,         \* Purchase.total of it
  counted,       \* the status refresh_status has worked out
  given          \* a purchase of no value has fulfilled the order (history)

orderVars == <<orderStatus, received, desk, cart, worth, counted, given>>

Empty == [l \in Lines |-> 0]

InTransaction(b) == desk[b] \in {"received", "posted", "counted"}

\* Rows a purchase has locked: its products, and the inventory account if it has posted.
LocksProduct(b, p) == InTransaction(b) /\ \E l \in Lines : cart[b][l] > 0 /\ LineProduct[l] = p
LocksGoods(b) == desk[b] \in {"posted", "counted"} /\ worth[b] # 0

ProductFree(p) == \A b \in Buyers : ~LocksProduct(b, p)
GoodsFree == \A b \in Buyers : ~LocksGoods(b)

\* A purchase keeps the supplier it names from being deleted; once it has posted it has
\* locked the supplier's account, and the supplier's row if it is linking it.
PartyKept(p) == \E b \in Buyers : InTransaction(b) /\ copy[b].of = p
AccountFree(p) == \A b \in Buyers : ~(LocksGoods(b) /\ copy[b].of = p)
RowFree(p) == \A b \in Buyers : ~(LocksGoods(b) /\ copy[b].of = p /\ ~copy[b].linked)

-----------------------------------------------------------------------------

\* create_purchase_order: nothing but the order.
CreateOrder ==
  /\ orderStatus = "none" /\ party[OrderedFrom] = "present"
  /\ orderStatus' = "draft"
  /\ used' = [used EXCEPT ![OrderedFrom] = TRUE]
  /\ UNCHANGED <<received, desk, cart, worth, counted, given>>
  /\ UNCHANGED <<party, linked, account, balance, entries, copy, disturbed, catalogueVars>>

\* PurchaseOrderItem.pending_quantity.
Pending(l) == Ordered[l] - received[l]

\* purchase_create?from_po=...: the pending lines, of which the buyer keeps some, with the
\* quantities filled in.  (The form lets these be edited; no more or less than what is
\* pending is received here.)
OpenForm(b) ==
  /\ desk[b] = "away" /\ orderStatus # "none"
  /\ \E kept \in SUBSET {l \in Lines : Pending(l) > 0} :
       /\ kept # {}
       /\ cart' = [cart EXCEPT ![b] = [l \in Lines |-> IF l \in kept THEN Pending(l) ELSE 0]]
  /\ desk' = [desk EXCEPT ![b] = "form"]
  /\ UNCHANGED <<orderStatus, received, worth, counted, given, partyVars, catalogueVars>>

\* The form is sent in and valid, the transaction begins, and receive_stock has run for every
\* line: the supplier has been loaded, the products' rows are locked.
Receive(b, total) ==
  /\ desk[b] = "form" /\ party[OrderedFrom] = "present"
  /\ \A l \in Lines : cart[b][l] > 0 => ProductFree(LineProduct[l])
  /\ copy' = [copy EXCEPT ![b] = [of |-> OrderedFrom, linked |-> linked[OrderedFrom]]]
  /\ worth' = [worth EXCEPT ![b] = total]
  /\ desk' = [desk EXCEPT ![b] = "received"]
  /\ UNCHANGED <<orderStatus, received, cart, counted, given, accountVars, catalogueVars>>

\* Fault: the posting is moved behind the refresh of the order, so nobody waits here.
PostLast(b) ==
  /\ desk[b] = "received"
  /\ desk' = [desk EXCEPT ![b] = "posted"]
  /\ UNCHANGED <<orderStatus, received, cart, worth, counted, given, partyVars, catalogueVars>>

\* The posting, which waits for the inventory account; without a value there is none.
Post(b) ==
  /\ desk[b] = "received"
  /\ worth[b] # 0 => GoodsFree /\ CanPost(b)
  /\ desk' = [desk EXCEPT ![b] = "posted"]
  /\ UNCHANGED <<orderStatus, received, cart, worth, counted, given, partyVars, catalogueVars>>

\* Another purchase has created the supplier's account meanwhile: IntegrityError.
RefusePurchase(b) ==
  /\ desk[b] = "received" /\ worth[b] # 0 /\ GoodsFree /\ ~CanPost(b)
  /\ desk' = [desk EXCEPT ![b] = "away"]
  /\ cart' = [cart EXCEPT ![b] = Empty]
  /\ worth' = [worth EXCEPT ![b] = 0]
  /\ Forget(b)
  /\ UNCHANGED <<orderStatus, received, counted, given, accountVars, catalogueVars>>

\* PurchaseOrderItem.received_quantity, as the transaction of b sees it.
ReceivedBy(b, l) == received[l] + cart[b][l]

\* refresh_status: a status is only ever worked out from quantities.
StatusOf(quantity, before) ==
  IF \A l \in Lines : Ordered[l] <= quantity[l] THEN "received"
  ELSE IF \E l \in Lines : quantity[l] > 0 THEN "partially_received"
  ELSE before

\* Its reads; its write waits for another purchase that has written the order.
CountOrder(b) ==
  /\ desk[b] = "posted"
  /\ counted' = [counted EXCEPT ![b] =
       StatusOf([l \in Lines |-> ReceivedBy(b, l)], orderStatus)]
  /\ desk' = [desk EXCEPT ![b] = "counted"]
  /\ UNCHANGED <<orderStatus, received, cart, worth, given, partyVars, catalogueVars>>

Arrived(b, p) ==
  SumUpTo([l \in Lines |-> IF LineProduct[l] = p THEN cart[b][l] ELSE 0], NLines)

\* The end of create_purchase: everything it has written is there at once.  The expiry date
\* of the last purchase becomes the product's.
CommitPurchase(b, date) ==
  LET arriving == {p \in Products : Arrived(b, p) > 0} IN
  /\ desk[b] = "counted"
  /\ orderStatus' = counted[b]
  /\ received' = [l \in Lines |-> ReceivedBy(b, l)]
  /\ onShelf' = [p \in Products |-> onShelf[p] + Arrived(b, p)]
  /\ Recompute(arriving)
  /\ expiry' = [p \in Products |-> IF p \in arriving /\ date # "none" THEN date ELSE expiry[p]]
  /\ given' = (given \/ worth[b] = 0)
  /\ IF worth[b] = 0
     THEN UNCHANGED <<linked, account, balance, entries>>
     ELSE /\ Linked(b)
          /\ PostEntry(OrderedFrom, Increase(OrderedFrom), worth[b], NDays, "purchase")
  /\ used' = [used EXCEPT ![OrderedFrom] = TRUE]
  /\ desk' = [desk EXCEPT ![b] = "away"]
  /\ cart' = [cart EXCEPT ![b] = Empty]
  /\ worth' = [worth EXCEPT ![b] = 0]
  /\ counted' = [counted EXCEPT ![b] = "none"]
  /\ Forget(b)
  /\ UNCHANGED <<party, disturbed, draft>>

OrderInit ==
  /\ orderStatus = "none"
  /\ received = Empty
  /\ desk = [b \in Buyers |-> "away"]
  /\ cart = [b \in Buyers |-> Empty]
  /\ worth = [b \in Buyers |-> 0]
  /\ counted = [b \in Buyers |-> "none"]
  /\ given = FALSE

Statuses == {"none", "draft", "partially_received", "received"}

OrderTypeOK ==
  /\ orderStatus \in Statuses
  /\ received \in [Lines -> Nat]
  /\ desk \in [Buyers -> {"away", "form", "received", "posted", "counted"}]
  /\ cart \in [Buyers -> [Lines -> Nat]]
  /\ worth \in [Buyers -> Int]
  /\ counted \in [Buyers -> Statuses]
  /\ given \in BOOLEAN

\* The status of an order is what has been received against it, although each purchase works
\* it out before it can see what another is receiving: the lock on the inventory account,
\* taken before, lets only one of them be between its reads and its commit.  A purchase that
\* posts nothing takes no such lock.
OrderStatusCurrent ==
  ~given => orderStatus = StatusOf(received, IF orderStatus = "none" THEN "none" ELSE "draft")

=============================================================================
