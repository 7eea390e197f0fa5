----------------------------- MODULE BackOffice -----------------------------
(***************************************************************************)
(* The desks of the store at work at the same time: parties and their      *)
(* accounts, an order and its purchases, product forms, and the alerts     *)
(* that everybody's changes turn on and off.  A purchase raises stock and  *)
(* what is owed to the supplier, a credit sale lowers stock and raises     *)
(* what the customer owes.                                                 *)
(***************************************************************************)
EXTENDS PurchaseOrders, Notifications

CONSTANTS
  Worths,       \* totals of purchases
  MaxTasks      \* bound on the tasks begun

ASSUME WorthsAssumption == Worths \subseteq Int

VARIABLES tasks   \* tasks begun

Clerks == Requests \ Buyers

backOfficeVars == <<partyVars, catalogueVars, orderVars, alertVars, tasks>>

Begin == tasks < MaxTasks /\ tasks' = tasks + 1

\* Fault: the shelf is not asked.
SellUncovered(q, p, amount, day) ==
  /\ copy[q].of \in Customers
  /\ PostDocument(q, Increase(copy[q].of), amount, day, "sale")
  /\ onShelf' = [onShelf EXCEPT ![p] = @ - 1]
  /\ Recompute({p})
  /\ UNCHANGED <<expiry, draft>>

\* create_sale of one unit for the customer that was loaded, on credit.
SellOnCredit(q, p, amount, day) ==
  /\ copy[q].of \in Customers
  /\ onShelf[p] >= 1 /\ ProductFree(p) /\ GoodsFree
  /\ PostDocument(q, Increase(copy[q].of), amount, day, "sale")
  /\ onShelf' = [onShelf EXCEPT ![p] = @ - 1]
  /\ Recompute({p})
  /\ UNCHANGED <<expiry, draft>>

PartyTask ==
  \/ \E p \in Parties, o \in Amounts \cup {0} : CreateParty(p, o) /\ UNCHANGED tasks
  \/ \E p \in Parties : QuickCreate(p) /\ UNCHANGED tasks
  \/ Begin /\ \E p \in Parties : ~PartyKept(p) /\ DeleteParty(p)
  \/ Begin /\ \E q \in Clerks, p \in Parties : Load(q, p)
  \/ /\ \E q \in Clerks :
          \/ RowFree(copy[q].of) /\ SaveForm(q)
          \/ /\ AccountFree(copy[q].of)
             /\ \/ \E n \in Amounts, d \in Days : Pay(q, n, d)
                \/ \E n \in Amounts : AdjustBalance(q, n)
          \/ RefuseDocument(q)
     /\ UNCHANGED tasks

SaleTask ==
  /\ \E q \in Clerks, p \in Products, n \in Amounts, d \in Days : SellOnCredit(q, p, n, d)
  /\ UNCHANGED tasks

ProductTask ==
  \/ Begin /\ \E e \in Editors, p \in Products : LoadProduct(e, p)
  \/ /\ \E e \in Editors, date \in {"none", "far"} :
          ProductFree(draft[e].of) /\ SaveProduct(e, date)
     /\ UNCHANGED tasks
  \/ Begin /\ MonthPasses

OrderTask ==
  \/ CreateOrder /\ UNCHANGED tasks
  \/ Begin /\ \E b \in Buyers : OpenForm(b)
  \/ /\ \E b \in Buyers :
          \/ \E n \in Worths : Receive(b, n)
          \/ Post(b) \/ RefusePurchase(b) \/ CountOrder(b)
          \/ \E date \in {"none", "far"} : CommitPurchase(b, date)
     /\ UNCHANGED tasks

Next ==
  \/ PartyTask /\ UNCHANGED <<catalogueVars, orderVars, viewVars>> /\ Overtaken
  \/ SaleTask /\ UNCHANGED <<orderVars, viewVars>> /\ Overtaken
  \/ ProductTask /\ UNCHANGED <<partyVars, orderVars, viewVars>> /\ Overtaken
  \/ OrderTask /\ UNCHANGED viewVars /\ Overtaken
  \/ /\ \/ Begin /\ \E v \in Viewers : StartRefresh(v)
        \/ /\ \E v \in Viewers : Refresh(v)
           /\ UNCHANGED tasks
        \/ Begin /\ \E a \in Alerts : MarkRead(a)
        \/ Begin /\ MarkAllRead
     /\ UNCHANGED <<partyVars, catalogueVars, orderVars>>

Init == PartyInit /\ CatalogueInit /\ OrderInit /\ AlertsInit /\ tasks = 0

Spec == Init /\ [][Next]_backOfficeVars

TypeOK == PartyTypeOK /\ CatalogueTypeOK /\ OrderTypeOK /\ AlertsTypeOK

=============================================================================
