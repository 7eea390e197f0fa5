-------------------------- MODULE BackOfficeProofs --------------------------
(***************************************************************************)
(* Proofs about BackOffice: the types, the stock shown with a product, the *)
(* accounts of the parties and their statements, the status of an order    *)
(* and the alerts, with any number of requests overlapping in any way.     *)
(***************************************************************************)
EXTENDS BackOffice, SumsProofs, SequenceTheorems

USE PartiesAssumption, AmountsAssumption, DaysAssumption, ProductsAssumption,
    StockAssumption, OrderAssumption, WorthsAssumption

-----------------------------------------------------------------------------
(***************************************************************************)
(* The types of parties and their accounts.                                *)
(***************************************************************************)

LEMMA LastDay == NDays \in Days
BY DEF Days

LEMMA SidesOfParty ==
  ASSUME NEW p
  PROVE  /\ Increase(p) \in {"debit", "credit"} /\ Decrease(p) \in {"debit", "credit"}
BY DEF Increase, Decrease

LEMMA PostEntryTypes ==
  ASSUME PartyTypeOK, NEW p \in Parties, NEW side \in {"debit", "credit"},
         NEW amount \in Int \ {0}, NEW day \in Days, NEW memo \in Kinds,
         PostEntry(p, side, amount, day, memo)
  PROVE  entries' \in [Parties -> Seq(Entry)] /\ balance' \in [Parties -> Int]
<1> DEFINE e == [day |-> day, side |-> side, amount |-> amount, memo |-> memo]
<1>1. e \in Entry
  BY DEF Entry
<1>2. entries' = [entries EXCEPT ![p] = Append(entries[p], e)]
  BY DEF PostEntry
<1>3. entries \in [Parties -> Seq(Entry)]
  BY DEF PartyTypeOK
<1>4. balance' = [balance EXCEPT ![p] = balance[p] + BalanceDelta(p, side, amount)]
  BY DEF PostEntry
<1>5. BalanceDelta(p, side, amount) \in Int
  BY DEF BalanceDelta
<1>6. balance' \in [Parties -> Int]
  BY <1>4, <1>5 DEF PartyTypeOK
<1> HIDE DEF e
<1>7. Append(entries[p], e) \in Seq(Entry)
  BY <1>1, <1>3, AppendProperties
<1>8. entries' \in [Parties -> Seq(Entry)]
  BY <1>2, <1>3, <1>7
<1> QED BY <1>6, <1>8

LEMMA PostSignedTypes ==
  ASSUME PartyTypeOK, NEW p \in Parties, NEW amount \in Int \ {0}, NEW memo \in Kinds,
         PostSigned(p, amount, memo)
  PROVE  entries' \in [Parties -> Seq(Entry)] /\ balance' \in [Parties -> Int]
<1>1. CASE amount > 0
  <2>1. PostEntry(p, Increase(p), amount, NDays, memo)
    BY <1>1 DEF PostSigned
  <2>2. Increase(p) \in {"debit", "credit"} /\ NDays \in Days
    BY LastDay, SidesOfParty
  <2> QED BY <2>1, <2>2, PostEntryTypes
<1>2. CASE ~ (amount > 0)
  <2>1. PostEntry(p, Decrease(p), -amount, NDays, memo) /\ -amount \in Int \ {0}
    BY <1>2 DEF PostSigned
  <2>2. Decrease(p) \in {"debit", "credit"} /\ NDays \in Days
    BY LastDay, SidesOfParty
  <2> QED BY <2>1, <2>2, PostEntryTypes
<1> QED BY <1>1, <1>2

LEMMA LinkedTypes ==
  ASSUME PartyTypeOK, NEW q \in Requests, Linked(q)
  PROVE  account' \in [Parties -> BOOLEAN] /\ linked' \in [Parties -> BOOLEAN]
BY DEF Linked, PartyTypeOK

LEMMA ForgetTypes ==
  ASSUME PartyTypeOK, NEW q \in Requests, Forget(q)
  PROVE  copy' \in [Requests -> [of : Parties \cup {NoParty}, linked : BOOLEAN]]
BY DEF Forget, NoCopy, PartyTypeOK

\* A sale, or a payment on account.
LEMMA PostDocumentTypes ==
  ASSUME PartyTypeOK, NEW q \in Requests, NEW side \in {"debit", "credit"}, NEW amount \in Int,
         NEW day \in Days, NEW memo \in Kinds, PostDocument(q, side, amount, day, memo)
  PROVE  PartyTypeOK'
<1> DEFINE p == copy[q].of
<1>1. /\ p # NoParty /\ amount > 0 /\ Linked(q) /\ PostEntry(p, side, amount, day, memo)
      /\ used' = [used EXCEPT ![p] = TRUE] /\ Forget(q) /\ UNCHANGED <<party, disturbed>>
  BY DEF PostDocument
<1>2. p \in Parties /\ amount \in Int \ {0}
  BY <1>1 DEF PartyTypeOK
<1> HIDE DEF p
<1>3. used' \in [Parties -> BOOLEAN]
  BY <1>1 DEF PartyTypeOK
<1> QED
  BY <1>1, <1>2, <1>3, PostEntryTypes, LinkedTypes, ForgetTypes DEF PartyTypeOK

LEMMA PartyTaskTypes == ASSUME PartyTypeOK, PartyTask PROVE PartyTypeOK'
<1> DEFINE E == [Parties -> Seq(Entry)]
<1>1. ASSUME NEW p \in Parties, NEW o \in Amounts \cup {0}, CreateParty(p, o) PROVE PartyTypeOK'
  <2>1. entries' \in E /\ balance' \in [Parties -> Int]
    <3>1. CASE o = 0
      BY <1>1, <3>1 DEF CreateParty, PartyTypeOK
    <3>2. CASE o # 0
      <4>1. PostSigned(p, o, "opening") /\ o \in Int \ {0} /\ "opening" \in Kinds
        BY <1>1, <3>2 DEF CreateParty, Kinds
      <4> QED BY <4>1, PostSignedTypes
    <3> QED BY <3>1, <3>2
  <2> QED BY <1>1, <2>1 DEF CreateParty, PartyTypeOK
<1>2. ASSUME NEW p \in Parties, QuickCreate(p) PROVE PartyTypeOK'
  BY <1>2 DEF QuickCreate, PartyTypeOK
<1>3. ASSUME NEW p \in Parties, DeleteParty(p) PROVE PartyTypeOK'
  BY <1>3 DEF DeleteParty, PartyTypeOK
<1>4. ASSUME NEW q \in Clerks, NEW p \in Parties, Load(q, p) PROVE PartyTypeOK'
  BY <1>4 DEF Load, PartyTypeOK, Clerks, accountVars
<1>5. ASSUME NEW q \in Clerks, SaveForm(q) PROVE PartyTypeOK'
  <2>1. q \in Requests /\ copy[q].of \in Parties /\ copy[q].linked \in BOOLEAN
    BY <1>5 DEF SaveForm, PartyTypeOK, Clerks
  <2>2. Forget(q)
    BY <1>5 DEF SaveForm
  <2> QED BY <1>5, <2>1, <2>2, ForgetTypes DEF SaveForm, PartyTypeOK
<1>6. ASSUME NEW q \in Clerks, NEW n \in Amounts, NEW d \in Days, Pay(q, n, d) PROVE PartyTypeOK'
  <2>1. "payment" \in Kinds /\ q \in Requests /\ n \in Int
    BY DEF Kinds, Clerks
  <2> QED BY <1>6, <2>1, PostDocumentTypes, SidesOfParty DEF Pay
<1>7. ASSUME NEW q \in Clerks, NEW n \in Amounts, AdjustBalance(q, n) PROVE PartyTypeOK'
  <2>1. q \in Requests /\ copy[q].of \in Parties /\ n \in Int \ {0} /\ "adjustment" \in Kinds
    BY <1>7 DEF AdjustBalance, PartyTypeOK, Clerks, Kinds
  <2>2. PostSigned(copy[q].of, n, "adjustment") /\ Forget(q)
    BY <1>7 DEF AdjustBalance
  <2>3. entries' \in E /\ balance' \in [Parties -> Int]
    BY <2>1, <2>2, PostSignedTypes
  <2> QED BY <1>7, <2>1, <2>2, <2>3, ForgetTypes DEF AdjustBalance, PartyTypeOK
<1>8. ASSUME NEW q \in Clerks, RefuseDocument(q) PROVE PartyTypeOK'
  <2>1. q \in Requests /\ Forget(q)
    BY <1>8 DEF RefuseDocument, Clerks
  <2> QED BY <1>8, <2>1, ForgetTypes DEF RefuseDocument, accountVars, PartyTypeOK
<1> QED BY <1>1, <1>2, <1>3, <1>4, <1>5, <1>6, <1>7, <1>8 DEF PartyTask

-----------------------------------------------------------------------------
(***************************************************************************)
(* The types of products and orders.                                       *)
(***************************************************************************)

LEMMA SaleTaskTypes ==
  ASSUME PartyTypeOK, CatalogueTypeOK, SaleTask
  PROVE  PartyTypeOK' /\ CatalogueTypeOK'
<1>1. PICK q \in Clerks, p \in Products, n \in Amounts, d \in Days : SellOnCredit(q, p, n, d)
  BY DEF SaleTask
<1>2. "sale" \in Kinds /\ q \in Requests /\ n \in Int
  BY DEF Kinds, Clerks
<1>3. PartyTypeOK'
  BY <1>1, <1>2, PostDocumentTypes, SidesOfParty DEF SellOnCredit
<1>4. onShelf' \in [Products -> Nat]
  BY <1>1 DEF SellOnCredit, CatalogueTypeOK
<1>5. stock' \in [Products -> Nat] /\ resaved' \subseteq Products
  BY <1>1, <1>4 DEF SellOnCredit, Recompute, CatalogueTypeOK
<1> QED BY <1>1, <1>3, <1>4, <1>5 DEF SellOnCredit, CatalogueTypeOK

LEMMA ProductTaskTypes == ASSUME CatalogueTypeOK, ProductTask PROVE CatalogueTypeOK'
<1>1. ASSUME NEW e \in Editors, NEW p \in Products, LoadProduct(e, p) PROVE CatalogueTypeOK'
  BY <1>1 DEF LoadProduct, shelfVars, CatalogueTypeOK
<1>2. ASSUME NEW e \in Editors, NEW date \in {"none", "far"}, SaveProduct(e, date)
      PROVE  CatalogueTypeOK'
  <2>1. draft[e].of \in Products /\ draft[e].stock \in Nat
    BY <1>2 DEF SaveProduct, CatalogueTypeOK
  <2> QED BY <1>2, <2>1 DEF SaveProduct, CatalogueTypeOK, NoDraft
<1>3. CASE MonthPasses
  BY <1>3 DEF MonthPasses, CatalogueTypeOK
<1> QED BY <1>1, <1>2, <1>3 DEF ProductTask

LEMMA ArrivedNat ==
  ASSUME OrderTypeOK, NEW b \in Buyers, NEW p \in Products
  PROVE  Arrived(b, p) \in Nat
<1> DEFINE f == [l \in Lines |-> IF LineProduct[l] = p THEN cart[b][l] ELSE 0]
<1>1. f \in [1..NLines -> Nat]
  BY DEF OrderTypeOK, Lines
<1> HIDE DEF f
<1>2. SumUpTo(f, NLines) \in Nat
  BY <1>1, SumNat
<1> QED BY <1>2 DEF Arrived, f

LEMMA StatusOfType ==
  ASSUME NEW quantity, NEW before \in Statuses
  PROVE  StatusOf(quantity, before) \in Statuses
BY DEF StatusOf, Statuses

LEMMA OrderTaskTypes ==
  ASSUME PartyTypeOK, CatalogueTypeOK, OrderTypeOK, OrderTask
  PROVE  PartyTypeOK' /\ CatalogueTypeOK' /\ OrderTypeOK'
<1>1. CASE CreateOrder
  <2>1. PartyTypeOK'
    BY <1>1 DEF CreateOrder, PartyTypeOK, Parties
  <2>2. CatalogueTypeOK'
    BY <1>1 DEF CreateOrder, CatalogueTypeOK, catalogueVars, shelfVars
  <2>3. OrderTypeOK'
    BY <1>1 DEF CreateOrder, OrderTypeOK, Statuses
  <2> QED BY <2>1, <2>2, <2>3
<1>2. ASSUME NEW b \in Buyers, OpenForm(b) \/ Post(b) \/ CountOrder(b)
      PROVE  PartyTypeOK' /\ CatalogueTypeOK' /\ OrderTypeOK'
  <2>1. PartyTypeOK'
    BY <1>2 DEF OpenForm, Post, CountOrder, PartyTypeOK, partyVars, accountVars
  <2>2. CatalogueTypeOK'
    BY <1>2 DEF OpenForm, Post, CountOrder, CatalogueTypeOK, catalogueVars, shelfVars
  <2>3. CASE OpenForm(b)
    <3>1. PICK kept \in SUBSET {l \in Lines : Pending(l) > 0} :
            cart' = [cart EXCEPT ![b] = [l \in Lines |-> IF l \in kept THEN Pending(l) ELSE 0]]
      BY <2>3 DEF OpenForm
    <3>2. [l \in Lines |-> IF l \in kept THEN Pending(l) ELSE 0] \in [Lines -> Nat]
      BY DEF Pending, OrderTypeOK
    <3>3. cart' \in [Buyers -> [Lines -> Nat]]
      BY <3>1, <3>2 DEF OrderTypeOK
    <3> QED BY <2>1, <2>2, <2>3, <3>3 DEF OpenForm, OrderTypeOK
  <2>4. CASE Post(b)
    BY <2>1, <2>2, <2>4 DEF Post, OrderTypeOK
  <2>5. CASE CountOrder(b)
    <3>1. StatusOf([l \in Lines |-> ReceivedBy(b, l)], orderStatus) \in Statuses
      BY StatusOfType DEF OrderTypeOK
    <3> QED BY <2>1, <2>2, <2>5, <3>1 DEF CountOrder, OrderTypeOK
  <2> QED BY <1>2, <2>3, <2>4, <2>5
<1>3. ASSUME NEW b \in Buyers, NEW n \in Worths, Receive(b, n)
      PROVE  PartyTypeOK' /\ CatalogueTypeOK' /\ OrderTypeOK'
  <2>1. PartyTypeOK'
    <3>1. OrderedFrom \in Parties /\ b \in Requests
      BY DEF Parties
    <3>2. [of |-> OrderedFrom, linked |-> linked[OrderedFrom]]
             \in [of : Parties \cup {NoParty}, linked : BOOLEAN]
      BY <3>1 DEF PartyTypeOK
    <3> QED BY <1>3, <3>1, <3>2 DEF Receive, PartyTypeOK, accountVars
  <2>2. CatalogueTypeOK'
    BY <1>3 DEF Receive, CatalogueTypeOK, catalogueVars, shelfVars
  <2>3. OrderTypeOK'
    BY <1>3 DEF Receive, OrderTypeOK
  <2> QED BY <2>1, <2>2, <2>3
<1>4. ASSUME NEW b \in Buyers, RefusePurchase(b)
      PROVE  PartyTypeOK' /\ CatalogueTypeOK' /\ OrderTypeOK'
  <2>1. PartyTypeOK'
    <3>1. b \in Requests /\ Forget(b)
      BY <1>4 DEF RefusePurchase
    <3> QED BY <1>4, <3>1, ForgetTypes DEF RefusePurchase, accountVars, PartyTypeOK
  <2>2. CatalogueTypeOK'
    BY <1>4 DEF RefusePurchase, CatalogueTypeOK, catalogueVars, shelfVars
  <2>3. OrderTypeOK'
    BY <1>4 DEF RefusePurchase, OrderTypeOK, Empty
  <2> QED BY <2>1, <2>2, <2>3
<1>5. ASSUME NEW b \in Buyers, NEW date \in {"none", "far"}, CommitPurchase(b, date)
      PROVE  PartyTypeOK' /\ CatalogueTypeOK' /\ OrderTypeOK'
  <2>1. OrderedFrom \in Parties /\ b \in Requests /\ worth[b] \in Int /\ "purchase" \in Kinds
    BY DEF Parties, OrderTypeOK, Kinds
  <2>2. PartyTypeOK'
    <3>1. /\ Forget(b) /\ used' = [used EXCEPT ![OrderedFrom] = TRUE]
          /\ UNCHANGED <<party, disturbed>>
      BY <1>5 DEF CommitPurchase
    <3>2. used' \in [Parties -> BOOLEAN]
      BY <3>1 DEF PartyTypeOK
    <3>3. CASE worth[b] = 0
      <4>1. UNCHANGED <<linked, account, balance, entries>>
        BY <1>5, <3>3 DEF CommitPurchase
      <4> QED BY <2>1, <3>1, <3>2, <4>1, ForgetTypes DEF PartyTypeOK
    <3>4. CASE worth[b] # 0
      <4>1. Linked(b) /\ PostEntry(OrderedFrom, Increase(OrderedFrom), worth[b], NDays, "purchase")
        BY <1>5, <3>4 DEF CommitPurchase
      <4>2. worth[b] \in Int \ {0}
        BY <2>1, <3>4
      <4>3. Increase(OrderedFrom) \in {"debit", "credit"} /\ NDays \in Days
        BY LastDay, SidesOfParty
      <4>4. entries' \in [Parties -> Seq(Entry)] /\ balance' \in [Parties -> Int]
        BY <2>1, <4>1, <4>2, <4>3, PostEntryTypes
      <4> QED
        BY <2>1, <3>1, <3>2, <4>1, <4>4, LinkedTypes, ForgetTypes DEF PartyTypeOK
    <3> QED BY <3>3, <3>4
  <2>3. CatalogueTypeOK'
    <3>1. \A p \in Products : onShelf[p] + Arrived(b, p) \in Nat
      BY ArrivedNat DEF CatalogueTypeOK
    <3>2. onShelf' \in [Products -> Nat]
      BY <1>5, <3>1 DEF CommitPurchase
    <3>3. stock' \in [Products -> Nat] /\ resaved' \subseteq Products
      BY <1>5, <3>2 DEF CommitPurchase, Recompute, CatalogueTypeOK
    <3>4. expiry' \in [Products -> {"none", "far", "near", "past"}] /\ draft' = draft
      BY <1>5 DEF CommitPurchase, CatalogueTypeOK
    <3> QED BY <3>2, <3>3, <3>4 DEF CatalogueTypeOK
  <2>4. OrderTypeOK'
    <3>1. \A l \in Lines : ReceivedBy(b, l) \in Nat
      BY DEF ReceivedBy, OrderTypeOK
    <3>2. received' \in [Lines -> Nat] /\ orderStatus' \in Statuses
      BY <1>5, <3>1 DEF CommitPurchase, OrderTypeOK
    <3>3. /\ desk' = [desk EXCEPT ![b] = "away"] /\ cart' = [cart EXCEPT ![b] = Empty]
          /\ worth' = [worth EXCEPT ![b] = 0] /\ counted' = [counted EXCEPT ![b] = "none"]
          /\ given' = (given \/ worth[b] = 0)
      BY <1>5 DEF CommitPurchase
    <3> QED BY <3>2, <3>3 DEF OrderTypeOK, Empty, Statuses
  <2> QED BY <2>2, <2>3, <2>4
<1> QED BY <1>1, <1>2, <1>3, <1>4, <1>5 DEF OrderTask

\* The tables of the desks, without the alerts.
TablesOK == PartyTypeOK /\ CatalogueTypeOK /\ OrderTypeOK

LEMMA InitTables == ASSUME Init PROVE TablesOK
<1>1. PartyTypeOK
  BY DEF Init, PartyInit, PartyTypeOK, NoCopy
<1>2. CatalogueTypeOK
  BY DEF Init, CatalogueInit, CatalogueTypeOK, NoDraft
<1>3. OrderTypeOK
  <2>1. Empty \in [Lines -> Nat]
    BY DEF Empty
  <2>2. cart = [b \in Buyers |-> Empty] /\ received = Empty
    BY DEF Init, OrderInit
  <2>3. cart \in [Buyers -> [Lines -> Nat]] /\ received \in [Lines -> Nat]
    BY <2>1, <2>2
  <2>4. orderStatus \in Statuses /\ given \in BOOLEAN
    BY DEF Init, OrderInit, Statuses
  <2>7. worth \in [Buyers -> Int]
    BY DEF Init, OrderInit
  <2>5. desk \in [Buyers -> {"away", "form", "received", "posted", "counted"}]
    BY DEF Init, OrderInit
  <2>6. counted \in [Buyers -> Statuses]
    BY DEF Init, OrderInit, Statuses
  <2> QED BY <2>3, <2>4, <2>5, <2>6, <2>7 DEF OrderTypeOK
<1> QED BY <1>1, <1>2, <1>3 DEF TablesOK

LEMMA PartyTypeSame == ASSUME PartyTypeOK, UNCHANGED partyVars PROVE PartyTypeOK'
BY DEF PartyTypeOK, partyVars, accountVars

LEMMA CatalogueTypeSame == ASSUME CatalogueTypeOK, UNCHANGED catalogueVars PROVE CatalogueTypeOK'
BY DEF CatalogueTypeOK, catalogueVars, shelfVars

LEMMA OrderTypeSame == ASSUME OrderTypeOK, UNCHANGED orderVars PROVE OrderTypeOK'
BY DEF OrderTypeOK, orderVars

\* A step is a task at one of the desks, or leaves the tables of all of them alone.
LEMMA Desks ==
  ASSUME [Next]_backOfficeVars
  PROVE  \/ PartyTask /\ UNCHANGED <<catalogueVars, orderVars>>
         \/ SaleTask /\ UNCHANGED orderVars
         \/ ProductTask /\ UNCHANGED <<partyVars, orderVars>>
         \/ OrderTask
         \/ UNCHANGED <<partyVars, catalogueVars, orderVars>>
BY DEF Next, backOfficeVars

LEMMA NextTables == ASSUME TablesOK, [Next]_backOfficeVars PROVE TablesOK'
<1>1. PartyTypeOK /\ CatalogueTypeOK /\ OrderTypeOK
  BY DEF TablesOK
<1>2. CASE PartyTask /\ UNCHANGED <<catalogueVars, orderVars>>
  BY <1>1, <1>2, PartyTaskTypes, CatalogueTypeSame, OrderTypeSame DEF TablesOK
<1>3. CASE SaleTask /\ UNCHANGED orderVars
  BY <1>1, <1>3, SaleTaskTypes, OrderTypeSame DEF TablesOK
<1>4. CASE ProductTask /\ UNCHANGED <<partyVars, orderVars>>
  BY <1>1, <1>4, ProductTaskTypes, PartyTypeSame, OrderTypeSame DEF TablesOK
<1>5. CASE OrderTask
  BY <1>1, <1>5, OrderTaskTypes DEF TablesOK
<1>6. CASE UNCHANGED <<partyVars, catalogueVars, orderVars>>
  BY <1>1, <1>6, PartyTypeSame, CatalogueTypeSame, OrderTypeSame DEF TablesOK
<1> QED BY <1>2, <1>3, <1>4, <1>5, <1>6, Desks

LEMMA TablesInductive == Spec => []TablesOK
<1>1. Init => TablesOK
  BY InitTables
<1>2. TablesOK /\ [Next]_backOfficeVars => TablesOK'
  BY NextTables
<1> QED BY <1>1, <1>2, PTL DEF Spec

-----------------------------------------------------------------------------
(***************************************************************************)
(* The stock shown with a product.                                         *)
(***************************************************************************)

LEMMA NextStockShown ==
  ASSUME TablesOK, StockShown, [Next]_backOfficeVars
  PROVE  StockShown'
<1>1. CatalogueTypeOK /\ OrderTypeOK
  BY DEF TablesOK
<1>2. SUFFICES ASSUME NEW p \in Products, p \notin resaved' PROVE stock'[p] = onShelf'[p]
  BY DEF StockShown
<1>3. p \notin resaved => stock[p] = onShelf[p]
  BY DEF StockShown
<1>4. CASE UNCHANGED shelfVars
  BY <1>2, <1>3, <1>4 DEF shelfVars
<1>5. CASE SaleTask
  <2>1. PICK q \in Clerks, s \in Products, n \in Amounts, d \in Days : SellOnCredit(q, s, n, d)
    BY <1>5 DEF SaleTask
  <2>2. onShelf' = [onShelf EXCEPT ![s] = @ - 1] /\ Recompute({s})
    BY <2>1 DEF SellOnCredit
  <2>3. CASE p = s
    BY <2>2, <2>3 DEF Recompute
  <2>4. CASE p # s
    BY <1>1, <1>2, <1>3, <2>2, <2>4 DEF Recompute, CatalogueTypeOK
  <2> QED BY <2>3, <2>4
<1>6. CASE ProductTask
  <2>1. ASSUME NEW e \in Editors, NEW date \in {"none", "far"}, SaveProduct(e, date)
        PROVE  stock'[p] = onShelf'[p]
    <3>1. /\ stock' = [stock EXCEPT ![draft[e].of] = draft[e].stock]
          /\ resaved' = IF stock[draft[e].of] = draft[e].stock THEN resaved
                        ELSE resaved \cup {draft[e].of}
          /\ onShelf' = onShelf
      BY <2>1 DEF SaveProduct
    <3>2. CASE p = draft[e].of
      BY <1>1, <1>2, <1>3, <3>1, <3>2 DEF CatalogueTypeOK
    <3>3. CASE p # draft[e].of
      BY <1>1, <1>2, <1>3, <3>1, <3>3 DEF CatalogueTypeOK
    <3> QED BY <3>2, <3>3
  <2>2. ASSUME NEW e \in Editors, NEW q \in Products, LoadProduct(e, q)
        PROVE  stock'[p] = onShelf'[p]
    BY <1>4, <2>2 DEF LoadProduct
  <2>3. CASE MonthPasses
    BY <1>2, <1>3, <2>3 DEF MonthPasses
  <2> QED BY <1>6, <2>1, <2>2, <2>3 DEF ProductTask
<1>7. CASE OrderTask
  <2>1. ASSUME NEW b \in Buyers, NEW date \in {"none", "far"}, CommitPurchase(b, date)
        PROVE  stock'[p] = onShelf'[p]
    <3> DEFINE arriving == {q \in Products : Arrived(b, q) > 0}
    <3>1. /\ onShelf' = [q \in Products |-> onShelf[q] + Arrived(b, q)]
          /\ Recompute(arriving)
      BY <2>1 DEF CommitPurchase
    <3>2. Arrived(b, p) \in Nat
      BY <1>1, ArrivedNat
    <3>3. CASE Arrived(b, p) > 0
      BY <3>1, <3>3 DEF Recompute
    <3>4. CASE ~ (Arrived(b, p) > 0)
      <4>1. Arrived(b, p) = 0 /\ onShelf[p] \in Nat
        BY <1>1, <3>2, <3>4 DEF CatalogueTypeOK
      <4>2. onShelf'[p] = onShelf[p]
        BY <3>1, <4>1
      <4>3. stock'[p] = stock[p] /\ p \notin resaved
        BY <1>2, <3>1, <3>4 DEF Recompute
      <4> QED BY <1>3, <4>2, <4>3
    <3> QED BY <3>3, <3>4
  <2>2. CASE UNCHANGED catalogueVars
    BY <1>4, <2>2 DEF catalogueVars
  <2>3. \/ UNCHANGED catalogueVars
        \/ \E b \in Buyers, date \in {"none", "far"} : CommitPurchase(b, date)
    BY <1>7 DEF OrderTask, CreateOrder, OpenForm, Receive, Post, RefusePurchase, CountOrder
  <2> QED BY <2>1, <2>2, <2>3
<1>8. CASE UNCHANGED catalogueVars
  BY <1>4, <1>8 DEF catalogueVars
<1> QED BY <1>5, <1>6, <1>7, <1>8, Desks

\* Whatever sales, receipts, forms and imports overlap, a product shows what is on the
\* shelf, unless a form or an import has saved a copy that a movement had overtaken
\* (recompute_product_stock, product_edit).
THEOREM ShelfIsShown == Spec => []StockShown
<1>1. Init => StockShown
  BY DEF Init, CatalogueInit, StockShown
<1>2. TablesOK /\ StockShown /\ [Next]_backOfficeVars => StockShown'
  BY NextStockShown
<1> QED BY <1>1, <1>2, TablesInductive, PTL DEF Spec

-----------------------------------------------------------------------------
(***************************************************************************)
(* Parties and their accounts.                                             *)
(***************************************************************************)

\* A copy is of a row there has been, and neither it nor the row itself names an account that
\* is not there; a party nobody has disturbed has an account if and only if its row names it.
PartyInv ==
  /\ \A q \in Requests : copy[q].of # NoParty =>
       /\ party[copy[q].of] # "absent"
       /\ copy[q].linked => account[copy[q].of]
  /\ \A p \in Parties : linked[p] => account[p]
  /\ \A p \in Parties \ disturbed :
       /\ party[p] # "deleted"
       /\ account[p] = linked[p]
       /\ account[p] => party[p] = "present"

\* Only these change the row of a party, its account or a copy.
LEMMA PartySame ==
  ASSUME PartyInv, UNCHANGED <<party, linked, account, copy, disturbed>>
  PROVE  PartyInv'
BY DEF PartyInv

\* A request that forgets its copy and changes no row.
LEMMA ForgetKeeps ==
  ASSUME PartyTypeOK, PartyInv, NEW q \in Requests, Forget(q),
         UNCHANGED <<party, linked, account, disturbed>>
  PROVE  PartyInv'
BY DEF PartyTypeOK, PartyInv, Forget, NoCopy

\* The account of a party is created, or was there, and is linked.
LEMMA LinkKeeps ==
  ASSUME PartyTypeOK, PartyInv, NEW q \in Requests, copy[q].of # NoParty,
         Linked(q), Forget(q), UNCHANGED <<party, disturbed>>
  PROVE  PartyInv'
<1> DEFINE p == copy[q].of
<1>1. /\ p \in Parties /\ party[p] # "absent" /\ copy[q].linked \in BOOLEAN
      /\ copy[q].linked => account[p]
  BY DEF PartyTypeOK, PartyInv
<1>2. /\ account' = [account EXCEPT ![p] = TRUE]
      /\ linked' = [linked EXCEPT ![p] = linked[p] \/ ~copy[q].linked]
      /\ copy' = [copy EXCEPT ![q] = NoCopy]
  BY DEF Linked, Forget
<1> HIDE DEF p
<1>3. ASSUME NEW c \in Requests, copy'[c].of # NoParty
      PROVE  /\ party'[copy'[c].of] # "absent"
             /\ copy'[c].linked => account'[copy'[c].of]
  <2>1. c # q /\ copy'[c] = copy[c]
    BY <1>2, <1>3 DEF NoCopy, PartyTypeOK
  <2>2. party[copy[c].of] # "absent" /\ (copy[c].linked => account[copy[c].of])
    BY <1>3, <2>1 DEF PartyInv
  <2>3. copy[c].of \in Parties
    BY <1>3, <2>1 DEF PartyTypeOK
  <2> QED BY <1>2, <2>1, <2>2, <2>3 DEF PartyTypeOK
<1>4. ASSUME NEW o \in Parties \ disturbed'
      PROVE  /\ party'[o] # "deleted" /\ account'[o] = linked'[o]
             /\ account'[o] => party'[o] = "present"
  <2>1. /\ party[o] # "deleted" /\ account[o] = linked[o]
        /\ account[o] => party[o] = "present"
    BY <1>4 DEF PartyInv
  <2>2. CASE o = p
    <3>1. party[o] = "present"
      BY <1>1, <2>1, <2>2 DEF PartyTypeOK
    <3>2. account'[o] = TRUE /\ linked'[o] = TRUE
      BY <1>1, <1>2, <2>1, <2>2 DEF PartyTypeOK
    <3> QED BY <3>1, <3>2
  <2>3. CASE o # p
    BY <1>2, <2>1, <2>3 DEF PartyTypeOK
  <2> QED BY <2>2, <2>3
<1>5. ASSUME NEW o \in Parties PROVE linked'[o] => account'[o]
  <2>1. linked[o] => account[o]
    BY DEF PartyInv
  <2> QED BY <1>1, <1>2, <2>1 DEF PartyTypeOK
<1> QED BY <1>3, <1>4, <1>5 DEF PartyInv

LEMMA PostingKeeps ==
  ASSUME PartyTypeOK, PartyInv, NEW q \in Requests, NEW side, NEW amount, NEW day, NEW memo,
         PostDocument(q, side, amount, day, memo)
  PROVE  PartyInv'
BY LinkKeeps DEF PostDocument

LEMMA PartyTaskKeeps == ASSUME PartyTypeOK, PartyInv, PartyTask PROVE PartyInv'
<1> USE DEF PartyTypeOK
<1>1. ASSUME NEW p \in Parties, NEW o \in Amounts \cup {0}, CreateParty(p, o) PROVE PartyInv'
  <2>1. /\ party[p] = "absent" /\ party' = [party EXCEPT ![p] = "present"]
        /\ linked' = [linked EXCEPT ![p] = TRUE] /\ account' = [account EXCEPT ![p] = TRUE]
        /\ copy' = copy /\ disturbed' = disturbed
    BY <1>1 DEF CreateParty
  <2>2. ASSUME NEW q \in Requests, copy'[q].of # NoParty
        PROVE  /\ party'[copy'[q].of] # "absent"
               /\ copy'[q].linked => account'[copy'[q].of]
    <3>1. PICK o2 \in Parties : o2 = copy[q].of
      BY <2>1, <2>2
    <3>2. party[o2] # "absent" /\ (copy[q].linked => account[o2])
      BY <2>1, <2>2, <3>1 DEF PartyInv
    <3>3. party'[o2] # "absent" /\ (account[o2] => account'[o2])
      BY <2>1, <3>2
    <3> QED BY <2>1, <3>1, <3>2, <3>3
  <2>3. ASSUME NEW o2 \in Parties PROVE linked'[o2] => account'[o2]
    BY <2>1 DEF PartyInv
  <2>4. ASSUME NEW o2 \in Parties \ disturbed'
        PROVE  /\ party'[o2] # "deleted" /\ account'[o2] = linked'[o2]
               /\ account'[o2] => party'[o2] = "present"
    BY <2>1, <2>4 DEF PartyInv
  <2> QED BY <2>2, <2>3, <2>4 DEF PartyInv
<1>2. ASSUME NEW p \in Parties, QuickCreate(p) PROVE PartyInv'
  BY <1>2 DEF QuickCreate, PartyInv
<1>3. ASSUME NEW p \in Parties, DeleteParty(p) PROVE PartyInv'
  BY <1>3 DEF DeleteParty, PartyInv
<1>4. ASSUME NEW q \in Clerks, NEW p \in Parties, Load(q, p) PROVE PartyInv'
  <2>1. /\ party[p] = "present" /\ copy' = [copy EXCEPT ![q] = [of |-> p, linked |-> linked[p]]]
        /\ party' = party /\ linked' = linked /\ account' = account /\ disturbed' = disturbed
    BY <1>4 DEF Load, accountVars
  <2>2. linked[p] => account[p]
    BY DEF PartyInv
  <2> QED BY <2>1, <2>2 DEF PartyInv
<1>5. ASSUME NEW q \in Requests, SaveForm(q) PROVE PartyInv'
  <2>1. PICK p \in Parties : p = copy[q].of
    BY <1>5 DEF SaveForm
  <2>2. /\ party[p] # "absent" /\ copy[q].linked \in BOOLEAN /\ (copy[q].linked => account[p])
    BY <1>5, <2>1 DEF SaveForm, PartyInv
  <2>3. /\ party' = [party EXCEPT ![p] = "present"]
        /\ linked' = [linked EXCEPT ![p] = copy[q].linked]
        /\ disturbed' = IF linked[p] = copy[q].linked THEN disturbed ELSE disturbed \cup {p}
        /\ copy' = [copy EXCEPT ![q] = NoCopy] /\ account' = account
    BY <1>5, <2>1 DEF SaveForm, Forget
  <2>4. ASSUME NEW c \in Requests, copy'[c].of # NoParty
        PROVE  /\ party'[copy'[c].of] # "absent"
               /\ copy'[c].linked => account'[copy'[c].of]
    <3>1. copy'[c] = copy[c]
      BY <2>3, <2>4 DEF NoCopy
    <3>2. PICK o \in Parties : o = copy[c].of
      BY <2>4, <3>1
    <3> QED BY <2>3, <2>4, <3>1, <3>2 DEF PartyInv
  <2>5. ASSUME NEW o \in Parties PROVE linked'[o] => account'[o]
    BY <2>2, <2>3 DEF PartyInv
  <2>6. ASSUME NEW o \in Parties \ disturbed'
        PROVE  /\ party'[o] # "deleted" /\ account'[o] = linked'[o]
               /\ account'[o] => party'[o] = "present"
    <3>1. /\ party[o] # "deleted" /\ account[o] = linked[o]
          /\ account[o] => party[o] = "present"
      BY <2>3, <2>6 DEF PartyInv
    <3>2. CASE o = p
      BY <2>3, <2>6, <3>1, <3>2
    <3>3. CASE o # p
      BY <2>3, <3>1, <3>3
    <3> QED BY <3>2, <3>3
  <2> QED BY <2>4, <2>5, <2>6 DEF PartyInv
<1>6. ASSUME NEW q \in Requests, NEW n \in Amounts, NEW d \in Days, Pay(q, n, d) PROVE PartyInv'
  <2>1. PostDocument(q, Decrease(copy[q].of), n, d, "payment")
    BY <1>6 DEF Pay
  <2> QED BY <2>1, PostingKeeps
<1>7. ASSUME NEW q \in Requests, NEW n \in Amounts, AdjustBalance(q, n) PROVE PartyInv'
  <2>1. Forget(q) /\ UNCHANGED <<party, linked, account, disturbed>>
    BY <1>7 DEF AdjustBalance
  <2> QED BY <2>1, ForgetKeeps
<1>8. ASSUME NEW q \in Requests, RefuseDocument(q) PROVE PartyInv'
  <2>1. Forget(q) /\ UNCHANGED <<party, linked, account, disturbed>>
    BY <1>8 DEF RefuseDocument, accountVars
  <2> QED BY <2>1, ForgetKeeps
<1>9. Clerks \subseteq Requests
  BY DEF Clerks
<1> QED BY <1>1, <1>2, <1>3, <1>4, <1>5, <1>6, <1>7, <1>8, <1>9 DEF PartyTask

\* A purchase under way has loaded the supplier.
BuyersLoaded == \A b \in Buyers : InTransaction(b) => copy[b].of # NoParty

LEMMA NextBuyersLoaded ==
  ASSUME TablesOK, BuyersLoaded, [Next]_backOfficeVars PROVE BuyersLoaded'
<1>1. PartyTypeOK /\ OrderTypeOK
  BY DEF TablesOK
<1>2. SUFFICES ASSUME NEW b \in Buyers, InTransaction(b)' PROVE copy'[b].of # NoParty
  BY DEF BuyersLoaded
<1>3. InTransaction(b) => copy[b].of # NoParty
  BY DEF BuyersLoaded
<1>4. ASSUME desk' = desk, copy'[b] = copy[b] PROVE copy'[b].of # NoParty
  BY <1>2, <1>3, <1>4 DEF InTransaction
<1>5. b \notin Clerks
  BY DEF Clerks
<1>6. \A q \in Clerks : Forget(q) => copy'[b] = copy[b]
  BY <1>1, <1>5 DEF Forget, PartyTypeOK
<1>7. CASE PartyTask /\ UNCHANGED <<catalogueVars, orderVars>>
  <2>1. desk' = desk
    BY <1>7 DEF orderVars
  <2>2. \/ copy' = copy
        \/ \E q \in Clerks, p \in Parties : Load(q, p)
        \/ \E q \in Clerks : Forget(q)
    BY <1>7 DEF PartyTask, CreateParty, QuickCreate, DeleteParty, SaveForm, Pay, PostDocument,
                AdjustBalance, RefuseDocument
  <2>3. copy'[b] = copy[b]
    BY <1>1, <1>5, <1>6, <2>2 DEF Load, PartyTypeOK
  <2> QED BY <1>4, <2>1, <2>3
<1>8. CASE SaleTask /\ UNCHANGED orderVars
  <2>1. desk' = desk
    BY <1>8 DEF orderVars
  <2>2. \E q \in Clerks : Forget(q)
    BY <1>8 DEF SaleTask, SellOnCredit, PostDocument
  <2> QED BY <1>4, <1>6, <2>1, <2>2
<1>9. CASE UNCHANGED <<partyVars, orderVars>>
  BY <1>4, <1>9 DEF partyVars, orderVars
<1>10. CASE OrderTask
  <2> USE DEF PartyTypeOK, OrderTypeOK
  <2>1. CASE CreateOrder
    BY <1>4, <2>1 DEF CreateOrder
  <2>2. ASSUME NEW c \in Buyers, OpenForm(c) PROVE copy'[b].of # NoParty
    <3>1. copy' = copy /\ desk' = [desk EXCEPT ![c] = "form"]
      BY <2>2 DEF OpenForm, partyVars
    <3>2. InTransaction(b)
      BY <1>1, <1>2, <3>1 DEF InTransaction
    <3> QED BY <1>3, <3>1, <3>2
  <2>3. ASSUME NEW c \in Buyers, NEW n \in Worths, Receive(c, n) PROVE copy'[b].of # NoParty
    <3>1. /\ copy' = [copy EXCEPT ![c] = [of |-> OrderedFrom, linked |-> linked[OrderedFrom]]]
          /\ desk' = [desk EXCEPT ![c] = "received"]
      BY <2>3 DEF Receive
    <3>2. CASE b = c
      <4>1. copy'[b].of = OrderedFrom
        BY <1>1, <3>1, <3>2
      <4> QED BY <4>1 DEF Parties
    <3>3. CASE b # c
      <4>1. InTransaction(b) /\ copy'[b] = copy[b]
        BY <1>1, <1>2, <3>1, <3>3 DEF InTransaction
      <4> QED BY <1>3, <4>1
    <3> QED BY <3>2, <3>3
  <2>4. ASSUME NEW c \in Buyers, Post(c) \/ CountOrder(c) PROVE copy'[b].of # NoParty
    <3>1. /\ copy' = copy
          /\ desk[c] \in {"received", "posted"}
          /\ \/ desk' = [desk EXCEPT ![c] = "posted"]
             \/ desk' = [desk EXCEPT ![c] = "counted"]
      BY <2>4 DEF Post, CountOrder, partyVars
    <3>2. InTransaction(b)
      BY <1>1, <1>2, <3>1 DEF InTransaction
    <3> QED BY <1>3, <3>1, <3>2
  <2>5. ASSUME NEW c \in Buyers, Forget(c), desk' = [desk EXCEPT ![c] = "away"]
        PROVE  copy'[b].of # NoParty
    <3>1. b # c
      BY <1>1, <1>2, <2>5 DEF InTransaction
    <3>2. InTransaction(b) /\ copy'[b] = copy[b]
      BY <1>1, <1>2, <2>5, <3>1 DEF InTransaction, Forget
    <3> QED BY <1>3, <3>2
  <2>6. ASSUME NEW c \in Buyers, RefusePurchase(c) PROVE copy'[b].of # NoParty
    BY <2>5, <2>6 DEF RefusePurchase
  <2>7. ASSUME NEW c \in Buyers, NEW date \in {"none", "far"}, CommitPurchase(c, date)
        PROVE  copy'[b].of # NoParty
    BY <2>5, <2>7 DEF CommitPurchase
  <2> QED BY <1>10, <2>1, <2>2, <2>3, <2>4, <2>6, <2>7 DEF OrderTask
<1> QED BY <1>7, <1>8, <1>9, <1>10, Desks

LEMMA NextPartyInv ==
  ASSUME TablesOK, BuyersLoaded, PartyInv, [Next]_backOfficeVars PROVE PartyInv'
<1>1. PartyTypeOK
  BY DEF TablesOK
<1>2. CASE PartyTask
  BY <1>1, <1>2, PartyTaskKeeps
<1>3. CASE SaleTask
  <2>1. PICK q \in Clerks, p \in Products, n \in Amounts, d \in Days : SellOnCredit(q, p, n, d)
    BY <1>3 DEF SaleTask
  <2>2. q \in Requests /\ PostDocument(q, Increase(copy[q].of), n, d, "sale")
    BY <2>1 DEF SellOnCredit, Clerks
  <2> QED BY <1>1, <2>2, PostingKeeps
<1>4. CASE UNCHANGED partyVars
  BY <1>4, PartySame DEF partyVars, accountVars
<1>5. CASE OrderTask
  <2>1. CASE CreateOrder
    BY <2>1, PartySame DEF CreateOrder
  <2>2. ASSUME NEW b \in Buyers, OpenForm(b) \/ Post(b) \/ CountOrder(b) PROVE PartyInv'
    BY <1>4, <2>2 DEF OpenForm, Post, CountOrder
  <2>3. ASSUME NEW b \in Buyers, NEW n \in Worths, Receive(b, n) PROVE PartyInv'
    <3>1. /\ party[OrderedFrom] = "present" /\ OrderedFrom \in Parties
          /\ copy' = [copy EXCEPT ![b] = [of |-> OrderedFrom, linked |-> linked[OrderedFrom]]]
          /\ party' = party /\ linked' = linked /\ account' = account /\ disturbed' = disturbed
      BY <2>3 DEF Receive, accountVars, Parties
    <3>2. linked[OrderedFrom] => account[OrderedFrom]
      BY <3>1 DEF PartyInv
    <3> QED BY <1>1, <3>1, <3>2 DEF PartyTypeOK, PartyInv
  <2>4. ASSUME NEW b \in Buyers, RefusePurchase(b) PROVE PartyInv'
    <3>1. b \in Requests /\ Forget(b) /\ UNCHANGED <<party, linked, account, disturbed>>
      BY <2>4 DEF RefusePurchase, accountVars
    <3> QED BY <1>1, <3>1, ForgetKeeps
  <2>5. ASSUME NEW b \in Buyers, NEW date \in {"none", "far"}, CommitPurchase(b, date)
        PROVE  PartyInv'
    <3>1. b \in Requests /\ Forget(b) /\ UNCHANGED <<party, disturbed>> /\ desk[b] = "counted"
      BY <2>5 DEF CommitPurchase
    <3>2. copy[b].of # NoParty
      BY <3>1 DEF BuyersLoaded, InTransaction
    <3>3. CASE worth[b] = 0
      <4>1. UNCHANGED <<linked, account>> /\ Forget(b) /\ UNCHANGED <<party, disturbed>>
        BY <2>5, <3>1, <3>3 DEF CommitPurchase
      <4> QED BY <1>1, <3>1, <4>1, ForgetKeeps
    <3>4. CASE worth[b] # 0
      <4>1. Linked(b)
        BY <2>5, <3>4 DEF CommitPurchase
      <4> QED BY <1>1, <3>1, <3>2, <4>1, LinkKeeps
    <3> QED BY <3>3, <3>4
  <2> QED BY <1>5, <2>1, <2>2, <2>3, <2>4, <2>5 DEF OrderTask
<1> QED BY <1>2, <1>3, <1>4, <1>5, Desks

LEMMA PartyInductive == Spec => []PartyInv
<1>1. Init => PartyInv /\ BuyersLoaded
  BY DEF Init, PartyInit, OrderInit, PartyInv, BuyersLoaded, InTransaction, NoCopy
<1>2. TablesOK /\ BuyersLoaded /\ [Next]_backOfficeVars => BuyersLoaded'
  BY NextBuyersLoaded
<1>3. TablesOK /\ BuyersLoaded /\ PartyInv /\ [Next]_backOfficeVars => PartyInv'
  BY NextPartyInv
<1> QED BY <1>1, <1>2, <1>3, TablesInductive, PTL DEF Spec

\* Where a party's account is there, its row names it.
LEMMA TotalsAgree ==
  ASSUME PartyTypeOK, PartyInv, NEW kind \in SUBSET Parties, kind \cap disturbed = {}
  PROVE  DashboardTotal(kind) = UdhaarTotal(kind)
<1>1. ASSUME NEW p \in kind
      PROVE  (IF account[p] THEN balance[p] ELSE 0) = CurrentBalance(p)
  BY DEF PartyTypeOK, PartyInv, CurrentBalance
<1>2. [p \in kind |-> IF account[p] THEN balance[p] ELSE 0] = [p \in kind |-> CurrentBalance(p)]
  BY <1>1
<1> QED BY <1>2 DEF DashboardTotal, UdhaarTotal

\* The totals of the dashboard, by accounts, and of the udhaar page, by parties, agree,
\* however requests overlap, until a party is deleted or a form saves a copy that was out of
\* date (get_or_create_party_account, customer_edit, customer_delete).
THEOREM TotalsAlwaysAgree == Spec => []ReceivablesAgree
<1>1. PartyTypeOK /\ PartyInv => ReceivablesAgree
  BY TotalsAgree DEF ReceivablesAgree, Parties
<1>2. TablesOK => PartyTypeOK
  BY DEF TablesOK
<1> QED BY <1>1, <1>2, TablesInductive, PartyInductive, PTL

-----------------------------------------------------------------------------
-----------------------------------------------------------------------------
(***************************************************************************)
(* Statements.                                                             *)
(***************************************************************************)

\* What each entry adds to the balance.
Deltas(p) == [i \in 1..Len(entries[p]) |-> EntryDelta(p, entries[p][i])]

\* The balance after entry i: that entry and all that come before it by date.
Through(p, i) == {j \in 1..Len(entries[p]) : j = i \/ <<j, i>> \in ByDate(entries[p])}
BalanceAfter(p, i) == SumUpTo(OnlyRows(Deltas(p), Through(p, i), Len(entries[p])), Len(entries[p]))

StatementRow(p) == [i \in 1..Len(entries[p]) |-> [id |-> i, running |-> BalanceAfter(p, i)]]

\* InOrder is the list there is.
LEMMA InOrderLists ==
  ASSUME NEW n \in Nat, NEW R, OrdersRows(R, n), NEW S \in SUBSET (1..n)
  PROVE  Lists(InOrder(S, R), Cardinality(S), S, R)
<1> DEFINE c == Cardinality(S)
           Listing(q) == /\ {q[m] : m \in DOMAIN q} = S
                         /\ \A m, j \in DOMAIN q : m < j => <<q[m], q[j]>> \in R
<1>1. PICK q : Lists(q, c, S, R)
  BY ListExists
<1>2. q \in [1..c -> S] /\ Listing(q)
  <2> DEFINE d == c
  <2>1. Lists(q, d, S, R)
    BY <1>1
  <2> HIDE DEF d
  <2>2. /\ q \in [1..d -> S] /\ \A i \in S : \E m \in 1..d : q[m] = i
        /\ \A m, j \in 1..d : m < j => <<q[m], q[j]>> \in R
    BY <2>1 DEF Lists
  <2>3. DOMAIN q = 1..d /\ {q[m] : m \in DOMAIN q} = S
    BY <2>2
  <2>4. q \in [1..d -> S] /\ Listing(q)
    BY <2>2, <2>3
  <2> QED BY <2>4 DEF d
<1>3. InOrder(S, R) = CHOOSE r \in [1..c -> S] : Listing(r)
  BY DEF InOrder
<1>4. InOrder(S, R) \in [1..c -> S] /\ Listing(InOrder(S, R))
  <2> HIDE DEF Listing
  <2> QED BY <1>2, <1>3
<1>5. c \in Nat
  BY <1>1 DEF Lists
<1> DEFINE q1 == InOrder(S, R)
<1>6. q1 \in [1..c -> S] /\ Listing(q1)
  BY <1>4
<1> HIDE DEF c, q1
<1>7. DOMAIN q1 = 1..c
  BY <1>6
<1>8. Lists(q1, c, S, R)
  BY <1>5, <1>6, <1>7 DEF Lists
<1> QED BY <1>8 DEF c, q1

LEMMA InOrderIs ==
  ASSUME NEW n \in Nat, NEW R, OrdersRows(R, n), NEW S \in SUBSET (1..n),
         NEW q, NEW k, Lists(q, k, S, R)
  PROVE  InOrder(S, R) = q
BY InOrderLists, ListUnique

\* g lists the numbers of the k rows of s that Those returns.
Picks(g, k, s, n, keep) ==
  /\ Lists(g, k, {i \in 1..n : s[i] \in keep}, ByNumber(n))
  /\ Those(s, keep) = [m \in 1..k |-> s[g[m]]]

LEMMA ThoseIs ==
  ASSUME NEW n \in Nat, NEW X, NEW s \in [1..n -> X], NEW keep
  PROVE  \E g, k : Picks(g, k, s, n, keep)
<1> DEFINE S == {i \in 1..n : s[i] \in keep}
           g == InOrder(S, ByNumber(n))
           k == Cardinality(S)
<1>1. S \in SUBSET (1..n) /\ OrdersRows(ByNumber(n), n)
  BY ByNumberOrders
<1>2. Lists(g, k, S, ByNumber(n))
  <2> HIDE DEF S
  <2> QED BY <1>1, InOrderLists
<1>3. DOMAIN s = 1..n
  OBVIOUS
<1>4. Those(s, keep) = [m \in DOMAIN g |-> s[g[m]]]
  BY <1>3 DEF Those, ByNumber
<1> HIDE DEF g, k
<1>5. DOMAIN g = 1..k
  BY <1>2 DEF Lists
<1>6. Those(s, keep) = [m \in 1..k |-> s[g[m]]]
  BY <1>4, <1>5
<1>7. Picks(g, k, s, n, keep)
  BY <1>2, <1>6 DEF Picks
<1> QED BY <1>7

\* s is what the rows of S, in the order R, have in the column row.
Shows(s, row, S, R) == \E q, k : Lists(q, k, S, R) /\ s = FirstValues(row, q, k)

LEMMA ShowsOne ==
  ASSUME NEW n \in Nat, NEW R, OrdersRows(R, n), NEW S \in SUBSET (1..n), NEW row,
         NEW s, Shows(s, row, S, R), NEW t, Shows(t, row, S, R)
  PROVE  s = t
<1>1. PICK q, k : Lists(q, k, S, R) /\ s = FirstValues(row, q, k)
  BY DEF Shows
<1>2. PICK r, l : Lists(r, l, S, R) /\ t = FirstValues(row, r, l)
  BY DEF Shows
<1>3. k = l /\ q = r
  BY <1>1, <1>2, ListUnique
<1> QED BY <1>1, <1>2, <1>3

\* Those of the rows shown that are in keep are shown in the same order.
LEMMA SelectShown ==
  ASSUME NEW n \in Nat, NEW R, NEW S \in SUBSET (1..n), NEW X, NEW row \in [1..n -> X],
         NEW s, Shows(s, row, S, R), NEW A, NEW keep, \A i \in S : row[i] \in keep <=> i \in A
  PROVE  Shows(Those(s, keep), row, S \cap A, R)
<1>0. PICK q, k : Lists(q, k, S, R) /\ s = FirstValues(row, q, k)
  BY DEF Shows
<1> DEFINE kept == {m \in 1..k : s[m] \in keep}
<1>1. k \in Nat /\ q \in [1..k -> S] /\ \A m \in 1..k : q[m] \in S /\ q[m] \in 1..n
  BY <1>0 DEF Lists
<1>2. s \in [1..k -> X] /\ \A m \in 1..k : s[m] = row[q[m]]
  BY <1>0, <1>1 DEF FirstValues
<1>3. kept = {m \in 1..k : q[m] \in A}
  BY <1>1, <1>2
<1>4. PICK g, l : Picks(g, l, s, k, keep)
  BY <1>1, <1>2, ThoseIs
<1>5. /\ Lists(g, l, kept, ByNumber(k))
      /\ Those(s, keep) = [m \in 1..l |-> s[g[m]]]
  BY <1>4 DEF Picks
<1> HIDE DEF kept
<1>6. /\ l \in Nat /\ g \in [1..l -> kept] /\ kept \subseteq 1..k
      /\ \A m \in 1..l : g[m] \in kept /\ g[m] \in 1..k
  BY <1>3, <1>5 DEF Lists
<1> DEFINE r == [m \in 1..l |-> q[g[m]]]
<1>7. Those(s, keep) = FirstValues(row, r, l)
  BY <1>2, <1>5, <1>6 DEF FirstValues
<1>8. r \in [1..l -> S \cap A]
  BY <1>1, <1>3, <1>6
<1>9. ASSUME NEW i \in S \cap A PROVE \E m \in 1..l : r[m] = i
  <2>1. PICK m \in 1..k : q[m] = i
    BY <1>0 DEF Lists
  <2>2. m \in kept
    BY <1>3, <2>1
  <2>3. PICK j \in 1..l : g[j] = m
    BY <1>5, <2>2 DEF Lists
  <2> QED BY <2>1, <2>3
<1>10. ASSUME NEW m \in 1..l, NEW j \in 1..l, m < j PROVE <<r[m], r[j]>> \in R
  <2>1. <<g[m], g[j]>> \in ByNumber(k)
    BY <1>5, <1>10 DEF Lists
  <2>2. g[m] < g[j] /\ g[m] \in 1..k /\ g[j] \in 1..k
    BY <1>6, <2>1 DEF ByNumber
  <2> QED BY <1>0, <2>2 DEF Lists
<1> HIDE DEF r
<1>11. Lists(r, l, S \cap A, R)
  BY <1>6, <1>8, <1>9, <1>10 DEF Lists
<1> QED BY <1>7, <1>11 DEF Shows

\* Turned around, they are shown in the order turned around.
LEMMA ReverseShown ==
  ASSUME NEW n \in Nat, NEW R, NEW S \in SUBSET (1..n), NEW X, NEW row \in [1..n -> X],
         NEW s, Shows(s, row, S, R)
  PROVE  Shows(Reverse(s), row, S, Backwards(R, n))
<1>0. PICK q, k : Lists(q, k, S, R) /\ s = FirstValues(row, q, k)
  BY DEF Shows
<1> DEFINE r == [m \in 1..k |-> q[k - m + 1]]
<1>1. k \in Nat /\ q \in [1..k -> S] /\ \A m \in 1..k : q[m] \in S /\ q[m] \in 1..n
  BY <1>0 DEF Lists
<1>2. \A m \in 1..k : k - m + 1 \in 1..k
  BY <1>1
<1>3. s \in Seq(X) /\ Len(s) = k /\ \A m \in 1..k : s[m] = row[q[m]]
  <2>1. s \in [1..k -> X] /\ \A m \in 1..k : s[m] = row[q[m]]
    BY <1>0, <1>1 DEF FirstValues
  <2>2. s \in Seq(X)
    BY <1>1, <2>1, IsASeq
  <2>3. DOMAIN s = 1..k /\ DOMAIN s = 1..Len(s) /\ Len(s) \in Nat
    BY <2>1, <2>2, LenProperties
  <2> QED BY <1>1, <2>1, <2>2, <2>3
<1>4. Reverse(s) = FirstValues(row, r, k)
  <2>1. Reverse(s) = [m \in 1..k |-> s[k - m + 1]]
    BY <1>3 DEF Reverse
  <2>2. \A m \in 1..k : s[k - m + 1] = row[r[m]]
    BY <1>2, <1>3
  <2> QED BY <2>1, <2>2 DEF FirstValues
<1>5. r \in [1..k -> S]
  BY <1>1, <1>2
<1>6. ASSUME NEW i \in S PROVE \E m \in 1..k : r[m] = i
  <2>1. PICK m \in 1..k : q[m] = i
    BY <1>0 DEF Lists
  <2>2. k - m + 1 \in 1..k /\ k - (k - m + 1) + 1 = m
    BY <1>1
  <2>3. r[k - m + 1] = i
    BY <2>1, <2>2
  <2> QED BY <2>2, <2>3
<1>7. ASSUME NEW m \in 1..k, NEW j \in 1..k, m < j PROVE <<r[m], r[j]>> \in Backwards(R, n)
  <2>1. k - j + 1 < k - m + 1 /\ k - j + 1 \in 1..k /\ k - m + 1 \in 1..k
    BY <1>1, <1>7
  <2>2. <<q[k - j + 1], q[k - m + 1]>> \in R
    BY <1>0, <2>1 DEF Lists
  <2>3. r[m] = q[k - m + 1] /\ r[j] = q[k - j + 1] /\ r[m] \in 1..n /\ r[j] \in 1..n
    BY <1>1, <2>1
  <2> HIDE DEF r
  <2> QED BY <2>2, <2>3 DEF Backwards
<1> HIDE DEF r
<1>8. Lists(r, k, S, Backwards(R, n))
  BY <1>1, <1>5, <1>6, <1>7 DEF Lists
<1> QED BY <1>4, <1>8 DEF Shows

LEMMA EntriesTyped ==
  ASSUME PartyTypeOK, NEW p \in Parties
  PROVE  /\ Len(entries[p]) \in Nat /\ DOMAIN entries[p] = 1..Len(entries[p])
         /\ \A i \in 1..Len(entries[p]) :
              /\ entries[p][i] \in Entry /\ entries[p][i].day \in Days
              /\ entries[p][i].memo \in Kinds /\ EntryDelta(p, entries[p][i]) \in Int
         /\ Deltas(p) \in [1..Len(entries[p]) -> Int]
<1>1. entries[p] \in Seq(Entry)
  BY DEF PartyTypeOK
<1>2. Len(entries[p]) \in Nat /\ DOMAIN entries[p] = 1..Len(entries[p])
  BY <1>1, LenProperties
<1>3. ASSUME NEW i \in 1..Len(entries[p])
      PROVE  /\ entries[p][i] \in Entry /\ entries[p][i].day \in Days
             /\ entries[p][i].memo \in Kinds /\ EntryDelta(p, entries[p][i]) \in Int
  <2>1. entries[p][i] \in Entry
    BY <1>1, ElementOfSeq
  <2>2. entries[p][i].amount \in Int
    BY <2>1 DEF Entry
  <2> QED BY <2>1, <2>2 DEF Entry, EntryDelta
<1>4. Deltas(p) \in [1..Len(entries[p]) -> Int]
  BY <1>3 DEF Deltas
<1> QED BY <1>2, <1>3, <1>4

LEMMA ByDateOrders ==
  ASSUME PartyTypeOK, NEW p \in Parties
  PROVE  OrdersRows(ByDate(entries[p]), Len(entries[p]))
<1> DEFINE n == Len(entries[p])
           day(i) == entries[p][i].day
<1>1. n \in Nat /\ DOMAIN entries[p] = 1..n
  BY EntriesTyped
<1>2. \A i \in 1..n : day(i) \in Int
  BY EntriesTyped DEF Days
<1>3. \A i, j \in 1..n : <<i, j>> \in ByDate(entries[p]) <=>
                            day(i) < day(j) \/ (day(i) = day(j) /\ i < j)
  BY <1>1 DEF ByDate
<1> HIDE DEF n, day
<1>4. ASSUME NEW i \in 1..n, NEW j \in 1..n, NEW h \in 1..n,
             <<i, j>> \in ByDate(entries[p]), <<j, h>> \in ByDate(entries[p])
      PROVE  <<i, h>> \in ByDate(entries[p])
  <2>1. /\ day(i) < day(j) \/ (day(i) = day(j) /\ i < j)
        /\ day(j) < day(h) \/ (day(j) = day(h) /\ j < h)
    BY <1>3, <1>4
  <2>2. /\ day(i) \in Int /\ day(j) \in Int /\ day(h) \in Int
        /\ i \in Int /\ j \in Int /\ h \in Int
    BY <1>1, <1>2
  <2>3. day(i) < day(h) \/ (day(i) = day(h) /\ i < h)
    BY <2>1, <2>2
  <2> QED BY <1>3, <2>3
<1>5. ASSUME NEW i \in 1..n PROVE <<i, i>> \notin ByDate(entries[p])
  <2>1. day(i) \in Int /\ i \in Int
    BY <1>1, <1>2
  <2>2. ~ (day(i) < day(i)) /\ ~ (i < i)
    BY <2>1
  <2> QED BY <1>3, <2>2
<1>6. ASSUME NEW i \in 1..n, NEW j \in 1..n
      PROVE  i = j \/ <<i, j>> \in ByDate(entries[p]) \/ <<j, i>> \in ByDate(entries[p])
  <2>1. day(i) \in Int /\ day(j) \in Int /\ i \in Int /\ j \in Int
    BY <1>1, <1>2
  <2>2. \/ i = j \/ day(i) < day(j) \/ (day(i) = day(j) /\ i < j)
        \/ day(j) < day(i) \/ (day(j) = day(i) /\ j < i)
    BY <2>1
  <2> QED BY <1>3, <2>2
<1>7. OrdersRows(ByDate(entries[p]), n)
  BY <1>4, <1>5, <1>6 DEF OrdersRows
<1> QED BY <1>7 DEF n

\* The loop finds for each entry the balance after it, from whatever day it starts.
LEMMA RunningIsBalance ==
  ASSUME PartyTypeOK, NEW p \in Parties, NEW start \in Days, NEW end \in Days, NEW q, NEW k,
         Lists(q, k, Dated(p, start, end), ByDate(entries[p])), NEW m \in 1..k
  PROVE  RunningBalance(p, start, q, m) = BalanceAfter(p, q[m])
<1> DEFINE n == Len(entries[p])
           R == ByDate(entries[p])
           S == Dated(p, start, end)
           day(i) == entries[p][i].day
           taken == {q[j] : j \in 1..m}
           early == [i \in 1..n |-> IF day(i) < start THEN Deltas(p)[i] ELSE 0]
           f == OnlyRows(Deltas(p), taken, n)
           g == OnlyRows(Deltas(p), Through(p, q[m]), n)
<1>1. /\ n \in Nat /\ DOMAIN entries[p] = 1..n /\ Deltas(p) \in [1..n -> Int]
      /\ \A i \in 1..n : day(i) \in Int
      /\ start \in Int /\ end \in Int
  BY EntriesTyped DEF Days
<1>2. OrdersRows(R, n)
  BY ByDateOrders
<1>3. S = {i \in 1..n : start <= day(i) /\ day(i) <= end} /\ S \in SUBSET (1..n)
  BY <1>1 DEF Dated
<1>4. k \in Nat /\ m \in 1..k /\ q \in [1..k -> S] /\ \A j \in 1..k : q[j] \in S
  BY DEF Lists
<1>5. \A j \in 1..m : j \in 1..k /\ q[j] \in 1..n
  BY <1>3, <1>4
<1>6. [j \in 1..m |-> EntryDelta(p, entries[p][q[j]])] = [j \in 1..m |-> Deltas(p)[q[j]]]
  BY <1>5 DEF Deltas
<1>7. SumUpTo([j \in 1..m |-> Deltas(p)[q[j]]], m) = SumUpTo(f, n)
  <2> DEFINE D == Deltas(p)
  <2>1. /\ Lists(q, k, S, R) /\ n \in Nat /\ OrdersRows(R, n) /\ S \in SUBSET (1..n)
        /\ D \in [1..n -> Int] /\ m \in 1..k
    BY <1>1, <1>2, <1>3
  <2> HIDE DEF n, R, S, D
  <2>2. SumUpTo(FirstValues(D, q, m), m) = SumUpTo(OnlyRows(D, FirstRows(q, m), n), n)
    BY <2>1, SumListed
  <2> QED BY <2>2 DEF D, FirstValues, FirstRows
<1>8. BroughtForward(p, start) = SumUpTo(early, n)
  <2>1. [i \in DOMAIN entries[p] |->
            IF entries[p][i].day < start THEN EntryDelta(p, entries[p][i]) ELSE 0] = early
    BY <1>1 DEF Deltas
  <2> QED BY <2>1 DEF BroughtForward
<1>9. ASSUME NEW i \in 1..n
      PROVE  <<i, q[m]>> \in R <=> day(i) < day(q[m]) \/ (day(i) = day(q[m]) /\ i < q[m])
  BY <1>1, <1>5 DEF ByDate
<1>10. ASSUME NEW i \in S PROVE i \in taken <=> i = q[m] \/ <<i, q[m]>> \in R
  <2>1. PICK j \in 1..k : q[j] = i
    BY DEF Lists
  <2>2. CASE j < m
    <3>1. <<q[j], q[m]>> \in R
      BY <2>1, <2>2 DEF Lists
    <3> QED BY <1>4, <2>1, <2>2, <3>1
  <2>3. CASE j = m
    BY <1>4, <2>1, <2>3
  <2>4. CASE j > m
    <3>1. <<q[m], q[j]>> \in R
      BY <2>1, <2>4 DEF Lists
    <3>2. \A a, b \in 1..n : <<a, b>> \in R => a # b /\ <<b, a>> \notin R
      BY <1>2 DEF OrdersRows
    <3>3. q[m] \in 1..n /\ i \in 1..n
      BY <1>3, <1>5
    <3>4. i # q[m] /\ <<i, q[m]>> \notin R
      BY <2>1, <3>1, <3>2, <3>3
    <3>5. i \notin taken
      <4>1. SUFFICES ASSUME NEW h \in 1..m, q[h] = i PROVE FALSE
        OBVIOUS
      <4>2. h < j /\ h \in 1..k
        BY <1>4, <2>4
      <4>3. <<q[h], q[j]>> \in R
        BY <4>2 DEF Lists
      <4> QED BY <2>1, <3>2, <3>3, <4>1, <4>3
    <3> QED BY <3>4, <3>5
  <2> QED BY <1>4, <2>2, <2>3, <2>4
<1>11. taken \subseteq S /\ q[m] \in S
  BY <1>4, <1>5
<1>12. ASSUME NEW i \in 1..n
       PROVE  /\ i \in Through(p, q[m]) <=> day(i) < start \/ i \in taken
              /\ ~ (day(i) < start /\ i \in taken)
  <2>1. i \in Through(p, q[m]) <=> i = q[m] \/ <<i, q[m]>> \in R
    BY DEF Through
  <2>2. start <= day(q[m]) /\ day(q[m]) <= end /\ day(i) \in Int /\ day(q[m]) \in Int
    BY <1>1, <1>3, <1>11
  <2>3. CASE i \in S
    <3>1. ~ (day(i) < start)
      BY <1>1, <1>3, <2>3
    <3> QED BY <1>10, <2>1, <2>3, <3>1
  <2>4. CASE i \notin S
    <3>1. i \notin taken /\ i # q[m]
      BY <1>11, <2>4
    <3>2. day(i) < start \/ end < day(i)
      BY <1>1, <1>3, <2>4
    <3> QED BY <1>1, <1>9, <2>1, <2>2, <3>1, <3>2
  <2> QED BY <2>3, <2>4
<1>13. /\ early \in [1..n -> Int] /\ f \in [1..n -> Int] /\ g \in [1..n -> Int]
       /\ \A i \in 1..n : g[i] = early[i] + f[i]
  <2>1. early \in [1..n -> Int] /\ f \in [1..n -> Int] /\ g \in [1..n -> Int]
    BY <1>1 DEF OnlyRows
  <2>2. ASSUME NEW i \in 1..n PROVE g[i] = early[i] + f[i]
    <3> HIDE DEF taken
    <3>1. Deltas(p)[i] \in Int
      BY <1>1
    <3> QED BY <1>12, <3>1 DEF OnlyRows
  <2> QED BY <2>1, <2>2
<1> HIDE DEF early, f, g, n
<1>14. /\ SumUpTo(g, n) = SumUpTo(early, n) + SumUpTo(f, n)
       /\ SumUpTo(g, n) \in Int
  BY <1>1, <1>13, SumAdd, SumInt
<1>15. BalanceAfter(p, q[m]) = SumUpTo(g, n)
  BY DEF BalanceAfter, g, n
<1> QED BY <1>6, <1>7, <1>8, <1>14, <1>15 DEF RunningBalance

LEMMA StatementRowTyped ==
  ASSUME PartyTypeOK, NEW p \in Parties
  PROVE  StatementRow(p) \in [1..Len(entries[p]) -> [id : Nat, running : Int]]
<1> DEFINE n == Len(entries[p])
<1>1. n \in Nat /\ Deltas(p) \in [1..n -> Int]
  BY EntriesTyped
<1>2. ASSUME NEW i \in 1..n PROVE BalanceAfter(p, i) \in Int
  <2> DEFINE f == OnlyRows(Deltas(p), Through(p, i), n)
  <2>1. f \in [1..n -> Int]
    BY <1>1 DEF OnlyRows
  <2>2. BalanceAfter(p, i) = SumUpTo(f, n)
    BY DEF BalanceAfter
  <2> HIDE DEF f, n
  <2> QED BY <1>1, <2>1, <2>2, SumInt
<1> QED BY <1>1, <1>2 DEF StatementRow

\* A statement shows what it is asked for, newest first, each entry with the balance after it.
LEMMA StatementShows ==
  ASSUME PartyTypeOK, NEW p \in Parties, linked[p], NEW start \in Days, NEW end \in Days, NEW kinds
  PROVE  Shows(Statement(p, start, end, kinds), StatementRow(p),
               Dated(p, start, end) \cap OfKind(p, kinds),
               Backwards(ByDate(entries[p]), Len(entries[p])))
<1> DEFINE n == Len(entries[p])
           R == ByDate(entries[p])
           S == Dated(p, start, end)
           A == OfKind(p, kinds)
           row == StatementRow(p)
           X == [id : Nat, running : Int]
           q == InOrder(S, R)
           k == Cardinality(S)
           keep == StatementRows(A)
           walk == Walk(p, start, end)
<1>1. /\ n \in Nat /\ DOMAIN entries[p] = 1..n /\ OrdersRows(R, n) /\ row \in [1..n -> X]
  BY EntriesTyped, ByDateOrders, StatementRowTyped
<1>2. S \in SUBSET (1..n) /\ A \in SUBSET (1..n)
  BY <1>1 DEF Dated, OfKind
<1>3. Lists(q, k, S, R)
  <2> HIDE DEF n, R, S, row
  <2> QED BY <1>1, <1>2, InOrderLists
<1>4. /\ k \in Nat /\ q \in [1..k -> S] /\ DOMAIN q = 1..k
      /\ \A m \in 1..k : q[m] \in S /\ q[m] \in 1..n
  <2> HIDE DEF q, k
  <2> QED BY <1>2, <1>3 DEF Lists
<1>5. walk = FirstValues(row, q, k)
  <2>1. walk = [m \in DOMAIN q |-> [id |-> q[m], running |-> RunningBalance(p, start, q, m)]]
    BY DEF Walk
  <2> HIDE DEF q, k, walk
  <2>2. \A m \in 1..k : RunningBalance(p, start, q, m) = BalanceAfter(p, q[m])
    BY <1>3, RunningIsBalance
  <2>3. \A m \in 1..k : row[q[m]] = [id |-> q[m], running |-> BalanceAfter(p, q[m])]
    BY <1>4 DEF StatementRow
  <2> QED BY <1>4, <2>1, <2>2, <2>3 DEF FirstValues
<1>6. \A i \in S : row[i] \in keep <=> i \in A
  <2> TAKE i \in S
  <2>1. row[i] = [id |-> i, running |-> BalanceAfter(p, i)] /\ row[i] \in X
    BY <1>1, <1>2 DEF StatementRow
  <2> QED BY <2>1 DEF StatementRows
<1>7. Statement(p, start, end, kinds) = Reverse(Those(walk, keep))
  BY DEF Statement
<1> HIDE DEF n, R, S, A, row, X, q, k, keep, walk
<1>8. Shows(walk, row, S, R)
  BY <1>3, <1>5 DEF Shows
<1>9. Shows(Those(walk, keep), row, S \cap A, R)
  BY <1>1, <1>2, <1>6, <1>8, SelectShown
<1>10. S \cap A \in SUBSET (1..n)
  BY <1>2
<1>11. Shows(Reverse(Those(walk, keep)), row, S \cap A, Backwards(R, n))
  BY <1>1, <1>9, <1>10, ReverseShown
<1> QED BY <1>7, <1>11 DEF S, A, R, n, row

\* Nothing is selected from nothing.
LEMMA ThoseOfNone == ASSUME NEW keep PROVE Those(<< >>, keep) = << >>
<1>1. << >> \in [1..0 -> {}]
  OBVIOUS
<1>2. PICK g, k : Picks(g, k, << >>, 0, keep)
  BY <1>1, ThoseIs
<1>3. /\ Lists(g, k, {i \in 1..0 : << >>[i] \in keep}, ByNumber(0))
      /\ Those(<< >>, keep) = [m \in 1..k |-> << >>[g[m]]]
  BY <1>2 DEF Picks
<1>4. k = 0
  <2> DEFINE S == {i \in 1..0 : << >>[i] \in keep}
  <2>1. k \in Nat /\ g \in [1..k -> S]
    BY <1>3 DEF Lists
  <2>2. S = {}
    OBVIOUS
  <2>3. ~ (1 \in 1..k)
    <3> HIDE DEF S
    <3> QED BY <2>1, <2>2
  <2> QED BY <2>1, <2>3
<1> QED BY <1>3, <1>4

\* Whatever dates and types a statement is asked for, it shows the rows of the complete one.
LEMMA StatementSelects ==
  ASSUME PartyTypeOK, NEW p \in Parties, NEW start \in Days, NEW end \in Days, NEW kinds
  PROVE  Statement(p, start, end, kinds) =
           Those(Statement(p, 1, NDays, Kinds),
                 StatementRows(Dated(p, start, end) \cap OfKind(p, kinds)))
<1> DEFINE n == Len(entries[p])
           R == Backwards(ByDate(entries[p]), n)
           A == Dated(p, start, end) \cap OfKind(p, kinds)
           row == StatementRow(p)
           X == [id : Nat, running : Int]
           keep == StatementRows(A)
           all == Dated(p, 1, NDays) \cap OfKind(p, Kinds)
           complete == Statement(p, 1, NDays, Kinds)
           s == Statement(p, start, end, kinds)
<1>1. /\ n \in Nat /\ DOMAIN entries[p] = 1..n /\ row \in [1..n -> X]
      /\ \A i \in 1..n : entries[p][i].day \in Days /\ entries[p][i].memo \in Kinds
  BY EntriesTyped, StatementRowTyped
<1>2. OrdersRows(R, n)
  BY <1>1, ByDateOrders, BackwardsOrders
<1>3. all = 1..n /\ A \in SUBSET (1..n) /\ all \cap A = A
  BY <1>1 DEF Dated, OfKind, Days
<1>4. CASE linked[p]
  <2>1. 1 \in Days /\ NDays \in Days
    BY DEF Days
  <2>2. Shows(complete, row, all, R) /\ Shows(s, row, A, R)
    BY <1>4, <2>1, StatementShows
  <2>3. \A i \in all : row[i] \in keep <=> i \in A
    <3> TAKE i \in all
    <3>1. row[i] = [id |-> i, running |-> BalanceAfter(p, i)] /\ row[i] \in X
      BY <1>1, <1>3 DEF StatementRow
    <3> QED BY <3>1 DEF StatementRows
  <2>4. all \in SUBSET (1..n)
    BY <1>3
  <2> HIDE DEF n, R, A, row, X, keep, all, complete, s
  <2>5. Shows(Those(complete, keep), row, all \cap A, R)
    BY <1>1, <2>2, <2>3, <2>4, SelectShown
  <2>6. s = Those(complete, keep)
    <3> DEFINE t == Those(complete, keep)
    <3>1. Shows(t, row, A, R)
      BY <1>3, <2>5
    <3>2. n \in Nat /\ A \in SUBSET (1..n) /\ OrdersRows(R, n) /\ Shows(s, row, A, R)
      BY <1>1, <1>2, <1>3, <2>2
    <3> HIDE DEF t
    <3>3. s = t
      BY <3>1, <3>2, ShowsOne
    <3> QED BY <3>3 DEF t
  <2> QED BY <2>6 DEF keep, A, s, complete
<1>5. CASE ~linked[p]
  <2>1. s = << >> /\ complete = << >>
    BY <1>5 DEF Statement
  <2>2. Those(complete, keep) = << >>
    <3> HIDE DEF keep
    <3> QED BY <2>1, ThoseOfNone
  <2> QED BY <2>1, <2>2
<1> QED BY <1>4, <1>5

\* The balance of an account is what its entries add up to.
BalanceExact == \A p \in Parties : balance[p] = SumUpTo(Deltas(p), Len(entries[p]))

\* So a statement that goes to the last day ends on it.
LEMMA StatementEnds ==
  ASSUME PartyTypeOK, BalanceExact, NEW p \in Parties, party[p] = "present", NEW start \in Days,
         Statement(p, start, NDays, Kinds) # << >>
  PROVE  Head(Statement(p, start, NDays, Kinds)).running = CurrentBalance(p)
<1> DEFINE n == Len(entries[p])
           R == ByDate(entries[p])
           S == Dated(p, start, NDays) \cap OfKind(p, Kinds)
           row == StatementRow(p)
           day(i) == entries[p][i].day
           s == Statement(p, start, NDays, Kinds)
<1>1. linked[p]
  BY DEF Statement
<1>2. NDays \in Days
  BY DEF Days
<1>3. PICK r, l : Lists(r, l, S, Backwards(R, n)) /\ s = FirstValues(row, r, l)
  <2>1. Shows(s, row, S, Backwards(R, n))
    BY <1>1, <1>2, StatementShows
  <2> HIDE DEF s, row, S, R, n
  <2> QED BY <2>1 DEF Shows
<1>4. /\ n \in Nat /\ DOMAIN entries[p] = 1..n /\ row \in [1..n -> [id : Nat, running : Int]]
      /\ Deltas(p) \in [1..n -> Int]
      /\ \A i \in 1..n : day(i) \in Days /\ entries[p][i].memo \in Kinds
  BY EntriesTyped, StatementRowTyped
<1>5. S = {i \in 1..n : start <= day(i)}
  BY <1>4 DEF Dated, OfKind, Days
<1>6. l \in Nat /\ r \in [1..l -> S] /\ l # 0
  <2>1. l \in Nat /\ r \in [1..l -> S]
    BY <1>3 DEF Lists
  <2>2. CASE l = 0
    <3>1. s = << >>
      BY <1>3, <2>2 DEF FirstValues
    <3> QED BY <3>1
  <2> QED BY <2>1, <2>2
<1>7. 1 \in 1..l /\ r[1] \in S /\ r[1] \in 1..n
  BY <1>5, <1>6
<1>8. Head(s) = row[r[1]]
  <2>1. s = [m \in 1..l |-> row[r[m]]]
    BY <1>3 DEF FirstValues
  <2>2. s \in [1..l -> [id : Nat, running : Int]]
    <3>1. \A m \in 1..l : r[m] \in 1..n
      BY <1>5, <1>6
    <3> QED BY <1>4, <2>1, <3>1
  <2>3. s \in Seq([id : Nat, running : Int]) /\ s # << >>
    <3> HIDE DEF s
    <3> DEFINE X == [id : Nat, running : Int]
    <3>1. l \in Nat /\ s \in [1..l -> X] /\ l # 0
      BY <1>6, <2>2
    <3> HIDE DEF X
    <3>2. s \in Seq(X)
      BY <3>1, IsASeq
    <3> QED BY <3>2 DEF s, X
  <2>4. Head(s) = s[1]
    <3> HIDE DEF s
    <3> QED BY <2>3, HeadTailProperties
  <2>5. s[1] = row[r[1]]
    <3> HIDE DEF s
    <3> QED BY <1>7, <2>1
  <2> QED BY <2>4, <2>5
<1>9. ASSUME NEW i \in 1..n PROVE i \in Through(p, r[1])
  <2>1. <<i, r[1]>> \in R <=> day(i) < day(r[1]) \/ (day(i) = day(r[1]) /\ i < r[1])
    BY <1>4, <1>7 DEF ByDate
  <2>2. CASE i \in S
    <3>1. PICK m \in 1..l : r[m] = i
      BY <1>3, <2>2 DEF Lists
    <3>2. CASE m = 1
      BY <3>1, <3>2 DEF Through
    <3>3. CASE m # 1
      <4>1. 1 < m
        BY <1>6, <3>3
      <4>2. <<r[1], r[m]>> \in Backwards(R, n)
        BY <1>3, <1>7, <4>1 DEF Lists
      <4>3. <<i, r[1]>> \in R
        BY <3>1, <4>2 DEF Backwards
      <4> QED BY <4>3 DEF Through
    <3> QED BY <3>2, <3>3
  <2>3. CASE i \notin S
    <3>1. day(i) \in Int /\ day(r[1]) \in Int /\ start \in Int
      BY <1>4, <1>7 DEF Days
    <3>2. start <= day(r[1]) /\ ~ (start <= day(i))
      <4> HIDE DEF day, S
      <4> QED BY <1>5, <1>7, <2>3
    <3>3. day(i) < day(r[1])
      <4> HIDE DEF day
      <4> QED BY <3>1, <3>2
    <3> QED BY <2>1, <3>3 DEF Through
  <2> QED BY <2>2, <2>3
<1>10. OnlyRows(Deltas(p), Through(p, r[1]), n) = Deltas(p)
  BY <1>4, <1>9 DEF OnlyRows
<1>11. row[r[1]].running = SumUpTo(Deltas(p), n)
  BY <1>7, <1>10 DEF StatementRow, BalanceAfter
<1>12. CurrentBalance(p) = SumUpTo(Deltas(p), n)
  BY <1>1 DEF BalanceExact, CurrentBalance
<1> QED BY <1>8, <1>11, <1>12

LEMMA StatementsAgree == ASSUME PartyTypeOK, BalanceExact PROVE StatementAgrees
<1>1. ASSUME NEW p \in Parties, party[p] = "present", Statement(p, 1, NDays, Kinds) # << >>
      PROVE  Head(Statement(p, 1, NDays, Kinds)).running = CurrentBalance(p)
  <2>1. 1 \in Days
    BY DEF Days
  <2> QED BY <1>1, <2>1, StatementEnds
<1>2. ASSUME NEW p \in Parties, NEW start \in Days, NEW end \in Days, NEW kinds
      PROVE  Statement(p, start, end, kinds) =
               Those(Statement(p, 1, NDays, Kinds),
                     StatementRows(Dated(p, start, end) \cap OfKind(p, kinds)))
  BY <1>2, StatementSelects
<1>3. SUFFICES ASSUME NEW p \in Parties, party[p] = "present"
               PROVE  /\ Statement(p, 1, NDays, Kinds) # << >> =>
                           Head(Statement(p, 1, NDays, Kinds)).running = CurrentBalance(p)
                      /\ \A start, end \in Days : \A kinds :
                           Statement(p, start, end, kinds) =
                             Those(Statement(p, 1, NDays, Kinds),
                                   StatementRows(Dated(p, start, end) \cap OfKind(p, kinds)))
  BY ZenonT(60) DEF StatementAgrees
<1> QED BY <1>1, <1>2, <1>3

\* An entry that is posted goes to the end and into the balance.
LEMMA PostingExact ==
  ASSUME PartyTypeOK, BalanceExact, NEW p \in Parties, NEW side, NEW amount \in Int, NEW day, NEW memo,
         PostEntry(p, side, amount, day, memo)
  PROVE  BalanceExact'
<1> DEFINE e == [day |-> day, side |-> side, amount |-> amount, memo |-> memo]
           n == Len(entries[p])
           d == BalanceDelta(p, side, amount)
<1>1. /\ entries' = [entries EXCEPT ![p] = Append(entries[p], e)]
      /\ balance' = [balance EXCEPT ![p] = balance[p] + d]
  BY DEF PostEntry
<1>2. n \in Nat /\ entries[p] \in Seq(Entry) /\ DOMAIN entries[p] = 1..n
  BY EntriesTyped DEF PartyTypeOK
<1>3. entries'[p] = Append(entries[p], e) /\ balance'[p] = balance[p] + d
  BY <1>1 DEF PartyTypeOK
<1>4. EntryDelta(p, e) = d
  BY DEF EntryDelta, BalanceDelta
<1>5. /\ Len(entries'[p]) = n + 1 /\ entries'[p][n + 1] = e
      /\ \A i \in 1..n : entries'[p][i] = entries[p][i]
  <2> DEFINE X == Entry \cup {e}
  <2>1. entries[p] \in Seq(X) /\ e \in X
    <3>1. Entry \subseteq X
      OBVIOUS
    <3> HIDE DEF e
    <3> QED BY <1>2, <3>1, SeqMonotonic
  <2> HIDE DEF e, X
  <2> QED BY <1>3, <2>1, AppendProperties
<1> DEFINE f == Deltas(p)
           g == Deltas(p)'
<1>6. /\ \A i \in 1..n : g[i] = f[i]
      /\ g[n + 1] = d
  BY <1>2, <1>4, <1>5 DEF Deltas
<1>7. SumUpTo(g, n + 1) = SumUpTo(f, n) + d
  <2> HIDE DEF f, g, d, n
  <2>1. SumUpTo(g, n) = SumUpTo(f, n)
    BY <1>2, <1>6, SumSameRows
  <2>2. SumUpTo(g, n + 1) = SumUpTo(g, n) + g[n + 1]
    BY <1>2, SumEquation
  <2> QED BY <1>6, <2>1, <2>2
<1>8. balance'[p] = SumUpTo(g, Len(entries'[p]))
  BY <1>3, <1>5, <1>7 DEF BalanceExact
<1>9. ASSUME NEW o \in Parties, o # p
      PROVE  balance'[o] = SumUpTo(Deltas(o)', Len(entries'[o]))
  <2>1. entries'[o] = entries[o] /\ balance'[o] = balance[o]
    BY <1>1, <1>9 DEF PartyTypeOK
  <2>2. Deltas(o)' = Deltas(o)
    BY <2>1 DEF Deltas, EntryDelta
  <2> QED BY <2>1, <2>2 DEF BalanceExact
<1> QED BY <1>8, <1>9 DEF BalanceExact

LEMMA ExactSame == ASSUME BalanceExact, UNCHANGED <<entries, balance>> PROVE BalanceExact'
BY DEF BalanceExact, Deltas, EntryDelta

\* The two forms in which the views post.
LEMMA PostSignedExact ==
  ASSUME PartyTypeOK, BalanceExact, NEW p \in Parties, NEW amount \in Int, NEW memo,
         PostSigned(p, amount, memo)
  PROVE  BalanceExact'
<1>1. CASE amount > 0
  BY <1>1, PostingExact DEF PostSigned
<1>2. CASE ~ (amount > 0)
  <2>1. -amount \in Int
    OBVIOUS
  <2> QED BY <1>2, <2>1, PostingExact DEF PostSigned
<1> QED BY <1>1, <1>2

LEMMA PostDocumentExact ==
  ASSUME PartyTypeOK, BalanceExact, NEW q \in Requests, NEW side, NEW amount \in Int, NEW day,
         NEW memo, PostDocument(q, side, amount, day, memo)
  PROVE  BalanceExact'
<1>1. PICK p \in Parties : p = copy[q].of
  BY DEF PostDocument, PartyTypeOK
<1>2. PostEntry(p, side, amount, day, memo)
  BY <1>1 DEF PostDocument
<1> QED BY <1>2, PostingExact

\* Whatever the desks do, a balance changes by what is posted.
LEMMA NextExact ==
  ASSUME TablesOK, BuyersLoaded, BalanceExact, [Next]_backOfficeVars PROVE BalanceExact'
<1>1. PartyTypeOK
  BY DEF TablesOK
<1>2. CASE PartyTask
  <2>1. ASSUME NEW p \in Parties, NEW o \in Amounts \cup {0}, CreateParty(p, o) PROVE BalanceExact'
    <3>1. CASE o = 0
      BY <2>1, <3>1, ExactSame DEF CreateParty
    <3>2. CASE o # 0
      <4>1. o \in Int /\ PostSigned(p, o, "opening")
        BY <2>1, <3>2 DEF CreateParty
      <4> QED BY <1>1, <4>1, PostSignedExact
    <3> QED BY <3>1, <3>2
  <2>2. ASSUME NEW p \in Parties, QuickCreate(p) \/ DeleteParty(p) PROVE BalanceExact'
    BY <2>2, ExactSame DEF QuickCreate, DeleteParty
  <2>3. ASSUME NEW q \in Clerks, NEW p \in Parties, Load(q, p) PROVE BalanceExact'
    BY <2>3, ExactSame DEF Load, accountVars
  <2>4. ASSUME NEW q \in Clerks, SaveForm(q) \/ RefuseDocument(q) PROVE BalanceExact'
    BY <2>4, ExactSame DEF SaveForm, RefuseDocument, accountVars
  <2>5. ASSUME NEW q \in Clerks, NEW n \in Amounts, NEW d \in Days, Pay(q, n, d)
        PROVE  BalanceExact'
    <3>1. /\ q \in Requests /\ n \in Int
          /\ PostDocument(q, Decrease(copy[q].of), n, d, "payment")
      BY <2>5 DEF Pay, Clerks
    <3> QED BY <1>1, <3>1, PostDocumentExact
  <2>6. ASSUME NEW q \in Clerks, NEW n \in Amounts, AdjustBalance(q, n) PROVE BalanceExact'
    <3>1. PICK p \in Parties : p = copy[q].of
      BY <1>1, <2>6 DEF AdjustBalance, PartyTypeOK, Clerks
    <3>2. n \in Int /\ PostSigned(p, n, "adjustment")
      BY <2>6, <3>1 DEF AdjustBalance
    <3> QED BY <1>1, <3>2, PostSignedExact
  <2> QED BY <1>2, <2>1, <2>2, <2>3, <2>4, <2>5, <2>6 DEF PartyTask
<1>3. CASE SaleTask
  <2>1. PICK q \in Clerks, p \in Products, n \in Amounts, d \in Days : SellOnCredit(q, p, n, d)
    BY <1>3 DEF SaleTask
  <2>2. /\ q \in Requests /\ n \in Int
        /\ PostDocument(q, Increase(copy[q].of), n, d, "sale")
    BY <2>1 DEF SellOnCredit, Clerks
  <2> QED BY <1>1, <2>2, PostDocumentExact
<1>4. CASE UNCHANGED partyVars
  BY <1>4, ExactSame DEF partyVars, accountVars
<1>5. CASE OrderTask
  <2>1. CASE CreateOrder
    BY <2>1, ExactSame DEF CreateOrder
  <2>2. ASSUME NEW b \in Buyers, OpenForm(b) \/ Post(b) \/ CountOrder(b) PROVE BalanceExact'
    BY <1>4, <2>2 DEF OpenForm, Post, CountOrder
  <2>3. ASSUME NEW b \in Buyers, NEW n \in Worths, Receive(b, n) PROVE BalanceExact'
    BY <2>3, ExactSame DEF Receive, accountVars
  <2>4. ASSUME NEW b \in Buyers, RefusePurchase(b) PROVE BalanceExact'
    BY <2>4, ExactSame DEF RefusePurchase, accountVars
  <2>5. ASSUME NEW b \in Buyers, NEW date \in {"none", "far"}, CommitPurchase(b, date)
        PROVE  BalanceExact'
    <3>1. CASE worth[b] = 0
      BY <2>5, <3>1, ExactSame DEF CommitPurchase
    <3>2. CASE worth[b] # 0
      <4>1. PostEntry(OrderedFrom, Increase(OrderedFrom), worth[b], NDays, "purchase")
        BY <2>5, <3>2 DEF CommitPurchase
      <4>2. OrderedFrom \in Parties /\ worth[b] \in Int
        BY DEF Parties, TablesOK, OrderTypeOK
      <4> QED BY <1>1, <4>1, <4>2, PostingExact
    <3> QED BY <3>1, <3>2
  <2> QED BY <1>5, <2>1, <2>2, <2>3, <2>4, <2>5 DEF OrderTask
<1> QED BY <1>2, <1>3, <1>4, <1>5, Desks

LEMMA ExactInductive == Spec => []BalanceExact
<1>1. Init => BalanceExact
  <2>1. SUFFICES ASSUME Init, NEW p \in Parties
                 PROVE  balance[p] = SumUpTo(Deltas(p), Len(entries[p]))
    BY DEF BalanceExact
  <2>2. balance[p] = 0 /\ entries[p] = << >>
    BY <2>1 DEF Init, PartyInit
  <2>3. Len(entries[p]) = 0
    BY <2>2
  <2>4. SumUpTo(Deltas(p), 0) = 0
    BY SumEquation
  <2> QED BY <2>2, <2>3, <2>4
<1>2. TablesOK /\ BuyersLoaded /\ BalanceExact /\ [Next]_backOfficeVars => BalanceExact'
  BY NextExact
<1>3. Init => BuyersLoaded
  BY DEF Init, OrderInit, BuyersLoaded, InTransaction
<1>4. TablesOK /\ BuyersLoaded /\ [Next]_backOfficeVars => BuyersLoaded'
  BY NextBuyersLoaded
<1> QED BY <1>1, <1>2, <1>3, <1>4, TablesInductive, PTL DEF Spec

\* The complete statement of a party ends on the balance shown above it, documents entered late
\* included; and one asked for some dates or some types shows the rows of the complete one, in
\* its order and with its running balances: filtering never distorts the running total
\* (get_party_statement, post_transaction).
THEOREM StatementsAlwaysAgree == Spec => []StatementAgrees
<1>1. PartyTypeOK /\ BalanceExact => StatementAgrees
  BY StatementsAgree
<1>2. TablesOK => PartyTypeOK
  BY DEF TablesOK
<1> QED BY <1>1, <1>2, TablesInductive, ExactInductive, PTL

-----------------------------------------------------------------------------
(***************************************************************************)
(* The status of an order.                                                 *)
(***************************************************************************)

\* A purchase that has posted, and has counted what the order has received, will be right
\* when it commits.
Settles(b) ==
  desk[b] = "counted" /\ worth[b] # 0 =>
    counted[b] = StatusOf([l \in Lines |-> ReceivedBy(b, l)], orderStatus)

\* Only one purchase is behind the lock of the inventory account; what it has counted holds
\* until it commits, unless another one commits that takes no lock.
OrderInv ==
  /\ \A b, c \in Buyers : LocksGoods(b) /\ LocksGoods(c) => b = c
  /\ \A b \in Buyers : desk[b] # "away" => orderStatus # "none"
  /\ \A b \in Buyers : desk[b] = "counted" => counted[b] # "none"
  /\ orderStatus = "none" => \A l \in Lines : received[l] = 0
  /\ ~given => \A b \in Buyers : Settles(b)
  /\ OrderStatusCurrent

\* Only the rows of the order and of its purchases count.
LEMMA OrderSame ==
  ASSUME OrderInv, UNCHANGED <<orderStatus, received, desk, cart, worth, counted, given>>
  PROVE  OrderInv'
BY DEF OrderInv, OrderStatusCurrent, Settles, ReceivedBy, LocksGoods, StatusOf

\* Counting again, from what was counted before, gives the status from scratch.
LEMMA StatusFromScratch ==
  ASSUME NEW old \in [Lines -> Nat], NEW new \in [Lines -> Nat], \A l \in Lines : old[l] <= new[l],
         NEW before \in {"draft", "partially_received", "received"},
         before = StatusOf(old, "draft")
  PROVE  StatusOf(new, before) = StatusOf(new, "draft") /\ StatusOf(new, before) # "none"
<1>1. 1 \in Lines /\ \A l \in Lines : Ordered[l] \in Nat /\ Ordered[l] > 0
  <2>1. 1 \in Lines
    BY DEF Lines
  <2>2. \A l \in Lines : Ordered[l] \in Nat \ {0}
    OBVIOUS
  <2> QED BY <2>1, <2>2
<1>2. CASE \E l \in Lines : new[l] > 0
  BY <1>2 DEF StatusOf
<1>3. CASE \A l \in Lines : ~ (new[l] > 0)
  <2>1. \A l \in Lines : ~ (old[l] > 0) /\ ~ (Ordered[l] <= old[l]) /\ ~ (Ordered[l] <= new[l])
    BY <1>1, <1>3
  <2>2. before = "draft"
    BY <1>1, <2>1 DEF StatusOf
  <2> QED BY <2>2 DEF StatusOf
<1> QED BY <1>2, <1>3

\* A purchase that is where it was, with what it had, and the order as it was.
LEMMA SettlesSame ==
  ASSUME NEW b \in Buyers, Settles(b), orderStatus' = orderStatus, received' = received,
         cart'[b] = cart[b], worth'[b] = worth[b], counted'[b] = counted[b], desk'[b] = desk[b]
  PROVE  Settles(b)'
<1>1. [l \in Lines |-> ReceivedBy(b, l)]' = [l \in Lines |-> ReceivedBy(b, l)]
  BY DEF ReceivedBy
<1>2. \A q : StatusOf(q, orderStatus)' = StatusOf(q, orderStatus)
  BY DEF StatusOf
<1> QED BY <1>1, <1>2 DEF Settles, ReceivedBy, StatusOf

\* A purchase goes away, and nothing else happens to the order.
LEMMA AwayKeeps ==
  ASSUME OrderTypeOK, OrderInv, NEW b \in Buyers, desk' = [desk EXCEPT ![b] = "away"],
         \A c \in Buyers : c # b => cart'[c] = cart[c] /\ worth'[c] = worth[c] /\ counted'[c] = counted[c],
         UNCHANGED <<orderStatus, received, given>>
  PROVE  OrderInv'
<1> USE DEF OrderTypeOK
<1>1. \A c \in Buyers : LocksGoods(c)' => c # b /\ LocksGoods(c)
  BY DEF LocksGoods
<1>2. \A c, e \in Buyers : LocksGoods(c)' /\ LocksGoods(e)' => c = e
  BY <1>1 DEF OrderInv
<1>3. \A c \in Buyers :
        /\ desk'[c] # "away" => orderStatus' # "none"
        /\ desk'[c] = "counted" => counted'[c] # "none"
  BY DEF OrderInv
<1>4. orderStatus' = "none" => \A l \in Lines : received'[l] = 0
  BY DEF OrderInv
<1>5. ASSUME ~given', NEW c \in Buyers PROVE Settles(c)'
  <2>1. CASE c = b
    BY <2>1 DEF Settles
  <2>2. CASE c # b
    <3>1. Settles(c) /\ desk'[c] = desk[c]
      BY <1>5, <2>2 DEF OrderInv
    <3> QED BY <2>2, <3>1, SettlesSame
  <2> QED BY <2>1, <2>2
<1>6. OrderStatusCurrent'
  BY DEF OrderInv, OrderStatusCurrent, StatusOf
<1> QED BY <1>2, <1>3, <1>4, <1>5, <1>6 DEF OrderInv

\* The transaction of a purchase ends.  One that has posted a value held the lock, so what it
\* has counted is still so, and no other purchase has counted anything.
LEMMA CommitKeeps ==
  ASSUME OrderTypeOK, OrderInv, NEW b \in Buyers, NEW date, CommitPurchase(b, date)
  PROVE  OrderInv'
<1> USE DEF OrderTypeOK
<1> DEFINE new == [l \in Lines |-> ReceivedBy(b, l)]
<1>1. /\ desk[b] = "counted" /\ desk' = [desk EXCEPT ![b] = "away"]
      /\ orderStatus' = counted[b] /\ received' = new
      /\ worth' = [worth EXCEPT ![b] = 0] /\ counted' = [counted EXCEPT ![b] = "none"]
      /\ given' = (given \/ worth[b] = 0)
  BY DEF CommitPurchase
<1>2. orderStatus # "none" /\ orderStatus \in {"draft", "partially_received", "received"}
  BY <1>1 DEF OrderInv, Statuses
<1>3. new \in [Lines -> Nat] /\ \A l \in Lines : received[l] <= new[l]
  <2>1. \A l \in Lines : received[l] \in Nat /\ cart[b][l] \in Nat
    OBVIOUS
  <2> QED BY <2>1 DEF ReceivedBy
<1> HIDE DEF new
<1>4. \A c \in Buyers : LocksGoods(c)' => c # b /\ LocksGoods(c)
  BY <1>1 DEF LocksGoods
<1>5. \A c, e \in Buyers : LocksGoods(c)' /\ LocksGoods(e)' => c = e
  BY <1>4 DEF OrderInv
<1>6. counted[b] # "none"
  BY <1>1 DEF OrderInv
<1>7. ASSUME ~given' PROVE /\ \A c \in Buyers : Settles(c)'
                           /\ OrderStatusCurrent'
  <2>1. ~given /\ worth[b] # 0 /\ Settles(b) /\ OrderStatusCurrent
    BY <1>1, <1>7 DEF OrderInv
  <2>2. counted[b] = StatusOf(new, orderStatus)
    BY <1>1, <2>1 DEF Settles, new
  <2>3. orderStatus = StatusOf(received, "draft")
    BY <1>2, <2>1 DEF OrderStatusCurrent
  <2>4. counted[b] = StatusOf(new, "draft") /\ counted[b] # "none"
    BY <1>2, <1>3, <2>2, <2>3, StatusFromScratch
  <2>5. OrderStatusCurrent'
    BY <1>1, <2>4 DEF OrderStatusCurrent, StatusOf
  <2>6. LocksGoods(b)
    BY <1>1, <2>1 DEF LocksGoods
  <2>7. ASSUME NEW c \in Buyers PROVE Settles(c)'
    <3>1. CASE c = b
      BY <1>1, <3>1 DEF Settles
    <3>2. CASE c # b
      <4>1. ~LocksGoods(c)
        BY <2>6, <3>2 DEF OrderInv
      <4> QED BY <1>1, <3>2, <4>1 DEF LocksGoods, Settles
    <3> QED BY <3>1, <3>2
  <2> QED BY <2>5, <2>7
<1>8. \A c \in Buyers :
        /\ desk'[c] # "away" => orderStatus' # "none"
        /\ desk'[c] = "counted" => counted'[c] # "none"
  BY <1>1, <1>6 DEF OrderInv
<1>9. orderStatus' = "none" => \A l \in Lines : received'[l] = 0
  BY <1>1, <1>6
<1>10. OrderStatusCurrent'
  BY <1>7 DEF OrderStatusCurrent
<1>11. ~given' => \A c \in Buyers : Settles(c)'
  BY <1>7
<1> HIDE DEF OrderTypeOK
<1> QED BY <1>5, <1>8, <1>9, <1>10, <1>11 DEF OrderInv

\* A purchase moves on before its posting.
LEMMA MoveKeeps ==
  ASSUME OrderTypeOK, OrderInv, NEW b \in Buyers, desk[b] \in {"away", "form"},
         orderStatus # "none",
         desk' \in {[desk EXCEPT ![b] = "form"], [desk EXCEPT ![b] = "received"]},
         \A c \in Buyers : c # b => cart'[c] = cart[c] /\ worth'[c] = worth[c],
         UNCHANGED <<orderStatus, received, counted, given>>
  PROVE  OrderInv'
<1> USE DEF OrderTypeOK
<1>1. \A c \in Buyers : LocksGoods(c)' => c # b /\ LocksGoods(c)
  BY DEF LocksGoods
<1>2. \A c, e \in Buyers : LocksGoods(c)' /\ LocksGoods(e)' => c = e
  BY <1>1 DEF OrderInv
<1>3. \A c \in Buyers :
        /\ desk'[c] # "away" => orderStatus' # "none"
        /\ desk'[c] = "counted" => counted'[c] # "none"
  BY DEF OrderInv
<1>4. orderStatus' = "none" => \A l \in Lines : received'[l] = 0
  BY DEF OrderInv
<1>5. ASSUME ~given', NEW c \in Buyers PROVE Settles(c)'
  <2>1. CASE c = b
    BY <2>1 DEF Settles
  <2>2. CASE c # b
    <3>1. Settles(c) /\ desk'[c] = desk[c]
      BY <1>5, <2>2 DEF OrderInv
    <3> QED BY <2>2, <3>1, SettlesSame
  <2> QED BY <2>1, <2>2
<1>6. OrderStatusCurrent'
  BY DEF OrderInv, OrderStatusCurrent, StatusOf
<1> QED BY <1>2, <1>3, <1>4, <1>5, <1>6 DEF OrderInv

LEMMA OrderTaskKeeps == ASSUME OrderTypeOK, OrderInv, OrderTask PROVE OrderInv'
<1> USE DEF OrderTypeOK
<1>1. CASE CreateOrder
  <2>1. /\ orderStatus = "none" /\ orderStatus' = "draft"
        /\ UNCHANGED <<received, desk, cart, worth, counted, given>>
    BY <1>1 DEF CreateOrder
  <2>2. \A b \in Buyers : desk[b] = "away"
    BY <2>1 DEF OrderInv
  <2>3. \A l \in Lines : received[l] = 0 /\ Ordered[l] \in Nat \ {0}
    BY <2>1 DEF OrderInv
  <2>4. \A b, c \in Buyers : LocksGoods(b)' /\ LocksGoods(c)' => b = c
    BY <2>1, <2>2 DEF LocksGoods
  <2>5. \A b \in Buyers : Settles(b)'
    BY <2>1, <2>2 DEF Settles
  <2>6. OrderStatusCurrent'
    <3>1. 1 \in Lines
      BY DEF Lines
    <3>2. ~ (Ordered[1] <= received'[1]) /\ \A l \in Lines : ~ (received'[l] > 0)
      BY <2>1, <2>3, <3>1
    <3> QED BY <2>1, <3>1, <3>2 DEF OrderStatusCurrent, StatusOf
  <2> QED BY <2>1, <2>2, <2>4, <2>5, <2>6 DEF OrderInv
<1>2. ASSUME NEW b \in Buyers, OpenForm(b) PROVE OrderInv'
  <2>1. /\ desk[b] = "away" /\ orderStatus # "none" /\ desk' = [desk EXCEPT ![b] = "form"]
        /\ \A c \in Buyers : c # b => cart'[c] = cart[c]
        /\ UNCHANGED <<orderStatus, received, worth, counted, given>>
    BY <1>2 DEF OpenForm
  <2> QED BY <2>1, MoveKeeps
<1>3. ASSUME NEW b \in Buyers, NEW n \in Worths, Receive(b, n) PROVE OrderInv'
  <2>1. /\ desk[b] = "form" /\ desk' = [desk EXCEPT ![b] = "received"]
        /\ \A c \in Buyers : c # b => cart'[c] = cart[c] /\ worth'[c] = worth[c]
        /\ UNCHANGED <<orderStatus, received, counted, given>>
    BY <1>3 DEF Receive
  <2>2. orderStatus # "none"
    BY <2>1 DEF OrderInv
  <2> QED BY <2>1, <2>2, MoveKeeps
<1>4. ASSUME NEW b \in Buyers, Post(b) PROVE OrderInv'
  <2>1. /\ desk[b] = "received" /\ desk' = [desk EXCEPT ![b] = "posted"]
        /\ worth[b] # 0 => GoodsFree
        /\ UNCHANGED <<orderStatus, received, cart, worth, counted, given>>
    BY <1>4 DEF Post
  <2>2. \A c \in Buyers : LocksGoods(c)' => c = b \/ LocksGoods(c)
    BY <2>1 DEF LocksGoods
  <2>3. LocksGoods(b)' => \A c \in Buyers : ~LocksGoods(c)
    BY <2>1 DEF LocksGoods, GoodsFree
  <2>4. \A c, e \in Buyers : LocksGoods(c)' /\ LocksGoods(e)' => c = e
    BY <2>2, <2>3 DEF OrderInv
  <2>5. \A c \in Buyers : Settles(c) => Settles(c)'
    <3>1. ASSUME NEW c \in Buyers, Settles(c) PROVE Settles(c)'
      <4>1. CASE c = b
        BY <2>1, <4>1 DEF Settles
      <4>2. CASE c # b
        BY <2>1, <3>1, <4>2, SettlesSame
      <4> QED BY <4>1, <4>2
    <3> QED BY <3>1
  <2>6. /\ ~given' => \A c \in Buyers : Settles(c)'
        /\ OrderStatusCurrent'
    BY <2>1, <2>5 DEF OrderInv, OrderStatusCurrent, StatusOf
  <2>7. \A c \in Buyers : desk'[c] # "away" => desk[c] # "away"
    BY <2>1
  <2>8. \A c \in Buyers : desk'[c] = "counted" => desk[c] = "counted"
    BY <2>1
  <2> QED BY <2>1, <2>4, <2>6, <2>7, <2>8 DEF OrderInv
<1>5. ASSUME NEW b \in Buyers, CountOrder(b) PROVE OrderInv'
  <2> DEFINE new == [l \in Lines |-> ReceivedBy(b, l)]
  <2>1. /\ desk[b] = "posted" /\ desk' = [desk EXCEPT ![b] = "counted"]
        /\ counted' = [counted EXCEPT ![b] = StatusOf(new, orderStatus)]
        /\ UNCHANGED <<orderStatus, received, cart, worth, given>>
    BY <1>5 DEF CountOrder
  <2>2. orderStatus # "none" /\ StatusOf(new, orderStatus) \in Statuses
    BY <2>1, StatusOfType DEF OrderInv
  <2>3. StatusOf(new, orderStatus) # "none"
    BY <2>2 DEF StatusOf
  <2>4. counted'[b] = StatusOf(new, orderStatus)
    BY <2>1
  <2>5. (StatusOf(new, orderStatus))' = StatusOf(new, orderStatus)
    BY <2>1 DEF StatusOf, ReceivedBy
  <2> HIDE DEF new
  <2>6. \A c \in Buyers : LocksGoods(c)' => LocksGoods(c)
    BY <2>1 DEF LocksGoods
  <2>7. \A c \in Buyers : Settles(c) => Settles(c)'
    <3>1. ASSUME NEW c \in Buyers, Settles(c) PROVE Settles(c)'
      <4>1. CASE c = b
        BY <2>4, <2>5, <4>1 DEF Settles, new
      <4>2. CASE c # b
        BY <2>1, <3>1, <4>2, SettlesSame
      <4> QED BY <4>1, <4>2
    <3> QED BY <3>1
  <2>8. /\ ~given' => \A c \in Buyers : Settles(c)'
        /\ OrderStatusCurrent'
    BY <2>1, <2>7 DEF OrderInv, OrderStatusCurrent, StatusOf
  <2>9. \A c \in Buyers : desk'[c] = "counted" /\ c # b => desk[c] = "counted" /\ counted'[c] = counted[c]
    BY <2>1
  <2>10. \A c \in Buyers : desk'[c] = "counted" => counted'[c] # "none"
    BY <2>3, <2>4, <2>9 DEF OrderInv
  <2> QED BY <2>1, <2>2, <2>6, <2>8, <2>10 DEF OrderInv
<1>6. ASSUME NEW b \in Buyers, RefusePurchase(b) PROVE OrderInv'
  <2>1. /\ desk' = [desk EXCEPT ![b] = "away"]
        /\ \A c \in Buyers : c # b => cart'[c] = cart[c] /\ worth'[c] = worth[c] /\ counted'[c] = counted[c]
        /\ UNCHANGED <<orderStatus, received, given>>
    BY <1>6 DEF RefusePurchase
  <2> QED BY <2>1, AwayKeeps
<1> QED BY <1>1, <1>2, <1>3, <1>4, <1>5, <1>6, CommitKeeps DEF OrderTask

LEMMA NextOrderInv ==
  ASSUME TablesOK, OrderInv, [Next]_backOfficeVars PROVE OrderInv'
<1>1. CASE UNCHANGED orderVars
  BY <1>1, OrderSame DEF orderVars
<1>2. CASE OrderTask
  BY <1>2, OrderTaskKeeps DEF TablesOK
<1> QED BY <1>1, <1>2, Desks

LEMMA OrderInductive == Spec => []OrderInv
<1>1. Init => OrderInv
  <2>1. ASSUME Init PROVE OrderInv
    <3>1. /\ orderStatus = "none" /\ received = Empty /\ ~given
          /\ \A b \in Buyers : desk[b] = "away"
      BY <2>1 DEF Init, OrderInit
    <3>2. \A l \in Lines : received[l] = 0 /\ Ordered[l] \in Nat \ {0}
      BY <3>1 DEF Empty
    <3>3. OrderStatusCurrent
      <4>1. 1 \in Lines
        BY DEF Lines
      <4>2. ~ (Ordered[1] <= received[1]) /\ \A l \in Lines : ~ (received[l] > 0)
        BY <3>2, <4>1
      <4> QED BY <3>1, <4>1, <4>2 DEF OrderStatusCurrent, StatusOf
    <3> QED BY <3>1, <3>2, <3>3 DEF OrderInv, LocksGoods, Settles
  <2> QED BY <2>1
<1>2. TablesOK /\ OrderInv /\ [Next]_backOfficeVars => OrderInv'
  BY NextOrderInv
<1> QED BY <1>1, <1>2, TablesInductive, PTL DEF Spec

\* However many purchases fulfil an order at the same time, its status is what has been
\* received against it, unless one of them has posted nothing (refresh_status, create_purchase).
THEOREM OrderStatusFollows == Spec => []OrderStatusCurrent
<1>1. OrderInv => OrderStatusCurrent
  BY DEF OrderInv
<1> QED BY <1>1, OrderInductive, PTL

-----------------------------------------------------------------------------
(***************************************************************************)
(* The scans of a refresh: every alert is in one of them, and in no other. *)
(***************************************************************************)

\* A finite set in some order, each of its elements once.
LEMMA SeqOfSet ==
  ASSUME NEW S, IsFiniteSet(S)
  PROVE  /\ Cardinality(S) \in Nat
         /\ SetToSeq(S) \in [1..Cardinality(S) -> S]
         /\ \A i, j \in 1..Cardinality(S) : SetToSeq(S)[i] = SetToSeq(S)[j] => i = j
         /\ \A s \in S : \E i \in 1..Cardinality(S) : SetToSeq(S)[i] = s
<1> DEFINE n == Cardinality(S)
<1>1. n \in Nat /\ ExistsBijection(1..n, S)
  BY FS_CardinalityType
<1>2. PICK g \in Bijection(1..n, S) : TRUE
  BY <1>1 DEF ExistsBijection
<1>3. g \in [1..n -> S] /\ IsInjective(g)
  BY <1>2 DEF Bijection, Injection, IsInjective
<1>4. SetToSeq(S) \in [1..n -> S] /\ IsInjective(SetToSeq(S))
  BY <1>3 DEF SetToSeq
<1>5. SetToSeq(S) \in Injection(1..n, S)
  BY <1>4 DEF Injection
<1>6. IsFiniteSet(1..n) /\ Cardinality(1..n) = n
  BY <1>1, FS_Interval
<1>7. SetToSeq(S) \in Surjection(1..n, S)
  BY <1>5, <1>6, FS_Injection
<1> QED BY <1>1, <1>4, <1>7 DEF Surjection, IsInjective

\* A sequence of sets that divide up a set.
Divides(s, A) ==
  /\ s \in Seq(SUBSET A)
  /\ \A i, j \in 1..Len(s) : i # j => s[i] \cap s[j] = {}
  /\ \A a \in A : \E i \in 1..Len(s) : a \in s[i]

LEMMA DividesBoth ==
  ASSUME NEW A, NEW B, A \cap B = {}, NEW s, NEW t, Divides(s, A), Divides(t, B)
  PROVE  Divides(s \o t, A \cup B)
<1> DEFINE m == Len(s)  n == Len(t)  both == s \o t
<1>1. s \in Seq(SUBSET A) /\ t \in Seq(SUBSET B)
  BY DEF Divides
<1>2. m \in Nat /\ n \in Nat /\ s \in [1..m -> SUBSET A] /\ t \in [1..n -> SUBSET B]
  BY <1>1, LenProperties
<1>3. s \in Seq(SUBSET (A \cup B)) /\ t \in Seq(SUBSET (A \cup B))
  <2>1. s \in [1..m -> SUBSET (A \cup B)] /\ t \in [1..n -> SUBSET (A \cup B)]
    BY <1>2
  <2> HIDE DEF m, n
  <2> QED BY <1>2, <2>1, SeqDef
<1>4. /\ both \in Seq(SUBSET (A \cup B)) /\ Len(both) = m + n
      /\ \A i \in 1..(m + n) : both[i] = IF i <= m THEN s[i] ELSE t[i - m]
  BY <1>3, ConcatProperties
<1>5. /\ \A i, j \in 1..m : i # j => s[i] \cap s[j] = {}
      /\ \A i, j \in 1..n : i # j => t[i] \cap t[j] = {}
      /\ \A a \in A : \E i \in 1..m : a \in s[i]
      /\ \A a \in B : \E i \in 1..n : a \in t[i]
  BY DEF Divides
<1> HIDE DEF m, n, both
<1>6. ASSUME NEW i \in 1..(m + n)
      PROVE  \/ i \in 1..m /\ both[i] = s[i] /\ both[i] \subseteq A
             \/ i - m \in 1..n /\ both[i] = t[i - m] /\ both[i] \subseteq B /\ ~ (i <= m)
  BY <1>2, <1>4
<1>7. ASSUME NEW i \in 1..(m + n), NEW j \in 1..(m + n), i # j PROVE both[i] \cap both[j] = {}
  <2>1. CASE i \in 1..m /\ both[i] = s[i] /\ both[i] \subseteq A
    <3>1. CASE j \in 1..m /\ both[j] = s[j]
      BY <1>5, <1>7, <2>1, <3>1
    <3>2. CASE both[j] \subseteq B
      BY <2>1, <3>2
    <3> QED BY <1>6, <3>1, <3>2
  <2>2. CASE i - m \in 1..n /\ both[i] = t[i - m] /\ both[i] \subseteq B
    <3>1. CASE j - m \in 1..n /\ both[j] = t[j - m]
      <4>1. i - m # j - m
        BY <1>2, <1>7
      <4> QED BY <1>5, <2>2, <3>1, <4>1
    <3>2. CASE both[j] \subseteq A
      BY <2>2, <3>2
    <3> QED BY <1>6, <3>1, <3>2
  <2> QED BY <1>6, <2>1, <2>2
<1>8. ASSUME NEW a \in A \cup B PROVE \E i \in 1..(m + n) : a \in both[i]
  <2>1. CASE a \in A
    <3>1. PICK i \in 1..m : a \in s[i]
      BY <1>5, <2>1
    <3>2. i \in 1..(m + n) /\ both[i] = s[i]
      BY <1>2, <1>4, <3>1
    <3> QED BY <3>1, <3>2
  <2>2. CASE a \in B
    <3>1. PICK i \in 1..n : a \in t[i]
      BY <1>5, <2>2
    <3>2. i + m \in 1..(m + n) /\ ~ (i + m <= m) /\ (i + m) - m = i
      BY <1>2, <3>1
    <3>3. both[i + m] = t[i]
      BY <1>4, <3>2
    <3> QED BY <3>1, <3>2, <3>3
  <2> QED BY <2>1, <2>2
<1> QED BY <1>4, <1>7, <1>8 DEF Divides, both

LEMMA ConcatLength ==
  ASSUME NEW A, NEW B, NEW s \in Seq(A), NEW t \in Seq(B)
  PROVE  Len(s \o t) = Len(s) + Len(t) /\ Len(s) \in Nat /\ Len(t) \in Nat
<1>1. Len(s) \in Nat /\ Len(t) \in Nat /\ s \in [1..Len(s) -> A] /\ t \in [1..Len(t) -> B]
  BY LenProperties
<1>2. s \in [1..Len(s) -> A \cup B] /\ t \in [1..Len(t) -> A \cup B]
  BY <1>1
<1>3. s \in Seq(A \cup B) /\ t \in Seq(A \cup B)
  BY <1>1, <1>2, SeqDef
<1> QED BY <1>1, <1>3, ConcatProperties

\* The scans of the parties, in some order.
DueOf(name, kind) == [i \in 1..Len(SetToSeq(kind)) |-> {<<name, SetToSeq(kind)[i]>>}]

LEMMA ScansOfKind ==
  ASSUME NEW name, NEW kind, IsFiniteSet(kind)
  PROVE  Divides(DueOf(name, kind), {name} \X kind)
<1> DEFINE s == SetToSeq(kind)  n == Cardinality(kind)
<1>1. /\ n \in Nat /\ s \in [1..n -> kind]
      /\ \A i, j \in 1..n : s[i] = s[j] => i = j
      /\ \A p \in kind : \E i \in 1..n : s[i] = p
  BY SeqOfSet
<1>2. Len(s) = n
  BY <1>1, LenProperties, SeqDef
<1> HIDE DEF s, n
<1>3. DueOf(name, kind) = [i \in 1..n |-> {<<name, s[i]>>}]
  BY <1>2 DEF DueOf, s
<1>4. DueOf(name, kind) \in [1..n -> SUBSET ({name} \X kind)]
  BY <1>1, <1>3
<1>5. DueOf(name, kind) \in Seq(SUBSET ({name} \X kind)) /\ Len(DueOf(name, kind)) = n
  BY <1>1, <1>4, SeqDef, LenProperties
<1>6. \A i, j \in 1..n : i # j => DueOf(name, kind)[i] \cap DueOf(name, kind)[j] = {}
  BY <1>1, <1>3
<1>7. \A a \in {name} \X kind : \E i \in 1..n : a \in DueOf(name, kind)[i]
  BY <1>1, <1>3
<1> QED BY <1>5, <1>6, <1>7 DEF Divides

LEMMA ScansDivide == Divides(Scans, Alerts) /\ Len(Scans) \in Nat /\ Len(Scans) >= 1
<1> DEFINE dues == {"customer_due"} \X Customers  owed == {"supplier_due"} \X Suppliers
<1>1. Divides(DueOf("customer_due", Customers), dues) /\ Divides(DueOf("supplier_due", Suppliers), owed)
  BY ScansOfKind
<1>2. Divides(<<ProductAlerts>>, ProductAlerts)
  <2>1. <<ProductAlerts>> \in Seq(SUBSET ProductAlerts) /\ Len(<<ProductAlerts>>) = 1
    OBVIOUS
  <2>2. <<ProductAlerts>>[1] = ProductAlerts
    OBVIOUS
  <2> HIDE DEF ProductAlerts
  <2> QED BY <2>1, <2>2 DEF Divides
<1>3. ProductAlerts \cap dues = {}
  BY DEF ProductAlerts
<1>4. (ProductAlerts \cup dues) \cap owed = {}
  BY DEF ProductAlerts
<1> HIDE DEF dues, owed
<1>5. Divides(<<ProductAlerts>> \o DueOf("customer_due", Customers), ProductAlerts \cup dues)
  BY <1>1, <1>2, <1>3, DividesBoth
<1>6. Divides((<<ProductAlerts>> \o DueOf("customer_due", Customers)) \o DueOf("supplier_due", Suppliers),
              (ProductAlerts \cup dues) \cup owed)
  BY <1>1, <1>4, <1>5, DividesBoth
<1>7. Scans = (<<ProductAlerts>> \o DueOf("customer_due", Customers)) \o DueOf("supplier_due", Suppliers)
  BY DEF Scans, DueOf
<1>8. Alerts = (ProductAlerts \cup dues) \cup owed
  BY DEF Alerts, dues, owed
<1>9. Len(Scans) \in Nat /\ Len(Scans) >= 1
  <2> DEFINE one == <<ProductAlerts>>  two == DueOf("customer_due", Customers)
             three == DueOf("supplier_due", Suppliers)  first == one \o two
  <2>1. one \in Seq(SUBSET ProductAlerts) /\ Len(one) = 1
    OBVIOUS
  <2>2. two \in Seq(SUBSET dues) /\ three \in Seq(SUBSET owed)
    BY <1>1 DEF Divides
  <2>3. first \in Seq(SUBSET (ProductAlerts \cup dues))
    BY <1>5 DEF Divides
  <2> HIDE DEF one, two, three, first
  <2>4. Len(one \o two) = Len(one) + Len(two) /\ Len(two) \in Nat
    <3> DEFINE A == SUBSET ProductAlerts  B == SUBSET dues
    <3>1. one \in Seq(A) /\ two \in Seq(B)
      BY <2>1, <2>2
    <3> HIDE DEF A, B
    <3> QED BY <3>1, ConcatLength
  <2>5. Len(first \o three) = Len(first) + Len(three) /\ Len(three) \in Nat
    BY <2>2, <2>3, ConcatLength
  <2>6. Len(Scans) = Len(first \o three)
    BY <1>7 DEF first, one, two, three
  <2> QED BY <2>1, <2>4, <2>5, <2>6 DEF first
<1> QED BY <1>6, <1>7, <1>8, <1>9

\* The alerts a refresh that is about to make its nth scan has gone through.
Scanned(n) == {a \in Alerts : \E i \in 1..Len(Scans) : i < n /\ a \in Scans[i]}

LEMMA ScannedFacts ==
  /\ Scanned(0) = {} /\ Scanned(1) = {}
  /\ Scanned(ScansOver) = Alerts /\ Scanned(ScansOver + 1) = Alerts
  /\ \A i \in 1..Len(Scans) : /\ Scanned(i + 1) = Scanned(i) \cup Scans[i]
                              /\ Scans[i] \cap Scanned(i) = {}
                              /\ Scans[i] \subseteq Alerts
<1> DEFINE n == Len(Scans)
<1>1. /\ n \in Nat /\ n >= 1
      /\ \A i, j \in 1..n : i # j => Scans[i] \cap Scans[j] = {}
      /\ \A a \in Alerts : \E i \in 1..n : a \in Scans[i]
  BY ScansDivide DEF Divides
<1>2. \A i \in 1..n : Scans[i] \subseteq Alerts
  <2>1. Scans \in Seq(SUBSET Alerts)
    BY ScansDivide DEF Divides
  <2> QED BY <2>1, ElementOfSeq
<1>3. \A k : Scanned(k) = {a \in Alerts : \E i \in 1..n : i < k /\ a \in Scans[i]}
  BY DEF Scanned
<1>4. ScansOver = n + 1
  BY DEF ScansOver
<1> HIDE DEF n
<1>5. Scanned(0) = {} /\ Scanned(1) = {}
  BY <1>1, <1>3
<1>6. Scanned(n + 1) = Alerts /\ Scanned((n + 1) + 1) = Alerts
  <2>1. ASSUME NEW k \in Nat, k > n PROVE Scanned(k) = Alerts
    <3>1. \A i \in 1..n : i < k
      BY <1>1, <2>1
    <3>2. \A a \in Alerts : \E i \in 1..n : i < k /\ a \in Scans[i]
      BY <1>1, <3>1
    <3> QED BY <1>3, <3>2
  <2> QED BY <1>1, <2>1
<1>7. ASSUME NEW i \in 1..n
      PROVE  /\ Scanned(i + 1) = Scanned(i) \cup Scans[i]
             /\ Scans[i] \cap Scanned(i) = {}
  <2>1. \A j \in 1..n : j < i + 1 <=> j < i \/ j = i
    BY <1>1
  <2>2. Scanned(i + 1) = Scanned(i) \cup Scans[i]
    BY <1>2, <1>3, <1>7, <2>1
  <2>3. \A j \in 1..n : j < i => Scans[i] \cap Scans[j] = {}
    BY <1>1, <1>7
  <2>4. Scans[i] \cap Scanned(i) = {}
    BY <1>3, <2>3
  <2> QED BY <2>2, <2>4
<1> QED BY <1>2, <1>4, <1>5, <1>6, <1>7 DEF n

-----------------------------------------------------------------------------
(***************************************************************************)
(* The refreshes.                                                          *)
(***************************************************************************)

\* A refresh has in hand, or has dealt with, what its scans so far have shown it, and the
\* rows it is about to delete are worked out after the last of them.
ScanInv ==
  \A v \in Viewers :
    /\ seen[v] \cup todo[v] \subseteq Scanned(scan[v])
    /\ scan[v] = ScansOver + 1 => todo[v] = {}

AlertStep ==
  \/ \E v \in Viewers : StartRefresh(v) \/ Refresh(v)
  \/ \E a \in Alerts : MarkRead(a)
  \/ MarkAllRead

LEMMA ScansOverNat == Len(Scans) \in Nat /\ Len(Scans) >= 1 /\ ScansOver = Len(Scans) + 1
BY ScansDivide DEF ScansOver

LEMMA StartRefreshScan ==
  ASSUME AlertsTypeOK, ScanInv, NEW v \in Viewers, StartRefresh(v)
  PROVE  AlertsTypeOK' /\ ScanInv' /\ seen[v] = {} /\ todo[v] = {}
<1> USE DEF AlertsTypeOK
<1>1. /\ scan[v] = 0 /\ scan' = [scan EXCEPT ![v] = 1]
      /\ blurred' \in {blurred \cup {v}, blurred \ {v}}
      /\ UNCHANGED <<alert, todo, seen, stale>>
  BY DEF StartRefresh, Running
<1>2. seen[v] = {} /\ todo[v] = {}
  BY <1>1, ScannedFacts DEF ScanInv
<1>3. ScanInv'
  <2>1. 1 # ScansOver + 1
    BY ScansOverNat
  <2>2. ASSUME NEW u \in Viewers
        PROVE  /\ seen'[u] \cup todo'[u] \subseteq Scanned(scan'[u])
               /\ scan'[u] = ScansOver + 1 => todo'[u] = {}
    BY <1>1, <1>2, <2>1 DEF ScanInv
  <2> QED BY <2>2 DEF ScanInv
<1>4. AlertsTypeOK'
  <2>1. 1 \in 0..(ScansOver + 1)
    BY ScansOverNat
  <2> QED BY <1>1, <2>1
<1> QED BY <1>2, <1>3, <1>4

LEMMA LookScan ==
  ASSUME AlertsTypeOK, ScanInv, NEW v \in Viewers, Look(v)
  PROVE  AlertsTypeOK' /\ ScanInv'
<1> USE DEF AlertsTypeOK
<1>1. PICK n \in 1..Len(Scans) : n = scan[v]
  BY DEF Look
<1>2. /\ todo[v] = {} /\ todo' = [todo EXCEPT ![v] = Live \cap Scans[n]]
      /\ scan' = [scan EXCEPT ![v] = n + 1]
      /\ UNCHANGED <<alert, seen, stale, blurred>>
  BY <1>1 DEF Look
<1>3. /\ Scanned(n + 1) = Scanned(n) \cup Scans[n] /\ Scans[n] \cap Scanned(n) = {}
      /\ Scans[n] \subseteq Alerts
  BY ScannedFacts
<1>4. n + 1 # ScansOver + 1 /\ n + 1 \in 0..(ScansOver + 1)
  BY ScansOverNat
<1>5. seen[v] \subseteq Scanned(n)
  BY <1>1 DEF ScanInv
<1> DEFINE found == Live \cap Scans[n]
<1>6. found \subseteq Alerts /\ found \cap seen[v] = {} /\ seen[v] \cup found \subseteq Scanned(n + 1)
  BY <1>3, <1>5
<1>7. todo' = [todo EXCEPT ![v] = found]
  BY <1>2
<1> HIDE DEF found
<1>8. ScanInv'
  <2>1. ASSUME NEW u \in Viewers
        PROVE  /\ seen'[u] \cup todo'[u] \subseteq Scanned(scan'[u])
               /\ scan'[u] = ScansOver + 1 => todo'[u] = {}
    BY <1>2, <1>4, <1>6, <1>7 DEF ScanInv
  <2> QED BY <2>1 DEF ScanInv
<1>9. AlertsTypeOK'
  <2>1. todo' \in [Viewers -> SUBSET Alerts] /\ scan' \in [Viewers -> 0..(ScansOver + 1)]
    BY <1>2, <1>4, <1>6, <1>7
  <2>2. \A u \in Viewers : todo'[u] \cap seen'[u] = {}
    BY <1>2, <1>6, <1>7
  <2> QED BY <1>2, <2>1, <2>2
<1> QED BY <1>8, <1>9

LEMMA UpsertScan ==
  ASSUME AlertsTypeOK, ScanInv, NEW v \in Viewers, Upsert(v)
  PROVE  AlertsTypeOK' /\ ScanInv'
<1> USE DEF AlertsTypeOK
<1>1. PICK a \in todo[v] :
        /\ todo' = [todo EXCEPT ![v] = todo[v] \ {a}]
        /\ seen' = [seen EXCEPT ![v] = seen[v] \cup {a}]
        /\ alert' = IF alert[a] = "none" THEN [alert EXCEPT ![a] = "unread"] ELSE alert
        /\ UNCHANGED <<scan, stale, blurred>>
  BY DEF Upsert
<1>2. a \in Alerts
  OBVIOUS
<1>3. ScanInv'
  <2>1. ASSUME NEW u \in Viewers
        PROVE  /\ seen'[u] \cup todo'[u] \subseteq Scanned(scan'[u])
               /\ scan'[u] = ScansOver + 1 => todo'[u] = {}
    BY <1>1, <2>1 DEF ScanInv
  <2> QED BY <2>1 DEF ScanInv
<1>4. AlertsTypeOK'
  <2>1. todo' \in [Viewers -> SUBSET Alerts] /\ seen' \in [Viewers -> SUBSET Alerts]
    BY <1>1, <1>2
  <2>2. \A u \in Viewers : todo'[u] \cap seen'[u] = {}
    BY <1>1
  <2>3. alert' \in [Alerts -> {"none", "unread", "read"}]
    BY <1>1, <1>2
  <2> QED BY <1>1, <2>1, <2>2, <2>3
<1> QED BY <1>3, <1>4

LEMMA FindStaleScan ==
  ASSUME AlertsTypeOK, ScanInv, NEW v \in Viewers, FindStale(v)
  PROVE  AlertsTypeOK' /\ ScanInv'
<1> USE DEF AlertsTypeOK
<1>1. /\ scan[v] = ScansOver /\ todo[v] = {}
      /\ stale' = [stale EXCEPT ![v] = Rows \ seen[v]]
      /\ scan' = [scan EXCEPT ![v] = ScansOver + 1]
      /\ UNCHANGED <<alert, todo, seen, blurred>>
  BY DEF FindStale
<1>2. Rows \ seen[v] \in SUBSET Alerts /\ seen[v] \subseteq Alerts
  BY DEF Rows
<1>3. ScanInv'
  <2>1. ASSUME NEW u \in Viewers
        PROVE  /\ seen'[u] \cup todo'[u] \subseteq Scanned(scan'[u])
               /\ scan'[u] = ScansOver + 1 => todo'[u] = {}
    BY <1>1, <1>2, <2>1, ScannedFacts DEF ScanInv
  <2> QED BY <2>1 DEF ScanInv
<1>4. AlertsTypeOK'
  <2>1. ScansOver + 1 \in 0..(ScansOver + 1)
    BY ScansOverNat
  <2> QED BY <1>1, <1>2, <2>1
<1> QED BY <1>3, <1>4

LEMMA DeleteStaleScan ==
  ASSUME AlertsTypeOK, ScanInv, NEW v \in Viewers, DeleteStale(v)
  PROVE  AlertsTypeOK' /\ ScanInv'
<1> USE DEF AlertsTypeOK
<1>1. /\ scan[v] = ScansOver + 1 /\ todo[v] = {}
      /\ alert' = [a \in Alerts |-> IF a \in stale[v] THEN "none" ELSE alert[a]]
      /\ stale' = [u \in Viewers |-> stale[u] \ stale[v]]
      /\ seen' = [seen EXCEPT ![v] = {}] /\ scan' = [scan EXCEPT ![v] = 0]
      /\ UNCHANGED <<todo, blurred>>
  BY DEF DeleteStale, ScanInv
<1>2. ScanInv'
  <2>1. 0 # ScansOver + 1
    BY ScansOverNat
  <2>2. ASSUME NEW u \in Viewers
        PROVE  /\ seen'[u] \cup todo'[u] \subseteq Scanned(scan'[u])
               /\ scan'[u] = ScansOver + 1 => todo'[u] = {}
    BY <1>1, <2>1 DEF ScanInv
  <2> QED BY <2>2 DEF ScanInv
<1>3. AlertsTypeOK'
  <2>1. 0 \in 0..(ScansOver + 1)
    BY ScansOverNat
  <2>2. /\ alert' \in [Alerts -> {"none", "unread", "read"}]
        /\ stale' \in [Viewers -> SUBSET Alerts]
    BY <1>1
  <2> QED BY <1>1, <2>1, <2>2
<1> QED BY <1>2, <1>3

LEMMA AlertStepScan ==
  ASSUME AlertsTypeOK, ScanInv, AlertStep PROVE AlertsTypeOK' /\ ScanInv'
<1>1. ASSUME NEW a \in Alerts, MarkRead(a) PROVE AlertsTypeOK' /\ ScanInv'
  BY <1>1 DEF MarkRead, AlertsTypeOK, ScanInv
<1>2. CASE MarkAllRead
  BY <1>2 DEF MarkAllRead, AlertsTypeOK, ScanInv
<1> QED BY <1>1, <1>2, StartRefreshScan, LookScan, UpsertScan, FindStaleScan, DeleteStaleScan
        DEF AlertStep, Refresh

\* A step is of the alerts, or of one of the desks and overtakes the refreshes it concerns.
LEMMA DeskOrAlert ==
  ASSUME [Next]_backOfficeVars
  PROVE  \/ AlertStep /\ UNCHANGED <<partyVars, catalogueVars>>
         \/ UNCHANGED viewVars /\ Overtaken
         \/ UNCHANGED backOfficeVars
BY DEF Next, AlertStep

LEMMA NextScan ==
  ASSUME AlertsTypeOK, ScanInv, [Next]_backOfficeVars PROVE AlertsTypeOK' /\ ScanInv'
<1>1. CASE UNCHANGED viewVars /\ blurred' \subseteq Viewers
  BY <1>1 DEF viewVars, AlertsTypeOK, ScanInv
<1>2. CASE UNCHANGED viewVars /\ Overtaken
  <2>1. blurred' \subseteq Viewers
    BY <1>2 DEF Overtaken, AlertsTypeOK
  <2> QED BY <1>1, <1>2, <2>1
<1>3. CASE UNCHANGED backOfficeVars
  BY <1>1, <1>3 DEF backOfficeVars, alertVars, AlertsTypeOK
<1> QED BY <1>2, <1>3, AlertStepScan, DeskOrAlert

LEMMA ScanInductive == Spec => [](AlertsTypeOK /\ ScanInv)
<1>1. Init => AlertsTypeOK /\ ScanInv
  <2>1. 0 \in 0..(ScansOver + 1) /\ 0 # ScansOver + 1
    BY ScansOverNat
  <2> QED BY <2>1 DEF Init, AlertsInit, AlertsTypeOK, ScanInv
<1>2. (AlertsTypeOK /\ ScanInv) /\ [Next]_backOfficeVars => (AlertsTypeOK /\ ScanInv)'
  BY NextScan
<1> QED BY <1>1, <1>2, PTL DEF Spec

\* Every table of every desk has its type, whatever overlaps: no shelf and no product goes
\* below zero, and no refresh is to deal again with an alert it has dealt with.
THEOREM BackOfficeTypeCorrect == Spec => []TypeOK
<1>1. TablesOK /\ AlertsTypeOK => TypeOK
  BY DEF TablesOK, TypeOK
<1> QED BY <1>1, TablesInductive, ScanInductive, PTL

-----------------------------------------------------------------------------
(***************************************************************************)
(* What a refresh leaves.                                                  *)
(***************************************************************************)

\* A refresh that runs, and that nothing has overtaken.
Clear(v) == Running(v) /\ v \notin blurred

\* So has nobody else's been; it knows what holds of all it has scanned, what it has dealt
\* with has a row, and what it is about to delete is what does not hold.
ViewOf(v) ==
  /\ \A u \in Viewers : Running(u) => u \notin blurred
  /\ seen[v] \cup todo[v] = Live \cap Scanned(scan[v])
  /\ seen[v] \subseteq Rows
  /\ scan[v] = ScansOver + 1 => stale[v] \cap Live = {} /\ Rows \ Live \subseteq stale[v]

ViewInv == \A v \in Viewers : Clear(v) => ViewOf(v)

\* What holds depends on the products and on what the parties owe.
LEMMA LiveSame ==
  ASSUME UNCHANGED <<shelfVars, accountVars>> PROVE Live' = Live
BY DEF Live, Holds, IsLowStock, IsExpired, IsNearExpiry, CurrentBalance, shelfVars, accountVars

LEMMA StartRefreshView ==
  ASSUME AlertsTypeOK, ScanInv, ViewInv, Live' = Live, NEW w \in Viewers, StartRefresh(w)
  PROVE  ViewInv'
<1> USE DEF AlertsTypeOK
<1>1. /\ ~Running(w) /\ scan' = [scan EXCEPT ![w] = 1]
      /\ blurred' = IF \E u \in Viewers : Running(u) /\ u \in blurred THEN blurred \cup {w}
                                                                      ELSE blurred \ {w}
      /\ alert' = alert /\ todo' = todo /\ seen' = seen /\ stale' = stale
      /\ seen[w] = {} /\ todo[w] = {}
  BY StartRefreshScan DEF StartRefresh
<1>2. Rows' = Rows
  BY <1>1 DEF Rows
<1>3. SUFFICES ASSUME NEW v \in Viewers, Clear(v)' PROVE ViewOf(v)'
  BY DEF ViewInv
<1>4. \A u \in Viewers : Running(u)' <=> u = w \/ Running(u)
  BY <1>1 DEF Running
<1>5. \A u \in Viewers : Running(u) => u \notin blurred
  <2>1. SUFFICES ASSUME \E u \in Viewers : Running(u) /\ u \in blurred PROVE FALSE
    OBVIOUS
  <2>2. blurred' = blurred \cup {w}
    BY <1>1, <2>1
  <2>3. v # w /\ Clear(v)
    BY <1>3, <1>4, <2>2 DEF Clear
  <2> QED BY <2>1, <2>3 DEF ViewInv, ViewOf
<1>6. blurred' = blurred \ {w}
  BY <1>1, <1>5
<1>7. \A u \in Viewers : Running(u)' => u \notin blurred'
  BY <1>4, <1>5, <1>6
<1>8. CASE v = w
  <2>1. scan'[v] = 1 /\ 1 # ScansOver + 1
    BY <1>1, <1>8, ScansOverNat
  <2>2. seen'[v] = {} /\ todo'[v] = {} /\ Scanned(1) = {}
    BY <1>1, <1>8, ScannedFacts
  <2> QED BY <1>7, <2>1, <2>2 DEF ViewOf
<1>9. CASE v # w
  <2>1. Clear(v) /\ scan'[v] = scan[v]
    BY <1>1, <1>3, <1>4, <1>6, <1>9 DEF Clear
  <2>2. ViewOf(v)
    BY <2>1 DEF ViewInv
  <2> QED BY <1>1, <1>2, <1>7, <2>1, <2>2 DEF ViewOf
<1> QED BY <1>8, <1>9

LEMMA LookView ==
  ASSUME AlertsTypeOK, ScanInv, ViewInv, Live' = Live, NEW w \in Viewers, Look(w)
  PROVE  ViewInv'
<1> USE DEF AlertsTypeOK
<1>1. PICK n \in 1..Len(Scans) : n = scan[w]
  BY DEF Look
<1>2. /\ todo[w] = {} /\ todo' = [todo EXCEPT ![w] = Live \cap Scans[n]]
      /\ scan' = [scan EXCEPT ![w] = n + 1]
      /\ alert' = alert /\ seen' = seen /\ stale' = stale /\ blurred' = blurred
  BY <1>1 DEF Look
<1>3. n # 0 /\ n + 1 # 0 /\ n + 1 # ScansOver + 1
  BY ScansOverNat
<1>4. Rows' = Rows
  BY <1>2 DEF Rows
<1>5. \A u \in Viewers : Running(u)' <=> Running(u)
  BY <1>1, <1>2, <1>3 DEF Running
<1>6. SUFFICES ASSUME NEW v \in Viewers, Clear(v)' PROVE ViewOf(v)'
  BY DEF ViewInv
<1>7. Clear(v)
  BY <1>2, <1>5, <1>6 DEF Clear
<1>8. ViewOf(v)
  BY <1>7 DEF ViewInv
<1>9. \A u \in Viewers : Running(u)' => u \notin blurred'
  BY <1>2, <1>5, <1>8 DEF ViewOf
<1>10. CASE v = w
  <2>1. seen[v] = Live \cap Scanned(n)
    BY <1>1, <1>2, <1>8, <1>10 DEF ViewOf
  <2>2. Scanned(n + 1) = Scanned(n) \cup Scans[n]
    BY ScannedFacts
  <2>3. seen'[v] \cup todo'[v] = Live \cap Scanned(n + 1)
    BY <1>2, <1>10, <2>1, <2>2
  <2>4. seen'[v] \subseteq Rows' /\ scan'[v] = n + 1
    BY <1>2, <1>4, <1>8, <1>10 DEF ViewOf
  <2> QED BY <1>3, <1>9, <2>3, <2>4 DEF ViewOf
<1>11. CASE v # w
  <2>1. scan'[v] = scan[v] /\ todo'[v] = todo[v]
    BY <1>2, <1>11
  <2> QED BY <1>2, <1>4, <1>8, <1>9, <2>1 DEF ViewOf
<1> QED BY <1>10, <1>11

LEMMA UpsertView ==
  ASSUME AlertsTypeOK, ScanInv, ViewInv, Live' = Live, NEW w \in Viewers, Upsert(w)
  PROVE  ViewInv'
<1> USE DEF AlertsTypeOK
<1>1. PICK a \in todo[w] :
        /\ todo' = [todo EXCEPT ![w] = todo[w] \ {a}]
        /\ seen' = [seen EXCEPT ![w] = seen[w] \cup {a}]
        /\ alert' = IF alert[a] = "none" THEN [alert EXCEPT ![a] = "unread"] ELSE alert
        /\ scan' = scan /\ stale' = stale /\ blurred' = blurred
  BY DEF Upsert
<1>2. a \in Alerts
  OBVIOUS
<1>3. Rows' = Rows \cup {a}
  BY <1>1, <1>2 DEF Rows
<1>4. Running(w)
  BY <1>1, ScannedFacts DEF ScanInv, Running
<1>5. SUFFICES ASSUME NEW v \in Viewers, Clear(v)' PROVE ViewOf(v)'
  BY DEF ViewInv
<1>6. Clear(v) /\ ViewOf(v)
  BY <1>1, <1>5 DEF Clear, Running, ViewInv
<1>7. Clear(w) /\ ViewOf(w)
  BY <1>4, <1>6 DEF ViewOf, ViewInv, Clear
<1>8. a \in Live
  BY <1>1, <1>7 DEF ViewOf
<1>9. \A u \in Viewers : Running(u)' => u \notin blurred'
  BY <1>1, <1>6 DEF ViewOf, Running
<1>10. seen'[v] \cup todo'[v] = seen[v] \cup todo[v] /\ seen'[v] \subseteq seen[v] \cup {a}
  BY <1>1
<1>11. seen'[v] \subseteq Rows'
  BY <1>3, <1>6, <1>10 DEF ViewOf
<1>12. Rows' \ Live = Rows \ Live
  BY <1>3, <1>8
<1> QED BY <1>1, <1>6, <1>9, <1>10, <1>11, <1>12 DEF ViewOf

LEMMA FindStaleView ==
  ASSUME AlertsTypeOK, ScanInv, ViewInv, Live' = Live, NEW w \in Viewers, FindStale(w)
  PROVE  ViewInv'
<1> USE DEF AlertsTypeOK
<1>1. /\ scan[w] = ScansOver /\ todo[w] = {}
      /\ stale' = [stale EXCEPT ![w] = Rows \ seen[w]]
      /\ scan' = [scan EXCEPT ![w] = ScansOver + 1]
      /\ alert' = alert /\ todo' = todo /\ seen' = seen /\ blurred' = blurred
  BY DEF FindStale
<1>2. ScansOver # 0 /\ ScansOver + 1 # 0
  BY ScansOverNat
<1>3. Rows' = Rows
  BY <1>1 DEF Rows
<1>4. \A u \in Viewers : Running(u)' <=> Running(u)
  BY <1>1, <1>2 DEF Running
<1>5. SUFFICES ASSUME NEW v \in Viewers, Clear(v)' PROVE ViewOf(v)'
  BY DEF ViewInv
<1>6. Clear(v) /\ ViewOf(v)
  BY <1>1, <1>4, <1>5 DEF Clear, ViewInv
<1>7. \A u \in Viewers : Running(u)' => u \notin blurred'
  BY <1>1, <1>4, <1>6 DEF ViewOf
<1>8. CASE v = w
  <2>1. Live \subseteq Alerts
    BY DEF Live
  <2>2. seen[v] = Live
    <3>1. seen[v] \cup todo[v] = Live \cap Scanned(scan[v])
      BY <1>6 DEF ViewOf
    <3>2. scan[v] = ScansOver /\ todo[v] = {} /\ Scanned(ScansOver) = Alerts
      BY <1>1, <1>8, ScannedFacts
    <3> QED BY <2>1, <3>1, <3>2
  <2>3. seen'[v] \cup todo'[v] = Live \cap Scanned(scan'[v])
    BY <1>1, <1>8, <2>1, <2>2, ScannedFacts
  <2>4. stale'[v] = Rows \ Live
    BY <1>1, <1>8, <2>2
  <2>5. seen'[v] \subseteq Rows'
    BY <1>1, <1>3, <1>6 DEF ViewOf
  <2> QED BY <1>3, <1>7, <2>3, <2>4, <2>5 DEF ViewOf
<1>9. CASE v # w
  <2>1. scan'[v] = scan[v] /\ stale'[v] = stale[v]
    BY <1>1, <1>9
  <2> QED BY <1>1, <1>3, <1>6, <1>7, <2>1 DEF ViewOf
<1> QED BY <1>8, <1>9

LEMMA DeleteStaleView ==
  ASSUME AlertsTypeOK, ScanInv, ViewInv, Live' = Live, NEW w \in Viewers, DeleteStale(w)
  PROVE  ViewInv'
<1> USE DEF AlertsTypeOK
<1>1. /\ scan[w] = ScansOver + 1 /\ ScansOver + 1 # 0
      /\ alert' = [a \in Alerts |-> IF a \in stale[w] THEN "none" ELSE alert[a]]
      /\ stale' = [u \in Viewers |-> stale[u] \ stale[w]]
      /\ seen' = [seen EXCEPT ![w] = {}] /\ scan' = [scan EXCEPT ![w] = 0]
      /\ todo' = todo /\ blurred' = blurred
  BY ScansOverNat DEF DeleteStale
<1>2. Rows' = Rows \ stale[w]
  BY <1>1 DEF Rows
<1>3. \A u \in Viewers : Running(u)' <=> u # w /\ Running(u)
  BY <1>1 DEF Running
<1>4. SUFFICES ASSUME NEW v \in Viewers, Clear(v)' PROVE ViewOf(v)'
  BY DEF ViewInv
<1>5. v # w /\ Clear(v) /\ ViewOf(v)
  BY <1>1, <1>3, <1>4 DEF Clear, ViewInv
<1>6. Running(w) /\ Clear(w) /\ ViewOf(w)
  BY <1>1, <1>5 DEF Running, ViewOf, ViewInv, Clear
<1>7. stale[w] \cap Live = {}
  BY <1>1, <1>6 DEF ViewOf
<1>8. \A u \in Viewers : Running(u)' => u \notin blurred'
  BY <1>1, <1>3, <1>5 DEF ViewOf
<1>9. seen'[v] = seen[v] /\ scan'[v] = scan[v] /\ stale'[v] = stale[v] \ stale[w]
  BY <1>1, <1>5
<1>10. seen'[v] \subseteq Rows'
  BY <1>2, <1>5, <1>7, <1>9 DEF ViewOf
<1>11. scan[v] = ScansOver + 1 => stale'[v] \cap Live = {} /\ Rows' \ Live \subseteq stale'[v]
  BY <1>2, <1>5, <1>9 DEF ViewOf
<1> QED BY <1>1, <1>5, <1>8, <1>9, <1>10, <1>11 DEF ViewOf

LEMMA AlertStepView ==
  ASSUME AlertsTypeOK, ScanInv, ViewInv, Live' = Live, AlertStep
  PROVE  ViewInv'
<1>1. ASSUME Rows' = Rows, UNCHANGED <<scan, todo, seen, stale, blurred>> PROVE ViewInv'
  BY <1>1 DEF ViewInv, ViewOf, Clear, Running
<1>2. ASSUME NEW a \in Alerts, MarkRead(a) PROVE ViewInv'
  <2>1. Rows' = Rows
    BY <1>2 DEF MarkRead, Rows, AlertsTypeOK
  <2> QED BY <1>1, <1>2, <2>1 DEF MarkRead
<1>3. CASE MarkAllRead
  <2>1. Rows' = Rows
    BY <1>3 DEF MarkAllRead, Rows, AlertsTypeOK
  <2> QED BY <1>1, <1>3, <2>1 DEF MarkAllRead
<1> QED BY <1>2, <1>3, StartRefreshView, LookView, UpsertView, FindStaleView, DeleteStaleView
        DEF AlertStep, Refresh

LEMMA NextView ==
  ASSUME AlertsTypeOK, ScanInv, ViewInv, [Next]_backOfficeVars PROVE ViewInv'
<1>1. CASE Live' = Live /\ UNCHANGED viewVars /\ blurred' = blurred
  <2>1. Rows' = Rows
    BY <1>1 DEF Rows, viewVars
  <2> QED BY <1>1, <2>1 DEF ViewInv, ViewOf, Clear, Running, viewVars
<1>2. CASE UNCHANGED viewVars /\ blurred' = blurred \cup {v \in Viewers : Running(v)}
  BY <1>2 DEF ViewInv, Clear, Running, viewVars
<1>3. CASE UNCHANGED viewVars /\ Overtaken
  BY <1>1, <1>2, <1>3 DEF Overtaken
<1>4. CASE UNCHANGED backOfficeVars
  <2>1. Live' = Live
    BY <1>4, LiveSame DEF backOfficeVars, partyVars, catalogueVars
  <2> QED BY <1>1, <1>4, <2>1 DEF backOfficeVars, alertVars
<1>5. CASE AlertStep /\ UNCHANGED <<partyVars, catalogueVars>>
  <2>1. Live' = Live
    BY <1>5, LiveSame DEF partyVars, catalogueVars
  <2> QED BY <1>5, <2>1, AlertStepView
<1> QED BY <1>3, <1>4, <1>5, DeskOrAlert

LEMMA ViewInductive == Spec => []ViewInv
<1>1. Init => ViewInv
  BY DEF Init, AlertsInit, ViewInv, Clear, Running
<1>2. (AlertsTypeOK /\ ScanInv) /\ ViewInv /\ [Next]_backOfficeVars => ViewInv'
  BY NextView
<1> QED BY <1>1, <1>2, ScanInductive, PTL DEF Spec

\* What a step does to the alerts.
LeavesAlertsRight ==
  /\ \A v \in Viewers :
       scan[v] = ScansOver + 1 /\ scan'[v] = 0 /\ v \notin blurred => Rows' = Live'
  /\ \A a \in Alerts : alert[a] = "read" => alert'[a] # "unread"

LEMMA AlertStepRight ==
  ASSUME AlertsTypeOK, ScanInv, ViewInv, Live' = Live, AlertStep
  PROVE  LeavesAlertsRight
<1> USE DEF AlertsTypeOK
<1>1. 0 # ScansOver + 1 /\ 1 # 0 /\ ScansOver # ScansOver + 1
  BY ScansOverNat
<1>2. ASSUME scan' = scan, \A a \in Alerts : alert[a] = "read" => alert'[a] # "unread"
      PROVE  LeavesAlertsRight
  BY <1>1, <1>2 DEF LeavesAlertsRight
<1>3. ASSUME NEW w \in Viewers, StartRefresh(w) PROVE LeavesAlertsRight
  BY <1>1, <1>3 DEF StartRefresh, LeavesAlertsRight
<1>4. ASSUME NEW w \in Viewers, Look(w) PROVE LeavesAlertsRight
  <2>1. scan[w] # ScansOver + 1 /\ scan' = [scan EXCEPT ![w] = scan[w] + 1] /\ alert' = alert
    BY <1>4, ScansOverNat DEF Look
  <2> QED BY <1>1, <2>1 DEF LeavesAlertsRight
<1>5. ASSUME NEW w \in Viewers, Upsert(w) PROVE LeavesAlertsRight
  <2>1. PICK a \in todo[w] :
          /\ alert' = IF alert[a] = "none" THEN [alert EXCEPT ![a] = "unread"] ELSE alert
          /\ scan' = scan
    BY <1>5 DEF Upsert
  <2>2. \A b \in Alerts : alert[b] = "read" => alert'[b] # "unread"
    BY <2>1
  <2> QED BY <1>2, <2>1, <2>2
<1>6. ASSUME NEW w \in Viewers, FindStale(w) PROVE LeavesAlertsRight
  <2>1. scan[w] # ScansOver + 1 /\ scan' = [scan EXCEPT ![w] = scan[w] + 1] /\ alert' = alert
    BY <1>1, <1>6 DEF FindStale
  <2> QED BY <1>1, <2>1 DEF LeavesAlertsRight
<1>7. ASSUME NEW w \in Viewers, DeleteStale(w) PROVE LeavesAlertsRight
  <2>1. /\ scan[w] = ScansOver + 1
        /\ alert' = [a \in Alerts |-> IF a \in stale[w] THEN "none" ELSE alert[a]]
        /\ scan' = [scan EXCEPT ![w] = 0]
    BY <1>7 DEF DeleteStale
  <2>2. Rows' = Rows \ stale[w]
    BY <2>1 DEF Rows
  <2>3. ASSUME NEW v \in Viewers, scan[v] = ScansOver + 1, scan'[v] = 0, v \notin blurred
        PROVE  Rows' = Live'
    <3>1. v = w
      BY <1>1, <2>1, <2>3
    <3>2. ViewOf(w)
      BY <1>1, <2>3, <3>1 DEF ViewInv, Clear, Running
    <3>3. stale[w] \cap Live = {} /\ Rows \ Live \subseteq stale[w] /\ seen[w] \subseteq Rows
      BY <2>1, <3>2 DEF ViewOf
    <3>4. todo[w] = {} /\ seen[w] \cup todo[w] = Live \cap Alerts
      BY <2>1, <3>2, ScannedFacts DEF ViewOf, ScanInv
    <3>5. Live \subseteq Rows
      BY <3>3, <3>4 DEF Live
    <3> QED BY <2>2, <3>3, <3>5
  <2>4. \A a \in Alerts : alert[a] = "read" => alert'[a] # "unread"
    BY <2>1
  <2> QED BY <2>3, <2>4 DEF LeavesAlertsRight
<1>8. ASSUME NEW a \in Alerts, MarkRead(a) PROVE LeavesAlertsRight
  <2>1. scan' = scan /\ \A b \in Alerts : alert[b] = "read" => alert'[b] # "unread"
    BY <1>8 DEF MarkRead
  <2> QED BY <1>2, <2>1
<1>9. CASE MarkAllRead
  <2>1. scan' = scan /\ \A b \in Alerts : alert[b] = "read" => alert'[b] # "unread"
    BY <1>9 DEF MarkAllRead
  <2> QED BY <1>2, <2>1
<1> QED BY <1>3, <1>4, <1>5, <1>6, <1>7, <1>8, <1>9 DEF AlertStep, Refresh

LEMMA NextRight ==
  ASSUME AlertsTypeOK, ScanInv, ViewInv, [Next]_backOfficeVars
  PROVE  LeavesAlertsRight
<1>1. CASE UNCHANGED viewVars
  <2>1. 0 # ScansOver + 1
    BY ScansOverNat
  <2> QED BY <1>1, <2>1 DEF viewVars, LeavesAlertsRight
<1>2. CASE UNCHANGED backOfficeVars
  BY <1>1, <1>2 DEF backOfficeVars, alertVars
<1>3. CASE AlertStep /\ UNCHANGED <<partyVars, catalogueVars>>
  <2>1. Live' = Live
    BY <1>3, LiveSame DEF partyVars, catalogueVars
  <2> QED BY <1>3, <2>1, AlertStepRight
<1> QED BY <1>1, <1>2, <1>3, DeskOrAlert

\* A refresh of the alerts that no change of what they are about has overtaken leaves exactly
\* those that hold, although others refresh, and alerts are marked as read, at the same time;
\* and one that was read is not unread again as long as it is kept (refresh_notifications,
\* upsert, mark_all_read).
THEOREM AlertsFollow == Spec => AlertsCurrent
<1>1. (AlertsTypeOK /\ ScanInv) /\ ViewInv /\ [Next]_backOfficeVars
        => [LeavesAlertsRight]_<<alertVars, shelfVars, accountVars>>
  BY NextRight
<1>2. AlertsCurrent <=> [][LeavesAlertsRight]_<<alertVars, shelfVars, accountVars>>
  BY DEF AlertsCurrent, LeavesAlertsRight
<1> QED BY <1>1, <1>2, ScanInductive, ViewInductive, PTL DEF Spec

=============================================================================
