-------------------------- MODULE DayClosingProofs --------------------------
(***************************************************************************)
(* Proofs about DayClosing.  The inductive invariant adds two facts to the *)
(* properties: rows that do not exist yet are zero, and the sums close_day *)
(* would make of the day account for the drawer at every moment, not only  *)
(* when they are made.  That the cached balances follow the lines rests on *)
(* one lemma about rounding (RoundingDrift in LedgerProofs).               *)
(***************************************************************************)
EXTENDS DayClosing, LedgerProofs

LedgerInv == LedgerType(ledger) /\ CachesFollowLines

BlankRows == \A r \in 1..MaxRows : r > rows => expenses[r] = 0 /\ incomes[r] = 0

IInv == TypeOK /\ LedgerInv /\ BlankRows /\ DrawerAddsUp /\ ClosingExplained

USE DayAmountsAssumption, TotalsAssumption, FloatsAssumption, WithdrawalsAssumption

-----------------------------------------------------------------------------

\* All accounts are different and in the chart.
LEMMA Chart ==
  /\ CashInHand = 1 /\ Till = 2 /\ Safe = 3 /\ Bank = 4 /\ Receivable = 5 /\ Payable = 7
  /\ Drawings = 9 /\ OwnerCapital = 10 /\ SalesRevenue = 11 /\ OtherIncome = 12
  /\ OperatingExpenses = 15
  /\ Accounts = 1..16
  /\ DebitIncreases = {1, 2, 3, 4, 5, 6, 14, 15, 16}
BY DEF CashInHand, Till, Safe, Bank, Receivable, Payable, Drawings, OwnerCapital,
       SalesRevenue, OtherIncome, OperatingExpenses, Accounts, NAccounts, DebitIncreases,
       Goods, CostOfGoods, Shrinkage

\* What the lines of a transaction between two accounts, neither of them Drawings, do to
\* the drawer.
LEMMA LinesMove ==
  ASSUME LedgerType(ledger), NEW a \in Accounts, NEW b \in Accounts, a # b,
         a # Drawings, b # Drawings, NEW total \in Int,
         ledger' = PostUnrounded(ledger, a, b, total)
  PROVE  /\ Withdrawn' = Withdrawn
         /\ InDrawer' = InDrawer + (IF a = CashInHand THEN Cents(total)
                                    ELSE IF b = CashInHand THEN -Cents(total) ELSE 0)
<1>1. Drawings \in Accounts /\ CashInHand \in Accounts /\ CashInHand \in DebitIncreases
  BY Chart
<1>2. \A c \in Accounts :
        /\ ComputedBalance(ledger, c) \in Int
        /\ ComputedBalance(ledger', c) =
             ComputedBalance(ledger, c)
               + (IF c = a THEN BalanceDelta(a, "debit", Cents(total))
                  ELSE IF c = b THEN BalanceDelta(b, "credit", Cents(total)) ELSE 0)
  BY PostLines
<1>3. ComputedBalance(ledger', Drawings) = ComputedBalance(ledger, Drawings)
  BY <1>1, <1>2
<1>4. ComputedBalance(ledger', CashInHand) =
        ComputedBalance(ledger, CashInHand)
          + (IF a = CashInHand THEN Cents(total)
             ELSE IF b = CashInHand THEN -Cents(total) ELSE 0)
  BY <1>1, <1>2 DEF BalanceDelta
<1> QED BY <1>3, <1>4 DEF Withdrawn, InDrawer

\* A transaction of any amount keeps the caches, once its half cents are counted.
LEMMA TotalKeepsLedger ==
  ASSUME TypeOK, LedgerInv, NEW a \in Accounts, NEW b \in Accounts, a # b, NEW total \in Int,
         PostTotal(a, b, total)
  PROVE  LedgerInv' /\ raised' \in [Accounts -> Nat] /\ lowered' \in [Accounts -> Nat]
<1>1. LedgerType(ledger) /\ DebitsEqualCredits(ledger)
  BY DEF LedgerInv, CachesFollowLines
<1>2. ledger' = PostUnrounded(ledger, a, b, total)
  BY DEF PostTotal
<1>3. LedgerType(ledger') /\ DebitsEqualCredits(ledger')
  BY <1>1, <1>2, PostColumns, PostDebitsEqualCredits
<1>4. raised \in [Accounts -> Nat] /\ lowered \in [Accounts -> Nat]
  BY DEF TypeOK
<1> DEFINE up(c) == CountIf(RaisesByHalf, a, b, total, c)
           down(c) == CountIf(LowersByHalf, a, b, total, c)
<1>5. \A c \in Accounts : up(c) \in {0, 1} /\ down(c) \in {0, 1}
  BY DEF CountIf
<1>6. /\ raised' = [c \in Accounts |-> raised[c] + up(c)]
      /\ lowered' = [c \in Accounts |-> lowered[c] + down(c)]
  BY DEF PostTotal
<1>7. \A c \in Accounts :
        /\ Drift(ledger, c) \in Int /\ Drift(ledger', c) \in Int
        /\ Drift(ledger, c) - up(c) <= Drift(ledger', c)
        /\ Drift(ledger', c) <= Drift(ledger, c) + down(c)
  BY <1>1, <1>2, PostDrift DEF CountIf
<1> HIDE DEF up, down
<1>8. raised' \in [Accounts -> Nat] /\ lowered' \in [Accounts -> Nat]
  BY <1>4, <1>5, <1>6
<1>9. \A c \in Accounts : -raised'[c] <= Drift(ledger', c) /\ Drift(ledger', c) <= lowered'[c]
  <2> SUFFICES ASSUME NEW c \in Accounts
               PROVE  -raised'[c] <= Drift(ledger', c) /\ Drift(ledger', c) <= lowered'[c]
    OBVIOUS
  <2>1. /\ raised'[c] = raised[c] + up(c) /\ lowered'[c] = lowered[c] + down(c)
        /\ raised[c] \in Nat /\ lowered[c] \in Nat /\ up(c) \in Int /\ down(c) \in Int
    BY <1>4, <1>5, <1>6
  <2>2. -raised[c] <= Drift(ledger, c) /\ Drift(ledger, c) <= lowered[c]
    BY DEF LedgerInv, CachesFollowLines
  <2> QED BY <1>7, <2>1, <2>2
<1> QED BY <1>3, <1>8, <1>9 DEF LedgerInv, CachesFollowLines

\* A transaction in whole cents has none.
LEMMA CentsKeepLedger ==
  ASSUME LedgerInv, raised \in [Accounts -> Nat], lowered \in [Accounts -> Nat],
         NEW a \in Accounts, NEW b \in Accounts, a # b, NEW amount \in Int,
         ledger' = Post(ledger, a, b, amount), UNCHANGED halves
  PROVE  LedgerInv'
<1>1. LedgerType(ledger) /\ DebitsEqualCredits(ledger)
  BY DEF LedgerInv, CachesFollowLines
<1> DEFINE total == Cent * amount
<1>2. ledger' = PostUnrounded(ledger, a, b, total) /\ total \in Int
  BY WholeCents DEF Post
<1>3. ~HalfCent(total)
  BY DEF HalfCent, Cent
<1> HIDE DEF total
<1>4. LedgerType(ledger') /\ DebitsEqualCredits(ledger')
  <2>1. LedgerType(PostUnrounded(ledger, a, b, total))
    BY <1>1, <1>2, PostColumns
  <2>2. DebitsEqualCredits(ledger')
    BY <1>1, <1>2, PostDebitsEqualCredits
  <2> QED BY <1>2, <2>1, <2>2
<1>5. \A c \in Accounts : /\ Drift(ledger, c) \in Int /\ Drift(ledger', c) \in Int
                          /\ Drift(ledger, c) - 0 <= Drift(ledger', c)
                          /\ Drift(ledger', c) <= Drift(ledger, c) + 0
  BY <1>1, <1>2, <1>3, PostDrift DEF RaisesByHalf, LowersByHalf
<1>6. \A c \in Accounts : Drift(ledger', c) = Drift(ledger, c)
  BY <1>5
<1> QED BY <1>4, <1>6 DEF LedgerInv, CachesFollowLines, halves

\* Both together.
LEMMA Through ==
  ASSUME TypeOK, LedgerInv, NEW a \in Accounts, NEW b \in Accounts, a # b,
         a # Drawings, b # Drawings, NEW amount \in Int, ledger' = Post(ledger, a, b, amount),
         UNCHANGED halves
  PROVE  /\ LedgerInv'
         /\ Withdrawn' = Withdrawn
         /\ InDrawer' = InDrawer + (IF a = CashInHand THEN amount
                                    ELSE IF b = CashInHand THEN -amount ELSE 0)
<1>1. LedgerInv'
  BY CentsKeepLedger DEF TypeOK
<1>2. LedgerType(ledger)
  BY DEF LedgerInv
<1>3. ledger' = PostUnrounded(ledger, a, b, Cent * amount) /\ Cent * amount \in Int
      /\ Cents(Cent * amount) = amount
  BY WholeCents DEF Post
<1> QED BY <1>1, <1>2, <1>3, LinesMove

\* The sums of close_day, and the balances they are compared with, are numbers.
LEMMA Numbers ==
  ASSUME IInv
  PROVE  /\ SumUpTo(expenses, MaxRows) \in Int /\ SumUpTo(incomes, MaxRows) \in Int
         /\ InDrawer \in Int /\ Withdrawn \in Int
         /\ payments["sale"] \in Int /\ payments["customer"] \in Int
         /\ payments["supplierRefund"] \in Int /\ payments["purchase"] \in Int
         /\ payments["supplier"] \in Int /\ payments["customerRefund"] \in Int
         /\ walkIn \in Int /\ walkInElsewhere \in Int /\ walkInRefunds \in Int
         /\ moved \in Int /\ deleted \in Int
<1>1. TypeOK
  BY DEF IInv
<1>2. expenses \in [1..MaxRows -> Int] /\ incomes \in [1..MaxRows -> Int]
  BY <1>1 DEF TypeOK
<1>3. SumUpTo(expenses, MaxRows) \in Int /\ SumUpTo(incomes, MaxRows) \in Int
  BY <1>2, SumInt, RowsAssumption
<1>4. InDrawer \in Int /\ Withdrawn \in Int
  <2>1. LedgerType(ledger) /\ CashInHand \in Accounts /\ Drawings \in Accounts
    BY <1>1, Chart DEF TypeOK
  <2>2. ledger.debit \in [Accounts -> Int] /\ ledger.credit \in [Accounts -> Int]
    BY <2>1 DEF LedgerType
  <2> QED BY <2>1, <2>2 DEF InDrawer, Withdrawn, ComputedBalance
<1>5. \A k \in PaymentKinds : payments[k] \in Int
  BY <1>1 DEF TypeOK
<1>6. /\ payments["sale"] \in Int /\ payments["customer"] \in Int
      /\ payments["supplierRefund"] \in Int /\ payments["purchase"] \in Int
      /\ payments["supplier"] \in Int /\ payments["customerRefund"] \in Int
  BY <1>5 DEF PaymentKinds, Incoming, Outgoing
<1> QED BY <1>1, <1>3, <1>4, <1>6 DEF TypeOK

LEMMA SumsOfTheDay ==
  ASSUME IInv PROVE TakenIn \in Int /\ PaidOut \in Int /\ Unseen \in Int
BY Numbers DEF TakenIn, PaidOut, Unseen

-----------------------------------------------------------------------------

\* How DrawerAddsUp survives a step: by what the step adds to its four parts.
LEMMA DrawerStep ==
  ASSUME IInv, NEW cash \in Int, NEW taken \in Int, NEW paid \in Int, NEW unseen \in Int,
         cash + unseen = taken - paid,
         InDrawer' = InDrawer + cash,
         TakenIn' = TakenIn + taken, PaidOut' = PaidOut + paid, Unseen' = Unseen + unseen
  PROVE  DrawerAddsUp'
<1>1. InDrawer \in Int /\ TakenIn \in Int /\ PaidOut \in Int /\ Unseen \in Int
  BY Numbers, SumsOfTheDay
<1>2. InDrawer + Unseen = TakenIn - PaidOut
  BY DEF IInv, DrawerAddsUp
<1>3. InDrawer' + Unseen' = (InDrawer + Unseen) + (cash + unseen)
  BY <1>1
<1>4. TakenIn' - PaidOut' = (TakenIn - PaidOut) + (taken - paid)
  BY <1>1
<1>5. InDrawer' + Unseen' = TakenIn' - PaidOut'
  BY <1>2, <1>3, <1>4
<1> QED BY <1>5 DEF DrawerAddsUp

LEMMA WalkInSaleKeeps ==
  ASSUME IInv, NEW total \in Totals, NEW place \in Places, WalkInSale(total, place)
  PROVE  IInv'
<1> DEFINE amount == Cents(total)
           seen == IfCash(place, amount)
<1>1. /\ total \in Int /\ amount \in Int /\ place \in Accounts /\ place # SalesRevenue
      /\ place # Drawings /\ SalesRevenue \in Accounts /\ SalesRevenue # Drawings
      /\ SalesRevenue # CashInHand
  BY Chart, CentsInt DEF Places
<1>2. TypeOK /\ LedgerInv /\ LedgerType(ledger) /\ PostTotal(place, SalesRevenue, total)
  BY DEF IInv, LedgerInv, WalkInSale
<1>3. /\ LedgerInv' /\ raised' \in [Accounts -> Nat] /\ lowered' \in [Accounts -> Nat]
      /\ Withdrawn' = Withdrawn
      /\ InDrawer' = InDrawer + seen
  <2>1. LedgerInv' /\ raised' \in [Accounts -> Nat] /\ lowered' \in [Accounts -> Nat]
    BY <1>1, <1>2, TotalKeepsLedger
  <2>2. ledger' = PostUnrounded(ledger, place, SalesRevenue, total)
    BY <1>2 DEF PostTotal
  <2> QED BY <1>1, <1>2, <2>1, <2>2, LinesMove DEF IfCash
<1>4. /\ walkIn' = walkIn + amount
      /\ walkInElsewhere' = walkInElsewhere + amount - seen
      /\ UNCHANGED <<walkInRefunds, payments, expenses, incomes, moved, deleted,
                     closing, form, closings>>
  BY DEF WalkInSale, cashVars, closingVars
<1>5. seen \in Int /\ amount - seen \in Int
  BY <1>1 DEF IfCash
<1> HIDE DEF seen, amount
<1>6. TypeOK'
  <2>1. walkIn' \in Int /\ walkInElsewhere' \in Int
    BY <1>1, <1>4, <1>5, Numbers
  <2>2. rows' \in 0..MaxRows
    BY RowsAssumption DEF IInv, TypeOK, WalkInSale, NewRow
  <2> QED BY <1>3, <1>4, <2>1, <2>2 DEF IInv, TypeOK, LedgerInv
<1>7. DrawerAddsUp'
  <2>1. TakenIn' = TakenIn + amount /\ PaidOut' = PaidOut + 0
    BY <1>1, <1>4, Numbers DEF TakenIn, PaidOut
  <2>2. Unseen' = Unseen + (amount - seen)
    BY <1>1, <1>3, <1>4, <1>5, Numbers DEF Unseen
  <2>3. 0 \in Int /\ seen + (amount - seen) = amount - 0
    BY <1>1, <1>5
  <2> QED BY <1>1, <1>3, <1>5, <2>1, <2>2, <2>3, DrawerStep
<1>8. BlankRows' /\ ClosingExplained'
  BY <1>4 DEF IInv, TypeOK, BlankRows, ClosingExplained, Explains, WalkInSale, NewRow
<1> QED BY <1>3, <1>6, <1>7, <1>8 DEF IInv

LEMMA WalkInReturnKeeps ==
  ASSUME IInv, NEW total \in Totals, WalkInReturn(total)
  PROVE  IInv'
<1> DEFINE amount == Cents(total)
<1>1. /\ total \in Int /\ amount \in Int /\ CashInHand \in Accounts /\ CashInHand # Drawings
      /\ SalesRevenue \in Accounts /\ SalesRevenue # Drawings /\ SalesRevenue # CashInHand
  BY Chart, CentsInt
<1>2. TypeOK /\ LedgerInv /\ LedgerType(ledger) /\ PostTotal(SalesRevenue, CashInHand, total)
  BY DEF IInv, LedgerInv, WalkInReturn
<1>3. /\ LedgerInv' /\ raised' \in [Accounts -> Nat] /\ lowered' \in [Accounts -> Nat]
      /\ Withdrawn' = Withdrawn
      /\ InDrawer' = InDrawer + (-amount)
  <2>1. LedgerInv' /\ raised' \in [Accounts -> Nat] /\ lowered' \in [Accounts -> Nat]
    BY <1>1, <1>2, TotalKeepsLedger
  <2>2. ledger' = PostUnrounded(ledger, SalesRevenue, CashInHand, total)
    BY <1>2 DEF PostTotal
  <2> QED BY <1>1, <1>2, <2>1, <2>2, LinesMove
<1>4. /\ walkInRefunds' = walkInRefunds + amount
      /\ UNCHANGED <<walkIn, walkInElsewhere, payments, expenses, incomes, moved, deleted,
                     closing, form, closings>>
  BY DEF WalkInReturn, cashVars, closingVars
<1> HIDE DEF amount
<1>5. TypeOK'
  <2>1. walkInRefunds' \in Int
    BY <1>1, <1>4, Numbers
  <2>2. rows' \in 0..MaxRows
    BY RowsAssumption DEF IInv, TypeOK, WalkInReturn, NewRow
  <2> QED BY <1>3, <1>4, <2>1, <2>2 DEF IInv, TypeOK, LedgerInv
<1>6. DrawerAddsUp'
  <2>1. TakenIn' = TakenIn + 0 /\ PaidOut' = PaidOut + 0
    BY <1>4, Numbers DEF TakenIn, PaidOut
  <2>2. Unseen' = Unseen + amount
    BY <1>1, <1>3, <1>4, Numbers DEF Unseen
  <2>3. 0 \in Int /\ -amount \in Int /\ (-amount) + amount = 0 - 0
    BY <1>1
  <2> QED BY <1>1, <1>3, <2>1, <2>2, <2>3, DrawerStep
<1>7. BlankRows' /\ ClosingExplained'
  BY <1>4 DEF IInv, TypeOK, BlankRows, ClosingExplained, Explains, WalkInReturn, NewRow
<1> QED BY <1>3, <1>5, <1>6, <1>7 DEF IInv

LEMMA RecordPaymentKeeps ==
  ASSUME IInv, NEW kind \in PaymentKinds, NEW amount \in Amounts, NEW place \in Places,
         RecordPayment(kind, amount, place)
  PROVE  IInv'
<1> DEFINE seen == IfCash(place, amount)
<1>1. /\ amount \in Int /\ amount > 0 /\ place \in Accounts /\ place # Drawings
      /\ PartyOf(kind) \in Accounts /\ PartyOf(kind) # place
      /\ PartyOf(kind) # Drawings /\ PartyOf(kind) # CashInHand
  BY Chart DEF Places, PartyOf, RecordPayment, Accepts
<1>2. seen \in Nat
  BY <1>1 DEF IfCash
<1>3. /\ LedgerInv'
      /\ Withdrawn' = Withdrawn
      /\ InDrawer' =
           InDrawer + (IF kind \in Incoming THEN seen ELSE -seen)
  <2>1. TypeOK /\ LedgerInv /\ UNCHANGED halves
    BY DEF IInv, RecordPayment, saleVars
  <2>2. CASE kind \in Incoming
    <3>1. ledger' = Post(ledger, place, PartyOf(kind), amount)
      BY <2>2 DEF RecordPayment
    <3> QED BY <1>1, <2>1, <2>2, <3>1, Through DEF IfCash
  <2>3. CASE kind \notin Incoming
    <3>1. ledger' = Post(ledger, PartyOf(kind), place, amount)
      BY <2>3 DEF RecordPayment
    <3>2. /\ LedgerInv'
          /\ Withdrawn' = Withdrawn
          /\ InDrawer' =
               InDrawer + (IF place = CashInHand THEN -amount ELSE 0)
      BY <1>1, <2>1, <3>1, Through
    <3> QED BY <1>1, <2>3, <3>2, Numbers DEF IfCash
  <2> QED BY <2>2, <2>3
<1>4. payments' = [payments EXCEPT ![kind] = @ + seen] /\ payments \in [PaymentKinds -> Nat]
  BY DEF RecordPayment, IInv, TypeOK
<1>5. TypeOK'
  <2>1. payments' \in [PaymentKinds -> Nat]
    BY <1>2, <1>4
  <2>2. rows' \in 0..MaxRows
    BY RowsAssumption DEF IInv, TypeOK, RecordPayment, NewRow
  <2> QED BY <2>1, <2>2, <1>3 DEF IInv, TypeOK, RecordPayment, saleVars, halves, cashVars, closingVars, LedgerInv
<1> HIDE DEF seen
<1>6. DrawerAddsUp'
  <2>1. DrawerAddsUp
    BY DEF IInv
  <2>2. UNCHANGED <<walkIn, walkInElsewhere, walkInRefunds, expenses, incomes, moved, deleted>>
    BY DEF RecordPayment, saleVars, cashVars
  <2>3. \A k \in PaymentKinds : payments'[k] = payments[k] + (IF k = kind THEN seen ELSE 0)
    BY <1>2, <1>4
  <2>4. /\ payments'["sale"] = payments["sale"] + (IF "sale" = kind THEN seen ELSE 0)
        /\ payments'["customer"] = payments["customer"] + (IF "customer" = kind THEN seen ELSE 0)
        /\ payments'["supplierRefund"] =
             payments["supplierRefund"] + (IF "supplierRefund" = kind THEN seen ELSE 0)
        /\ payments'["purchase"] = payments["purchase"] + (IF "purchase" = kind THEN seen ELSE 0)
        /\ payments'["supplier"] = payments["supplier"] + (IF "supplier" = kind THEN seen ELSE 0)
        /\ payments'["customerRefund"] =
             payments["customerRefund"] + (IF "customerRefund" = kind THEN seen ELSE 0)
    BY <2>3 DEF PaymentKinds, Incoming, Outgoing
  <2>5. CASE kind \in {"sale", "customer"}
    <3>1. TakenIn' = TakenIn + seen /\ PaidOut' = PaidOut /\ Unseen' = Unseen
      BY <1>2, <1>3, <2>2, <2>4, <2>5, Numbers DEF TakenIn, PaidOut, Unseen
    <3>2. kind \in Incoming
      BY <2>5 DEF Incoming
    <3> QED BY <1>2, <1>3, <2>1, <3>1, <3>2, Numbers, SumsOfTheDay DEF DrawerAddsUp
  <2>6. CASE kind = "supplierRefund"
    <3>1. TakenIn' = TakenIn /\ PaidOut' = PaidOut /\ Unseen' = Unseen - seen
      BY <1>2, <1>3, <2>2, <2>4, <2>6, Numbers DEF TakenIn, PaidOut, Unseen
    <3>2. kind \in Incoming
      BY <2>6 DEF Incoming
    <3> QED BY <1>2, <1>3, <2>1, <3>1, <3>2, Numbers, SumsOfTheDay DEF DrawerAddsUp
  <2>7. CASE kind \in {"purchase", "supplier"}
    <3>1. TakenIn' = TakenIn /\ PaidOut' = PaidOut + seen /\ Unseen' = Unseen
      BY <1>2, <1>3, <2>2, <2>4, <2>7, Numbers DEF TakenIn, PaidOut, Unseen
    <3>2. kind \notin Incoming
      BY <2>7 DEF Incoming
    <3> QED BY <1>2, <1>3, <2>1, <3>1, <3>2, Numbers, SumsOfTheDay DEF DrawerAddsUp
  <2>8. CASE kind = "customerRefund"
    <3>1. TakenIn' = TakenIn /\ PaidOut' = PaidOut /\ Unseen' = Unseen + seen
      BY <1>2, <1>3, <2>2, <2>4, <2>8, Numbers DEF TakenIn, PaidOut, Unseen
    <3>2. kind \notin Incoming
      BY <2>8 DEF Incoming
    <3> QED BY <1>2, <1>3, <2>1, <3>1, <3>2, Numbers, SumsOfTheDay DEF DrawerAddsUp
  <2> QED BY <2>5, <2>6, <2>7, <2>8 DEF PaymentKinds, Incoming, Outgoing
<1>7. BlankRows' /\ ClosingExplained'
  BY DEF IInv, TypeOK, BlankRows, ClosingExplained, Explains, RecordPayment, NewRow, cashVars, closingVars
<1> QED BY <1>3, <1>5, <1>6, <1>7 DEF IInv

LEMMA AddExpenseKeeps ==
  ASSUME IInv, NEW amount \in Amounts, NEW place \in Places, AddExpense(amount, place)
  PROVE  IInv'
<1> DEFINE seen == IfCash(place, amount)
           r == rows + 1
<1>1. /\ amount \in Int /\ place \in Accounts /\ place # Drawings /\ OperatingExpenses \in Accounts
      /\ OperatingExpenses # place /\ OperatingExpenses # Drawings /\ OperatingExpenses # CashInHand
  BY Chart DEF Places
<1>2. seen \in Int /\ r \in 1..MaxRows
  BY <1>1, RowsAssumption DEF IfCash, AddExpense, NewRow, IInv, TypeOK
<1>3. TypeOK /\ LedgerInv /\ UNCHANGED halves /\ ledger' = Post(ledger, OperatingExpenses, place, amount)
  BY DEF IInv, AddExpense, saleVars
<1>4. /\ LedgerInv'
      /\ Withdrawn' = Withdrawn
      /\ InDrawer' = InDrawer - seen
  <2>1. InDrawer' =
          InDrawer + (IF place = CashInHand THEN -amount ELSE 0)
    BY <1>1, <1>3, Through
  <2> QED BY <1>1, <1>3, <2>1, Through, Numbers DEF IfCash
<1>5. expenses' = [expenses EXCEPT ![r] = seen] /\ expenses \in [1..MaxRows -> Int] /\ expenses[r] = 0
  BY <1>2, RowsAssumption DEF AddExpense, IInv, TypeOK, BlankRows
<1> HIDE DEF seen, r
<1>6. /\ expenses' \in [1..MaxRows -> Int]
      /\ SumUpTo(expenses', MaxRows) = SumUpTo(expenses, MaxRows) + seen
  <2>1. expenses' \in [1..MaxRows -> Int]
    BY <1>2, <1>5
  <2>2. \A i \in 1..MaxRows : expenses'[i] = expenses[i] + (IF i = r THEN seen ELSE 0)
    BY <1>2, <1>5
  <2>3. expenses \in [1..MaxRows -> Int] /\ r \in 1..MaxRows /\ seen \in Int
    BY <1>2, <1>5
  <2>4. SumUpTo(expenses', MaxRows) = SumUpTo(expenses, MaxRows) + seen
    BY <2>1, <2>2, <2>3, SumUpdate, RowsAssumption
  <2> QED BY <2>1, <2>4
<1>7. TypeOK'
  <2>1. rows' \in 0..MaxRows
    BY RowsAssumption DEF IInv, TypeOK, AddExpense, NewRow
  <2> QED BY <2>1, <1>4, <1>6 DEF IInv, TypeOK, AddExpense, saleVars, halves, closingVars, LedgerInv
<1>8. DrawerAddsUp'
  <2>1. DrawerAddsUp
    BY DEF IInv
  <2>2. UNCHANGED <<walkIn, walkInElsewhere, walkInRefunds, payments, incomes, moved, deleted>>
    BY DEF AddExpense, saleVars
  <2>3. PaidOut' = PaidOut + seen
    BY <1>2, <1>6, <2>2, Numbers DEF PaidOut
  <2>4. TakenIn' = TakenIn /\ Unseen' = Unseen
    BY <1>4, <2>2 DEF TakenIn, Unseen
  <2>5. InDrawer + Unseen = TakenIn - PaidOut
    BY <2>1 DEF DrawerAddsUp
  <2>6. InDrawer' + Unseen' = TakenIn' - PaidOut'
    <3>1. InDrawer' = InDrawer - seen
      BY <1>4
    <3>2. /\ seen \in Int /\ InDrawer \in Int
          /\ TakenIn \in Int /\ PaidOut \in Int /\ Unseen \in Int
      BY <1>2, Numbers, SumsOfTheDay
    <3>3. InDrawer' + Unseen' = (InDrawer + Unseen) - seen
      BY <2>4, <3>1, <3>2
    <3>4. TakenIn' - PaidOut' = (TakenIn - PaidOut) - seen
      BY <2>3, <2>4, <3>2
    <3> QED BY <2>5, <3>3, <3>4
  <2> QED BY <2>6 DEF DrawerAddsUp
<1>9. BlankRows' /\ ClosingExplained'
  <2>1. rows' = r /\ r = rows + 1 /\ rows \in 0..MaxRows /\ incomes' = incomes
    BY DEF AddExpense, NewRow, r, IInv, TypeOK
  <2>2. BlankRows
    BY DEF IInv
  <2>3. ASSUME NEW i \in 1..MaxRows, i > r PROVE expenses'[i] = 0 /\ incomes'[i] = 0
    BY <1>2, <1>5, <2>1, <2>2, <2>3 DEF BlankRows
  <2>4. BlankRows'
    BY <2>1, <2>3 DEF BlankRows
  <2> QED BY <2>4 DEF IInv, ClosingExplained, Explains, AddExpense, closingVars
<1> QED BY <1>4, <1>7, <1>8, <1>9 DEF IInv

LEMMA AddIncomeKeeps ==
  ASSUME IInv, NEW amount \in Amounts, NEW place \in Places, AddIncome(amount, place)
  PROVE  IInv'
<1> DEFINE seen == IfCash(place, amount)
           r == rows + 1
<1>1. /\ amount \in Int /\ place \in Accounts /\ place # Drawings /\ OtherIncome \in Accounts
      /\ OtherIncome # place /\ OtherIncome # Drawings /\ OtherIncome # CashInHand
  BY Chart DEF Places
<1>2. seen \in Int /\ r \in 1..MaxRows
  BY <1>1, RowsAssumption DEF IfCash, AddIncome, NewRow, IInv, TypeOK
<1>3. TypeOK /\ LedgerInv /\ UNCHANGED halves /\ ledger' = Post(ledger, place, OtherIncome, amount)
  BY DEF IInv, AddIncome, saleVars
<1>4. /\ LedgerInv'
      /\ Withdrawn' = Withdrawn
      /\ InDrawer' = InDrawer + seen
  BY <1>1, <1>3, Through DEF IfCash
<1>5. incomes' = [incomes EXCEPT ![r] = seen] /\ incomes \in [1..MaxRows -> Int] /\ incomes[r] = 0
  BY <1>2, RowsAssumption DEF AddIncome, IInv, TypeOK, BlankRows
<1> HIDE DEF seen, r
<1>6. /\ incomes' \in [1..MaxRows -> Int]
      /\ SumUpTo(incomes', MaxRows) = SumUpTo(incomes, MaxRows) + seen
  <2>1. incomes' \in [1..MaxRows -> Int]
    BY <1>2, <1>5
  <2>2. \A i \in 1..MaxRows : incomes'[i] = incomes[i] + (IF i = r THEN seen ELSE 0)
    BY <1>2, <1>5
  <2>3. incomes \in [1..MaxRows -> Int] /\ r \in 1..MaxRows /\ seen \in Int
    BY <1>2, <1>5
  <2>4. SumUpTo(incomes', MaxRows) = SumUpTo(incomes, MaxRows) + seen
    BY <2>1, <2>2, <2>3, SumUpdate, RowsAssumption
  <2> QED BY <2>1, <2>4
<1>7. TypeOK'
  <2>1. rows' \in 0..MaxRows
    BY RowsAssumption DEF IInv, TypeOK, AddIncome, NewRow
  <2> QED BY <2>1, <1>4, <1>6 DEF IInv, TypeOK, AddIncome, saleVars, halves, closingVars, LedgerInv
<1>8. DrawerAddsUp'
  <2>1. DrawerAddsUp
    BY DEF IInv
  <2>2. UNCHANGED <<walkIn, walkInElsewhere, walkInRefunds, payments, expenses, moved, deleted>>
    BY DEF AddIncome, saleVars
  <2>3. TakenIn' = TakenIn + seen
    <3>1. TakenIn' = walkIn + payments["sale"] + payments["customer"] + SumUpTo(incomes', MaxRows)
      BY <2>2 DEF TakenIn
    <3>2. TakenIn = walkIn + payments["sale"] + payments["customer"] + SumUpTo(incomes, MaxRows)
      BY DEF TakenIn
    <3>3. /\ seen \in Int /\ walkIn \in Int /\ payments["sale"] \in Int
          /\ payments["customer"] \in Int /\ SumUpTo(incomes, MaxRows) \in Int
      BY <1>2, Numbers
    <3>4. SumUpTo(incomes', MaxRows) = SumUpTo(incomes, MaxRows) + seen
      BY <1>6
    <3> QED BY <3>1, <3>2, <3>3, <3>4
  <2>4. PaidOut' = PaidOut /\ Unseen' = Unseen
    BY <1>4, <2>2 DEF PaidOut, Unseen
  <2> QED BY <1>2, <1>4, <2>1, <2>3, <2>4, Numbers, SumsOfTheDay DEF DrawerAddsUp
<1>9. BlankRows' /\ ClosingExplained'
  <2>1. rows' = r /\ r = rows + 1 /\ rows \in 0..MaxRows /\ expenses' = expenses
    BY DEF AddIncome, NewRow, r, IInv, TypeOK
  <2>2. BlankRows
    BY DEF IInv
  <2>3. ASSUME NEW i \in 1..MaxRows, i > r PROVE expenses'[i] = 0 /\ incomes'[i] = 0
    BY <1>2, <1>5, <2>1, <2>2, <2>3 DEF BlankRows
  <2>4. BlankRows'
    BY <2>1, <2>3 DEF BlankRows
  <2> QED BY <2>4 DEF IInv, ClosingExplained, Explains, AddIncome, closingVars
<1> QED BY <1>4, <1>7, <1>8, <1>9 DEF IInv

LEMMA DeleteExpenseKeeps ==
  ASSUME IInv, NEW r \in 1..MaxRows, DeleteExpense(r)
  PROVE  IInv'
<1> DEFINE change == 0 - expenses[r]
<1>1. change \in Int /\ expenses \in [1..MaxRows -> Int] /\ expenses' = [expenses EXCEPT ![r] = 0]
  BY DEF DeleteExpense, IInv, TypeOK
<1>2. /\ deleted' = deleted + expenses[r]
      /\ UNCHANGED <<walkIn, walkInElsewhere, walkInRefunds, payments, incomes, moved,
                     raised, lowered, closing, form, closings, rows, ledger>>
  BY DEF DeleteExpense, saleVars, halves, closingVars
<1>3. expenses' \in [1..MaxRows -> Int]
  BY <1>1
<1>4. \A i \in 1..MaxRows : expenses'[i] = expenses[i] + (IF i = r THEN change ELSE 0)
  BY <1>1
<1>10. deleted' = deleted + (0 - change) /\ deleted \in Int
  <2>1. expenses[r] \in Int /\ deleted \in Int
    BY <1>1, Numbers
  <2> QED BY <1>2, <2>1
<1> HIDE DEF change
<1>5. SumUpTo(expenses', MaxRows) = SumUpTo(expenses, MaxRows) + change
  <2>1. expenses \in [1..MaxRows -> Int] /\ change \in Int
    BY <1>1
  <2> QED BY <1>3, <1>4, <2>1, SumUpdate, RowsAssumption
<1>6. TypeOK'
  <2>1. deleted' \in Int
    BY <1>1, <1>10
  <2> QED BY <1>2, <1>3, <2>1 DEF IInv, TypeOK
<1>7. DrawerAddsUp'
  <2>1. TakenIn' = TakenIn + 0 /\ InDrawer' = InDrawer + 0
    BY <1>2, Numbers, SumsOfTheDay DEF TakenIn, InDrawer
  <2>2. PaidOut' = PaidOut + change
    <3>1. PaidOut' = payments["purchase"] + payments["supplier"] + SumUpTo(expenses', MaxRows)
      BY <1>2 DEF PaidOut
    <3>2. PaidOut = payments["purchase"] + payments["supplier"] + SumUpTo(expenses, MaxRows)
      BY DEF PaidOut
    <3>3. payments["purchase"] \in Int /\ payments["supplier"] \in Int
          /\ SumUpTo(expenses, MaxRows) \in Int /\ change \in Int
      BY <1>1, Numbers
    <3> QED BY <1>5, <3>1, <3>2, <3>3
  <2>3. Unseen' = Unseen + (0 - change)
    <3> DEFINE rest == walkInElsewhere + walkInRefunds + payments["customerRefund"]
                         - payments["supplierRefund"] - moved + Withdrawn
    <3>1. rest \in Int
      BY Numbers
    <3>2. Unseen = rest + deleted
      BY DEF Unseen
    <3>3. Unseen' = rest + deleted'
      BY <1>2 DEF Unseen, Withdrawn
    <3>4. deleted \in Int /\ change \in Int
      BY <1>1, Numbers
    <3> HIDE DEF rest
    <3> QED BY <1>10, <3>1, <3>2, <3>3, <3>4
  <2>4. 0 \in Int /\ change \in Int /\ 0 - change \in Int /\ 0 + (0 - change) = 0 - change
    BY <1>1
  <2> QED BY <2>1, <2>2, <2>3, <2>4, DrawerStep
<1>8. BlankRows'
  <2>1. BlankRows
    BY DEF IInv
  <2> QED BY <1>1, <1>2, <2>1 DEF BlankRows
<1>9. LedgerInv' /\ ClosingExplained'
  BY <1>2 DEF IInv, LedgerInv, CachesFollowLines, ClosingExplained, Explains
<1> QED BY <1>6, <1>7, <1>8, <1>9 DEF IInv

LEMMA DeleteIncomeKeeps ==
  ASSUME IInv, NEW r \in 1..MaxRows, DeleteIncome(r)
  PROVE  IInv'
<1> DEFINE change == 0 - incomes[r]
<1>1. change \in Int /\ incomes \in [1..MaxRows -> Int] /\ incomes' = [incomes EXCEPT ![r] = 0]
  BY DEF DeleteIncome, IInv, TypeOK
<1>2. /\ deleted' = deleted - incomes[r]
      /\ UNCHANGED <<walkIn, walkInElsewhere, walkInRefunds, payments, expenses, moved,
                     raised, lowered, closing, form, closings, rows, ledger>>
  BY DEF DeleteIncome, saleVars, halves, closingVars
<1>3. incomes' \in [1..MaxRows -> Int]
  BY <1>1
<1>4. \A i \in 1..MaxRows : incomes'[i] = incomes[i] + (IF i = r THEN change ELSE 0)
  BY <1>1
<1>10. deleted' = deleted + change /\ deleted \in Int
  <2>1. incomes[r] \in Int /\ deleted \in Int
    BY <1>1, Numbers
  <2> QED BY <1>2, <2>1
<1> HIDE DEF change
<1>5. SumUpTo(incomes', MaxRows) = SumUpTo(incomes, MaxRows) + change
  <2>1. incomes \in [1..MaxRows -> Int] /\ change \in Int
    BY <1>1
  <2> QED BY <1>3, <1>4, <2>1, SumUpdate, RowsAssumption
<1>6. TypeOK'
  <2>1. deleted' \in Int
    BY <1>1, <1>10
  <2> QED BY <1>2, <1>3, <2>1 DEF IInv, TypeOK
<1>7. DrawerAddsUp'
  <2>1. PaidOut' = PaidOut + 0 /\ InDrawer' = InDrawer + 0
    BY <1>2, Numbers, SumsOfTheDay DEF PaidOut, InDrawer
  <2>2. TakenIn' = TakenIn + change
    <3>1. TakenIn' = walkIn + payments["sale"] + payments["customer"] + SumUpTo(incomes', MaxRows)
      BY <1>2 DEF TakenIn
    <3>2. TakenIn = walkIn + payments["sale"] + payments["customer"] + SumUpTo(incomes, MaxRows)
      BY DEF TakenIn
    <3>3. walkIn \in Int /\ payments["sale"] \in Int /\ payments["customer"] \in Int
          /\ SumUpTo(incomes, MaxRows) \in Int /\ change \in Int
      BY <1>1, Numbers
    <3> QED BY <1>5, <3>1, <3>2, <3>3
  <2>3. Unseen' = Unseen + (change)
    <3> DEFINE rest == walkInElsewhere + walkInRefunds + payments["customerRefund"]
                         - payments["supplierRefund"] - moved + Withdrawn
    <3>1. rest \in Int
      BY Numbers
    <3>2. Unseen = rest + deleted
      BY DEF Unseen
    <3>3. Unseen' = rest + deleted'
      BY <1>2 DEF Unseen, Withdrawn
    <3>4. deleted \in Int /\ change \in Int
      BY <1>1, Numbers
    <3> HIDE DEF rest
    <3> QED BY <1>10, <3>1, <3>2, <3>3, <3>4
  <2>4. 0 \in Int /\ change \in Int /\ change \in Int /\ 0 + (change) = change - 0
    BY <1>1
  <2> QED BY <2>1, <2>2, <2>3, <2>4, DrawerStep
<1>8. BlankRows'
  <2>1. BlankRows
    BY DEF IInv
  <2> QED BY <1>1, <1>2, <2>1 DEF BlankRows
<1>9. LedgerInv' /\ ClosingExplained'
  BY <1>2 DEF IInv, LedgerInv, CachesFollowLines, ClosingExplained, Explains
<1> QED BY <1>6, <1>7, <1>8, <1>9 DEF IInv

LEMMA CashInKeeps ==
  ASSUME IInv, NEW register \in Places, NEW counter \in CounterAccounts, NEW amount \in Amounts,
         CashIn(register, counter, amount)
  PROVE  IInv'
<1> DEFINE seen == IfCash(register, amount)
<1>1. /\ amount \in Int /\ register \in Accounts /\ register # Drawings /\ counter \in Accounts
      /\ counter # register /\ counter # Drawings /\ counter # CashInHand
  BY Chart DEF Places, CounterAccounts
<1>2. seen \in Int
  BY <1>1 DEF IfCash
<1>3. TypeOK /\ LedgerInv /\ UNCHANGED halves /\ ledger' = Post(ledger, register, counter, amount)
  BY DEF IInv, CashIn, saleVars
<1>4. /\ LedgerInv'
      /\ Withdrawn' = Withdrawn
      /\ InDrawer' = InDrawer + seen
  BY <1>1, <1>3, Through DEF IfCash
<1>5. /\ moved' = moved + seen
      /\ UNCHANGED <<walkIn, walkInElsewhere, walkInRefunds, payments, expenses, incomes, deleted,
                     raised, lowered, closing, form, closings>>
  BY DEF CashIn, saleVars, halves, closingVars
<1> HIDE DEF seen
<1>6. TypeOK'
  <2>1. rows' \in 0..MaxRows /\ moved' \in Int
    BY <1>2, <1>5, RowsAssumption, Numbers DEF IInv, TypeOK, CashIn, NewRow
  <2> QED BY <2>1, <1>4, <1>5 DEF IInv, TypeOK, LedgerInv
<1>7. DrawerAddsUp'
  <2>1. DrawerAddsUp
    BY DEF IInv
  <2>2. TakenIn' = TakenIn /\ PaidOut' = PaidOut
    BY <1>5 DEF TakenIn, PaidOut
  <2>3. Unseen' = Unseen - seen
    BY <1>2, <1>4, <1>5, Numbers DEF Unseen
  <2> QED BY <1>2, <1>4, <2>1, <2>2, <2>3, Numbers, SumsOfTheDay DEF DrawerAddsUp
<1>8. BlankRows' /\ ClosingExplained'
  BY <1>5 DEF IInv, TypeOK, BlankRows, ClosingExplained, Explains, CashIn, NewRow
<1> QED BY <1>4, <1>6, <1>7, <1>8 DEF IInv

LEMMA CashOutKeeps ==
  ASSUME IInv, NEW register \in Places, NEW counter \in CounterAccounts, NEW amount \in Amounts,
         CashOut(register, counter, amount)
  PROVE  IInv'
<1> DEFINE seen == IfCash(register, amount)
<1>1. /\ amount \in Int /\ register \in Accounts /\ register # Drawings /\ counter \in Accounts
      /\ counter # register /\ counter # Drawings /\ counter # CashInHand
  BY Chart DEF Places, CounterAccounts
<1>2. seen \in Int
  BY <1>1 DEF IfCash
<1>3. TypeOK /\ LedgerInv /\ UNCHANGED halves /\ ledger' = Post(ledger, counter, register, amount)
  BY DEF IInv, CashOut, saleVars
<1>4. /\ LedgerInv'
      /\ Withdrawn' = Withdrawn
      /\ InDrawer' = InDrawer - seen
  <2>1. InDrawer' =
          InDrawer + (IF register = CashInHand THEN -amount ELSE 0)
    BY <1>1, <1>3, Through
  <2> QED BY <1>1, <1>3, <2>1, Through, Numbers DEF IfCash
<1>5. /\ moved' = moved - seen
      /\ UNCHANGED <<walkIn, walkInElsewhere, walkInRefunds, payments, expenses, incomes, deleted,
                     raised, lowered, closing, form, closings>>
  BY DEF CashOut, saleVars, halves, closingVars
<1> HIDE DEF seen
<1>6. TypeOK'
  <2>1. rows' \in 0..MaxRows /\ moved' \in Int
    <3>1. rows' \in 0..MaxRows
      BY RowsAssumption DEF IInv, TypeOK, CashOut, NewRow
    <3> QED BY <1>2, <1>5, <3>1, Numbers
  <2> QED BY <2>1, <1>4, <1>5 DEF IInv, TypeOK, LedgerInv
<1>7. DrawerAddsUp'
  <2>1. DrawerAddsUp
    BY DEF IInv
  <2>2. TakenIn' = TakenIn /\ PaidOut' = PaidOut
    BY <1>5 DEF TakenIn, PaidOut
  <2>3. Unseen' = Unseen + seen
    BY <1>2, <1>4, <1>5, Numbers DEF Unseen
  <2> QED BY <1>2, <1>4, <2>1, <2>2, <2>3, Numbers, SumsOfTheDay DEF DrawerAddsUp
<1>8. BlankRows' /\ ClosingExplained'
  BY <1>5 DEF IInv, TypeOK, BlankRows, ClosingExplained, Explains, CashOut, NewRow
<1> QED BY <1>4, <1>6, <1>7, <1>8 DEF IInv

\* What is read is what the ledger has in the drawer, because the sums add up.
LEMMA CountKeeps ==
  ASSUME IInv, NEW m \in Managers, NEW opening \in Floats, NEW withdrawn \in Withdrawals,
         Count(m, opening, withdrawn)
  PROVE  IInv'
<1> DEFINE read == [opening     |-> opening,
                    withdrawals |-> withdrawn,
                    expected    |-> opening + TakenIn - PaidOut - withdrawn,
                    drawer      |-> InDrawer + Unseen]
<1>1. opening \in Int /\ withdrawn \in Int
  OBVIOUS
<1>2. /\ form' = [form EXCEPT ![m] = read]
      /\ UNCHANGED <<saleVars, payments, cashVars, closing, closings, rows, ledger>>
  BY DEF Count
<1>3. read \in Closings
  BY <1>1, Numbers, SumsOfTheDay DEF Closings
<1>4. Explains(read)
  <2>1. InDrawer + Unseen = TakenIn - PaidOut
    BY DEF IInv, DrawerAddsUp
  <2>2. InDrawer \in Int /\ TakenIn \in Int /\ PaidOut \in Int /\ Unseen \in Int
    BY Numbers, SumsOfTheDay
  <2> QED BY <1>1, <2>1, <2>2 DEF Explains
<1> HIDE DEF read
<1>5. TypeOK'
  BY <1>2, <1>3 DEF IInv, TypeOK, saleVars, halves, cashVars
<1>6. ClosingExplained'
  <2>1. form \in [Managers -> Closings \cup {NoRecord}] /\ ClosingExplained
    BY DEF IInv, TypeOK
  <2>2. \A n \in Managers : form'[n] = IF n = m THEN read ELSE form[n]
    BY <1>2, <2>1
  <2> QED BY <1>2, <1>4, <2>1, <2>2 DEF ClosingExplained, Explains
<1>7. BlankRows' /\ DrawerAddsUp' /\ LedgerInv'
  BY <1>2 DEF IInv, LedgerInv, CachesFollowLines, BlankRows, DrawerAddsUp, TakenIn, PaidOut, Unseen,
              InDrawer, Withdrawn, saleVars, halves, cashVars
<1> QED BY <1>5, <1>6, <1>7 DEF IInv

\* The withdrawal leaves the drawer, and Unseen knows.
LEMMA SaveClosingKeeps ==
  ASSUME IInv, NEW m \in Managers, SaveClosing(m)
  PROVE  IInv'
<1> DEFINE taken == form[m].withdrawals
<1>1. form[m] \in Closings /\ taken \in Int /\ form \in [Managers -> Closings \cup {NoRecord}]
  BY DEF SaveClosing, IInv, TypeOK, Closings
<1>2. /\ closing' = form[m]
      /\ form' = [form EXCEPT ![m] = NoRecord]
      /\ closings' = closings + 1
      /\ ledger' = Post(ledger, Drawings, CashInHand, taken)
      /\ UNCHANGED <<walkIn, walkInElsewhere, walkInRefunds, payments, expenses, incomes, moved,
                     deleted, raised, lowered, rows>>
  BY DEF SaveClosing, saleVars, halves, cashVars
<1> HIDE DEF taken
<1>3. /\ Drawings \in Accounts /\ CashInHand \in Accounts /\ Drawings # CashInHand
      /\ CashInHand \in DebitIncreases /\ Drawings \notin DebitIncreases
  BY Chart
<1>4. TypeOK /\ LedgerInv /\ LedgerType(ledger) /\ UNCHANGED halves
  BY <1>2 DEF IInv, LedgerInv, halves
<1>5. LedgerInv'
  BY <1>1, <1>2, <1>3, <1>4, CentsKeepLedger DEF TypeOK
<1>6. Withdrawn' = Withdrawn + taken /\ InDrawer' = InDrawer + (-taken)
  <2>1. /\ ledger' = PostUnrounded(ledger, Drawings, CashInHand, Cent * taken)
        /\ Cent * taken \in Int /\ Cents(Cent * taken) = taken
    BY <1>1, <1>2, WholeCents DEF Post
  <2>2. /\ BalanceDelta(Drawings, "debit", taken) = -taken
        /\ BalanceDelta(CashInHand, "credit", taken) = -taken
    BY <1>3 DEF BalanceDelta
  <2>3. \A c \in Accounts :
          /\ ComputedBalance(ledger, c) \in Int
          /\ ComputedBalance(ledger', c) =
               ComputedBalance(ledger, c)
                 + (IF c = Drawings THEN BalanceDelta(Drawings, "debit", taken)
                    ELSE IF c = CashInHand THEN BalanceDelta(CashInHand, "credit", taken) ELSE 0)
    BY <1>3, <1>4, <2>1, PostLines
  <2>4. /\ ComputedBalance(ledger', Drawings) = ComputedBalance(ledger, Drawings) + (-taken)
        /\ ComputedBalance(ledger', CashInHand) = ComputedBalance(ledger, CashInHand) + (-taken)
        /\ ComputedBalance(ledger, Drawings) \in Int
    BY <1>3, <2>2, <2>3
  <2> QED BY <1>1, <2>4 DEF Withdrawn, InDrawer
<1>7. TypeOK'
  <2>1. closings' \in Nat /\ form' \in [Managers -> Closings \cup {NoRecord}]
    BY <1>1, <1>2 DEF IInv, TypeOK
  <2> QED BY <1>1, <1>2, <1>5, <2>1 DEF IInv, TypeOK, LedgerInv
<1>8. DrawerAddsUp'
  <2>1. TakenIn' = TakenIn /\ PaidOut' = PaidOut
    BY <1>2 DEF TakenIn, PaidOut
  <2>2. Unseen' = Unseen + taken
    BY <1>1, <1>2, <1>6, Numbers DEF Unseen
  <2>3. DrawerAddsUp
    BY DEF IInv
  <2> QED BY <1>1, <1>6, <2>1, <2>2, <2>3, Numbers, SumsOfTheDay DEF DrawerAddsUp
<1>9. ClosingExplained'
  <2>1. \A n \in Managers : form'[n] = IF n = m THEN NoRecord ELSE form[n]
    BY <1>1, <1>2
  <2>2. ClosingExplained /\ form[m] # NoRecord
    BY DEF IInv, SaveClosing
  <2> QED BY <1>2, <2>1, <2>2 DEF ClosingExplained, Explains
<1>10. BlankRows'
  BY <1>2 DEF IInv, BlankRows
<1> QED BY <1>5, <1>7, <1>8, <1>9, <1>10 DEF IInv

-----------------------------------------------------------------------------

LEMMA InitIInv == Init => IInv
<1> SUFFICES ASSUME Init PROVE IInv
  OBVIOUS
<1>1. LedgerInv /\ ledger = EmptyLedger
  <2>1. ledger = EmptyLedger /\ LedgerType(ledger) /\ DebitsEqualCredits(ledger)
    BY EmptyBooks DEF Init, Books
  <2>2. \A a \in Accounts : Drift(ledger, a) = 0
    BY <2>1, EmptyBooks DEF Books, BalancesCached
  <2>3. \A a \in Accounts : raised[a] = 0 /\ lowered[a] = 0
    BY DEF Init
  <2> QED BY <2>1, <2>2, <2>3 DEF LedgerInv, CachesFollowLines
<1>2. TypeOK
  BY <1>1, RowsAssumption DEF Init, TypeOK, LedgerInv
<1>3. SumUpTo(expenses, MaxRows) = 0 /\ SumUpTo(incomes, MaxRows) = 0
  <2>1. /\ expenses \in [1..MaxRows -> Int] /\ incomes \in [1..MaxRows -> Int]
        /\ \A i \in 1..MaxRows : expenses[i] = 0
        /\ \A i \in 1..MaxRows : incomes[i] = 0
    BY DEF Init
  <2> QED BY <2>1, SumZero, RowsAssumption
<1>4. InDrawer = 0 /\ Withdrawn = 0
  <2>1. \A a \in Accounts : ledger.debit[a] = 0 /\ ledger.credit[a] = 0
    BY <1>1 DEF EmptyLedger
  <2>2. CashInHand \in Accounts /\ Drawings \in Accounts
    BY Chart
  <2> QED BY <2>1, <2>2 DEF InDrawer, Withdrawn, ComputedBalance
<1>5. \A k \in PaymentKinds : payments[k] = 0
  BY DEF Init
<1>6. /\ payments["sale"] = 0 /\ payments["customer"] = 0 /\ payments["supplierRefund"] = 0
      /\ payments["purchase"] = 0 /\ payments["supplier"] = 0 /\ payments["customerRefund"] = 0
  BY <1>5 DEF PaymentKinds, Incoming, Outgoing
<1>7. DrawerAddsUp
  BY <1>3, <1>4, <1>6 DEF Init, DrawerAddsUp, Unseen, TakenIn, PaidOut
<1>8. BlankRows /\ ClosingExplained
  BY DEF Init, BlankRows, ClosingExplained
<1> QED BY <1>1, <1>2, <1>7, <1>8 DEF IInv

LEMMA NextIInv == IInv /\ [Next]_vars => IInv'
<1> SUFFICES ASSUME IInv, [Next]_vars PROVE IInv'
  OBVIOUS
<1>1. CASE Next
  BY <1>1, WalkInSaleKeeps, WalkInReturnKeeps, RecordPaymentKeeps, AddExpenseKeeps, AddIncomeKeeps,
     DeleteExpenseKeeps, DeleteIncomeKeeps, CashInKeeps, CashOutKeeps, CountKeeps, SaveClosingKeeps
     DEF Next
<1>2. CASE UNCHANGED vars
  BY <1>2 DEF vars, saleVars, halves, cashVars, closingVars, IInv, TypeOK, LedgerInv,
              CachesFollowLines, BlankRows, DrawerAddsUp, TakenIn, PaidOut, Unseen, InDrawer,
              Withdrawn, ClosingExplained, Explains
<1> QED BY <1>1, <1>2

-----------------------------------------------------------------------------
(***************************************************************************)
(* The theorems.                                                           *)
(***************************************************************************)

\* The inductive invariant holds whatever the constants are.
THEOREM Inductive == Spec => []IInv
BY InitIInv, NextIInv, PTL DEF Spec

\* No document and no closing leaves a column outside its type; payments are never
\* negative in total.
THEOREM TypeCorrect == Spec => []TypeOK
<1>1. IInv => TypeOK
  BY DEF IInv
<1> QED BY <1>1, Inductive, PTL

\* Whatever is recorded, in cents or as a product of quantity and price, a cached balance
\* is off its lines by no more cents than lines of an exact half cent explain, in the
\* direction they explain, and debits equal credits.
THEOREM CachesFollow == Spec => []CachesFollowLines
<1>1. IInv => CachesFollowLines
  BY DEF IInv, LedgerInv
<1> QED BY <1>1, Inductive, PTL

\* A closing expects what the ledger's lines had in the drawer when its sums were read, but
\* for the movements its queries do not see.
THEOREM ClosingsExplained == Spec => []ClosingExplained
<1>1. IInv => ClosingExplained
  BY DEF IInv
<1> QED BY <1>1, Inductive, PTL

=============================================================================
