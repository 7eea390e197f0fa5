----------------------------- MODULE DayClosing -----------------------------
(***************************************************************************)
(* The cash drawer over one day: everything that finance/services.py and   *)
(* its callers record under one date, and close_day, which compares it     *)
(* with what is counted in the drawer.  The drawer is the account 1000,    *)
(* which is also the account of the MAIN register; a Till is any other.    *)
(*                                                                         *)
(* close_day reads its sums first and writes in a transaction of its own,  *)
(* so rows may be recorded in between, and two managers may be at it at    *)
(* once.  Its seven queries are one step here.  Rows of the day may also   *)
(* be recorded after it has been closed: forms carry a date.               *)
(*                                                                         *)
(* Walk-in sales and their refunds are posted as quantity times price,     *)
(* unrounded; every other amount is entered in cents.                      *)
(***************************************************************************)
EXTENDS Ledger

CONSTANTS
  Managers,     \* requests that close the day
  Amounts,      \* amounts of documents, in cents
  Totals,       \* totals of walk-in sales and refunds, in hundredths of a cent
  Floats,       \* opening_cash, as entered
  Withdrawals,  \* withdrawals, as entered
  MaxRows,      \* bound on the documents of the day
  MaxClosings,  \* bound on how often the day is closed
  NoRecord      \* no closing, or no form being worked on

ASSUME DayAmountsAssumption == Amounts \subseteq Int
ASSUME TotalsAssumption == Totals \subseteq Int
ASSUME FloatsAssumption == Floats \subseteq Int
ASSUME RowsAssumption == MaxRows \in Nat
ASSUME WithdrawalsAssumption == Withdrawals \subseteq Int

Closings ==
  [opening : Int, withdrawals : Int, expected : Int, drawer : Int]

ASSUME NoRecordAssumption == NoRecord \notin Closings

Places == {CashInHand, Till}

\* Kinds of Payment: which way the money goes, and with whom.
Incoming == {"sale", "customer", "supplierRefund"}
Outgoing == {"purchase", "supplier", "customerRefund"}
PaymentKinds == Incoming \cup Outgoing
PartyOf(kind) ==
  IF kind \in {"sale", "customer", "customerRefund"} THEN Receivable ELSE Payable

VARIABLES
  walkIn,          \* totals of walk-in sales, whatever account they went to
  walkInElsewhere, \* ... and of those that went to another account than 1000
  walkInRefunds,   \* refunds of walk-in sales, of this or another day
  raised,          \* lines of an exact half cent that raised a balance (history)
  lowered,         \* ... and that lowered one (history)
  payments,        \* Payment rows of account 1000, per kind
  expenses,        \* Expense rows of account 1000, by document number
  incomes,         \* Income rows of account 1000, by document number
  moved,           \* net CashTransaction rows of the MAIN register
  deleted,         \* Expense less Income rows of account 1000 that were deleted (history)
  closing,         \* the DayClosing row
  form,            \* what a close_day request has read and computed
  rows,            \* documents so far
  closings,        \* times close_day has been served
  ledger

halves == <<raised, lowered>>
saleVars == <<walkIn, walkInElsewhere, walkInRefunds, halves>>
cashVars == <<expenses, incomes, moved, deleted>>
closingVars == <<closing, form, closings>>
vars == <<saleVars, payments, cashVars, closingVars, rows, ledger>>

-----------------------------------------------------------------------------
(***************************************************************************)
(* Documents.                                                              *)
(***************************************************************************)

NewRow == rows < MaxRows /\ rows' = rows + 1

\* The rows of account 1000 are those that close_day will sum.
IfCash(place, amount) == IF place = CashInHand THEN amount ELSE 0

\* The line of account a in a transaction, by the test it passes.
CountIf(Passes(_, _, _), debited, credited, total, a) ==
  IF \/ a = debited /\ Passes(a, "debit", total)
     \/ a = credited /\ Passes(a, "credit", total)
  THEN 1 ELSE 0

PostTotal(debited, credited, total) ==
  /\ ledger' = PostUnrounded(ledger, debited, credited, total)
  /\ raised' =
       [a \in Accounts |-> raised[a] + CountIf(RaisesByHalf, debited, credited, total, a)]
  /\ lowered' =
       [a \in Accounts |-> lowered[a] + CountIf(LowersByHalf, debited, credited, total, a)]

\* create_sale with no customer: received in full by a register, or by 1000.
WalkInSale(total, place) ==
  /\ NewRow
  /\ walkIn' = walkIn + Cents(total)
  /\ walkInElsewhere' = walkInElsewhere + Cents(total) - IfCash(place, Cents(total))
  /\ PostTotal(place, SalesRevenue, total)
  /\ UNCHANGED <<walkInRefunds, payments, cashVars, closingVars>>

\* create_sales_return of a walk-in sale: always out of 1000.
WalkInReturn(total) ==
  /\ NewRow
  /\ walkInRefunds' = walkInRefunds + Cents(total)
  /\ PostTotal(SalesRevenue, CashInHand, total)
  /\ UNCHANGED <<walkIn, walkInElsewhere, payments, cashVars, closingVars>>

\* Fault: the amount is not looked at.
AcceptsAny(amount) == TRUE

\* record_payment and record_cash_transaction refuse what is not positive.
Accepts(amount) == amount > 0

\* record_payment, of an invoice or on account.
RecordPayment(kind, amount, place) ==
  /\ NewRow
  /\ Accepts(amount)
  /\ payments' = [payments EXCEPT ![kind] = @ + IfCash(place, amount)]
  /\ ledger' = IF kind \in Incoming THEN Post(ledger, place, PartyOf(kind), amount)
                                    ELSE Post(ledger, PartyOf(kind), place, amount)
  /\ UNCHANGED <<saleVars, cashVars, closingVars>>

\* expense_create: post_expense has a zero amount refused by post_transaction.
AddExpense(amount, place) ==
  /\ NewRow
  /\ amount # 0
  /\ expenses' = [expenses EXCEPT ![rows + 1] = IfCash(place, amount)]
  /\ ledger' = Post(ledger, OperatingExpenses, place, amount)
  /\ UNCHANGED <<saleVars, payments, incomes, moved, deleted, closingVars>>

\* income_create.
AddIncome(amount, place) ==
  /\ NewRow
  /\ amount # 0
  /\ incomes' = [incomes EXCEPT ![rows + 1] = IfCash(place, amount)]
  /\ ledger' = Post(ledger, place, OtherIncome, amount)
  /\ UNCHANGED <<saleVars, payments, expenses, moved, deleted, closingVars>>

\* expense_delete and income_delete: the row goes, the ledger stays.
DeleteExpense(r) ==
  /\ expenses[r] # 0
  /\ expenses' = [expenses EXCEPT ![r] = 0]
  /\ deleted' = deleted + expenses[r]
  /\ UNCHANGED <<saleVars, payments, incomes, moved, closingVars, rows, ledger>>

DeleteIncome(r) ==
  /\ incomes[r] # 0
  /\ incomes' = [incomes EXCEPT ![r] = 0]
  /\ deleted' = deleted - incomes[r]
  /\ UNCHANGED <<saleVars, payments, expenses, moved, closingVars, rows, ledger>>

\* COUNTER_ACCOUNT_BY_TYPE: the owner, the bank or the safe.
CounterAccounts == {OwnerCapital, Bank, Safe}

\* record_cash_transaction, with the direction CashTransactionForm gives the type:
\* floats, owner funding and what comes from the bank or the safe is IN.
CashIn(register, counter, amount) ==
  /\ NewRow
  /\ Accepts(amount)
  /\ moved' = moved + IfCash(register, amount)
  /\ ledger' = Post(ledger, register, counter, amount)
  /\ UNCHANGED <<saleVars, payments, expenses, incomes, deleted, closingVars>>

CashOut(register, counter, amount) ==
  /\ NewRow
  /\ Accepts(amount)
  /\ moved' = moved - IfCash(register, amount)
  /\ ledger' = Post(ledger, counter, register, amount)
  /\ UNCHANGED <<saleVars, payments, expenses, incomes, deleted, closingVars>>

-----------------------------------------------------------------------------
(***************************************************************************)
(* Closing the day.                                                        *)
(***************************************************************************)

\* cash_sales, customer_cash_payments and other_cash_income.
TakenIn == walkIn + payments["sale"] + payments["customer"] + SumUpTo(incomes, MaxRows)

\* Fault: expenses are forgotten.
PaidOutToSuppliers == payments["purchase"] + payments["supplier"]

\* cash_purchases, supplier_cash_payments and expenses.
PaidOut == payments["purchase"] + payments["supplier"] + SumUpTo(expenses, MaxRows)

\* What the ledger's lines have brought into the drawer, and out of it as withdrawals:
\* Owner's Drawings is an equity account.
InDrawer == ComputedBalance(ledger, CashInHand)
Withdrawn == -ComputedBalance(ledger, Drawings)

\* What the queries miss of the movement on account 1000, or count although it was on
\* another account.
Unseen ==
  walkInElsewhere + walkInRefunds + payments["customerRefund"]
    - payments["supplierRefund"] - moved + Withdrawn + deleted

\* The queries of close_day and the sum it makes of them.  "drawer" is a history
\* variable: what the day has brought into account 1000, the unseen part aside.
Count(m, opening, withdrawn) ==
  /\ form[m] = NoRecord
  /\ closings < MaxClosings
  /\ form' = [form EXCEPT ![m] =
       [opening     |-> opening,
        withdrawals |-> withdrawn,
        expected    |-> opening + TakenIn - PaidOut - withdrawn,
        drawer      |-> InDrawer + Unseen]]
  /\ UNCHANGED <<saleVars, payments, cashVars, closing, closings, rows, ledger>>

\* The transaction of close_day: update_or_create of the row, and the withdrawal.
SaveClosing(m) ==
  /\ form[m] # NoRecord
  /\ closing' = form[m]
  /\ form' = [form EXCEPT ![m] = NoRecord]
  /\ closings' = closings + 1
  /\ ledger' = Post(ledger, Drawings, CashInHand, form[m].withdrawals)
  /\ UNCHANGED <<saleVars, payments, cashVars, rows>>

-----------------------------------------------------------------------------

Init ==
  /\ walkIn = 0 /\ walkInElsewhere = 0 /\ walkInRefunds = 0
  /\ raised = [a \in Accounts |-> 0] /\ lowered = [a \in Accounts |-> 0]
  /\ payments = [k \in PaymentKinds |-> 0]
  /\ expenses = [r \in 1..MaxRows |-> 0]
  /\ incomes = [r \in 1..MaxRows |-> 0]
  /\ moved = 0 /\ deleted = 0
  /\ closing = NoRecord
  /\ form = [m \in Managers |-> NoRecord]
  /\ rows = 0 /\ closings = 0
  /\ ledger = EmptyLedger

Next ==
  \/ \E t \in Totals, p \in Places : WalkInSale(t, p)
  \/ \E t \in Totals : WalkInReturn(t)
  \/ \E k \in PaymentKinds, a \in Amounts, p \in Places : RecordPayment(k, a, p)
  \/ \E a \in Amounts, p \in Places : AddExpense(a, p)
  \/ \E a \in Amounts, p \in Places : AddIncome(a, p)
  \/ \E r \in 1..MaxRows : DeleteExpense(r)
  \/ \E r \in 1..MaxRows : DeleteIncome(r)
  \/ \E p \in Places, c \in CounterAccounts, a \in Amounts : CashIn(p, c, a)
  \/ \E p \in Places, c \in CounterAccounts, a \in Amounts : CashOut(p, c, a)
  \/ \E m \in Managers, o \in Floats, w \in Withdrawals : Count(m, o, w)
  \/ \E m \in Managers : SaveClosing(m)

Spec == Init /\ [][Next]_vars

-----------------------------------------------------------------------------
(***************************************************************************)
(* Properties.                                                             *)
(***************************************************************************)

\* Every column holds what its field can hold; payments are positive, so no total of
\* them is negative.
TypeOK ==
  /\ walkIn \in Int /\ walkInElsewhere \in Int /\ walkInRefunds \in Int
  /\ raised \in [Accounts -> Nat] /\ lowered \in [Accounts -> Nat]
  /\ payments \in [PaymentKinds -> Nat]
  /\ expenses \in [1..MaxRows -> Int]
  /\ incomes \in [1..MaxRows -> Int]
  /\ moved \in Int /\ deleted \in Int
  /\ closing \in Closings \cup {NoRecord}
  /\ form \in [Managers -> Closings \cup {NoRecord}]
  /\ rows \in 0..MaxRows
  /\ closings \in Nat
  /\ LedgerType(ledger)

\* The cached balances follow the lines, apart from exact half cents: a line of one that
\* raises a balance may leave it a cent short of its lines, one that lowers it a cent
\* over, and nothing else ever makes account_reconciliation_report show a difference.
\* (AccountReconciliationTests claims there is never any.)  Debits equal credits, as
\* both lines of a transaction round alike.
CachesFollowLines ==
  /\ \A a \in Accounts : -raised[a] <= Drift(ledger, a) /\ Drift(ledger, a) <= lowered[a]
  /\ DebitsEqualCredits(ledger)

\* The sums of close_day account for every movement on account 1000 but the unseen
\* ones: no other document of the day is missed or counted twice.
DrawerAddsUp == InDrawer + Unseen = TakenIn - PaidOut

\* So a closing, whatever was recorded while it was made or by other closings, expects
\* what the ledger's lines had in the drawer when its sums were read.
Explains(c) == c.expected = c.opening + c.drawer - c.withdrawals
ClosingExplained ==
  /\ closing # NoRecord => Explains(closing)
  /\ \A m \in Managers : form[m] # NoRecord => Explains(form[m])

\* What the documentation says of a second closing (the docstring of close_day):
\* "Re-closing an already-closed date overwrites its snapshot".  So the withdrawals in
\* the ledger are those of the closing.
WithdrawnAsClosed == closing # NoRecord => Withdrawn = closing.withdrawals

=============================================================================
