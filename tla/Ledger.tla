------------------------------- MODULE Ledger -------------------------------
(***************************************************************************)
(* The general ledger: LedgerEntry rows and the balances cached on the     *)
(* accounts (finance/models.py), and post_transaction, the only writer of  *)
(* both.  A ledger is a record, an argument of the operators below, so     *)
(* that an operation which posts several transactions in one database      *)
(* transaction is one step of the module that extends this one.            *)
(*                                                                         *)
(* Every caller of post_transaction passes two lines of the same amount,   *)
(* so a transaction here is a debited account, a credited account and an   *)
(* amount; the check for unbalanced lines cannot fail.  A caller posts no  *)
(* zero amount: a transaction of amount 0 stands for one that is skipped.  *)
(*                                                                         *)
(* The columns are in cents.  What a caller passes is not: a quantity and  *)
(* a price have two decimals each, their product has four, and nothing     *)
(* rounds it on the way.  The line is rounded when it is inserted, the     *)
(* balance after the unrounded amount has been added to it, so the two may *)
(* part by a cent.  PostUnrounded is the general case; Post is the case of *)
(* an amount in whole cents, in which nothing is rounded.                  *)
(***************************************************************************)
EXTENDS Integers, Sums

\* The chart of accounts, as far as the services use it: code and name.
CashInHand        == 1    \* 1000, also the account of the MAIN register
Till              == 2    \* REG-n, any other cash register
Safe              == 3    \* 1005
Bank              == 4    \* 1010
Receivable        == 5    \* AR-n, the customer's account
Goods             == 6    \* 1200
Payable           == 7    \* AP-n, the supplier's account
OpeningEquity     == 8    \* 3000
Drawings          == 9    \* 3100
OwnerCapital      == 10   \* 3200
SalesRevenue      == 11   \* 4000
OtherIncome       == 12   \* 4100
AdjustmentIncome  == 13   \* 4200
CostOfGoods       == 14   \* 5000
OperatingExpenses == 15   \* 5100
Shrinkage         == 16   \* 5200

NAccounts == 16
Accounts == 1..NAccounts

\* Account.DEBIT_INCREASES: assets and expenses.
DebitIncreases ==
  {CashInHand, Till, Safe, Bank, Receivable, Goods, CostOfGoods, OperatingExpenses, Shrinkage}

\* Fault: what does not fit is cut off.
Truncated(n, d) == IF n >= 0 THEN n \div d ELSE -((-n) \div d)

\* n/d rounded half away from zero, as PostgreSQL stores a value in a NUMERIC column
\* with fewer decimals.
Rounded(n, d) == IF n >= 0 THEN (2 * n + d) \div (2 * d) ELSE -((d - 2 * n) \div (2 * d))

\* Amounts of post_transaction are in hundredths of a cent.
Cent == 100
Cents(amount) == Rounded(amount, Cent)

\* _apply_balance_delta: what a line adds to the cached balance.
BalanceDelta(a, side, amount) ==
  IF (side = "debit") <=> (a \in DebitIncreases) THEN amount ELSE -amount

\* ... and what the UPDATE makes of the balance.
NewBalance(balance, a, side, amount) == Cents(Cent * balance + BalanceDelta(a, side, amount))

EmptyLedger ==
  [debit   |-> [a \in Accounts |-> 0],
   credit  |-> [a \in Accounts |-> 0],
   balance |-> [a \in Accounts |-> 0]]

Debited(l, a, amount) ==
  [debit   |-> [l.debit EXCEPT ![a] = @ + Cents(amount)],
   credit  |-> l.credit,
   balance |-> [l.balance EXCEPT ![a] = NewBalance(@, a, "debit", amount)]]

Credited(l, a, amount) ==
  [debit   |-> l.debit,
   credit  |-> [l.credit EXCEPT ![a] = @ + Cents(amount)],
   balance |-> [l.balance EXCEPT ![a] = NewBalance(@, a, "credit", amount)]]

\* post_transaction with its two lines.
PostUnrounded(l, debited, credited, amount) ==
  Credited(Debited(l, debited, amount), credited, amount)

\* ... of an amount in whole cents.
Post(l, debited, credited, cents) == PostUnrounded(l, debited, credited, Cent * cents)

\* Fault: a growing balance is debited, whatever account it is.
GrowsOnDebit(l, party, amount) ==
  IF amount > 0 THEN Post(l, party, OpeningEquity, amount)
                ELSE Post(l, OpeningEquity, party, -amount)

\* _signed_party_lines against 3000: a positive amount makes the balance of the
\* customer's or supplier's account grow, whichever side that is.
PostToParty(l, party, amount) ==
  LET magnitude == IF amount < 0 THEN -amount ELSE amount
  IN  IF (amount > 0) <=> (party \in DebitIncreases)
      THEN Post(l, party, OpeningEquity, magnitude)
      ELSE Post(l, OpeningEquity, party, magnitude)

\* Fault: the tills are forgotten.
OnlyNamedAccounts == {CashInHand, Safe, Bank}

\* Account.PAYMENT_SUBTYPES: the accounts that hold money.
PaymentAccounts == {CashInHand, Till, Safe, Bank}

\* cash_flow_report: debits less credits of the accounts that hold money.
NetCash(l) ==
  SumUpTo([a \in Accounts |-> IF a \in PaymentAccounts THEN l.debit[a] - l.credit[a] ELSE 0],
          NAccounts)

-----------------------------------------------------------------------------

LedgerType(l) ==
  l \in [debit : [Accounts -> Int], credit : [Accounts -> Int], balance : [Accounts -> Int]]

\* What account_reconciliation_report sets against the balance: the account's lines
\* summed in its normal direction.
ComputedBalance(l, a) ==
  IF a \in DebitIncreases THEN l.debit[a] - l.credit[a] ELSE l.credit[a] - l.debit[a]

\* The difference it shows.
Drift(l, a) == l.balance[a] - ComputedBalance(l, a)

\* A line of an exact half cent, by what it does to the balance of its account.
HalfCent(amount) == amount % Cent = Cent \div 2
RaisesByHalf(a, side, amount) == HalfCent(amount) /\ BalanceDelta(a, side, amount) > 0
LowersByHalf(a, side, amount) == HalfCent(amount) /\ BalanceDelta(a, side, amount) < 0

\* Debits equal credits over the whole ledger.
DebitsEqualCredits(l) == SumUpTo(l.debit, NAccounts) = SumUpTo(l.credit, NAccounts)

=============================================================================
