---------------------------- MODULE LedgerProofs ----------------------------
(***************************************************************************)
(* Lemmas about post_transaction: what rounding does to an amount, what a  *)
(* transaction does to the lines, the balances and the net cash, and that  *)
(* amounts in whole cents keep the cached balances exact.                  *)
(***************************************************************************)
EXTENDS Ledger, SumsProofs

\* Every cached balance is what its lines add up to.
BalancesCached(l) == \A a \in Accounts : Drift(l, a) = 0

Books(l) == LedgerType(l) /\ BalancesCached(l) /\ DebitsEqualCredits(l)

\* Rounding is onto the integers, and nothing is rounded of an amount in whole cents.
LEMMA CentsInt ==
  ASSUME NEW amount \in Int PROVE Cents(amount) \in Int
BY DEF Cents, Rounded, Cent

LEMMA WholeCents ==
  ASSUME NEW k \in Int PROVE Cents(Cent * k) = k /\ Cent * k \in Int
BY DEF Cents, Rounded, Cent

\* It does not look at the sign.
LEMMA CentsNegative ==
  ASSUME NEW amount \in Int PROVE Cents(-amount) = -Cents(amount)
BY DEF Cents, Rounded, Cent

\* Rounding after an amount has been added, or before, differs by a cent at most, and
\* only for an amount that is an exact half cent.
LEMMA RoundingDrift ==
  ASSUME NEW k \in Int, NEW amount \in Int
  PROVE  LET drift == Cents(Cent * k + amount) - (k + Cents(amount))
         IN  /\ -(IF HalfCent(amount) /\ amount > 0 THEN 1 ELSE 0) <= drift
             /\ drift <= (IF HalfCent(amount) /\ amount < 0 THEN 1 ELSE 0)
BY DEF Cents, Rounded, Cent, HalfCent

LEMMA HalfCentNegative ==
  ASSUME NEW amount \in Int PROVE HalfCent(-amount) <=> HalfCent(amount)
BY DEF HalfCent, Cent

LEMMA AccountsFinite == NAccounts \in Nat /\ Accounts = 1..NAccounts
BY DEF NAccounts, Accounts

LEMMA EmptyBooks == Books(EmptyLedger)
<1>1. SumUpTo(EmptyLedger.debit, NAccounts) = SumUpTo(EmptyLedger.credit, NAccounts)
  BY DEF EmptyLedger
<1> QED
  BY <1>1 DEF Books, EmptyLedger, LedgerType, BalancesCached, Drift, ComputedBalance,
              DebitsEqualCredits

\* What a transaction does to the columns: the lines are rounded ...
LEMMA PostColumns ==
  ASSUME NEW l, LedgerType(l), NEW a \in Accounts, NEW b \in Accounts, NEW amount \in Int
  PROVE  /\ LedgerType(PostUnrounded(l, a, b, amount))
         /\ PostUnrounded(l, a, b, amount).debit = [l.debit EXCEPT ![a] = @ + Cents(amount)]
         /\ PostUnrounded(l, a, b, amount).credit = [l.credit EXCEPT ![b] = @ + Cents(amount)]
<1> DEFINE p == PostUnrounded(l, a, b, amount)
           first == [l.balance EXCEPT ![a] = NewBalance(@, a, "debit", amount)]
           second == [first EXCEPT ![b] = NewBalance(@, b, "credit", amount)]
<1>1. /\ p.debit = [l.debit EXCEPT ![a] = @ + Cents(amount)]
      /\ p.credit = [l.credit EXCEPT ![b] = @ + Cents(amount)]
      /\ p.balance = second
      /\ p = [debit |-> p.debit, credit |-> p.credit, balance |-> p.balance]
  BY DEF PostUnrounded, Debited, Credited
<1>2. /\ l.debit \in [Accounts -> Int] /\ l.credit \in [Accounts -> Int]
      /\ l.balance \in [Accounts -> Int]
  BY DEF LedgerType
<1>3. Cents(amount) \in Int
  BY CentsInt
<1>4. \A k \in Int, c \in Accounts, side \in {"debit", "credit"} : NewBalance(k, c, side, amount) \in Int
  <2> TAKE k \in Int, c \in Accounts, side \in {"debit", "credit"}
  <2>1. Cent * k + BalanceDelta(c, side, amount) \in Int
    BY DEF BalanceDelta, Cent
  <2> QED BY <2>1, CentsInt DEF NewBalance
<1>5. first \in [Accounts -> Int]
  BY <1>2, <1>4
<1>6. second \in [Accounts -> Int]
  <2> HIDE DEF first
  <2> QED BY <1>4, <1>5
<1>7. p.debit \in [Accounts -> Int] /\ p.credit \in [Accounts -> Int] /\ p.balance \in [Accounts -> Int]
  <2> HIDE DEF p, second
  <2> QED BY <1>1, <1>2, <1>3, <1>6
<1>8. LedgerType(p)
  <2> HIDE DEF p
  <2> QED BY <1>1, <1>7 DEF LedgerType
<1> QED BY <1>1, <1>8

\* ... and so are the balances.
LEMMA PostBalances ==
  ASSUME NEW l, LedgerType(l), NEW a \in Accounts, NEW b \in Accounts, NEW amount \in Int
  PROVE  PostUnrounded(l, a, b, amount).balance =
           [[l.balance EXCEPT ![a] = NewBalance(@, a, "debit", amount)]
              EXCEPT ![b] = NewBalance(@, b, "credit", amount)]
BY DEF PostUnrounded, Debited, Credited

\* Both lines of a transaction round alike.
LEMMA PostDebitsEqualCredits ==
  ASSUME NEW l, LedgerType(l), DebitsEqualCredits(l),
         NEW a \in Accounts, NEW b \in Accounts, NEW amount \in Int
  PROVE  DebitsEqualCredits(PostUnrounded(l, a, b, amount))
<1> DEFINE p == PostUnrounded(l, a, b, amount)
           cents == Cents(amount)
           oldD == l.debit
           newD == p.debit
           oldC == l.credit
           newC == p.credit
<1>1. /\ newD = [oldD EXCEPT ![a] = @ + cents] /\ newC = [oldC EXCEPT ![b] = @ + cents]
      /\ LedgerType(p)
  BY PostColumns
<1>2. /\ oldD \in [1..NAccounts -> Int] /\ oldC \in [1..NAccounts -> Int]
      /\ newD \in [1..NAccounts -> Int] /\ newC \in [1..NAccounts -> Int]
      /\ a \in 1..NAccounts /\ b \in 1..NAccounts
  <2> HIDE DEF p
  <2> QED BY <1>1, AccountsFinite DEF LedgerType
<1>3. cents \in Int
  BY CentsInt
<1>4. SumUpTo(oldD, NAccounts) = SumUpTo(oldC, NAccounts)
  BY DEF DebitsEqualCredits
<1> HIDE DEF p, cents, oldD, newD, oldC, newC
<1>5. \A i \in 1..NAccounts : newD[i] = oldD[i] + (IF i = a THEN cents ELSE 0)
  BY <1>1, <1>2, <1>3
<1>6. \A i \in 1..NAccounts : newC[i] = oldC[i] + (IF i = b THEN cents ELSE 0)
  BY <1>1, <1>2, <1>3
<1>7. SumUpTo(newD, NAccounts) = SumUpTo(oldD, NAccounts) + cents
  BY <1>2, <1>3, <1>5, SumUpdate, AccountsFinite
<1>8. SumUpTo(newC, NAccounts) = SumUpTo(oldC, NAccounts) + cents
  BY <1>2, <1>3, <1>6, SumUpdate, AccountsFinite
<1>9. SumUpTo(newD, NAccounts) = SumUpTo(newC, NAccounts)
  BY <1>4, <1>7, <1>8
<1> QED BY <1>9 DEF DebitsEqualCredits, newD, newC, p

\* What a transaction does to the lines of an account.
LEMMA PostLines ==
  ASSUME NEW l, LedgerType(l), NEW a \in Accounts, NEW b \in Accounts, a # b,
         NEW amount \in Int
  PROVE  \A c \in Accounts :
           /\ ComputedBalance(l, c) \in Int
           /\ ComputedBalance(PostUnrounded(l, a, b, amount), c) =
                ComputedBalance(l, c) + (IF c = a THEN BalanceDelta(a, "debit", Cents(amount))
                                         ELSE IF c = b THEN BalanceDelta(b, "credit", Cents(amount))
                                         ELSE 0)
<1> DEFINE p == PostUnrounded(l, a, b, amount)
           cents == Cents(amount)
<1>1. /\ p.debit = [l.debit EXCEPT ![a] = @ + cents] /\ p.credit = [l.credit EXCEPT ![b] = @ + cents]
      /\ cents \in Int
  BY PostColumns, CentsInt
<1>2. l.debit \in [Accounts -> Int] /\ l.credit \in [Accounts -> Int]
  BY DEF LedgerType
<1> HIDE DEF p, cents
<1>3. \A c \in Accounts : /\ l.debit[c] \in Int /\ l.credit[c] \in Int
                          /\ p.debit[c] = l.debit[c] + (IF c = a THEN cents ELSE 0)
                          /\ p.credit[c] = l.credit[c] + (IF c = b THEN cents ELSE 0)
  BY <1>1, <1>2
<1>4. \A c \in Accounts :
        /\ ComputedBalance(l, c) \in Int
        /\ ComputedBalance(p, c) =
             ComputedBalance(l, c) + (IF c = a THEN BalanceDelta(a, "debit", cents)
                                      ELSE IF c = b THEN BalanceDelta(b, "credit", cents)
                                      ELSE 0)
  BY <1>1, <1>3 DEF ComputedBalance, BalanceDelta
<1> QED BY <1>4 DEF p, cents

\* What it does to the difference between an account's balance and its lines.
LEMMA BalanceDrift ==
  ASSUME NEW k \in Int, NEW a \in Accounts, NEW side \in {"debit", "credit"}, NEW amount \in Int
  PROVE  LET drift == NewBalance(k, a, side, amount) - (k + BalanceDelta(a, side, Cents(amount)))
         IN  /\ -(IF RaisesByHalf(a, side, amount) THEN 1 ELSE 0) <= drift
             /\ drift <= (IF LowersByHalf(a, side, amount) THEN 1 ELSE 0)
<1> DEFINE delta == BalanceDelta(a, side, amount)
<1>1. delta \in Int /\ (delta = amount \/ delta = -amount)
  BY DEF BalanceDelta
<1>2. Cents(delta) = BalanceDelta(a, side, Cents(amount)) /\ Cents(delta) \in Int
  BY CentsNegative, CentsInt DEF BalanceDelta
<1>3. HalfCent(delta) <=> HalfCent(amount)
  BY <1>1, HalfCentNegative
<1> HIDE DEF delta
<1>4. /\ -(IF HalfCent(delta) /\ delta > 0 THEN 1 ELSE 0) <= Cents(Cent * k + delta) - (k + Cents(delta))
      /\ Cents(Cent * k + delta) - (k + Cents(delta)) <= (IF HalfCent(delta) /\ delta < 0 THEN 1 ELSE 0)
  BY <1>1, RoundingDrift
<1> QED BY <1>2, <1>3, <1>4 DEF NewBalance, RaisesByHalf, LowersByHalf, delta

LEMMA PostDrift ==
  ASSUME NEW l, LedgerType(l), NEW a \in Accounts, NEW b \in Accounts, a # b,
         NEW amount \in Int
  PROVE  \A c \in Accounts :
           LET up == \/ c = a /\ RaisesByHalf(a, "debit", amount)
                     \/ c = b /\ RaisesByHalf(b, "credit", amount)
               down == \/ c = a /\ LowersByHalf(a, "debit", amount)
                       \/ c = b /\ LowersByHalf(b, "credit", amount)
               p == PostUnrounded(l, a, b, amount)
           IN  /\ Drift(l, c) \in Int /\ Drift(p, c) \in Int
               /\ Drift(l, c) - (IF up THEN 1 ELSE 0) <= Drift(p, c)
               /\ Drift(p, c) <= Drift(l, c) + (IF down THEN 1 ELSE 0)
<1> DEFINE p == PostUnrounded(l, a, b, amount)
<1>1. p.balance = [[l.balance EXCEPT ![a] = NewBalance(@, a, "debit", amount)]
                     EXCEPT ![b] = NewBalance(@, b, "credit", amount)]
  BY PostBalances
<1>10. LedgerType(p)
  BY PostColumns
<1>2. l.balance \in [Accounts -> Int] /\ p.balance \in [Accounts -> Int]
  BY <1>10 DEF LedgerType
<1>3. \A c \in Accounts :
        /\ ComputedBalance(l, c) \in Int
        /\ ComputedBalance(p, c) =
             ComputedBalance(l, c) + (IF c = a THEN BalanceDelta(a, "debit", Cents(amount))
                                      ELSE IF c = b THEN BalanceDelta(b, "credit", Cents(amount))
                                      ELSE 0)
  BY PostLines
<1>4. Cents(amount) \in Int
  BY CentsInt
<1> HIDE DEF p
<1>5. \A c \in Accounts : p.balance[c] = IF c = a THEN NewBalance(l.balance[a], a, "debit", amount)
                                         ELSE IF c = b THEN NewBalance(l.balance[b], b, "credit", amount)
                                         ELSE l.balance[c]
  BY <1>1, <1>2
<1> SUFFICES ASSUME NEW c \in Accounts
             PROVE  LET up == \/ c = a /\ RaisesByHalf(a, "debit", amount)
                              \/ c = b /\ RaisesByHalf(b, "credit", amount)
                        down == \/ c = a /\ LowersByHalf(a, "debit", amount)
                                \/ c = b /\ LowersByHalf(b, "credit", amount)
                    IN  /\ Drift(l, c) \in Int /\ Drift(p, c) \in Int
                        /\ Drift(l, c) - (IF up THEN 1 ELSE 0) <= Drift(p, c)
                        /\ Drift(p, c) <= Drift(l, c) + (IF down THEN 1 ELSE 0)
  BY DEF p
<1>6. /\ l.balance[c] \in Int /\ p.balance[c] \in Int /\ ComputedBalance(l, c) \in Int
      /\ Drift(l, c) = l.balance[c] - ComputedBalance(l, c)
      /\ Drift(p, c) = p.balance[c] - ComputedBalance(p, c)
  BY <1>2, <1>3 DEF Drift
<1>7. CASE c = a
  <2> DEFINE delta == BalanceDelta(a, "debit", Cents(amount))
             moved == NewBalance(l.balance[a], a, "debit", amount)
  <2>1. ComputedBalance(p, c) = ComputedBalance(l, c) + delta /\ delta \in Int /\ p.balance[c] = moved
    BY <1>3, <1>4, <1>5, <1>7 DEF BalanceDelta
  <2>2. /\ -(IF RaisesByHalf(a, "debit", amount) THEN 1 ELSE 0) <= moved - (l.balance[a] + delta)
        /\ moved - (l.balance[a] + delta) <= (IF LowersByHalf(a, "debit", amount) THEN 1 ELSE 0)
    BY <1>2, BalanceDrift
  <2> HIDE DEF delta, moved
  <2> QED BY <1>6, <1>7, <2>1, <2>2
<1>8. CASE c = b
  <2> DEFINE delta == BalanceDelta(b, "credit", Cents(amount))
             moved == NewBalance(l.balance[b], b, "credit", amount)
  <2>1. ComputedBalance(p, c) = ComputedBalance(l, c) + delta /\ delta \in Int /\ p.balance[c] = moved
    BY <1>3, <1>4, <1>5, <1>8 DEF BalanceDelta
  <2>2. /\ -(IF RaisesByHalf(b, "credit", amount) THEN 1 ELSE 0) <= moved - (l.balance[b] + delta)
        /\ moved - (l.balance[b] + delta) <= (IF LowersByHalf(b, "credit", amount) THEN 1 ELSE 0)
    BY <1>2, BalanceDrift
  <2> HIDE DEF delta, moved
  <2> QED BY <1>6, <1>8, <2>1, <2>2
<1>9. CASE c # a /\ c # b
  BY <1>3, <1>5, <1>6, <1>9
<1> QED BY <1>7, <1>8, <1>9

\* In whole cents nothing is rounded.
LEMMA PostExact ==
  ASSUME NEW l, LedgerType(l), NEW a \in Accounts, NEW b \in Accounts, NEW amount \in Int
  PROVE  /\ LedgerType(Post(l, a, b, amount))
         /\ Post(l, a, b, amount).debit = [l.debit EXCEPT ![a] = @ + amount]
         /\ Post(l, a, b, amount).credit = [l.credit EXCEPT ![b] = @ + amount]
<1>1. Cent * amount \in Int /\ Cents(Cent * amount) = amount
  BY WholeCents
<1> QED BY <1>1, PostColumns DEF Post

LEMMA PostExactBalances ==
  ASSUME NEW l, LedgerType(l), NEW a \in Accounts, NEW b \in Accounts, NEW amount \in Int
  PROVE  Post(l, a, b, amount).balance =
           [[l.balance EXCEPT ![a] = @ + BalanceDelta(a, "debit", amount)]
              EXCEPT ![b] = @ + BalanceDelta(b, "credit", amount)]
<1> DEFINE p == Post(l, a, b, amount)
           first == [l.balance EXCEPT ![a] = @ + BalanceDelta(a, "debit", amount)]
<1>1. Cent * amount \in Int /\ Cents(Cent * amount) = amount
  BY WholeCents
<1>2. p.balance = [[l.balance EXCEPT ![a] = NewBalance(@, a, "debit", Cent * amount)]
                      EXCEPT ![b] = NewBalance(@, b, "credit", Cent * amount)]
  BY <1>1, PostBalances DEF Post
<1>3. \A k \in Int, c \in Accounts, side \in {"debit", "credit"} :
        /\ NewBalance(k, c, side, Cent * amount) = k + BalanceDelta(c, side, amount)
        /\ k + BalanceDelta(c, side, amount) \in Int
  <2> TAKE k \in Int, c \in Accounts, side \in {"debit", "credit"}
  <2>1. BalanceDelta(c, side, amount) \in Int
    BY DEF BalanceDelta
  <2>2. Cent * k + BalanceDelta(c, side, Cent * amount) = Cent * (k + BalanceDelta(c, side, amount))
    BY DEF BalanceDelta, Cent
  <2> QED BY <2>1, <2>2, WholeCents DEF NewBalance
<1>4. l.balance \in [Accounts -> Int]
  BY DEF LedgerType
<1>5. [l.balance EXCEPT ![a] = NewBalance(@, a, "debit", Cent * amount)] = first /\ first \in [Accounts -> Int]
  BY <1>3, <1>4
<1>6. p.balance = [first EXCEPT ![b] = NewBalance(@, b, "credit", Cent * amount)]
  BY <1>2, <1>5
<1> HIDE DEF p, first
<1>7. p.balance = [first EXCEPT ![b] = @ + BalanceDelta(b, "credit", amount)]
  BY <1>3, <1>5, <1>6
<1> QED BY <1>7 DEF p, first

\* So a transaction in whole cents keeps the books.
LEMMA PostBooks ==
  ASSUME NEW l, Books(l), NEW a \in Accounts, NEW b \in Accounts, NEW amount \in Int
  PROVE  Books(Post(l, a, b, amount))
<1> DEFINE p == Post(l, a, b, amount)
           da == BalanceDelta(a, "debit", amount)
           db == BalanceDelta(b, "credit", amount)
           first == [l.balance EXCEPT ![a] = @ + da]
<1>1. LedgerType(l) /\ BalancesCached(l) /\ DebitsEqualCredits(l)
  BY DEF Books
<1>2. DebitsEqualCredits(p)
  BY <1>1, WholeCents, PostDebitsEqualCredits DEF Post
<1>3. /\ LedgerType(p)
      /\ p.debit = [l.debit EXCEPT ![a] = @ + amount]
      /\ p.credit = [l.credit EXCEPT ![b] = @ + amount]
      /\ p.balance = [first EXCEPT ![b] = @ + db]
  BY <1>1, PostExact, PostExactBalances
<1>4. /\ l.debit \in [Accounts -> Int] /\ l.credit \in [Accounts -> Int]
      /\ l.balance \in [Accounts -> Int]
  BY <1>1 DEF LedgerType
<1>5. /\ da = (IF a \in DebitIncreases THEN amount ELSE -amount) /\ da \in Int
      /\ db = (IF b \in DebitIncreases THEN -amount ELSE amount) /\ db \in Int
  BY DEF BalanceDelta
<1> HIDE DEF p, da, db
<1>6. \A c \in Accounts :
        /\ l.debit[c] \in Int /\ l.credit[c] \in Int /\ l.balance[c] \in Int
        /\ p.debit[c] = l.debit[c] + (IF c = a THEN amount ELSE 0)
        /\ p.credit[c] = l.credit[c] + (IF c = b THEN amount ELSE 0)
        /\ p.balance[c] = l.balance[c] + (IF c = a THEN da ELSE 0) + (IF c = b THEN db ELSE 0)
  BY <1>3, <1>4, <1>5
<1>7. BalancesCached(p)
  <2> SUFFICES ASSUME NEW c \in Accounts PROVE Drift(p, c) = 0
    BY DEF BalancesCached
  <2>1. Drift(l, c) = 0
    BY <1>1 DEF BalancesCached
  <2> QED BY <1>5, <1>6, <2>1 DEF Drift, ComputedBalance
<1> QED BY <1>2, <1>3, <1>7 DEF Books, p

\* What a transaction does to the balance of an account.
LEMMA PostBalance ==
  ASSUME NEW l, LedgerType(l), NEW a \in Accounts, NEW b \in Accounts, a # b,
         NEW amount \in Int
  PROVE  \A c \in Accounts :
           Post(l, a, b, amount).balance[c] =
             l.balance[c] + (IF c = a THEN (IF a \in DebitIncreases THEN amount ELSE -amount)
                             ELSE IF c = b THEN (IF b \in DebitIncreases THEN -amount ELSE amount)
                             ELSE 0)
<1> DEFINE da == BalanceDelta(a, "debit", amount)
           db == BalanceDelta(b, "credit", amount)
<1>1. Post(l, a, b, amount).balance = [[l.balance EXCEPT ![a] = @ + da] EXCEPT ![b] = @ + db]
  BY PostExactBalances
<1>2. l.balance \in [Accounts -> Int]
  BY DEF LedgerType
<1>3. /\ da = IF a \in DebitIncreases THEN amount ELSE -amount
      /\ db = IF b \in DebitIncreases THEN -amount ELSE amount
  BY DEF BalanceDelta
<1>4. da \in Int /\ db \in Int
  BY <1>3
<1> HIDE DEF da, db
<1>5. \A c \in Accounts :
        Post(l, a, b, amount).balance[c] =
          l.balance[c] + (IF c = a THEN da ELSE IF c = b THEN db ELSE 0)
  BY <1>1, <1>2, <1>4
<1> QED BY <1>3, <1>5

\* The net cash moves with the accounts that hold money.
LEMMA PostNetCash ==
  ASSUME NEW l, LedgerType(l), NEW a \in Accounts, NEW b \in Accounts, NEW amount \in Int
  PROVE  NetCash(Post(l, a, b, amount)) =
           NetCash(l) + (IF a \in PaymentAccounts THEN amount ELSE 0)
                      - (IF b \in PaymentAccounts THEN amount ELSE 0)
<1> DEFINE column(k) == [x \in Accounts |-> IF x \in PaymentAccounts THEN k.debit[x] - k.credit[x] ELSE 0]
           p == Post(l, a, b, amount)
           m == [debit |-> p.debit, credit |-> l.credit, balance |-> l.balance]
           in == IF a \in PaymentAccounts THEN amount ELSE 0
           out == IF b \in PaymentAccounts THEN -amount ELSE 0
           f == column(l)
           g == column(m)
           h == column(p)
<1>1. /\ LedgerType(p)
      /\ p.debit = [l.debit EXCEPT ![a] = @ + amount]
      /\ p.credit = [l.credit EXCEPT ![b] = @ + amount]
  BY PostExact
<1>2. LedgerType(m)
  BY <1>1 DEF LedgerType
<1>3. \A k : LedgerType(k) => column(k) \in [Accounts -> Int]
  BY DEF LedgerType
<1>4. f \in [1..NAccounts -> Int] /\ g \in [1..NAccounts -> Int] /\ h \in [1..NAccounts -> Int]
  <2> HIDE DEF column, m, p
  <2> QED BY <1>1, <1>2, <1>3, AccountsFinite
<1>5. \A x \in Accounts : /\ l.debit[x] \in Int /\ l.credit[x] \in Int
                          /\ m.debit[x] = l.debit[x] + (IF x = a THEN amount ELSE 0)
                          /\ m.credit[x] = l.credit[x]
  <2> HIDE DEF p
  <2> QED BY <1>1 DEF LedgerType
<1>6. \A x \in Accounts : /\ p.debit[x] = m.debit[x]
                          /\ p.credit[x] = m.credit[x] + (IF x = b THEN amount ELSE 0)
                          /\ m.debit[x] \in Int /\ m.credit[x] \in Int
  <2> HIDE DEF p
  <2> QED BY <1>1 DEF LedgerType
<1> HIDE DEF m, p
<1>7. g[a] = f[a] + in /\ \A x \in 1..NAccounts : x # a => g[x] = f[x]
  <2>1. \A x \in Accounts : f[x] = IF x \in PaymentAccounts THEN l.debit[x] - l.credit[x] ELSE 0
    OBVIOUS
  <2>2. \A x \in Accounts : g[x] = IF x \in PaymentAccounts THEN m.debit[x] - m.credit[x] ELSE 0
    OBVIOUS
  <2> HIDE DEF f, g
  <2>3. ASSUME NEW x \in Accounts, x # a PROVE g[x] = f[x]
    BY <1>5, <2>1, <2>2, <2>3
  <2>4. /\ l.debit[a] \in Int /\ l.credit[a] \in Int
        /\ m.debit[a] = l.debit[a] + amount /\ m.credit[a] = l.credit[a]
    BY <1>5
  <2>5. g[a] = f[a] + in
    <3>1. CASE a \in PaymentAccounts
      <4>1. f[a] = l.debit[a] - l.credit[a] /\ g[a] = m.debit[a] - m.credit[a]
        BY <2>1, <2>2, <3>1
      <4>2. in = amount
        BY <3>1
      <4> HIDE DEF in
      <4> QED BY <2>4, <4>1, <4>2
    <3>2. CASE a \notin PaymentAccounts
      <4>1. f[a] = 0 /\ g[a] = 0 /\ in = 0
        BY <2>1, <2>2, <3>2
      <4> HIDE DEF in
      <4> QED BY <4>1
    <3> QED BY <3>1, <3>2
  <2>6. Accounts = 1..NAccounts
    BY AccountsFinite
  <2> HIDE DEF in
  <2> QED BY <2>3, <2>5, <2>6
<1>8. h[b] = g[b] + out /\ \A x \in 1..NAccounts : x # b => h[x] = g[x]
  BY <1>6, AccountsFinite
<1>9. /\ in \in Int /\ out \in Int /\ a \in 1..NAccounts /\ b \in 1..NAccounts
      /\ NAccounts \in Nat
  BY AccountsFinite
<1>10. /\ NetCash(l) = SumUpTo(f, NAccounts)
       /\ NetCash(Post(l, a, b, amount)) = SumUpTo(h, NAccounts)
  BY DEF NetCash, p
<1> HIDE DEF f, g, h, column
<1>11. SumUpTo(f, NAccounts) \in Int
  BY <1>4, <1>9, SumInt
<1>12. SumUpTo(g, NAccounts) = SumUpTo(f, NAccounts) + in
  <2> HIDE DEF in
  <2> QED BY <1>4, <1>7, <1>9, SumOneRow
<1>13. SumUpTo(h, NAccounts) = SumUpTo(g, NAccounts) + out
  <2> HIDE DEF out
  <2> QED BY <1>4, <1>8, <1>9, SumOneRow
<1> QED BY <1>10, <1>11, <1>12, <1>13

\* The balances the figures explain, with the signs of their accounts.
LEMMA PostMoves ==
  ASSUME NEW l, LedgerType(l), NEW a \in Accounts, NEW b \in Accounts, a # b,
         NEW amount \in Int
  PROVE  /\ LedgerType(Post(l, a, b, amount))
         /\ \A c \in {Receivable, Goods, CostOfGoods, Shrinkage} :
              /\ l.balance[c] \in Int
              /\ Post(l, a, b, amount).balance[c] =
                   l.balance[c] + (IF a = c THEN amount ELSE IF b = c THEN -amount ELSE 0)
         /\ \A c \in {Payable, SalesRevenue} :
              /\ l.balance[c] \in Int
              /\ Post(l, a, b, amount).balance[c] =
                   l.balance[c] + (IF a = c THEN -amount ELSE IF b = c THEN amount ELSE 0)
         /\ NetCash(l) \in Int
         /\ NetCash(Post(l, a, b, amount)) =
              NetCash(l) + (IF a \in PaymentAccounts THEN amount ELSE 0)
                         - (IF b \in PaymentAccounts THEN amount ELSE 0)
<1>1. LedgerType(Post(l, a, b, amount))
  BY PostExact
<1>2. \A c \in Accounts :
        Post(l, a, b, amount).balance[c] =
          l.balance[c] + (IF c = a THEN (IF a \in DebitIncreases THEN amount ELSE -amount)
                          ELSE IF c = b THEN (IF b \in DebitIncreases THEN -amount ELSE amount)
                          ELSE 0)
  BY PostBalance
<1>3. \A c \in Accounts : l.balance[c] \in Int
  BY DEF LedgerType
<1>4. /\ {Receivable, Goods, CostOfGoods, Shrinkage} \subseteq Accounts \cap DebitIncreases
      /\ {Payable, SalesRevenue} \subseteq Accounts \ DebitIncreases
  BY DEF Receivable, Goods, CostOfGoods, Shrinkage, Payable, SalesRevenue, DebitIncreases,
         CashInHand, Till, Safe, Bank, OperatingExpenses, Accounts, NAccounts
<1>5. ASSUME NEW c \in {Receivable, Goods, CostOfGoods, Shrinkage}
      PROVE  /\ l.balance[c] \in Int
             /\ Post(l, a, b, amount).balance[c] =
                  l.balance[c] + (IF a = c THEN amount ELSE IF b = c THEN -amount ELSE 0)
  <2>1. c \in Accounts /\ c \in DebitIncreases
    BY <1>4
  <2> HIDE DEF Receivable
  <2> QED BY <1>2, <1>3, <2>1
<1>6. ASSUME NEW c \in {Payable, SalesRevenue}
      PROVE  /\ l.balance[c] \in Int
             /\ Post(l, a, b, amount).balance[c] =
                  l.balance[c] + (IF a = c THEN -amount ELSE IF b = c THEN amount ELSE 0)
  <2>1. c \in Accounts /\ c \notin DebitIncreases
    BY <1>4
  <2> QED BY <1>2, <1>3, <2>1
<1>7. NetCash(l) \in Int
  <2> DEFINE f == [x \in Accounts |-> IF x \in PaymentAccounts THEN l.debit[x] - l.credit[x] ELSE 0]
  <2>1. f \in [1..NAccounts -> Int] /\ NAccounts \in Nat
    BY AccountsFinite DEF LedgerType
  <2>2. SumUpTo(f, NAccounts) \in Int
    <3> HIDE DEF f
    <3> QED BY <2>1, SumInt
  <2> QED BY <2>2 DEF NetCash
<1> QED BY <1>1, <1>5, <1>6, <1>7, PostNetCash

\* An empty ledger holds no cash.
LEMMA EmptyCash == NetCash(EmptyLedger) = 0
<1> DEFINE f == [a \in Accounts |-> IF a \in PaymentAccounts
                                    THEN EmptyLedger.debit[a] - EmptyLedger.credit[a] ELSE 0]
<1>1. \A a \in Accounts : EmptyLedger.debit[a] = 0 /\ EmptyLedger.credit[a] = 0
  BY DEF EmptyLedger
<1>2. \A a \in 1..NAccounts : f[a] = 0
  BY <1>1 DEF Accounts
<1>3. f \in [1..NAccounts -> Nat] /\ NAccounts \in Nat
  BY <1>2, AccountsFinite
<1> HIDE DEF f
<1>4. SumUpTo(f, NAccounts) = 0
  BY <1>2, <1>3, SumZero
<1> QED BY <1>4 DEF NetCash, f

=============================================================================
