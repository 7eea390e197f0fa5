----------------------------- MODULE SumsProofs -----------------------------
(***************************************************************************)
(* Facts about totals.  Induction is carried out over sets of naturals: a  *)
(* set that contains 0 and is closed under successor contains every        *)
(* natural, which follows from the well-ordering of Nat.                   *)
(***************************************************************************)
EXTENDS Sums, FiniteSets, FiniteSetTheorems, WellFoundedInduction, TLAPS

\* Induction in the form the provers can instantiate: with a set for the predicate.
LEMMA NatSetInduction ==
  ASSUME NEW T, 0 \in T, \A n \in Nat : n \in T => n + 1 \in T
  PROVE  Nat \subseteq T
<1> DEFINE Bad == Nat \ T
           Less == {ss \in Nat \X Nat : ss[1] < ss[2]}
<1>1. SUFFICES ASSUME Bad # {} PROVE FALSE
  OBVIOUS
<1>2. IsWellFoundedOn(Less, Nat)
  BY NatLessThanWellFounded DEF OpToRel
<1>3. PICK x \in Bad : \A y \in Bad : ~ (<<y, x>> \in Less)
  <2> HIDE DEF Bad, Less
  <2>1. Bad \subseteq Nat
    BY DEF Bad
  <2> QED
    BY <1>1, <1>2, <2>1, WFMin
<1>4. x \in Nat /\ x # 0
  OBVIOUS
<1>5. x - 1 \in Nat /\ x - 1 < x
  BY <1>4
<1>6. x - 1 \in T
  BY <1>3, <1>5
<1>7. x \in T
  BY <1>4, <1>5, <1>6
<1> QED
  BY <1>7

\* The running totals of f up to row n.
RunningSum(f, n, g) == g = [i \in 0..n |-> IF i = 0 THEN 0 ELSE g[i - 1] + f[i]]

\* RunningSum totals exist up to every row.
LEMMA RunningExists ==
  ASSUME NEW f PROVE \A n \in Nat : \E g : RunningSum(f, n, g)
<1> DEFINE T == {n \in Nat : \E g : RunningSum(f, n, g)}
<1>1. 0 \in T
  <2>1. RunningSum(f, 0, [i \in 0..0 |-> 0])
    BY DEF RunningSum
  <2> QED BY <2>1
<1>2. ASSUME NEW n \in Nat, n \in T PROVE n + 1 \in T
  <2>1. PICK g : RunningSum(f, n, g)
    BY <1>2
  <2> DEFINE h == [i \in 0..(n + 1) |-> IF i = n + 1 THEN g[n] + f[n + 1] ELSE g[i]]
  <2>2. \A i \in 0..(n + 1) : h[i] = IF i = 0 THEN 0 ELSE h[i - 1] + f[i]
    BY <2>1 DEF RunningSum
  <2>3. RunningSum(f, n + 1, h)
    BY <2>2 DEF RunningSum
  <2> QED BY <2>3
<1>3. Nat \subseteq T
  <2> HIDE DEF T
  <2> QED BY <1>1, <1>2, NatSetInduction
<1> QED BY <1>3

\* Two runs of totals agree where both are defined.
LEMMA RunningUnique ==
  ASSUME NEW f, NEW n \in Nat, NEW m \in Nat, m <= n,
         NEW g, NEW h, RunningSum(f, n, g), RunningSum(f, m, h)
  PROVE  g[m] = h[m]
<1> DEFINE T == {i \in Nat : i <= m => g[i] = h[i]}
<1>1. 0 \in T
  BY DEF RunningSum
<1>2. ASSUME NEW i \in Nat, i \in T PROVE i + 1 \in T
  <2>1. SUFFICES ASSUME i + 1 <= m PROVE g[i + 1] = h[i + 1]
    OBVIOUS
  <2>2. g[i] = h[i]
    BY <1>2, <2>1
  <2>3. i + 1 \in 0..n /\ i + 1 \in 0..m /\ i + 1 # 0 /\ (i + 1) - 1 = i
    BY <2>1
  <2>4. g[i + 1] = g[i] + f[i + 1]
    BY <2>3 DEF RunningSum
  <2>5. h[i + 1] = h[i] + f[i + 1]
    BY <2>3 DEF RunningSum
  <2> QED BY <2>2, <2>4, <2>5
<1>3. Nat \subseteq T
  <2> HIDE DEF T
  <2> QED BY <1>1, <1>2, NatSetInduction
<1> QED BY <1>3

\* The total satisfies its recursion equation.
LEMMA SumEquation ==
  ASSUME NEW f
  PROVE  /\ SumUpTo(f, 0) = 0
         /\ \A n \in Nat : SumUpTo(f, n + 1) = SumUpTo(f, n) + f[n + 1]
<1> DEFINE Def(t) == t = [i \in Nat |-> IF i = 0 THEN 0 ELSE t[i - 1] + f[i]]
           upTo(n) == CHOOSE g : RunningSum(f, n, g)
           G == [n \in Nat |-> upTo(n)[n]]
<1>1. \A n \in Nat : RunningSum(f, n, upTo(n))
  BY RunningExists
<1>2. ASSUME NEW n \in Nat
      PROVE  G[n] = IF n = 0 THEN 0 ELSE G[n - 1] + f[n]
  <2> HIDE DEF upTo
  <2>1. CASE n = 0
    <3>1. RunningSum(f, 0, upTo(0)) BY <1>1
    <3>2. upTo(0)[0] = 0 BY <3>1 DEF RunningSum
    <3> QED BY <2>1, <3>2
  <2>2. CASE n # 0
    <3>1. n - 1 \in Nat /\ n - 1 <= n BY <2>2
    <3>2. upTo(n)[n] = upTo(n)[n - 1] + f[n]
      <4>1. RunningSum(f, n, upTo(n)) BY <1>1
      <4> QED BY <4>1, <2>2 DEF RunningSum
    <3>3. upTo(n)[n - 1] = upTo(n - 1)[n - 1]
      BY <1>1, <3>1, RunningUnique
    <3> QED BY <2>2, <3>1, <3>2, <3>3
  <2> QED BY <2>1, <2>2
<1>3. Def(G)
  <2> HIDE DEF upTo
  <2>1. \A n \in Nat : n # 0 => n - 1 \in Nat OBVIOUS
  <2>2. G = [n \in Nat |-> G[n]] OBVIOUS
  <2> QED BY <1>2, <2>2
<1> DEFINE t == CHOOSE t : Def(t)
<1>4. Def(t)
  <2> HIDE DEF G
  <2> QED BY <1>3
<1>5. \A n : SumUpTo(f, n) = t[n]
  BY DEF SumUpTo
<1>6. t[0] = 0
  BY <1>4
<1>7. ASSUME NEW n \in Nat PROVE t[n + 1] = t[n] + f[n + 1]
  <2>1. n + 1 \in Nat /\ n + 1 # 0 /\ (n + 1) - 1 = n OBVIOUS
  <2>2. t[n + 1] = IF n + 1 = 0 THEN 0 ELSE t[(n + 1) - 1] + f[n + 1]
    <3> HIDE DEF t
    <3> QED BY <1>4, <2>1
  <2> QED BY <2>1, <2>2
<1> QED
  <2> HIDE DEF t
  <2> QED BY <1>5, <1>6, <1>7

-----------------------------------------------------------------------------
(***************************************************************************)
(* Totals of integer columns.                                              *)
(***************************************************************************)

\* Every total of a prefix of an integer column is an integer.
LEMMA SumsInt ==
  ASSUME NEW n \in Nat, NEW f \in [1..n -> Int]
  PROVE  \A m \in Nat : m <= n => SumUpTo(f, m) \in Int
<1> DEFINE T == {i \in Nat : i <= n => SumUpTo(f, i) \in Int}
<1>1. 0 \in T
  BY SumEquation
<1>2. ASSUME NEW i \in Nat, i \in T PROVE i + 1 \in T
  <2>1. SUFFICES ASSUME i + 1 <= n PROVE SumUpTo(f, i + 1) \in Int
    OBVIOUS
  <2>2. SumUpTo(f, i) \in Int
    BY <1>2, <2>1
  <2>3. f[i + 1] \in Int
    BY <2>1
  <2>4. SumUpTo(f, i + 1) = SumUpTo(f, i) + f[i + 1]
    BY SumEquation
  <2> QED BY <2>2, <2>3, <2>4
<1>3. Nat \subseteq T
  <2> HIDE DEF T
  <2> QED BY <1>1, <1>2, NatSetInduction
<1> QED BY <1>3

\* A total of integers is an integer, and of naturals a natural.
LEMMA SumInt ==
  ASSUME NEW n \in Nat, NEW f \in [1..n -> Int]
  PROVE  SumUpTo(f, n) \in Int
BY SumsInt

LEMMA SumsNat ==
  ASSUME NEW n \in Nat, NEW f \in [1..n -> Nat]
  PROVE  \A m \in Nat : m <= n => SumUpTo(f, m) \in Nat
<1> DEFINE T == {i \in Nat : i <= n => SumUpTo(f, i) \in Nat}
<1>1. 0 \in T
  BY SumEquation
<1>2. ASSUME NEW i \in Nat, i \in T PROVE i + 1 \in T
  <2>1. SUFFICES ASSUME i + 1 <= n PROVE SumUpTo(f, i + 1) \in Nat
    OBVIOUS
  <2>2. SumUpTo(f, i) \in Nat
    BY <1>2, <2>1
  <2>3. f[i + 1] \in Nat
    BY <2>1
  <2>4. SumUpTo(f, i + 1) = SumUpTo(f, i) + f[i + 1]
    BY SumEquation
  <2> QED BY <2>2, <2>3, <2>4
<1>3. Nat \subseteq T
  <2> HIDE DEF T
  <2> QED BY <1>1, <1>2, NatSetInduction
<1> QED BY <1>3

LEMMA SumNat ==
  ASSUME NEW n \in Nat, NEW f \in [1..n -> Nat]
  PROVE  SumUpTo(f, n) \in Nat
BY SumsNat

\* Totals add column by column.
LEMMA SumAdd ==
  ASSUME NEW n \in Nat, NEW f \in [1..n -> Int], NEW g \in [1..n -> Int],
         NEW h \in [1..n -> Int], \A i \in 1..n : h[i] = f[i] + g[i]
  PROVE  SumUpTo(h, n) = SumUpTo(f, n) + SumUpTo(g, n)
<1> DEFINE T == {m \in Nat : m <= n =>
                   /\ SumUpTo(f, m) \in Int /\ SumUpTo(g, m) \in Int
                   /\ SumUpTo(h, m) = SumUpTo(f, m) + SumUpTo(g, m)}
<1>1. 0 \in T
  BY SumEquation
<1>2. ASSUME NEW m \in Nat, m \in T PROVE m + 1 \in T
  <2>1. SUFFICES ASSUME m + 1 <= n PROVE m + 1 \in T
    OBVIOUS
  <2>2. /\ SumUpTo(f, m) \in Int /\ SumUpTo(g, m) \in Int
        /\ SumUpTo(h, m) = SumUpTo(f, m) + SumUpTo(g, m)
    BY <1>2, <2>1
  <2>3. m + 1 \in 1..n
    BY <2>1
  <2>4. f[m + 1] \in Int /\ g[m + 1] \in Int /\ h[m + 1] = f[m + 1] + g[m + 1]
    BY <2>3
  <2>5. /\ SumUpTo(f, m + 1) = SumUpTo(f, m) + f[m + 1]
        /\ SumUpTo(g, m + 1) = SumUpTo(g, m) + g[m + 1]
        /\ SumUpTo(h, m + 1) = SumUpTo(h, m) + h[m + 1]
    BY SumEquation
  <2>6. SumUpTo(f, m + 1) \in Int /\ SumUpTo(g, m + 1) \in Int
    <3>1. SumUpTo(f, m + 1) \in Int
      BY <2>2, <2>4, <2>5
    <3>2. SumUpTo(g, m + 1) \in Int
      BY <2>2, <2>4, <2>5
    <3> QED BY <3>1, <3>2
  <2>7. SumUpTo(h, m + 1) = SumUpTo(f, m + 1) + SumUpTo(g, m + 1)
    BY <2>2, <2>4, <2>5
  <2> QED BY <2>6, <2>7
<1>3. Nat \subseteq T
  <2> HIDE DEF T
  <2> QED BY <1>1, <1>2, NatSetInduction
<1> QED BY <1>3

\* A column that is v in row k and zero elsewhere has total v.
LEMMA SumPoint ==
  ASSUME NEW n \in Nat, NEW k \in 1..n, NEW v \in Int
  PROVE  SumUpTo([i \in 1..n |-> IF i = k THEN v ELSE 0], n) = v
<1> DEFINE f == [i \in 1..n |-> IF i = k THEN v ELSE 0]
           T == {m \in Nat : m <= n => SumUpTo(f, m) = IF k <= m THEN v ELSE 0}
<1>1. 0 \in T
  BY SumEquation
<1>2. ASSUME NEW m \in Nat, m \in T PROVE m + 1 \in T
  <2>1. SUFFICES ASSUME m + 1 <= n PROVE m + 1 \in T
    OBVIOUS
  <2>2. SumUpTo(f, m) = IF k <= m THEN v ELSE 0
    BY <1>2, <2>1
  <2>3. f[m + 1] = IF m + 1 = k THEN v ELSE 0
    BY <2>1
  <2>4. SumUpTo(f, m + 1) = SumUpTo(f, m) + f[m + 1]
    <3> HIDE DEF f
    <3> QED BY SumEquation
  <2>5. SumUpTo(f, m + 1) = IF k <= m + 1 THEN v ELSE 0
    <3> HIDE DEF f
    <3> QED BY <2>2, <2>3, <2>4
  <2> QED BY <2>5
<1>3. Nat \subseteq T
  <2> HIDE DEF T
  <2> QED BY <1>1, <1>2, NatSetInduction
<1>4. n \in T /\ n <= n /\ k <= n
  BY <1>3
<1> QED BY <1>4

\* Totals depend on the rows only.
LEMMA SumCong ==
  ASSUME NEW n \in Nat, NEW f \in [1..n -> Int], NEW g \in [1..n -> Int],
         \A i \in 1..n : f[i] = g[i]
  PROVE  SumUpTo(f, n) = SumUpTo(g, n)
<1>1. f = g
  OBVIOUS
<1> QED BY <1>1

\* Adding d to one row adds d to the total.
LEMMA SumUpdate ==
  ASSUME NEW n \in Nat, NEW f \in [1..n -> Int], NEW g \in [1..n -> Int],
         NEW k \in 1..n, NEW d \in Int,
         \A i \in 1..n : g[i] = f[i] + (IF i = k THEN d ELSE 0)
  PROVE  SumUpTo(g, n) = SumUpTo(f, n) + d
<1> DEFINE p == [i \in 1..n |-> IF i = k THEN d ELSE 0]
<1>1. p \in [1..n -> Int] /\ \A i \in 1..n : g[i] = f[i] + p[i]
  OBVIOUS
<1>2. SumUpTo(p, n) = d
  BY SumPoint
<1> QED
  <2> HIDE DEF p
  <2> QED BY <1>1, <1>2, SumAdd

\* A row of a column of naturals is no larger than the total.
LEMMA SumBound ==
  ASSUME NEW n \in Nat, NEW f \in [1..n -> Nat], NEW k \in 1..n
  PROVE  f[k] <= SumUpTo(f, n)
<1> DEFINE T == {m \in Nat : m <= n => /\ SumUpTo(f, m) \in Nat
                                       /\ k <= m => f[k] <= SumUpTo(f, m)}
<1>1. 0 \in T
  BY SumEquation
<1>2. ASSUME NEW m \in Nat, m \in T PROVE m + 1 \in T
  <2>1. SUFFICES ASSUME m + 1 <= n PROVE m + 1 \in T
    OBVIOUS
  <2>2. SumUpTo(f, m) \in Nat /\ (k <= m => f[k] <= SumUpTo(f, m))
    BY <1>2, <2>1
  <2>3. f[m + 1] \in Nat /\ f[k] \in Nat
    BY <2>1
  <2>4. SumUpTo(f, m + 1) = SumUpTo(f, m) + f[m + 1]
    BY SumEquation
  <2>5. k <= m + 1 => k <= m \/ k = m + 1
    OBVIOUS
  <2> QED BY <2>2, <2>3, <2>4, <2>5
<1>3. Nat \subseteq T
  <2> HIDE DEF T
  <2> QED BY <1>1, <1>2, NatSetInduction
<1> QED BY <1>3

\* A total of naturals is zero only when every row is.
LEMMA SumZeroRows ==
  ASSUME NEW n \in Nat, NEW f \in [1..n -> Nat], SumUpTo(f, n) = 0, NEW k \in 1..n
  PROVE  f[k] = 0
BY SumBound

\* The total of a zero column is zero.
LEMMA SumZero ==
  ASSUME NEW n \in Nat, NEW f \in [1..n -> Int], \A i \in 1..n : f[i] = 0
  PROVE  SumUpTo(f, n) = 0
<1>1. \A i \in 1..n : f[i] = f[i] + f[i]
  OBVIOUS
<1>2. SumUpTo(f, n) = SumUpTo(f, n) + SumUpTo(f, n)
  BY <1>1, SumAdd
<1> QED BY <1>2, SumInt

\* The total of the rows before row k, counted over the whole column.
LEMMA SumPrefix ==
  ASSUME NEW n \in Nat, NEW f \in [1..n -> Int], NEW k \in 1..n
  PROVE  SumUpTo([j \in 1..n |-> IF j < k THEN f[j] ELSE 0], n) = SumUpTo(f, k - 1)
<1> DEFINE g == [j \in 1..n |-> IF j < k THEN f[j] ELSE 0]
           upTo(m) == IF m < k THEN m ELSE k - 1
           T == {m \in Nat : m <= n => SumUpTo(g, m) = SumUpTo(f, upTo(m))}
<1>1. 0 \in T
  BY SumEquation
<1>2. ASSUME NEW m \in Nat, m \in T PROVE m + 1 \in T
  <2>1. SUFFICES ASSUME m + 1 <= n PROVE SumUpTo(g, m + 1) = SumUpTo(f, upTo(m + 1))
    OBVIOUS
  <2>2. SumUpTo(g, m) = SumUpTo(f, upTo(m))
    BY <1>2, <2>1
  <2>3. g[m + 1] = IF m + 1 < k THEN f[m + 1] ELSE 0
    BY <2>1
  <2>4. SumUpTo(g, m + 1) = SumUpTo(g, m) + g[m + 1]
    <3> HIDE DEF g
    <3> QED BY SumEquation
  <2>5. SumUpTo(f, m + 1) = SumUpTo(f, m) + f[m + 1]
    BY SumEquation
  <2>6. SumUpTo(f, k - 1) \in Int
    <3>1. k - 1 \in Nat /\ k - 1 <= n
      OBVIOUS
    <3>2. \A j \in Nat : j <= n => SumUpTo(f, j) \in Int
      BY SumsInt
    <3> QED BY <3>1, <3>2
  <2>7. CASE m + 1 < k
    <3> HIDE DEF g
    <3> QED BY <2>2, <2>3, <2>4, <2>5, <2>7
  <2>8. CASE ~ (m + 1 < k)
    <3>1. upTo(m) = k - 1 /\ upTo(m + 1) = k - 1
      BY <2>8
    <3> HIDE DEF g, upTo
    <3> QED BY <2>2, <2>3, <2>4, <2>6, <2>8, <3>1
  <2> QED BY <2>7, <2>8
<1>3. Nat \subseteq T
  <2> HIDE DEF T
  <2> QED BY <1>1, <1>2, NatSetInduction
<1>4. n \in T /\ upTo(n) = k - 1
  BY <1>3
<1> QED BY <1>4


\* Rows taken from in order, each as far as is still needed: what is taken is what is
\* needed, or all there is.
LEMMA SumGreedy ==
  ASSUME NEW n \in Nat, NEW f \in [1..n -> Nat], NEW q \in Nat, NEW t \in [1..n -> Nat],
         \A k \in 1..n :
           t[k] = IF SumUpTo(f, k - 1) + f[k] <= q THEN f[k]
                  ELSE IF SumUpTo(f, k - 1) <= q THEN q - SumUpTo(f, k - 1) ELSE 0
  PROVE  SumUpTo(t, n) = IF q <= SumUpTo(f, n) THEN q ELSE SumUpTo(f, n)
<1> DEFINE T == {m \in Nat : m <= n =>
                   SumUpTo(t, m) = IF q <= SumUpTo(f, m) THEN q ELSE SumUpTo(f, m)}
<1>1. 0 \in T
  BY SumEquation
<1>2. ASSUME NEW m \in Nat, m \in T PROVE m + 1 \in T
  <2>1. SUFFICES ASSUME m + 1 <= n PROVE m + 1 \in T
    OBVIOUS
  <2>2. m + 1 \in 1..n /\ m <= n /\ (m + 1) - 1 = m
    BY <2>1
  <2>3. SumUpTo(f, m) \in Nat /\ f[m + 1] \in Nat
    BY <2>2, SumsNat
  <2>4. SumUpTo(t, m) = IF q <= SumUpTo(f, m) THEN q ELSE SumUpTo(f, m)
    BY <1>2, <2>2
  <2>5. /\ SumUpTo(f, m + 1) = SumUpTo(f, m) + f[m + 1]
        /\ SumUpTo(t, m + 1) = SumUpTo(t, m) + t[m + 1]
    BY SumEquation
  <2>6. t[m + 1] = IF SumUpTo(f, m) + f[m + 1] <= q THEN f[m + 1]
                   ELSE IF SumUpTo(f, m) <= q THEN q - SumUpTo(f, m) ELSE 0
    BY <2>2
  <2> DEFINE a == SumUpTo(f, m)
             b == f[m + 1]
             c == SumUpTo(f, m + 1)
             d == SumUpTo(t, m)
             e == t[m + 1]
             g == SumUpTo(t, m + 1)
  <2>7. g = IF q <= c THEN q ELSE c
    <3>1. a \in Nat /\ b \in Nat /\ c = a + b /\ g = d + e
      BY <2>3, <2>5
    <3>2. d = IF q <= a THEN q ELSE a
      BY <2>4
    <3>3. e = IF a + b <= q THEN b ELSE IF a <= q THEN q - a ELSE 0
      BY <2>6
    <3> HIDE DEF a, b, c, d, e, g
    <3> QED BY <3>1, <3>2, <3>3
  <2> QED BY <2>7
<1>3. Nat \subseteq T
  <2> HIDE DEF T
  <2> QED BY <1>1, <1>2, NatSetInduction
<1> QED BY <1>3

\* A column of the opposite sign has the opposite total.
LEMMA SumMinus ==
  ASSUME NEW n \in Nat, NEW f \in [1..n -> Int], NEW g \in [1..n -> Int],
         \A i \in 1..n : g[i] = -f[i]
  PROVE  SumUpTo(g, n) = -SumUpTo(f, n)
<1> DEFINE z == [i \in 1..n |-> 0]
<1>1. z \in [1..n -> Int] /\ \A i \in 1..n : z[i] = f[i] + g[i]
  OBVIOUS
<1>2. SumUpTo(z, n) = 0
  BY SumZero
<1>3. SumUpTo(z, n) = SumUpTo(f, n) + SumUpTo(g, n)
  <2> HIDE DEF z
  <2> QED BY <1>1, SumAdd
<1>4. SumUpTo(f, n) \in Int /\ SumUpTo(g, n) \in Int
  BY SumInt
<1> QED BY <1>2, <1>3, <1>4


-----------------------------------------------------------------------------
(***************************************************************************)
(* Rows taken from in an order other than that of their numbers.           *)
(***************************************************************************)

\* The column f with the rows outside S left out.
OnlyRows(f, S, n) == [j \in 1..n |-> IF j \in S THEN f[j] ELSE 0]

\* R puts the rows 1..n in a strict order.
OrdersRows(R, n) ==
  /\ \A i \in 1..n : <<i, i>> \notin R
  /\ \A i, j, k \in 1..n : <<i, j>> \in R /\ <<j, k>> \in R => <<i, k>> \in R
  /\ \A i, j \in 1..n : i = j \/ <<i, j>> \in R \/ <<j, i>> \in R

\* The rows before row k.
RowsBefore(R, k, n) == {j \in 1..n : <<j, k>> \in R}

\* Each row gives t[k] of what it has, f[k]: as much as the rows before it left needed of q.
TakenInOrder(t, f, R, q, n) ==
  \A k \in 1..n : LET a == SumUpTo(OnlyRows(f, RowsBefore(R, k, n), n), n) IN
    t[k] = IF a + f[k] <= q THEN f[k] ELSE IF a <= q THEN q - a ELSE 0

\* Some row of a set of rows comes last.
LEMMA LastRow ==
  ASSUME NEW n \in Nat, NEW R, OrdersRows(R, n), NEW S \in SUBSET (1..n), S # {}
  PROVE  \E k \in S : \A j \in S \ {k} : <<j, k>> \in R
<1> DEFINE Lasts(S0) == \E k \in S0 : \A j \in S0 \ {k} : <<j, k>> \in R
           T == {m \in Nat : m <= n => \A S0 \in SUBSET (1..m) : S0 # {} => Lasts(S0)}
<1>1. 0 \in T
  <2>1. 1..0 = {} /\ \A S0 \in SUBSET (1..0) : S0 = {}
    OBVIOUS
  <2> HIDE DEF Lasts
  <2> QED BY <2>1
<1>2. ASSUME NEW m \in Nat, m \in T PROVE m + 1 \in T
  <2>1. SUFFICES ASSUME m + 1 <= n, NEW S0 \in SUBSET (1..(m + 1)), S0 # {}
                 PROVE  Lasts(S0)
    OBVIOUS
  <2>2. S0 \ {m + 1} \in SUBSET (1..m)
    OBVIOUS
  <2>3. CASE S0 \ {m + 1} = {}
    <3>1. m + 1 \in S0 /\ \A j \in S0 \ {m + 1} : <<j, m + 1>> \in R
      BY <2>1, <2>3
    <3> QED BY <3>1
  <2>4. CASE S0 \ {m + 1} # {}
    <3>1. Lasts(S0 \ {m + 1})
      <4>1. m <= n
        BY <2>1
      <4> HIDE DEF Lasts
      <4> QED BY <1>2, <2>2, <2>4, <4>1
    <3>2. PICK k \in S0 \ {m + 1} : \A j \in (S0 \ {m + 1}) \ {k} : <<j, k>> \in R
      BY <3>1
    <3>3. k \in 1..n /\ m + 1 \in 1..n /\ k # m + 1 /\ S0 \subseteq 1..n
      BY <2>1
    <3>4. CASE m + 1 \notin S0
      BY <3>2, <3>4
    <3>5. CASE m + 1 \in S0 /\ <<k, m + 1>> \in R
      <4>1. \A j \in S0 \ {m + 1} : <<j, m + 1>> \in R
        BY <3>2, <3>3, <3>5 DEF OrdersRows
      <4> QED BY <3>5, <4>1
    <3>6. CASE m + 1 \in S0 /\ <<m + 1, k>> \in R
      <4>1. \A j \in S0 \ {k} : <<j, k>> \in R
        BY <3>2, <3>6
      <4> QED BY <3>2, <4>1
    <3>7. <<k, m + 1>> \in R \/ <<m + 1, k>> \in R
      BY <3>3 DEF OrdersRows
    <3> QED BY <3>4, <3>5, <3>6, <3>7
  <2> QED BY <2>3, <2>4
<1>3. Nat \subseteq T
  <2> HIDE DEF T
  <2> QED BY <1>1, <1>2, NatSetInduction
<1>4. \A S0 \in SUBSET (1..n) : S0 # {} => Lasts(S0)
  <2> HIDE DEF Lasts
  <2>1. n \in T /\ n <= n
    <3> HIDE DEF T
    <3> QED BY <1>3
  <2> QED BY <2>1
<1> QED BY <1>4

\* A row more in the set adds its value to the total.
LEMMA OneRowMore ==
  ASSUME NEW n \in Nat, NEW f \in [1..n -> Nat], NEW S \in SUBSET (1..n), NEW k \in S
  PROVE  /\ SumUpTo(OnlyRows(f, S, n), n) = SumUpTo(OnlyRows(f, S \ {k}, n), n) + f[k]
         /\ SumUpTo(OnlyRows(f, S \ {k}, n), n) \in Nat
<1> DEFINE a == OnlyRows(f, S, n)
           b == OnlyRows(f, S \ {k}, n)
           d == f[k]
<1>1. /\ a \in [1..n -> Int] /\ b \in [1..n -> Int] /\ b \in [1..n -> Nat]
      /\ k \in 1..n /\ d \in Int
  BY DEF OnlyRows
<1>2. \A i \in 1..n : a[i] = b[i] + (IF i = k THEN d ELSE 0)
  BY DEF OnlyRows
<1> HIDE DEF a, b, d
<1>3. SumUpTo(a, n) = SumUpTo(b, n) + d
  BY <1>1, <1>2, SumUpdate
<1>4. SumUpTo(b, n) \in Nat
  BY <1>1, SumNat
<1> QED BY <1>3, <1>4 DEF a, b, d

\* Rows taken from in the order R, each as far as is still needed after the rows before
\* it: what is taken is what is needed, or all there is.
LEMMA SumGreedyInOrder ==
  ASSUME NEW n \in Nat, NEW R, OrdersRows(R, n), NEW f \in [1..n -> Nat], NEW q \in Nat,
         NEW t \in [1..n -> Nat], TakenInOrder(t, f, R, q, n)
  PROVE  SumUpTo(t, n) = IF q <= SumUpTo(f, n) THEN q ELSE SumUpTo(f, n)
<1> DEFINE Before(k) == RowsBefore(R, k, n)
           Total(g, S) == SumUpTo(OnlyRows(g, S, n), n)
           Closed(S) == \A k \in S : Before(k) \subseteq S
           Taken(S) == Total(t, S) = IF q <= Total(f, S) THEN q ELSE Total(f, S)
           T == {m \in Nat : \A S \in SUBSET (1..n) : Closed(S) /\ Cardinality(S) = m => Taken(S)}
<1>1. \A k \in 1..n : t[k] = IF Total(f, Before(k)) + f[k] <= q THEN f[k]
                             ELSE IF Total(f, Before(k)) <= q THEN q - Total(f, Before(k)) ELSE 0
  BY DEF TakenInOrder
<1>2. \A S \in SUBSET (1..n) : IsFiniteSet(S) /\ Cardinality(S) \in Nat
  <2>1. IsFiniteSet(1..n)
    BY FS_Interval
  <2> QED BY <2>1, FS_Subset, FS_CardinalityType
<1> DEFINE Last(S, k) == \A j \in S \ {k} : <<j, k>> \in R
<1>3. \A S \in SUBSET (1..n) : S # {} => \E k \in S : Last(S, k)
  BY LastRow
<1>4. 0 \in T
  <2> SUFFICES ASSUME NEW S \in SUBSET (1..n), Cardinality(S) = 0 PROVE Taken(S)
    OBVIOUS
  <2>1. S = {}
    BY <1>2, FS_EmptySet
  <2>2. Total(f, {}) = 0 /\ Total(t, {}) = 0
    <3>1. /\ OnlyRows(f, {}, n) \in [1..n -> Int] /\ \A i \in 1..n : OnlyRows(f, {}, n)[i] = 0
          /\ OnlyRows(t, {}, n) \in [1..n -> Int] /\ \A i \in 1..n : OnlyRows(t, {}, n)[i] = 0
      BY DEF OnlyRows
    <3> QED BY <3>1, SumZero
  <2> HIDE DEF Total
  <2> QED BY <2>1, <2>2
<1>5. ASSUME NEW m \in Nat, m \in T PROVE m + 1 \in T
  <2> SUFFICES ASSUME NEW S \in SUBSET (1..n), Closed(S), Cardinality(S) = m + 1 PROVE Taken(S)
    OBVIOUS
  <2>1. S # {}
    <3>1. m + 1 # 0 /\ Cardinality({}) = 0 /\ Cardinality(S) = m + 1
      BY FS_EmptySet
    <3> HIDE DEF Closed, Taken
    <3> QED BY <3>1
  <2>2. PICK k \in S : \A j \in S \ {k} : <<j, k>> \in R
    BY <1>3, <2>1
  <2>3. Before(k) = S \ {k}
    BY <2>2 DEF OrdersRows, RowsBefore
  <2>4. Closed(S \ {k})
    <3> SUFFICES ASSUME NEW j \in S \ {k}, NEW i \in Before(j) PROVE i \in S \ {k}
      OBVIOUS
    <3>1. i \in S /\ i \in 1..n /\ j \in 1..n /\ k \in 1..n /\ <<i, j>> \in R /\ <<j, k>> \in R
      BY <2>2 DEF RowsBefore
    <3>2. i # k
      BY <3>1 DEF OrdersRows
    <3> QED BY <3>1, <3>2
  <2>5. Cardinality(S \ {k}) = m
    <3>1. IsFiniteSet(S)
      BY <1>2
    <3>2. Cardinality(S \ {k}) = Cardinality(S) - 1
      BY <3>1, FS_RemoveElement
    <3> QED BY <3>2
  <2>6. Taken(S \ {k})
    <3> HIDE DEF Closed, Taken
    <3> QED BY <1>5, <2>4, <2>5
  <2> DEFINE a == Total(f, S \ {k})
             b == Total(t, S \ {k})
             c == f[k]
             d == t[k]
  <2>7. /\ Total(f, S) = a + c /\ Total(t, S) = b + d
        /\ a \in Nat /\ b \in Nat
    BY OneRowMore
  <2>8. d = IF a + c <= q THEN c ELSE IF a <= q THEN q - a ELSE 0
    <3>1. k \in 1..n
      OBVIOUS
    <3> HIDE DEF Total, Before
    <3> QED BY <1>1, <2>3, <3>1
  <2>9. b = (IF q <= a THEN q ELSE a) /\ c \in Nat
    BY <2>6
  <2> HIDE DEF a, b, c, d, Total
  <2>10. b + d = IF q <= a + c THEN q ELSE a + c
    BY <2>7, <2>8, <2>9
  <2> QED BY <2>7, <2>10
<1>6. Nat \subseteq T
  <2> HIDE DEF T
  <2> QED BY <1>4, <1>5, NatSetInduction
<1>7. Taken(1..n)
  <2>1. Closed(1..n) /\ Cardinality(1..n) \in T
    <3>1. Cardinality(1..n) \in T
      <4> HIDE DEF T
      <4> QED BY <1>2, <1>6
    <3>2. Closed(1..n)
      BY DEF RowsBefore
    <3> QED BY <3>1, <3>2
  <2> HIDE DEF Closed, Taken
  <2> QED BY <2>1
<1>8. Total(t, 1..n) = SumUpTo(t, n) /\ Total(f, 1..n) = SumUpTo(f, n)
  <2>1. OnlyRows(t, 1..n, n) = t /\ OnlyRows(f, 1..n, n) = f
    BY DEF OnlyRows
  <2> QED BY <2>1
<1> HIDE DEF Total
<1> QED BY <1>7, <1>8

\* A column with smaller values has the smaller total.
LEMMA SumMonotone ==
  ASSUME NEW n \in Nat, NEW f \in [1..n -> Int], NEW g \in [1..n -> Int],
         \A i \in 1..n : f[i] <= g[i]
  PROVE  SumUpTo(f, n) <= SumUpTo(g, n)
<1> DEFINE d == [i \in 1..n |-> g[i] - f[i]]
<1>1. d \in [1..n -> Nat] /\ d \in [1..n -> Int] /\ \A i \in 1..n : g[i] = f[i] + d[i]
  OBVIOUS
<1> HIDE DEF d
<1>2. SumUpTo(g, n) = SumUpTo(f, n) + SumUpTo(d, n)
  BY <1>1, SumAdd
<1>3. SumUpTo(d, n) \in Nat /\ SumUpTo(f, n) \in Int
  BY <1>1, SumNat, SumInt
<1> QED BY <1>2, <1>3

\* A column that changes in row k only.
LEMMA SumOneRow ==
  ASSUME NEW n \in Nat, NEW f \in [1..n -> Int], NEW g \in [1..n -> Int],
         NEW k \in 1..n, NEW d \in Int, g[k] = f[k] + d,
         \A i \in 1..n : i # k => g[i] = f[i]
  PROVE  SumUpTo(g, n) = SumUpTo(f, n) + d
<1>1. \A i \in 1..n : g[i] = f[i] + (IF i = k THEN d ELSE 0)
  <2> TAKE i \in 1..n
  <2>1. f[i] \in Int
    OBVIOUS
  <2> QED BY <2>1
<1> QED BY <1>1, SumUpdate

\* Integers distribute and cancel.
LEMMA TimesRules ==
  /\ \A i, j, k \in Int : (i + j) * k = i * k + j * k /\ (i - j) * k = i * k - j * k
  /\ \A i, j \in Int : i * j \in Int /\ 0 * j = 0 /\ (-i) * j = -(i * j)
<1>1. ASSUME NEW i \in Int, NEW j \in Int, NEW k \in Int
      PROVE  (i + j) * k = i * k + j * k /\ (i - j) * k = i * k - j * k
  BY Z3
<1>2. ASSUME NEW i \in Int, NEW j \in Int
      PROVE  i * j \in Int /\ 0 * j = 0 /\ (-i) * j = -(i * j)
  BY Z3
<1> QED BY <1>1, <1>2

\* Column h is the sum of columns f and g.
AddUp(h, f, g, n) ==
  /\ f \in [1..n -> Int] /\ g \in [1..n -> Int] /\ h \in [1..n -> Int]
  /\ \A i \in 1..n : h[i] = f[i] + g[i]

LEMMA SumAddUp ==
  ASSUME NEW n \in Nat, NEW h, NEW f, NEW g, AddUp(h, f, g, n)
  PROVE  /\ SumUpTo(h, n) = SumUpTo(f, n) + SumUpTo(g, n)
         /\ SumUpTo(f, n) \in Int /\ SumUpTo(g, n) \in Int
<1>1. SumUpTo(h, n) = SumUpTo(f, n) + SumUpTo(g, n)
  BY SumAdd DEF AddUp
<1>2. SumUpTo(f, n) \in Int
  BY SumInt DEF AddUp
<1>3. SumUpTo(g, n) \in Int
  BY SumInt DEF AddUp
<1> QED BY <1>1, <1>2, <1>3

\* Five columns.
FiveColumns(h, a, b, c, d, e, n) ==
  /\ h \in [1..n -> Int] /\ a \in [1..n -> Int] /\ b \in [1..n -> Int]
  /\ c \in [1..n -> Int] /\ d \in [1..n -> Int] /\ e \in [1..n -> Int]
  /\ \A i \in 1..n : h[i] = a[i] - b[i] - c[i] + d[i] + e[i]

LEMMA SumOfFive ==
  ASSUME NEW n \in Nat, NEW h, NEW a, NEW b, NEW c, NEW d, NEW e,
         FiveColumns(h, a, b, c, d, e, n)
  PROVE  /\ SumUpTo(h, n) = SumUpTo(a, n) - SumUpTo(b, n) - SumUpTo(c, n)
                              + SumUpTo(d, n) + SumUpTo(e, n)
         /\ SumUpTo(a, n) \in Int /\ SumUpTo(b, n) \in Int /\ SumUpTo(c, n) \in Int
         /\ SumUpTo(d, n) \in Int /\ SumUpTo(e, n) \in Int
<1> DEFINE h1 == [i \in 1..n |-> d[i] + e[i]]
           h2 == [i \in 1..n |-> b[i] + c[i]]
           h3 == [i \in 1..n |-> a[i] + h1[i]]
<1>1. AddUp(h1, d, e, n)
  BY DEF FiveColumns, AddUp
<1>2. AddUp(h2, b, c, n)
  BY DEF FiveColumns, AddUp
<1>3. \A i \in 1..n : h1[i] = d[i] + e[i] /\ h2[i] = b[i] + c[i]
  OBVIOUS
<1> HIDE DEF h1, h2
<1>4. AddUp(h3, a, h1, n)
  <2>1. h1 \in [1..n -> Int] /\ a \in [1..n -> Int]
    BY <1>1 DEF FiveColumns, AddUp
  <2>2. h3 \in [1..n -> Int] /\ \A i \in 1..n : h3[i] = a[i] + h1[i]
    BY <2>1
  <2> HIDE DEF h3
  <2> QED BY <2>1, <2>2 DEF AddUp
<1>5. \A i \in 1..n : h3[i] = a[i] + h1[i]
  OBVIOUS
<1> HIDE DEF h3
<1>6. AddUp(h3, h, h2, n)
  <2>1. h3 \in [1..n -> Int] /\ h2 \in [1..n -> Int] /\ h \in [1..n -> Int]
    BY <1>2, <1>4 DEF FiveColumns, AddUp
  <2>2. ASSUME NEW i \in 1..n PROVE h3[i] = h[i] + h2[i]
    <3>1. /\ a[i] \in Int /\ b[i] \in Int /\ c[i] \in Int /\ d[i] \in Int /\ e[i] \in Int
          /\ h[i] = a[i] - b[i] - c[i] + d[i] + e[i]
      BY DEF FiveColumns
    <3>2. h3[i] = a[i] + (d[i] + e[i]) /\ h2[i] = b[i] + c[i]
      BY <1>3, <1>5
    <3> QED BY <3>1, <3>2
  <2> QED BY <2>1, <2>2 DEF AddUp
<1>7. /\ SumUpTo(h1, n) = SumUpTo(d, n) + SumUpTo(e, n)
      /\ SumUpTo(d, n) \in Int /\ SumUpTo(e, n) \in Int
  BY <1>1, SumAddUp
<1>8. /\ SumUpTo(h2, n) = SumUpTo(b, n) + SumUpTo(c, n)
      /\ SumUpTo(b, n) \in Int /\ SumUpTo(c, n) \in Int
  BY <1>2, SumAddUp
<1>9. /\ SumUpTo(h3, n) = SumUpTo(a, n) + SumUpTo(h1, n)
      /\ SumUpTo(a, n) \in Int
  BY <1>4, SumAddUp
<1>10. /\ SumUpTo(h3, n) = SumUpTo(h, n) + SumUpTo(h2, n)
       /\ SumUpTo(h, n) \in Int
  BY <1>6, SumAddUp
<1>11. PICK x \in Int, y \in Int, z \in Int, u \in Int, v \in Int, w \in Int :
         /\ x = SumUpTo(a, n) /\ y = SumUpTo(b, n) /\ z = SumUpTo(c, n)
         /\ u = SumUpTo(d, n) /\ v = SumUpTo(e, n) /\ w = SumUpTo(h, n)
  BY <1>7, <1>8, <1>9, <1>10
<1>12. x + (u + v) = w + (y + z)
  BY <1>7, <1>8, <1>9, <1>10, <1>11
<1>13. w = x - y - z + u + v
  BY <1>12
<1> QED BY <1>7, <1>8, <1>9, <1>11, <1>13

-----------------------------------------------------------------------------
(***************************************************************************)
(* Rows in an order.                                                       *)
(***************************************************************************)

\* q lists the k rows of S, each once, in the order R.
Lists(q, k, S, R) ==
  /\ k \in Nat /\ q \in [1..k -> S]
  /\ \A i \in S : \E m \in 1..k : q[m] = i
  /\ \A m, j \in 1..k : m < j => <<q[m], q[j]>> \in R

\* What the first m of the listed rows have in the column f.
FirstValues(f, q, m) == [j \in 1..m |-> f[q[j]]]

\* Rows that are ordered can be listed.
LEMMA ListExists ==
  ASSUME NEW n \in Nat, NEW R, OrdersRows(R, n), NEW S \in SUBSET (1..n)
  PROVE  \E q : Lists(q, Cardinality(S), S, R)
<1> DEFINE Listed(S0) == \E q : Lists(q, Cardinality(S0), S0, R)
           T == {c \in Nat : \A S0 \in SUBSET (1..n) : Cardinality(S0) = c => Listed(S0)}
<1>0. \A S0 \in SUBSET (1..n) : IsFiniteSet(S0) /\ Cardinality(S0) \in Nat
  <2>1. IsFiniteSet(1..n)
    BY FS_Interval
  <2>2. \A S0 \in SUBSET (1..n) : IsFiniteSet(S0)
    BY <2>1, FS_Subset
  <2> QED BY <2>2, FS_CardinalityType
<1>1. 0 \in T
  <2>1. SUFFICES ASSUME NEW S0 \in SUBSET (1..n), Cardinality(S0) = 0 PROVE Listed(S0)
    OBVIOUS
  <2>2. S0 = {}
    BY <1>0, <2>1, FS_EmptySet
  <2>3. Lists([m \in 1..0 |-> m], 0, S0, R)
    BY <2>2 DEF Lists
  <2> QED BY <2>1, <2>3
<1>2. ASSUME NEW c \in Nat, c \in T PROVE c + 1 \in T
  <2>1. SUFFICES ASSUME NEW S0 \in SUBSET (1..n), Cardinality(S0) = c + 1 PROVE Listed(S0)
    OBVIOUS
  <2>2. S0 # {}
    BY <2>1, FS_EmptySet
  <2>3. PICK k \in S0 : \A j \in S0 \ {k} : <<j, k>> \in R
    BY <2>2, LastRow
  <2>4. Cardinality(S0 \ {k}) = c /\ S0 \ {k} \in SUBSET (1..n)
    <3>1. Cardinality(S0 \ {k}) = Cardinality(S0) - 1
      BY <1>0, <2>3, FS_RemoveElement
    <3> QED BY <2>1, <3>1
  <2>5. Listed(S0 \ {k})
    <3> HIDE DEF Listed
    <3> QED BY <1>2, <2>4
  <2>6. PICK q : Lists(q, c, S0 \ {k}, R)
    BY <2>4, <2>5
  <2> DEFINE r == [m \in 1..(c + 1) |-> IF m = c + 1 THEN k ELSE q[m]]
  <2>7. r \in [1..(c + 1) -> S0]
    BY <2>6 DEF Lists
  <2>8. ASSUME NEW i \in S0 PROVE \E m \in 1..(c + 1) : r[m] = i
    <3>1. CASE i = k
      BY <3>1
    <3>2. CASE i # k
      <4>1. PICK m \in 1..c : q[m] = i
        BY <2>6, <3>2 DEF Lists
      <4>2. m \in 1..(c + 1) /\ r[m] = i
        BY <4>1
      <4> QED BY <4>2
    <3> QED BY <3>1, <3>2
  <2>9. ASSUME NEW m \in 1..(c + 1), NEW j \in 1..(c + 1), m < j PROVE <<r[m], r[j]>> \in R
    <3>1. m \in 1..c /\ r[m] = q[m]
      BY <2>9
    <3>2. CASE j = c + 1
      <4>1. q[m] \in S0 \ {k}
        BY <2>6, <3>1 DEF Lists
      <4> QED BY <2>3, <3>1, <3>2, <4>1
    <3>3. CASE j # c + 1
      <4>1. j \in 1..c /\ r[j] = q[j]
        BY <3>3
      <4> QED BY <2>6, <2>9, <3>1, <4>1 DEF Lists
    <3> QED BY <3>2, <3>3
  <2> HIDE DEF r
  <2>10. Lists(r, c + 1, S0, R)
    BY <2>7, <2>8, <2>9 DEF Lists
  <2> QED BY <2>1, <2>10
<1>3. Nat \subseteq T
  <2> HIDE DEF T
  <2> QED BY <1>1, <1>2, NatSetInduction
<1>4. Listed(S)
  <2> HIDE DEF Listed
  <2> QED BY <1>0, <1>3
<1> QED BY <1>4

\* As far as one list goes, another list of the same rows agrees with it.
LEMMA ListAgrees ==
  ASSUME NEW n \in Nat, NEW R, OrdersRows(R, n), NEW S \in SUBSET (1..n),
         NEW q, NEW k, Lists(q, k, S, R), NEW r, NEW l, Lists(r, l, S, R)
  PROVE  k <= l /\ \A m \in 1..k : q[m] = r[m]
<1> DEFINE T == {c \in Nat : \A m \in 1..k : m <= c => m <= l /\ q[m] = r[m]}
<1>0. /\ k \in Nat /\ l \in Nat
      /\ \A m \in 1..k : q[m] \in S
      /\ \A m \in 1..l : r[m] \in S
      /\ \A i \in S : i \in 1..n
  BY DEF Lists
<1>1. 0 \in T
  BY <1>0
<1>2. ASSUME NEW c \in Nat, c \in T PROVE c + 1 \in T
  <2>1. SUFFICES ASSUME c + 1 \in 1..k PROVE c + 1 <= l /\ q[c + 1] = r[c + 1]
    BY <1>0, <1>2
  <2>2. \A m \in 1..c : m \in 1..l /\ m \in 1..k /\ q[m] = r[m]
    BY <1>0, <1>2, <2>1
  <2>3. \A i \in S : <<i, i>> \notin R
    BY <1>0 DEF OrdersRows
  <2>4. PICK j \in 1..l : r[j] = q[c + 1]
    BY <1>0, <2>1 DEF Lists
  <2>5. j > c
    <3>1. SUFFICES ASSUME j \in 1..c PROVE FALSE
      BY <2>4
    <3>2. q[j] = q[c + 1] /\ j \in 1..k /\ j < c + 1
      BY <2>2, <2>4, <3>1
    <3>3. <<q[j], q[c + 1]>> \in R
      BY <2>1, <3>2 DEF Lists
    <3> QED BY <1>0, <2>1, <2>3, <3>2, <3>3
  <2>6. c + 1 \in 1..l
    BY <1>0, <2>4, <2>5
  <2>7. PICK h \in 1..k : q[h] = r[c + 1]
    BY <1>0, <2>6 DEF Lists
  <2>8. h > c
    <3>1. SUFFICES ASSUME h \in 1..c PROVE FALSE
      BY <2>7
    <3>2. r[h] = r[c + 1] /\ h \in 1..l /\ h < c + 1
      BY <2>2, <2>7, <3>1
    <3>3. <<r[h], r[c + 1]>> \in R
      BY <2>6, <3>2 DEF Lists
    <3> QED BY <1>0, <2>3, <2>6, <3>2, <3>3
  <2>9. CASE j = c + 1
    BY <2>4, <2>6, <2>9
  <2>10. CASE h = c + 1
    BY <2>6, <2>7, <2>10
  <2>11. CASE j > c + 1 /\ h > c + 1
    <3>1. <<r[c + 1], r[j]>> \in R /\ <<q[c + 1], q[h]>> \in R
      BY <2>1, <2>4, <2>6, <2>7, <2>11 DEF Lists
    <3>2. <<r[c + 1], q[c + 1]>> \in R /\ <<q[c + 1], r[c + 1]>> \in R
      BY <2>4, <2>7, <3>1
    <3>3. q[c + 1] \in 1..n /\ r[c + 1] \in 1..n
      BY <1>0, <2>1, <2>6
    <3>4. \A a, b \in 1..n : ~ (<<a, b>> \in R /\ <<b, a>> \in R)
      BY DEF OrdersRows
    <3> QED BY <3>2, <3>3, <3>4
  <2> QED BY <2>4, <2>5, <2>7, <2>8, <2>9, <2>10, <2>11
<1>3. Nat \subseteq T
  <2> HIDE DEF T
  <2> QED BY <1>1, <1>2, NatSetInduction
<1>4. k \in T
  <2> HIDE DEF T
  <2> QED BY <1>0, <1>3
<1> QED BY <1>0, <1>4

\* There is one list of the rows of a set.
LEMMA ListUnique ==
  ASSUME NEW n \in Nat, NEW R, OrdersRows(R, n), NEW S \in SUBSET (1..n),
         NEW q, NEW k, Lists(q, k, S, R), NEW r, NEW l, Lists(r, l, S, R)
  PROVE  k = l /\ q = r
<1>1. k <= l /\ \A m \in 1..k : q[m] = r[m]
  BY ListAgrees
<1>2. l <= k
  BY ListAgrees
<1>3. k \in Nat /\ l \in Nat /\ q \in [1..k -> S] /\ r \in [1..l -> S]
  BY DEF Lists
<1>4. k = l
  BY <1>1, <1>2, <1>3
<1> QED BY <1>1, <1>3, <1>4

\* The order of the numbers themselves, and an order turned around.
ByNumber(n) == {ij \in (1..n) \X (1..n) : ij[1] < ij[2]}
Backwards(R, n) == {ij \in (1..n) \X (1..n) : <<ij[2], ij[1]>> \in R}

LEMMA ByNumberOrders == ASSUME NEW n \in Nat PROVE OrdersRows(ByNumber(n), n)
BY DEF OrdersRows, ByNumber

LEMMA BackwardsOrders ==
  ASSUME NEW n \in Nat, NEW R, OrdersRows(R, n) PROVE OrdersRows(Backwards(R, n), n)
BY DEF OrdersRows, Backwards

\* A total depends on the rows it is of.
LEMMA SumSameRows ==
  ASSUME NEW n \in Nat, NEW f, NEW g, \A i \in 1..n : f[i] = g[i]
  PROVE  SumUpTo(f, n) = SumUpTo(g, n)
<1> DEFINE T == {m \in Nat : m <= n => SumUpTo(f, m) = SumUpTo(g, m)}
<1>1. 0 \in T
  BY SumEquation
<1>2. ASSUME NEW m \in Nat, m \in T PROVE m + 1 \in T
  <2>1. SUFFICES ASSUME m + 1 <= n PROVE SumUpTo(f, m + 1) = SumUpTo(g, m + 1)
    OBVIOUS
  <2>2. SumUpTo(f, m) = SumUpTo(g, m) /\ m + 1 \in 1..n
    BY <1>2, <2>1
  <2> QED BY <2>2, SumEquation
<1>3. Nat \subseteq T
  <2> HIDE DEF T
  <2> QED BY <1>1, <1>2, NatSetInduction
<1> QED BY <1>3

\* The first m of the listed rows.
FirstRows(q, m) == {q[j] : j \in 1..m}

\* They have the same total in the order of the list and in that of their numbers.
LEMMA SumListed ==
  ASSUME NEW n \in Nat, NEW R, OrdersRows(R, n), NEW S \in SUBSET (1..n),
         NEW q, NEW k, Lists(q, k, S, R), NEW f \in [1..n -> Int], NEW m \in 1..k
  PROVE  SumUpTo(FirstValues(f, q, m), m) = SumUpTo(OnlyRows(f, FirstRows(q, m), n), n)
<1> DEFINE F(c) == [j \in 1..c |-> f[q[j]]]
           G(c) == OnlyRows(f, {q[j] : j \in 1..c}, n)
           T == {c \in Nat : c <= k => SumUpTo(F(c), c) = SumUpTo(G(c), n)}
<1>0. k \in Nat /\ q \in [1..k -> S] /\ \A c \in 1..k : q[c] \in S /\ q[c] \in 1..n
  BY DEF Lists
<1>1. 0 \in T
  <2>1. SumUpTo(F(0), 0) = 0
    BY SumEquation
  <2>2. G(0) \in [1..n -> Int] /\ \A i \in 1..n : G(0)[i] = 0
    BY DEF OnlyRows
  <2>3. SumUpTo(G(0), n) = 0
    <3> HIDE DEF G
    <3> QED BY <2>2, SumZero
  <2> QED BY <2>1, <2>3
<1>2. ASSUME NEW c \in Nat, c \in T PROVE c + 1 \in T
  <2>1. SUFFICES ASSUME c + 1 \in 1..k PROVE SumUpTo(F(c + 1), c + 1) = SumUpTo(G(c + 1), n)
    BY <1>0
  <2>2. SumUpTo(F(c), c) = SumUpTo(G(c), n)
    BY <1>0, <1>2, <2>1
  <2>3. \A i \in 1..c : F(c + 1)[i] = F(c)[i]
    OBVIOUS
  <2>4. F(c + 1)[c + 1] = f[q[c + 1]]
    OBVIOUS
  <2>5. SumUpTo(F(c + 1), c + 1) = SumUpTo(F(c), c) + f[q[c + 1]]
    <3>1. SumUpTo(F(c + 1), c) = SumUpTo(F(c), c)
      <4> HIDE DEF F
      <4> QED BY <2>3, SumSameRows
    <3> HIDE DEF F
    <3> QED BY <2>4, <3>1, SumEquation
  <2>6. \A j \in 1..c : q[j] # q[c + 1]
    <3> TAKE j \in 1..c
    <3>1. <<q[j], q[c + 1]>> \in R
      BY <1>0, <2>1 DEF Lists
    <3> QED BY <1>0, <2>1, <3>1 DEF OrdersRows
  <2>7. {q[j] : j \in 1..(c + 1)} = {q[j] : j \in 1..c} \cup {q[c + 1]}
    OBVIOUS
  <2>8. /\ G(c) \in [1..n -> Int] /\ G(c + 1) \in [1..n -> Int]
        /\ q[c + 1] \in 1..n /\ f[q[c + 1]] \in Int
    BY <1>0, <2>1 DEF OnlyRows
  <2>9. G(c + 1)[q[c + 1]] = G(c)[q[c + 1]] + f[q[c + 1]]
    BY <2>6, <2>7, <2>8 DEF OnlyRows
  <2>10. \A i \in 1..n : i # q[c + 1] => G(c + 1)[i] = G(c)[i]
    BY <2>7 DEF OnlyRows
  <2>11. SumUpTo(G(c + 1), n) = SumUpTo(G(c), n) + f[q[c + 1]]
    <3> DEFINE a == G(c)
               b == G(c + 1)
               h == q[c + 1]
               d == f[h]
    <3>1. /\ a \in [1..n -> Int] /\ b \in [1..n -> Int] /\ h \in 1..n /\ d \in Int
          /\ b[h] = a[h] + d /\ \A i \in 1..n : i # h => b[i] = a[i]
      BY <2>8, <2>9, <2>10
    <3> HIDE DEF a, b, h, d
    <3>2. SumUpTo(b, n) = SumUpTo(a, n) + d
      BY <3>1, SumOneRow
    <3> QED BY <3>2 DEF a, b, h, d
  <2> QED BY <2>2, <2>5, <2>11
<1>3. Nat \subseteq T
  <2> HIDE DEF T
  <2> QED BY <1>1, <1>2, NatSetInduction
<1>4. m \in T /\ m <= k
  <2> HIDE DEF T
  <2> QED BY <1>0, <1>3
<1>5. SumUpTo(F(m), m) = SumUpTo(G(m), n)
  BY <1>4
<1> QED BY <1>5 DEF FirstValues, FirstRows

=============================================================================
