-------------------------------- MODULE Sums --------------------------------
(***************************************************************************)
(* Totals over rows numbered 1..n, the way the program asks the database   *)
(* for them: aggregate(Sum('quantity')) over the rows of a table.  A       *)
(* recursive function is used, so that the totals can be reasoned about.   *)
(***************************************************************************)
EXTENDS Integers

\* f[1] + ... + f[n].
SumUpTo(f, n) ==
  LET total[i \in Nat] == IF i = 0 THEN 0 ELSE total[i - 1] + f[i]
  IN  total[n]

=============================================================================
