--------------------------- MODULE MCDayClosing ----------------------------
(* Bounded instances of DayClosing. *)
EXTENDS DayClosing

\* A mistyped amount, and two good ones.
MCAmounts == {-1, 1}

\* Half a cent, half a cent below zero (a discount beyond the subtotal), and a total
\* that is rounded without a tie.
MCTotals == {-50, 50, 120}

=============================================================================
