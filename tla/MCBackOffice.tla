--------------------------- MODULE MCBackOffice ---------------------------
(* A bounded instance of BackOffice. *)
EXTENDS BackOffice, TLC

CONSTANTS customer, supplier, clerk1, clerk2, buyer1, buyer2, rice, soap, editor, viewer1, viewer2

\* Two lines; of rice one is too few on the shelf.
MCLineProduct == <<rice, soap>>
MCOrdered == <<1, 1>>
MCMinimum == rice :> 1 @@ soap :> -1
MCOpeningStock == rice :> 1 @@ soap :> 0

\* An increase, or a payment, and a decrease.
MCAmounts == {-1, 1}

\* Requests of a kind are interchangeable.
Interchangeable ==
  {f @@ g @@ h : f \in Permutations({clerk1, clerk2}), g \in Permutations({buyer1, buyer2}),
                 h \in Permutations({viewer1, viewer2})}

\* Bound: the parties are entered before the tasks begin.
EnteredFirst == tasks' # tasks => \A p \in Parties : party[p] # "absent"

=============================================================================
