------------------------- MODULE MCInvoicePayments -------------------------
(***************************************************************************)
(* Instances of InvoicePayments for TLC: two invoices of 3 and 2, of the   *)
(* same day; the request "a2" finds them the other way round.              *)
(***************************************************************************)
EXTENDS InvoicePayments

MCTotal == <<3, 2>>
MCDate == <<1, 1>>
MCOrder == [r \in Requests |-> IF r = "a2" THEN <<2, 1>> ELSE <<1, 2>>]
KindOf ==
  [p1 |-> "pay", p2 |-> "pay", a1 |-> "allocate", a2 |-> "allocate",
   c1 |-> "collect", c2 |-> "collect", x1 |-> "cancel", x2 |-> "cancel"]
MCKind == [r \in Requests |-> KindOf[r]]

=============================================================================
