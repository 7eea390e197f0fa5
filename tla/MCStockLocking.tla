--------------------------- MODULE MCStockLocking ---------------------------
(* A bounded instance of StockLocking. *)
EXTENDS StockLocking, TLC

CONSTANTS sale1, sale2, return1, return2, receipt

\* Products 1 and 2.  Batch 1 is sold out, one unit of it may come back; batch 2 has two
\* units and batch 3 one in each warehouse; batch 4 is about to be received.
MCProductOf == <<1, 1, 2, 2>>
MCOpening == << <<0, 0>>, <<2, 0>>, <<1, 1>>, <<0, 0>> >>
MCSold == <<1, 1, 0, 0>>

Line(p, q, b) == [product |-> p, quantity |-> q, batch |-> b]

\* Two sales of the same products in opposite order, two returns of one line.
MCLines ==
  sale1 :> <<Line(1, 2, 0), Line(2, 1, 0)>> @@ sale2 :> <<Line(2, 1, 0), Line(1, 1, 0)>>
    @@ return1 :> <<Line(1, 1, 1)>> @@ return2 :> <<Line(1, 1, 1), Line(1, 1, 2)>>
    @@ receipt :> <<Line(2, 1, 4)>>
MCWarehouseOf == [r \in Movers |-> IF r = receipt THEN 2 ELSE 1]

=============================================================================
