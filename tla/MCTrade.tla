------------------------------ MODULE MCTrade ------------------------------
(* Bounded instances of Trade, with the reports over it. *)
EXTENDS Reports

\* NULL for an expiry date, outside the day numbers.
MCNoExpiry == -1

\* A discount, or a tax.
MCHeaders == {-1, 1}

\* A payment or an increase, and a decrease.
MCAmounts == {-2, 2}

\* Bound: the first batch comes with one unit, the second with two, so that a sale of
\* one unit needs one batch, and a sale of two may need both, at different costs.
Deliveries == nBatches' > nBatches => initial'[nBatches'] = nBatches'

\* Bound: the tax is on sales to walk-in buyers, the discount on every other invoice.
Invoices ==
  /\ \A b \in Batches : purchaseHeader'[b] <= 0
  /\ \A s \in onCredit' : saleHeader'[s] <= 0
  /\ nSales' > nSales => (saleHeader'[nSales'] > 0 <=> nSales' \notin onCredit')

=============================================================================
