----------------------------- MODULE Catalogue -----------------------------
(***************************************************************************)
(* Product rows: the stock the inventory services keep on them, and the    *)
(* product form and the Excel import, which load a row and save all of it. *)
(***************************************************************************)
EXTENDS Integers

CONSTANTS
  Products,
  Editors,       \* requests that edit or import a product
  NoProduct,     \* no copy
  Minimum,       \* Product.minimum_stock
  OpeningStock

ASSUME ProductsAssumption == NoProduct \notin Products
ASSUME StockAssumption ==
  Minimum \in [Products -> Int] /\ OpeningStock \in [Products -> Nat]

VARIABLES
  onShelf,    \* WarehouseStock.quantity
  stock,      \* Product.stock
  expiry,     \* Product.expiry_date: "none", or how far it is: "far", "near", "past"
  draft,      \* the row an editor has loaded
  resaved     \* products saved with a stock that was out of date (history)

shelfVars == <<onShelf, stock, expiry, resaved>>
catalogueVars == <<shelfVars, draft>>

NoDraft == [of |-> NoProduct, stock |-> 0]

\* Fault: the sum is read before the shelf is updated.
RecomputeBefore(products) ==
  /\ stock' = [p \in Products |-> IF p \in products THEN onShelf[p] ELSE stock[p]]
  /\ resaved' = resaved \ products

\* recompute_product_stock after the shelf of some products has changed: what a form has
\* overwritten is put right.
Recompute(products) ==
  /\ stock' = [p \in Products |-> IF p \in products THEN onShelf'[p] ELSE stock[p]]
  /\ resaved' = resaved \ products

\* Product.is_low_stock.
IsLowStock(p) == stock[p] <= Minimum[p]

\* Product.is_expired, is_near_expiry.
IsExpired(p) == expiry[p] = "past"
IsNearExpiry(p) == expiry[p] = "near"

\* product_edit, and an import row that names an existing product.
LoadProduct(e, p) ==
  /\ draft[e] = NoDraft
  /\ draft' = [draft EXCEPT ![e] = [of |-> p, stock |-> stock[p]]]
  /\ UNCHANGED shelfVars

\* save() writes every column, the stock and whatever expiry date was entered.
SaveProduct(e, date) ==
  LET p == draft[e].of IN
  /\ p # NoProduct
  /\ stock' = [stock EXCEPT ![p] = draft[e].stock]
  /\ expiry' = [expiry EXCEPT ![p] = date]
  /\ resaved' = IF stock[p] = draft[e].stock THEN resaved ELSE resaved \cup {p}
  /\ draft' = [draft EXCEPT ![e] = NoDraft]
  /\ UNCHANGED onShelf

\* Expiry dates come nearer: a month, and another.
MonthPasses ==
  /\ \E p \in Products : expiry[p] \in {"far", "near"}
  /\ expiry' = [p \in Products |-> CASE expiry[p] = "far" -> "near"
                                     [] expiry[p] = "near" -> "past"
                                     [] OTHER -> expiry[p]]
  /\ UNCHANGED <<onShelf, stock, resaved, draft>>

CatalogueInit ==
  /\ onShelf = OpeningStock
  /\ stock = OpeningStock
  /\ expiry = [p \in Products |-> "none"]
  /\ draft = [e \in Editors |-> NoDraft]
  /\ resaved = {}

CatalogueTypeOK ==
  /\ onShelf \in [Products -> Nat]
  /\ stock \in [Products -> Nat]
  /\ expiry \in [Products -> {"none", "far", "near", "past"}]
  /\ draft \in [Editors -> [of : Products \cup {NoProduct}, stock : Nat]]
  /\ resaved \subseteq Products

\* The stock on the product is what is on the shelf, however receipts, sales and forms
\* overlap, until a form or an import saves a copy that a movement has overtaken; the next
\* movement of the product puts it right.
StockShown == \A p \in Products : p \notin resaved => stock[p] = onShelf[p]

=============================================================================
