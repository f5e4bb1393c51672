------------------------------ MODULE MCCatalog ------------------------------
(* Instances of Catalog for TLC. *)
EXTENDS Catalog, TLC

CONSTANTS t1, t2, t3

AnyTxn == Permutations(Txns)

\* The seed lists products 1 and 2.
TwoProducts == <<100, 250>>

Create(price, rating, image) ==
    [op |-> "create", price |-> price, rating |-> rating, image |-> image]
Edit(p, price) == [op |-> "edit", product |-> p, price |-> price]
MainImage(p) == [op |-> "image", product |-> p]
Drop(p) == [op |-> "drop", product |-> p]
Import == [op |-> "import"]

\* Prices with ties to either side, one that rounds to zero, one the column cannot hold;
\* ratings that round up to five and beyond it.
CatalogRequests ==
    {Create(1005, 4949, TRUE), Create(1015, 5004, FALSE), Create(5, 4500, FALSE),
     Create(9996, 4500, FALSE), Create(1005, 5006, FALSE),
     Edit(1, 2345), Edit(1, 1000), Edit(2, 9996), MainImage(1), MainImage(2), Drop(1), Drop(2), Import}

\* Nothing but creations, after the README's first import.
CreateRequests == {Create(1005, 4500, FALSE), Create(1005, 4500, TRUE)}
=============================================================================
