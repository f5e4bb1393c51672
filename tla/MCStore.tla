------------------------------ MODULE MCStore -------------------------------
(***************************************************************************)
(* Instances of Store for TLC.  A scenario is a set of requests; every      *)
(* transaction picks one of them, so the same request may come twice.       *)
(***************************************************************************)
EXTENDS Store, TLC

CONSTANTS u1, u2, k1, k2, t1, t2, t3

P2 == {1, 2}
OneUser == {u1}
TwoUsers == {u1, u2}
TwoTxns == {t1, t2}
ThreeTxns == {t1, t2, t3}
AnyTxn == Permutations(Txns)

Checkout(u, k) == [op |-> "checkout", user |-> u, key |-> k]
AddItem(u, p, n) == [op |-> "add", user |-> u, product |-> p, qty |-> n]
SetItem(u, p, n) == [op |-> "set", user |-> u, product |-> p, qty |-> n]
DeleteItem(u, p) == [op |-> "remove", user |-> u, product |-> p]
ClearCart(u) == [op |-> "clear", user |-> u]
DeleteProfile(u) == [op |-> "close", user |-> u]
AddBalance(u, n) == [op |-> "credit", user |-> u, qty |-> n]
EditStock(p, n) == [op |-> "edit", product |-> p, price |-> {}, stock |-> {n}]
EditPrice(p, n) == [op |-> "edit", product |-> p, price |-> {n}, stock |-> {}]
DropProduct(p) == [op |-> "drop", product |-> p]
Import(prices, stocks) == [op |-> "import", price |-> prices, stock |-> stocks]

\* Handlers whose get_db is not the one require_user has used: all of them, or as the code is.
EveryOwnSession == BlockOps
AsWritten == {"checkout"}

AllUsers(n) == [u \in Users |-> n]
AllProducts(n) == [p \in Products |-> n]
Start5 == AllUsers(5)
Start9 == AllUsers(9)
StockOf3 == AllProducts(3)
PriceOf2 == AllProducts(2)
OneOfEach == [u \in Users |-> AllProducts(1)]
FirstHasOne == [u \in Users |-> [p \in Products |-> IF u = u1 /\ p = 1 THEN 1 ELSE 0]]

\* Charging: retries and a second key, two customers with the same products in their carts,
\* the wallet filled, the account closed and the products edited and imported meanwhile.
WalletRequests ==
    {Checkout(u1, k1), Checkout(u1, k2), Checkout(u1, NoKey), Checkout(u2, k1), Checkout(u2, k2),
     AddItem(u1, 1, 1), AddBalance(u1, 2), AddBalance(u1, 5), DeleteProfile(u1),
     EditStock(1, 1), EditStock(2, 1), EditPrice(1, 3), Import(<<3, 3>>, <<2, 3>>)}

\* One customer's cart from several tabs, while it is bought; another's first additions; the
\* administrator changes and deletes what is in them, and a deployment brings it back.
CartRequests ==
    {Checkout(u1, k1), AddItem(u1, 1, 1), AddItem(u1, 2, 1), AddItem(u1, 2, 3),
     SetItem(u1, 1, 2), SetItem(u1, 2, 3), DeleteItem(u1, 1), ClearCart(u1),
     AddItem(u2, 1, 1), AddItem(u2, 2, 1), Checkout(u2, k1),
     DropProduct(1), DropProduct(2), EditStock(1, 1), EditStock(2, 0), EditPrice(1, 3),
     Import(<<2, 1>>, <<3, 2>>)}

\* Two customers put products into their carts.
AdditionRequests == {AddItem(u, p, 1) : u \in TwoUsers, p \in P2}

\* Everything that can lock in an order of its own against a checkout.
ProgressRequests ==
    {Checkout(u1, k1), AddItem(u1, 1, 1), AddItem(u1, 2, 1), SetItem(u1, 1, 2), ClearCart(u1),
     DropProduct(1), AddBalance(u1, 1), Import(<<3, 3>>, <<2, 3>>)}
=============================================================================
