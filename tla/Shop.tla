-------------------------------- MODULE Shop --------------------------------
(***************************************************************************)
(* What the store promises: every request takes effect at once or not at    *)
(* all.  No locks, no copies, no steps in between.  Store implements it.    *)
(***************************************************************************)
EXTENDS Naturals, Functions

CONSTANTS Users, Products, Keys, MaxMoney, Seeds
VARIABLES balance, active, price, stock, listed, item, orders

shop == <<balance, active, price, stock, listed, item, orders>>

Nothing == [p \in Products |-> 0]
Unused == [total |-> 0, lines |-> Nothing]
Bill(lines) == SumFunction([p \in Products |-> price[p] * lines[p]])

ShopInit ==
    /\ balance \in [Users -> 0 .. MaxMoney] /\ active = [u \in Users |-> TRUE]
    /\ \A p \in Products : price[p] > 0 /\ stock[p] >= 0 /\ listed[p]
    /\ orders = [u \in Users |-> [k \in Keys |-> Unused]]

\* The whole cart is bought, once per key, for the prices of the moment.
Buy(u, k) ==
    LET lines == item[u] IN
    /\ active[u] /\ orders[u][k] = Unused /\ lines # Nothing
    /\ \A p \in Products : lines[p] > 0 => listed[p] /\ lines[p] <= stock[p]
    /\ Bill(lines) <= balance[u]
    /\ balance' = [balance EXCEPT ![u] = @ - Bill(lines)]
    /\ stock' = [p \in Products |-> stock[p] - lines[p]]
    /\ orders' = [orders EXCEPT ![u][k] = [total |-> Bill(lines), lines |-> lines]]
    /\ item' = [item EXCEPT ![u] = Nothing]
    /\ UNCHANGED <<active, price, listed>>

\* An item is put, or raised, or changed to a quantity that is in stock.
Put(u, p) ==
    /\ listed[p]
    /\ \E n \in 1 .. stock[p] : item' = [item EXCEPT ![u][p] = n]
    /\ UNCHANGED <<balance, active, price, stock, listed, orders>>

TakeOut(u) ==
    /\ \E gone \in SUBSET Products :
          item' = [item EXCEPT ![u] = [p \in Products |-> IF p \in gone THEN 0 ELSE @[p]]]
    /\ UNCHANGED <<balance, active, price, stock, listed, orders>>

Fund(u) ==
    /\ active[u]
    /\ \E n \in balance[u] + 1 .. MaxMoney : balance' = [balance EXCEPT ![u] = n]
    /\ UNCHANGED <<active, price, stock, listed, item, orders>>

Close(u) ==
    /\ active' = [active EXCEPT ![u] = FALSE]
    /\ UNCHANGED <<balance, price, stock, listed, item, orders>>

Edit(p) ==
    /\ listed[p]
    /\ price'[p] > 0 /\ price' = [price EXCEPT ![p] = price'[p]]
    /\ stock'[p] >= 0 /\ stock' = [stock EXCEPT ![p] = stock'[p]]
    /\ UNCHANGED <<balance, active, listed, item, orders>>

\* A product leaves with every cart item that names it, unless it was ever sold.
Drop(p) ==
    /\ \A u \in Users, k \in Keys : orders[u][k].lines[p] = 0
    /\ listed' = [listed EXCEPT ![p] = FALSE]
    /\ item' = [u \in Users |-> [item[u] EXCEPT ![p] = 0]]
    /\ UNCHANGED <<balance, active, price, stock, orders>>

\* Products take the prices and the stocks of the seed, unless they are changed meanwhile, and
\* those it lists that were gone come back with both.
Import(seed) ==
    \E repriced, restocked, new \in SUBSET {p \in Products : seed.price[p] > 0} :
        /\ new \subseteq repriced \cap restocked
        /\ price' = [p \in Products |-> IF p \in repriced THEN seed.price[p] ELSE price[p]]
        /\ stock' = [p \in Products |-> IF p \in restocked THEN seed.stock[p] ELSE stock[p]]
        /\ listed' = [p \in Products |-> listed[p] \/ p \in new]
        /\ UNCHANGED <<balance, active, item, orders>>

ShopNext ==
    \/ \E u \in Users : TakeOut(u) \/ Fund(u) \/ Close(u)
    \/ \E u \in Users, k \in Keys : Buy(u, k)
    \/ \E u \in Users, p \in Products : Put(u, p)
    \/ \E p \in Products : Edit(p) \/ Drop(p)
    \/ \E seed \in Seeds : Import(seed)

ShopSpec == ShopInit /\ [][ShopNext]_shop
=============================================================================
