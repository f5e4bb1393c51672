------------------------------ MODULE Checkout ------------------------------
(***************************************************************************)
(* POST /api/checkout (backend/app/services/checkout.py): one transaction   *)
(* that locks the user, his cart, the cart's items and their products, in   *)
(* this order and by product id, then charges the wallet, takes the stock,  *)
(* records the order under the Idempotency-Key and empties the cart.        *)
(*                                                                          *)
(*   pc: checkout -> find_order -> cart -> items -> products -> price -> pay *)
(***************************************************************************)
EXTENDS Database

\* The locks a checkout may be waiting for, read off its next statement.
CheckoutAsks(t) ==
    CASE pc[t] = "checkout" -> {<<UserRow(req[t].user), "update">>}
      [] pc[t] = "cart" /\ req[t].user \in carts -> {<<CartRow(req[t].user), "update">>}
      [] pc[t] = "items" -> {<<row, "update">> : row \in {x \in todo[t] : First(t, x)}}
      [] pc[t] = "products" ->
            UNION {ProductAsk(p, "update") : p \in {q \in Products : First(t, ProductRow(q))}}
      [] OTHER -> {}

\* Wrong on purpose: SELECT without FOR UPDATE.
CheckoutLockUserNot(t) ==
    LET u == req[t].user IN
    /\ pc[t] = "checkout" /\ active[u]
    /\ orm' = [orm EXCEPT ![t].bal = balance[u]]
    /\ Goto(t, "find_order")
    /\ UNCHANGED <<held, todo>>

\* Wrong on purpose: is_active is not looked at again.
CheckoutLockUserClosed(t) ==
    LET u == req[t].user IN
    /\ pc[t] = "checkout"
    /\ Lock(t, UserRow(u), "update")
    /\ orm' = [orm EXCEPT ![t].bal = balance[u]]
    /\ Goto(t, "find_order")
    /\ UNCHANGED todo

CheckoutLockUser(t) ==
    LET u == req[t].user IN
    /\ pc[t] = "checkout"
    /\ Lock(t, UserRow(u), "update")
    /\ orm' = [orm EXCEPT ![t].bal = balance[u]]
    /\ active[u]
    /\ Goto(t, "find_order")
    /\ UNCHANGED todo

\* delete_profile came between require_user's read and the lock.
CheckoutInactive(t) ==
    /\ pc[t] = "checkout"
    /\ Free(t, UserRow(req[t].user), "update")
    /\ ~active[req[t].user]
    /\ Rollback(t, "unauthorized")

\* _existing_order: a key that was charged is answered with its order.
CheckoutReplay(t) ==
    /\ pc[t] = "find_order"
    /\ orders[req[t].user][req[t].key] # NoOrder
    /\ Rollback(t, "replay")

CheckoutNewOrder(t) ==
    /\ pc[t] = "find_order"
    /\ orders[req[t].user][req[t].key] = NoOrder
    /\ Goto(t, "cart")
    /\ UNCHANGED <<held, todo, orm>>

CheckoutNoCart(t) ==
    /\ pc[t] = "cart"
    /\ req[t].user \notin carts
    /\ Rollback(t, "empty")

\* Wrong on purpose: SELECT without FOR UPDATE.
CheckoutLockCartNot(t) ==
    /\ pc[t] = "cart" /\ req[t].user \in carts
    /\ Goto(t, "list_items")
    /\ UNCHANGED <<held, todo, orm>>

\* The lock on the cart row comes before the statement that lists its items.
CheckoutLockCart(t) ==
    LET u == req[t].user IN
    /\ pc[t] = "cart"
    /\ u \in carts
    /\ Lock(t, CartRow(u), "update")
    /\ Goto(t, "list_items")
    /\ UNCHANGED <<todo, orm>>

CheckoutListItems(t) ==
    LET u == req[t].user IN
    /\ pc[t] = "list_items"
    /\ todo' = [todo EXCEPT ![t] = {ItemRow(u, p) : p \in {q \in Products : item[u][q] > 0}}]
    /\ Goto(t, "items")
    /\ UNCHANGED <<held, orm>>

\* Wrong on purpose: SELECT without FOR UPDATE.
CheckoutLockItemNot(t) ==
    /\ pc[t] = "items"
    /\ \E p \in Products :
       LET row == ItemRow(req[t].user, p) IN
       /\ First(t, row)
       /\ todo' = [todo EXCEPT ![t] = @ \ {row}]
       /\ orm' = [orm EXCEPT ![t].lines[p] = item[req[t].user][p]]
    /\ UNCHANGED <<rows, books, pc, req, reply, held>>

\* A row deleted while the statement waited for it is not returned.
CheckoutLockItem(t) ==
    /\ pc[t] = "items"
    /\ \E p \in Products :
       LET row == ItemRow(req[t].user, p) IN
       /\ First(t, row)
       /\ todo' = [todo EXCEPT ![t] = @ \ {row}]
       /\ \/ /\ item[req[t].user][p] > 0
             /\ Lock(t, row, "update")
             /\ orm' = [orm EXCEPT ![t].lines[p] = item[req[t].user][p]]
          \/ item[req[t].user][p] = 0 /\ Free(t, row, "update") /\ UNCHANGED <<held, orm>>
    /\ UNCHANGED <<rows, books, pc, req, reply>>

CheckoutEmpty(t) ==
    /\ pc[t] = "items" /\ todo[t] = {}
    /\ orm[t].lines = None
    /\ Rollback(t, "empty")

CheckoutListProducts(t) ==
    /\ pc[t] = "items" /\ todo[t] = {}
    /\ orm[t].lines # None
    /\ todo' = [todo EXCEPT ![t] = {ProductRow(p) : p \in {q \in Products : orm[t].lines[q] > 0 /\ listed[q]}}]
    /\ Goto(t, "products")
    /\ UNCHANGED <<held, orm>>

CheckoutLockProduct(t) ==
    /\ pc[t] = "products"
    /\ \E p \in Products :
       LET row == ProductRow(p) IN
       /\ First(t, row)
       /\ todo' = [todo EXCEPT ![t] = @ \ {row}]
       /\ \/ /\ listed[p]
             /\ Lock(t, row, "update")
             /\ orm' = [orm EXCEPT ![t].stock[p] = stock[p], ![t].price[p] = price[p]]
          \/ ~listed[p] /\ UNCHANGED <<held, orm>>
    /\ UNCHANGED <<rows, books, pc, req, reply>>

CheckoutPrepare(t) ==
    /\ pc[t] = "products" /\ todo[t] = {}
    /\ todo' = [todo EXCEPT ![t] = {ItemRow(req[t].user, p) : p \in {q \in Products : orm[t].lines[q] > 0}}]
    /\ Goto(t, "prepare")
    /\ UNCHANGED <<held, orm>>

\* Wrong on purpose: the quantity is forgotten.
SubtotalOfOne(t, p) == orm[t].price[p]
Subtotal(t, p) == orm[t].price[p] * orm[t].lines[p]

\* One round of the loop over the items; a product that was not returned has no price.
CheckoutLine(t) ==
    /\ pc[t] = "prepare"
    /\ \E p \in Products :
       LET row == ItemRow(req[t].user, p)
           qty == orm[t].lines[p]
       IN  /\ First(t, row)
           /\ \/ orm[t].price[p] = 0 /\ Rollback(t, "gone")
              \/ orm[t].price[p] > 0 /\ qty > orm[t].stock[p] /\ Rollback(t, "no_stock")
              \/ /\ orm[t].price[p] > 0 /\ qty <= orm[t].stock[p]
                 /\ orm' = [orm EXCEPT ![t].total = @ + Subtotal(t, p)]
                 /\ todo' = [todo EXCEPT ![t] = @ \ {row}]
                 /\ UNCHANGED <<rows, books, pc, req, reply, held>>

\* Wrong on purpose: the comparison with the wallet is dropped.
EnoughAlways(t) == TRUE
Enough(t) == orm[t].bal >= orm[t].total

CheckoutNoFunds(t) ==
    /\ pc[t] = "prepare" /\ todo[t] = {}
    /\ ~Enough(t)
    /\ Rollback(t, "no_funds")

\* Wrong on purpose: total and remaining_balance are swapped.
NewOrderSwapped(t) == [total |-> orm[t].bal - orm[t].total, lines |-> orm[t].lines]
NewOrder(t) == [total |-> orm[t].total, lines |-> orm[t].lines]

\* The flushes and the commit.  UPDATEs write the values computed from the copies;
\* DELETE ... WHERE cart_id takes every item of the cart.
CheckoutCommit(t) ==
    LET u == req[t].user
        lines == orm[t].lines
    IN  /\ balance' = [balance EXCEPT ![u] = orm[t].bal - orm[t].total]
        /\ stock' = [p \in Products |-> IF lines[p] > 0 THEN orm[t].stock[p] - lines[p] ELSE stock[p]]
        /\ orders' = [orders EXCEPT ![u][req[t].key] = NewOrder(t)]
        /\ item' = [item EXCEPT ![u] = None]
        /\ spent' = [spent EXCEPT ![u] = @ + orm[t].total]
        /\ sold' = [p \in Products |-> sold[p] + lines[p]]
        /\ UNCHANGED <<active, price, listed, carts, funded, stocked>>

\* orders_user_idempotency_key refuses an order whose key another transaction committed.
CheckoutPay(t) ==
    /\ pc[t] = "prepare" /\ todo[t] = {}
    /\ Enough(t)
    /\ \/ orders[req[t].user][req[t].key] # NoOrder /\ Rollback(t, "integrity_error")
       \/ /\ orders[req[t].user][req[t].key] = NoOrder
          /\ CheckoutCommit(t)
          /\ End(t, "ok")

CheckoutStep(t) ==
    \/ CheckoutLockUser(t) \/ CheckoutInactive(t)
    \/ CheckoutReplay(t) \/ CheckoutNewOrder(t)
    \/ CheckoutNoCart(t) \/ CheckoutLockCart(t)
    \/ CheckoutListItems(t) \/ CheckoutLockItem(t) \/ CheckoutEmpty(t)
    \/ CheckoutListProducts(t) \/ CheckoutLockProduct(t)
    \/ CheckoutPrepare(t) \/ CheckoutLine(t)
    \/ CheckoutNoFunds(t) \/ CheckoutPay(t)
=============================================================================
