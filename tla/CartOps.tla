------------------------------ MODULE CartOps -------------------------------
(***************************************************************************)
(* /api/cart (backend/app/routers/cart.py).  A cart item is named by its    *)
(* user and product: the ids of two rows that replace each other are not    *)
(* told apart.                                                              *)
(*                                                                          *)
(*   add:    add -> find_cart [-> new_cart -> cart_owner] -> find_item      *)
(*               -> insert | update                                         *)
(*   set:    set -> set_cart -> set_product       remove: one statement     *)
(*   clear:  clear -> clear_rows                                            *)
(***************************************************************************)
EXTENDS Database

CartAsks(t) ==
    LET r == req[t] IN
    CASE pc[t] \in {"add", "set_product"} -> ProductAsk(r.product, "update")
      [] pc[t] = "new_cart" -> {<<CartRow(r.user), "update">>}
      [] pc[t] = "cart_owner" -> {<<UserRow(r.user), "share">>}
      [] pc[t] = "insert" -> {<<CartRow(r.user), "share">>}
      [] pc[t] = "update" -> {<<ItemRow(r.user, r.product), "nokey">>}
      [] pc[t] \in {"set", "remove"} -> {<<ItemRow(r.user, r.product), "update">>}
      [] pc[t] = "set_cart" -> {<<CartRow(r.user), "update">>}
      [] pc[t] = "clear_rows" -> {<<row, "update">> : row \in todo[t]}
      [] OTHER -> {}

-----------------------------------------------------------------------------
(* add_to_cart, which has locked the product by the time it reads the cart. *)

AddLockProduct(t) ==
    LET p == req[t].product IN
    /\ pc[t] = "add"
    /\ listed[p] /\ stock[p] > 0
    /\ Lock(t, ProductRow(p), "update")
    /\ orm' = [orm EXCEPT ![t].stock[p] = stock[p]]
    /\ Goto(t, "find_cart")
    /\ UNCHANGED todo

AddRefused(t) ==
    LET p == req[t].product IN
    /\ pc[t] = "add"
    /\ \/ ~listed[p] /\ Rollback(t, "not_found")
       \/ /\ listed[p] /\ stock[p] = 0
          /\ Free(t, ProductRow(p), "update")
          /\ Rollback(t, "no_stock")

\* _get_or_create_cart: an unlocked read, then an INSERT when it found nothing.
AddFindCart(t) ==
    /\ pc[t] = "find_cart"
    /\ Goto(t, IF req[t].user \in carts THEN "find_item" ELSE "new_cart")
    /\ UNCHANGED <<held, todo, orm>>

\* The unique key of carts.user_id: a second INSERT waits for the first and fails.
AddNewCart(t) ==
    LET u == req[t].user IN
    /\ pc[t] = "new_cart"
    /\ \/ /\ u \notin carts
          /\ Lock(t, CartRow(u), "update")
          /\ Goto(t, "cart_owner")
          /\ UNCHANGED <<todo, orm>>
       \/ /\ u \in carts
          /\ Free(t, CartRow(u), "update")
          /\ Rollback(t, "integrity_error")

\* The foreign key carts.user_id.
AddCartOwner(t) ==
    /\ pc[t] = "cart_owner"
    /\ Lock(t, UserRow(req[t].user), "share")
    /\ Goto(t, "find_item")
    /\ UNCHANGED <<todo, orm>>

AddFindItem(t) ==
    LET p == req[t].product
        seen == item[req[t].user][p]
    IN  /\ pc[t] = "find_item"
        /\ \/ seen + req[t].qty > orm[t].stock[p] /\ Rollback(t, "no_stock")
           \/ /\ seen + req[t].qty <= orm[t].stock[p]
              /\ orm' = [orm EXCEPT ![t].lines[p] = seen]
              /\ Goto(t, IF seen = 0 THEN "insert" ELSE "update")
              /\ UNCHANGED <<held, todo>>

PutItem(u, p, n) ==
    /\ item' = [item EXCEPT ![u][p] = n]
    /\ carts' = carts \cup {u}
    /\ UNCHANGED <<balance, active, price, stock, listed, orders, books>>

\* The INSERT takes FOR KEY SHARE on the cart (its foreign key) and commits.
AddInsert(t) ==
    LET u == req[t].user
        p == req[t].product
    IN  /\ pc[t] = "insert"
        /\ Free(t, CartRow(u), "share")
        /\ \/ item[u][p] > 0 /\ Rollback(t, "integrity_error")
           \/ item[u][p] = 0 /\ PutItem(u, p, req[t].qty) /\ End(t, "ok")

\* UPDATE ... WHERE id = ...: a row deleted since it was read is a StaleDataError.
AddUpdate(t) ==
    LET u == req[t].user
        p == req[t].product
    IN  /\ pc[t] = "update"
        /\ Free(t, ItemRow(u, p), "nokey")
        /\ \/ item[u][p] = 0 /\ Rollback(t, "stale_data")
           \/ item[u][p] > 0 /\ PutItem(u, p, orm[t].lines[p] + req[t].qty) /\ End(t, "ok")

-----------------------------------------------------------------------------
(* update_item: one SELECT over three tables FOR UPDATE, in FROM order.     *)

SetLockItem(t) ==
    LET row == ItemRow(req[t].user, req[t].product)
        there == item[req[t].user][req[t].product] > 0
    IN  /\ pc[t] = "set"
        /\ \/ there /\ Lock(t, row, "update") /\ Goto(t, "set_cart") /\ UNCHANGED <<todo, orm>>
           \/ ~there /\ Free(t, row, "update") /\ Rollback(t, "not_found")

SetLockCart(t) ==
    /\ pc[t] = "set_cart"
    /\ Lock(t, CartRow(req[t].user), "update")
    /\ Goto(t, "set_product")
    /\ UNCHANGED <<todo, orm>>

\* Wrong on purpose: the product is not locked.
SetQuantityUnlocked(t) ==
    LET p == req[t].product IN
    /\ pc[t] = "set_product"
    /\ \/ req[t].qty > stock[p] /\ Rollback(t, "no_stock")
       \/ req[t].qty <= stock[p] /\ PutItem(req[t].user, p, req[t].qty) /\ End(t, "ok")

\* The last lock, the comparison with the stock and the commit.
SetQuantity(t) ==
    LET p == req[t].product IN
    /\ pc[t] = "set_product"
    /\ Free(t, ProductRow(p), "update")
    /\ \/ req[t].qty > stock[p] /\ Rollback(t, "no_stock")
       \/ req[t].qty <= stock[p] /\ PutItem(req[t].user, p, req[t].qty) /\ End(t, "ok")

-----------------------------------------------------------------------------
(* delete_item and clear_cart: a DELETE without a lock on the cart.         *)

RemoveItem(t) ==
    LET u == req[t].user
        p == req[t].product
    IN  /\ pc[t] = "remove"
        /\ Free(t, ItemRow(u, p), "update")
        /\ item' = [item EXCEPT ![u][p] = 0]
        /\ End(t, "ok")
        /\ UNCHANGED <<balance, active, price, stock, listed, carts, orders, books>>

ClearList(t) ==
    LET u == req[t].user IN
    /\ pc[t] = "clear"
    /\ todo' = [todo EXCEPT ![t] = {ItemRow(u, p) : p \in {q \in Products : item[u][q] > 0}}]
    /\ Goto(t, "clear_rows")
    /\ UNCHANGED <<held, orm>>

\* Rows are deleted in the order the scan meets them, which is any order.
ClearRow(t) ==
    /\ pc[t] = "clear_rows"
    /\ \E p \in Products :
       LET row == ItemRow(req[t].user, p) IN
       /\ row \in todo[t]
       /\ todo' = [todo EXCEPT ![t] = @ \ {row}]
       /\ \/ item[req[t].user][p] > 0 /\ Lock(t, row, "update")
          \/ item[req[t].user][p] = 0 /\ Free(t, row, "update") /\ UNCHANGED held
    /\ UNCHANGED <<rows, books, pc, req, reply, orm>>

ClearCommit(t) ==
    LET u == req[t].user
        deleted == {p \in Products : \E l \in held : l.txn = t /\ l.row = ItemRow(u, p)}
    IN  /\ pc[t] = "clear_rows" /\ todo[t] = {}
        /\ item' = [item EXCEPT ![u] = [p \in Products |-> IF p \in deleted THEN 0 ELSE @[p]]]
        /\ End(t, "ok")
        /\ UNCHANGED <<balance, active, price, stock, listed, carts, orders, books>>

CartStep(t) ==
    \/ AddLockProduct(t) \/ AddRefused(t) \/ AddFindCart(t) \/ AddNewCart(t)
    \/ AddCartOwner(t) \/ AddFindItem(t) \/ AddInsert(t) \/ AddUpdate(t)
    \/ SetLockItem(t) \/ SetLockCart(t) \/ SetQuantity(t)
    \/ RemoveItem(t) \/ ClearList(t) \/ ClearRow(t) \/ ClearCommit(t)
=============================================================================
