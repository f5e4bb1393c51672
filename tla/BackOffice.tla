----------------------------- MODULE BackOffice -----------------------------
(***************************************************************************)
(* What the administrator does to wallets and products                      *)
(* (backend/app/routers/admin.py), the customer to his account              *)
(* (delete_profile in routers/profile.py), and a deployment to the products *)
(* while customers are served (import_products.py, render.yaml).            *)
(*                                                                          *)
(*   credit: credit -> credit_write        close: one step                  *)
(*   edit:   edit -> edit_write                                             *)
(*   drop:   drop -> drop_rows -> drop_delete -> drop_check                 *)
(*   import: import -> import_read -> import_rows                           *)
(***************************************************************************)
EXTENDS Database

\* The import has found no row of this product.
Missing(t, p) == orm[t].price[p] = 0

\* The flush: UPDATEs before INSERTs, each in the order of the ids.
ImportTurn(t, p) ==
    /\ ProductRow(p) \in todo[t]
    /\ \A q \in Products : ProductRow(q) \in todo[t] =>
          \/ Missing(t, q) /\ ~Missing(t, p)
          \/ (Missing(t, q) <=> Missing(t, p)) /\ p <= q

\* A row that will be gone if its deletion commits.
Leaving(p) == \E t \in Txns : pc[t] = "drop_check" /\ req[t].product = p

ImportAsks(t, p) ==
    CASE ~Missing(t, p) -> ProductAsk(p, "nokey")
      [] Missing(t, p) /\ listed[p] /\ ~Leaving(p) -> {}
      [] OTHER -> {<<ProductRow(p), "update">>}

\* Wrong on purpose: no RESTRICT.
ReferringNone(t) == {}
\* Items of other transactions that still name the product (ON DELETE RESTRICT).
Referring(t) ==
    LET p == req[t].product IN
    {row \in {ItemRow(u, p) : u \in {v \in Users : item[v][p] > 0}} :
        ~ \E l \in held : l.txn = t /\ l.row = row}

BackOfficeAsks(t) ==
    CASE pc[t] \in {"credit", "close"} -> {<<UserRow(req[t].user), "update">>}
      [] pc[t] = "edit_write" -> ProductAsk(req[t].product, "nokey")
      [] pc[t] = "drop_delete" -> ProductAsk(req[t].product, "update")
      [] pc[t] = "import_rows" ->
            UNION {ImportAsks(t, p) : p \in {q \in Products : ImportTurn(t, q)}}
      [] pc[t] = "drop_rows" -> {<<row, "update">> : row \in todo[t]}
      [] pc[t] = "drop_check" -> {<<row, "share">> : row \in Referring(t)}
      [] OTHER -> {}

-----------------------------------------------------------------------------
(* add_balance: the user is found by his name, locked, and written back.    *)

\* Wrong on purpose: SELECT without FOR UPDATE.
CreditLockUserNot(t) ==
    LET u == req[t].user IN
    /\ pc[t] = "credit"
    /\ orm' = [orm EXCEPT ![t].bal = balance[u]]
    /\ Goto(t, "credit_write")
    /\ UNCHANGED <<todo, held>>

CreditLockUser(t) ==
    LET u == req[t].user IN
    /\ pc[t] = "credit"
    /\ \/ /\ active[u]
          /\ Lock(t, UserRow(u), "update")
          /\ orm' = [orm EXCEPT ![t].bal = balance[u]]
          /\ Goto(t, "credit_write")
          /\ UNCHANGED todo
       \/ ~active[u] /\ Free(t, UserRow(u), "update") /\ Rollback(t, "not_found")

\* NUMERIC(12,2): a sum the column cannot hold is an error of the database.
CreditWrite(t) ==
    LET u == req[t].user
        sum == orm[t].bal + req[t].qty
    IN  /\ pc[t] = "credit_write"
        /\ \/ sum > MaxMoney /\ Rollback(t, "overflow")
           \/ /\ sum <= MaxMoney
              /\ balance' = [balance EXCEPT ![u] = sum]
              /\ funded' = [funded EXCEPT ![u] = @ + req[t].qty]
              /\ End(t, "ok")
              /\ UNCHANGED <<active, price, stock, listed, carts, item, orders, spent, stocked, sold>>

\* delete_profile disables the account; its rows stay.
CloseAccount(t) ==
    LET u == req[t].user IN
    /\ pc[t] = "close"
    /\ Free(t, UserRow(u), "update")
    /\ active' = [active EXCEPT ![u] = FALSE]
    /\ End(t, "ok")
    /\ UNCHANGED <<balance, price, stock, listed, carts, item, orders, books>>

-----------------------------------------------------------------------------
(* update_product reads without a lock and writes the columns that differ   *)
(* from what it read, as absolute values.                                   *)

EditRead(t) ==
    LET p == req[t].product IN
    /\ pc[t] = "edit"
    /\ \/ ~listed[p] /\ Rollback(t, "not_found")
       \/ /\ listed[p]
          /\ orm' = [orm EXCEPT ![t].stock[p] = stock[p], ![t].price[p] = price[p]]
          /\ Goto(t, "edit_write")
          /\ UNCHANGED <<held, todo>>

\* The value a column gets: it is written only if the field was sent and differs from
\* what was read.
Edited(field, read, now) == IF field \subseteq {read} THEN {now} ELSE field

EditWrite(t) ==
    LET p == req[t].product
        seen == orm[t]
        noChange == req[t].price \subseteq {seen.price[p]} /\ req[t].stock \subseteq {seen.stock[p]}
    IN  /\ pc[t] = "edit_write"
        /\ \/ noChange /\ Rollback(t, "ok")
           \/ ~noChange /\ ~listed[p] /\ Rollback(t, "stale_data")
           \/ /\ ~noChange
              /\ Free(t, ProductRow(p), "nokey")
              /\ listed[p]
              /\ \E x \in Edited(req[t].price, seen.price[p], price[p]),
                    y \in Edited(req[t].stock, seen.stock[p], stock[p]) :
                 /\ price' = [price EXCEPT ![p] = x]
                 /\ stock' = [stock EXCEPT ![p] = y]
                 /\ stocked' = [stocked EXCEPT ![p] = @ + y - stock[p]]
              /\ End(t, "ok")
              /\ UNCHANGED <<balance, active, listed, carts, item, orders, funded, spent, sold>>

-----------------------------------------------------------------------------
(* delete_product: the items that name the product, then the product.       *)

DropList(t) ==
    LET p == req[t].product IN
    /\ pc[t] = "drop"
    /\ todo' = [todo EXCEPT ![t] = {ItemRow(u, p) : u \in {v \in Users : item[v][p] > 0}}]
    /\ Goto(t, "drop_rows")
    /\ UNCHANGED <<held, orm>>

DropRow(t) ==
    /\ pc[t] = "drop_rows"
    /\ \E u \in Users :
       LET row == ItemRow(u, req[t].product) IN
       /\ row \in todo[t]
       /\ todo' = [todo EXCEPT ![t] = @ \ {row}]
       /\ \/ item[u][req[t].product] > 0 /\ Lock(t, row, "update")
          \/ item[u][req[t].product] = 0 /\ Free(t, row, "update") /\ UNCHANGED held
    /\ UNCHANGED <<rows, books, pc, req, reply, orm>>

\* db.get: an unlocked read; a 404 rolls the deleted items back.
DropGet(t) ==
    /\ pc[t] = "drop_rows" /\ todo[t] = {}
    /\ \/ ~listed[req[t].product] /\ Rollback(t, "not_found")
       \/ listed[req[t].product] /\ Goto(t, "drop_delete") /\ UNCHANGED <<held, todo, orm>>

\* Items of the product this transaction has deleted.
Deleted(t) == {u \in Users : \E l \in held : l.txn = t /\ l.row = ItemRow(u, req[t].product)}

DropItems(t) ==
    LET p == req[t].product IN
    item' = [u \in Users |-> IF u \in Deleted(t) THEN [item[u] EXCEPT ![p] = 0] ELSE item[u]]

\* A row that is gone meanwhile is only a warning of the ORM: the items' deletion commits.
DropDelete(t) ==
    LET p == req[t].product IN
    /\ pc[t] = "drop_delete"
    /\ \/ /\ listed[p]
          /\ Lock(t, ProductRow(p), "update")
          /\ Goto(t, "drop_check")
          /\ UNCHANGED <<todo, orm>>
       \/ /\ ~listed[p]
          /\ DropItems(t)
          /\ End(t, "ok")
          /\ UNCHANGED <<balance, active, price, stock, listed, carts, orders, books>>

\* The foreign keys of cart_items and order_items.
DropRefused(t) ==
    /\ pc[t] = "drop_check"
    /\ \/ \E row \in Referring(t) : Free(t, row, "share")
       \/ Referring(t) = {} /\ Ordered(req[t].product)
    /\ Rollback(t, "integrity_error")

DropCommit(t) ==
    /\ pc[t] = "drop_check"
    /\ Referring(t) = {} /\ ~Ordered(req[t].product)
    /\ listed' = [listed EXCEPT ![req[t].product] = FALSE]
    /\ DropItems(t)
    /\ End(t, "ok")
    /\ UNCHANGED <<balance, active, price, stock, carts, orders, books>>

-----------------------------------------------------------------------------
(* import_file: one transaction that reads every product of the seed, then  *)
(* writes the columns that differ and inserts the products it has not found.*)

Seed(t) == {p \in Products : req[t].price[p] > 0}

ImportOpen(t) ==
    /\ pc[t] = "import"
    /\ todo' = [todo EXCEPT ![t] = {ProductRow(p) : p \in Seed(t)}]
    /\ Goto(t, "import_read")
    /\ UNCHANGED <<held, orm>>

\* db.get, without a lock.
ImportRead(t) ==
    /\ pc[t] = "import_read"
    /\ \E p \in Products :
       /\ First(t, ProductRow(p))
       /\ todo' = [todo EXCEPT ![t] = @ \ {ProductRow(p)}]
       /\ \/ ~listed[p] /\ UNCHANGED orm
          \/ listed[p] /\ orm' = [orm EXCEPT ![t].stock[p] = stock[p], ![t].price[p] = price[p]]
    /\ UNCHANGED <<rows, books, pc, req, reply, held>>

Differs(t, p) == req[t].price[p] # orm[t].price[p] \/ req[t].stock[p] # orm[t].stock[p]

ImportFlush(t) ==
    /\ pc[t] = "import_read" /\ todo[t] = {}
    /\ todo' = [todo EXCEPT ![t] = {ProductRow(p) : p \in {q \in Seed(t) : Differs(t, q)}}]
    /\ Goto(t, "import_rows")
    /\ UNCHANGED <<held, orm>>

\* A row that is gone by the time of its UPDATE is noticed or not: rows that change in the
\* same columns are written by one call that counts none of them.
ImportRow(t) ==
    /\ pc[t] = "import_rows"
    /\ \E p \in Products :
       LET row == ProductRow(p) IN
       /\ ImportTurn(t, p)
       /\ todo' = [todo EXCEPT ![t] = @ \ {row}]
       /\ \/ ~Missing(t, p) /\ listed[p] /\ Lock(t, row, "nokey")
          \/ ~Missing(t, p) /\ ~listed[p] /\ UNCHANGED held
          \/ Missing(t, p) /\ ~listed[p] /\ Lock(t, row, "update")
    /\ UNCHANGED <<rows, books, pc, req, reply, orm>>

ImportRefused(t) ==
    /\ pc[t] = "import_rows"
    /\ \E p \in Products :
       /\ ImportTurn(t, p)
       /\ \/ ~Missing(t, p) /\ ~listed[p] /\ Rollback(t, "stale_data")
          \/ Missing(t, p) /\ listed[p] /\ ~Leaving(p) /\ Rollback(t, "integrity_error")

ImportCommit(t) ==
    LET seed == req[t]
        written == {p \in Seed(t) : \E l \in held : l.txn = t /\ l.row = ProductRow(p)}
        repriced == {p \in written : seed.price[p] # orm[t].price[p]}
        restocked == {p \in written : Missing(t, p) \/ seed.stock[p] # orm[t].stock[p]}
    IN  /\ pc[t] = "import_rows" /\ todo[t] = {}
        /\ price' = [p \in Products |-> IF p \in repriced THEN seed.price[p] ELSE price[p]]
        /\ stock' = [p \in Products |-> IF p \in restocked THEN seed.stock[p] ELSE stock[p]]
        /\ listed' = [p \in Products |-> listed[p] \/ p \in written]
        /\ stocked' = [p \in Products |-> stocked[p] + stock'[p] - stock[p]]
        /\ End(t, "ok")
        /\ UNCHANGED <<balance, active, carts, item, orders, funded, spent, sold>>

BackOfficeStep(t) ==
    \/ CreditLockUser(t) \/ CreditWrite(t) \/ CloseAccount(t)
    \/ EditRead(t) \/ EditWrite(t)
    \/ DropList(t) \/ DropRow(t) \/ DropGet(t) \/ DropDelete(t)
    \/ DropRefused(t) \/ DropCommit(t)
    \/ ImportOpen(t) \/ ImportRead(t) \/ ImportFlush(t)
    \/ ImportRow(t) \/ ImportRefused(t) \/ ImportCommit(t)
=============================================================================
