------------------------------ MODULE RowLocks ------------------------------
(***************************************************************************)
(* The row locks of PostgreSQL, as far as the store depends on them.  The   *)
(* server is not part of the repository: this module is external and is     *)
(* modelled from the statements the code sends.                             *)
(*                                                                          *)
(*   "update"  SELECT ... FOR UPDATE, DELETE, and the key of an INSERT      *)
(*   "nokey"   an UPDATE that changes no key column                         *)
(*   "share"   the FOR KEY SHARE a foreign key takes on the row it names    *)
(*                                                                          *)
(* A table of locks is a set of records [txn, row, mode].                   *)
(***************************************************************************)
EXTENDS Naturals

Tables == {"user", "cart", "item", "product"}
Modes == {"share", "nokey", "update"}

Row(table, user, product) == [table |-> table, user |-> user, product |-> product]
UserRow(u) == Row("user", u, 0)
CartRow(u) == Row("cart", u, 0)          \* carts.user_id is unique: one cart per user
ItemRow(u, p) == Row("item", u, p)       \* unique in cart_id, product_id
ProductRow(p) == Row("product", "", p)

\* The conflict table of PostgreSQL, restricted to the three modes in use.
Conflict(m, n) == "update" \in {m, n} \/ (m = "nokey" /\ n = "nokey")

\* The locks of other transactions that keep t from locking row in this mode.
Blockers(held, t, row, mode) ==
    {l \in held : l.txn # t /\ l.row = row /\ Conflict(l.mode, mode)}

Grantable(held, t, row, mode) == Blockers(held, t, row, mode) = {}
=============================================================================
