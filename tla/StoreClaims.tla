----------------------------- MODULE StoreClaims -----------------------------
(***************************************************************************)
(* What a request may rely on between its statements, handler by handler,   *)
(* and what follows: no reference to a product that is gone, no checkout    *)
(* that finds one gone, books that agree with the orders, what single steps *)
(* may do, that the store implements the shop, and that nobody waits in a   *)
(* circle.                                                                  *)
(*                                                                          *)
(* The argument goes on from StoreProofs: with the cart's row locked nobody *)
(* inserts an item, with an item's row locked nobody changes it, with a     *)
(* product's row locked nobody sells, edits, puts or drops it; so a handler *)
(* still knows at its commit what it has read under these locks.            *)
(* Those that take several rows take them in one order.                     *)
(***************************************************************************)
EXTENDS StoreProofs, Sums

ImportLabels == {"import", "import_read", "import_rows"}
CartRead == {"items", "products", "prepare"}

\* The labels of the handler that serves an operation.
Serves(op, label) ==
    \/ op = "none" /\ label = "idle"
    \/ op = "checkout" /\ label \in CheckoutLabels
    \/ op = "add" /\ label \in AddLabels
    \/ op = "set" /\ label \in SetLabels
    \/ op = "remove" /\ label = "remove"
    \/ op = "clear" /\ label \in {"clear", "clear_rows"}
    \/ op = "close" /\ label = "close"
    \/ op = "credit" /\ label \in {"credit", "credit_write"}
    \/ op = "edit" /\ label \in {"edit", "edit_write"}
    \/ op = "drop" /\ label \in DropLabels
    \/ op = "import" /\ label \in ImportLabels

StageOK(t) ==
    /\ req[t] \in Requests \cup {NoRequest}
    /\ pc[t] # "done" => Serves(req[t].op, pc[t])

\* The lines a checkout has read are those of the cart; the rest of the rows it listed are
\* still to be locked, and no row can be inserted.
CartOK(t) ==
    LET u == req[t].user IN
    /\ pc[t] \in CartRead \cup {"list_items"} => LockOf(t, CartRow(u)) \in held
    /\ pc[t] \in CheckoutLabels \ CartRead => orm[t].lines = None
    /\ pc[t] \in {"products", "prepare"} => orm[t].lines # None
    /\ pc[t] \in CartRead =>
          \A p \in Products :
             IF pc[t] = "items" /\ ItemRow(u, p) \in todo[t]
             THEN orm[t].lines[p] = 0
             ELSE /\ orm[t].lines[p] = item[u][p]
                  /\ orm[t].lines[p] > 0 => LockOf(t, ItemRow(u, p)) \in held

\* The prices a checkout has read are current, and at the end it has all of them.
PricesOK(t) ==
    /\ pc[t] \in CheckoutLabels =>
          \A p \in Products : orm[t].price[p] > 0 => orm[t].price[p] = price[p]
    /\ pc[t] = "products" =>
          \A p \in Products : orm[t].lines[p] > 0 => orm[t].price[p] > 0 \/ ProductRow(p) \in todo[t]
    /\ pc[t] = "prepare" =>
          \A p \in Products : orm[t].lines[p] > 0 => orm[t].price[p] > 0

\* The subtotals of the lines the loop has passed.
Passed(t) ==
    [p \in Products |->
        IF ItemRow(req[t].user, p) \in todo[t] THEN 0 ELSE orm[t].price[p] * orm[t].lines[p]]

BillOK(t) ==
    /\ pc[t] \in CheckoutLabels \ {"prepare"} => orm[t].total = 0
    /\ pc[t] = "prepare" =>
          /\ orm[t].total = SumFunction(Passed(t))
          /\ \A p \in Products : ItemRow(req[t].user, p) \in todo[t] => orm[t].lines[p] > 0

\* An addition has the product's row, and the item is what it read or is gone.
AddOK(t) ==
    LET u == req[t].user
        p == req[t].product
    IN  /\ pc[t] \in AddLabels => req[t].qty > 0
        /\ pc[t] \in AddLabels \ {"add"} =>
              LockOf(t, ProductRow(p)) \in held /\ listed[p] /\ orm[t].stock[p] = stock[p]
        /\ pc[t] = "insert" => req[t].qty <= stock[p]
        /\ pc[t] = "update" =>
              orm[t].lines[p] + req[t].qty <= stock[p] /\ item[u][p] \in {0, orm[t].lines[p]}

SetOK(t) ==
    LET u == req[t].user
        p == req[t].product
    IN  /\ pc[t] \in SetLabels => req[t].qty > 0
        /\ pc[t] \in {"set_cart", "set_product"} => LockOf(t, ItemRow(u, p)) \in held /\ item[u][p] > 0
        /\ pc[t] = "set_product" => LockOf(t, CartRow(u)) \in held

BackOfficeOK(t) ==
    /\ pc[t] \in {"credit", "credit_write"} => req[t].qty > 0
    /\ pc[t] = "credit_write" => active[req[t].user]
    /\ pc[t] = "drop_check" => LockOf(t, ProductRow(req[t].product)) \in held
    /\ pc[t] \in {"idle", "import", "import_read"} => \A l \in held : l.txn # t
    /\ pc[t] = "import_rows" =>
          \A l \in held, p \in Products : l.txn = t /\ l.row = ProductRow(p) => Missing(t, p) \/ listed[p]

ClaimsOK(t) ==
    /\ StageOK(t) /\ CartOK(t) /\ PricesOK(t) /\ BillOK(t)
    /\ AddOK(t) /\ SetOK(t) /\ BackOfficeOK(t)

JInv ==
    /\ NoDanglingReference /\ NoProductGone /\ LedgerMatchesOrders
    /\ \A t \in Txns : ClaimsOK(t)

-----------------------------------------------------------------------------
(* A step of t seen from another transaction s *)

\* The request of s, its copies and its locks are what they were.
Apart(s) == Same(s) /\ \A l \in held' : l.txn = s => l \in held

\* What s has locked is as it was; nothing is put into a cart, and only taken out of items
\* of a product, that it has locked.
Leaves(s) ==
    /\ \A u \in Users, p \in Products :
          LockOf(s, ItemRow(u, p)) \in held /\ item[u][p] > 0 => item'[u][p] = item[u][p]
    /\ \A u \in Users, p \in Products :
          LockOf(s, CartRow(u)) \in held /\ item[u][p] = 0 => item'[u][p] = 0
    /\ \A p \in Products : LockOf(s, ProductRow(p)) \in held =>
          price'[p] = price[p] /\ stock'[p] = stock[p] /\ \A u \in Users : item'[u][p] \in {0, item[u][p]}
    /\ \A u \in Users : LockOf(s, UserRow(u)) \in held => active'[u] = active[u]
    /\ \A l \in held, p \in Products : l.txn = s /\ l.row = ProductRow(p) /\ listed[p] => listed'[p]

\* A request may go on relying on its claims when others leave what it has locked.
LEMMA OthersClaim ==
    ASSUME IInv, NEW s \in Txns, ClaimsOK(s), Apart(s), Leaves(s)
    PROVE  ClaimsOK(s)'
<1>1. /\ pc'[s] = pc[s] /\ req'[s] = req[s] /\ todo'[s] = todo[s] /\ orm'[s] = orm[s]
      /\ \A row : LockOf(s, row) \in held => LockOf(s, row) \in held'
      /\ \A l \in held' : l.txn = s => l \in held
    BY DEF Apart, Same, LockOf
<1>2. StageOK(s)'
    BY <1>1 DEF ClaimsOK, StageOK
<1>3. CartOK(s)'
    <2>1. CASE pc[s] \in CartRead
        <3>1. pc[s] \in CheckoutLabels /\ req[s].user \in Users
            BY <2>1 DEF CartRead, CheckoutLabels, IInv, TxnOK, RequestOK
        <3>2. LockOf(s, CartRow(req[s].user)) \in held
            BY <2>1 DEF ClaimsOK, CartOK
        <3> QED
            BY <1>1, <2>1, <3>1, <3>2 DEF ClaimsOK, CartOK, Leaves, IInv, TypeOK, TxnTypes, RowTypes,
                                          Copies, Counts
    <2>2. CASE pc[s] \notin CartRead
        BY <1>1, <2>2 DEF ClaimsOK, CartOK
    <2> QED
        BY <2>1, <2>2
<1>4. PricesOK(s)'
    <2>1. ASSUME NEW p \in Products, pc[s] \in CheckoutLabels, orm[s].price[p] > 0
          PROVE  orm[s].price[p] = price'[p]
        BY <2>1 DEF ClaimsOK, PricesOK, Leaves, IInv, TxnOK, ProductsOK
    <2> QED
        BY <1>1, <2>1 DEF ClaimsOK, PricesOK
<1>5. BillOK(s)'
    BY <1>1 DEF ClaimsOK, BillOK, Passed
<1>6. AddOK(s)'
    <2>1. CASE pc[s] \in AddLabels \ {"add"}
        <3>1. req[s].user \in Users /\ req[s].product \in Products
            BY <2>1 DEF AddLabels, IInv, TxnOK, RequestOK
        <3>2. LockOf(s, ProductRow(req[s].product)) \in held
            BY <2>1 DEF ClaimsOK, AddOK
        <3>3. LockOf(s, ProductRow(req[s].product)).txn = s
                  /\ LockOf(s, ProductRow(req[s].product)).row = ProductRow(req[s].product)
            BY DEF LockOf
        <3>4. listed[req[s].product] => listed'[req[s].product]
            BY <3>1, <3>2, <3>3 DEF Leaves
        <3>5. /\ stock'[req[s].product] = stock[req[s].product]
              /\ item'[req[s].user][req[s].product] \in {0, item[req[s].user][req[s].product]}
            BY <3>1, <3>2 DEF Leaves
        <3> QED
            BY <1>1, <2>1, <3>2, <3>4, <3>5 DEF ClaimsOK, AddOK
    <2>2. CASE pc[s] \notin AddLabels \ {"add"}
        BY <1>1, <2>2 DEF ClaimsOK, AddOK, AddLabels
    <2> QED
        BY <2>1, <2>2
<1>7. SetOK(s)'
    BY <1>1 DEF ClaimsOK, SetOK, SetLabels, Leaves, IInv, TxnOK, RequestOK
<1>8. BackOfficeOK(s)'
    <2>1. pc[s] = "credit_write" => LockOf(s, UserRow(req[s].user)) \in held /\ req[s].user \in Users
        BY DEF IInv, TxnOK, UserOK, RequestOK
    <2>2. pc[s] = "credit_write" => active'[req[s].user]
        BY <2>1 DEF ClaimsOK, BackOfficeOK, Leaves
    <2>3. ASSUME pc[s] = "import_rows", NEW l \in held', NEW p \in Products, l.txn = s,
                 l.row = ProductRow(p)
          PROVE  Missing(s, p)' \/ listed'[p]
        BY <1>1, <2>3 DEF ClaimsOK, BackOfficeOK, Leaves, Missing
    <2> QED
        BY <1>1, <2>2, <2>3 DEF ClaimsOK, BackOfficeOK
<1> QED
    BY <1>2, <1>3, <1>4, <1>5, <1>6, <1>7, <1>8 DEF ClaimsOK

-----------------------------------------------------------------------------
(* Every step of t leaves the other requests apart. *)

\* The end of a request concerns no other.
LEMMA EndApart ==
    ASSUME TxnTypes, NEW t \in Txns, NEW answer, End(t, answer)
    PROVE  \A s \in Txns \ {t} : Apart(s)
BY DEF End, Apart, Same, TxnTypes

\* A step that goes on, perhaps with a lock more, concerns no other.
LEMMA GoApart ==
    ASSUME TxnTypes, NEW t \in Txns, UNCHANGED req,
           \A s \in Txns \ {t} : pc'[s] = pc[s] /\ todo'[s] = todo[s] /\ orm'[s] = orm[s],
           held' = held \/ \E row, mode : Lock(t, row, mode)
    PROVE  \A s \in Txns \ {t} : Apart(s)
BY DEF Lock, Apart, Same, TxnTypes

\* A checkout does not touch the requests beside it.
LEMMA CheckoutApart ==
    ASSUME TxnTypes, NEW t \in Txns, CheckoutStep(t)
    PROVE  \A s \in Txns \ {t} : Apart(s)
<1> USE DEF Goto, TxnTypes
<1>1. CASE CheckoutLockUser(t) \/ CheckoutNewOrder(t) \/ CheckoutLockCart(t) \/ CheckoutListItems(t)
    BY <1>1, GoApart DEF CheckoutLockUser, CheckoutNewOrder, CheckoutLockCart, CheckoutListItems
<1>2. CASE CheckoutListProducts(t) \/ CheckoutPrepare(t)
    BY <1>2, GoApart DEF CheckoutListProducts, CheckoutPrepare
<1>3. CASE CheckoutLockItem(t)
    BY <1>3, GoApart DEF CheckoutLockItem
<1>4. CASE CheckoutLockProduct(t)
    BY <1>4, GoApart DEF CheckoutLockProduct
<1>5. CASE CheckoutLine(t)
    BY <1>5, GoApart, EndApart DEF CheckoutLine, Rollback
<1>6. CASE \/ CheckoutInactive(t) \/ CheckoutReplay(t) \/ CheckoutNoCart(t) \/ CheckoutEmpty(t)
           \/ CheckoutNoFunds(t) \/ CheckoutPay(t)
    BY <1>6, EndApart DEF CheckoutInactive, CheckoutReplay, CheckoutNoCart, CheckoutEmpty,
                          CheckoutNoFunds, CheckoutPay, Rollback
<1> QED
    BY <1>1, <1>2, <1>3, <1>4, <1>5, <1>6 DEF CheckoutStep

\* Nor does a request about the cart.
LEMMA CartApart ==
    ASSUME TxnTypes, NEW t \in Txns, CartStep(t)
    PROVE  \A s \in Txns \ {t} : Apart(s)
<1> USE DEF Goto, TxnTypes, Rollback
<1>1. CASE AddLockProduct(t) \/ AddRefused(t) \/ AddFindCart(t) \/ AddNewCart(t) \/ AddCartOwner(t)
    BY <1>1, GoApart, EndApart DEF AddLockProduct, AddRefused, AddFindCart, AddNewCart, AddCartOwner
<1>2. CASE AddFindItem(t) \/ AddInsert(t) \/ AddUpdate(t)
    BY <1>2, GoApart, EndApart DEF AddFindItem, AddInsert, AddUpdate
<1>3. CASE SetLockItem(t) \/ SetLockCart(t) \/ SetQuantity(t)
    BY <1>3, GoApart, EndApart DEF SetLockItem, SetLockCart, SetQuantity
<1>4. CASE RemoveItem(t) \/ ClearCommit(t)
    BY <1>4, EndApart DEF RemoveItem, ClearCommit
<1>5. CASE ClearList(t)
    BY <1>5, GoApart DEF ClearList
<1>6. CASE ClearRow(t)
    BY <1>6, GoApart DEF ClearRow
<1> QED
    BY <1>1, <1>2, <1>3, <1>4, <1>5, <1>6 DEF CartStep

\* Nor does the back office.
LEMMA BackOfficeApart ==
    ASSUME TxnTypes, NEW t \in Txns, BackOfficeStep(t)
    PROVE  \A s \in Txns \ {t} : Apart(s)
<1> USE DEF Goto, TxnTypes, Rollback
<1>1. CASE CreditLockUser(t) \/ CreditWrite(t) \/ CloseAccount(t)
    BY <1>1, GoApart, EndApart DEF CreditLockUser, CreditWrite, CloseAccount
<1>2. CASE EditRead(t) \/ EditWrite(t)
    BY <1>2, GoApart, EndApart DEF EditRead, EditWrite
<1>3. CASE DropList(t) \/ DropGet(t) \/ DropDelete(t) \/ DropRefused(t) \/ DropCommit(t)
    BY <1>3, GoApart, EndApart DEF DropList, DropGet, DropDelete, DropRefused, DropCommit
<1>4. CASE DropRow(t)
    BY <1>4, GoApart DEF DropRow
<1>5. CASE ImportOpen(t) \/ ImportFlush(t)
    BY <1>5, GoApart DEF ImportOpen, ImportFlush
<1>6. CASE ImportRead(t)
    BY <1>6, GoApart DEF ImportRead
<1>7. CASE ImportRow(t)
    BY <1>7, GoApart DEF ImportRow
<1>8. CASE ImportRefused(t) \/ ImportCommit(t)
    BY <1>8, EndApart DEF ImportRefused, ImportCommit
<1> QED
    BY <1>1, <1>2, <1>3, <1>4, <1>5, <1>6, <1>7, <1>8 DEF BackOfficeStep

-----------------------------------------------------------------------------
(* The three kinds of steps *)

\* A request that has been answered makes no claim.
LEMMA DoneClaims ==
    ASSUME NEW t \in Txns, ClaimsOK(t), pc'[t] = "done", req'[t] = req[t]
    PROVE  ClaimsOK(t)'
BY DEF ClaimsOK, StageOK, CartOK, PricesOK, BillOK, AddOK, SetOK, BackOfficeOK, CheckoutLabels,
       CartRead, AddLabels, SetLabels

\* A step that only reads and locks breaks no claim of the others.
LEMMA MoveClaims ==
    ASSUME IInv, JInv, NEW t \in Txns, UNCHANGED <<rows, books, reply>>,
           \A s \in Txns \ {t} : Apart(s), ClaimsOK(t)'
    PROVE  JInv'
<1>1. NoDanglingReference' /\ NoProductGone' /\ LedgerMatchesOrders'
    BY DEF JInv, NoDanglingReference, NoProductGone, LedgerMatchesOrders, Ordered, rows, books
<1>2. \A s \in Txns \ {t} : Leaves(s)
    BY DEF Leaves, rows
<1>3. \A s \in Txns \ {t} : ClaimsOK(s)'
    BY <1>2, OthersClaim DEF JInv
<1> QED
    BY <1>1, <1>3 DEF JInv

\* A commit breaks no claim when it leaves what others have locked.
LEMMA EndClaims ==
    ASSUME IInv, JInv, NEW t \in Txns, NEW answer, End(t, answer), answer # "gone",
           \A s \in Txns \ {t} : Leaves(s), NoDanglingReference', LedgerMatchesOrders'
    PROVE  JInv'
<1>1. pc'[t] = "done" /\ req'[t] = req[t]
    BY DEF End, IInv, TypeOK, TxnTypes
<1>2. ClaimsOK(t)'
    BY <1>1, DoneClaims DEF JInv
<1>3. NoProductGone'
    BY DEF End, JInv, NoProductGone, IInv, TypeOK, TxnTypes
<1>4. \A s \in Txns \ {t} : Apart(s)
    BY EndApart DEF IInv, TypeOK
<1>5. \A s \in Txns \ {t} : ClaimsOK(s)'
    BY <1>4, OthersClaim DEF JInv
<1> QED
    BY <1>2, <1>3, <1>5 DEF JInv

\* A rollback breaks no claim.
LEMMA RollbackClaims ==
    ASSUME IInv, JInv, NEW t \in Txns, NEW answer, Rollback(t, answer), answer # "gone"
    PROVE  JInv'
<1>1. UNCHANGED <<rows, books>> /\ End(t, answer)
    BY DEF Rollback
<1>2. NoDanglingReference' /\ LedgerMatchesOrders'
    BY <1>1 DEF JInv, NoDanglingReference, LedgerMatchesOrders, Ordered, rows, books
<1>3. \A s \in Txns \ {t} : Leaves(s)
    BY <1>1 DEF Leaves, rows
<1> QED
    BY <1>1, <1>2, <1>3, EndClaims

-----------------------------------------------------------------------------
(* A checkout: it reads and locks *)

\* Different rows have different names.
LEMMA RowsApart ==
    ASSUME NEW u, NEW p, NEW q
    PROVE  /\ ItemRow(u, p) = ItemRow(u, q) <=> p = q
           /\ ProductRow(p) = ProductRow(q) <=> p = q
           /\ ItemRow(u, p) # CartRow(u) /\ ItemRow(u, p) # ProductRow(q)
BY DEF ItemRow, ProductRow, CartRow, Row

\* The claims of other handlers do not concern a checkout.
LEMMA CheckoutMoves ==
    ASSUME IInv, JInv, NEW t \in Txns, CheckoutStep(t), UNCHANGED <<rows, books, reply>>,
           pc[t] \in CheckoutLabels, pc'[t] \in CheckoutLabels, req'[t] = req[t],
           CartOK(t)', PricesOK(t)', BillOK(t)'
    PROVE  JInv'
<1>1. req[t].op = "checkout"
    BY DEF JInv, ClaimsOK, StageOK, Serves, CheckoutLabels, AddLabels, SetLabels, DropLabels, ImportLabels
<1>2. StageOK(t)'
    BY <1>1 DEF JInv, ClaimsOK, StageOK, Serves
<1>3. AddOK(t)' /\ SetOK(t)' /\ BackOfficeOK(t)'
    BY DEF AddOK, SetOK, BackOfficeOK, CheckoutLabels, AddLabels, SetLabels
<1>4. ClaimsOK(t)'
    BY <1>2, <1>3 DEF ClaimsOK
<1>5. \A s \in Txns \ {t} : Apart(s)
    BY CheckoutApart DEF IInv, TypeOK
<1> QED
    BY <1>4, <1>5, MoveClaims

\* The first statements, up to the lock on the cart.
LEMMA CheckoutBegins ==
    ASSUME IInv, JInv, NEW t \in Txns,
           CheckoutLockUser(t) \/ CheckoutNewOrder(t) \/ CheckoutLockCart(t)
    PROVE  JInv'
<1>1. CheckoutStep(t)
    BY DEF CheckoutStep
<1>2. /\ pc[t] \in {"checkout", "find_order", "cart"} /\ pc'[t] \in {"find_order", "cart", "list_items"}
      /\ UNCHANGED <<rows, books, reply>> /\ req'[t] = req[t]
    BY DEF CheckoutLockUser, CheckoutNewOrder, CheckoutLockCart, Goto, IInv, TypeOK, TxnTypes
<1>3. orm'[t].lines = orm[t].lines /\ orm'[t].price = orm[t].price /\ orm'[t].total = orm[t].total
    BY DEF CheckoutLockUser, CheckoutNewOrder, CheckoutLockCart, IInv, TypeOK, TxnTypes, Copies
<1>4. pc'[t] = "list_items" => LockOf(t, CartRow(req[t].user)) \in held'
    BY DEF CheckoutLockUser, CheckoutNewOrder, CheckoutLockCart, Goto, IInv, TypeOK, TxnTypes, Lock, LockOf
<1>5. CartOK(t)'
    BY <1>2, <1>3, <1>4 DEF JInv, ClaimsOK, CartOK, CartRead, CheckoutLabels
<1>6. PricesOK(t)'
    BY <1>2, <1>3 DEF JInv, ClaimsOK, PricesOK, CheckoutLabels, rows
<1>7. BillOK(t)'
    BY <1>2, <1>3 DEF JInv, ClaimsOK, BillOK, CheckoutLabels
<1> QED
    BY <1>1, <1>2, <1>5, <1>6, <1>7, CheckoutMoves DEF CheckoutLabels

\* With the cart locked the items that are listed are all there will be.
LEMMA CheckoutListsItems ==
    ASSUME IInv, JInv, NEW t \in Txns, CheckoutListItems(t)
    PROVE  JInv'
<1> DEFINE u == req[t].user
<1>1. CheckoutStep(t)
    BY DEF CheckoutStep
<1>2. /\ pc[t] = "list_items" /\ pc'[t] = "items" /\ UNCHANGED <<rows, books, reply, orm, held>>
      /\ req'[t] = req[t]
      /\ todo'[t] = {ItemRow(u, p) : p \in {q \in Products : item[u][q] > 0}}
    BY DEF CheckoutListItems, Goto, IInv, TypeOK, TxnTypes
<1>3. u \in Users /\ orm[t].lines = None /\ LockOf(t, CartRow(u)) \in held
    BY <1>2 DEF IInv, TxnOK, RequestOK, JInv, ClaimsOK, CartOK, CheckoutLabels, CartRead
<1>4. ASSUME NEW p \in Products
      PROVE  /\ orm[t].lines[p] = 0
             /\ ItemRow(u, p) \notin todo'[t] => item[u][p] = 0
    BY <1>2, <1>3 DEF None, IInv, TypeOK, RowTypes, Counts
<1>5. CartOK(t)'
    BY <1>2, <1>3, <1>4 DEF CartOK, CartRead, CheckoutLabels, rows
<1>6. PricesOK(t)'
    BY <1>2 DEF JInv, ClaimsOK, PricesOK, CheckoutLabels, rows
<1>7. BillOK(t)'
    BY <1>2 DEF JInv, ClaimsOK, BillOK, CheckoutLabels
<1> QED
    BY <1>1, <1>2, <1>5, <1>6, <1>7, CheckoutMoves DEF CheckoutLabels

\* An item that is locked is a line from now on.
LEMMA CheckoutLocksItem ==
    ASSUME IInv, JInv, NEW t \in Txns, CheckoutLockItem(t)
    PROVE  JInv'
<1> DEFINE u == req[t].user
<1>1. CheckoutStep(t)
    BY DEF CheckoutStep
<1>2. pc[t] = "items" /\ UNCHANGED <<rows, books, pc, req, reply>>
    BY DEF CheckoutLockItem
<1>3. PICK p \in Products :
          /\ ItemRow(u, p) \in todo[t]
          /\ todo' = [todo EXCEPT ![t] = @ \ {ItemRow(u, p)}]
          /\ \/ /\ Lock(t, ItemRow(u, p), "update")
                /\ orm' = [orm EXCEPT ![t].lines[p] = item[u][p]]
             \/ item[u][p] = 0 /\ UNCHANGED <<held, orm>>
    BY DEF CheckoutLockItem, First
<1>4. /\ u \in Users /\ LockOf(t, CartRow(u)) \in held /\ orm[t] \in Copies
      /\ todo'[t] = todo[t] \ {ItemRow(u, p)} /\ held \subseteq held'
    BY <1>2, <1>3 DEF IInv, TypeOK, TxnTypes, TxnOK, RequestOK, JInv, ClaimsOK, CartOK, CheckoutLabels,
                      CartRead, Lock
<1>5. /\ orm'[t].price = orm[t].price /\ orm'[t].total = orm[t].total
      /\ orm'[t].lines[p] = item[u][p] /\ (item[u][p] > 0 => LockOf(t, ItemRow(u, p)) \in held')
      /\ \A q \in Products \ {p} : orm'[t].lines[q] = orm[t].lines[q]
    <2>1. CASE Lock(t, ItemRow(u, p), "update") /\ orm' = [orm EXCEPT ![t].lines[p] = item[u][p]]
        BY <2>1, <1>4 DEF Lock, LockOf, IInv, TypeOK, TxnTypes, Copies, Counts
    <2>2. CASE item[u][p] = 0 /\ UNCHANGED <<held, orm>>
        <3>1. orm[t].lines[p] = 0
            BY <1>2, <1>3 DEF JInv, ClaimsOK, CartOK, CartRead
        <3> QED
            BY <2>2, <3>1
    <2> QED
        BY <1>3, <2>1, <2>2
<1>6. CartOK(t)'
    <2>1. ASSUME NEW q \in Products
          PROVE  IF ItemRow(u, q) \in todo'[t] THEN orm'[t].lines[q] = 0
                 ELSE /\ orm'[t].lines[q] = item[u][q]
                      /\ orm'[t].lines[q] > 0 => LockOf(t, ItemRow(u, q)) \in held'
        <3>1. CASE q = p
            BY <3>1, <1>4, <1>5
        <3>2. CASE q # p
            BY <3>2, <1>2, <1>4, <1>5, RowsApart DEF JInv, ClaimsOK, CartOK, CartRead
        <3> QED
            BY <3>1, <3>2
    <2> QED
        BY <1>2, <1>4, <2>1 DEF CartOK, CartRead, rows
<1>7. PricesOK(t)'
    BY <1>2, <1>5 DEF JInv, ClaimsOK, PricesOK, CheckoutLabels, rows
<1>8. BillOK(t)'
    BY <1>2, <1>5 DEF JInv, ClaimsOK, BillOK, CheckoutLabels
<1> QED
    BY <1>1, <1>2, <1>6, <1>7, <1>8, CheckoutMoves DEF CheckoutLabels

\* Every line's product is still to be locked, and there.
LEMMA CheckoutListsProducts ==
    ASSUME IInv, JInv, NEW t \in Txns, CheckoutListProducts(t)
    PROVE  JInv'
<1> DEFINE u == req[t].user
<1>1. CheckoutStep(t)
    BY DEF CheckoutStep
<1>2. /\ pc[t] = "items" /\ todo[t] = {} /\ orm[t].lines # None
      /\ pc'[t] = "products" /\ UNCHANGED <<rows, books, reply, orm, held>>
      /\ req'[t] = req[t]
      /\ todo'[t] = {ProductRow(p) : p \in {q \in Products : orm[t].lines[q] > 0 /\ listed[q]}}
    BY DEF CheckoutListProducts, Goto, IInv, TypeOK, TxnTypes
<1>3. u \in Users /\ LockOf(t, CartRow(u)) \in held
    BY <1>2 DEF IInv, TxnOK, RequestOK, JInv, ClaimsOK, CartOK, CheckoutLabels, CartRead
<1>4. ASSUME NEW p \in Products
      PROVE  orm[t].lines[p] = item[u][p] /\ (orm[t].lines[p] > 0 => LockOf(t, ItemRow(u, p)) \in held)
    BY <1>2 DEF JInv, ClaimsOK, CartOK, CartRead
<1>5. CartOK(t)'
    BY <1>2, <1>3, <1>4 DEF CartOK, CartRead, CheckoutLabels, rows
<1>6. PricesOK(t)'
    <2>1. ASSUME NEW p \in Products, orm[t].lines[p] > 0 PROVE ProductRow(p) \in todo'[t]
        <3>1. listed[p]
            BY <1>3, <1>4, <2>1 DEF JInv, NoDanglingReference, IInv, TypeOK, RowTypes, Counts
        <3> QED
            BY <1>2, <2>1, <3>1
    <2> QED
        BY <1>2, <2>1 DEF JInv, ClaimsOK, PricesOK, CheckoutLabels, rows
<1>7. BillOK(t)'
    BY <1>2 DEF JInv, ClaimsOK, BillOK, CheckoutLabels
<1> QED
    BY <1>1, <1>2, <1>5, <1>6, <1>7, CheckoutMoves DEF CheckoutLabels

\* A line's product cannot be gone: its item is locked, so nobody could delete it.
LEMMA CheckoutLocksProduct ==
    ASSUME IInv, JInv, NEW t \in Txns, CheckoutLockProduct(t)
    PROVE  JInv'
<1> DEFINE u == req[t].user
<1>1. CheckoutStep(t)
    BY DEF CheckoutStep
<1>2. pc[t] = "products" /\ UNCHANGED <<rows, books, pc, req, reply>>
    BY DEF CheckoutLockProduct
<1>3. PICK p \in Products :
          /\ todo' = [todo EXCEPT ![t] = @ \ {ProductRow(p)}]
          /\ \/ /\ Lock(t, ProductRow(p), "update") /\ listed[p]
                /\ orm' = [orm EXCEPT ![t].stock[p] = stock[p], ![t].price[p] = price[p]]
             \/ ~listed[p] /\ UNCHANGED <<held, orm>>
    BY DEF CheckoutLockProduct
<1>4. /\ u \in Users /\ orm[t] \in Copies /\ price[p] \in Nat \ {0} /\ price \in Counts
      /\ todo'[t] = todo[t] \ {ProductRow(p)} /\ held \subseteq held' /\ item[u] \in Counts
    BY <1>2, <1>3 DEF IInv, TypeOK, TxnTypes, RowTypes, TxnOK, RequestOK, CheckoutLabels, Lock, Counts
<1>5. /\ orm'[t].lines = orm[t].lines /\ orm'[t].total = orm[t].total
      /\ listed[p] => orm'[t].price[p] = price[p]
      /\ ~listed[p] => orm'[t].price[p] = orm[t].price[p]
      /\ \A q \in Products \ {p} : orm'[t].price[q] = orm[t].price[q]
    BY <1>3, <1>4 DEF IInv, TypeOK, TxnTypes, Copies, Counts
<1>6. CartOK(t)'
    BY <1>2, <1>4, <1>5 DEF JInv, ClaimsOK, CartOK, CartRead, CheckoutLabels, rows
<1>7. PricesOK(t)'
    <2>1. ASSUME NEW q \in Products, orm'[t].price[q] > 0 PROVE orm'[t].price[q] = price[q]
        BY <2>1, <1>2, <1>5 DEF JInv, ClaimsOK, PricesOK, CheckoutLabels
    <2>2. ASSUME NEW q \in Products, orm[t].lines[q] > 0
          PROVE  orm'[t].price[q] > 0 \/ ProductRow(q) \in todo'[t]
        <3>1. orm[t].lines[q] = item[u][q]
            BY <1>2 DEF JInv, ClaimsOK, CartOK, CartRead
        <3>2. listed[q]
            BY <1>4, <2>2, <3>1 DEF JInv, NoDanglingReference, Counts
        <3>3. orm[t].price[q] > 0 \/ ProductRow(q) \in todo[t]
            BY <1>2, <2>2 DEF JInv, ClaimsOK, PricesOK
        <3> QED
            BY <1>4, <1>5, <3>2, <3>3, RowsApart
    <2> QED
        BY <1>2, <1>5, <2>1, <2>2 DEF PricesOK, CheckoutLabels, rows
<1>8. BillOK(t)'
    BY <1>2, <1>5 DEF JInv, ClaimsOK, BillOK, CheckoutLabels
<1> QED
    BY <1>1, <1>2, <1>6, <1>7, <1>8, CheckoutMoves DEF CheckoutLabels

\* The bill before the first line: no line has been passed, the others weigh nothing.
LEMMA CheckoutPrepares ==
    ASSUME IInv, JInv, NEW t \in Txns, CheckoutPrepare(t)
    PROVE  JInv'
<1> DEFINE u == req[t].user
<1>1. CheckoutStep(t)
    BY DEF CheckoutStep
<1>2. /\ pc[t] = "products" /\ todo[t] = {} /\ pc'[t] = "prepare"
      /\ UNCHANGED <<rows, books, reply, orm, held>> /\ req'[t] = req[t]
      /\ todo'[t] = {ItemRow(u, p) : p \in {q \in Products : orm[t].lines[q] > 0}}
    BY DEF CheckoutPrepare, Goto, IInv, TypeOK, TxnTypes
<1>3. CartOK(t)'
    BY <1>2 DEF JInv, ClaimsOK, CartOK, CartRead, CheckoutLabels, rows
<1>4. PricesOK(t)'
    BY <1>2 DEF JInv, ClaimsOK, PricesOK, CheckoutLabels, rows
<1>5. BillOK(t)'
    <2>1. ASSUME NEW p \in Products PROVE Passed(t)'[p] = 0
        <3>1. orm[t].lines[p] \in Nat /\ orm[t].price[p] \in Nat
            BY DEF IInv, TypeOK, TxnTypes, Copies, Counts
        <3>2. CASE orm[t].lines[p] > 0
            BY <3>2, <1>2 DEF Passed
        <3>3. CASE orm[t].lines[p] = 0
            BY <3>1, <3>3, <1>2 DEF Passed
        <3> QED
            BY <3>1, <3>2, <3>3
    <2>2. DOMAIN Passed(t)' = Products
        BY DEF Passed
    <2>3. SumFunctionOnSet(Passed(t)', Products) = 0
        BY <2>1, FiniteAssumption, SumZero
    <2>4. SumFunction(Passed(t)') = 0
        BY <2>2, <2>3 DEF SumFunction
    <2>5. orm'[t].total = 0
        BY <1>2 DEF JInv, ClaimsOK, BillOK, CheckoutLabels
    <2>6. \A p \in Products : ItemRow(u, p) \in todo'[t] => orm[t].lines[p] > 0
        BY <1>2, RowsApart
    <2> QED
        BY <1>2, <2>4, <2>5, <2>6 DEF BillOK, CheckoutLabels
<1> QED
    BY <1>1, <1>2, <1>3, <1>4, <1>5, CheckoutMoves DEF CheckoutLabels

\* One line is added to the bill; its product is there.
LEMMA CheckoutLines ==
    ASSUME IInv, JInv, NEW t \in Txns, CheckoutLine(t)
    PROVE  JInv'
<1> DEFINE u == req[t].user
<1>1. CheckoutStep(t) /\ pc[t] = "prepare"
    BY DEF CheckoutStep, CheckoutLine
<1>2. PICK p \in Products :
          /\ First(t, ItemRow(u, p))
          /\ \/ orm[t].price[p] = 0 /\ Rollback(t, "gone")
             \/ Rollback(t, "no_stock")
             \/ /\ orm' = [orm EXCEPT ![t].total = @ + Subtotal(t, p)]
                /\ todo' = [todo EXCEPT ![t] = @ \ {ItemRow(u, p)}]
                /\ UNCHANGED <<rows, books, pc, req, reply, held>>
    BY DEF CheckoutLine
<1>3. /\ u \in Users /\ orm[t] \in Copies /\ orm[t].price[p] \in Nat /\ orm[t].lines[p] \in Nat
      /\ ItemRow(u, p) \in todo[t]
    BY <1>1, <1>2 DEF IInv, TypeOK, TxnTypes, TxnOK, RequestOK, CheckoutLabels, Copies, Counts, First
<1>4. CASE Rollback(t, "no_stock")
    BY <1>4, RollbackClaims
<1>5. CASE /\ orm' = [orm EXCEPT ![t].total = @ + Subtotal(t, p)]
           /\ todo' = [todo EXCEPT ![t] = @ \ {ItemRow(u, p)}]
           /\ UNCHANGED <<rows, books, pc, req, reply, held>>
    <2> DEFINE subtotal == orm[t].price[p] * orm[t].lines[p]
    <2>1. /\ orm'[t].total = orm[t].total + subtotal /\ orm'[t].lines = orm[t].lines
          /\ orm'[t].price = orm[t].price /\ todo'[t] = todo[t] \ {ItemRow(u, p)}
        BY <1>3, <1>5 DEF IInv, TypeOK, TxnTypes, Copies, Subtotal
    <2>2. CartOK(t)'
        BY <1>1, <1>5, <2>1 DEF JInv, ClaimsOK, CartOK, CartRead, CheckoutLabels, rows
    <2>3. PricesOK(t)'
        BY <1>1, <1>5, <2>1 DEF JInv, ClaimsOK, PricesOK, CheckoutLabels, rows
    <2>4. BillOK(t)'
        <3>1. subtotal \in Nat
            BY <1>3
        <3>2. Passed(t) \in [Products -> Nat] /\ Passed(t)[p] = 0
            BY <1>3 DEF Passed, Copies, Counts
        <3>3. /\ Passed(t)' \in [Products -> Nat] /\ Passed(t)'[p] = subtotal
              /\ \A q \in Products \ {p} : Passed(t)'[q] = Passed(t)[q]
            <4>1. \A q \in Products : ItemRow(u, q) \in todo'[t] <=> ItemRow(u, q) \in todo[t] /\ q # p
                BY <2>1, RowsApart
            <4>2. Passed(t)' = [q \in Products |-> IF q = p THEN subtotal ELSE Passed(t)[q]]
                BY <1>5, <2>1, <4>1 DEF Passed
            <4> QED
                BY <3>1, <3>2, <4>2
        <3>4. /\ SumFunction(Passed(t)) \in Nat /\ SumFunction(Passed(t)') \in Nat
              /\ SumFunction(Passed(t)') + Passed(t)[p] = SumFunction(Passed(t)) + Passed(t)'[p]
            BY <3>2, <3>3, FiniteAssumption, SumUpdate
        <3>5. orm[t].total = SumFunction(Passed(t))
            BY <1>1 DEF JInv, ClaimsOK, BillOK
        <3>6. orm'[t].total = SumFunction(Passed(t)')
            <4> HIDE DEF subtotal
            <4> QED
                BY <2>1, <3>1, <3>2, <3>3, <3>4, <3>5
        <3>7. \A q \in Products : ItemRow(u, q) \in todo'[t] => orm[t].lines[q] > 0
            BY <1>1, <2>1 DEF JInv, ClaimsOK, BillOK
        <3> QED
            BY <1>1, <1>5, <2>1, <3>6, <3>7 DEF BillOK, CheckoutLabels
    <2> QED
        BY <1>1, <1>5, <2>2, <2>3, <2>4, CheckoutMoves DEF CheckoutLabels
<1>6. orm[t].price[p] # 0
    BY <1>1, <1>3 DEF JInv, ClaimsOK, BillOK, PricesOK
<1> QED
    BY <1>2, <1>4, <1>5, <1>6

-----------------------------------------------------------------------------
(* A checkout: its commit *)

\* What the ledger adds up: the totals of a user's orders, the units of p in them.
Totals(u) == [k \in Keys |-> orders[u][k].total]
UnitsOf(u, p) == [k \in Keys |-> orders[u][k].lines[p]]
UnitsTo(p) == [u \in Users |-> SumFunction(UnitsOf(u, p))]

\* An order is entered under a key that had none.
LEMMA OrderEntered ==
    ASSUME RowTypes, RowTypes', NEW u \in Users, NEW k \in Keys, orders[u][k] = NoOrder,
           \A v \in Users, j \in Keys : v # u \/ j # k => orders'[v][j] = orders[v][j]
    PROVE  /\ \A v \in Users : SumFunction(Totals(v)) \in Nat
           /\ SumFunction(Totals(u)') = SumFunction(Totals(u)) + orders'[u][k].total
           /\ \A p \in Products : SumFunction(UnitsTo(p)) \in Nat
           /\ \A p \in Products :
                 SumFunction(UnitsTo(p)') = SumFunction(UnitsTo(p)) + orders'[u][k].lines[p]
<1>1. \A v \in Users, j \in Keys :
          /\ orders[v][j].total \in Nat /\ orders'[v][j].total \in Nat
          /\ \A p \in Products : orders[v][j].lines[p] \in Nat /\ orders'[v][j].lines[p] \in Nat
    BY DEF RowTypes, Counts
<1>2. orders[u][k].total = 0 /\ \A p \in Products : orders[u][k].lines[p] = 0
    BY DEF NoOrder, None
<1>3. ASSUME NEW v \in Users PROVE SumFunction(Totals(v)) \in Nat
    <2>1. Totals(v) \in [Keys -> Nat]
        BY <1>1 DEF Totals
    <2> QED
        BY <2>1, FiniteAssumption, SumNat
<1>4. SumFunction(Totals(u)') = SumFunction(Totals(u)) + orders'[u][k].total
    <2>1. /\ Totals(u) \in [Keys -> Nat] /\ Totals(u)' \in [Keys -> Nat]
          /\ \A j \in Keys \ {k} : Totals(u)'[j] = Totals(u)[j]
          /\ Totals(u)[k] = 0 /\ Totals(u)'[k] = orders'[u][k].total
        BY <1>1, <1>2 DEF Totals
    <2>2. /\ SumFunction(Totals(u)) \in Nat /\ SumFunction(Totals(u)') \in Nat
          /\ SumFunction(Totals(u)') + Totals(u)[k] = SumFunction(Totals(u)) + Totals(u)'[k]
        BY <2>1, FiniteAssumption, SumUpdate
    <2> QED
        BY <1>1, <2>1, <2>2
<1>5. ASSUME NEW p \in Products
      PROVE  /\ SumFunction(UnitsTo(p)) \in Nat
             /\ SumFunction(UnitsTo(p)') = SumFunction(UnitsTo(p)) + orders'[u][k].lines[p]
    <2>1. ASSUME NEW v \in Users
          PROVE  UnitsOf(v, p) \in [Keys -> Nat] /\ UnitsOf(v, p)' \in [Keys -> Nat]
        BY <1>1 DEF UnitsOf
    <2>2. ASSUME NEW v \in Users
          PROVE  SumFunction(UnitsOf(v, p)) \in Nat /\ SumFunction(UnitsOf(v, p)') \in Nat
        BY <2>1, FiniteAssumption, SumNat
    <2>3. UnitsTo(p) \in [Users -> Nat] /\ UnitsTo(p)' \in [Users -> Nat]
        BY <2>2 DEF UnitsTo
    <2>4. ASSUME NEW v \in Users \ {u} PROVE UnitsTo(p)'[v] = UnitsTo(p)[v]
        <3>1. UnitsOf(v, p)' = UnitsOf(v, p)
            BY DEF UnitsOf
        <3> QED
            BY <3>1 DEF UnitsTo
    <2>5. UnitsTo(p)'[u] = UnitsTo(p)[u] + orders'[u][k].lines[p]
        <3>1. /\ \A j \in Keys \ {k} : UnitsOf(u, p)'[j] = UnitsOf(u, p)[j]
              /\ UnitsOf(u, p)[k] = 0 /\ UnitsOf(u, p)'[k] = orders'[u][k].lines[p]
            BY <1>2 DEF UnitsOf
        <3>2. /\ SumFunction(UnitsOf(u, p)') + UnitsOf(u, p)[k]
                    = SumFunction(UnitsOf(u, p)) + UnitsOf(u, p)'[k]
            BY <2>1, <3>1, FiniteAssumption, SumUpdate
        <3>3. UnitsTo(p)'[u] = SumFunction(UnitsOf(u, p)') /\ UnitsTo(p)[u] = SumFunction(UnitsOf(u, p))
            BY DEF UnitsTo
        <3> QED
            BY <1>1, <2>2, <3>1, <3>2, <3>3
    <2>6. /\ SumFunction(UnitsTo(p)) \in Nat /\ SumFunction(UnitsTo(p)') \in Nat
          /\ SumFunction(UnitsTo(p)') + UnitsTo(p)[u] = SumFunction(UnitsTo(p)) + UnitsTo(p)'[u]
        BY <2>3, <2>4, FiniteAssumption, SumUpdate
    <2>7. UnitsTo(p)[u] \in Nat /\ orders'[u][k].lines[p] \in Nat
        BY <1>1, <2>3
    <2> QED
        BY <2>5, <2>6, <2>7
<1> QED
    BY <1>3, <1>4, <1>5

\* Nobody else has locked what the checkout writes; its order has the lines of the cart.
LEMMA CheckoutPays ==
    ASSUME IInv, IInv', JInv, NEW t \in Txns, CheckoutPay(t)
    PROVE  JInv'
<1> DEFINE lines == orm[t].lines
<1>1. pc[t] = "prepare" /\ todo[t] = {}
    BY DEF CheckoutPay
<1>0. PICK u \in Users, k \in Keys : u = req[t].user /\ k = req[t].key
    BY <1>1 DEF IInv, TxnOK, RequestOK, CheckoutLabels
<1>2. /\ orders[u][k] = NoOrder
      /\ orm[t] \in Copies /\ lines \in Counts /\ orm[t].total \in Nat
      /\ balance \in [Users -> 0 .. MaxMoney] /\ stock \in Counts /\ item \in [Users -> Counts]
      /\ orders \in [Users -> [Keys -> [total : Nat, lines : Counts]]]
      /\ spent \in [Users -> Nat] /\ sold \in Counts
    BY <1>0, <1>1 DEF IInv, TypeOK, RowTypes, TxnTypes, BookTypes, TxnOK, RequestOK, AccountOK, CheckoutNew,
                CheckoutLocked, CheckoutLabels, Copies
<1>3. End(t, "ok") /\ CheckoutCommit(t)
    <2>1. orders[req[t].user][req[t].key] = NoOrder
        BY <1>0, <1>2
    <2> QED
        BY <2>1 DEF CheckoutPay
<1>4. ASSUME NEW p \in Products
      PROVE  /\ lines[p] = item[u][p]
             /\ lines[p] > 0 => LockOf(t, ItemRow(u, p)) \in held /\ LockOf(t, ProductRow(p)) \in held
    <2>1. /\ lines[p] = item[u][p]
          /\ lines[p] > 0 => LockOf(t, ItemRow(u, p)) \in held
        BY <1>0, <1>1 DEF JInv, ClaimsOK, CartOK, CartRead
    <2>2. lines[p] > 0 => orm[t].price[p] > 0
        BY <1>1 DEF JInv, ClaimsOK, PricesOK
    <2>3. orm[t].price[p] > 0 => LockOf(t, ProductRow(p)) \in held
        BY <1>1 DEF IInv, TxnOK, ProductsOK, CheckoutLabels
    <2> QED
        BY <2>1, <2>2, <2>3
<1>5. /\ item'[u] = None /\ \A v \in Users \ {u} : item'[v] = item[v]
      /\ \A p \in Products : item'[u][p] = 0
      /\ \A p \in Products : lines[p] = 0 => stock'[p] = stock[p]
      /\ UNCHANGED <<active, price, listed>>
    BY <1>0, <1>2, <1>3 DEF CheckoutCommit, None, Counts
<1>6. /\ orders'[u][k] = NewOrder(t)
      /\ \A v \in Users, j \in Keys : v # u \/ j # k => orders'[v][j] = orders[v][j]
      /\ \A v \in Users \ {u} : orders'[v] = orders[v]
    BY <1>0, <1>2, <1>3 DEF CheckoutCommit
<1>7. ASSUME NEW s \in Txns \ {t} PROVE Leaves(s)
    <2>1. \A p \in Products : lines[p] > 0 =>
              LockOf(s, ItemRow(u, p)) \notin held /\ LockOf(s, ProductRow(p)) \notin held
        BY <1>4, Exclusive DEF IInv
    <2>2. \A p \in Products : lines[p] \in Nat
        BY <1>2 DEF Counts
    <2> QED
        BY <1>4, <1>5, <2>1, <2>2 DEF Leaves
<1>8. NoDanglingReference'
    <2> SUFFICES ASSUME NEW p \in Products, ~listed[p]
                 PROVE  ~Ordered(p)' /\ \A v \in Users : item'[v][p] = 0
        BY <1>5 DEF NoDanglingReference
    <2>1. ~Ordered(p) /\ \A v \in Users : item[v][p] = 0
        BY DEF JInv, NoDanglingReference
    <2>2. NewOrder(t).lines[p] = 0
        BY <1>2, <1>4, <2>1 DEF NewOrder
    <2>3. ~Ordered(p)'
        BY <1>2, <1>6, <2>1, <2>2 DEF Ordered
    <2> QED
        BY <1>5, <2>1, <2>3
<1>9. LedgerMatchesOrders'
    <2>1. /\ \A v \in Users : SumFunction(Totals(v)) \in Nat
          /\ SumFunction(Totals(u)') = SumFunction(Totals(u)) + orders'[u][k].total
          /\ \A p \in Products : SumFunction(UnitsTo(p)) \in Nat
          /\ \A p \in Products :
                SumFunction(UnitsTo(p)') = SumFunction(UnitsTo(p)) + orders'[u][k].lines[p]
        <3>1. RowTypes /\ RowTypes'
            BY DEF IInv, TypeOK
        <3> QED
            BY <3>1, <1>2, <1>6, OrderEntered
    <2>2. orders'[u][k].total = orm[t].total /\ orders'[u][k].lines = lines
        BY <1>6 DEF NewOrder
    <2>3. /\ \A v \in Users : spent[v] = SumFunction(Totals(v))
          /\ \A p \in Products : sold[p] = SumFunction(UnitsTo(p))
        BY DEF JInv, LedgerMatchesOrders, Totals, UnitsOf, UnitsTo
    <2>4. /\ spent' = [spent EXCEPT ![u] = @ + orm[t].total]
          /\ \A p \in Products : sold'[p] = sold[p] + lines[p]
        BY <1>0, <1>3 DEF CheckoutCommit
    <2>5. ASSUME NEW v \in Users PROVE spent'[v] = SumFunction(Totals(v)')
        <3>1. CASE v = u
            <4>1. spent'[u] = spent[u] + orm[t].total
                BY <1>2, <2>4
            <4> QED
                BY <3>1, <4>1, <1>2, <2>1, <2>2, <2>3
        <3>2. CASE v # u
            <4>1. Totals(v)' = Totals(v)
                BY <3>2, <1>6 DEF Totals
            <4> QED
                BY <3>2, <4>1, <1>2, <2>3, <2>4
        <3> QED
            BY <3>1, <3>2
    <2>6. ASSUME NEW p \in Products PROVE sold'[p] = SumFunction(UnitsTo(p)')
        BY <2>1, <2>2, <2>3, <2>4
    <2> QED
        BY <2>5, <2>6 DEF LedgerMatchesOrders, Totals, UnitsOf, UnitsTo
<1> QED
    BY <1>3, <1>7, <1>8, <1>9, EndClaims

\* Every step of a checkout.
LEMMA CheckoutClaims ==
    ASSUME IInv, IInv', JInv, NEW t \in Txns, CheckoutStep(t)
    PROVE  JInv'
<1>1. CASE \/ CheckoutInactive(t) \/ CheckoutReplay(t) \/ CheckoutNoCart(t) \/ CheckoutEmpty(t)
           \/ CheckoutNoFunds(t)
    BY <1>1, RollbackClaims DEF CheckoutInactive, CheckoutReplay, CheckoutNoCart, CheckoutEmpty,
                                CheckoutNoFunds
<1> QED
    BY <1>1, CheckoutBegins, CheckoutListsItems, CheckoutLocksItem, CheckoutListsProducts,
       CheckoutLocksProduct, CheckoutPrepares, CheckoutLines, CheckoutPays DEF CheckoutStep

-----------------------------------------------------------------------------
(* The carts' handlers *)

\* Outside the checkout.
LEMMA OtherMoves ==
    ASSUME IInv, JInv, NEW t \in Txns, UNCHANGED <<rows, books, reply>>,
           \A s \in Txns \ {t} : Apart(s), pc'[t] \notin CheckoutLabels,
           StageOK(t)', AddOK(t)', SetOK(t)', BackOfficeOK(t)'
    PROVE  JInv'
<1>1. CartOK(t)' /\ PricesOK(t)' /\ BillOK(t)'
    BY DEF CartOK, PricesOK, BillOK, CartRead, CheckoutLabels
<1>2. ClaimsOK(t)'
    BY <1>1 DEF ClaimsOK
<1> QED
    BY <1>2, MoveClaims

\* t may change the items it changes: the locks of others do not forbid it.
ItemsAllowed(t) ==
    \A u \in Users, p \in Products : item'[u][p] # item[u][p] =>
        /\ \A s \in Txns \ {t} : item[u][p] > 0 => LockOf(s, ItemRow(u, p)) \notin held
        /\ \A s \in Txns \ {t} : item[u][p] = 0 => LockOf(s, CartRow(u)) \notin held
        /\ \/ item'[u][p] = 0
           \/ listed[p] /\ \A s \in Txns \ {t} : LockOf(s, ProductRow(p)) \notin held

\* A commit that writes items only.
LEMMA ItemsCommitted ==
    ASSUME IInv, JInv, NEW t \in Txns, End(t, "ok"), ItemsAllowed(t),
           UNCHANGED <<balance, active, price, stock, listed, orders, books>>
    PROVE  JInv'
<1>1. ASSUME NEW s \in Txns \ {t} PROVE Leaves(s)
    BY DEF Leaves, ItemsAllowed
<1>2. NoDanglingReference'
    BY DEF JInv, NoDanglingReference, Ordered, ItemsAllowed
<1>3. LedgerMatchesOrders'
    BY DEF JInv, LedgerMatchesOrders, books
<1> QED
    BY <1>1, <1>2, <1>3, EndClaims

\* What writing an item changes.
LEMMA PutOneItem ==
    ASSUME IInv, NEW u \in Users, NEW p \in Products, NEW n, PutItem(u, p, n)
    PROVE  /\ UNCHANGED <<balance, active, price, stock, listed, orders, books>>
           /\ item'[u][p] = n
           /\ \A v \in Users, q \in Products : item'[v][q] # item[v][q] => v = u /\ q = p
BY DEF PutItem, IInv, TypeOK, RowTypes, Counts

\* An addition reads with the product locked.
LEMMA AddMoves ==
    ASSUME IInv, JInv, NEW t \in Txns,
           \/ AddLockProduct(t) \/ AddFindCart(t) \/ AddNewCart(t) \/ AddCartOwner(t) \/ AddFindItem(t)
    PROVE  JInv'
<1> DEFINE u == req[t].user
           p == req[t].product
<1>1. CASE \E answer \in {"integrity_error", "no_stock"} : Rollback(t, answer)
    BY <1>1, RollbackClaims
<1>2. CASE ~ \E answer \in {"integrity_error", "no_stock"} : Rollback(t, answer)
    <2>1. /\ pc[t] \in AddLabels /\ pc'[t] \in AddLabels \ {"add"} /\ req'[t] = req[t]
          /\ UNCHANGED <<rows, books, reply>> /\ held \subseteq held'
        BY <1>2 DEF AddLockProduct, AddFindCart, AddNewCart, AddCartOwner, AddFindItem, Goto, Lock,
                    AddLabels, IInv, TypeOK, TxnTypes
    <2>2. /\ req[t].op = "add" /\ u \in Users /\ p \in Products /\ req[t].qty \in Nat /\ req[t].qty > 0
          /\ orm[t] \in Copies /\ stock \in Counts /\ item \in [Users -> Counts]
        BY <2>1 DEF JInv, ClaimsOK, StageOK, Serves, AddOK, AddLabels, CheckoutLabels, SetLabels,
                    DropLabels, ImportLabels, IInv, TypeOK, TxnTypes, RowTypes, TxnOK, RequestOK
    <2>3. StageOK(t)'
        BY <2>1, <2>2 DEF JInv, ClaimsOK, StageOK, Serves
    <2>4. LockOf(t, ProductRow(p)) \in held' /\ listed[p] /\ orm'[t].stock[p] = stock[p]
        <3>1. CASE AddLockProduct(t)
            BY <3>1, <2>2 DEF AddLockProduct, Lock, LockOf, IInv, TypeOK, TxnTypes, Copies, Counts
        <3>2. CASE ~AddLockProduct(t)
            <4>1. pc[t] # "add" /\ orm'[t].stock = orm[t].stock
                BY <1>2, <3>2, <2>2 DEF AddFindCart, AddNewCart, AddCartOwner, AddFindItem, IInv, TypeOK,
                                        TxnTypes, Copies
            <4> QED
                BY <2>1, <4>1 DEF JInv, ClaimsOK, AddOK
        <3> QED
            BY <3>1, <3>2
    <2>5. /\ pc'[t] = "insert" => req[t].qty <= stock[p]
          /\ pc'[t] = "update" =>
                orm'[t].lines[p] + req[t].qty <= stock[p] /\ item[u][p] = orm'[t].lines[p]
        <3>1. CASE AddFindItem(t)
            <4>1. orm[t].stock[p] = stock[p]
                BY <3>1 DEF AddFindItem, JInv, ClaimsOK, AddOK, AddLabels
            <4>2. /\ item[u][p] + req[t].qty <= orm[t].stock[p]
                  /\ orm' = [orm EXCEPT ![t].lines[p] = item[u][p]]
                  /\ pc'[t] = IF item[u][p] = 0 THEN "insert" ELSE "update"
                BY <3>1, <1>2 DEF AddFindItem, Goto, IInv, TypeOK, TxnTypes
            <4>3. orm'[t].lines[p] = item[u][p] /\ item[u][p] \in Nat
                BY <2>2, <4>2 DEF IInv, TypeOK, TxnTypes, Copies, Counts
            <4> QED
                BY <2>2, <4>1, <4>2, <4>3
        <3>2. CASE ~AddFindItem(t)
            <4>1. pc'[t] \notin {"insert", "update"}
                BY <1>2, <3>2 DEF AddLockProduct, AddFindCart, AddNewCart, AddCartOwner, Goto, IInv,
                                  TypeOK, TxnTypes
            <4> QED
                BY <4>1
        <3> QED
            BY <3>1, <3>2
    <2>6. AddOK(t)'
        BY <2>1, <2>2, <2>4, <2>5 DEF AddOK, rows
    <2>7. SetOK(t)' /\ BackOfficeOK(t)' /\ pc'[t] \notin CheckoutLabels
        BY <2>1 DEF SetOK, BackOfficeOK, AddLabels, SetLabels, CheckoutLabels
    <2>8. \A s \in Txns \ {t} : Apart(s)
        BY CartApart DEF CartStep, IInv, TypeOK
    <2> QED
        BY <2>1, <2>3, <2>6, <2>7, <2>8, OtherMoves
<1> QED
    BY <1>1, <1>2

\* The product is locked; a new item waits for the cart's lock, an old one for its own.
LEMMA AddCommits ==
    ASSUME IInv, JInv, NEW t \in Txns, AddInsert(t) \/ AddUpdate(t)
    PROVE  JInv'
<1> DEFINE u == req[t].user
           p == req[t].product
<1>1. pc[t] \in {"insert", "update"}
    BY DEF AddInsert, AddUpdate
<1>2. u \in Users /\ p \in Products /\ listed[p] /\ LockOf(t, ProductRow(p)) \in held
    BY <1>1 DEF IInv, TxnOK, RequestOK, JInv, ClaimsOK, AddOK, AddLabels
<1>3. ASSUME NEW s \in Txns \ {t} PROVE LockOf(s, ProductRow(p)) \notin held
    BY <1>2, Exclusive DEF IInv
<1>4. CASE Rollback(t, "integrity_error") \/ Rollback(t, "stale_data")
    BY <1>4, RollbackClaims
<1>5. CASE item[u][p] = 0 /\ Free(t, CartRow(u), "share") /\ PutItem(u, p, req[t].qty) /\ End(t, "ok")
    <2>1. ASSUME NEW s \in Txns \ {t} PROVE LockOf(s, CartRow(u)) \notin held
        BY <1>5, Exclusive DEF IInv
    <2> QED
        BY <1>2, <1>3, <1>5, <2>1, PutOneItem, ItemsCommitted DEF ItemsAllowed
<1>6. CASE \E n : /\ item[u][p] > 0 /\ Free(t, ItemRow(u, p), "nokey")
                  /\ PutItem(u, p, n) /\ End(t, "ok")
    <2>1. ASSUME NEW s \in Txns \ {t} PROVE LockOf(s, ItemRow(u, p)) \notin held
        BY <1>6, Exclusive DEF IInv
    <2> QED
        BY <1>2, <1>3, <1>6, <2>1, PutOneItem, ItemsCommitted DEF ItemsAllowed
<1> QED
    BY <1>4, <1>5, <1>6 DEF AddInsert, AddUpdate

\* Every step of a change of quantity.
LEMMA SetClaims ==
    ASSUME IInv, JInv, NEW t \in Txns, SetLockItem(t) \/ SetLockCart(t) \/ SetQuantity(t)
    PROVE  JInv'
<1> DEFINE u == req[t].user
           p == req[t].product
<1>1. pc[t] \in SetLabels
    BY DEF SetLockItem, SetLockCart, SetQuantity, SetLabels
<1>2. u \in Users /\ p \in Products /\ req[t].qty > 0 /\ req[t].op = "set" /\ item \in [Users -> Counts]
    BY <1>1 DEF JInv, ClaimsOK, StageOK, Serves, SetOK, AddLabels, CheckoutLabels, SetLabels,
                DropLabels, ImportLabels, IInv, TypeOK, RowTypes, TxnOK, RequestOK
<1>3. CASE Rollback(t, "not_found") \/ Rollback(t, "no_stock")
    BY <1>3, RollbackClaims
<1>4. CASE /\ \/ pc[t] = "set" /\ item[u][p] > 0 /\ Lock(t, ItemRow(u, p), "update") /\ Goto(t, "set_cart")
              \/ pc[t] = "set_cart" /\ Lock(t, CartRow(u), "update") /\ Goto(t, "set_product")
           /\ UNCHANGED <<todo, orm>>
    <2>1. /\ pc'[t] \in SetLabels \ {"set"} /\ req'[t] = req[t]
          /\ UNCHANGED <<rows, books, reply>> /\ held \subseteq held'
        BY <1>4 DEF Goto, Lock, SetLabels, IInv, TypeOK, TxnTypes
    <2>2. StageOK(t)'
        BY <1>2, <2>1 DEF JInv, ClaimsOK, StageOK, Serves
    <2>3. SetOK(t)'
        <3>1. LockOf(t, ItemRow(u, p)) \in held' /\ item[u][p] > 0
            BY <1>4, <2>1 DEF Lock, LockOf, JInv, ClaimsOK, SetOK
        <3>2. pc'[t] = "set_product" => LockOf(t, CartRow(u)) \in held'
            BY <1>4 DEF Lock, LockOf, Goto, IInv, TypeOK, TxnTypes
        <3> QED
            BY <1>2, <2>1, <3>1, <3>2 DEF SetOK, rows
    <2>4. AddOK(t)' /\ BackOfficeOK(t)' /\ pc'[t] \notin CheckoutLabels
        BY <2>1 DEF AddOK, BackOfficeOK, AddLabels, SetLabels, CheckoutLabels
    <2>5. \A s \in Txns \ {t} : Apart(s)
        BY CartApart DEF CartStep, IInv, TypeOK
    <2> QED
        BY <2>1, <2>2, <2>3, <2>4, <2>5, OtherMoves
<1>5. CASE /\ pc[t] = "set_product" /\ Free(t, ProductRow(p), "update")
           /\ PutItem(u, p, req[t].qty) /\ End(t, "ok")
    <2>1. LockOf(t, ItemRow(u, p)) \in held /\ item[u][p] > 0
        BY <1>5 DEF JInv, ClaimsOK, SetOK
    <2>2. listed[p]
        BY <1>2, <2>1 DEF JInv, NoDanglingReference, Counts
    <2>3. ASSUME NEW s \in Txns \ {t}
          PROVE  LockOf(s, ItemRow(u, p)) \notin held /\ LockOf(s, ProductRow(p)) \notin held
        BY <1>5, <2>1, Exclusive DEF IInv
    <2> QED
        BY <1>2, <1>5, <2>1, <2>2, <2>3, PutOneItem, ItemsCommitted DEF ItemsAllowed
<1> QED
    BY <1>3, <1>4, <1>5 DEF SetLockItem, SetLockCart, SetQuantity

\* Items are deleted by whoever has locked them, or can.
LEMMA RemovalClaims ==
    ASSUME IInv, JInv, NEW t \in Txns,
           RemoveItem(t) \/ ClearList(t) \/ ClearRow(t) \/ ClearCommit(t)
    PROVE  JInv'
<1> DEFINE u == req[t].user
<1>1. pc[t] \in {"remove", "clear", "clear_rows"} /\ u \in Users /\ item \in [Users -> Counts]
    BY DEF RemoveItem, ClearList, ClearRow, ClearCommit, IInv, TypeOK, RowTypes, TxnOK, RequestOK
<1>2. CASE RemoveItem(t)
    <2> DEFINE p == req[t].product
    <2>1. p \in Products /\ End(t, "ok")
              /\ UNCHANGED <<balance, active, price, stock, listed, orders, books>>
        BY <1>2 DEF RemoveItem, IInv, TxnOK, RequestOK
    <2>2. ASSUME NEW s \in Txns \ {t} PROVE LockOf(s, ItemRow(u, p)) \notin held
        BY <1>2, Exclusive DEF RemoveItem, IInv
    <2>3. \A v \in Users, q \in Products : item'[v][q] # item[v][q] =>
              v = u /\ q = p /\ item'[v][q] = 0 /\ item[v][q] # 0
        BY <1>1, <1>2, <2>1 DEF RemoveItem, Counts
    <2>4. ItemsAllowed(t)
        BY <2>2, <2>3 DEF ItemsAllowed
    <2> QED
        BY <2>1, <2>4, ItemsCommitted
<1>3. CASE ClearList(t) \/ ClearRow(t)
    <2>1. /\ req[t].op = "clear" /\ pc'[t] = "clear_rows" /\ req'[t] = req[t]
          /\ UNCHANGED <<rows, books, reply>>
        BY <1>3 DEF ClearList, ClearRow, Goto, JInv, ClaimsOK, StageOK, Serves, AddLabels, CheckoutLabels,
                    SetLabels, DropLabels, ImportLabels, IInv, TypeOK, TxnTypes
    <2>2. StageOK(t)' /\ pc'[t] \notin CheckoutLabels
        BY <2>1 DEF JInv, ClaimsOK, StageOK, Serves, CheckoutLabels
    <2>3. AddOK(t)' /\ SetOK(t)' /\ BackOfficeOK(t)'
        BY <2>1 DEF AddOK, SetOK, BackOfficeOK, AddLabels, SetLabels
    <2>4. \A s \in Txns \ {t} : Apart(s)
        BY <1>3, CartApart DEF CartStep, IInv, TypeOK
    <2> QED
        BY <2>1, <2>2, <2>3, <2>4, OtherMoves
<1>4. CASE ClearCommit(t)
    <2> DEFINE deleted == {p \in Products : \E l \in held : l.txn = t /\ l.row = ItemRow(u, p)}
    <2>1. /\ End(t, "ok") /\ UNCHANGED <<balance, active, price, stock, listed, orders, books>>
          /\ item' = [item EXCEPT ![u] = [p \in Products |-> IF p \in deleted THEN 0 ELSE item[u][p]]]
        BY <1>1, <1>4 DEF ClearCommit
    <2>2. ASSUME NEW s \in Txns \ {t}, NEW p \in deleted PROVE LockOf(s, ItemRow(u, p)) \notin held
        BY <2>2 DEF IInv, LocksOK, LockOf, Conflict
    <2>3. \A v \in Users, q \in Products : item'[v][q] # item[v][q] =>
              v = u /\ q \in deleted /\ item'[v][q] = 0 /\ item[v][q] # 0
        <3> HIDE DEF deleted
        <3> QED
            BY <1>1, <2>1
    <2> HIDE DEF deleted
    <2>4. ItemsAllowed(t)
        BY <2>2, <2>3 DEF ItemsAllowed
    <2> QED
        BY <2>1, <2>4, ItemsCommitted
<1> QED
    BY <1>2, <1>3, <1>4

\* Every step of the cart's handlers.
LEMMA CartClaims ==
    ASSUME IInv, JInv, NEW t \in Txns, CartStep(t)
    PROVE  JInv'
<1>1. CASE AddRefused(t)
    BY <1>1, RollbackClaims DEF AddRefused
<1> QED
    BY <1>1, AddMoves, AddCommits, SetClaims, RemovalClaims DEF CartStep

-----------------------------------------------------------------------------
(* The administrator's handlers, the closing of an account, the import *)

\* A step of the back office that only reads and locks.
LEMMA BackOfficeMoves ==
    ASSUME IInv, JInv, NEW t \in Txns, BackOfficeStep(t), UNCHANGED <<rows, books, reply>>,
           pc[t] # "done", req'[t] = req[t], Serves(req[t].op, pc'[t]),
           pc'[t] \in {"credit_write", "edit_write"} \cup DropLabels \cup ImportLabels,
           BackOfficeOK(t)'
    PROVE  JInv'
<1>1. StageOK(t)'
    BY DEF JInv, ClaimsOK, StageOK
<1>2. AddOK(t)' /\ SetOK(t)' /\ pc'[t] \notin CheckoutLabels
    BY DEF AddOK, SetOK, AddLabels, SetLabels, CheckoutLabels, DropLabels, ImportLabels
<1>3. \A s \in Txns \ {t} : Apart(s)
    BY BackOfficeApart DEF IInv, TypeOK
<1> QED
    BY <1>1, <1>2, <1>3, OtherMoves

\* A commit that leaves items and orders alone.
LEMMA OtherCommitted ==
    ASSUME IInv, JInv, NEW t \in Txns, End(t, "ok"), UNCHANGED <<item, orders, spent, sold>>,
           \A p \in Products : listed[p] => listed'[p],
           \A s \in Txns \ {t}, p \in Products : LockOf(s, ProductRow(p)) \in held =>
              price'[p] = price[p] /\ stock'[p] = stock[p],
           \A s \in Txns \ {t}, u \in Users : LockOf(s, UserRow(u)) \in held => active'[u] = active[u]
    PROVE  JInv'
<1>1. ASSUME NEW s \in Txns \ {t} PROVE Leaves(s)
    BY DEF Leaves
<1>2. NoDanglingReference'
    BY DEF JInv, NoDanglingReference, Ordered
<1>3. LedgerMatchesOrders'
    BY DEF JInv, LedgerMatchesOrders
<1> QED
    BY <1>1, <1>2, <1>3, EndClaims

\* Every step of a top-up.
LEMMA CreditClaims ==
    ASSUME IInv, JInv, NEW t \in Txns, CreditLockUser(t) \/ CreditWrite(t)
    PROVE  JInv'
<1> DEFINE u == req[t].user
<1>1. pc[t] \in {"credit", "credit_write"} /\ BackOfficeStep(t)
    BY DEF CreditLockUser, CreditWrite, BackOfficeStep
<1>2. req[t].op = "credit" /\ req[t].qty > 0 /\ u \in Users
    BY <1>1 DEF JInv, ClaimsOK, StageOK, Serves, BackOfficeOK, AddLabels, CheckoutLabels, SetLabels,
                DropLabels, ImportLabels, IInv, TxnOK, RequestOK
<1>3. CASE Rollback(t, "not_found") \/ Rollback(t, "overflow")
    BY <1>3, RollbackClaims
<1>4. CASE CreditLockUser(t) /\ active[u] /\ Goto(t, "credit_write")
    <2>1. pc'[t] = "credit_write" /\ req'[t] = req[t] /\ UNCHANGED <<rows, books, reply>>
        BY <1>4 DEF Goto, IInv, TypeOK, TxnTypes
    <2>2. BackOfficeOK(t)'
        BY <1>2, <1>4, <2>1 DEF BackOfficeOK, rows
    <2> QED
        BY <1>1, <1>2, <2>1, <2>2, BackOfficeMoves DEF Serves
<1>5. CASE /\ CreditWrite(t) /\ End(t, "ok")
           /\ UNCHANGED <<active, price, stock, listed, carts, item, orders, spent, stocked, sold>>
    BY <1>5, OtherCommitted
<1> QED
    BY <1>3, <1>4, <1>5 DEF CreditLockUser, CreditWrite

\* Closing an account breaks no claim: its row is locked by those who pay.
LEMMA CloseClaims ==
    ASSUME IInv, JInv, NEW t \in Txns, CloseAccount(t)
    PROVE  JInv'
<1> DEFINE u == req[t].user
<1>1. /\ Free(t, UserRow(u), "update") /\ active' = [active EXCEPT ![u] = FALSE] /\ End(t, "ok")
      /\ UNCHANGED <<price, stock, listed, item, orders, spent, sold>>
    BY DEF CloseAccount, books
<1>2. ASSUME NEW s \in Txns \ {t}, NEW v \in Users, LockOf(s, UserRow(v)) \in held
      PROVE  active'[v] = active[v]
    <2>1. v # u
        BY <1>1, <1>2, Exclusive DEF IInv
    <2> QED
        BY <1>1, <2>1 DEF IInv, TypeOK, RowTypes
<1> QED
    BY <1>1, <1>2, OtherCommitted

\* Every step of an edit.
LEMMA EditClaims ==
    ASSUME IInv, JInv, NEW t \in Txns, EditRead(t) \/ EditWrite(t)
    PROVE  JInv'
<1> DEFINE p == req[t].product
<1>1. pc[t] \in {"edit", "edit_write"} /\ BackOfficeStep(t)
    BY DEF EditRead, EditWrite, BackOfficeStep
<1>2. req[t].op = "edit"
    BY <1>1 DEF JInv, ClaimsOK, StageOK, Serves, AddLabels, CheckoutLabels, SetLabels, DropLabels,
                ImportLabels
<1>3. CASE Rollback(t, "not_found") \/ Rollback(t, "ok") \/ Rollback(t, "stale_data")
    BY <1>3, RollbackClaims
<1>4. CASE Goto(t, "edit_write")
    <2>1. pc'[t] = "edit_write" /\ req'[t] = req[t] /\ UNCHANGED <<rows, books, reply>>
        BY <1>4 DEF Goto, IInv, TypeOK, TxnTypes
    <2>2. BackOfficeOK(t)'
        BY <2>1 DEF BackOfficeOK
    <2> QED
        BY <1>1, <1>2, <2>1, <2>2, BackOfficeMoves DEF Serves
<1>5. CASE /\ Free(t, ProductRow(p), "nokey") /\ End(t, "ok")
           /\ \E x, y : price' = [price EXCEPT ![p] = x] /\ stock' = [stock EXCEPT ![p] = y]
           /\ UNCHANGED <<active, listed, item, orders, spent, sold>>
    <2>1. ASSUME NEW s \in Txns \ {t}, NEW q \in Products, LockOf(s, ProductRow(q)) \in held
          PROVE  price'[q] = price[q] /\ stock'[q] = stock[q]
        <3>1. q # p
            BY <1>5, <2>1, Exclusive DEF IInv
        <3> QED
            BY <1>5, <3>1 DEF IInv, TypeOK, RowTypes, Counts
    <2> QED
        BY <1>5, <2>1, OtherCommitted
<1> QED
    BY <1>3, <1>4, <1>5 DEF EditRead, EditWrite

\* The RESTRICT check and the locks taken before it leave no item that names the product.
LEMMA DropClaims ==
    ASSUME IInv, JInv, NEW t \in Txns,
           \/ DropList(t) \/ DropRow(t) \/ DropGet(t) \/ DropDelete(t)
           \/ DropRefused(t) \/ DropCommit(t)
    PROVE  JInv'
<1> DEFINE p == req[t].product
<1>1. pc[t] \in DropLabels /\ BackOfficeStep(t)
    BY DEF DropList, DropRow, DropGet, DropDelete, DropRefused, DropCommit, DropLabels, BackOfficeStep
<1>2. req[t].op = "drop" /\ p \in Products /\ item \in [Users -> Counts] /\ pc[t] # "done"
    BY <1>1 DEF JInv, ClaimsOK, StageOK, Serves, AddLabels, CheckoutLabels, SetLabels, DropLabels,
                ImportLabels, IInv, TxnOK, RequestOK, TypeOK, RowTypes
<1>3. ASSUME pc'[t] \in DropLabels, req'[t] = req[t], UNCHANGED <<rows, books, reply>>,
             pc'[t] = "drop_check" => LockOf(t, ProductRow(p)) \in held'
      PROVE  JInv'
    <2>1. BackOfficeOK(t)'
        BY <1>3 DEF BackOfficeOK, DropLabels
    <2> QED
        BY <1>1, <1>2, <1>3, <2>1, BackOfficeMoves DEF Serves
<1>4. CASE DropList(t) \/ DropRow(t)
    BY <1>3, <1>4 DEF DropList, DropRow, Goto, DropLabels, IInv, TypeOK, TxnTypes
<1>5. CASE DropGet(t)
    <2>1. CASE Rollback(t, "not_found")
        BY <2>1, RollbackClaims
    <2>2. CASE Goto(t, "drop_delete")
        BY <1>3, <2>2 DEF Goto, DropLabels, IInv, TypeOK, TxnTypes
    <2> QED
        BY <1>5, <2>1, <2>2 DEF DropGet
<1>6. CASE DropDelete(t)
    <2>1. CASE Lock(t, ProductRow(p), "update") /\ Goto(t, "drop_check")
        BY <1>3, <2>1 DEF Goto, Lock, LockOf, DropLabels, IInv, TypeOK, TxnTypes
    <2>2. CASE /\ ~listed[p] /\ DropItems(t) /\ End(t, "ok")
               /\ UNCHANGED <<balance, active, price, stock, listed, carts, orders, books>>
        <3>1. \A u \in Users : item[u][p] = 0
            BY <1>2, <2>2 DEF JInv, NoDanglingReference
        <3>2. \A u \in Users, q \in Products : item'[u][q] = item[u][q]
            BY <1>2, <2>2, <3>1 DEF DropItems, Counts
        <3>3. ItemsAllowed(t)
            BY <3>2 DEF ItemsAllowed
        <3> QED
            BY <2>2, <3>3, ItemsCommitted
    <2> QED
        BY <1>6, <2>1, <2>2 DEF DropDelete
<1>7. CASE DropRefused(t)
    BY <1>7, RollbackClaims DEF DropRefused
<1>8. CASE DropCommit(t)
    <2>1. /\ LockOf(t, ProductRow(p)) \in held
          /\ Referring(t) = {} /\ ~Ordered(p) /\ DropItems(t) /\ End(t, "ok")
          /\ listed' = [listed EXCEPT ![p] = FALSE]
          /\ UNCHANGED <<balance, active, price, stock, orders, books>>
        BY <1>8 DEF DropCommit, JInv, ClaimsOK, BackOfficeOK
    <2>2. ASSUME NEW u \in Users, item[u][p] > 0
          PROVE  \E l \in held : l.txn = t /\ l.row = ItemRow(u, p)
        BY <2>1, <2>2 DEF Referring
    <2>3. ASSUME NEW u \in Users PROVE item'[u][p] = 0
        <3>1. CASE item[u][p] > 0
            <4>1. u \in Deleted(t)
                BY <2>2, <3>1 DEF Deleted
            <4> QED
                BY <1>2, <2>1, <4>1 DEF DropItems, Counts
        <3>2. CASE ~(item[u][p] > 0)
            BY <1>2, <2>1, <3>2 DEF DropItems, Counts
        <3> QED
            BY <3>1, <3>2
    <2>4. \A u \in Users, q \in Products \ {p} : item'[u][q] = item[u][q]
        BY <1>2, <2>1 DEF DropItems, Counts
    <2>5. ASSUME NEW s \in Txns \ {t} PROVE Leaves(s)
        <3>1. ASSUME NEW u \in Users, item[u][p] > 0 PROVE LockOf(s, ItemRow(u, p)) \notin held
            BY <2>2, <3>1 DEF IInv, LocksOK, LockOf, Conflict
        <3>2. \A l \in held : ~(l.txn = s /\ l.row = ProductRow(p))
            BY <2>1 DEF IInv, LocksOK, LockOf, Conflict
        <3>3. \A q \in Products : q # p => listed'[q] = listed[q]
            BY <2>1 DEF IInv, TypeOK, RowTypes
        <3> QED
            BY <2>1, <2>3, <2>4, <3>1, <3>2, <3>3 DEF Leaves
    <2>6. NoDanglingReference'
        <3>1. \A q \in Products : q # p => listed'[q] = listed[q]
            BY <2>1 DEF IInv, TypeOK, RowTypes
        <3> QED
            BY <2>1, <2>3, <2>4, <3>1 DEF JInv, NoDanglingReference, Ordered
    <2>7. LedgerMatchesOrders'
        BY <2>1 DEF JInv, LedgerMatchesOrders, books
    <2> QED
        BY <2>1, <2>5, <2>6, <2>7, EndClaims
<1> QED
    BY <1>4, <1>5, <1>6, <1>7, <1>8

\* Every step of an import.
LEMMA ImportClaims ==
    ASSUME IInv, JInv, NEW t \in Txns,
           \/ ImportOpen(t) \/ ImportRead(t) \/ ImportFlush(t) \/ ImportRow(t)
           \/ ImportRefused(t) \/ ImportCommit(t)
    PROVE  JInv'
<1>1. pc[t] \in ImportLabels /\ BackOfficeStep(t)
    BY DEF ImportOpen, ImportRead, ImportFlush, ImportRow, ImportRefused, ImportCommit, ImportLabels,
           BackOfficeStep
<1>2. req[t].op = "import" /\ pc[t] # "done"
    BY <1>1 DEF JInv, ClaimsOK, StageOK, Serves, AddLabels, CheckoutLabels, SetLabels, DropLabels,
                ImportLabels
<1>3. ASSUME pc'[t] \in ImportLabels, req'[t] = req[t], UNCHANGED <<rows, books, reply>>, BackOfficeOK(t)'
      PROVE  JInv'
    BY <1>1, <1>2, <1>3, BackOfficeMoves DEF Serves
<1>4. CASE ImportOpen(t) \/ ImportRead(t) \/ ImportFlush(t)
    <2>1. /\ pc[t] \in {"import", "import_read"} /\ pc'[t] \in ImportLabels /\ req'[t] = req[t]
          /\ UNCHANGED <<rows, books, reply, held>>
        BY <1>4 DEF ImportOpen, ImportRead, ImportFlush, Goto, ImportLabels, IInv, TypeOK, TxnTypes
    <2>2. \A l \in held : l.txn # t
        BY <2>1 DEF JInv, ClaimsOK, BackOfficeOK
    <2>3. BackOfficeOK(t)'
        BY <2>1, <2>2 DEF BackOfficeOK, ImportLabels
    <2> QED
        BY <1>3, <2>1, <2>3
<1>5. CASE ImportRow(t)
    <2>1. PICK p \in Products :
              \/ /\ Missing(t, p) \/ listed[p]
                 /\ \E mode \in Modes : held' = held \cup {[txn |-> t, row |-> ProductRow(p), mode |-> mode]}
              \/ UNCHANGED held
        BY <1>5 DEF ImportRow, Lock, Modes
    <2>2. pc[t] = "import_rows" /\ UNCHANGED <<rows, books, pc, req, reply, orm>>
        BY <1>5 DEF ImportRow
    <2>3. ASSUME NEW l \in held', NEW q \in Products, l.txn = t, l.row = ProductRow(q)
          PROVE  Missing(t, q) \/ listed[q]
        <3>1. CASE l \in held
            BY <2>2, <2>3, <3>1 DEF JInv, ClaimsOK, BackOfficeOK
        <3>2. CASE l \notin held
            BY <2>1, <2>3, <3>2, RowsApart
        <3> QED
            BY <3>1, <3>2
    <2>4. BackOfficeOK(t)'
        BY <2>2, <2>3 DEF BackOfficeOK, Missing, rows
    <2> QED
        BY <1>3, <2>2, <2>4 DEF ImportLabels
<1>6. CASE ImportRefused(t)
    BY <1>6, RollbackClaims DEF ImportRefused
<1>7. CASE ImportCommit(t)
    <2> DEFINE written == {p \in Seed(t) : \E l \in held : l.txn = t /\ l.row = ProductRow(p)}
    <2>1. /\ End(t, "ok") /\ UNCHANGED <<active, item, orders, spent, sold>>
          /\ \A p \in Products : listed[p] => listed'[p]
          /\ \A p \in Products : p \notin written => price'[p] = price[p] /\ stock'[p] = stock[p]
        BY <1>7 DEF ImportCommit
    <2>2. ASSUME NEW s \in Txns \ {t}, NEW p \in Products, LockOf(s, ProductRow(p)) \in held
          PROVE  p \notin written
        BY <2>2 DEF IInv, LocksOK, LockOf, Conflict
    <2> HIDE DEF written
    <2> QED
        BY <2>1, <2>2, OtherCommitted
<1> QED
    BY <1>4, <1>5, <1>6, <1>7

\* Every step of the back office.
LEMMA BackOfficeClaims ==
    ASSUME IInv, JInv, NEW t \in Txns, BackOfficeStep(t)
    PROVE  JInv'
BY CreditClaims, CloseClaims, EditClaims, DropClaims, ImportClaims DEF BackOfficeStep

-----------------------------------------------------------------------------
(* Initial states, arrival, and the theorems *)

\* At first nothing is ordered, and the books are empty.
LEMMA InitClaims == Init => JInv
<1> SUFFICES ASSUME Init PROVE JInv
    OBVIOUS
<1>1. NoDanglingReference /\ NoProductGone
    BY DEF Init, NoDanglingReference, NoProductGone
<1>2. \A u \in Users, k \in Keys : orders[u][k].total = 0 /\ \A p \in Products : orders[u][k].lines[p] = 0
    BY DEF Init, NoOrder, None
<1>3. ASSUME NEW u \in Users PROVE SumFunction(Totals(u)) = 0
    <2>1. \A k \in Keys : Totals(u)[k] = 0
        BY <1>2 DEF Totals
    <2>2. SumFunctionOnSet(Totals(u), Keys) = 0
        BY <2>1, FiniteAssumption, SumZero
    <2> QED
        BY <2>2 DEF SumFunction, Totals
<1>4. ASSUME NEW u \in Users, NEW p \in Products PROVE SumFunction(UnitsOf(u, p)) = 0
    <2>1. \A k \in Keys : UnitsOf(u, p)[k] = 0
        BY <1>2 DEF UnitsOf
    <2>2. SumFunctionOnSet(UnitsOf(u, p), Keys) = 0
        BY <2>1, FiniteAssumption, SumZero
    <2> QED
        BY <2>2 DEF SumFunction, UnitsOf
<1>5. ASSUME NEW p \in Products PROVE SumFunction(UnitsTo(p)) = 0
    <2>1. \A u \in Users : UnitsTo(p)[u] = 0
        BY <1>4 DEF UnitsTo
    <2>2. SumFunctionOnSet(UnitsTo(p), Users) = 0
        BY <2>1, FiniteAssumption, SumZero
    <2> QED
        BY <2>2 DEF SumFunction, UnitsTo
<1>6. LedgerMatchesOrders
    BY <1>3, <1>5 DEF Init, LedgerMatchesOrders, Totals, UnitsOf, UnitsTo
<1>7. \A t \in Txns : ClaimsOK(t)
    BY DEF Init, NoRequest, Blank, ClaimsOK, StageOK, Serves, CartOK, PricesOK, BillOK, AddOK, SetOK,
           BackOfficeOK, CheckoutLabels, CartRead, AddLabels, SetLabels
<1> QED
    BY <1>1, <1>6, <1>7 DEF JInv

\* A request begins with no claim.
LEMMA ReceiveClaims ==
    ASSUME IInv, JInv, NEW t \in Txns, NEW r \in Requests, Receive(t, r)
    PROVE  JInv'
<1>1. /\ pc[t] = "idle" /\ req' = [req EXCEPT ![t] = r] /\ UNCHANGED <<rows, books, held, todo, orm>>
    BY DEF Receive
<1>2. \/ pc' = [pc EXCEPT ![t] = r.op] /\ UNCHANGED reply
      \/ \E answer \in {"unauthorized", "bad_key", "session_error"} :
            pc' = [pc EXCEPT ![t] = "done"] /\ reply' = [reply EXCEPT ![t] = answer]
    BY DEF Receive
<1>3. r \in RequestSpace
    BY RequestsAssumption
<1>4. r.op \in {"checkout", "add", "set", "remove", "clear", "close", "credit", "edit", "drop", "import"}
          /\ (r.op \in {"add", "set", "credit"} => r.qty > 0)
    BY <1>3 DEF RequestSpace
<1>5. /\ req'[t] = r /\ (pc'[t] = r.op \/ pc'[t] = "done")
      /\ \A s \in Txns \ {t} : Apart(s)
    BY <1>1, <1>2 DEF Apart, Same, IInv, TypeOK, TxnTypes
<1>6. orm[t] = Blank /\ \A l \in held : l.txn # t
    BY <1>1 DEF IInv, TxnOK, FreshOK, JInv, ClaimsOK, BackOfficeOK
<1>7. ClaimsOK(t)'
    <2>1. StageOK(t)'
        BY <1>4, <1>5 DEF StageOK, Serves, CheckoutLabels, AddLabels, SetLabels, DropLabels, ImportLabels
    <2>2. CartOK(t)' /\ PricesOK(t)' /\ BillOK(t)'
        <3>1. orm'[t].lines = None /\ orm'[t].total = 0 /\ \A p \in Products : orm'[t].price[p] = 0
            BY <1>1, <1>6 DEF Blank, None
        <3> QED
            BY <1>4, <1>5, <3>1 DEF CartOK, PricesOK, BillOK, CartRead, CheckoutLabels
    <2>3. AddOK(t)' /\ SetOK(t)' /\ BackOfficeOK(t)'
        BY <1>1, <1>4, <1>5, <1>6 DEF AddOK, SetOK, BackOfficeOK, AddLabels, SetLabels
    <2> QED
        BY <2>1, <2>2, <2>3 DEF ClaimsOK
<1>8. \A s \in Txns \ {t} : ClaimsOK(s)'
    <2>1. \A s \in Txns \ {t} : Leaves(s)
        BY <1>1 DEF Leaves, rows
    <2> QED
        BY <1>5, <2>1, OthersClaim DEF JInv
<1>9. NoDanglingReference' /\ LedgerMatchesOrders' /\ NoProductGone'
    <2>1. NoDanglingReference' /\ LedgerMatchesOrders'
        BY <1>1 DEF JInv, NoDanglingReference, LedgerMatchesOrders, Ordered, rows, books
    <2>2. NoProductGone'
        BY <1>2 DEF JInv, NoProductGone, IInv, TypeOK, TxnTypes
    <2> QED
        BY <2>1, <2>2
<1> QED
    BY <1>7, <1>8, <1>9 DEF JInv

\* JInv is inductive beside IInv.
LEMMA NextClaims == IInv /\ JInv /\ [Next]_vars => JInv'
<1> SUFFICES ASSUME IInv, JInv, [Next]_vars PROVE JInv'
    OBVIOUS
<1>1. IInv'
    BY NextKeeps
<1>2. ASSUME NEW t \in Txns, NEW r \in Requests, Receive(t, r) PROVE JInv'
    BY <1>2, ReceiveClaims
<1>3. ASSUME NEW t \in Txns, Step(t) PROVE JInv'
    BY <1>1, <1>3, CheckoutClaims, CartClaims, BackOfficeClaims DEF Step
<1>4. ASSUME NEW t \in Txns, DeadlockAbort(t) \/ Crash(t) PROVE JInv'
    BY <1>4, RollbackClaims DEF DeadlockAbort, Crash
<1>5. CASE UNCHANGED vars
    <2>1. NoDanglingReference' /\ LedgerMatchesOrders' /\ NoProductGone'
        BY <1>5 DEF JInv, NoDanglingReference, LedgerMatchesOrders, NoProductGone, Ordered, vars, rows, books
    <2>2. \A t \in Txns : Apart(t) /\ Leaves(t)
        BY <1>5 DEF Apart, Same, Leaves, vars, rows
    <2>3. \A t \in Txns : ClaimsOK(t)'
        BY <2>2, OthersClaim DEF JInv
    <2> QED
        BY <2>1, <2>3 DEF JInv
<1> QED
    BY <1>2, <1>3, <1>4, <1>5 DEF Next, AllDone

\* What every request may rely on holds in every reachable state.
THEOREM ClaimsHold == Spec => [](IInv /\ JInv)
<1>1. Init => IInv /\ JInv
    BY InitOK, InitClaims
<1>2. IInv /\ JInv /\ [Next]_vars => (IInv /\ JInv)'
    BY NextKeeps, NextClaims
<1> QED
    BY <1>1, <1>2, PTL DEF Spec

\* delete_product and the RESTRICT foreign keys leave no item and no order line without its
\* product, though items are added between the cleaning of the carts and the deletion.
THEOREM NothingDangles == Spec => []NoDanglingReference
<1>1. IInv /\ JInv => NoDanglingReference
    BY DEF JInv
<1> QED
    BY ClaimsHold, <1>1, PTL

\* The branch of the checkout for a product that is gone is dead code.
THEOREM NoneIsGone == Spec => []NoProductGone
<1>1. IInv /\ JInv => NoProductGone
    BY DEF JInv
<1> QED
    BY ClaimsHold, <1>1, PTL

\* What was spent and sold is the sum of the orders, over any number of users, keys and products.
THEOREM BooksAgree == Spec => []LedgerMatchesOrders
<1>1. IInv /\ JInv => LedgerMatchesOrders
    BY DEF JInv
<1> QED
    BY ClaimsHold, <1>1, PTL

-----------------------------------------------------------------------------
(* What single steps of the store may do, and that it implements the shop   *)
(* in which every request takes effect at once: a step that changes a row   *)
(* is a commit, and at its commit a handler still knows what it has read.   *)
(* All other steps change no row.                                           *)

CartLabels == AddLabels \cup SetLabels \cup {"remove", "clear", "clear_rows"}
OfficeLabels == {"credit", "credit_write", "close", "edit", "edit_write"} \cup DropLabels \cup ImportLabels

-----------------------------------------------------------------------------
(* Which step it was *)

\* Where the steps of a checkout are taken.
LEMMA CheckoutAt ==
    ASSUME NEW t, CheckoutStep(t)
    PROVE  pc[t] \in CheckoutLabels
BY DEF CheckoutStep, CheckoutLockUser, CheckoutInactive, CheckoutReplay, CheckoutNewOrder,
       CheckoutNoCart, CheckoutLockCart, CheckoutListItems, CheckoutLockItem, CheckoutEmpty,
       CheckoutListProducts, CheckoutLockProduct, CheckoutPrepare, CheckoutLine, CheckoutNoFunds,
       CheckoutPay, CheckoutLabels

\* Where the steps of the cart's handlers are taken.
LEMMA CartAt ==
    ASSUME NEW t, CartStep(t)
    PROVE  pc[t] \in CartLabels
BY DEF CartStep, AddLockProduct, AddRefused, AddFindCart, AddNewCart, AddCartOwner, AddFindItem,
       AddInsert, AddUpdate, SetLockItem, SetLockCart, SetQuantity, RemoveItem, ClearList, ClearRow,
       ClearCommit, CartLabels, AddLabels, SetLabels

\* Where the steps of the back office are taken.
LEMMA BackOfficeAt ==
    ASSUME NEW t, BackOfficeStep(t)
    PROVE  pc[t] \in OfficeLabels
BY DEF BackOfficeStep, CreditLockUser, CreditWrite, CloseAccount, EditRead, EditWrite, DropList,
       DropRow, DropGet, DropDelete, DropRefused, DropCommit, ImportOpen, ImportRead, ImportFlush,
       ImportRow, ImportRefused, ImportCommit, OfficeLabels, DropLabels, ImportLabels

\* A step is one request's, and the others stay where they are.
LEMMA OneMoves ==
    ASSUME IInv, [Next]_vars, NEW t \in Txns, pc'[t] # pc[t]
    PROVE  \/ \E r \in Requests : Receive(t, r)
           \/ CheckoutStep(t) \/ CartStep(t) \/ BackOfficeStep(t)
           \/ Rollback(t, "deadlock") \/ Rollback(t, "lost")
<1>1. TxnTypes
    BY DEF IInv, TypeOK
<1>2. ASSUME NEW s \in Txns, NEW r \in Requests, Receive(s, r) PROVE s = t
    BY <1>1, <1>2 DEF Receive, TxnTypes
<1>3. ASSUME NEW s \in Txns, s # t, \A x \in Txns \ {s} : Apart(x) PROVE FALSE
    BY <1>3 DEF Apart, Same
<1>4. ASSUME NEW s \in Txns, CheckoutStep(s) \/ CartStep(s) \/ BackOfficeStep(s) PROVE s = t
    BY <1>1, <1>3, <1>4, CheckoutApart, CartApart, BackOfficeApart
<1>5. ASSUME NEW s \in Txns, DeadlockAbort(s) \/ Crash(s)
      PROVE  s = t /\ (Rollback(t, "deadlock") \/ Rollback(t, "lost"))
    <2>1. Rollback(s, "deadlock") \/ Rollback(s, "lost")
        BY <1>5 DEF DeadlockAbort, Crash
    <2>2. s = t
        BY <1>1, <1>3, <2>1, EndApart DEF Rollback
    <2> QED
        BY <2>1, <2>2
<1>6. ~ UNCHANGED vars
    BY DEF vars
<1> QED
    BY <1>2, <1>4, <1>5, <1>6 DEF Next, Step, AllDone

-----------------------------------------------------------------------------
(* Action properties *)

\* A checkout is refused only while its key is unused.
LEMMA CheckoutAnswers ==
    ASSUME IInv, JInv, [Next]_vars, NEW t \in Txns, req[t].op = "checkout",
           Answered(t, {"empty", "gone", "no_stock", "no_funds", "integrity_error"})
    PROVE  orders[req[t].user][req[t].key] = NoOrder
<1>1. pc[t] # "done" /\ pc'[t] = "done"
          /\ reply'[t] \in {"empty", "gone", "no_stock", "no_funds", "integrity_error"}
    BY DEF Answered
<1>2. pc[t] \in CheckoutLabels
    BY <1>1 DEF JInv, ClaimsOK, StageOK, Serves
<1>3. CASE pc[t] \in CheckoutNew
    BY <1>3 DEF IInv, TxnOK, AccountOK
<1>4. CASE pc[t] \in {"checkout", "find_order"}
    <2>1. /\ \A r \in Requests : ~Receive(t, r)
          /\ ~CartStep(t) /\ ~BackOfficeStep(t)
        BY <1>2, CartAt, BackOfficeAt DEF Receive, CheckoutLabels, CartLabels, OfficeLabels, AddLabels,
                                          SetLabels, DropLabels, ImportLabels
    <2>2. CheckoutStep(t) \/ Rollback(t, "deadlock") \/ Rollback(t, "lost")
        BY <1>1, <2>1, OneMoves
    <2>3. \A answer \in Replies : End(t, answer) => reply'[t] = answer
        BY DEF End, IInv, TypeOK, TxnTypes
    <2>4. ~ (Rollback(t, "deadlock") \/ Rollback(t, "lost"))
        BY <1>1, <2>3 DEF Rollback, Replies
    <2>5. CheckoutLockUser(t) \/ CheckoutInactive(t) \/ CheckoutReplay(t) \/ CheckoutNewOrder(t)
        BY <1>4, <2>2, <2>4
           DEF CheckoutStep, CheckoutNoCart, CheckoutLockCart, CheckoutListItems, CheckoutLockItem,
               CheckoutEmpty, CheckoutListProducts, CheckoutLockProduct, CheckoutPrepare, CheckoutLine,
               CheckoutNoFunds, CheckoutPay
    <2>6. CASE CheckoutInactive(t) \/ CheckoutReplay(t)
        BY <1>1, <2>3, <2>6 DEF CheckoutInactive, CheckoutReplay, Rollback, Replies
    <2>7. CASE CheckoutLockUser(t) \/ CheckoutNewOrder(t)
        BY <1>1, <2>7 DEF CheckoutLockUser, CheckoutNewOrder, Goto, IInv, TypeOK, TxnTypes
    <2> QED
        BY <2>5, <2>6, <2>7
<1> QED
    BY <1>2, <1>3, <1>4 DEF CheckoutNew, CheckoutLocked, CheckoutLabels

\* A key that was charged is never answered with a refusal or an error of the unique key.
THEOREM RetriesAreAnswered == Spec => RetryGetsItsOrder
<1>1. IInv /\ JInv /\ [Next]_vars =>
          [\A t \in Txns :
              Answered(t, {"empty", "gone", "no_stock", "no_funds", "integrity_error"})
                  /\ req[t].op = "checkout" => orders[req[t].user][req[t].key] = NoOrder]_vars
    BY CheckoutAnswers
<1> QED
    BY ClaimsHold, <1>1, PTL DEF Spec, RetryGetsItsOrder

\* What a checkout commits, seen from its copies.
LEMMA PaidOrder ==
    ASSUME IInv, JInv, NEW t \in Txns, CheckoutPay(t), orders' # orders
    PROVE  /\ pc[t] = "prepare" /\ todo[t] = {} /\ Enough(t) /\ CheckoutCommit(t)
           /\ req[t].user \in Users /\ req[t].key \in Keys
           /\ orders[req[t].user][req[t].key] = NoOrder
           /\ orm[t].lines = item[req[t].user] /\ orm[t].lines # None
<1>1. pc[t] = "prepare" /\ todo[t] = {} /\ Enough(t)
    BY DEF CheckoutPay
<1>2. CheckoutCommit(t) /\ orders[req[t].user][req[t].key] = NoOrder
    BY DEF CheckoutPay, Rollback, rows
<1>3. req[t].user \in Users /\ req[t].key \in Keys
    BY <1>1 DEF IInv, TxnOK, RequestOK, CheckoutLabels
<1>4. orm[t].lines \in Counts /\ item[req[t].user] \in Counts
    BY <1>3 DEF IInv, TypeOK, TxnTypes, RowTypes, Copies
<1>5. /\ orm[t].lines # None
      /\ \A p \in Products : orm[t].lines[p] = item[req[t].user][p]
    BY <1>1 DEF JInv, ClaimsOK, CartOK, CartRead
<1>6. orm[t].lines = item[req[t].user]
    BY <1>4, <1>5 DEF Counts
<1> QED
    BY <1>1, <1>2, <1>3, <1>5, <1>6

\* Only the commit of a checkout touches an order.
LEMMA OrdersChange ==
    ASSUME [Next]_vars, orders' # orders
    PROVE  \E t \in Txns : CheckoutPay(t)
<1>1. ASSUME NEW t \in Txns, CheckoutStep(t), ~CheckoutPay(t) PROVE UNCHANGED orders
    BY <1>1 DEF CheckoutStep, CheckoutLockUser, CheckoutInactive, CheckoutReplay, CheckoutNewOrder,
                CheckoutNoCart, CheckoutLockCart, CheckoutListItems, CheckoutLockItem, CheckoutEmpty,
                CheckoutListProducts, CheckoutLockProduct, CheckoutPrepare, CheckoutLine,
                CheckoutNoFunds, Goto, Rollback, rows
<1>2. ASSUME NEW t \in Txns, CartStep(t) PROVE UNCHANGED orders
    BY <1>2 DEF CartStep, AddLockProduct, AddRefused, AddFindCart, AddNewCart, AddCartOwner,
                AddFindItem, AddInsert, AddUpdate, PutItem, SetLockItem, SetLockCart, SetQuantity,
                RemoveItem, ClearList, ClearRow, ClearCommit, Goto, Rollback, rows
<1>3. ASSUME NEW t \in Txns, BackOfficeStep(t) PROVE UNCHANGED orders
    BY <1>3 DEF BackOfficeStep, CreditLockUser, CreditWrite, CloseAccount, EditRead, EditWrite,
                DropList, DropRow, DropGet, DropDelete, DropRefused, DropCommit, ImportOpen,
                ImportRead, ImportFlush, ImportRow, ImportRefused, ImportCommit, Goto, Rollback, rows
<1>4. ASSUME NEW t \in Txns, DeadlockAbort(t) \/ Crash(t) PROVE UNCHANGED orders
    BY <1>4 DEF DeadlockAbort, Crash, Rollback, rows
<1>5. ASSUME NEW t \in Txns, NEW r \in Requests, Receive(t, r) PROVE UNCHANGED orders
    BY <1>5 DEF Receive, rows
<1> QED
    BY <1>1, <1>2, <1>3, <1>4, <1>5 DEF Next, Step, AllDone, vars, rows

\* An order appears with a checkout's commit, with the lines of the cart.
LEMMA OrderedCart ==
    ASSUME IInv, JInv, [Next]_vars, NEW u \in Users, NEW k \in Keys, orders'[u][k] # orders[u][k]
    PROVE  orders'[u][k].lines = item[u] /\ item'[u] = None
<1>1. PICK t \in Txns : CheckoutPay(t)
    BY OrdersChange
<1>2. /\ CheckoutCommit(t) /\ req[t].user \in Users /\ req[t].key \in Keys
      /\ orm[t].lines = item[req[t].user]
    BY <1>1, PaidOrder
<1>3. orders' = [orders EXCEPT ![req[t].user][req[t].key] = NewOrder(t)]
          /\ item' = [item EXCEPT ![req[t].user] = None]
    BY <1>2 DEF CheckoutCommit
<1>4. orders \in [Users -> [Keys -> [total : Nat, lines : Counts]]] /\ item \in [Users -> Counts]
    BY DEF IInv, TypeOK, RowTypes
<1>5. u = req[t].user /\ k = req[t].key /\ orders'[u][k] = NewOrder(t) /\ item'[u] = None
    BY <1>2, <1>3, <1>4
<1> QED
    BY <1>2, <1>5 DEF NewOrder

\* The customer pays for what is in the cart at that moment, and for nothing else.
THEOREM OrdersAreCarts == Spec => OrderIsTheCart
<1>1. IInv /\ JInv /\ [Next]_vars =>
          [\A u \in Users, k \in Keys :
              orders'[u][k] # orders[u][k] =>
                  /\ orders'[u][k].lines = item[u]
                  /\ item'[u] = None]_vars
    BY OrderedCart
<1> QED
    BY ClaimsHold, <1>1, PTL DEF Spec, OrderIsTheCart

\* An addition that is answered "ok" has committed, with what it read under the product's lock.
LEMMA AdditionCommits ==
    ASSUME IInv, JInv, [Next]_vars, NEW t \in Txns, Answered(t, {"ok"}), req[t].op = "add"
    PROVE  AddInsert(t) \/ AddUpdate(t)
<1>1. pc[t] # "done" /\ pc'[t] = "done" /\ reply'[t] = "ok"
    BY DEF Answered
<1>2. pc[t] \in AddLabels
    BY <1>1 DEF JInv, ClaimsOK, StageOK, Serves
<1>3. /\ \A r \in Requests : ~Receive(t, r)
      /\ ~CheckoutStep(t) /\ ~BackOfficeStep(t)
    BY <1>2, CheckoutAt, BackOfficeAt DEF Receive, CheckoutLabels, OfficeLabels, AddLabels,
                                          DropLabels, ImportLabels
<1>4. \A answer \in Replies \ {"ok"} : ~Rollback(t, answer)
    BY <1>1 DEF Rollback, End, IInv, TypeOK, TxnTypes
<1>5. CartStep(t)
    <2>1. CartStep(t) \/ Rollback(t, "deadlock") \/ Rollback(t, "lost")
        BY <1>1, <1>3, OneMoves
    <2> QED
        BY <1>4, <2>1 DEF Replies
<1>6. ~AddRefused(t)
    BY <1>4 DEF AddRefused, Replies
<1>7. CASE AddLockProduct(t) \/ AddFindCart(t) \/ AddNewCart(t) \/ AddCartOwner(t) \/ AddFindItem(t)
    BY <1>1, <1>4, <1>7 DEF AddLockProduct, AddFindCart, AddNewCart, AddCartOwner, AddFindItem, Goto,
                            Replies, IInv, TypeOK, TxnTypes
<1> QED
    BY <1>2, <1>5, <1>6, <1>7
       DEF CartStep, SetLockItem, SetLockCart, SetQuantity, RemoveItem, ClearList, ClearRow, ClearCommit,
           AddLabels

\* An addition that is answered "ok" is an INSERT or an UPDATE of what it promises.
LEMMA AdditionIsExact ==
    ASSUME IInv, JInv, [Next]_vars, NEW t \in Txns, Answered(t, {"ok"}), req[t].op = "add"
    PROVE  LET u == req[t].user
               p == req[t].product
           IN  item'[u][p] = item[u][p] + req[t].qty /\ item'[u][p] <= stock'[p]
<1> DEFINE u == req[t].user
           p == req[t].product
<1>1. AddInsert(t) \/ AddUpdate(t)
    BY AdditionCommits
<1>2. pc[t] \in AddLabels \ {"add"}
    BY <1>1 DEF AddInsert, AddUpdate, AddLabels
<1>3. u \in Users /\ p \in Products /\ req[t].qty \in Nat /\ item \in [Users -> Counts]
    BY <1>2 DEF IInv, TxnOK, RequestOK, TypeOK, RowTypes
<1>4. \A answer \in Replies \ {"ok"} : ~Rollback(t, answer)
    BY DEF Answered, Rollback, End, IInv, TypeOK, TxnTypes
<1>5. CASE AddInsert(t)
    <2>1. item[u][p] = 0 /\ PutItem(u, p, req[t].qty)
        BY <1>4, <1>5 DEF AddInsert, Replies
    <2>2. req[t].qty <= stock[p]
        BY <1>5 DEF AddInsert, JInv, ClaimsOK, AddOK
    <2> QED
        BY <1>3, <2>1, <2>2, PutOneItem
<1>6. CASE AddUpdate(t)
    <2>1. item[u][p] > 0 /\ PutItem(u, p, orm[t].lines[p] + req[t].qty)
        BY <1>4, <1>6 DEF AddUpdate, Replies
    <2>2. orm[t].lines[p] + req[t].qty <= stock[p] /\ item[u][p] \in {0, orm[t].lines[p]}
        BY <1>6 DEF AddUpdate, JInv, ClaimsOK, AddOK
    <2> QED
        BY <1>3, <2>1, <2>2, PutOneItem
<1> QED
    BY <1>1, <1>5, <1>6

\* An addition adds to the quantity of the moment, within the stock of the moment.
THEOREM AdditionsAdd == Spec => AdditionAdds
<1>1. IInv /\ JInv /\ [Next]_vars =>
          [\A t \in Txns :
              Answered(t, {"ok"}) /\ req[t].op = "add" =>
                  LET u == req[t].user
                      p == req[t].product
                  IN  /\ item'[u][p] = item[u][p] + req[t].qty
                      /\ item'[u][p] <= stock'[p]]_vars
    BY AdditionIsExact
<1> QED
    BY ClaimsHold, <1>1, PTL DEF Spec, AdditionAdds

-----------------------------------------------------------------------------
(* The refinement: a commit is a step of the shop, and the rest are none.   *)

\* The shop's instance sums with operators of its own, defined alike.
LEMMA ShopSums ==
    ASSUME NEW f
    PROVE  Abstract!SumFunction(f) = SumFunction(f)
BY Zenon DEF Abstract!SumFunction, SumFunction, Abstract!SumFunctionOnSet, SumFunctionOnSet,
             Abstract!FoldFunctionOnSet, FoldFunctionOnSet, Abstract!MapThenFoldSet, MapThenFoldSet

\* The shop's bill of a cart is a sum over the products.
LEMMA ShopBill ==
    ASSUME NEW lines
    PROVE  Abstract!Bill(lines) = SumFunction([p \in Products |-> price[p] * lines[p]])
<1>1. Abstract!Bill(lines) = Abstract!SumFunction([p \in Products |-> price[p] * lines[p]])
    BY DEF Abstract!Bill
<1> QED
    BY <1>1, ShopSums

\* The store starts as the shop does.
LEMMA ShopInits == Init => Abstract!ShopInit
BY StartAssumption DEF Init, Abstract!ShopInit, NoOrder, None, Abstract!Unused, Abstract!Nothing

\* The total of a checkout that has passed all lines is the bill of the cart.
LEMMA TotalIsTheBill ==
    ASSUME IInv, JInv, NEW t \in Txns, pc[t] = "prepare", todo[t] = {}
    PROVE  orm[t].total = Abstract!Bill(orm[t].lines)
<1>1. orm[t].total = SumFunction(Passed(t))
    BY DEF JInv, ClaimsOK, BillOK
<1>2. ASSUME NEW p \in Products
      PROVE  orm[t].price[p] * orm[t].lines[p] = price[p] * orm[t].lines[p]
    <2>1. orm[t].lines[p] \in Nat /\ orm[t].price[p] \in Nat /\ price[p] \in Nat
        BY DEF IInv, TypeOK, TxnTypes, RowTypes, Copies, Counts
    <2>2. CASE orm[t].lines[p] = 0
        BY <2>1, <2>2
    <2>3. CASE orm[t].lines[p] > 0
        <3>1. orm[t].price[p] = price[p]
            BY <2>3 DEF JInv, ClaimsOK, PricesOK, CheckoutLabels
        <3> QED
            BY <3>1
    <2> QED
        BY <2>1, <2>2, <2>3
<1>3. Passed(t) = [p \in Products |-> price[p] * orm[t].lines[p]]
    BY <1>2 DEF Passed
<1> QED
    BY <1>1, <1>3, ShopBill

\* The commit of a checkout is the shop's purchase.
LEMMA PayIsBuy ==
    ASSUME IInv, JInv, NEW t \in Txns, CheckoutPay(t), orders' # orders
    PROVE  Abstract!Buy(req[t].user, req[t].key)
<1> DEFINE u == req[t].user
           k == req[t].key
           lines == orm[t].lines
<1>1. /\ pc[t] = "prepare" /\ todo[t] = {} /\ Enough(t) /\ CheckoutCommit(t)
      /\ u \in Users /\ k \in Keys /\ orders[u][k] = NoOrder /\ lines = item[u] /\ lines # None
    BY PaidOrder
<1>2. /\ lines \in Counts /\ orm[t].stock \in Counts /\ orm[t].total \in Nat /\ stock \in Counts
      /\ item \in [Users -> Counts]
    BY DEF IInv, TypeOK, TxnTypes, RowTypes, Copies
<1>3. active[u] /\ orm[t].bal = balance[u]
    BY <1>1 DEF IInv, TxnOK, AccountOK, UserOK, CheckoutLocked, CheckoutLabels
<1>4. ASSUME NEW p \in Products
      PROVE  /\ lines[p] > 0 => listed[p] /\ lines[p] <= stock[p] /\ orm[t].stock[p] = stock[p]
             /\ stock'[p] = stock[p] - lines[p]
    <2>1. lines[p] \in Nat /\ stock[p] \in Nat
        BY <1>2 DEF Counts
    <2>2. lines[p] > 0 => listed[p]
        BY <1>1 DEF JInv, NoDanglingReference
    <2>3. lines[p] > 0 => orm[t].price[p] > 0 /\ lines[p] <= orm[t].stock[p]
        BY <1>1 DEF IInv, TxnOK, LinesOK
    <2>4. orm[t].price[p] > 0 => orm[t].stock[p] = stock[p]
        BY <1>1 DEF IInv, TxnOK, ProductsOK, CheckoutLabels
    <2>5. stock'[p] = IF lines[p] > 0 THEN orm[t].stock[p] - lines[p] ELSE stock[p]
        BY <1>1 DEF CheckoutCommit
    <2> QED
        BY <2>1, <2>2, <2>3, <2>4, <2>5
<1>5. orm[t].total = Abstract!Bill(item[u]) /\ Abstract!Bill(item[u]) <= balance[u]
    <2>1. orm[t].total = Abstract!Bill(lines)
        BY <1>1, TotalIsTheBill
    <2>2. orm[t].total <= balance[u]
        BY <1>1, <1>2, <1>3 DEF Enough, IInv, TypeOK, RowTypes
    <2>3. lines = item[u]
        BY <1>1
    <2> HIDE DEF lines, u
    <2> QED
        BY <2>1, <2>2, <2>3
<1>6. stock' = [p \in Products |-> stock[p] - item[u][p]]
    <2>1. stock' = [p \in Products |-> stock'[p]]
        BY <1>1 DEF CheckoutCommit
    <2> QED
        BY <1>1, <1>4, <2>1
<1>7. /\ balance' = [balance EXCEPT ![u] = balance[u] - Abstract!Bill(item[u])]
      /\ orders' = [orders EXCEPT ![u][k] = [total |-> Abstract!Bill(item[u]), lines |-> item[u]]]
      /\ item' = [item EXCEPT ![u] = None]
      /\ UNCHANGED <<active, price, listed>>
    BY <1>1, <1>3, <1>5 DEF CheckoutCommit, NewOrder
<1>8. orders[u][k] = Abstract!Unused /\ item[u] # Abstract!Nothing /\ None = Abstract!Nothing
    BY <1>1 DEF NoOrder, None, Abstract!Unused, Abstract!Nothing
<1> QED
    BY <1>1, <1>3, <1>4, <1>5, <1>6, <1>7, <1>8 DEF Abstract!Buy

\* No other step of a checkout is seen in the shop.
LEMMA CheckoutImplements ==
    ASSUME IInv, JInv, NEW t \in Txns, CheckoutStep(t)
    PROVE  Abstract!ShopNext \/ UNCHANGED Abstract!shop
<1>1. CASE CheckoutPay(t) /\ orders' # orders
    <2>1. Abstract!Buy(req[t].user, req[t].key) /\ req[t].user \in Users /\ req[t].key \in Keys
        BY <1>1, PayIsBuy, PaidOrder
    <2> QED
        BY <2>1 DEF Abstract!ShopNext
<1>2. CASE CheckoutPay(t) /\ orders' = orders
    <2>1. pc[t] = "prepare"
        BY <1>2 DEF CheckoutPay
    <2>2. req[t].user \in Users /\ req[t].key \in Keys
        BY <2>1 DEF IInv, TxnOK, RequestOK, CheckoutLabels
    <2>3. orders[req[t].user][req[t].key] = NoOrder
        BY <2>1 DEF IInv, TxnOK, AccountOK, CheckoutNew, CheckoutLocked, CheckoutLabels
    <2>4. orders'[req[t].user][req[t].key].lines = orm[t].lines
        BY <1>2, <2>2, <2>3 DEF CheckoutPay, CheckoutCommit, NewOrder, IInv, TypeOK, RowTypes
    <2>5. orm[t].lines # None
        BY <2>1 DEF JInv, ClaimsOK, CartOK
    <2> QED
        BY <1>2, <2>3, <2>4, <2>5 DEF NoOrder
<1>3. CASE ~CheckoutPay(t)
    BY <1>3 DEF CheckoutStep, CheckoutLockUser, CheckoutInactive, CheckoutReplay, CheckoutNewOrder,
                CheckoutNoCart, CheckoutLockCart, CheckoutListItems, CheckoutLockItem, CheckoutEmpty,
                CheckoutListProducts, CheckoutLockProduct, CheckoutPrepare, CheckoutLine,
                CheckoutNoFunds, Goto, Rollback, rows, Abstract!shop
<1> QED
    BY <1>1, <1>2, <1>3

\* Writing an item is the shop's change of a quantity.
LEMMA PutIsPut ==
    ASSUME IInv, NEW u \in Users, NEW p \in Products, NEW n \in Nat, PutItem(u, p, n),
           listed[p], 0 < n, n <= stock[p]
    PROVE  Abstract!ShopNext
<1>1. stock[p] \in Nat
    BY DEF IInv, TypeOK, RowTypes, Counts
<1>2. n \in 1 .. stock[p]
    BY <1>1
<1>3. Abstract!Put(u, p)
    BY <1>2 DEF Abstract!Put, PutItem
<1> QED
    BY <1>3 DEF Abstract!ShopNext

\* Every step of the cart's handlers is one of the shop, or none.
LEMMA CartImplements ==
    ASSUME IInv, JInv, NEW t \in Txns, CartStep(t)
    PROVE  Abstract!ShopNext \/ UNCHANGED Abstract!shop
<1>1. item \in [Users -> Counts] /\ stock \in Counts
    BY DEF IInv, TypeOK, RowTypes
<1>2. ASSUME UNCHANGED rows PROVE UNCHANGED Abstract!shop
    BY <1>2 DEF rows, Abstract!shop
<1>3. ASSUME NEW answer, Rollback(t, answer) PROVE UNCHANGED Abstract!shop
    BY <1>2, <1>3 DEF Rollback
<1>4. CASE AddInsert(t) \/ AddUpdate(t)
    <2> DEFINE u == req[t].user
               p == req[t].product
    <2>1. pc[t] \in {"insert", "update"}
        BY <1>4 DEF AddInsert, AddUpdate
    <2>2. u \in Users /\ p \in Products /\ req[t].qty \in Nat /\ req[t].qty > 0 /\ listed[p]
        BY <2>1 DEF IInv, TxnOK, RequestOK, JInv, ClaimsOK, AddOK, AddLabels
    <2>3. orm[t].lines[p] \in Nat
        BY <2>2 DEF IInv, TypeOK, TxnTypes, Copies, Counts
    <2>4. CASE \E answer : Rollback(t, answer)
        BY <1>3, <2>4
    <2>5. CASE AddInsert(t) /\ PutItem(u, p, req[t].qty)
        <3>1. req[t].qty <= stock[p]
            BY <2>5 DEF AddInsert, JInv, ClaimsOK, AddOK
        <3> QED
            BY <2>2, <2>5, <3>1, PutIsPut
    <2>6. CASE AddUpdate(t) /\ PutItem(u, p, orm[t].lines[p] + req[t].qty)
        <3>1. orm[t].lines[p] + req[t].qty <= stock[p]
            BY <2>6 DEF AddUpdate, JInv, ClaimsOK, AddOK
        <3>2. orm[t].lines[p] + req[t].qty \in Nat /\ 0 < orm[t].lines[p] + req[t].qty
            BY <2>2, <2>3
        <3> QED
            BY <2>2, <2>6, <3>1, <3>2, PutIsPut
    <2> QED
        BY <1>4, <2>4, <2>5, <2>6 DEF AddInsert, AddUpdate
<1>5. CASE SetQuantity(t)
    <2> DEFINE u == req[t].user
               p == req[t].product
    <2>1. pc[t] = "set_product" /\ u \in Users /\ p \in Products /\ req[t].qty \in Nat
        BY <1>5 DEF SetQuantity, IInv, TxnOK, RequestOK, SetLabels
    <2>2. req[t].qty > 0 /\ item[u][p] > 0
        BY <2>1 DEF JInv, ClaimsOK, SetOK, SetLabels
    <2>3. listed[p]
        BY <1>1, <2>1, <2>2 DEF JInv, NoDanglingReference, Counts
    <2> QED
        BY <1>3, <1>5, <2>1, <2>2, <2>3, PutIsPut DEF SetQuantity
<1>6. CASE RemoveItem(t)
    <2> DEFINE u == req[t].user
               p == req[t].product
    <2>1. u \in Users /\ p \in Products
        BY <1>6 DEF RemoveItem, IInv, TxnOK, RequestOK
    <2>2. [item[u] EXCEPT ![p] = 0] = [q \in Products |-> IF q \in {p} THEN 0 ELSE item[u][q]]
        BY <1>1, <2>1 DEF Counts
    <2>3. item' = [item EXCEPT ![u] = [q \in Products |-> IF q \in {p} THEN 0 ELSE item[u][q]]]
        BY <1>1, <1>6, <2>1, <2>2 DEF RemoveItem
    <2>4. {p} \in SUBSET Products
        BY <2>1
    <2>5. Abstract!TakeOut(u)
        BY <1>6, <2>3, <2>4 DEF RemoveItem, Abstract!TakeOut
    <2> QED
        BY <2>1, <2>5 DEF Abstract!ShopNext
<1>7. CASE ClearCommit(t)
    <2> DEFINE u == req[t].user
               deleted == {p \in Products : \E l \in held : l.txn = t /\ l.row = ItemRow(u, p)}
    <2>1. u \in Users
        BY <1>7 DEF ClearCommit, IInv, TxnOK, RequestOK
    <2>2. /\ item' = [item EXCEPT ![u] = [q \in Products |-> IF q \in deleted THEN 0 ELSE item[u][q]]]
          /\ UNCHANGED <<balance, active, price, stock, listed, orders>>
        BY <1>1, <1>7, <2>1 DEF ClearCommit
    <2>3. deleted \in SUBSET Products
        OBVIOUS
    <2>4. Abstract!TakeOut(u)
        <3> HIDE DEF deleted
        <3> QED
            BY <2>2, <2>3 DEF Abstract!TakeOut
    <2> QED
        BY <2>1, <2>4 DEF Abstract!ShopNext
<1>8. CASE \/ AddLockProduct(t) \/ AddRefused(t) \/ AddFindCart(t) \/ AddNewCart(t) \/ AddCartOwner(t)
           \/ AddFindItem(t) \/ SetLockItem(t) \/ SetLockCart(t) \/ ClearList(t) \/ ClearRow(t)
    BY <1>2, <1>3, <1>8
       DEF AddLockProduct, AddRefused, AddFindCart, AddNewCart, AddCartOwner, AddFindItem, SetLockItem,
           SetLockCart, ClearList, ClearRow, Goto
<1> QED
    BY <1>4, <1>5, <1>6, <1>7, <1>8 DEF CartStep

\* An import writes the rows it has locked; those that were gone come back whole.
LEMMA ImportIsImport ==
    ASSUME IInv, JInv, NEW t \in Txns, ImportCommit(t)
    PROVE  Abstract!ShopNext
<1> DEFINE written == {p \in Seed(t) : \E l \in held : l.txn = t /\ l.row = ProductRow(p)}
           repriced == {p \in written : req[t].price[p] # orm[t].price[p]}
           restocked == {p \in written : Missing(t, p) \/ req[t].stock[p] # orm[t].stock[p]}
           new == {p \in written : ~listed[p]}
<1>1. /\ pc[t] = "import_rows"
      /\ price' = [p \in Products |-> IF p \in repriced THEN req[t].price[p] ELSE price[p]]
      /\ stock' = [p \in Products |-> IF p \in restocked THEN req[t].stock[p] ELSE stock[p]]
      /\ listed' = [p \in Products |-> listed[p] \/ p \in written]
      /\ UNCHANGED <<balance, active, item, orders>>
    BY DEF ImportCommit
<1>2. req[t] \in {r \in Requests : r.op = "import"}
    BY <1>1 DEF JInv, ClaimsOK, StageOK, Serves, AddLabels, CheckoutLabels, SetLabels, DropLabels,
                ImportLabels, NoRequest
<1>3. ASSUME NEW p \in new PROVE p \in repriced \cap restocked
    <2>1. p \in Products /\ req[t].price[p] > 0
        BY DEF Seed
    <2>2. Missing(t, p)
        BY <1>1 DEF JInv, ClaimsOK, BackOfficeOK, Seed
    <2> QED
        BY <2>1, <2>2 DEF Missing
<1>4. /\ repriced \in SUBSET {p \in Products : req[t].price[p] > 0}
      /\ restocked \in SUBSET {p \in Products : req[t].price[p] > 0}
      /\ new \in SUBSET {p \in Products : req[t].price[p] > 0}
      /\ new \subseteq repriced \cap restocked
    BY <1>3 DEF Seed
<1>5. listed' = [p \in Products |-> listed[p] \/ p \in new]
    <2>1. \A p \in Products : listed[p] \/ p \in written <=> listed[p] \/ p \in new
        OBVIOUS
    <2>2. listed \in [Products -> BOOLEAN]
        BY DEF IInv, TypeOK, RowTypes
    <2> HIDE DEF written, new
    <2> QED
        BY <1>1, <2>1, <2>2
<1> HIDE DEF written, repriced, restocked, new
<1>6. Abstract!Import(req[t])
    BY <1>1, <1>4, <1>5 DEF Abstract!Import
<1> QED
    BY <1>2, <1>6 DEF Abstract!ShopNext

\* Every step of the back office is one of the shop, or none.
LEMMA BackOfficeImplements ==
    ASSUME IInv, JInv, NEW t \in Txns, BackOfficeStep(t)
    PROVE  Abstract!ShopNext \/ UNCHANGED Abstract!shop
<1>1. item \in [Users -> Counts] /\ stock \in Counts /\ price \in [Products -> Nat \ {0}]
    BY DEF IInv, TypeOK, RowTypes
<1>2. ASSUME UNCHANGED rows PROVE UNCHANGED Abstract!shop
    BY <1>2 DEF rows, Abstract!shop
<1>3. ASSUME NEW answer, Rollback(t, answer) PROVE UNCHANGED Abstract!shop
    BY <1>2, <1>3 DEF Rollback
<1>4. CASE CreditWrite(t)
    <2> DEFINE u == req[t].user
               sum == orm[t].bal + req[t].qty
    <2>1. u \in Users /\ req[t].qty \in Nat /\ req[t].qty > 0 /\ active[u] /\ orm[t].bal = balance[u]
        BY <1>4 DEF CreditWrite, IInv, TxnOK, RequestOK, UserOK, JInv, ClaimsOK, BackOfficeOK
    <2>2. CASE Rollback(t, "overflow")
        BY <1>3, <2>2
    <2>3. CASE /\ sum <= MaxMoney /\ balance' = [balance EXCEPT ![u] = sum]
               /\ UNCHANGED <<active, price, stock, listed, item, orders>>
        <3>1. balance[u] \in Nat /\ MaxMoney \in Nat
            BY <2>1, StartAssumption DEF IInv, TypeOK, RowTypes
        <3>2. sum \in balance[u] + 1 .. MaxMoney
            BY <2>1, <2>3, <3>1
        <3>3. Abstract!Fund(u)
            BY <2>1, <2>3, <3>2 DEF Abstract!Fund
        <3> QED
            BY <2>1, <3>3 DEF Abstract!ShopNext
    <2> QED
        BY <1>4, <2>2, <2>3 DEF CreditWrite
<1>5. CASE CloseAccount(t)
    <2>1. req[t].user \in Users
        BY <1>5 DEF CloseAccount, IInv, TxnOK, RequestOK
    <2>2. Abstract!Close(req[t].user)
        BY <1>5 DEF CloseAccount, Abstract!Close
    <2> QED
        BY <2>1, <2>2 DEF Abstract!ShopNext
<1>6. CASE EditWrite(t)
    <2> DEFINE p == req[t].product
    <2>1. p \in Products /\ req[t].price \subseteq Nat \ {0} /\ req[t].stock \subseteq Nat
        BY <1>6 DEF EditWrite, IInv, TxnOK, RequestOK
    <2>2. CASE \E answer : Rollback(t, answer)
        BY <1>3, <2>2
    <2>3. CASE /\ listed[p]
               /\ \E x \in Edited(req[t].price, orm[t].price[p], price[p]),
                     y \in Edited(req[t].stock, orm[t].stock[p], stock[p]) :
                  /\ price' = [price EXCEPT ![p] = x]
                  /\ stock' = [stock EXCEPT ![p] = y]
               /\ UNCHANGED <<balance, active, listed, item, orders>>
        <3>1. PICK x \in Edited(req[t].price, orm[t].price[p], price[p]),
                   y \in Edited(req[t].stock, orm[t].stock[p], stock[p]) :
                  /\ price' = [price EXCEPT ![p] = x]
                  /\ stock' = [stock EXCEPT ![p] = y]
            BY <2>3
        <3>2. x \in Nat \ {0} /\ y \in Nat
            BY <1>1, <2>1 DEF Edited, Counts
        <3>3. price'[p] = x /\ stock'[p] = y
            BY <1>1, <2>1, <3>1 DEF Counts
        <3>4. price' = [price EXCEPT ![p] = price'[p]] /\ stock' = [stock EXCEPT ![p] = stock'[p]]
            BY <3>1, <3>3
        <3>5. price'[p] > 0 /\ stock'[p] >= 0
            BY <3>2, <3>3
        <3>6. listed[p] /\ UNCHANGED <<balance, active, listed, item, orders>>
            BY <2>3
        <3>7. Abstract!Edit(p)
            BY ONLY <3>4, <3>5, <3>6 DEF Abstract!Edit
        <3> QED
            BY <2>1, <3>7 DEF Abstract!ShopNext
    <2> QED
        BY <1>6, <2>2, <2>3 DEF EditWrite
<1>7. CASE DropDelete(t)
    <2> DEFINE p == req[t].product
    <2>1. p \in Products
        BY <1>7 DEF DropDelete, IInv, TxnOK, RequestOK, DropLabels
    <2>2. CASE Goto(t, "drop_check")
        BY <1>2, <2>2 DEF Goto
    <2>3. CASE ~listed[p] /\ DropItems(t) /\ UNCHANGED <<balance, active, price, stock, listed, orders>>
        <3>1. ASSUME NEW u \in Users PROVE [item[u] EXCEPT ![p] = 0] = item[u]
            <4>1. item[u][p] = 0
                BY <2>1, <2>3 DEF JInv, NoDanglingReference
            <4> QED
                BY <1>1, <4>1 DEF Counts
        <3>2. item' = item
            BY <1>1, <2>3, <3>1 DEF DropItems
        <3> QED
            BY <2>3, <3>2 DEF Abstract!shop
    <2> QED
        BY <1>7, <2>2, <2>3 DEF DropDelete
<1>8. CASE DropCommit(t)
    <2> DEFINE p == req[t].product
    <2>1. p \in Products
        BY <1>8 DEF DropCommit, IInv, TxnOK, RequestOK, DropLabels
    <2>2. /\ Referring(t) = {} /\ ~Ordered(p) /\ DropItems(t)
          /\ listed' = [listed EXCEPT ![p] = FALSE]
          /\ UNCHANGED <<balance, active, price, stock, orders>>
        BY <1>8 DEF DropCommit
    <2>3. ASSUME NEW u \in Users, u \notin Deleted(t) PROVE [item[u] EXCEPT ![p] = 0] = item[u]
        <3>1. ~(item[u][p] > 0)
            BY <2>2, <2>3 DEF Referring, Deleted
        <3>2. item[u][p] = 0
            BY <1>1, <2>1, <3>1 DEF Counts
        <3> QED
            BY <1>1, <3>2 DEF Counts
    <2>4. item' = [u \in Users |-> [item[u] EXCEPT ![p] = 0]]
        BY <2>2, <2>3 DEF DropItems
    <2>5. \A u \in Users, k \in Keys : orders[u][k].lines[p] = 0
        BY <2>1, <2>2 DEF Ordered, IInv, TypeOK, RowTypes, Counts
    <2>6. Abstract!Drop(p)
        BY <2>2, <2>4, <2>5 DEF Abstract!Drop
    <2> QED
        BY <2>1, <2>6 DEF Abstract!ShopNext
<1>9. CASE \/ CreditLockUser(t) \/ EditRead(t) \/ DropList(t) \/ DropRow(t) \/ DropGet(t)
           \/ DropRefused(t) \/ ImportOpen(t) \/ ImportRead(t) \/ ImportFlush(t) \/ ImportRow(t)
           \/ ImportRefused(t)
    BY <1>2, <1>3, <1>9
       DEF CreditLockUser, EditRead, DropList, DropRow, DropGet, DropRefused, ImportOpen, ImportRead,
           ImportFlush, ImportRow, ImportRefused, Goto
<1> QED
    BY <1>4, <1>5, <1>6, <1>7, <1>8, <1>9, ImportIsImport DEF BackOfficeStep

\* Every step of the store is one of the shop, or none.
LEMMA NextImplements ==
    ASSUME IInv, JInv, [Next]_vars
    PROVE  [Abstract!ShopNext]_(Abstract!shop)
<1>1. ASSUME UNCHANGED rows PROVE UNCHANGED Abstract!shop
    BY <1>1 DEF rows, Abstract!shop
<1>2. ASSUME NEW t \in Txns, NEW r \in Requests, Receive(t, r) PROVE UNCHANGED Abstract!shop
    BY <1>1, <1>2 DEF Receive
<1>3. ASSUME NEW t \in Txns, Step(t) PROVE Abstract!ShopNext \/ UNCHANGED Abstract!shop
    BY <1>3, CheckoutImplements, CartImplements, BackOfficeImplements DEF Step
<1>4. ASSUME NEW t \in Txns, DeadlockAbort(t) \/ Crash(t) PROVE UNCHANGED Abstract!shop
    BY <1>1, <1>4 DEF DeadlockAbort, Crash, Rollback
<1>5. CASE UNCHANGED vars
    BY <1>1, <1>5 DEF vars
<1> QED
    BY <1>2, <1>3, <1>4, <1>5 DEF Next, AllDone

\* The store implements the shop: whatever is interleaved, each request takes effect at once,
\* in its commit, or not at all.
THEOREM StoreIsAShop == Spec => ImplementsShop
<1>1. IInv /\ JInv /\ [Next]_vars => [Abstract!ShopNext]_(Abstract!shop)
    BY NextImplements
<1> QED
    BY ClaimsHold, ShopInits, <1>1, PTL DEF Spec, ImplementsShop, Abstract!ShopSpec

-----------------------------------------------------------------------------
(* Nobody waits in a circle.  Who waits for a product and holds products    *)
(* holds earlier ones: by id, and an import's INSERTs after its UPDATEs.    *)

EmptyHanded ==
    {"idle", "checkout", "credit", "close", "edit", "edit_write", "import", "import_read"}

OrderLabels == EmptyHanded \cup CheckoutLabels \cup {"import_rows"}

\* The import writes p before q.
Before(t, p, q) == IF Missing(t, p) THEN Missing(t, q) /\ p < q ELSE Missing(t, q) \/ p < q

HasNothing(t) == pc[t] \in EmptyHanded => \A l \in held : l.txn # t

\* A checkout has rows of its customer, and products it has come past.
HasItsCart(t) ==
    pc[t] \in CheckoutLabels =>
        \A l \in held : l.txn = t =>
            \/ l.row \in {UserRow(req[t].user), CartRow(req[t].user)}
            \/ \E p \in Products : l.row = ItemRow(req[t].user, p)
            \/ /\ pc[t] \in {"products", "prepare"}
               /\ \E p \in Products :
                     /\ l.row = ProductRow(p) /\ listed[p]
                     /\ pc[t] = "products" => \A q \in Products : ProductRow(q) \in todo[t] => p < q

\* An import has the products it has come past.
HasItsSeed(t) ==
    pc[t] = "import_rows" =>
        \A l \in held : l.txn = t =>
            \E p \in Products :
                l.row = ProductRow(p) /\ \A q \in Products : ProductRow(q) \in todo[t] => Before(t, p, q)

\* A checkout asks for the items of its customer.
AsksItems(t) == pc[t] = "items" => todo[t] \subseteq {ItemRow(req[t].user, p) : p \in Products}

OrderOK(t) == HasNothing(t) /\ HasItsCart(t) /\ HasItsSeed(t) /\ AsksItems(t)

\* Only the deletion of a product takes its row away, with the row locked.
LEMMA ListedStays ==
    ASSUME IInv, JInv, NEW t \in Txns, Step(t), NEW p \in Products, listed[p], ~listed'[p]
    PROVE  LockOf(t, ProductRow(p)) \in held
<1>1. ~UNCHANGED rows /\ ~UNCHANGED listed
    BY DEF rows
<1>2. ~CheckoutStep(t)
    BY <1>1 DEF CheckoutStep, CheckoutLockUser, CheckoutInactive, CheckoutReplay, CheckoutNewOrder,
                CheckoutNoCart, CheckoutLockCart, CheckoutListItems, CheckoutLockItem, CheckoutEmpty,
                CheckoutListProducts, CheckoutLockProduct, CheckoutPrepare, CheckoutLine,
                CheckoutNoFunds, CheckoutPay, CheckoutCommit, Goto, Rollback
<1>3. ~CartStep(t)
    BY <1>1 DEF CartStep, AddLockProduct, AddRefused, AddFindCart, AddNewCart, AddCartOwner,
                AddFindItem, AddInsert, AddUpdate, SetLockItem, SetLockCart, SetQuantity, RemoveItem,
                ClearList, ClearRow, ClearCommit, PutItem, Goto, Rollback
<1>4. BackOfficeStep(t)
    BY <1>2, <1>3 DEF Step
<1>5. ~ImportCommit(t)
    BY DEF ImportCommit
<1>6. DropCommit(t)
    BY <1>1, <1>4, <1>5 DEF BackOfficeStep, CreditLockUser, CreditWrite, CloseAccount, EditRead,
                EditWrite, DropList, DropRow, DropGet, DropDelete, DropRefused, ImportOpen, ImportRead,
                ImportFlush, ImportRow, ImportRefused, Goto, Rollback
<1>7. pc[t] = "drop_check" /\ p = req[t].product
    BY <1>6 DEF DropCommit, IInv, TypeOK, RowTypes
<1> QED
    BY <1>7 DEF JInv, ClaimsOK, BackOfficeOK

\* What another request does changes neither what s holds nor what is left for it to lock.
LEMMA OthersOrder ==
    ASSUME NEW s \in Txns, OrderOK(s), Apart(s),
           \A l \in held, p \in Products : l.txn = s /\ l.row = ProductRow(p) /\ listed[p] => listed'[p]
    PROVE  OrderOK(s)'
<1>1. /\ pc'[s] = pc[s] /\ req'[s] = req[s] /\ todo'[s] = todo[s] /\ orm'[s] = orm[s]
      /\ \A l \in held' : l.txn = s => l \in held
    BY DEF Apart, Same
<1>2. HasNothing(s)'
    BY <1>1 DEF OrderOK, HasNothing
<1>3. HasItsCart(s)'
    BY <1>1 DEF OrderOK, HasItsCart
<1>4. HasItsSeed(s)' /\ AsksItems(s)'
    BY <1>1 DEF OrderOK, HasItsSeed, AsksItems, Before, Missing
<1> QED
    BY <1>2, <1>3, <1>4 DEF OrderOK

\* A step of one request keeps the others in order.
LEMMA StepApart ==
    ASSUME IInv, JInv, NEW t \in Txns, Step(t), NEW s \in Txns \ {t}, OrderOK(s)
    PROVE  OrderOK(s)'
<1>1. Apart(s)
    BY CheckoutApart, CartApart, BackOfficeApart DEF Step, IInv, TypeOK
<1>2. ASSUME NEW l \in held, NEW p \in Products, l.txn = s, l.row = ProductRow(p), listed[p]
      PROVE  listed'[p]
    <2>1. LockOf(t, ProductRow(p)) \notin held
        BY <1>2 DEF IInv, LocksOK, LockOf, Conflict
    <2> QED
        BY <1>2, <2>1, ListedStays
<1> QED
    BY <1>1, <1>2, OthersOrder

\* A request that is over, or whose labels are none of those above, is in nobody's order.
LEMMA OutOfOrder ==
    ASSUME NEW t \in Txns, pc'[t] \notin OrderLabels
    PROVE  OrderOK(t)'
<1>1. HasNothing(t)'
    BY DEF HasNothing, OrderLabels, EmptyHanded
<1>2. HasItsCart(t)' /\ HasItsSeed(t)' /\ AsksItems(t)'
    BY DEF HasItsCart, HasItsSeed, AsksItems, OrderLabels, CheckoutLabels
<1> QED
    BY <1>1, <1>2 DEF OrderOK

\* A checkout takes its customer's row, then his cart's, then the items'.
LEMMA CheckoutStays ==
    ASSUME NEW t \in Txns, OrderOK(t), pc[t] \in CheckoutLabels, pc'[t] \in CheckoutLocked,
           req'[t] = req[t], pc[t] \notin {"products", "prepare"},
           \A l \in held' : l.txn = t => 
              \/ l \in held
              \/ l.row \in {UserRow(req[t].user), CartRow(req[t].user)}
              \/ \E p \in Products : l.row = ItemRow(req[t].user, p),
           AsksItems(t)'
    PROVE  OrderOK(t)'
<1>1. HasItsCart(t)'
    BY DEF OrderOK, HasItsCart
<1> QED
    BY <1>1 DEF OrderOK, HasNothing, HasItsSeed, CheckoutLocked, CheckoutLabels, EmptyHanded

\* A checkout goes from its customer's row to the cart's, the items' and the products'.
LEMMA CheckoutOrder ==
    ASSUME IInv, JInv, NEW t \in Txns, CheckoutStep(t), OrderOK(t)
    PROVE  OrderOK(t)'
<1> USE DEF Goto, TxnTypes, IInv, TypeOK
<1>1. CASE CheckoutLockUser(t) \/ CheckoutNewOrder(t) \/ CheckoutLockCart(t) \/ CheckoutListItems(t)
    <2>1. /\ pc[t] \in {"checkout", "find_order", "cart", "list_items"} /\ req'[t] = req[t]
          /\ pc'[t] \in {"find_order", "cart", "list_items", "items"}
          /\ held' = held \/ \E row \in {UserRow(req[t].user), CartRow(req[t].user)} : Lock(t, row, "update")
        BY <1>1 DEF CheckoutLockUser, CheckoutNewOrder, CheckoutLockCart, CheckoutListItems
    <2>2. \A l \in held' : l.txn = t => l \in held \/ l.row \in {UserRow(req[t].user), CartRow(req[t].user)}
        BY <2>1 DEF Lock
    <2>3. AsksItems(t)'
        BY <1>1, <2>1 DEF AsksItems, CheckoutLockUser, CheckoutNewOrder, CheckoutLockCart, CheckoutListItems
    <2> QED
        BY <2>1, <2>2, <2>3, CheckoutStays DEF CheckoutLabels, CheckoutLocked
<1>2. CASE CheckoutLockItem(t)
    <2>1. PICK p \in Products : held' = held \/ Lock(t, ItemRow(req[t].user, p), "update")
        BY <1>2 DEF CheckoutLockItem
    <2>2. pc[t] = "items" /\ pc'[t] = "items" /\ req'[t] = req[t] /\ todo'[t] \subseteq todo[t]
        BY <1>2 DEF CheckoutLockItem
    <2>3. \A l \in held' : l.txn = t => l \in held \/ l.row = ItemRow(req[t].user, p)
        BY <2>1 DEF Lock
    <2>4. AsksItems(t)'
        BY <2>2 DEF OrderOK, AsksItems
    <2> QED
        BY <2>2, <2>3, <2>4, CheckoutStays DEF CheckoutLabels, CheckoutLocked
<1>3. CASE CheckoutListProducts(t)
    <2>1. pc[t] = "items" /\ pc'[t] = "products" /\ req'[t] = req[t] /\ held' = held
        BY <1>3 DEF CheckoutListProducts
    <2> QED
        BY <2>1, CheckoutStays DEF AsksItems, CheckoutLabels, CheckoutLocked
<1>4. CASE CheckoutLockProduct(t)
    <2>1. PICK p \in Products :
              /\ First(t, ProductRow(p)) /\ todo'[t] = todo[t] \ {ProductRow(p)}
              /\ held' = held \/ (listed[p] /\ Lock(t, ProductRow(p), "update"))
        BY <1>4 DEF CheckoutLockProduct
    <2>2. pc[t] = "products" /\ pc'[t] = "products" /\ req'[t] = req[t] /\ listed' = listed
        BY <1>4 DEF CheckoutLockProduct, rows
    <2>3. ASSUME NEW q \in Products, ProductRow(q) \in todo'[t] PROVE p < q
        <3>1. ProductRow(q) \in todo[t] /\ p # q
            BY <2>1, <2>3
        <3>2. ProductRow(p).product <= ProductRow(q).product
            BY <2>1, <3>1 DEF First
        <3>3. p <= q /\ p # q
            BY <3>1, <3>2 DEF ProductRow, Row
        <3> QED
            BY <3>3, ProductsAssumption
    <2>4. \A l \in held' : l.txn = t => l \in held \/ (l.row = ProductRow(p) /\ listed[p])
        BY <2>1 DEF Lock
    <2>5. HasItsCart(t)'
        <3> SUFFICES ASSUME NEW l \in held', l.txn = t
                     PROVE  \/ l.row \in {UserRow(req[t].user), CartRow(req[t].user)}
                            \/ \E q \in Products : l.row = ItemRow(req[t].user, q)
                            \/ \E q \in Products :
                                  /\ l.row = ProductRow(q) /\ listed[q]
                                  /\ \A r \in Products : ProductRow(r) \in todo'[t] => q < r
            BY <2>2 DEF HasItsCart
        <3>1. CASE l \in held
            BY <2>1, <2>2, <3>1 DEF OrderOK, HasItsCart, CheckoutLabels
        <3>2. CASE l \notin held
            BY <2>3, <2>4, <3>2
        <3> QED
            BY <3>1, <3>2
    <2> QED
        BY <2>2, <2>5 DEF OrderOK, HasNothing, HasItsSeed, AsksItems, EmptyHanded
<1>5. CASE CheckoutPrepare(t) \/ (CheckoutLine(t) /\ pc'[t] = pc[t])
    <2>1. /\ pc[t] \in {"products", "prepare"} /\ pc'[t] = "prepare" /\ req'[t] = req[t]
          /\ held' = held /\ listed' = listed
        BY <1>5 DEF CheckoutPrepare, CheckoutLine, Rollback, End, rows
    <2>2. HasItsCart(t)'
        BY <2>1 DEF OrderOK, HasItsCart, CheckoutLabels
    <2> QED
        BY <2>1, <2>2 DEF OrderOK, HasNothing, HasItsSeed, AsksItems, EmptyHanded
<1>6. CASE pc'[t] = "done"
    BY <1>6, OutOfOrder DEF OrderLabels, EmptyHanded, CheckoutLabels
<1>7. CheckoutLine(t) => pc'[t] = pc[t] \/ pc'[t] = "done"
    BY DEF CheckoutLine, Rollback, End
<1>8. CheckoutInactive(t) \/ CheckoutReplay(t) \/ CheckoutNoCart(t) \/ CheckoutEmpty(t) => pc'[t] = "done"
    BY DEF CheckoutInactive, CheckoutReplay, CheckoutNoCart, CheckoutEmpty, Rollback, End
<1>9. CheckoutNoFunds(t) \/ CheckoutPay(t) => pc'[t] = "done"
    BY DEF CheckoutNoFunds, CheckoutPay, Rollback, End
<1> QED
    BY <1>1, <1>2, <1>3, <1>4, <1>5, <1>6, <1>7, <1>8, <1>9 DEF CheckoutStep

\* An import goes from product to product in the order of its flush.
LEMMA ImportOrder ==
    ASSUME IInv, JInv, NEW t \in Txns, BackOfficeStep(t), pc[t] \in ImportLabels, OrderOK(t)
    PROVE  OrderOK(t)'
<1> USE DEF Goto, TxnTypes, IInv, TypeOK
<1>1. CASE ImportOpen(t) \/ ImportRead(t)
    <2>1. pc[t] \in {"import", "import_read"} /\ pc'[t] = "import_read" /\ held' = held
        BY <1>1 DEF ImportOpen, ImportRead
    <2>2. HasNothing(t)'
        BY <2>1 DEF OrderOK, HasNothing, EmptyHanded
    <2> QED
        BY <2>1, <2>2 DEF OrderOK, HasItsCart, HasItsSeed, AsksItems, CheckoutLabels
<1>2. CASE ImportFlush(t)
    <2>1. pc[t] = "import_read" /\ pc'[t] = "import_rows" /\ held' = held
        BY <1>2 DEF ImportFlush
    <2>2. HasItsSeed(t)'
        BY <2>1 DEF OrderOK, HasNothing, EmptyHanded, HasItsSeed
    <2> QED
        BY <2>1, <2>2 DEF OrderOK, HasNothing, HasItsCart, AsksItems, CheckoutLabels, EmptyHanded
<1>3. CASE ImportRow(t)
    <2>1. PICK p \in Products :
              /\ ImportTurn(t, p) /\ todo'[t] = todo[t] \ {ProductRow(p)}
              /\ held' = held \/ \E mode \in Modes : Lock(t, ProductRow(p), mode)
        BY <1>3 DEF ImportRow, Modes
    <2>2. pc[t] = "import_rows" /\ pc'[t] = "import_rows" /\ orm' = orm
        BY <1>3 DEF ImportRow
    <2>3. ASSUME NEW q \in Products, ProductRow(q) \in todo'[t] PROVE Before(t, p, q)
        <3>1. ProductRow(q) \in todo[t] /\ p # q
            BY <2>1, <2>3
        <3>2. (Missing(t, q) /\ ~Missing(t, p)) \/ ((Missing(t, q) <=> Missing(t, p)) /\ p <= q)
            BY <2>1, <3>1 DEF ImportTurn
        <3>3. p <= q => p < q
            BY <3>1, ProductsAssumption
        <3> QED
            BY <3>2, <3>3 DEF Before
    <2>4. \A l \in held' : l.txn = t => l \in held \/ l.row = ProductRow(p)
        BY <2>1 DEF Lock
    <2>5. \A a, b : Before(t, a, b)' <=> Before(t, a, b)
        BY <2>2 DEF Before, Missing
    <2>6. ASSUME NEW l \in held', l.txn = t
          PROVE  \E q \in Products :
                    l.row = ProductRow(q) /\ \A r \in Products : ProductRow(r) \in todo'[t] => Before(t, q, r)
        <3>1. CASE l \in held
            BY <2>1, <2>2, <2>6, <3>1 DEF OrderOK, HasItsSeed
        <3>2. CASE l \notin held
            BY <2>3, <2>4, <2>6, <3>2
        <3> QED
            BY <3>1, <3>2
    <2>7. HasItsSeed(t)'
        BY <2>5, <2>6 DEF HasItsSeed
    <2> QED
        BY <2>2, <2>7 DEF OrderOK, HasNothing, HasItsCart, AsksItems, EmptyHanded, CheckoutLabels
<1>4. CASE ImportRefused(t) \/ ImportCommit(t)
    <2>1. pc'[t] = "done"
        BY <1>4 DEF ImportRefused, ImportCommit, Rollback, End
    <2> QED
        BY <2>1, OutOfOrder DEF OrderLabels, EmptyHanded, CheckoutLabels
<1> QED
    BY <1>1, <1>2, <1>3, <1>4 DEF BackOfficeStep, ImportLabels, CreditLockUser, CreditWrite, CloseAccount,
         EditRead, EditWrite, DropList, DropRow, DropGet, DropDelete, DropRefused, DropCommit

\* Top-ups, closings and edits have nothing when they ask; deletions are not in order.
LEMMA BackOfficeOrder ==
    ASSUME IInv, JInv, NEW t \in Txns, BackOfficeStep(t), OrderOK(t)
    PROVE  OrderOK(t)'
<1> USE DEF Goto, TxnTypes, IInv, TypeOK, Rollback, End
<1>1. CASE pc'[t] \notin OrderLabels
    BY <1>1, OutOfOrder
<1>2. CASE EditRead(t) /\ pc'[t] # "done"
    <2>1. pc[t] = "edit" /\ pc'[t] = "edit_write" /\ held' = held
        BY <1>2 DEF EditRead
    <2>2. HasNothing(t)'
        BY <2>1 DEF OrderOK, HasNothing, EmptyHanded
    <2> QED
        BY <2>1, <2>2 DEF OrderOK, HasItsCart, HasItsSeed, AsksItems, CheckoutLabels
<1>3. CASE pc[t] \in ImportLabels
    BY <1>3, ImportOrder
<1>4. CreditLockUser(t) \/ CreditWrite(t) \/ CloseAccount(t) => pc'[t] \in {"credit_write", "done"}
    BY DEF CreditLockUser, CreditWrite, CloseAccount
<1>5. EditWrite(t) => pc'[t] = "done"
    BY DEF EditWrite
<1>6. DropList(t) \/ DropRow(t) \/ DropGet(t) => pc'[t] \in {"drop_rows", "drop_delete", "done"}
    BY DEF DropList, DropRow, DropGet
<1>7. DropDelete(t) \/ DropRefused(t) \/ DropCommit(t) => pc'[t] \in {"drop_check", "done"}
    BY DEF DropDelete, DropRefused, DropCommit
<1>8. ImportOpen(t) \/ ImportRead(t) \/ ImportFlush(t) \/ ImportRow(t) \/ ImportRefused(t) \/ ImportCommit(t)
          => pc[t] \in ImportLabels
    BY DEF ImportOpen, ImportRead, ImportFlush, ImportRow, ImportRefused, ImportCommit, ImportLabels
<1>9. pc'[t] \in {"credit_write", "done", "drop_rows", "drop_delete", "drop_check"} =>
          pc'[t] \notin OrderLabels
    BY DEF OrderLabels, EmptyHanded, CheckoutLabels
<1> QED
    BY <1>1, <1>2, <1>3, <1>4, <1>5, <1>6, <1>7, <1>8, <1>9 DEF BackOfficeStep

\* The cart's handlers are not in order.
LEMMA CartOrder ==
    ASSUME IInv, JInv, NEW t \in Txns, CartStep(t)
    PROVE  OrderOK(t)'
<1> USE DEF Goto, TxnTypes, IInv, TypeOK, Rollback, End
<1>1. AddLockProduct(t) \/ AddRefused(t) \/ AddFindCart(t) \/ AddNewCart(t) \/ AddCartOwner(t)
          => pc'[t] \in {"find_cart", "find_item", "new_cart", "cart_owner", "done"}
    BY DEF AddLockProduct, AddRefused, AddFindCart, AddNewCart, AddCartOwner
<1>2. AddFindItem(t) \/ AddInsert(t) \/ AddUpdate(t) => pc'[t] \in {"insert", "update", "done"}
    BY DEF AddFindItem, AddInsert, AddUpdate
<1>3. SetLockItem(t) \/ SetLockCart(t) \/ SetQuantity(t) => pc'[t] \in {"set_cart", "set_product", "done"}
    BY DEF SetLockItem, SetLockCart, SetQuantity
<1>4. RemoveItem(t) \/ ClearList(t) \/ ClearRow(t) \/ ClearCommit(t) => pc'[t] \in {"clear_rows", "done"}
    BY DEF RemoveItem, ClearList, ClearRow, ClearCommit
<1>5. pc'[t] \in {"find_cart", "find_item", "new_cart", "cart_owner", "insert", "update", "set_cart",
                  "set_product", "clear_rows", "done"}
    BY <1>1, <1>2, <1>3, <1>4 DEF CartStep
<1>6. pc'[t] \notin OrderLabels
    BY <1>5 DEF OrderLabels, EmptyHanded, CheckoutLabels
<1> QED
    BY <1>6, OutOfOrder


InOrder == \A t \in Txns : OrderOK(t)

\* InOrder is inductive beside IInv and JInv.
LEMMA NextInOrder == IInv /\ JInv /\ InOrder /\ [Next]_vars => InOrder'
<1> SUFFICES ASSUME IInv, JInv, InOrder, [Next]_vars PROVE InOrder'
    OBVIOUS
<1> USE DEF InOrder
<1>1. ASSUME NEW t \in Txns, NEW r \in Requests, Receive(t, r) PROVE InOrder'
    <2>1. /\ pc[t] = "idle" /\ req' = [req EXCEPT ![t] = r] /\ UNCHANGED <<rows, held, todo, orm>>
          /\ \/ pc' = [pc EXCEPT ![t] = r.op]
             \/ pc' = [pc EXCEPT ![t] = "done"]
        BY <1>1 DEF Receive
    <2>2. \A l \in held : l.txn # t
        BY <2>1 DEF OrderOK, HasNothing, EmptyHanded
    <2>3. pc'[t] \notin {"import_rows", "items"}
        <3>1. r.op \notin {"import_rows", "items"}
            BY RequestsAssumption DEF RequestSpace
        <3> QED
            BY <2>1, <3>1 DEF IInv, TypeOK, TxnTypes
    <2>4. HasNothing(t)' /\ HasItsCart(t)'
        BY <2>1, <2>2 DEF HasNothing, HasItsCart
    <2>5. OrderOK(t)'
        BY <2>3, <2>4 DEF OrderOK, HasItsSeed, AsksItems
    <2>6. \A s \in Txns \ {t} : Apart(s)
        BY <2>1 DEF Apart, Same, IInv, TypeOK, TxnTypes
    <2>7. \A s \in Txns \ {t} : OrderOK(s)'
        BY <2>1, <2>6, OthersOrder DEF rows
    <2> QED
        BY <2>5, <2>7
<1>2. ASSUME NEW t \in Txns, Step(t) PROVE InOrder'
    BY <1>2, StepApart, CheckoutOrder, CartOrder, BackOfficeOrder DEF Step
<1>3. ASSUME NEW t \in Txns, DeadlockAbort(t) \/ Crash(t) PROVE InOrder'
    <2>1. PICK answer : End(t, answer) /\ UNCHANGED rows
        BY <1>3 DEF DeadlockAbort, Crash, Rollback
    <2>2. pc'[t] = "done"
        BY <2>1 DEF End, IInv, TypeOK, TxnTypes
    <2>3. OrderOK(t)'
        BY <2>2, OutOfOrder DEF OrderLabels, EmptyHanded, CheckoutLabels
    <2>4. \A s \in Txns \ {t} : Apart(s)
        BY <2>1, EndApart DEF IInv, TypeOK
    <2>5. \A s \in Txns \ {t} : OrderOK(s)'
        BY <2>1, <2>4, OthersOrder DEF rows
    <2> QED
        BY <2>3, <2>5
<1>4. CASE UNCHANGED vars
    <2>1. \A t \in Txns : Apart(t)
        BY <1>4 DEF Apart, Same, vars
    <2> QED
        BY <1>4, <2>1, OthersOrder DEF vars, rows
<1> QED
    BY <1>1, <1>2, <1>3, <1>4 DEF Next, AllDone

\* An INSERT of the import, whose row may not be there.
Late(t, p) == pc[t] = "import_rows" /\ Missing(t, p)

\* t may be waiting for the row of p.
Wants(t, p) ==
    /\ pc[t] \in {"products", "import_rows"} /\ ProductRow(p) \in todo[t]
    /\ IF Late(t, p) THEN ~listed[p] \/ Leaving(p) ELSE listed[p]

\* Past the items a checkout, like an import, waits for products only.
LEMMA Wanted ==
    ASSUME NEW t, pc[t] \in {"products", "import_rows"}, NEW ask \in Asks(t)
    PROVE  \E p \in Products : ask[1] = ProductRow(p) /\ Wants(t, p)
<1>1. CartAsks(t) = {}
    BY DEF CartAsks
<1>2. CASE pc[t] = "products"
    <2>1. BackOfficeAsks(t) = {}
        BY <1>2 DEF BackOfficeAsks
    <2>2. CheckoutAsks(t) = UNION {ProductAsk(p, "update") : p \in {q \in Products : First(t, ProductRow(q))}}
        BY <1>2 DEF CheckoutAsks
    <2>3. PICK p \in Products : First(t, ProductRow(p)) /\ ask \in ProductAsk(p, "update")
        BY <1>1, <2>1, <2>2 DEF Asks
    <2> QED
        BY <1>2, <2>3 DEF ProductAsk, First, Wants, Late
<1>3. CASE pc[t] = "import_rows"
    <2>1. CheckoutAsks(t) = {}
        BY <1>3 DEF CheckoutAsks
    <2>2. BackOfficeAsks(t) = UNION {ImportAsks(t, p) : p \in {q \in Products : ImportTurn(t, q)}}
        BY <1>3 DEF BackOfficeAsks
    <2>3. PICK p \in Products : ImportTurn(t, p) /\ ask \in ImportAsks(t, p)
        BY <1>1, <2>1, <2>2 DEF Asks
    <2>4. CASE ~Missing(t, p)
        BY <1>3, <2>3, <2>4 DEF ImportAsks, ProductAsk, ImportTurn, Wants, Late
    <2>5. CASE Missing(t, p)
        BY <1>3, <2>3, <2>5 DEF ImportAsks, ImportTurn, Wants, Late
    <2> QED
        BY <2>4, <2>5
<1> QED
    BY <1>2, <1>3

\* Rows of different tables differ, and carts and items of different users.
LEMMA RowsDiffer ==
    ASSUME NEW u, NEW v, NEW p, NEW q
    PROVE  /\ ProductRow(p) \notin {UserRow(u), CartRow(u), ItemRow(u, q)}
           /\ CartRow(v) \notin {UserRow(u), ItemRow(u, q)} /\ ItemRow(v, p) # UserRow(u)
           /\ CartRow(v) = CartRow(u) => u = v
           /\ ItemRow(v, p) = ItemRow(u, q) => u = v
BY DEF ProductRow, UserRow, CartRow, ItemRow, Row

\* Who holds a product that another one waits for, and waits himself, waits for a later one.
LEMMA Ahead ==
    ASSUME IInv, JInv, InOrder, NEW t \in Txns, NEW s \in Txns, NEW p \in Products, NEW q \in Products,
           Wants(s, p), NEW l \in held, l.txn = t, l.row = ProductRow(p), Wants(t, q)
    PROVE  IF Late(s, p) THEN Late(t, q) /\ p < q ELSE Late(t, q) \/ p < q
<1>1. ASSUME Late(s, p) PROVE ~listed[p]
    <2> SUFFICES ASSUME Leaving(p) PROVE FALSE
        BY <1>1 DEF Wants
    <2>1. PICK r \in Txns : pc[r] = "drop_check" /\ req[r].product = p
        BY DEF Leaving
    <2>2. LockOf(r, ProductRow(p)) \in held /\ r # t
        BY <2>1 DEF JInv, ClaimsOK, BackOfficeOK, Wants
    <2> QED
        BY <2>2 DEF IInv, LocksOK, LockOf, Conflict
<1>2. CASE pc[t] = "products"
    <2>1. PICK r \in Products :
              l.row = ProductRow(r) /\ listed[r] /\ \A x \in Products : ProductRow(x) \in todo[t] => r < x
        BY <1>2, RowsDiffer DEF InOrder, OrderOK, HasItsCart, CheckoutLabels
    <2>2. r = p
        BY <2>1, RowsApart
    <2> QED
        BY <1>1, <2>1, <2>2 DEF Wants
<1>3. CASE pc[t] = "import_rows"
    <2>1. PICK r \in Products :
              l.row = ProductRow(r) /\ \A x \in Products : ProductRow(x) \in todo[t] => Before(t, r, x)
        BY <1>3 DEF InOrder, OrderOK, HasItsSeed
    <2>2. r = p
        BY <2>1, RowsApart
    <2>3. Before(t, p, q)
        BY <2>1, <2>2 DEF Wants
    <2>4. Missing(t, p) \/ listed[p]
        BY <1>3 DEF JInv, ClaimsOK, BackOfficeOK
    <2> QED
        BY <1>1, <1>3, <2>3, <2>4 DEF Before, Late
<1> QED
    BY <1>2, <1>3 DEF Wants

\* There is no circle: take the first product that is waited for in one.
LEMMA NoCircle ==
    ASSUME IInv, JInv, InOrder,
           NEW cycle \in SUBSET {t \in Txns : req[t].op \in {"checkout", "credit", "edit", "import", "close"}},
           cycle # {}, WaitCycle(cycle)
    PROVE  FALSE
<1>1. ASSUME NEW t \in cycle
      PROVE  /\ t \in Txns /\ req[t].op \in {"checkout", "credit", "edit", "import", "close"}
             /\ Asks(t) # {}
             /\ \E s \in cycle : \E ask \in Asks(s) : \E l \in held : l.txn = t /\ l.row = ask[1]
             /\ \E s \in cycle : \E ask \in Asks(t) : \E l \in held : l.txn = s /\ s # t /\ l.row = ask[1]
    <2>1. t \in Txns /\ req[t].op \in {"checkout", "credit", "edit", "import", "close"}
        OBVIOUS
    <2>2. Asks(t) # {} /\ (\E s \in cycle : WaitsFor(t, s)) /\ \E s \in cycle : WaitsFor(s, t)
        BY DEF WaitCycle, Blocked
    <2>3. PICK s \in cycle : WaitsFor(t, s)
        BY <2>2
    <2>4. PICK r \in cycle : WaitsFor(r, t)
        BY <2>2
    <2>5. \E ask \in Asks(t) : \E l \in held : l.txn = s /\ s # t /\ l.row = ask[1]
        BY <2>3 DEF WaitsFor, Blockers
    <2>6. \E ask \in Asks(r) : \E l \in held : l.txn = t /\ l.row = ask[1]
        BY <2>4 DEF WaitsFor, Blockers
    <2> QED
        BY <2>1, <2>2, <2>5, <2>6
<1>2. ASSUME NEW t \in cycle PROVE pc[t] \in {"cart", "items", "products", "import_rows"}
    <2>1. pc[t] \notin EmptyHanded
        BY <1>1 DEF InOrder, OrderOK, HasNothing
    <2>2. pc[t] \notin {"done", "find_order", "list_items", "prepare", "credit_write"}
        <3>1. ASSUME pc[t] \in {"done", "find_order", "list_items", "prepare", "credit_write"}
              PROVE  CheckoutAsks(t) = {} /\ CartAsks(t) = {} /\ BackOfficeAsks(t) = {}
            BY <3>1 DEF CheckoutAsks, CartAsks, BackOfficeAsks
        <3> QED
            BY <1>1, <3>1 DEF Asks
    <2>3. Serves(req[t].op, pc[t])
        BY <1>1, <2>2 DEF JInv, ClaimsOK, StageOK
    <2> QED
        BY <1>1, <2>1, <2>2, <2>3 DEF Serves, EmptyHanded, CheckoutLabels, ImportLabels
<1>3. ASSUME NEW t \in cycle, pc[t] \in {"cart", "items"} PROVE FALSE
    <2>1. /\ t \in Txns /\ req[t].user \in Users /\ LockOf(t, UserRow(req[t].user)) \in held
        BY <1>1, <1>3 DEF IInv, TxnOK, RequestOK, UserOK, CheckoutLocked, CheckoutLabels
    <2>2. PICK s \in cycle, ask \in Asks(t), l \in held : l.txn = s /\ s # t /\ l.row = ask[1]
        BY <1>1
    <2>3. ask[1] = CartRow(req[t].user) \/ \E p : ask[1] = ItemRow(req[t].user, p)
        <3>1. CartAsks(t) = {} /\ BackOfficeAsks(t) = {}
            BY <1>3 DEF CartAsks, BackOfficeAsks
        <3>2. ask \in CheckoutAsks(t)
            BY <2>2, <3>1 DEF Asks
        <3>3. CASE pc[t] = "cart"
            BY <3>2, <3>3 DEF CheckoutAsks
        <3>4. CASE pc[t] = "items"
            <4>1. PICK row \in todo[t] : ask = <<row, "update">>
                BY <3>2, <3>4 DEF CheckoutAsks
            <4> QED
                BY <2>1, <3>4, <4>1 DEF InOrder, OrderOK, AsksItems
        <3> QED
            BY <1>3, <3>3, <3>4
    <2>4. pc[s] \in {"cart", "items", "products"} /\ s \in Txns
        <3>1. s \in Txns /\ pc[s] \in {"cart", "items", "products", "import_rows"}
            BY <1>1, <1>2
        <3>2. ASSUME pc[s] = "import_rows" PROVE FALSE
            <4>1. \E p \in Products : l.row = ProductRow(p)
                BY <2>2, <3>1, <3>2 DEF InOrder, OrderOK, HasItsSeed
            <4> QED
                BY <2>2, <2>3, <4>1, RowsDiffer
        <3> QED
            BY <3>1, <3>2
    <2>5. req[s].user = req[t].user
        <3>1. \/ l.row \in {UserRow(req[s].user), CartRow(req[s].user)}
              \/ \E p \in Products : l.row = ItemRow(req[s].user, p)
              \/ \E p \in Products : l.row = ProductRow(p)
            BY <2>2, <2>4 DEF InOrder, OrderOK, HasItsCart, CheckoutLabels
        <3> QED
            BY <2>2, <2>3, <3>1, RowsDiffer, RowsApart
    <2>6. LockOf(s, UserRow(req[t].user)) \in held
        BY <2>4, <2>5 DEF IInv, TxnOK, UserOK, CheckoutLocked, CheckoutLabels
    <2> QED
        BY <2>1, <2>2, <2>6, Exclusive DEF IInv
<1>4. ASSUME NEW t \in cycle
      PROVE  /\ t \in Txns /\ \E p \in Products : Wants(t, p)
             /\ \E s \in cycle, p \in Products :
                   s \in Txns /\ Wants(s, p) /\ \E l \in held : l.txn = t /\ l.row = ProductRow(p)
    <2>1. \A s \in cycle : s \in Txns /\ pc[s] \in {"products", "import_rows"}
        BY <1>1, <1>2, <1>3
    <2>2. \A s \in cycle : \A ask \in Asks(s) : \E p \in Products : ask[1] = ProductRow(p) /\ Wants(s, p)
        BY <2>1, Wanted
    <2>3. PICK s \in cycle : \E ask \in Asks(s) : \E l \in held : l.txn = t /\ l.row = ask[1]
        BY <1>1
    <2>4. PICK p \in Products : Wants(s, p) /\ \E l \in held : l.txn = t /\ l.row = ProductRow(p)
        BY <2>2, <2>3
    <2>5. \E r \in Products : Wants(t, r)
        BY <1>1, <2>2
    <2> QED
        BY <2>1, <2>4, <2>5
\* Of the products that are waited for, UPDATEs first, take the one with the smallest id: its
\* waiter holds a product that another one of the circle waits for, which comes before it.
<1> DEFINE Early == {p \in Products : \E t \in cycle : Wants(t, p) /\ ~Late(t, p)}
           All == {p \in Products : \E t \in cycle : Wants(t, p)}
<1>5. Early \in SUBSET Nat /\ All \in SUBSET Nat /\ All # {}
    <2>1. Products \subseteq Nat
        BY ProductsAssumption
    <2>2. PICK t \in cycle : TRUE
        OBVIOUS
    <2> QED
        BY <1>4, <2>1, <2>2
<1>6. ASSUME NEW t \in cycle, NEW q \in Products, Wants(t, q)
      PROVE  \E s \in cycle, p \in Products :
                Wants(s, p) /\ IF Late(s, p) THEN Late(t, q) /\ p < q ELSE Late(t, q) \/ p < q
    BY <1>4, <1>6, Ahead
<1>7. CASE Early # {}
    <2>1. PICK q \in Early : \A p \in Early : q <= p
        BY <1>5, <1>7, Least
    <2>2. PICK t \in cycle : Wants(t, q) /\ ~Late(t, q)
        OBVIOUS
    <2>3. PICK s \in cycle, p \in Products : Wants(s, p) /\ ~Late(s, p) /\ p < q
        BY <1>6, <2>2
    <2>4. p \in Early /\ p \in Nat /\ q \in Nat
        BY <1>5, <2>3
    <2> QED
        BY <2>1, <2>3, <2>4
<1>8. CASE Early = {}
    <2>1. PICK q \in All : \A p \in All : q <= p
        BY <1>5, Least
    <2>2. PICK t \in cycle : Wants(t, q)
        OBVIOUS
    <2>3. PICK s \in cycle, p \in Products :
              Wants(s, p) /\ IF Late(s, p) THEN Late(t, q) /\ p < q ELSE Late(t, q) \/ p < q
        BY <1>6, <2>2
    <2>4. Late(s, p)
        BY <1>8, <2>3
    <2>5. p < q /\ p \in All /\ p \in Nat /\ q \in Nat
        BY <1>5, <2>3, <2>4
    <2> QED
        BY <2>1, <2>5
<1> QED
    BY <1>7, <1>8

\* Checkouts, wallet charges, edits, imports and closings never wait in a circle, however many
\* there are and whatever products they name; those that are aborted wait for other handlers.
THEOREM NobodyWaitsInACircle == Spec => []NoWaitCycle
<1>1. Init => InOrder
    BY DEF Init, InOrder, OrderOK, HasNothing, HasItsCart, HasItsSeed, AsksItems, CheckoutLabels
<1>2. IInv /\ JInv /\ InOrder => NoWaitCycle
    BY NoCircle DEF NoWaitCycle
<1>3. IInv /\ JInv /\ InOrder /\ [Next]_vars => InOrder'
    BY NextInOrder
<1> QED
    BY <1>1, <1>2, <1>3, ClaimsHold, PTL DEF Spec
=============================================================================
