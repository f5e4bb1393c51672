-------------------------------- MODULE Store --------------------------------
(***************************************************************************)
(* The store: requests of customers and of the administrator interleaved    *)
(* over one database, with worker crashes and PostgreSQL's deadlock         *)
(* detector.  The properties of the whole are stated here.                  *)
(***************************************************************************)
EXTENDS Checkout, CartOps, BackOffice, Functions

-----------------------------------------------------------------------------
(* Who waits for whom.  PostgreSQL aborts a transaction of a cycle.         *)

Asks(t) == CheckoutAsks(t) \cup CartAsks(t) \cup BackOfficeAsks(t)

WaitsFor(t, s) ==
    \E ask \in Asks(t) : \E l \in Blockers(held, t, ask[1], ask[2]) : l.txn = s

Blocked(t) == Asks(t) # {} /\ \A ask \in Asks(t) : ~Free(t, ask[1], ask[2])

WaitCycle(cycle) ==
    \A x \in cycle :
        /\ Blocked(x)
        /\ \E y \in cycle : WaitsFor(x, y)
        /\ \E y \in cycle : WaitsFor(y, x)

Deadlocked(t) == \E cycle \in SUBSET Txns : t \in cycle /\ WaitCycle(cycle)

DeadlockAbort(t) == Running(t) /\ Deadlocked(t) /\ Rollback(t, "deadlock")

-----------------------------------------------------------------------------

Step(t) == CheckoutStep(t) \/ CartStep(t) \/ BackOfficeStep(t)

\* Every request has been answered: there is nothing left to do.
AllDone == (\A t \in Txns : pc[t] = "done") /\ UNCHANGED vars

Next ==
    \/ \E t \in Txns : (\E r \in Requests : Receive(t, r))
    \/ \E t \in Txns : Step(t)
    \/ \E t \in Txns : DeadlockAbort(t) \/ Crash(t)
    \/ AllDone

Spec == Init /\ [][Next]_vars

\* A worker that is not waiting goes on; a request that waits is woken when the lock is
\* free; PostgreSQL looks for a deadlock after deadlock_timeout.  Requests need not come.
FairSpec == Spec /\ \A t \in Txns : WF_vars(Step(t)) /\ WF_vars(DeadlockAbort(t))

-----------------------------------------------------------------------------
(* Invariants *)

Labels == {"idle", "done", "checkout", "find_order", "cart", "list_items", "items", "products",
           "prepare", "add", "find_cart", "new_cart", "cart_owner", "find_item", "insert", "update",
           "set", "set_cart", "set_product", "remove", "clear", "clear_rows", "credit",
           "credit_write", "close", "edit", "edit_write", "drop", "drop_rows", "drop_delete",
           "drop_check", "import", "import_read", "import_rows"}
Replies == {"none", "ok", "replay", "unauthorized", "bad_key", "session_error", "not_found", "empty",
            "gone", "no_stock", "no_funds", "integrity_error", "stale_data", "overflow", "deadlock",
            "lost"}
Rows == [table : Tables, user : Users \cup {""}, product : Products \cup {0}]
Counts == [Products -> Nat]
Copies == [bal : Nat, total : Nat, stock : Counts, price : Counts, lines : Counts]

RowTypes ==
    /\ balance \in [Users -> 0 .. MaxMoney] /\ active \in [Users -> BOOLEAN]
    /\ price \in [Products -> Nat \ {0}] /\ stock \in Counts /\ listed \in [Products -> BOOLEAN]
    /\ carts \subseteq Users /\ item \in [Users -> Counts]
    /\ orders \in [Users -> [Keys -> [total : Nat, lines : Counts]]]

TxnTypes ==
    /\ pc \in [Txns -> Labels] /\ req \in [Txns -> RequestSpace \cup {NoRequest}]
    /\ reply \in [Txns -> Replies]
    /\ held \subseteq [txn : Txns, row : Rows, mode : Modes]
    /\ todo \in [Txns -> SUBSET Rows] /\ orm \in [Txns -> Copies]

BookTypes ==
    /\ funded \in [Users -> Nat] /\ spent \in [Users -> Nat]
    /\ stocked \in Counts /\ sold \in Counts

\* The types; among them the CHECK constraints of the tables, which no commit may hit:
\* balances, stocks and quantities never go below zero (models.py, __table_args__).
TypeOK == RowTypes /\ TxnTypes /\ BookTypes

\* No update is lost: whatever the interleaving of checkouts, wallet charges and edits,
\* every unit of money and of stock that was ever put in is there or was spent on an order.
\* Handlers write absolute values computed from what they read; the row locks must make
\* those reads current.
NoLostUpdate ==
    /\ \A u \in Users : balance[u] + spent[u] = funded[u]
    /\ \A p \in Products : stock[p] + sold[p] = stocked[p]

\* What customers have spent and taken is what their orders say: no charge without an
\* order, no order without its charge, none counted twice under one Idempotency-Key.
LedgerMatchesOrders ==
    /\ \A u \in Users : spent[u] = SumFunction([k \in Keys |-> orders[u][k].total])
    /\ \A p \in Products :
          sold[p] = SumFunction([u \in Users |-> SumFunction([k \in Keys |-> orders[u][k].lines[p]])])

\* A cart item or an order line never names a product whose row is gone: the cleaning of
\* carts in delete_product and the RESTRICT foreign keys leave no dangling reference, with
\* items inserted between the cleaning and the deletion too.
NoDanglingReference ==
    \A p \in Products : ~listed[p] => ~Ordered(p) /\ \A u \in Users : item[u][p] = 0

\* The 409 "no longer available" of the checkout (checkout.py:79) cannot happen: between the
\* locks on the items and those on the products nobody can delete a product.
NoProductGone == \A t \in Txns : reply[t] # "gone"

\* Checkouts, wallet charges, edits, imports and closings never wait for each other in a
\* circle, though each takes several rows one by one: cart additions, changes and clearings
\* and the deletion of products lock in an order of their own and may.
NoWaitCycle ==
    \A cycle \in SUBSET {t \in Txns : req[t].op \in {"checkout", "credit", "edit", "import", "close"}} :
        cycle # {} => ~WaitCycle(cycle)

\* A signed-in customer's request reaches the body of its handler: the cart of the page
\* ("Add products from the store to continue.", frontend/app.js:394) can be filled.
HandlerGetsItsTransaction == \A t \in Txns : reply[t] # "session_error"

-----------------------------------------------------------------------------
(* Action properties *)

Answered(t, answers) == pc[t] # "done" /\ pc'[t] = "done" /\ reply'[t] \in answers

\* A retry under a key that was charged is answered with the order it made: although the
\* cart is empty and the money gone by then, never "empty", "no stock" or "no funds", and
\* never the 500 of the unique key.  Two such requests may be in flight at once.
RetryGetsItsOrder ==
    [][\A t \in Txns :
        Answered(t, {"empty", "gone", "no_stock", "no_funds", "integrity_error"})
            /\ req[t].op = "checkout" => orders[req[t].user][req[t].key] = NoOrder]_vars

\* Nobody pays from a closed account, though the account was read before it was closed and
\* the request waited meanwhile.
ClosedAccountPaysNothing ==
    [][\A u \in Users : ~active[u] => spent'[u] = spent[u]]_vars

\* The order has exactly the lines of the committed cart, and the cart is left empty: an item
\* added or changed while the checkout runs is neither sold unseen nor swept away unsold.
OrderIsTheCart ==
    [][\A u \in Users, k \in Keys :
        orders'[u][k] # orders[u][k] =>
            /\ orders'[u][k].lines = item[u]
            /\ item'[u] = None]_vars

\* An addition adds: the quantity that is committed is the one in the cart at that moment
\* plus the one asked for, and within the stock, though both were read earlier.
AdditionAdds ==
    [][\A t \in Txns :
        Answered(t, {"ok"}) /\ req[t].op = "add" =>
            LET u == req[t].user
                p == req[t].product
            IN  /\ item'[u][p] = item[u][p] + req[t].qty
                /\ item'[u][p] <= stock'[p]]_vars

-----------------------------------------------------------------------------
(* Liveness and refinement *)

\* Every request that has begun is answered, in spite of lock waits and deadlocks.
EveryRequestAnswered == \A t \in Txns : Running(t) ~> pc[t] = "done"

Abstract == INSTANCE Shop WITH
    Users <- Users, Products <- Products, Keys <- Keys, MaxMoney <- MaxMoney,
    Seeds <- {r \in Requests : r.op = "import"},
    balance <- balance, active <- active, price <- price, stock <- stock, listed <- listed,
    item <- item, orders <- orders

\* Each request takes effect at once, in its commit.
ImplementsShop == Abstract!ShopSpec
=============================================================================
