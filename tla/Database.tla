------------------------------ MODULE Database ------------------------------
(***************************************************************************)
(* The rows of the store's database and the transactions that serve one     *)
(* HTTP request each (backend/app/models.py, db.py, dependencies.py).       *)
(*                                                                          *)
(* A transaction runs READ COMMITTED.  A statement reads committed rows; a  *)
(* locking statement waits until no other transaction holds a conflicting   *)
(* lock and then reads the latest version of the row.  What a handler has   *)
(* read is kept in the objects of its ORM session (orm), and every UPDATE   *)
(* is computed from those copies.  Writes become visible at the commit, so  *)
(* they are installed by the handler's last step; a rollback drops them.    *)
(***************************************************************************)
EXTENDS Naturals, FiniteSets, RowLocks

CONSTANTS
    Users,         \* the customers' accounts
    Products,      \* product ids, ordered by <=
    Keys,          \* Idempotency-Key values the checkout accepts
    Txns,          \* requests in flight; each opens at most one transaction
    Requests,      \* what a client may ask for
    OwnSession,    \* operations whose handler gets a session of its own
    Crashable,     \* requests whose worker may die
    MaxMoney,      \* the largest value of a NUMERIC(12,2) column
    StartBalance, StartPrice, StartStock, StartItem, StartCarts

NoKey == "no key"          \* the header is missing or longer than 128
NoRequest == [op |-> "none"]

\* Handlers a customer calls for himself; the others are the administrator's.
CustomerOps == {"checkout", "add", "set", "remove", "clear", "close"}
\* Handlers whose body runs in "async with db.begin()".
BlockOps == {"checkout", "add", "set", "credit"}

RequestSpace ==
    [op : {"checkout"}, user : Users, key : Keys \cup {NoKey}]
        \cup [op : {"add", "set"}, user : Users, product : Products, qty : Nat \ {0}]
        \cup [op : {"remove"}, user : Users, product : Products]
        \cup [op : {"clear", "close"}, user : Users]
        \cup [op : {"credit"}, user : Users, qty : Nat \ {0}]
        \* a PATCH carries a field or leaves it out: the empty set
        \cup [op : {"edit"}, product : Products, price : SUBSET (Nat \ {0}), stock : SUBSET Nat]
        \cup [op : {"drop"}, product : Products]
        \* a seed file; a product it does not list has no price
        \cup [op : {"import"}, price : [Products -> Nat], stock : [Products -> Nat]]

ASSUME ProductsAssumption == Products \subseteq Nat \ {0}
\* Tables are finite, and so are strings of at most 128 characters.
ASSUME FiniteAssumption == IsFiniteSet(Users) /\ IsFiniteSet(Products) /\ IsFiniteSet(Keys)
ASSUME RequestsAssumption == Requests \subseteq RequestSpace
ASSUME StartAssumption ==
    /\ MaxMoney \in Nat
    /\ StartBalance \in [Users -> 0 .. MaxMoney]
    /\ StartPrice \in [Products -> Nat \ {0}]
    /\ StartStock \in [Products -> Nat]
    /\ StartItem \in [Users -> [Products -> Nat]]
    /\ StartCarts \subseteq Users
    /\ \A u \in Users : u \notin StartCarts => StartItem[u] = [p \in Products |-> 0]

VARIABLES
    balance, active,           \* users: the wallet, is_active
    price, stock, listed,      \* products: price, quantity, and whether the row exists
    carts, item,               \* carts: the users that own one; item[u][p], 0 for no row
    orders,                    \* orders[u][k], with the order's lines
    pc, req, reply,            \* where a request is, what it asks, how it was answered
    held, todo, orm,           \* its row locks, the rows left to lock, its ORM copies
    funded, spent,             \* history: money credited to and spent by a user
    stocked, sold              \* history: units put on sale and sold of a product

rows == <<balance, active, price, stock, listed, carts, item, orders>>
books == <<funded, spent, stocked, sold>>
vars == <<rows, pc, req, reply, held, todo, orm, books>>

None == [p \in Products |-> 0]
NoOrder == [total |-> 0, lines |-> None]     \* orders_total_positive: a real total is > 0
Blank == [bal |-> 0, total |-> 0, stock |-> None, price |-> None, lines |-> None]

\* Products that some order line refers to (order_items.product_id, RESTRICT).
Ordered(p) == \E u \in Users, k \in Keys : orders[u][k].lines[p] > 0

Init ==
    /\ balance = StartBalance /\ active = [u \in Users |-> TRUE]
    /\ price = StartPrice /\ stock = StartStock /\ listed = [p \in Products |-> TRUE]
    /\ carts = StartCarts /\ item = StartItem
    /\ orders = [u \in Users |-> [k \in Keys |-> NoOrder]]
    /\ pc = [t \in Txns |-> "idle"]
    /\ req = [t \in Txns |-> NoRequest]
    /\ reply = [t \in Txns |-> "none"]
    /\ held = {} /\ todo = [t \in Txns |-> {}] /\ orm = [t \in Txns |-> Blank]
    /\ funded = StartBalance /\ spent = [u \in Users |-> 0]
    /\ stocked = StartStock /\ sold = [p \in Products |-> 0]

-----------------------------------------------------------------------------
(* What the steps of a handler are made of. *)

Free(t, row, mode) == Grantable(held, t, row, mode)

Lock(t, row, mode) ==
    /\ Free(t, row, mode)
    /\ held' = held \cup {[txn |-> t, row |-> row, mode |-> mode]}

\* Wrong on purpose: a session that is not closed keeps its locks.
EndHoldingLocks(t, answer) ==
    /\ pc' = [pc EXCEPT ![t] = "done"] /\ reply' = [reply EXCEPT ![t] = answer]
    /\ todo' = [todo EXCEPT ![t] = {}] /\ orm' = [orm EXCEPT ![t] = Blank]
    /\ UNCHANGED <<req, held>>

\* The request leaves the handler: its transaction is over, its locks are gone.
End(t, answer) ==
    /\ pc' = [pc EXCEPT ![t] = "done"]
    /\ reply' = [reply EXCEPT ![t] = answer]
    /\ held' = {l \in held : l.txn # t}
    /\ todo' = [todo EXCEPT ![t] = {}]
    /\ orm' = [orm EXCEPT ![t] = Blank]
    /\ UNCHANGED req

\* Without a commit: an HTTPException, an IntegrityError, a lost connection.
Rollback(t, answer) == End(t, answer) /\ UNCHANGED <<rows, books>>

\* A product another transaction has inserted is not seen, and not waited for, before it commits.
ProductAsk(p, mode) == IF listed[p] THEN {<<ProductRow(p), mode>>} ELSE {}

\* Wrong on purpose: no ORDER BY.
FirstAny(t, row) == row \in todo[t]
\* Rows are taken in the order of the product ids.
First(t, row) == row \in todo[t] /\ \A other \in todo[t] : row.product <= other.product

Goto(t, label) == pc' = [pc EXCEPT ![t] = label] /\ UNCHANGED <<rows, books, req, reply>>

-----------------------------------------------------------------------------
(* require_user reads the account without a lock, on the request's session. *)
(* That read begins a transaction; "async with db.begin()" in the handler   *)
(* then raises InvalidRequestError unless the handler's session is another. *)
Receive(t, r) ==
    /\ pc[t] = "idle"
    /\ req' = [req EXCEPT ![t] = r]
    /\ LET refusal == IF r.op \in CustomerOps /\ ~active[r.user] THEN {"unauthorized"}
                      ELSE IF r.op = "checkout" /\ r.key = NoKey THEN {"bad_key"}
                      ELSE IF r.op \in BlockOps \ OwnSession THEN {"session_error"}
                      ELSE {}
       IN  \/ /\ refusal = {}
              /\ pc' = [pc EXCEPT ![t] = r.op]
              /\ UNCHANGED reply
           \/ \E answer \in refusal :
              /\ pc' = [pc EXCEPT ![t] = "done"]
              /\ reply' = [reply EXCEPT ![t] = answer]
    /\ UNCHANGED <<rows, books, held, todo, orm>>

Running(t) == pc[t] \notin {"idle", "done"}

\* The worker dies or the connection drops: PostgreSQL rolls the transaction back.
Crash(t) == t \in Crashable /\ Running(t) /\ Rollback(t, "lost")
=============================================================================
