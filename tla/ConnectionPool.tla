--------------------------- MODULE ConnectionPool ---------------------------
(***************************************************************************)
(* The connection pool of one server process (backend/app/db.py) and the    *)
(* requests that draw from it.  A session takes a connection with its first *)
(* statement and gives it back at its commit or when it is closed.          *)
(*                                                                          *)
(*   "plain"     require_user and the handler share one session             *)
(*   "refresh"   so do they here (in verify_otp its lookup and its INSERT); *)
(*               the handler commits and then reads again, for which the    *)
(*               session connects again: db.refresh (admin.py:76, 94, 106,  *)
(*               profile.py:42, auth.py:125), the cart (cart.py:113)        *)
(*   "checkout"  the handler's session is another one (use_cache=False):    *)
(*               the first keeps its connection to the end                  *)
(*                                                                          *)
(* add_to_cart and update_item would read the cart after their commit too   *)
(* (cart.py:71, 96), but end at their begin() (Store): NoChange of "plain". *)
(* The rows the handlers lock are abstracted to one row.  The pool is       *)
(* external: SQLAlchemy's, which hands a free connection to any waiter and  *)
(* raises TimeoutError when a waiter has waited for pool_timeout.           *)
(***************************************************************************)
EXTENDS Integers, FiniteSets, Functions

CONSTANTS
    Requests,    \* the requests of the process
    Kind,        \* which handler serves a request
    Size         \* pool_size + max_overflow

Kinds == {"plain", "refresh", "checkout"}

ASSUME KindAssumption == Kind \in [Requests -> Kinds]
ASSUME SizeAssumption == Size \in Nat \ {0}
ASSUME RequestsAssumption == IsFiniteSet(Requests)

VARIABLES
    pc,          \* where a request is
    has,         \* the connections its sessions hold
    lock,        \* the requests that hold the row's lock: one at most
    changed,     \* whether its change is committed
    reply

vars == <<pc, has, lock, changed, reply>>

Free == Size - SumFunction(has)

Init ==
    /\ pc = [r \in Requests |-> "idle"]
    /\ has = [r \in Requests |-> 0]
    /\ lock = {}
    /\ changed = [r \in Requests |-> FALSE]
    /\ reply = [r \in Requests |-> "none"]

Goto(r, label) == pc' = [pc EXCEPT ![r] = label]

\* Wrong on purpose: the connection goes back without a rollback, and the row stays locked.
EndLocked(r, answer) ==
    /\ Goto(r, "done")
    /\ has' = [has EXCEPT ![r] = 0]
    /\ reply' = [reply EXCEPT ![r] = answer]
    /\ UNCHANGED lock

\* Every session is closed: get_db leaves "async with SessionLocal()".
End(r, answer) ==
    /\ Goto(r, "done")
    /\ has' = [has EXCEPT ![r] = 0]
    /\ lock' = lock \ {r}
    /\ reply' = [reply EXCEPT ![r] = answer]

Take(r) == Free > 0 /\ has' = [has EXCEPT ![r] = @ + 1]

Arrive(r) ==
    /\ pc[r] = "idle" /\ Goto(r, "user")
    /\ UNCHANGED <<has, lock, changed, reply>>

\* require_user's SELECT.
ReadUser(r) ==
    /\ pc[r] = "user" /\ Take(r)
    /\ Goto(r, "handler")
    /\ UNCHANGED <<lock, changed, reply>>

\* The handler only reads, or ends in an HTTPException before it changes a row: 401, 403, the
\* checkout's 400 of its Idempotency-Key, or any of its refusals once the row is locked.
NoChange(r) ==
    /\ pc[r] \in {"handler", "locked"} /\ End(r, "unchanged")
    /\ UNCHANGED changed

OwnSession(r) ==
    /\ pc[r] = "handler" /\ Kind[r] = "checkout"
    /\ Goto(r, "begin")
    /\ UNCHANGED <<has, lock, changed, reply>>

\* The first statement of the checkout's own session locks the user's row: the session
\* connects before it sends the statement.
Begin(r) ==
    /\ pc[r] = "begin" /\ Take(r)
    /\ Goto(r, "row")
    /\ UNCHANGED <<lock, changed, reply>>

AtRow(r) == pc[r] = "row" \/ (pc[r] = "handler" /\ Kind[r] # "checkout")

\* Wrong on purpose: the row is read without FOR UPDATE.
LockRowNot(r) ==
    /\ AtRow(r)
    /\ lock' = lock \cup {r}
    /\ Goto(r, "locked")
    /\ UNCHANGED <<has, changed, reply>>

LockRow(r) ==
    /\ AtRow(r)
    /\ lock = {}
    /\ lock' = {r}
    /\ Goto(r, "locked")
    /\ UNCHANGED <<has, changed, reply>>

\* Wrong on purpose: the session keeps its connection over the commit.
CommitKeeping(r) ==
    /\ pc[r] = "locked"
    /\ changed' = [changed EXCEPT ![r] = TRUE]
    /\ lock' = lock \ {r}
    /\ Goto(r, IF Kind[r] = "refresh" THEN "refresh" ELSE "answer")
    /\ UNCHANGED <<has, reply>>

\* Wrong on purpose: the checkout reads its order again before it answers.
CommitAndReread(r) ==
    /\ pc[r] = "locked"
    /\ changed' = [changed EXCEPT ![r] = TRUE]
    /\ lock' = lock \ {r}
    /\ has' = [has EXCEPT ![r] = @ - 1]
    /\ Goto(r, "refresh")
    /\ UNCHANGED reply

\* The commit ends the transaction and gives the session's connection back.
Commit(r) ==
    /\ pc[r] = "locked"
    /\ changed' = [changed EXCEPT ![r] = TRUE]
    /\ lock' = lock \ {r}
    /\ has' = [has EXCEPT ![r] = @ - 1]
    /\ Goto(r, IF Kind[r] = "refresh" THEN "refresh" ELSE "answer")
    /\ UNCHANGED reply

\* db.refresh, or _cart_for_user of delete_item.
Refresh(r) ==
    /\ pc[r] = "refresh" /\ Take(r)
    /\ Goto(r, "answer")
    /\ UNCHANGED <<lock, changed, reply>>

Answer(r) == pc[r] = "answer" /\ End(r, "ok") /\ UNCHANGED changed

Waits(r) == pc[r] \in {"user", "begin", "refresh"}

\* pool_timeout: the TimeoutError is a 500, and get_db closes the sessions.
Timeout(r) == Waits(r) /\ Free = 0 /\ End(r, "error") /\ UNCHANGED changed

Work(r) ==
    \/ ReadUser(r) \/ NoChange(r) \/ OwnSession(r) \/ Begin(r) \/ LockRow(r) \/ Commit(r)
    \/ Refresh(r) \/ Answer(r) \/ Timeout(r)

Next == \E r \in Requests : Arrive(r) \/ Work(r)

Spec == Init /\ [][Next]_vars

\* The event loop runs every coroutine that can go on, and the timers; requests need not come.
FairSpec == Spec /\ \A r \in Requests : WF_vars(Work(r))

-----------------------------------------------------------------------------

Labels == {"idle", "user", "handler", "begin", "row", "locked", "refresh", "answer", "done"}

TypeOK ==
    /\ pc \in [Requests -> Labels] /\ has \in [Requests -> 0 .. 2]
    /\ Free \in 0 .. Size
    /\ lock = {r \in Requests : pc[r] = "locked"} /\ Cardinality(lock) <= 1
    /\ changed \in [Requests -> BOOLEAN]
    /\ reply \in [Requests -> {"none", "ok", "unchanged", "error"}]

\* Nobody can go on before a timeout: every request that has begun waits for a connection.
Stalled ==
    /\ \E r \in Requests : Waits(r)
    /\ Free = 0
    /\ \A r \in Requests : ~Waits(r) => pc[r] \in {"idle", "done"}

\* The server stands still only when as many checkouts as the pool has connections (ten,
\* db.py) have each taken one and wait for their second: fewer never exhaust it, whatever
\* else is asked for.
StallTakesAPoolOfCheckouts ==
    Stalled => Cardinality({r \in Requests : pc[r] = "begin"}) = Size

\* A 500 of the pool means that nothing was changed, except by the handlers that read again
\* after their commit, which are those of kind "refresh": create_product, update_product,
\* update_main_image, update_username, delete_item and verify_otp.  A checkout that is refused
\* has charged nothing, at whichever of its two waits it was refused.
ErrorMeansUnchanged ==
    \A r \in Requests : reply[r] = "error" /\ changed[r] => Kind[r] = "refresh"

\* Every request is answered: the pool's timeout resolves a standstill of checkouts that
\* wait for each other's connections, which PostgreSQL's deadlock detector cannot see.
EveryRequestAnswered == \A r \in Requests : pc[r] = "user" ~> pc[r] = "done"
=============================================================================
