----------------------------- MODULE StoreProofs -----------------------------
(***************************************************************************)
(* Store is type-correct and loses no update, whatever the customers, the   *)
(* products, the keys, the number of requests in flight, the crashes, and   *)
(* the handlers that have a session of their own.                           *)
(*                                                                          *)
(* The argument: a row lock has one holder (LocksOK); a transaction that    *)
(* computes a write from a copy of a row holds that row's lock since it     *)
(* read it (UserOK, ProductsOK); so the copy is the committed value when    *)
(* the write is installed.                                                  *)
(***************************************************************************)
EXTENDS Store, TLAPS

LockOf(t, row) == [txn |-> t, row |-> row, mode |-> "update"]

CheckoutLabels ==
    {"checkout", "find_order", "cart", "list_items", "items", "products", "prepare"}
CheckoutLocked == CheckoutLabels \ {"checkout"}
CheckoutNew == CheckoutLocked \ {"find_order"}
AddLabels == {"add", "find_cart", "new_cart", "cart_owner", "find_item", "insert", "update"}
SetLabels == {"set", "set_cart", "set_product"}
DropLabels == {"drop", "drop_rows", "drop_delete", "drop_check"}

\* Two transactions never hold conflicting locks on a row.
LocksOK ==
    \A a, b \in held : a.txn # b.txn /\ a.row = b.row => ~Conflict(a.mode, b.mode)

\* A handler has the parameters it reads.
RequestOK(t) ==
    /\ pc[t] \in CheckoutLabels => req[t].user \in Users /\ req[t].key \in Keys
    /\ pc[t] \in AddLabels \cup SetLabels =>
          req[t].user \in Users /\ req[t].product \in Products /\ req[t].qty \in Nat
    /\ pc[t] = "remove" => req[t].user \in Users /\ req[t].product \in Products
    /\ pc[t] \in {"clear", "clear_rows", "close"} => req[t].user \in Users
    /\ pc[t] \in {"credit", "credit_write"} => req[t].user \in Users /\ req[t].qty \in Nat
    /\ pc[t] \in {"edit", "edit_write"} =>
          req[t].product \in Products /\ req[t].price \subseteq Nat \ {0} /\ req[t].stock \subseteq Nat
    /\ pc[t] \in DropLabels => req[t].product \in Products
    /\ pc[t] \in {"import", "import_read", "import_rows"} => req[t].price \in Counts /\ req[t].stock \in Counts

FreshOK(t) == pc[t] \in {"idle", "checkout"} => orm[t] = Blank

\* Past its first statement a checkout, and a wallet charge, holds the user's row.
UserOK(t) ==
    pc[t] \in CheckoutLocked \cup {"credit_write"} =>
        /\ LockOf(t, UserRow(req[t].user)) \in held
        /\ orm[t].bal = balance[req[t].user]

AccountOK(t) ==
    /\ pc[t] \in CheckoutLocked => active[req[t].user]
    /\ pc[t] \in CheckoutNew => orders[req[t].user][req[t].key] = NoOrder

\* A product whose price a checkout has read is locked by it.
ProductsOK(t) ==
    pc[t] \in CheckoutLabels =>
        \A p \in Products : orm[t].price[p] > 0 =>
            LockOf(t, ProductRow(p)) \in held /\ orm[t].stock[p] = stock[p]

\* A line the loop has passed was available.
LinesOK(t) ==
    pc[t] = "prepare" =>
        \A p \in Products : orm[t].lines[p] > 0 /\ ItemRow(req[t].user, p) \notin todo[t] =>
            orm[t].price[p] > 0 /\ orm[t].lines[p] <= orm[t].stock[p]

TxnOK(t) ==
    /\ RequestOK(t) /\ FreshOK(t)
    /\ UserOK(t) /\ AccountOK(t) /\ ProductsOK(t) /\ LinesOK(t)

IInv == TypeOK /\ LocksOK /\ NoLostUpdate /\ \A t \in Txns : TxnOK(t)

-----------------------------------------------------------------------------
(* Rows and locks *)

\* The names of the rows.
LEMMA RowTyping ==
    ASSUME NEW u \in Users, NEW p \in Products
    PROVE  UserRow(u) \in Rows /\ CartRow(u) \in Rows /\ ItemRow(u, p) \in Rows
               /\ ProductRow(p) \in Rows
BY DEF Rows, Tables, Row, UserRow, CartRow, ItemRow, ProductRow

\* A granted lock conflicts with none that is held, and stays until its holder ends.
LEMMA LockKeeps ==
    ASSUME TxnTypes, LocksOK, NEW t \in Txns, NEW row \in Rows, NEW mode \in Modes,
           Lock(t, row, mode)
    PROVE  /\ LocksOK'
           /\ held' \subseteq [txn : Txns, row : Rows, mode : Modes]
           /\ held \subseteq held'
           /\ [txn |-> t, row |-> row, mode |-> mode] \in held'
<1> DEFINE new == [txn |-> t, row |-> row, mode |-> mode]
<1>1. held' = held \cup {new} /\ new \in [txn : Txns, row : Rows, mode : Modes]
    BY DEF Lock
<1>2. \A l \in held : l.txn # t /\ l.row = row => ~Conflict(l.mode, mode)
    BY DEF Lock, Free, Grantable, Blockers
<1>3. \A m, n : Conflict(m, n) => Conflict(n, m)
    BY DEF Conflict
<1>4. LocksOK'
    <2> SUFFICES ASSUME NEW a \in held', NEW b \in held', a.txn # b.txn, a.row = b.row
                 PROVE  ~Conflict(a.mode, b.mode)
        BY DEF LocksOK
    <2>1. CASE a \in held /\ b \in held
        BY <2>1 DEF LocksOK
    <2>2. CASE a = new /\ b \in held
        BY <2>2, <1>2, <1>3
    <2>3. CASE a \in held /\ b = new
        BY <2>3, <1>2
    <2> QED
        BY <1>1, <2>1, <2>2, <2>3
<1> QED
    BY <1>1, <1>4 DEF TxnTypes

\* What one transaction has locked for update no other one can lock, or has locked.
LEMMA Exclusive ==
    ASSUME LocksOK, NEW t, NEW s, s # t, NEW row, NEW mode,
           LockOf(s, row) \in held,
           Free(t, row, mode) \/ LockOf(t, row) \in held
    PROVE  FALSE
<1>1. CASE Free(t, row, mode)
    BY <1>1 DEF Free, Grantable, Blockers, Conflict, LockOf
<1>2. CASE LockOf(t, row) \in held
    BY <1>2 DEF LocksOK, Conflict, LockOf
<1> QED
    BY <1>1, <1>2

-----------------------------------------------------------------------------
(* A step of t seen from another transaction s *)

\* The step leaves the request of s, its copies and its locks alone.
Same(s) ==
    /\ pc'[s] = pc[s] /\ req'[s] = req[s] /\ todo'[s] = todo[s] /\ orm'[s] = orm[s]
    /\ \A l \in held : l.txn = s => l \in held'

\* The step does not write what s has locked.
Respects(s) ==
    /\ \A u \in Users : LockOf(s, UserRow(u)) \in held =>
          balance'[u] = balance[u] /\ active'[u] = active[u] /\ orders'[u] = orders[u]
    /\ \A p \in Products : LockOf(s, ProductRow(p)) \in held => stock'[p] = stock[p]

\* A request keeps its invariant when others leave alone what it has locked.
LEMMA OthersKeep ==
    ASSUME NEW s \in Txns, TxnOK(s), Same(s), Respects(s)
    PROVE  TxnOK(s)'
<1> USE DEF Same
<1>1. RequestOK(s)'
    BY DEF TxnOK, RequestOK
<1>2. FreshOK(s)'
    BY DEF TxnOK, FreshOK
<1>3. \A row : LockOf(s, row) \in held => LockOf(s, row) \in held'
    BY DEF LockOf
<1>4. UserOK(s)'
    BY <1>3 DEF TxnOK, UserOK, RequestOK, Respects, CheckoutLocked, CheckoutLabels
<1>5. AccountOK(s)'
    BY DEF TxnOK, AccountOK, UserOK, RequestOK, Respects, CheckoutLocked, CheckoutNew, CheckoutLabels
<1>6. ProductsOK(s)'
    BY <1>3 DEF TxnOK, ProductsOK, Respects
<1>7. LinesOK(s)'
    BY DEF TxnOK, LinesOK
<1> QED
    BY <1>1, <1>2, <1>4, <1>5, <1>6, <1>7 DEF TxnOK

\* A request that has been answered makes no claim.
LEMMA DoneOK ==
    ASSUME NEW t \in Txns, pc'[t] = "done"
    PROVE  TxnOK(t)'
BY DEF TxnOK, RequestOK, FreshOK, UserOK, AccountOK, ProductsOK, LinesOK, CheckoutLabels,
       CheckoutLocked, CheckoutNew, AddLabels, SetLabels, DropLabels

\* The end of a request frees its locks and no others.
LEMMA EndKeeps ==
    ASSUME TxnTypes, LocksOK, NEW t \in Txns, NEW answer \in Replies, End(t, answer)
    PROVE  /\ TxnTypes' /\ LocksOK' /\ pc'[t] = "done"
           /\ \A s \in Txns \ {t} : Same(s)
<1>1. Blank \in Copies
    BY DEF Blank, Copies, None, Counts
<1>2. TxnTypes'
    BY <1>1 DEF TxnTypes, End, Labels
<1>3. LocksOK'
    BY DEF LocksOK, End
<1>4. \A s \in Txns \ {t} : Same(s)
    BY DEF End, Same, TxnTypes
<1> QED
    BY <1>2, <1>3, <1>4 DEF End, TxnTypes

-----------------------------------------------------------------------------
(* The three kinds of steps: a rollback, a step that only reads and locks,  *)
(* and a commit.                                                            *)

\* A rollback writes nothing.
LEMMA RollbackKeeps ==
    ASSUME IInv, NEW t \in Txns, NEW answer \in Replies, Rollback(t, answer)
    PROVE  IInv'
<1>1. UNCHANGED <<rows, books>> /\ End(t, answer)
    BY DEF Rollback
<1>2. TxnTypes' /\ LocksOK' /\ pc'[t] = "done" /\ \A s \in Txns \ {t} : Same(s)
    BY <1>1, EndKeeps DEF IInv, TypeOK
<1>3. RowTypes' /\ BookTypes' /\ NoLostUpdate'
    BY <1>1 DEF IInv, TypeOK, RowTypes, BookTypes, NoLostUpdate, rows, books
<1>4. ASSUME NEW s \in Txns \ {t} PROVE TxnOK(s)'
    <2>1. Respects(s)
        BY <1>1 DEF Respects, rows
    <2> QED
        BY <2>1, <1>2, OthersKeep DEF IInv
<1>5. TxnOK(t)'
    BY <1>2, DoneOK
<1> QED
    BY <1>2, <1>3, <1>4, <1>5 DEF IInv, TypeOK

\* A step that only reads and locks concerns nobody else.
LEMMA MoveKeeps ==
    ASSUME IInv, NEW t \in Txns, UNCHANGED <<rows, books>>, TxnTypes', LocksOK',
           \A s \in Txns \ {t} : Same(s), TxnOK(t)'
    PROVE  IInv'
<1>1. RowTypes' /\ BookTypes' /\ NoLostUpdate'
    BY DEF IInv, TypeOK, RowTypes, BookTypes, NoLostUpdate, rows, books
<1>2. ASSUME NEW s \in Txns \ {t} PROVE TxnOK(s)'
    <2>1. Respects(s)
        BY DEF Respects, rows
    <2> QED
        BY <2>1, OthersKeep DEF IInv
<1> QED
    BY <1>1, <1>2 DEF IInv, TypeOK

\* A commit ends its request and writes nothing another one has locked.
LEMMA CommitKeeps ==
    ASSUME IInv, NEW t \in Txns, End(t, "ok"), RowTypes', BookTypes', NoLostUpdate',
           \A s \in Txns \ {t} : Respects(s)
    PROVE  IInv'
<1>1. "ok" \in Replies
    BY DEF Replies
<1>2. TxnTypes' /\ LocksOK' /\ pc'[t] = "done" /\ \A s \in Txns \ {t} : Same(s)
    BY <1>1, EndKeeps DEF IInv, TypeOK
<1>3. \A s \in Txns \ {t} : TxnOK(s)'
    BY <1>2, OthersKeep DEF IInv
<1>4. TxnOK(t)'
    BY <1>2, DoneOK
<1> QED
    BY <1>2, <1>3, <1>4 DEF IInv, TypeOK

\* The request goes on to another statement, perhaps with one more lock.
LEMMA GotoTypes ==
    ASSUME TxnTypes, LocksOK, NEW t \in Txns, NEW label \in Labels, Goto(t, label),
           todo' \in [Txns -> SUBSET Rows], orm' \in [Txns -> Copies],
           \A s \in Txns \ {t} : todo'[s] = todo[s] /\ orm'[s] = orm[s],
           held' = held \/ \E row \in Rows, mode \in Modes : Lock(t, row, mode)
    PROVE  /\ TxnTypes' /\ LocksOK' /\ held \subseteq held'
           /\ pc'[t] = label /\ req'[t] = req[t]
           /\ \A s \in Txns \ {t} : Same(s)
<1>1. held' \subseteq [txn : Txns, row : Rows, mode : Modes] /\ held \subseteq held' /\ LocksOK'
    <2>1. CASE held' = held
        BY <2>1 DEF TxnTypes, LocksOK
    <2>2. CASE \E row \in Rows, mode \in Modes : Lock(t, row, mode)
        BY <2>2, LockKeeps
    <2> QED
        BY <2>1, <2>2
<1>2. pc' = [pc EXCEPT ![t] = label] /\ UNCHANGED <<req, reply>>
    BY DEF Goto
<1> QED
    BY <1>1, <1>2 DEF TxnTypes, Same

-----------------------------------------------------------------------------
(* Initial states, arrival, and the steps of a checkout *)

\* At first no request has begun and nothing is locked.
LEMMA InitOK == Init => IInv
<1> SUFFICES ASSUME Init PROVE IInv
    OBVIOUS
<1> USE StartAssumption DEF Init
<1>1. None \in Counts /\ Blank \in Copies /\ NoOrder \in [total : Nat, lines : Counts]
    BY DEF None, Counts, Blank, Copies, NoOrder
<1>2. RowTypes
    BY <1>1 DEF RowTypes, Counts
<1>3. TxnTypes
    BY <1>1 DEF TxnTypes, Labels, Replies
<1>4. BookTypes
    BY DEF BookTypes, Counts
<1>5. LocksOK
    BY DEF LocksOK
<1>6. NoLostUpdate
    BY DEF NoLostUpdate
<1>7. \A t \in Txns : TxnOK(t)
    BY DEF TxnOK, RequestOK, FreshOK, UserOK, AccountOK, ProductsOK, LinesOK, CheckoutLabels,
           CheckoutLocked, CheckoutNew, AddLabels, SetLabels, DropLabels
<1> QED
    BY <1>2, <1>3, <1>4, <1>5, <1>6, <1>7 DEF IInv, TypeOK

\* A request begins with the parameters of its operation, and with nothing read.
LEMMA ReceiveKeeps ==
    ASSUME IInv, NEW t \in Txns, NEW r \in Requests, Receive(t, r)
    PROVE  IInv'
<1>1. r \in RequestSpace
    BY RequestsAssumption
<1>2. UNCHANGED <<rows, books, held, todo, orm>> /\ req' = [req EXCEPT ![t] = r] /\ pc[t] = "idle"
    BY DEF Receive
<1>3. \/ pc' = [pc EXCEPT ![t] = r.op] /\ UNCHANGED reply /\ (r.op = "checkout" => r.key # NoKey)
      \/ \E answer \in Replies :
            pc' = [pc EXCEPT ![t] = "done"] /\ reply' = [reply EXCEPT ![t] = answer]
    BY DEF Receive, Replies
<1>4. r.op \in {"checkout", "add", "set", "remove", "clear", "close", "credit", "edit", "drop",
                  "import"}
    BY <1>1 DEF RequestSpace
<1>5. TxnTypes'
    BY <1>1, <1>2, <1>3, <1>4 DEF IInv, TypeOK, TxnTypes, Labels
<1>6. LocksOK'
    BY <1>2 DEF IInv, LocksOK
<1>7. \A s \in Txns \ {t} : Same(s)
    BY <1>2, <1>3 DEF Same, IInv, TypeOK, TxnTypes
<1>8. TxnOK(t)'
    <2>1. CASE pc'[t] = "done"
        BY <2>1, DoneOK
    <2>2. CASE pc' = [pc EXCEPT ![t] = r.op] /\ (r.op = "checkout" => r.key # NoKey)
        <3>1. pc'[t] = r.op /\ req'[t] = r /\ orm'[t] = Blank
            BY <2>2, <1>2 DEF IInv, TypeOK, TxnTypes, TxnOK, FreshOK
        <3>2. RequestOK(t)'
            BY <3>1, <2>2, <1>1, <1>4
               DEF RequestOK, RequestSpace, CheckoutLabels, AddLabels, SetLabels, DropLabels, Counts
        <3>3. UserOK(t)' /\ AccountOK(t)' /\ LinesOK(t)'
            BY <3>1, <1>4 DEF UserOK, AccountOK, LinesOK, CheckoutLocked, CheckoutNew, CheckoutLabels
        <3>4. FreshOK(t)' /\ ProductsOK(t)'
            BY <3>1 DEF FreshOK, ProductsOK, Blank, None
        <3> QED
            BY <3>2, <3>3, <3>4 DEF TxnOK
    <2> QED
        BY <1>2, <1>3, <2>1, <2>2 DEF IInv, TypeOK, TxnTypes
<1> QED
    BY <1>2, <1>5, <1>6, <1>7, <1>8, MoveKeeps

\* What a label past the first says about the parameters, for use in the cases below.
LEMMA CheckoutParameters ==
    ASSUME IInv, NEW t \in Txns, pc[t] \in CheckoutLabels
    PROVE  /\ req[t].user \in Users /\ req[t].key \in Keys
           /\ UserRow(req[t].user) \in Rows /\ CartRow(req[t].user) \in Rows
           /\ \A p \in Products : ItemRow(req[t].user, p) \in Rows /\ ProductRow(p) \in Rows
           /\ orm[t] \in Copies /\ "update" \in Modes
<1>1. req[t].user \in Users /\ req[t].key \in Keys
    BY DEF IInv, TxnOK, RequestOK
<1>2. orm[t] \in Copies /\ "update" \in Modes
    BY DEF IInv, TypeOK, TxnTypes, Modes
<1> QED
    BY <1>1, <1>2 DEF Row, Rows, Tables, UserRow, CartRow, ItemRow, ProductRow

\* With the user's row locked the copy of the wallet is current.
LEMMA CheckoutLockUserKeeps ==
    ASSUME IInv, NEW t \in Txns, CheckoutLockUser(t)
    PROVE  IInv'
<1> DEFINE u == req[t].user
<1>1. /\ pc[t] = "checkout" /\ Lock(t, UserRow(u), "update")
      /\ orm' = [orm EXCEPT ![t].bal = balance[u]]
      /\ active[u] /\ Goto(t, "find_order") /\ UNCHANGED todo
    BY DEF CheckoutLockUser
<1>2. u \in Users /\ UserRow(u) \in Rows /\ "update" \in Modes /\ pc[t] \in CheckoutLabels
    BY <1>1, CheckoutParameters DEF CheckoutLabels
<1>3. balance[u] \in Nat /\ orm \in [Txns -> Copies] /\ todo \in [Txns -> SUBSET Rows]
    BY <1>2, StartAssumption DEF IInv, TypeOK, RowTypes, TxnTypes
<1>4. orm' \in [Txns -> Copies] /\ orm'[t].bal = balance[u] /\ orm'[t].price = orm[t].price
          /\ \A s \in Txns \ {t} : orm'[s] = orm[s]
    BY <1>1, <1>3 DEF Copies
<1>5. /\ TxnTypes' /\ LocksOK' /\ held \subseteq held'
      /\ pc'[t] = "find_order" /\ req'[t] = req[t]
      /\ \A s \in Txns \ {t} : Same(s)
    BY <1>1, <1>2, <1>3, <1>4, GotoTypes DEF IInv, TypeOK, Labels
<1>6. UNCHANGED <<rows, books>>
    BY <1>1 DEF Goto
<1>7. LockOf(t, UserRow(u)) \in held'
    BY <1>1 DEF Lock, LockOf
<1>8. orm[t] = Blank
    BY <1>1 DEF IInv, TxnOK, FreshOK
<1>9. TxnOK(t)'
    <2>1. RequestOK(t)'
        BY <1>2, <1>5, CheckoutParameters
           DEF RequestOK, CheckoutLabels, AddLabels, SetLabels, DropLabels
    <2>2. FreshOK(t)' /\ LinesOK(t)'
        BY <1>5 DEF FreshOK, LinesOK
    <2>3. UserOK(t)'
        BY <1>4, <1>5, <1>6, <1>7 DEF UserOK, rows
    <2>4. AccountOK(t)'
        BY <1>1, <1>5, <1>6 DEF AccountOK, rows, CheckoutNew
    <2>5. ProductsOK(t)'
        BY <1>4, <1>8 DEF ProductsOK, Blank, None
    <2> QED
        BY <2>1, <2>2, <2>3, <2>4, <2>5 DEF TxnOK
<1> QED
    BY <1>5, <1>6, <1>9, MoveKeeps

\* Steps that leave the copies alone and stay within the checkout.
LEMMA CheckoutMoveKeeps ==
    ASSUME IInv, NEW t \in Txns, NEW label \in CheckoutNew, Goto(t, label),
           pc[t] \in CheckoutLocked,
           pc[t] = "find_order" => orders[req[t].user][req[t].key] = NoOrder,
           UNCHANGED orm,
           todo' \in [Txns -> SUBSET Rows], \A s \in Txns \ {t} : todo'[s] = todo[s],
           held' = held \/ \E row \in Rows, mode \in Modes : Lock(t, row, mode),
           label = "prepare" =>
               \A p \in Products : orm[t].lines[p] > 0 => ItemRow(req[t].user, p) \in todo'[t]
    PROVE  IInv'
<1>1. label \in Labels /\ label \in CheckoutLabels /\ pc[t] \in CheckoutLabels
    BY DEF CheckoutNew, CheckoutLocked, CheckoutLabels, Labels
<1>2. /\ TxnTypes' /\ LocksOK' /\ held \subseteq held'
      /\ pc'[t] = label /\ req'[t] = req[t]
      /\ \A s \in Txns \ {t} : Same(s)
    BY <1>1, GotoTypes DEF IInv, TypeOK, TxnTypes
<1>3. UNCHANGED <<rows, books>>
    BY DEF Goto
<1>4. TxnOK(t)'
    <2>1. RequestOK(t)'
        BY <1>1, <1>2, CheckoutParameters
           DEF RequestOK, CheckoutLabels, AddLabels, SetLabels, DropLabels
    <2>2. FreshOK(t)'
        BY <1>2 DEF FreshOK, CheckoutNew, CheckoutLocked, CheckoutLabels
    <2>3. LinesOK(t)'
        BY <1>2 DEF LinesOK
    <2>4. UserOK(t)'
        BY <1>2, <1>3 DEF IInv, TxnOK, UserOK, rows
    <2>5. AccountOK(t)'
        BY <1>2, <1>3 DEF IInv, TxnOK, AccountOK, rows, CheckoutNew
    <2>6. ProductsOK(t)'
        BY <1>1, <1>2, <1>3 DEF IInv, TxnOK, ProductsOK, rows
    <2> QED
        BY <2>1, <2>2, <2>3, <2>4, <2>5, <2>6 DEF TxnOK
<1> QED
    BY <1>2, <1>3, <1>4, MoveKeeps

\* Locking one more item or product: the pc stays where it is.
LEMMA CheckoutStayKeeps ==
    ASSUME IInv, NEW t \in Txns, pc[t] \in CheckoutLocked,
           UNCHANGED <<rows, books, pc, req, reply>>,
           todo' \in [Txns -> SUBSET Rows], orm' \in [Txns -> Copies],
           \A s \in Txns \ {t} : todo'[s] = todo[s] /\ orm'[s] = orm[s],
           held' = held \/ \E row \in Rows, mode \in Modes : Lock(t, row, mode),
           orm'[t].bal = orm[t].bal,
           \A p \in Products : orm'[t].price[p] > 0 =>
               \/ orm'[t].price[p] = orm[t].price[p] /\ orm'[t].stock[p] = orm[t].stock[p]
               \/ LockOf(t, ProductRow(p)) \in held' /\ orm'[t].stock[p] = stock[p],
           LinesOK(t)'
    PROVE  IInv'
<1>1. pc[t] \in Labels /\ pc[t] \in CheckoutLabels /\ pc[t] \notin {"idle", "checkout"}
    BY DEF CheckoutLocked, CheckoutLabels, Labels
<1>2. Goto(t, pc[t])
    BY DEF Goto, IInv, TypeOK, TxnTypes
<1>3. /\ TxnTypes' /\ LocksOK' /\ held \subseteq held'
      /\ pc'[t] = pc[t] /\ req'[t] = req[t]
      /\ \A s \in Txns \ {t} : Same(s)
    BY <1>1, <1>2, GotoTypes DEF IInv, TypeOK
<1>4. TxnOK(t)'
    <2>1. RequestOK(t)' /\ AccountOK(t)'
        BY <1>3 DEF IInv, TxnOK, RequestOK, AccountOK, rows
    <2>2. FreshOK(t)'
        BY <1>1, <1>3 DEF FreshOK
    <2>3. UserOK(t)'
        BY <1>3 DEF IInv, TxnOK, UserOK, rows
    <2>4. ProductsOK(t)'
        BY <1>1, <1>3 DEF IInv, TxnOK, ProductsOK, rows
    <2> QED
        BY <2>1, <2>2, <2>3, <2>4 DEF TxnOK
<1> QED
    BY <1>3, <1>4, MoveKeeps

\* An item that is read gives a line its quantity.
LEMMA CheckoutLockItemKeeps ==
    ASSUME IInv, NEW t \in Txns, CheckoutLockItem(t)
    PROVE  IInv'
<1> DEFINE u == req[t].user
<1>1. pc[t] = "items" /\ UNCHANGED <<rows, books, pc, req, reply>>
    BY DEF CheckoutLockItem
<1>2. pc[t] \in CheckoutLocked /\ pc[t] \in CheckoutLabels
    BY <1>1 DEF CheckoutLocked, CheckoutLabels
<1>3. PICK p \in Products :
          /\ todo' = [todo EXCEPT ![t] = @ \ {ItemRow(u, p)}]
          /\ \/ Lock(t, ItemRow(u, p), "update") /\ orm' = [orm EXCEPT ![t].lines[p] = item[u][p]]
             \/ UNCHANGED <<held, orm>>
    BY DEF CheckoutLockItem
<1>4. /\ u \in Users /\ ItemRow(u, p) \in Rows /\ "update" \in Modes
      /\ item[u][p] \in Nat /\ orm \in [Txns -> Copies] /\ todo \in [Txns -> SUBSET Rows]
    BY <1>2, CheckoutParameters DEF IInv, TypeOK, TxnTypes, RowTypes, Counts
<1>5. /\ orm' \in [Txns -> Copies] /\ \A s \in Txns \ {t} : orm'[s] = orm[s]
      /\ orm'[t].bal = orm[t].bal /\ orm'[t].price = orm[t].price /\ orm'[t].stock = orm[t].stock
    <2>1. CASE UNCHANGED orm
        BY <2>1, <1>4
    <2>2. CASE orm' = [orm EXCEPT ![t].lines[p] = item[u][p]]
        <3> DEFINE copy == [orm[t] EXCEPT !.lines = [orm[t].lines EXCEPT ![p] = item[u][p]]]
        <3>1. orm' = [orm EXCEPT ![t] = copy]
            BY <2>2
        <3>2. [orm[t].lines EXCEPT ![p] = item[u][p]] \in Counts
            BY <1>4 DEF Copies, Counts
        <3>3. /\ copy \in Copies /\ copy.bal = orm[t].bal
              /\ copy.price = orm[t].price /\ copy.stock = orm[t].stock
            BY <1>4, <3>2 DEF Copies
        <3> HIDE DEF copy
        <3> QED
            BY <3>1, <3>3, <1>4
    <2> QED
        BY <1>3, <2>1, <2>2
<1>6. todo' \in [Txns -> SUBSET Rows] /\ \A s \in Txns \ {t} : todo'[s] = todo[s]
    BY <1>3, <1>4
<1>7. held' = held \/ \E row \in Rows, mode \in Modes : Lock(t, row, mode)
    BY <1>3, <1>4
<1>8. LinesOK(t)'
    BY <1>1 DEF LinesOK
<1> QED
    BY <1>1, <1>2, <1>5, <1>6, <1>7, <1>8, CheckoutStayKeeps

\* Loading a product's copy keeps the types, and the rest of the copies.
LEMMA ProductCopyTypes ==
    ASSUME orm \in [Txns -> Copies], NEW t \in Txns, NEW p \in Products, NEW m \in Nat, NEW n \in Nat,
           orm' = [orm EXCEPT ![t].stock[p] = m, ![t].price[p] = n]
    PROVE  /\ orm' \in [Txns -> Copies] /\ orm'[t].bal = orm[t].bal
           /\ \A s \in Txns \ {t} : orm'[s] = orm[s]
<1> DEFINE s2 == [orm[t].stock EXCEPT ![p] = m]
           p2 == [orm[t].price EXCEPT ![p] = n]
           copy == [orm[t] EXCEPT !.stock = s2, !.price = p2]
<1>1. orm' = [orm EXCEPT ![t] = copy]
    BY DEF Copies
<1>2. s2 \in Counts /\ p2 \in Counts
    BY DEF Copies, Counts
<1> HIDE DEF s2, p2
<1>3. copy \in Copies /\ copy.bal = orm[t].bal
    BY <1>2 DEF Copies
<1> HIDE DEF copy
<1> QED
    BY <1>1, <1>3

\* With a product's row locked the copies of its price and stock are current.
LEMMA CheckoutLockProductKeeps ==
    ASSUME IInv, NEW t \in Txns, CheckoutLockProduct(t)
    PROVE  IInv'
<1>1. pc[t] = "products" /\ UNCHANGED <<rows, books, pc, req, reply>>
    BY DEF CheckoutLockProduct
<1>2. pc[t] \in CheckoutLocked /\ pc[t] \in CheckoutLabels
    BY <1>1 DEF CheckoutLocked, CheckoutLabels
<1>3. PICK p \in Products :
          /\ todo' = [todo EXCEPT ![t] = @ \ {ProductRow(p)}]
          /\ \/ /\ Lock(t, ProductRow(p), "update")
                /\ orm' = [orm EXCEPT ![t].stock[p] = stock[p], ![t].price[p] = price[p]]
             \/ UNCHANGED <<held, orm>>
    BY DEF CheckoutLockProduct
<1>4. /\ ProductRow(p) \in Rows /\ "update" \in Modes
      /\ stock[p] \in Nat /\ price[p] \in Nat
      /\ orm \in [Txns -> Copies] /\ todo \in [Txns -> SUBSET Rows]
    BY <1>2, CheckoutParameters DEF IInv, TypeOK, TxnTypes, RowTypes, Counts
<1>5. /\ orm' \in [Txns -> Copies] /\ \A s \in Txns \ {t} : orm'[s] = orm[s]
      /\ orm'[t].bal = orm[t].bal
    <2>1. CASE UNCHANGED orm
        BY <2>1, <1>4
    <2>2. CASE orm' = [orm EXCEPT ![t].stock[p] = stock[p], ![t].price[p] = price[p]]
        BY <2>2, <1>4, ProductCopyTypes
    <2> QED
        BY <1>3, <2>1, <2>2
<1>6. todo' \in [Txns -> SUBSET Rows] /\ \A s \in Txns \ {t} : todo'[s] = todo[s]
    BY <1>3, <1>4
<1>7. held' = held \/ \E row \in Rows, mode \in Modes : Lock(t, row, mode)
    BY <1>3, <1>4
<1>8. ASSUME NEW q \in Products
      PROVE  \/ orm'[t].price[q] = orm[t].price[q] /\ orm'[t].stock[q] = orm[t].stock[q]
             \/ LockOf(t, ProductRow(q)) \in held' /\ orm'[t].stock[q] = stock[q]
    <2>1. CASE UNCHANGED <<held, orm>>
        BY <2>1
    <2>2. CASE /\ Lock(t, ProductRow(p), "update")
               /\ orm' = [orm EXCEPT ![t].stock[p] = stock[p], ![t].price[p] = price[p]]
        <3>1. LockOf(t, ProductRow(p)) \in held'
            BY <2>2 DEF Lock, LockOf
        <3>2. orm'[t].stock[p] = stock[p]
            BY <2>2, <1>4 DEF Copies, Counts
        <3>3. q # p => orm'[t].price[q] = orm[t].price[q] /\ orm'[t].stock[q] = orm[t].stock[q]
            BY <2>2, <1>4 DEF Copies, Counts
        <3> QED
            BY <3>1, <3>2, <3>3
    <2> QED
        BY <1>3, <2>1, <2>2
<1>9. LinesOK(t)'
    BY <1>1 DEF LinesOK
<1> QED
    BY <1>1, <1>2, <1>5, <1>6, <1>7, <1>8, <1>9, CheckoutStayKeeps

\* A line that is passed was in stock.
LEMMA CheckoutLineKeeps ==
    ASSUME IInv, NEW t \in Txns, CheckoutLine(t)
    PROVE  IInv'
<1> DEFINE u == req[t].user
<1>1. pc[t] = "prepare"
    BY DEF CheckoutLine
<1>2. pc[t] \in CheckoutLocked /\ pc[t] \in CheckoutLabels
    BY <1>1 DEF CheckoutLocked, CheckoutLabels
<1>3. PICK p \in Products :
          \/ Rollback(t, "gone") \/ Rollback(t, "no_stock")
          \/ /\ orm[t].price[p] > 0 /\ orm[t].lines[p] <= orm[t].stock[p]
             /\ orm' = [orm EXCEPT ![t].total = @ + Subtotal(t, p)]
             /\ todo' = [todo EXCEPT ![t] = @ \ {ItemRow(u, p)}]
             /\ UNCHANGED <<rows, books, pc, req, reply, held>>
    BY DEF CheckoutLine
<1>4. CASE Rollback(t, "gone") \/ Rollback(t, "no_stock")
    BY <1>4, RollbackKeeps DEF Replies
<1>5. CASE /\ orm[t].price[p] > 0 /\ orm[t].lines[p] <= orm[t].stock[p]
           /\ orm' = [orm EXCEPT ![t].total = @ + Subtotal(t, p)]
           /\ todo' = [todo EXCEPT ![t] = @ \ {ItemRow(u, p)}]
           /\ UNCHANGED <<rows, books, pc, req, reply, held>>
    <2>1. orm \in [Txns -> Copies] /\ todo \in [Txns -> SUBSET Rows] /\ orm[t].total \in Nat
              /\ orm[t].price[p] \in Nat /\ orm[t].lines[p] \in Nat
        BY DEF IInv, TypeOK, TxnTypes, Copies, Counts
    <2>2. Subtotal(t, p) \in Nat
        <3>1. \A m, n \in Nat : m * n \in Nat
            OBVIOUS
        <3> QED
            BY <2>1, <3>1 DEF Subtotal
    <2>3. /\ orm' \in [Txns -> Copies] /\ \A s \in Txns \ {t} : orm'[s] = orm[s]
          /\ orm'[t].bal = orm[t].bal /\ orm'[t].price = orm[t].price
          /\ orm'[t].stock = orm[t].stock /\ orm'[t].lines = orm[t].lines
        BY <1>5, <2>1, <2>2 DEF Copies
    <2>4. todo' \in [Txns -> SUBSET Rows] /\ \A s \in Txns \ {t} : todo'[s] = todo[s]
        BY <1>5, <2>1
    <2>5. LinesOK(t)'
        <3> SUFFICES ASSUME NEW q \in Products, orm[t].lines[q] > 0, ItemRow(u, q) \notin todo'[t]
                     PROVE  orm[t].price[q] > 0 /\ orm[t].lines[q] <= orm[t].stock[q]
            BY <1>5, <2>3 DEF LinesOK
        <3>1. CASE q = p
            BY <1>5, <3>1
        <3>2. CASE q # p
            <4>1. ItemRow(u, q) # ItemRow(u, p)
                BY <3>2 DEF ItemRow, Row
            <4>2. ItemRow(u, q) \notin todo[t]
                BY <4>1, <1>5, <2>1
            <4> QED
                BY <4>2, <1>1 DEF IInv, TxnOK, LinesOK
        <3> QED
            BY <3>1, <3>2
    <2> QED
        BY <1>2, <1>5, <2>3, <2>4, <2>5, CheckoutStayKeeps
<1> QED
    BY <1>3, <1>4, <1>5

\* What the copies of a checkout are worth when it pays.
LEMMA CopiesAreCurrent ==
    ASSUME IInv, NEW t \in Txns, pc[t] = "prepare", todo[t] = {}
    PROVE  /\ LockOf(t, UserRow(req[t].user)) \in held
           /\ orm[t].bal = balance[req[t].user]
           /\ \A p \in Products : orm[t].lines[p] > 0 =>
                 /\ LockOf(t, ProductRow(p)) \in held
                 /\ orm[t].stock[p] = stock[p]
                 /\ orm[t].lines[p] <= stock[p]
<1>1. pc[t] \in CheckoutLocked /\ pc[t] \in CheckoutLabels
    BY DEF CheckoutLocked, CheckoutLabels
<1> QED
    BY <1>1 DEF IInv, TxnOK, UserOK, ProductsOK, LinesOK

\* The commit takes from the wallet and the stocks what the copies allow.
LEMMA CheckoutPayKeeps ==
    ASSUME IInv, NEW t \in Txns, CheckoutPay(t)
    PROVE  IInv'
<1> DEFINE u == req[t].user
           k == req[t].key
           lines == orm[t].lines
           total == orm[t].total
<1>1. pc[t] = "prepare" /\ todo[t] = {} /\ Enough(t)
    BY DEF CheckoutPay
<1>2. CASE Rollback(t, "integrity_error")
    BY <1>2, RollbackKeeps DEF Replies
<1>3. CASE CheckoutCommit(t) /\ End(t, "ok")
    <2>1. /\ u \in Users /\ k \in Keys /\ lines \in Counts /\ total \in Nat /\ orm[t].bal \in Nat
          /\ orm[t].bal >= total
        BY <1>1, CheckoutParameters DEF CheckoutLabels, Copies, Enough
    <2>2. /\ LockOf(t, UserRow(u)) \in held
          /\ orm[t].bal = balance[u]
          /\ \A p \in Products : lines[p] > 0 =>
                LockOf(t, ProductRow(p)) \in held /\ orm[t].stock[p] = stock[p] /\ lines[p] <= stock[p]
        BY <1>1, CopiesAreCurrent
    <2>3. /\ balance' = [balance EXCEPT ![u] = balance[u] - total]
          /\ orders' = [orders EXCEPT ![u][k] = NewOrder(t)]
          /\ item' = [item EXCEPT ![u] = None]
          /\ spent' = [spent EXCEPT ![u] = @ + total]
          /\ sold' = [p \in Products |-> sold[p] + lines[p]]
          /\ UNCHANGED <<active, price, listed, carts, funded, stocked>>
        BY <1>3, <2>2 DEF CheckoutCommit
    <2>4. /\ balance \in [Users -> 0 .. MaxMoney] /\ stock \in Counts /\ item \in [Users -> Counts]
          /\ spent \in [Users -> Nat] /\ sold \in Counts /\ MaxMoney \in Nat
          /\ orders \in [Users -> [Keys -> [total : Nat, lines : Counts]]]
        BY StartAssumption DEF IInv, TypeOK, RowTypes, BookTypes
    <2>5. stock' = [p \in Products |-> stock[p] - lines[p]]
        <3>1. stock' = [p \in Products |-> IF lines[p] > 0 THEN orm[t].stock[p] - lines[p] ELSE stock[p]]
            BY <1>3 DEF CheckoutCommit
        <3>2. ASSUME NEW p \in Products
              PROVE  (IF lines[p] > 0 THEN orm[t].stock[p] - lines[p] ELSE stock[p]) = stock[p] - lines[p]
            <4>1. lines[p] \in Nat /\ stock[p] \in Nat
                BY <2>1, <2>4 DEF Counts
            <4> QED
                BY <4>1, <2>2
        <3> QED
            BY <3>1, <3>2
    <2>6. \A p \in Products : lines[p] \in Nat /\ stock[p] \in Nat /\ sold[p] \in Nat /\ lines[p] <= stock[p]
        BY <2>1, <2>2, <2>4 DEF Counts
    <2>7. RowTypes'
        <3>1. balance' \in [Users -> 0 .. MaxMoney]
            <4>1. balance[u] - total \in 0 .. MaxMoney
                BY <2>1, <2>2, <2>4
            <4> QED
                BY <4>1, <2>3, <2>4
        <3>2. stock' \in Counts
            BY <2>5, <2>6 DEF Counts
        <3>3. item' \in [Users -> Counts]
            BY <2>3, <2>4 DEF Counts, None
        <3>4. orders' \in [Users -> [Keys -> [total : Nat, lines : Counts]]]
            <4>1. NewOrder(t) \in [total : Nat, lines : Counts]
                BY <2>1 DEF NewOrder
            <4> QED
                BY <4>1, <2>1, <2>3, <2>4
        <3> QED
            BY <3>1, <3>2, <3>3, <3>4, <2>3 DEF IInv, TypeOK, RowTypes
    <2>8. BookTypes'
        BY <2>1, <2>3, <2>4, <2>6 DEF IInv, TypeOK, BookTypes, Counts
    <2>9. NoLostUpdate'
        <3>1. ASSUME NEW v \in Users PROVE balance'[v] + spent'[v] = funded'[v]
            <4>1. balance[v] \in Nat /\ spent[v] \in Nat /\ balance[v] + spent[v] = funded[v]
                BY <2>4 DEF IInv, NoLostUpdate
            <4> QED
                BY <4>1, <2>1, <2>3, <2>4
        <3>2. ASSUME NEW p \in Products PROVE stock'[p] + sold'[p] = stocked'[p]
            BY <2>3, <2>5, <2>6 DEF IInv, NoLostUpdate
        <3> QED
            BY <3>1, <3>2 DEF NoLostUpdate
    <2>10. ASSUME NEW s \in Txns \ {t} PROVE Respects(s)
        <3>1. ASSUME NEW v \in Users, LockOf(s, UserRow(v)) \in held
              PROVE  balance'[v] = balance[v] /\ active'[v] = active[v] /\ orders'[v] = orders[v]
            <4>1. v # u
                BY <3>1, <2>2, Exclusive DEF IInv
            <4> QED
                BY <4>1, <2>3, <2>4
        <3>2. ASSUME NEW p \in Products, LockOf(s, ProductRow(p)) \in held
              PROVE  stock'[p] = stock[p]
            <4>1. ~ (lines[p] > 0)
                BY <3>2, <2>2, Exclusive DEF IInv
            <4> QED
                BY <4>1, <2>5, <2>6
        <3> QED
            BY <3>1, <3>2 DEF Respects
    <2> QED
        BY <1>3, <2>7, <2>8, <2>9, <2>10, CommitKeeps
<1> QED
    BY <1>2, <1>3 DEF CheckoutPay

\* Every step of a checkout.
LEMMA CheckoutKeeps ==
    ASSUME IInv, NEW t \in Txns, CheckoutStep(t)
    PROVE  IInv'
<1> USE DEF CheckoutLocked, CheckoutNew, CheckoutLabels
<1>1. CASE CheckoutLockUser(t)
    BY <1>1, CheckoutLockUserKeeps
<1>2. CASE CheckoutInactive(t)
    BY <1>2, RollbackKeeps DEF CheckoutInactive, Replies
<1>3. CASE CheckoutReplay(t)
    BY <1>3, RollbackKeeps DEF CheckoutReplay, Replies
<1>4. CASE CheckoutNewOrder(t)
    BY <1>4, CheckoutMoveKeeps DEF CheckoutNewOrder, IInv, TypeOK, TxnTypes
<1>5. CASE CheckoutNoCart(t)
    BY <1>5, RollbackKeeps DEF CheckoutNoCart, Replies
<1>6. CASE CheckoutLockCart(t)
    <2>1. CartRow(req[t].user) \in Rows /\ "update" \in Modes
        BY <1>6, CheckoutParameters DEF CheckoutLockCart
    <2> QED
        BY <1>6, <2>1, CheckoutMoveKeeps DEF CheckoutLockCart, IInv, TypeOK, TxnTypes
<1>7. CASE CheckoutListItems(t)
    <2> DEFINE items == {ItemRow(req[t].user, p) : p \in {q \in Products : item[req[t].user][q] > 0}}
    <2>1. items \subseteq Rows
        BY <1>7, CheckoutParameters DEF CheckoutListItems
    <2>2. todo' = [todo EXCEPT ![t] = items] /\ todo \in [Txns -> SUBSET Rows]
        BY <1>7 DEF CheckoutListItems, IInv, TypeOK, TxnTypes
    <2> QED
        BY <1>7, <2>1, <2>2, CheckoutMoveKeeps DEF CheckoutListItems
<1>8. CASE CheckoutLockItem(t)
    BY <1>8, CheckoutLockItemKeeps
<1>9. CASE CheckoutEmpty(t)
    BY <1>9, RollbackKeeps DEF CheckoutEmpty, Replies
<1>10. CASE CheckoutListProducts(t)
    <2> DEFINE items == {ProductRow(p) : p \in {q \in Products : orm[t].lines[q] > 0 /\ listed[q]}}
    <2>1. items \subseteq Rows
        BY <1>10, CheckoutParameters DEF CheckoutListProducts
    <2>2. todo' = [todo EXCEPT ![t] = items] /\ todo \in [Txns -> SUBSET Rows]
        BY <1>10 DEF CheckoutListProducts, IInv, TypeOK, TxnTypes
    <2> QED
        BY <1>10, <2>1, <2>2, CheckoutMoveKeeps DEF CheckoutListProducts
<1>11. CASE CheckoutLockProduct(t)
    BY <1>11, CheckoutLockProductKeeps
<1>12. CASE CheckoutPrepare(t)
    <2> DEFINE items == {ItemRow(req[t].user, p) : p \in {q \in Products : orm[t].lines[q] > 0}}
    <2>1. items \subseteq Rows
        BY <1>12, CheckoutParameters DEF CheckoutPrepare
    <2>2. todo' = [todo EXCEPT ![t] = items] /\ todo \in [Txns -> SUBSET Rows]
        BY <1>12 DEF CheckoutPrepare, IInv, TypeOK, TxnTypes
    <2> QED
        BY <1>12, <2>1, <2>2, CheckoutMoveKeeps DEF CheckoutPrepare
<1>13. CASE CheckoutLine(t)
    BY <1>13, CheckoutLineKeeps
<1>14. CASE CheckoutNoFunds(t)
    BY <1>14, RollbackKeeps DEF CheckoutNoFunds, Replies
<1>15. CASE CheckoutPay(t)
    BY <1>15, CheckoutPayKeeps
<1> QED
    BY <1>1, <1>2, <1>3, <1>4, <1>5, <1>6, <1>7, <1>8, <1>9, <1>10, <1>11, <1>12, <1>13, <1>14, <1>15
       DEF CheckoutStep

-----------------------------------------------------------------------------
(* Handlers other than the checkout: none of them keeps a claim on what it  *)
(* has read, except the wallet charge.                                      *)

OtherLabels == Labels \ (CheckoutLabels \cup {"idle", "done", "credit_write"})

\* The parameters of the request after the move are those before it.
LEMMA OtherMoveKeeps ==
    ASSUME IInv, NEW t \in Txns, NEW label \in OtherLabels, Goto(t, label), RequestOK(t)',
           todo' \in [Txns -> SUBSET Rows], orm' \in [Txns -> Copies],
           \A s \in Txns \ {t} : todo'[s] = todo[s] /\ orm'[s] = orm[s],
           held' = held \/ \E row \in Rows, mode \in Modes : Lock(t, row, mode)
    PROVE  IInv'
<1>1. /\ TxnTypes' /\ LocksOK' /\ pc'[t] = label
      /\ \A s \in Txns \ {t} : Same(s)
    BY GotoTypes DEF IInv, TypeOK, OtherLabels
<1>2. UNCHANGED <<rows, books>>
    BY DEF Goto
<1>3. FreshOK(t)' /\ UserOK(t)' /\ AccountOK(t)' /\ ProductsOK(t)' /\ LinesOK(t)'
    BY <1>1 DEF OtherLabels, FreshOK, UserOK, AccountOK, ProductsOK, LinesOK, CheckoutLocked,
                CheckoutNew, CheckoutLabels
<1> QED
    BY <1>1, <1>2, <1>3, MoveKeeps DEF TxnOK

\* A DELETE, or the flush of an import, that goes on to its next row.
LEMMA ScanKeeps ==
    ASSUME IInv, NEW t \in Txns, pc[t] \in {"clear_rows", "drop_rows", "import_rows"},
           NEW row \in Rows, todo' = [todo EXCEPT ![t] = @ \ {row}],
           held' = held \/ \E mode \in Modes : Lock(t, row, mode),
           UNCHANGED <<rows, books, pc, req, reply, orm>>
    PROVE  IInv'
<1>1. Goto(t, pc[t]) /\ pc[t] \in OtherLabels
    BY DEF Goto, IInv, TypeOK, TxnTypes, OtherLabels, Labels, CheckoutLabels
<1>2. RequestOK(t)'
    BY DEF IInv, TxnOK, RequestOK
<1>3. /\ todo' \in [Txns -> SUBSET Rows] /\ orm' \in [Txns -> Copies]
      /\ \A s \in Txns \ {t} : todo'[s] = todo[s] /\ orm'[s] = orm[s]
    BY DEF IInv, TypeOK, TxnTypes
<1> QED
    BY <1>1, <1>2, <1>3, OtherMoveKeeps

\* A commit that writes neither wallets nor stocks, nor accounts nor orders.
LEMMA QuietCommitKeeps ==
    ASSUME IInv, NEW t \in Txns, End(t, "ok"),
           carts' \subseteq Users, item' \in [Users -> Counts], listed' \in [Products -> BOOLEAN],
           UNCHANGED <<balance, active, price, stock, orders, books>>
    PROVE  IInv'
<1>1. RowTypes' /\ BookTypes' /\ NoLostUpdate'
    BY DEF IInv, TypeOK, RowTypes, BookTypes, NoLostUpdate, books
<1>2. \A s \in Txns \ {t} : Respects(s)
    BY DEF Respects
<1> QED
    BY <1>1, <1>2, CommitKeeps

\* What writing an item changes.
LEMMA PutItemTypes ==
    ASSUME IInv, NEW u \in Users, NEW p \in Products, NEW n \in Nat, PutItem(u, p, n)
    PROVE  /\ carts' \subseteq Users /\ item' \in [Users -> Counts] /\ listed' \in [Products -> BOOLEAN]
           /\ UNCHANGED <<balance, active, price, stock, orders, books>>
<1>1. item \in [Users -> Counts] /\ carts \subseteq Users /\ listed \in [Products -> BOOLEAN]
    BY DEF IInv, TypeOK, RowTypes
<1>2. [item[u] EXCEPT ![p] = n] \in Counts
    BY <1>1 DEF Counts
<1>3. item' = [item EXCEPT ![u] = [item[u] EXCEPT ![p] = n]]
    BY <1>1 DEF PutItem
<1> QED
    BY <1>1, <1>2, <1>3 DEF PutItem

\* Loading one product's or one item's copy keeps the types.
LEMMA LoadTypes ==
    ASSUME IInv, NEW t \in Txns, NEW p \in Products, NEW n \in Nat,
           \/ orm' = [orm EXCEPT ![t].stock[p] = n]
           \/ orm' = [orm EXCEPT ![t].lines[p] = n]
    PROVE  orm' \in [Txns -> Copies] /\ \A s \in Txns \ {t} : orm'[s] = orm[s]
<1>1. orm \in [Txns -> Copies]
    BY DEF IInv, TypeOK, TxnTypes
<1>2. [orm[t].stock EXCEPT ![p] = n] \in Counts /\ [orm[t].lines EXCEPT ![p] = n] \in Counts
    BY <1>1 DEF Copies, Counts
<1>3. /\ [orm[t] EXCEPT !.stock = [orm[t].stock EXCEPT ![p] = n]] \in Copies
      /\ [orm[t] EXCEPT !.lines = [orm[t].lines EXCEPT ![p] = n]] \in Copies
    BY <1>1, <1>2 DEF Copies
<1>4. \/ orm' = [orm EXCEPT ![t] = [orm[t] EXCEPT !.stock = [orm[t].stock EXCEPT ![p] = n]]]
      \/ orm' = [orm EXCEPT ![t] = [orm[t] EXCEPT !.lines = [orm[t].lines EXCEPT ![p] = n]]]
    BY <1>1
<1> QED
    BY <1>1, <1>3, <1>4

-----------------------------------------------------------------------------
(* The cart *)

\* Every step of an addition.
LEMMA AddKeeps ==
    ASSUME IInv, NEW t \in Txns,
           \/ AddLockProduct(t) \/ AddRefused(t) \/ AddFindCart(t) \/ AddNewCart(t)
           \/ AddCartOwner(t) \/ AddFindItem(t) \/ AddInsert(t) \/ AddUpdate(t)
    PROVE  IInv'
<1> DEFINE u == req[t].user
           p == req[t].product
<1>1. pc[t] \in AddLabels
    BY DEF AddLockProduct, AddRefused, AddFindCart, AddNewCart, AddCartOwner, AddFindItem,
           AddInsert, AddUpdate, AddLabels
<1>2. /\ u \in Users /\ p \in Products /\ req[t].qty \in Nat
      /\ UserRow(u) \in Rows /\ CartRow(u) \in Rows /\ ProductRow(p) \in Rows
    BY <1>1, RowTyping DEF IInv, TxnOK, RequestOK
<1>3. /\ "share" \in Modes /\ "update" \in Modes
      /\ {"not_found", "no_stock", "integrity_error", "stale_data"} \subseteq Replies
      /\ AddLabels \subseteq OtherLabels
    BY DEF Modes, Replies, AddLabels, OtherLabels, Labels, CheckoutLabels
<1>4. /\ orm \in [Txns -> Copies] /\ todo \in [Txns -> SUBSET Rows]
      /\ pc \in [Txns -> Labels]
      /\ stock[p] \in Nat /\ item[u][p] \in Nat
      /\ orm[t].lines[p] \in Nat
    BY <1>2 DEF IInv, TypeOK, TxnTypes, RowTypes, Copies, Counts
<1>5. ASSUME NEW label \in AddLabels, Goto(t, label)
      PROVE  label \in OtherLabels /\ RequestOK(t)'
    BY <1>2, <1>3, <1>4, <1>5 DEF Goto, RequestOK, AddLabels, CheckoutLabels, SetLabels, DropLabels
<1>6. CASE AddLockProduct(t)
    <2>1. orm' = [orm EXCEPT ![t].stock[p] = stock[p]] /\ Goto(t, "find_cart") /\ UNCHANGED todo
              /\ Lock(t, ProductRow(p), "update")
        BY <1>6 DEF AddLockProduct
    <2>2. orm' \in [Txns -> Copies] /\ \A s \in Txns \ {t} : orm'[s] = orm[s]
        BY <2>1, <1>2, <1>4, LoadTypes
    <2>3. "find_cart" \in AddLabels
        BY DEF AddLabels
    <2> QED
        BY <2>1, <2>2, <2>3, <1>2, <1>3, <1>4, <1>5, OtherMoveKeeps
<1>7. CASE AddRefused(t)
    BY <1>7, <1>3, RollbackKeeps DEF AddRefused
<1>8. CASE AddFindCart(t)
    <2>1. PICK label \in AddLabels : Goto(t, label)
        BY <1>8 DEF AddFindCart, AddLabels
    <2> QED
        BY <2>1, <1>8, <1>4, <1>5, OtherMoveKeeps DEF AddFindCart
<1>9. CASE AddNewCart(t)
    <2>1. CASE Rollback(t, "integrity_error")
        BY <2>1, <1>3, RollbackKeeps
    <2>2. CASE Lock(t, CartRow(u), "update") /\ Goto(t, "cart_owner") /\ UNCHANGED <<todo, orm>>
        <3>1. "cart_owner" \in AddLabels
            BY DEF AddLabels
        <3> QED
            BY <2>2, <3>1, <1>2, <1>3, <1>4, <1>5, OtherMoveKeeps
    <2> QED
        BY <1>9, <2>1, <2>2 DEF AddNewCart
<1>10. CASE AddCartOwner(t)
    <2>1. "find_item" \in AddLabels
        BY DEF AddLabels
    <2> QED
        BY <2>1, <1>10, <1>2, <1>3, <1>4, <1>5, OtherMoveKeeps DEF AddCartOwner
<1>11. CASE AddFindItem(t)
    <2>1. CASE Rollback(t, "no_stock")
        BY <2>1, <1>3, RollbackKeeps
    <2>2. CASE \E label \in {"insert", "update"} :
                  /\ orm' = [orm EXCEPT ![t].lines[p] = item[u][p]]
                  /\ Goto(t, label) /\ UNCHANGED <<held, todo>>
        <3>1. orm' \in [Txns -> Copies] /\ \A s \in Txns \ {t} : orm'[s] = orm[s]
            BY <2>2, <1>2, <1>4, LoadTypes
        <3>2. PICK label \in AddLabels : Goto(t, label)
            BY <2>2 DEF AddLabels
        <3> QED
            BY <2>2, <3>1, <3>2, <1>4, <1>5, OtherMoveKeeps
    <2> QED
        BY <1>11, <2>1, <2>2 DEF AddFindItem
<1>12. CASE AddInsert(t) \/ AddUpdate(t)
    <2>1. CASE Rollback(t, "integrity_error") \/ Rollback(t, "stale_data")
        BY <2>1, <1>3, RollbackKeeps
    <2>2. CASE End(t, "ok") /\ \E n \in Nat : PutItem(u, p, n)
        BY <2>2, <1>2, PutItemTypes, QuietCommitKeeps
    <2> QED
        BY <1>12, <1>2, <1>4, <2>1, <2>2 DEF AddInsert, AddUpdate
<1> QED
    BY <1>6, <1>7, <1>8, <1>9, <1>10, <1>11, <1>12

\* Every step of a change of quantity.
LEMMA SetKeeps ==
    ASSUME IInv, NEW t \in Txns, SetLockItem(t) \/ SetLockCart(t) \/ SetQuantity(t)
    PROVE  IInv'
<1> DEFINE u == req[t].user
           p == req[t].product
<1>1. pc[t] \in SetLabels
    BY DEF SetLockItem, SetLockCart, SetQuantity, SetLabels
<1>2. /\ u \in Users /\ p \in Products /\ req[t].qty \in Nat
      /\ ItemRow(u, p) \in Rows /\ CartRow(u) \in Rows
    BY <1>1, RowTyping DEF IInv, TxnOK, RequestOK
<1>3. "update" \in Modes /\ {"not_found", "no_stock"} \subseteq Replies
    BY DEF Modes, Replies
<1>4. orm \in [Txns -> Copies] /\ todo \in [Txns -> SUBSET Rows] /\ pc \in [Txns -> Labels]
    BY DEF IInv, TypeOK, TxnTypes
<1>5. ASSUME NEW label \in SetLabels, Goto(t, label), UNCHANGED <<todo, orm>>,
             \E row \in Rows : Lock(t, row, "update")
      PROVE  IInv'
    <2>1. label \in OtherLabels
        BY DEF SetLabels, OtherLabels, Labels, CheckoutLabels
    <2>2. RequestOK(t)'
        BY <1>2, <1>4, <1>5 DEF Goto, RequestOK, AddLabels, CheckoutLabels, SetLabels, DropLabels
    <2> QED
        BY <1>3, <1>4, <1>5, <2>1, <2>2, OtherMoveKeeps
<1>6. CASE SetLockItem(t)
    BY <1>6, <1>2, <1>3, <1>5, RollbackKeeps DEF SetLockItem, SetLabels
<1>7. CASE SetLockCart(t)
    BY <1>7, <1>2, <1>5 DEF SetLockCart, SetLabels
<1>8. CASE SetQuantity(t)
    BY <1>8, <1>2, <1>3, RollbackKeeps, PutItemTypes, QuietCommitKeeps DEF SetQuantity
<1> QED
    BY <1>6, <1>7, <1>8

\* Every step of the two deletions of items.
LEMMA DeletionsKeep ==
    ASSUME IInv, NEW t \in Txns,
           RemoveItem(t) \/ ClearList(t) \/ ClearRow(t) \/ ClearCommit(t)
    PROVE  IInv'
<1> DEFINE u == req[t].user
<1>1. pc[t] \in {"remove", "clear", "clear_rows"}
    BY DEF RemoveItem, ClearList, ClearRow, ClearCommit
<1>2. u \in Users /\ \A p \in Products : ItemRow(u, p) \in Rows
    BY <1>1, RowTyping DEF IInv, TxnOK, RequestOK
<1>3. /\ orm \in [Txns -> Copies] /\ todo \in [Txns -> SUBSET Rows] /\ pc \in [Txns -> Labels]
      /\ item \in [Users -> Counts] /\ carts \subseteq Users /\ listed \in [Products -> BOOLEAN]
    BY DEF IInv, TypeOK, TxnTypes, RowTypes
<1>4. CASE RemoveItem(t)
    <2>1. item' = [item EXCEPT ![u][req[t].product] = 0]
        BY <1>4 DEF RemoveItem
    <2>2. item' \in [Users -> Counts]
        BY <2>1, <1>2, <1>3 DEF Counts
    <2> QED
        BY <1>4, <1>3, <2>2, QuietCommitKeeps DEF RemoveItem
<1>5. CASE ClearList(t)
    <2> DEFINE items == {ItemRow(u, p) : p \in {q \in Products : item[u][q] > 0}}
    <2>1. items \subseteq Rows /\ todo' = [todo EXCEPT ![t] = items] /\ Goto(t, "clear_rows")
              /\ UNCHANGED <<held, orm>>
        BY <1>2, <1>5 DEF ClearList
    <2>2. "clear_rows" \in OtherLabels
        BY DEF OtherLabels, Labels, CheckoutLabels
    <2>3. RequestOK(t)'
        BY <1>2, <1>3, <2>1 DEF Goto, RequestOK, AddLabels, CheckoutLabels, SetLabels, DropLabels
    <2> QED
        BY <1>3, <2>1, <2>2, <2>3, OtherMoveKeeps
<1>6. CASE ClearRow(t)
    <2>1. PICK p \in Products :
              /\ todo' = [todo EXCEPT ![t] = @ \ {ItemRow(u, p)}]
              /\ held' = held \/ \E mode \in Modes : Lock(t, ItemRow(u, p), mode)
        BY <1>6 DEF ClearRow, Modes
    <2> QED
        BY <1>6, <1>2, <2>1, ScanKeeps DEF ClearRow
<1>7. CASE ClearCommit(t)
    <2>1. PICK gone : item' = [item EXCEPT ![u] = [p \in Products |-> IF p \in gone THEN 0 ELSE @[p]]]
        BY <1>7 DEF ClearCommit
    <2>2. [p \in Products |-> IF p \in gone THEN 0 ELSE item[u][p]] \in Counts
        BY <1>2, <1>3 DEF Counts
    <2>3. item' \in [Users -> Counts]
        BY <2>1, <2>2, <1>2, <1>3
    <2> QED
        BY <1>7, <1>3, <2>3, QuietCommitKeeps DEF ClearCommit
<1> QED
    BY <1>4, <1>5, <1>6, <1>7

\* Every step of the cart's handlers.
LEMMA CartKeeps ==
    ASSUME IInv, NEW t \in Txns, CartStep(t)
    PROVE  IInv'
BY AddKeeps, SetKeeps, DeletionsKeep DEF CartStep

-----------------------------------------------------------------------------
(* The back office *)

\* A top-up adds to a wallet it has locked.
LEMMA CreditKeeps ==
    ASSUME IInv, NEW t \in Txns, CreditLockUser(t) \/ CreditWrite(t)
    PROVE  IInv'
<1> DEFINE u == req[t].user
<1>1. pc[t] \in {"credit", "credit_write"}
    BY DEF CreditLockUser, CreditWrite
<1>2. u \in Users /\ req[t].qty \in Nat /\ UserRow(u) \in Rows /\ "update" \in Modes
    BY <1>1 DEF IInv, TxnOK, RequestOK, Rows, Row, UserRow, Tables, Modes
<1>3. /\ orm \in [Txns -> Copies] /\ todo \in [Txns -> SUBSET Rows] /\ pc \in [Txns -> Labels]
      /\ balance \in [Users -> 0 .. MaxMoney] /\ funded \in [Users -> Nat] /\ spent \in [Users -> Nat]
      /\ balance[u] \in Nat /\ MaxMoney \in Nat
    BY <1>2, StartAssumption DEF IInv, TypeOK, TxnTypes, RowTypes, BookTypes
<1>4. CASE CreditLockUser(t)
    <2>1. CASE Rollback(t, "not_found")
        BY <2>1, RollbackKeeps DEF Replies
    <2>2. CASE /\ Lock(t, UserRow(u), "update") /\ orm' = [orm EXCEPT ![t].bal = balance[u]]
               /\ Goto(t, "credit_write") /\ UNCHANGED todo
        <3>1. /\ orm' \in [Txns -> Copies] /\ orm'[t].bal = balance[u]
              /\ \A s \in Txns \ {t} : orm'[s] = orm[s]
            BY <2>2, <1>3 DEF Copies
        <3>2. /\ TxnTypes' /\ LocksOK' /\ pc'[t] = "credit_write" /\ req'[t] = req[t]
              /\ \A s \in Txns \ {t} : Same(s)
            BY <2>2, <3>1, <1>2, <1>3, GotoTypes DEF IInv, TypeOK, Labels
        <3>3. UNCHANGED <<rows, books>>
            BY <2>2 DEF Goto
        <3>4. LockOf(t, UserRow(u)) \in held'
            BY <2>2 DEF Lock, LockOf
        <3>5. UserOK(t)'
            BY <3>1, <3>2, <3>3, <3>4 DEF UserOK, rows
        <3>6. /\ RequestOK(t)' /\ FreshOK(t)' /\ AccountOK(t)' /\ ProductsOK(t)' /\ LinesOK(t)'
            BY <3>2, <1>2 DEF RequestOK, FreshOK, AccountOK, ProductsOK, LinesOK, CheckoutLabels,
                              CheckoutLocked, CheckoutNew, AddLabels, SetLabels, DropLabels
        <3> QED
            BY <3>2, <3>3, <3>5, <3>6, MoveKeeps DEF TxnOK
    <2> QED
        BY <1>4, <2>1, <2>2 DEF CreditLockUser
<1>5. CASE CreditWrite(t)
    <2> DEFINE sum == orm[t].bal + req[t].qty
    <2>1. CASE Rollback(t, "overflow")
        BY <2>1, RollbackKeeps DEF Replies
    <2>2. CASE /\ sum <= MaxMoney /\ balance' = [balance EXCEPT ![u] = sum]
               /\ funded' = [funded EXCEPT ![u] = @ + req[t].qty] /\ End(t, "ok")
               /\ UNCHANGED <<active, price, stock, listed, carts, item, orders, spent, stocked, sold>>
        <3>1. LockOf(t, UserRow(u)) \in held /\ orm[t].bal = balance[u]
            BY <1>5 DEF CreditWrite, IInv, TxnOK, UserOK
        <3>2. sum \in 0 .. MaxMoney
            BY <3>1, <2>2, <1>2, <1>3
        <3>3. RowTypes' /\ BookTypes'
            BY <2>2, <3>2, <1>2, <1>3 DEF IInv, TypeOK, RowTypes, BookTypes
        <3>4. NoLostUpdate'
            <4>1. ASSUME NEW v \in Users PROVE balance'[v] + spent'[v] = funded'[v]
                <5>1. balance[v] \in Nat /\ spent[v] \in Nat /\ balance[v] + spent[v] = funded[v]
                    BY <1>3 DEF IInv, NoLostUpdate
                <5> QED
                    BY <5>1, <2>2, <3>1, <1>2, <1>3
            <4> QED
                BY <4>1, <2>2 DEF NoLostUpdate, IInv
        <3>5. ASSUME NEW s \in Txns \ {t} PROVE Respects(s)
            <4>1. \A v \in Users : LockOf(s, UserRow(v)) \in held => v # u
                BY <3>1, Exclusive DEF IInv
            <4> QED
                BY <4>1, <2>2, <1>3 DEF Respects
        <3> QED
            BY <2>2, <3>3, <3>4, <3>5, CommitKeeps
    <2> QED
        BY <1>5, <2>1, <2>2 DEF CreditWrite
<1> QED
    BY <1>4, <1>5

\* Closing an account waits for whoever charges it.
LEMMA CloseKeeps ==
    ASSUME IInv, NEW t \in Txns, CloseAccount(t)
    PROVE  IInv'
<1> DEFINE u == req[t].user
<1>1. /\ Free(t, UserRow(u), "update") /\ active' = [active EXCEPT ![u] = FALSE] /\ End(t, "ok")
      /\ UNCHANGED <<balance, price, stock, listed, carts, item, orders, books>>
    BY DEF CloseAccount
<1>2. RowTypes' /\ BookTypes' /\ NoLostUpdate'
    BY <1>1 DEF IInv, TypeOK, RowTypes, BookTypes, NoLostUpdate, books
<1>3. ASSUME NEW s \in Txns \ {t} PROVE Respects(s)
    <2>1. \A v \in Users : LockOf(s, UserRow(v)) \in held => v # u
        BY <1>1, Exclusive DEF IInv
    <2> QED
        BY <2>1, <1>1 DEF Respects, IInv, TypeOK, RowTypes
<1> QED
    BY <1>1, <1>2, <1>3, CommitKeeps

\* An edit writes the administrator's values, and books what it puts on sale.
LEMMA EditKeeps ==
    ASSUME IInv, NEW t \in Txns, EditRead(t) \/ EditWrite(t)
    PROVE  IInv'
<1> DEFINE p == req[t].product
<1>1. pc[t] \in {"edit", "edit_write"}
    BY DEF EditRead, EditWrite
<1>2. p \in Products /\ req[t].price \subseteq Nat \ {0} /\ req[t].stock \subseteq Nat
    BY <1>1 DEF IInv, TxnOK, RequestOK
<1>3. /\ orm \in [Txns -> Copies] /\ todo \in [Txns -> SUBSET Rows] /\ pc \in [Txns -> Labels]
      /\ price \in [Products -> Nat \ {0}] /\ stock \in Counts /\ stocked \in Counts /\ sold \in Counts
      /\ price[p] \in Nat \ {0} /\ stock[p] \in Nat
    BY <1>2 DEF IInv, TypeOK, TxnTypes, RowTypes, BookTypes, Counts
<1>4. CASE EditRead(t)
    <2>1. CASE Rollback(t, "not_found")
        BY <2>1, RollbackKeeps DEF Replies
    <2>2. CASE /\ orm' = [orm EXCEPT ![t].stock[p] = stock[p], ![t].price[p] = price[p]]
               /\ Goto(t, "edit_write") /\ UNCHANGED <<held, todo>>
        <3>3. stock[p] \in Nat /\ price[p] \in Nat
            BY <1>3
        <3>4. orm' \in [Txns -> Copies] /\ \A s \in Txns \ {t} : orm'[s] = orm[s]
            BY <2>2, <3>3, <1>2, <1>3, ProductCopyTypes
        <3>5. "edit_write" \in OtherLabels
            BY DEF OtherLabels, Labels, CheckoutLabels
        <3>6. RequestOK(t)'
            BY <2>2, <1>2, <1>3 DEF Goto, RequestOK, AddLabels, CheckoutLabels, SetLabels, DropLabels
        <3> QED
            BY <2>2, <3>4, <3>5, <3>6, <1>3, OtherMoveKeeps
    <2> QED
        BY <1>4, <2>1, <2>2 DEF EditRead
<1>5. CASE EditWrite(t)
    <2>1. CASE Rollback(t, "ok") \/ Rollback(t, "stale_data")
        BY <2>1, RollbackKeeps DEF Replies
    <2>2. CASE /\ Free(t, ProductRow(p), "nokey") /\ End(t, "ok")
               /\ \E x \in Edited(req[t].price, orm[t].price[p], price[p]),
                     y \in Edited(req[t].stock, orm[t].stock[p], stock[p]) :
                  /\ price' = [price EXCEPT ![p] = x]
                  /\ stock' = [stock EXCEPT ![p] = y]
                  /\ stocked' = [stocked EXCEPT ![p] = @ + y - stock[p]]
               /\ UNCHANGED <<balance, active, listed, carts, item, orders, funded, spent, sold>>
        <3>1. PICK x \in Edited(req[t].price, orm[t].price[p], price[p]),
                   y \in Edited(req[t].stock, orm[t].stock[p], stock[p]) :
                  /\ price' = [price EXCEPT ![p] = x]
                  /\ stock' = [stock EXCEPT ![p] = y]
                  /\ stocked' = [stocked EXCEPT ![p] = @ + y - stock[p]]
            BY <2>2
        <3>2. x \in Nat \ {0} /\ y \in Nat
            BY <1>2, <1>3 DEF Edited
        <3>3. stock[p] + sold[p] = stocked[p] /\ sold[p] \in Nat /\ stocked[p] \in Nat
            BY <1>2, <1>3 DEF IInv, NoLostUpdate, Counts
        <3>4. stocked[p] + y - stock[p] \in Nat /\ stocked[p] + y - stock[p] = y + sold[p]
            BY <3>2, <3>3, <1>3
        <3>5. RowTypes' /\ BookTypes'
            BY <2>2, <3>2, <3>1, <3>4, <1>2, <1>3 DEF IInv, TypeOK, RowTypes, BookTypes, Counts
        <3>6. NoLostUpdate'
            BY <2>2, <3>2, <3>1, <3>4, <1>2, <1>3 DEF IInv, NoLostUpdate, Counts
        <3>7. ASSUME NEW s \in Txns \ {t} PROVE Respects(s)
            <4>1. \A q \in Products : LockOf(s, ProductRow(q)) \in held => q # p
                BY <2>2, Exclusive DEF IInv
            <4> QED
                BY <4>1, <2>2, <3>1, <1>3 DEF Respects, Counts
        <3> QED
            BY <2>2, <3>5, <3>6, <3>7, CommitKeeps
    <2> QED
        BY <1>5, <2>1, <2>2 DEF EditWrite
<1> QED
    BY <1>4, <1>5

\* Every step of the deletion of a product.
LEMMA DropKeeps ==
    ASSUME IInv, NEW t \in Txns,
           \/ DropList(t) \/ DropRow(t) \/ DropGet(t) \/ DropDelete(t)
           \/ DropRefused(t) \/ DropCommit(t)
    PROVE  IInv'
<1> DEFINE p == req[t].product
<1>1. pc[t] \in DropLabels
    BY DEF DropList, DropRow, DropGet, DropDelete, DropRefused, DropCommit, DropLabels
<1>2. p \in Products /\ ProductRow(p) \in Rows /\ \A u \in Users : ItemRow(u, p) \in Rows
    <2>1. p \in Products
        BY <1>1 DEF IInv, TxnOK, RequestOK
    <2> QED
        BY <2>1 DEF Rows, Row, ProductRow, ItemRow, Tables
<1>3. /\ orm \in [Txns -> Copies] /\ todo \in [Txns -> SUBSET Rows] /\ pc \in [Txns -> Labels]
      /\ item \in [Users -> Counts] /\ carts \subseteq Users /\ listed \in [Products -> BOOLEAN]
      /\ "update" \in Modes /\ {"not_found", "integrity_error"} \subseteq Replies
    BY DEF IInv, TypeOK, TxnTypes, RowTypes, Modes, Replies
<1>4. ASSUME NEW label \in DropLabels, Goto(t, label)
      PROVE  label \in OtherLabels /\ RequestOK(t)'
    BY <1>2, <1>3, <1>4 DEF Goto, RequestOK, AddLabels, CheckoutLabels, SetLabels, DropLabels,
                            OtherLabels, Labels
<1>5. ASSUME DropItems(t) PROVE item' \in [Users -> Counts]
    <2>1. \A u \in Users : [item[u] EXCEPT ![p] = 0] \in Counts
        BY <1>3 DEF Counts
    <2> QED
        BY <1>5, <2>1, <1>3 DEF DropItems
<1>6. CASE DropList(t)
    <2> DEFINE items == {ItemRow(u, p) : u \in {v \in Users : item[v][p] > 0}}
    <2>1. items \subseteq Rows /\ todo' = [todo EXCEPT ![t] = items] /\ Goto(t, "drop_rows")
              /\ UNCHANGED <<held, orm>> /\ "drop_rows" \in DropLabels
        BY <1>2, <1>6 DEF DropList, DropLabels
    <2> QED
        BY <1>3, <1>4, <2>1, OtherMoveKeeps
<1>7. CASE DropRow(t)
    <2>1. PICK u \in Users :
              /\ todo' = [todo EXCEPT ![t] = @ \ {ItemRow(u, p)}]
              /\ held' = held \/ \E mode \in Modes : Lock(t, ItemRow(u, p), mode)
        BY <1>7 DEF DropRow, Modes
    <2> QED
        BY <1>7, <1>2, <2>1, ScanKeeps DEF DropRow
<1>8. CASE DropGet(t)
    BY <1>8, <1>3, <1>4, RollbackKeeps, OtherMoveKeeps DEF DropGet, DropLabels
<1>9. CASE DropDelete(t)
    <2>1. CASE Lock(t, ProductRow(p), "update") /\ Goto(t, "drop_check") /\ UNCHANGED <<todo, orm>>
        BY <2>1, <1>2, <1>3, <1>4, OtherMoveKeeps DEF DropLabels
    <2>2. CASE /\ DropItems(t) /\ End(t, "ok")
               /\ UNCHANGED <<balance, active, price, stock, listed, carts, orders, books>>
        BY <2>2, <1>3, <1>5, QuietCommitKeeps
    <2> QED
        BY <1>9, <2>1, <2>2 DEF DropDelete
<1>10. CASE DropRefused(t)
    BY <1>10, <1>3, RollbackKeeps DEF DropRefused
<1>11. CASE DropCommit(t)
    BY <1>11, <1>3, <1>5, QuietCommitKeeps DEF DropCommit
<1> QED
    BY <1>6, <1>7, <1>8, <1>9, <1>10, <1>11

\* An import that reads or locks: it makes no claim on what it has read.
LEMMA ImportMovesKeep ==
    ASSUME IInv, NEW t \in Txns,
           ImportOpen(t) \/ ImportRead(t) \/ ImportFlush(t) \/ ImportRow(t) \/ ImportRefused(t)
    PROVE  IInv'
<1>1. /\ orm \in [Txns -> Copies] /\ todo \in [Txns -> SUBSET Rows] /\ pc \in [Txns -> Labels]
      /\ price \in [Products -> Nat \ {0}] /\ stock \in Counts
      /\ {"nokey", "update"} \subseteq Modes /\ {"stale_data", "integrity_error"} \subseteq Replies
    BY DEF IInv, TypeOK, TxnTypes, RowTypes, Modes, Replies
<1>2. \A p \in Products : ProductRow(p) \in Rows
    BY DEF Rows, Row, ProductRow, Tables
<1>3. ASSUME NEW label \in {"import_read", "import_rows"}, Goto(t, label),
             pc[t] \in {"import", "import_read"}
      PROVE  label \in OtherLabels /\ RequestOK(t)'
    BY <1>1, <1>3 DEF Goto, IInv, TxnOK, RequestOK, AddLabels, CheckoutLabels, SetLabels, DropLabels,
                      OtherLabels, Labels
<1>4. CASE ImportOpen(t)
    <2> DEFINE products == {ProductRow(p) : p \in Seed(t)}
    <2>1. products \subseteq Rows /\ todo' = [todo EXCEPT ![t] = products]
        BY <1>2, <1>4 DEF ImportOpen, Seed
    <2> QED
        BY <1>1, <1>3, <1>4, <2>1, OtherMoveKeeps DEF ImportOpen
<1>5. CASE ImportRead(t)
    <2>1. PICK p \in Products :
              /\ todo' = [todo EXCEPT ![t] = @ \ {ProductRow(p)}]
              /\ \/ UNCHANGED orm
                 \/ orm' = [orm EXCEPT ![t].stock[p] = stock[p], ![t].price[p] = price[p]]
        BY <1>5 DEF ImportRead
    <2>2. orm' \in [Txns -> Copies] /\ \A s \in Txns \ {t} : orm'[s] = orm[s]
        BY <2>1, <1>1, ProductCopyTypes DEF Counts
    <2>3. Goto(t, "import_read") /\ pc[t] = "import_read" /\ UNCHANGED held
        BY <1>1, <1>5 DEF ImportRead, Goto
    <2> QED
        BY <1>1, <1>3, <2>1, <2>2, <2>3, OtherMoveKeeps
<1>6. CASE ImportFlush(t)
    <2> DEFINE products == {ProductRow(p) : p \in {q \in Seed(t) : Differs(t, q)}}
    <2>1. products \subseteq Rows /\ todo' = [todo EXCEPT ![t] = products]
        BY <1>2, <1>6 DEF ImportFlush, Seed
    <2> QED
        BY <1>1, <1>3, <1>6, <2>1, OtherMoveKeeps DEF ImportFlush
<1>7. CASE ImportRow(t)
    <2>1. PICK p \in Products :
              /\ todo' = [todo EXCEPT ![t] = @ \ {ProductRow(p)}]
              /\ held' = held \/ \E mode \in Modes : Lock(t, ProductRow(p), mode)
        BY <1>1, <1>7 DEF ImportRow
    <2> QED
        BY <1>7, <1>2, <2>1, ScanKeeps DEF ImportRow
<1>8. CASE ImportRefused(t)
    BY <1>8, <1>1, RollbackKeeps DEF ImportRefused
<1> QED
    BY <1>4, <1>5, <1>6, <1>7, <1>8

\* The rows an import writes are locked by it: no checkout has a copy of them.
LEMMA ImportCommitKeeps ==
    ASSUME IInv, NEW t \in Txns, ImportCommit(t)
    PROVE  IInv'
<1> DEFINE written == {p \in Seed(t) : \E l \in held : l.txn = t /\ l.row = ProductRow(p)}
           repriced == {p \in written : req[t].price[p] # orm[t].price[p]}
           restocked == {p \in written : Missing(t, p) \/ req[t].stock[p] # orm[t].stock[p]}
<1>1. /\ pc[t] = "import_rows" /\ End(t, "ok")
      /\ price' = [p \in Products |-> IF p \in repriced THEN req[t].price[p] ELSE price[p]]
      /\ stock' = [p \in Products |-> IF p \in restocked THEN req[t].stock[p] ELSE stock[p]]
      /\ listed' = [p \in Products |-> listed[p] \/ p \in written]
      /\ stocked' = [p \in Products |-> stocked[p] + stock'[p] - stock[p]]
      /\ UNCHANGED <<balance, active, carts, item, orders, funded, spent, sold>>
    BY DEF ImportCommit
<1>2. /\ req[t].price \in Counts /\ req[t].stock \in Counts
      /\ \A p \in written : p \in Products /\ req[t].price[p] > 0
    BY <1>1 DEF IInv, TxnOK, RequestOK, Seed
<1>3. /\ price \in [Products -> Nat \ {0}] /\ stock \in Counts /\ stocked \in Counts /\ sold \in Counts
      /\ listed \in [Products -> BOOLEAN]
    BY DEF IInv, TypeOK, RowTypes, BookTypes
<1> HIDE DEF written
<1>4. /\ price' \in [Products -> Nat \ {0}] /\ stock' \in Counts /\ listed' \in [Products -> BOOLEAN]
      /\ \A p \in Products \ written : stock'[p] = stock[p]
    BY <1>1, <1>2, <1>3 DEF Counts
<1>5. ASSUME NEW p \in Products
      PROVE  /\ stocked[p] + stock'[p] - stock[p] \in Nat
             /\ stock'[p] + sold[p] = stocked[p] + stock'[p] - stock[p]
    <2>1. stock[p] \in Nat /\ stock'[p] \in Nat /\ sold[p] \in Nat /\ stock[p] + sold[p] = stocked[p]
        BY <1>3, <1>4 DEF Counts, IInv, NoLostUpdate
    <2> QED
        BY <2>1
<1>6. RowTypes' /\ BookTypes'
    BY <1>1, <1>4, <1>5 DEF IInv, TypeOK, RowTypes, BookTypes, Counts
<1>7. NoLostUpdate'
    BY <1>1, <1>5 DEF IInv, NoLostUpdate
<1>8. ASSUME NEW s \in Txns \ {t} PROVE Respects(s)
    <2>1. ASSUME NEW p \in Products, LockOf(s, ProductRow(p)) \in held PROVE p \notin written
        BY <2>1 DEF written, IInv, LocksOK, LockOf, Conflict
    <2> QED
        BY <2>1, <1>1, <1>4 DEF Respects
<1> QED
    BY <1>1, <1>6, <1>7, <1>8, CommitKeeps

\* Every step of the back office.
LEMMA BackOfficeKeeps ==
    ASSUME IInv, NEW t \in Txns, BackOfficeStep(t)
    PROVE  IInv'
BY CreditKeeps, CloseKeeps, EditKeeps, DropKeeps, ImportMovesKeep, ImportCommitKeeps DEF BackOfficeStep

-----------------------------------------------------------------------------
(* The theorems *)

\* IInv is inductive: one case for each kind of step.
LEMMA NextKeeps == IInv /\ [Next]_vars => IInv'
<1> SUFFICES ASSUME IInv, [Next]_vars PROVE IInv'
    OBVIOUS
<1>1. ASSUME NEW t \in Txns, NEW r \in Requests, Receive(t, r) PROVE IInv'
    BY <1>1, ReceiveKeeps
<1>2. ASSUME NEW t \in Txns, Step(t) PROVE IInv'
    BY <1>2, CheckoutKeeps, CartKeeps, BackOfficeKeeps DEF Step
<1>3. ASSUME NEW t \in Txns, DeadlockAbort(t) \/ Crash(t) PROVE IInv'
    BY <1>3, RollbackKeeps DEF DeadlockAbort, Crash, Replies
<1>4. CASE UNCHANGED vars
    <2>1. TypeOK' /\ LocksOK' /\ NoLostUpdate'
        BY <1>4 DEF vars, rows, books, IInv, TypeOK, RowTypes, TxnTypes, BookTypes, LocksOK, NoLostUpdate
    <2>2. \A t \in Txns : TxnOK(t)'
        BY <1>4 DEF vars, rows, IInv, TxnOK, RequestOK, FreshOK, UserOK, AccountOK, ProductsOK, LinesOK
    <2> QED
        BY <2>1, <2>2 DEF IInv
<1> QED
    BY <1>1, <1>2, <1>3, <1>4 DEF Next, AllDone

\* The inductive invariant holds in every reachable state of the store.
THEOREM Invariance == Spec => []IInv
BY InitOK, NextKeeps, PTL DEF Spec

\* Wallets, stocks and quantities stay within their columns and constraints.
THEOREM TypeCorrect == Spec => []TypeOK
<1>1. IInv => TypeOK
    BY DEF IInv
<1> QED
    BY Invariance, <1>1, PTL

\* No charge, wallet charge, sale or edit of a stock overwrites another one.
THEOREM NothingIsLost == Spec => []NoLostUpdate
<1>1. IInv => NoLostUpdate
    BY DEF IInv
<1> QED
    BY Invariance, <1>1, PTL

\* Only the commit of a checkout spends, and its user's account is open at that moment.
LEMMA SpendingIsAuthorised ==
    ASSUME IInv, [Next]_vars, NEW u \in Users, ~active[u]
    PROVE  spent'[u] = spent[u]
<1>1. spent \in [Users -> Nat]
    BY DEF IInv, TypeOK, BookTypes
<1>2. ASSUME NEW t \in Txns, CheckoutPay(t) PROVE spent'[u] = spent[u]
    <2>1. pc[t] \in CheckoutLocked /\ pc[t] \in CheckoutLabels
        BY <1>2 DEF CheckoutPay, CheckoutLocked, CheckoutLabels
    <2>2. active[req[t].user] /\ req[t].user # u
        BY <2>1 DEF IInv, TxnOK, AccountOK
    <2> QED
        BY <1>1, <1>2, <2>2 DEF CheckoutPay, CheckoutCommit, Rollback, books
<1>3. ASSUME NEW t \in Txns, CheckoutStep(t), ~CheckoutPay(t) PROVE UNCHANGED spent
    BY <1>3 DEF CheckoutStep, CheckoutLockUser, CheckoutInactive, CheckoutReplay, CheckoutNewOrder,
                CheckoutNoCart, CheckoutLockCart, CheckoutListItems, CheckoutLockItem, CheckoutEmpty,
                CheckoutListProducts, CheckoutLockProduct, CheckoutPrepare, CheckoutLine,
                CheckoutNoFunds, Goto, Rollback, books
<1>4. ASSUME NEW t \in Txns, CartStep(t) PROVE UNCHANGED spent
    BY <1>4 DEF CartStep, AddLockProduct, AddRefused, AddFindCart, AddNewCart, AddCartOwner,
                AddFindItem, AddInsert, AddUpdate, PutItem, SetLockItem, SetLockCart, SetQuantity,
                RemoveItem, ClearList, ClearRow, ClearCommit, Goto, Rollback, books
<1>5. ASSUME NEW t \in Txns, BackOfficeStep(t) PROVE UNCHANGED spent
    BY <1>5 DEF BackOfficeStep, CreditLockUser, CreditWrite, CloseAccount, EditRead, EditWrite,
                DropList, DropRow, DropGet, DropDelete, DropRefused, DropCommit, ImportOpen,
                ImportRead, ImportFlush, ImportRow, ImportRefused, ImportCommit, Goto, Rollback, books
<1>6. ASSUME NEW t \in Txns, NEW r \in Requests, Receive(t, r) PROVE UNCHANGED spent
    BY <1>6 DEF Receive, books
<1>7. ASSUME NEW t \in Txns, DeadlockAbort(t) \/ Crash(t) PROVE UNCHANGED spent
    BY <1>7 DEF DeadlockAbort, Crash, Rollback, books
<1> QED
    BY <1>2, <1>3, <1>4, <1>5, <1>6, <1>7 DEF Next, Step, AllDone, vars, books

\* A checkout that was admitted before the account was closed does not charge it after.
THEOREM NobodyPaysWhenClosed == Spec => ClosedAccountPaysNothing
<1>1. IInv /\ [Next]_vars => [\A u \in Users : ~active[u] => spent'[u] = spent[u]]_vars
    BY SpendingIsAuthorised
<1> QED
    BY Invariance, <1>1, PTL DEF Spec, ClosedAccountPaysNothing
=============================================================================
