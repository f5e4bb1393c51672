----------------------------- MODULE PoolProofs -----------------------------
(***************************************************************************)
(* Theorems of ConnectionPool, for any number of requests of any kinds and  *)
(* any size of the pool.                                                    *)
(***************************************************************************)
EXTENDS ConnectionPool, Sums

\* How many connections a request's sessions hold, by where it is.
Holds(r) ==
    CASE pc[r] \in {"idle", "user", "refresh", "done"} -> 0
      [] pc[r] \in {"handler", "begin"} -> 1
      [] pc[r] = "row" -> 2
      [] pc[r] = "locked" -> IF Kind[r] = "checkout" THEN 2 ELSE 1
      [] OTHER -> IF Kind[r] = "plain" THEN 0 ELSE 1

\* What is true of one request.
RequestOK(r) ==
    /\ pc[r] \in Labels /\ has[r] = Holds(r)
    /\ changed[r] \in BOOLEAN /\ reply[r] \in {"none", "ok", "unchanged", "error"}
    /\ pc[r] \in {"begin", "row"} => Kind[r] = "checkout"
    /\ pc[r] = "refresh" => Kind[r] = "refresh"
    /\ changed[r] => pc[r] \in {"refresh", "answer", "done"}
    /\ pc[r] # "done" => reply[r] = "none"
    /\ reply[r] = "error" /\ changed[r] => Kind[r] = "refresh"

\* The inductive invariant.  The pool never lends more than it has, and the row's lock is held
\* by the one request that is between its SELECT FOR UPDATE and its commit.
IInv ==
    /\ pc \in [Requests -> Labels] /\ has \in [Requests -> Nat]
    /\ changed \in [Requests -> BOOLEAN]
    /\ reply \in [Requests -> {"none", "ok", "unchanged", "error"}]
    /\ Free >= 0
    /\ lock = {r \in Requests : pc[r] = "locked"}
    /\ \A r, s \in Requests : pc[r] = "locked" /\ pc[s] = "locked" => r = s
    /\ \A r \in Requests : RequestOK(r)

\* Connections a request takes or gives back are missing from the pool or back in it.
LEMMA FreeChanges ==
    ASSUME has \in [Requests -> Nat], has' \in [Requests -> Nat], NEW r \in Requests,
           \A s \in Requests \ {r} : has'[s] = has[s]
    PROVE  Free \in Int /\ Free' \in Int /\ Free' + has'[r] = Free + has[r]
<1> DEFINE new == has'
<1>1. /\ SumFunction(has) \in Nat /\ SumFunction(new) \in Nat
      /\ SumFunction(new) + has[r] = SumFunction(has) + new[r]
    <2> HIDE DEF new
    <2>1. new \in [Requests -> Nat] /\ \A s \in Requests \ {r} : new[s] = has[s]
        BY DEF new
    <2> QED
        BY <2>1, RequestsAssumption, SumUpdate
<1>2. Free' = Size - SumFunction(new)
    BY DEF Free
<1>3. has[r] \in Nat /\ new[r] \in Nat
    OBVIOUS
<1> HIDE DEF new
<1>4. Free = Size - SumFunction(has)
    BY DEF Free
<1>5. Free' \in Int /\ Free' + new[r] = Free + has[r] /\ Free \in Int
    BY <1>1, <1>2, <1>3, <1>4, SizeAssumption
<1> QED
    BY <1>5 DEF new

\* At first nobody has a connection and the row is free.
LEMMA InitHolds == Init => IInv
<1> SUFFICES ASSUME Init PROVE IInv
    OBVIOUS
<1>1. \A r \in Requests : has[r] = 0
    BY DEF Init
<1>2. SumFunctionOnSet(has, Requests) = 0 /\ DOMAIN has = Requests
    BY <1>1, RequestsAssumption, SumZero DEF Init
<1>3. Free = Size
    BY <1>2, SizeAssumption DEF Free, SumFunction
<1> QED
    BY <1>3, SizeAssumption DEF Init, IInv, RequestOK, Holds, Labels

\* A step of one request: the others keep what is true of them, and the pool has what it needs.
LEMMA OneMoves ==
    ASSUME IInv, NEW r \in Requests,
           pc' \in [Requests -> Labels], has' \in [Requests -> Nat],
           changed' \in [Requests -> BOOLEAN],
           reply' \in [Requests -> {"none", "ok", "unchanged", "error"}],
           \A s \in Requests \ {r} :
              pc'[s] = pc[s] /\ has'[s] = has[s] /\ changed'[s] = changed[s] /\ reply'[s] = reply[s],
           RequestOK(r)',
           has'[r] <= has[r] \/ (Free > 0 /\ has'[r] = has[r] + 1),
           lock' = IF pc'[r] = "locked" THEN {r} ELSE lock \ {r},
           pc'[r] = "locked" => lock \subseteq {r}
    PROVE  IInv'
<1>1. Free \in Int /\ Free' \in Int /\ Free' + has'[r] = Free + has[r]
    BY FreeChanges DEF IInv
<1>2. Free' >= 0
    BY <1>1 DEF IInv
<1>3. \A s \in Requests \ {r} : RequestOK(s)'
    BY DEF IInv, RequestOK, Holds
<1>4. lock' = {s \in Requests : pc'[s] = "locked"}
    BY DEF IInv
<1>5. \A s, t \in Requests : pc'[s] = "locked" /\ pc'[t] = "locked" => s = t
    BY DEF IInv
<1> QED
    BY <1>2, <1>3, <1>4, <1>5 DEF IInv

\* Closing its sessions gives back what a request had.
LEMMA EndKeeps ==
    ASSUME IInv, NEW r \in Requests, NEW answer \in {"ok", "unchanged", "error"}, End(r, answer),
           UNCHANGED changed, changed[r] /\ answer = "error" => Kind[r] = "refresh"
    PROVE  IInv'
<1>1. /\ pc'[r] = "done" /\ has'[r] = 0 /\ reply'[r] = answer
      /\ \A s \in Requests \ {r} : pc'[s] = pc[s] /\ has'[s] = has[s] /\ reply'[s] = reply[s]
      /\ pc' \in [Requests -> Labels] /\ has' \in [Requests -> Nat]
      /\ reply' \in [Requests -> {"none", "ok", "unchanged", "error"}]
    BY DEF IInv, End, Goto, Labels
<1>2. RequestOK(r)'
    BY <1>1 DEF IInv, RequestOK, Holds, Labels
<1>3. lock' = lock \ {r} /\ 0 <= has[r]
    BY DEF End, IInv
<1> QED
    BY <1>1, <1>2, <1>3, OneMoves DEF IInv

\* A step that takes a connection, or does nothing to the pool.
LEMMA TakeKeeps ==
    ASSUME IInv, NEW r \in Requests, NEW label \in Labels \ {"locked"}, Goto(r, label), pc[r] # "locked",
           Take(r) \/ UNCHANGED has, UNCHANGED <<lock, changed, reply>>, RequestOK(r)'
    PROVE  IInv'
<1>1. /\ pc' \in [Requests -> Labels] /\ has' \in [Requests -> Nat] /\ pc'[r] = label
      /\ \A s \in Requests \ {r} : pc'[s] = pc[s] /\ has'[s] = has[s]
      /\ has'[r] <= has[r] \/ (Free > 0 /\ has'[r] = has[r] + 1)
    BY DEF IInv, Goto, Take
<1>2. lock' = lock \ {r}
    BY DEF IInv
<1> QED
    BY <1>1, <1>2, OneMoves DEF IInv

\* A request that arrives or works keeps the pool's books: one lemma for every action.
LEMMA StepKeeps ==
    ASSUME IInv, NEW r \in Requests, Arrive(r) \/ Work(r)
    PROVE  IInv'
<1>1. RequestOK(r) /\ Kind[r] \in Kinds
    BY KindAssumption DEF IInv
<1>2. CASE Arrive(r)
    <2>1. RequestOK(r)'
        BY <1>1, <1>2 DEF Arrive, Goto, IInv, RequestOK, Holds, Labels
    <2> QED
        BY <1>2, <2>1, TakeKeeps DEF Arrive, Labels
<1>3. CASE ReadUser(r)
    <2>1. RequestOK(r)'
        BY <1>1, <1>3 DEF ReadUser, Take, Goto, IInv, RequestOK, Holds, Labels
    <2> QED
        BY <1>3, <2>1, TakeKeeps DEF ReadUser, Labels
<1>4. CASE NoChange(r)
    <2>1. ~changed[r]
        BY <1>1, <1>4 DEF NoChange, RequestOK
    <2> QED
        BY <1>4, <2>1, EndKeeps DEF NoChange
<1>5. CASE OwnSession(r)
    <2>1. RequestOK(r)'
        BY <1>1, <1>5 DEF OwnSession, Goto, IInv, RequestOK, Holds, Labels
    <2> QED
        BY <1>5, <2>1, TakeKeeps DEF OwnSession, Labels
<1>6. CASE Begin(r)
    <2>1. RequestOK(r)'
        BY <1>1, <1>6 DEF Begin, Take, Goto, IInv, RequestOK, Holds, Labels
    <2> QED
        BY <1>6, <2>1, TakeKeeps DEF Begin, Labels
<1>7. CASE LockRow(r)
    <2>1. RequestOK(r)'
        BY <1>1, <1>7 DEF LockRow, AtRow, Goto, IInv, RequestOK, Holds, Labels
    <2>2. /\ pc' \in [Requests -> Labels] /\ pc'[r] = "locked" /\ has' = has
          /\ \A s \in Requests \ {r} : pc'[s] = pc[s]
          /\ lock' = {r} /\ lock = {} /\ changed' = changed /\ reply' = reply
        BY <1>7 DEF LockRow, Goto, IInv, Labels
    <2>3. has'[r] <= has[r]
        BY <2>2 DEF IInv
    <2> QED
        BY <2>1, <2>2, <2>3, OneMoves DEF IInv
<1>8. CASE Commit(r)
    <2>1. has[r] = IF Kind[r] = "checkout" THEN 2 ELSE 1
        BY <1>1, <1>8 DEF Commit, RequestOK, Holds
    <2>2. has'[r] = (IF Kind[r] = "checkout" THEN 1 ELSE 0) /\ has' \in [Requests -> Nat]
        BY <1>8, <2>1 DEF Commit, IInv
    <2>3. /\ pc' \in [Requests -> Labels] /\ pc'[r] = IF Kind[r] = "refresh" THEN "refresh" ELSE "answer"
          /\ changed' \in [Requests -> BOOLEAN] /\ changed'[r] /\ reply' = reply
          /\ \A s \in Requests \ {r} : pc'[s] = pc[s] /\ has'[s] = has[s] /\ changed'[s] = changed[s]
          /\ lock' = lock \ {r}
        BY <1>8 DEF Commit, Goto, IInv, Labels
    <2>4. RequestOK(r)'
        BY <1>1, <1>8, <2>2, <2>3 DEF Commit, RequestOK, Holds, Labels, Kinds
    <2>5. has'[r] <= has[r]
        BY <2>1, <2>2
    <2> QED
        BY <2>2, <2>3, <2>4, <2>5, OneMoves DEF IInv
<1>9. CASE Refresh(r)
    <2>1. RequestOK(r)'
        BY <1>1, <1>9 DEF Refresh, Take, Goto, IInv, RequestOK, Holds, Labels
    <2> QED
        BY <1>9, <2>1, TakeKeeps DEF Refresh, Labels
<1>10. CASE Answer(r)
    BY <1>10, EndKeeps DEF Answer
<1>11. CASE Timeout(r)
    <2>1. changed[r] => Kind[r] = "refresh"
        BY <1>1, <1>11 DEF Timeout, Waits, RequestOK
    <2> QED
        BY <1>11, <2>1, EndKeeps DEF Timeout
<1> QED
    BY <1>2, <1>3, <1>4, <1>5, <1>6, <1>7, <1>8, <1>9, <1>10, <1>11 DEF Work

\* IInv holds in every reachable state.
LEMMA Holding == Spec => []IInv
<1>1. Init => IInv
    BY InitHolds
<1>2. IInv /\ [Next]_vars => IInv'
    <2> SUFFICES ASSUME IInv, [Next]_vars PROVE IInv'
        OBVIOUS
    <2>1. CASE Next
        BY <2>1, StepKeeps DEF Next
    <2>2. CASE UNCHANGED vars
        BY <2>2 DEF vars, IInv, Free, RequestOK, Holds
    <2> QED
        BY <2>1, <2>2
<1> QED
    BY <1>1, <1>2, PTL DEF Spec

\* The pool never lends a connection twice nor loses one, no request holds more than two, and
\* the row is locked by one request at most: the one that is between its SELECT FOR UPDATE and
\* its commit or its refusal.
THEOREM TypesHold == Spec => []TypeOK
<1>1. IInv => TypeOK
    <2> SUFFICES ASSUME IInv PROVE TypeOK
        OBVIOUS
    <2>1. has \in [Requests -> 0 .. 2]
        BY KindAssumption DEF IInv, RequestOK, Holds, Kinds
    <2>2. SumFunction(has) \in Nat
        BY RequestsAssumption, SumNat DEF IInv
    <2>3. Free \in 0 .. Size
        BY <2>2, SizeAssumption DEF IInv, Free
    <2>4. Cardinality(lock) <= 1
        <3>1. CASE lock = {}
            BY <3>1, FS_EmptySet
        <3>2. CASE lock # {}
            <4>1. PICK r \in Requests : r \in lock
                BY <3>2 DEF IInv
            <4>2. ASSUME NEW s \in lock PROVE s = r
                BY <4>1, <4>2 DEF IInv
            <4>3. lock = {r}
                BY <4>1, <4>2
            <4>4. Cardinality({r}) = 1
                BY FS_Singleton, Zenon
            <4> QED
                BY <4>3, <4>4
        <3> QED
            BY <3>1, <3>2
    <2> QED
        BY <2>1, <2>3, <2>4 DEF IInv, TypeOK
<1> QED
    BY <1>1, Holding, PTL

\* A 500 of the pool means that nothing was changed, except by the handlers that read again
\* after their commit: a checkout that is refused a connection has charged nothing.
THEOREM ErrorsChangeNothing == Spec => []ErrorMeansUnchanged
<1>1. IInv => ErrorMeansUnchanged
    BY DEF IInv, RequestOK, ErrorMeansUnchanged
<1> QED
    BY <1>1, Holding, PTL

\* The server stands still only when exactly as many checkouts as the pool has connections hold
\* one each and wait for their second: whoever waits for his first or to read again has none.
THEOREM OnlyCheckoutsStall == Spec => []StallTakesAPoolOfCheckouts
<1>1. IInv => StallTakesAPoolOfCheckouts
    <2> SUFFICES ASSUME IInv, Stalled PROVE Cardinality({r \in Requests : pc[r] = "begin"}) = Size
        BY DEF StallTakesAPoolOfCheckouts
    <2>1. \A r \in Requests : pc[r] \in {"user", "begin", "refresh", "idle", "done"}
        BY DEF Stalled, Waits
    <2>2. \A r \in Requests : has[r] = IF pc[r] = "begin" THEN 1 ELSE 0
        BY <2>1 DEF IInv, RequestOK, Holds
    <2>3. SumFunctionOnSet(has, Requests) = Cardinality({r \in Requests : has[r] = 1})
        BY <2>2, RequestsAssumption, SumCount
    <2>4. {r \in Requests : has[r] = 1} = {r \in Requests : pc[r] = "begin"}
        BY <2>2
    <2>5. SumFunction(has) = SumFunctionOnSet(has, Requests)
        BY DEF IInv, SumFunction
    <2>6. SumFunction(has) \in Nat /\ Size - SumFunction(has) = 0
        BY RequestsAssumption, SumNat DEF IInv, Stalled, Free
    <2> QED
        BY <2>3, <2>4, <2>5, <2>6, SizeAssumption
<1> QED
    BY <1>1, Holding, PTL
=============================================================================
