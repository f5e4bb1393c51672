----------------------------- MODULE MCSessions ------------------------------
(***************************************************************************)
(* Instances of Sessions for TLC: one customer with two sessions, who may   *)
(* sign in again.                                                           *)
(***************************************************************************)
EXTENDS Sessions, TLC

CONSTANTS u1, s1, s2, t1, t2, t3

TwoTxns == {t1, t2}
ThreeTxns == {t1, t2, t3}
AnyTxn == Permutations(Txns)
FirstOwnsAll == [s \in StartTokens |-> u1]
AllPassword == [u \in Users |-> "p1"]

Login(u, p) == [op |-> "login", user |-> u, password |-> p]
View(s) == [op |-> "view", token |-> s]
Logout(s) == [op |-> "logout", token |-> s]
ChangeTo(s, p, q) == [op |-> "change", token |-> s, password |-> p, new |-> q]
Close(s) == [op |-> "close", token |-> s, password |-> "p1"]

\* A password change from one session, with the other and a login going on.
SessionRequests ==
    {Login(u1, "p1"), View(s1), View(s2), Logout(s2),
     ChangeTo(s1, "p1", "p2"), ChangeTo(s2, "p2", "p1"), Close(s1)}
        \cup {View(t) : t \in Txns}

RehashRequests == {Login(u1, "p1"), ChangeTo(s1, "p1", "p2")}
=============================================================================
