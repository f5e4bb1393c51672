--------------------------- MODULE MCRegistration ----------------------------
(***************************************************************************)
(* Instances of Registration for TLC.                                       *)
(***************************************************************************)
EXTENDS Registration, TLC

CONSTANTS e1, e2, t1, t2, t3, t4

ThreeTxns == {t1, t2, t3}
FourTxns == {t1, t2, t3, t4}
AnyTxn == Permutations(Txns)

Register(e, n) == [op |-> "register", email |-> e, name |-> n]
Resend(e) == [op |-> "resend", email |-> e]
Verify(e, c) == [op |-> "verify", email |-> e, code |-> c]

CreateAdmin(e, n) == [op |-> "admin", email |-> e, name |-> n]
UpdateUsername(e, n) == [op |-> "rename", email |-> e, name |-> n]

\* Four requests about one address, or about two that register or take the same name.
OpeningRequests ==
    {Register(e1, "n1"), Register(e2, "n1"), Resend(e1), Verify(e1, Guess),
     CreateAdmin(e2, "n2"), UpdateUsername(e1, "n2")}
        \cup {Verify(e, t) : e \in Emails, t \in Txns}

ResendRequests == {Register(e1, "n1"), Resend(e1)}
=============================================================================
