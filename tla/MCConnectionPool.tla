-------------------------- MODULE MCConnectionPool --------------------------
(* An instance of ConnectionPool for TLC: more checkouts than connections. *)
EXTENDS ConnectionPool

CONSTANTS c1, c2, c3, w1, g1

KindOf == [r \in Requests |->
    IF r \in {c1, c2, c3} THEN "checkout" ELSE IF r = g1 THEN "plain" ELSE "refresh"]
=============================================================================
