------------------------------- MODULE MCGate -------------------------------
(* An instance of Gate for TLC: two tabs of one browser, one with two clicks. *)
EXTENDS Gate

CONSTANTS a1, a2, b1

TabOfClick == [c \in Clicks |-> IF c = b1 THEN "b" ELSE "a"]
=============================================================================
