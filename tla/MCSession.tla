------------------------------ MODULE MCSession ------------------------------
(* Session for TLC: one tab with two requests at a time.                   *)
EXTENDS Session

CONSTANTS x1, q1, q2, u1, u2

MCTabOf == [q \in Req |-> x1]
=============================================================================
