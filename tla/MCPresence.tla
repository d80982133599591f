----------------------------- MODULE MCPresence -----------------------------
(* Presence for TLC: user u1 opens several tabs, spread over two processes, *)
(* user u2 a single one.                                                   *)
EXTENDS Presence

CONSTANTS c1, c2, c4, u1, u2, i1, i2

MCOwner == [c \in Conn |-> IF c = c4 THEN u2 ELSE u1]
MCHost  == [c \in Conn |-> IF c = c1 THEN i1 ELSE i2]
=============================================================================
