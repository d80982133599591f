--------------------------- MODULE MCProjectRoom ---------------------------
(* ProjectRoom for TLC: "tabs" gives u1 two tabs on two processes beside   *)
(* u2; "solo" gives every connection a user of its own.                    *)
EXTENDS ProjectRoom

CONSTANTS c1, c2, c3, u1, u2, u3, i1, i2

TabsOwner == [c \in Conn |-> IF c = c3 THEN u2 ELSE u1]
SoloOwner == [c \in Conn |-> IF c = c1 THEN u1 ELSE IF c = c2 THEN u2 ELSE u3]
(* Bounds: somebody watches the others come and go.  It is c1, whose page  *)
(* asks for the list over HTTP once its user's other tab has left, if it   *)
(* does, and is told of u2; or c3, alone with c2, whose page is told of    *)
(* u1.                                                                     *)
Told(c, users) == rest[c] = users /\ \A d \in Conn \ {c} : rest[d] = {}
ObserverStays ==
  \/ c1 \notin gone /\ \A c \in Conn : rest[c] = {}
  \/ c1 \notin gone /\ Told(c1, {u2}) /\ pc[c1] = "open" /\ pc[c2] = "closed"
  \/ c3 \notin gone /\ Told(c3, {u1}) /\ pc[c1] = "idle"

MCHost    == [c \in Conn |-> IF c = c2 THEN i2 ELSE i1]
=============================================================================
