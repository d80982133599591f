---------------------------- MODULE MCMembership ----------------------------
(* Membership for TLC: an organization, a second request inside it, and    *)
(* two of one kind that may race for a key.                                *)
EXTENDS Membership

CONSTANTS u1, u2, r1, r2, r3, r4, general

MCGeneral == <<general>>
MCName    == {<<general>>, <<general, 2>>, <<>>}

Ask(kind, u, s, n, who, role) ==
  [kind |-> kind, actor |-> u, scope |-> s, name |-> n, who |-> who, role |-> role]

First == Ask("organization", u1, r1, <<general>>, u1, "owner")

Second == {Ask("organization", u2, r1, <<general, 2>>, u1, "owner"),
           Ask("workspace member", u1, r1, <<>>, u2, "member"),
           Ask("workspace member", u1, r1, <<>>, u2, "admin"),
           Ask("workspace", u2, r1, <<>>, u1, "owner"),
           Ask("project", u1, r1, <<general>>, u1, "owner")}

Names(kind) == IF kind \in {"project", "label"} THEN {<<general>>, <<>>} ELSE {<<general>>}

Pair(kind) ==
  IF kind \in {"workspace member", "project member"}
  THEN {Ask(kind, u, s, <<>>, who, "admin") : u \in User, s \in {r1, r2}, who \in {u2, Stranger}}
  ELSE {Ask(kind, u, s, n, u1, "owner") : u \in User, s \in {r1, r2}, n \in Names(kind)}

MCAsks == {[r \in Req |-> CASE r = r1 -> First [] r = r2 -> b [] r = r3 -> c [] r = r4 -> d] :
            b \in Second, <<c, d>> \in UNION {Pair(k) \X Pair(k) : k \in
              {"organization", "workspace", "project", "label", "workspace member", "project member"}}}
=============================================================================
