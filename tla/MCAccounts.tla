----------------------------- MODULE MCAccounts ------------------------------
(* Accounts for TLC: registrations that may race, links asked for, and two *)
(* resets that may use one of them or one each.                            *)
EXTENDS Accounts

CONSTANTS e1, e2, p1, p2, r1, r2, r3, r4, r5, r6

Ask(kind, e, p) == [kind |-> kind, email |-> e, password |-> p]

Given(second, third) ==
  <<Ask("register", e1, p1), second, Ask("forgot", e1, p1), third,
    Ask("reset", e1, p1), Ask("reset", e1, p2)>>

Index(r) == CASE r = r1 -> 1 [] r = r2 -> 2 [] r = r3 -> 3 [] r = r4 -> 4 [] r = r5 -> 5 [] r = r6 -> 6

MCAsks == {[r \in Req |-> Given(second, third)[Index(r)]] :
             second \in {Ask("register", e1, p2), Ask("register", e2, p2), Ask("login", e1, p1)},
             third  \in {Ask("forgot", e1, p1), Ask("forgot", e2, p1),
                         Ask("refresh", e1, p1), Ask("reset", e1, p2)}}
=============================================================================
