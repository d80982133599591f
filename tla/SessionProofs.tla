---------------------------- MODULE SessionProofs ----------------------------
(***************************************************************************)
(* What Session's runs check of one tab, for any number of tabs, requests  *)
(* and accounts.                                                           *)
(***************************************************************************)
EXTENDS Session, TLAPS

(* What an answer on its way rests on.                                     *)
Answers ==
  \A q \in Req :
    /\ req[q].pc = "ok" /\ req[q].kind = "login" => req[q].as # None
    /\ req[q].pc = "ok" /\ req[q].kind # "login" => req[q].bearer # None
    /\ call[q].pc # "none" => call[q].key # None
    /\ call[q].pc = "refused" => ~call[q].key.live

(* A promise is kept by a call of its own tab.                             *)
PromiseKept ==
  \A x \in Tab : promise[x] # None => /\ TabOf[promise[x]] = x
                                      /\ call[promise[x]].pc # "none"

IInv == TypeOK /\ Answers /\ PromiseKept /\ OneRefreshPerTab

\* The idle request and the absent call have the types of a request and a call.
LEMMA Records == Idle \in Request /\ NoCall \in Call
BY DEF Idle, NoCall, Request, Call

(* A token that expires is still a token of its account; no token stays    *)
(* none.                                                                   *)
LEMMA Expiry ==
  ASSUME NEW u, NEW t \in Token \cup {None}
  PROVE  /\ Expired(t, u) \in Token \cup {None}
         /\ Expired(t, u) = None <=> t = None
         /\ t # None => /\ Expired(t, u).of = t.of
                        /\ ~t.live => ~Expired(t, u).live
BY NoneAssumption DEF Expired, Token

\* A request sent again with another token is a request that has been sent.
LEMMA Resent ==
  ASSUME NEW r \in Request, NEW t \in Token
  PROVE  /\ [r EXCEPT !.pc = "sent", !.bearer = t, !.awaits = None] \in Request
         /\ [r EXCEPT !.pc = "sent", !.bearer = t, !.awaits = None].pc = "sent"
BY DEF Request

(* Those that waited for a refresh are sent again, nobody else is touched. *)
LEMMA Granted ==
  ASSUME TypeOK, NEW q \in Req, RefreshGranted(q), call[q].key # None
  PROVE  \A p \in Req :
           /\ p \in Waiters(q) => req'[p].pc = "sent" /\ req'[p] \in Request
           /\ p \notin Waiters(q) => req'[p] = req[p]
<1>1. call[q].key \in Token
  BY DEF TypeOK, Call
<1>2. access' \in Token
  BY <1>1 DEF RefreshGranted, New, Token
<1>3. \A p \in Req : req[p] \in Request
  BY DEF TypeOK
<1>4. \A p \in Req :
        req'[p] = IF p \in Waiters(q)
                  THEN [req[p] EXCEPT !.pc = "sent", !.bearer = access', !.awaits = None]
                  ELSE req[p]
  BY DEF RefreshGranted
<1>5. \A p \in Waiters(q) : req'[p].pc = "sent" /\ req'[p] \in Request
  <2> TAKE p \in Waiters(q)
  <2>1. p \in Req
    BY DEF Waiters
  <2>2. PICK t \in Token : t = access'
    BY <1>2
  <2>3. PICK r \in Request : r = req[p]
    BY <1>3, <2>1
  <2>4. req'[p] = [r EXCEPT !.pc = "sent", !.bearer = t, !.awaits = None]
    BY <1>4, <2>1, <2>2, <2>3
  <2> QED
    BY <2>4, Resent
<1> QED
  BY <1>4, <1>5

(* What a page load leaves of the requests.                                *)
LEMMA LoadDrops ==
  ASSUME TypeOK, NEW x \in Tab, Load(x)
  PROVE  \A p \in Req :
           /\ TabOf[p] = x => req'[p].pc \in {"idle", "sent"} /\ call'[p] = NoCall
           /\ TabOf[p] # x => req'[p] = req[p] /\ call'[p] = call[p]
<1>1. \A p \in Req : call'[p] = IF TabOf[p] = x THEN NoCall ELSE call[p]
  BY DEF Load
<1>2. /\ Idle.pc = "idle"
      /\ [Idle EXCEPT !.pc = "sent", !.kind = "restore", !.bearer = access].pc = "sent"
  BY DEF Idle
<1>3. \A p \in Req : /\ TabOf[p] = x => req'[p].pc \in {"idle", "sent"}
                     /\ TabOf[p] # x => req'[p] = req[p]
  <2>1. CASE access = None /\ refresh = None
    BY <2>1, <1>2 DEF Load
  <2>2. CASE ~(access = None /\ refresh = None)
    BY <2>2, <1>2 DEF Load
  <2> QED
    BY <2>1, <2>2
<1> QED
  BY <1>1, <1>3

(* A request that fails is still a request.                                *)
LEMMA Failure ==
  ASSUME TypeOK, NEW q \in Req, NEW how \in {"denied", "error"}, Fail(q, how)
  PROVE  /\ req' \in [Req -> Request]
         /\ req'[q].pc = how
         /\ \A p \in Req \ {q} : req'[p] = req[p]
<1>1. req \in [Req -> Request]
  BY DEF TypeOK
<1>2. PICK r \in Request : r = [req[q] EXCEPT !.pc = how, !.bearer = None]
  BY <1>1 DEF Request
<1>3. req' = [req EXCEPT ![q] = r] /\ r.pc = how
  BY <1>1, <1>2 DEF Fail, Request
<1> QED
  BY <1>1, <1>3

\* Every step keeps the types.
LEMMA TypeStep == TypeOK /\ Answers /\ [Next]_vars => TypeOK'
<1> USE TabOfAssumption, NoneAssumption
<1> USE DEF TypeOK, Answers, store
<1> SUFFICES ASSUME TypeOK, Answers, [Next]_vars PROVE TypeOK'
  OBVIOUS
<1>1. ASSUME NEW x \in Tab, Load(x) PROVE TypeOK'
  <2>1. page' \in [Tab -> {"loading", "ready", "unloading"}]
    BY <1>1 DEF Load
  <2>2. shown' \in [Tab -> User \cup {None}] /\ promise' \in [Tab -> Req \cup {None}]
    BY <1>1 DEF Load
  <2>3. call' \in [Req -> Call]
    BY <1>1, Records DEF Load
  <2>4. \A p \in Req : [Idle EXCEPT !.pc = "sent", !.kind = "restore",
                                    !.bearer = access] \in Request
    BY DEF Idle, Request
  <2>5. req' \in [Req -> Request]
    <3>1. CASE access = None /\ refresh = None
      BY <1>1, <3>1, Records DEF Load
    <3>2. CASE ~(access = None /\ refresh = None)
      BY <1>1, <3>2, <2>4, Records DEF Load
    <3> QED
      BY <3>1, <3>2
  <2> QED
    BY <1>1, <2>1, <2>2, <2>3, <2>5 DEF Load
<1>2. ASSUME NEW x \in Tab, Leave(x) PROVE TypeOK'
  BY <1>2 DEF Leave
<1>3. ASSUME NEW x \in Tab, Logout(x) PROVE TypeOK'
  BY <1>3 DEF Logout, Clear
<1>4. ASSUME NEW q \in Req, NEW u \in User \cup {None}, SubmitLogin(q, u)
      PROVE TypeOK'
  BY <1>4 DEF SubmitLogin, Send, Idle, Request, Token
<1>5. ASSUME NEW q \in Req, Fetch(q) PROVE TypeOK'
  BY <1>5 DEF Fetch, Send, Idle, Request, Token
<1>6. ASSUME NEW q \in Req, Serve(q) PROVE TypeOK'
  <2>1. CASE req' = [req EXCEPT ![q].pc = "ok"]
    <3>1. PICK r \in Request : r = req[q]
      OBVIOUS
    <3>2. [r EXCEPT !.pc = "ok"] \in Request
      BY DEF Request
    <3>3. req' = [req EXCEPT ![q] = [r EXCEPT !.pc = "ok"]]
      BY <2>1, <3>1
    <3>4. req' \in [Req -> Request]
      BY <3>2, <3>3
    <3> QED
      BY <1>6, <3>4 DEF Serve
  <2>2. CASE Fail(q, "denied")
    BY <1>6, <2>2, Failure DEF Serve
  <2> QED
    BY <1>6, <2>1, <2>2 DEF Serve
<1>7. ASSUME NEW q \in Req, ServeRefresh(q) PROVE TypeOK'
  BY <1>7 DEF ServeRefresh, Call
<1>8. ASSUME NEW q \in Req, DataArrives(q) PROVE TypeOK'
  BY <1>8 DEF DataArrives, Settle, Idle, Request
<1>9. ASSUME NEW q \in Req, UserArrives(q) PROVE TypeOK'
  BY <1>9 DEF UserArrives, Settle, Loaded, Idle, Request, Token
<1>10. ASSUME NEW q \in Req, LoggedIn(q) PROVE TypeOK'
  BY <1>10 DEF LoggedIn, Send, New, Idle, Request, Token
<1>11. ASSUME NEW q \in Req, AwaitRefresh(q) PROVE TypeOK'
  BY <1>11 DEF AwaitRefresh, Refreshable, Shared, Request, Call, Token
<1>12. ASSUME NEW q \in Req, Rejected(q) PROVE TypeOK'
  <2>1. req' \in [Req -> Request]
    BY <1>12, Records DEF Rejected, Settle
  <2>2. CASE req[q].kind = "restore"
    BY <1>12, <2>1, <2>2 DEF Rejected, Clear, Loaded
  <2>3. CASE req[q].kind # "restore"
    BY <1>12, <2>1, <2>3 DEF Rejected
  <2> QED
    BY <2>2, <2>3
<1>13. ASSUME NEW q \in Req, RefreshGranted(q) PROVE TypeOK'
  <2>1. call[q].key \in Token
    BY <1>13 DEF RefreshGranted, Call
  <2>2. access' \in Token
    BY <1>13, <2>1 DEF RefreshGranted, New, Token
  <2>3. req' \in [Req -> Request]
    BY <1>13, Granted DEF RefreshGranted
  <2>4. call' \in [Req -> Call] /\ promise' \in [Tab -> Req \cup {None}]
    BY <1>13, Records DEF RefreshGranted
  <2> QED
    BY <1>13, <2>2, <2>3, <2>4 DEF RefreshGranted
<1>14. ASSUME NEW q \in Req, RefreshRefused(q) PROVE TypeOK'
  BY <1>14 DEF RefreshRefused, Waiters, Clear, Idle, NoCall, Request, Call
<1>15. ASSUME NEW q \in Req, Unanswered(q) PROVE TypeOK'
  <2>1. CASE req[q].pc = "sent" /\ Fail(q, "error") /\ UNCHANGED call
    BY <1>15, <2>1, Failure DEF Unanswered
  <2>2. CASE /\ call[q].pc = "posted"
             /\ call' = [call EXCEPT ![q].pc = "lost"]
             /\ UNCHANGED req
    BY <1>15, <2>2 DEF Unanswered, Call
  <2> QED
    BY <1>15, <2>1, <2>2 DEF Unanswered
<1>16. ASSUME NEW u \in User, ExpireAccess(u) PROVE TypeOK'
  <2>1. access' \in Token \cup {None}
    BY <1>16, Expiry DEF ExpireAccess
  <2>2. \A q \in Req : [req[q] EXCEPT !.bearer = Expired(@, u)] \in Request
    <3> TAKE q \in Req
    <3>1. req[q] \in Request /\ Expired(req[q].bearer, u) \in Token \cup {None}
      BY Expiry DEF Request
    <3> QED
      BY <3>1 DEF Request
  <2> QED
    BY <1>16, <2>1, <2>2 DEF ExpireAccess
<1>17. ASSUME NEW u \in User, ExpireRefresh(u) PROVE TypeOK'
  <2>1. refresh' \in Token \cup {None}
    BY <1>17, Expiry DEF ExpireRefresh
  <2>2. \A q \in Req : [call[q] EXCEPT !.key = Expired(@, u)] \in Call
    <3> TAKE q \in Req
    <3>1. call[q] \in Call /\ Expired(call[q].key, u) \in Token \cup {None}
      BY Expiry DEF Call
    <3> QED
      BY <3>1 DEF Call
  <2> QED
    BY <1>17, <2>1, <2>2 DEF ExpireRefresh
<1>18. CASE UNCHANGED vars
  BY <1>18 DEF vars
<1> QED
  BY <1>1, <1>2, <1>3, <1>4, <1>5, <1>6, <1>7, <1>8, <1>9,
     <1>10, <1>11, <1>12, <1>13, <1>14, <1>15, <1>16, <1>17, <1>18
     DEF Next, Server, Client

\* What an answer on its way rests on stays true.
LEMMA AnswersStep == TypeOK /\ Answers /\ [Next]_vars => Answers'
<1> USE TabOfAssumption, NoneAssumption
<1> USE DEF TypeOK, Answers, store
<1> SUFFICES ASSUME TypeOK, Answers, [Next]_vars PROVE Answers'
  OBVIOUS
<1>1. ASSUME NEW x \in Tab, Load(x) PROVE Answers'
  BY <1>1, LoadDrops DEF NoCall
<1>2. ASSUME NEW x \in Tab, Leave(x) PROVE Answers'
  BY <1>2 DEF Leave
<1>3. ASSUME NEW x \in Tab, Logout(x) PROVE Answers'
  BY <1>3 DEF Logout, Clear
<1>4. ASSUME NEW q \in Req, NEW u \in User \cup {None}, SubmitLogin(q, u)
      PROVE Answers'
  BY <1>4 DEF SubmitLogin, Send, Idle, Request, Token
<1>5. ASSUME NEW q \in Req, Fetch(q) PROVE Answers'
  BY <1>5 DEF Fetch, Send, Idle, Request, Token
<1>6. ASSUME NEW q \in Req, Serve(q) PROVE Answers'
  BY <1>6 DEF Serve, Fail, PasswordRight, TokenValid, Request
<1>7. ASSUME NEW q \in Req, ServeRefresh(q) PROVE Answers'
  BY <1>7 DEF ServeRefresh, Call
<1>8. ASSUME NEW q \in Req, DataArrives(q) PROVE Answers'
  BY <1>8 DEF DataArrives, Settle, Idle, Request
<1>9. ASSUME NEW q \in Req, UserArrives(q) PROVE Answers'
  BY <1>9 DEF UserArrives, Settle, Loaded, Idle, Request, Token
<1>10. ASSUME NEW q \in Req, LoggedIn(q) PROVE Answers'
  BY <1>10 DEF LoggedIn, Send, New, Idle, Request, Token
<1>11. ASSUME NEW q \in Req, AwaitRefresh(q) PROVE Answers'
  BY <1>11 DEF AwaitRefresh, Refreshable, Shared, Request, Call, Token
<1>12. ASSUME NEW q \in Req, Rejected(q) PROVE Answers'
  BY <1>12 DEF Rejected, Refreshable, Settle, Clear, Loaded, Idle, Request
<1>13. ASSUME NEW q \in Req, RefreshGranted(q) PROVE Answers'
  <2>1. \A p \in Req : call'[p] \in {NoCall, call[p]}
    BY <1>13 DEF RefreshGranted
  <2>2. \A p \in Req : req'[p] = req[p] \/ req'[p].pc # "ok"
    BY <1>13, Granted DEF RefreshGranted
  <2> QED
    BY <2>1, <2>2 DEF NoCall
<1>14. ASSUME NEW q \in Req, RefreshRefused(q) PROVE Answers'
  BY <1>14 DEF RefreshRefused, Waiters, Clear, Idle, NoCall, Request, Call
<1>15. ASSUME NEW q \in Req, Unanswered(q) PROVE Answers'
  <2>1. CASE req[q].pc = "sent" /\ Fail(q, "error") /\ UNCHANGED call
    BY <1>15, <2>1, Failure DEF Unanswered
  <2>2. CASE /\ call[q].pc = "posted"
             /\ call' = [call EXCEPT ![q].pc = "lost"]
             /\ UNCHANGED req
    BY <1>15, <2>2 DEF Unanswered, Call
  <2> QED
    BY <1>15, <2>1, <2>2 DEF Unanswered
<1>16. ASSUME NEW u \in User, ExpireAccess(u) PROVE Answers'
  <2>1. \A p \in Req : /\ req'[p].pc = req[p].pc /\ req'[p].kind = req[p].kind
                       /\ req'[p].as = req[p].as
                       /\ req'[p].bearer = Expired(req[p].bearer, u)
    BY <1>16 DEF ExpireAccess, Request
  <2>2. \A p \in Req : req[p].bearer \in Token \cup {None}
    BY DEF Request
  <2>3. call' = call
    BY <1>16 DEF ExpireAccess
  <2> QED
    BY <2>1, <2>2, <2>3, Expiry
<1>17. ASSUME NEW u \in User, ExpireRefresh(u) PROVE Answers'
  <2>1. \A p \in Req : /\ call'[p].pc = call[p].pc
                       /\ call'[p].key = Expired(call[p].key, u)
    BY <1>17 DEF ExpireRefresh, Call
  <2>2. \A p \in Req : call[p].key \in Token \cup {None}
    BY DEF Call
  <2>3. req' = req
    BY <1>17 DEF ExpireRefresh
  <2> QED
    BY <2>1, <2>2, <2>3, Expiry
<1>18. CASE UNCHANGED vars
  BY <1>18 DEF vars
<1> QED
  BY <1>1, <1>2, <1>3, <1>4, <1>5, <1>6, <1>7, <1>8, <1>9,
     <1>10, <1>11, <1>12, <1>13, <1>14, <1>15, <1>16, <1>17, <1>18
     DEF Next, Server, Client

\* A promise stands only while a call of its own tab is out.
LEMMA RefreshStep ==
  TypeOK /\ Answers /\ PromiseKept /\ OneRefreshPerTab /\ [Next]_vars
    => PromiseKept' /\ OneRefreshPerTab'
<1> USE TabOfAssumption, NoneAssumption
<1> USE DEF TypeOK, PromiseKept, OneRefreshPerTab, store
<1> SUFFICES ASSUME TypeOK, Answers, PromiseKept, OneRefreshPerTab, [Next]_vars
             PROVE  PromiseKept' /\ OneRefreshPerTab'
  OBVIOUS
<1>1. ASSUME NEW x \in Tab, Load(x) PROVE PromiseKept' /\ OneRefreshPerTab'
  <2>1. \A p \in Req : TabOf[p] = x => call'[p].pc = "none" /\ req'[p].pc # "waiting"
    BY <1>1, LoadDrops DEF NoCall
  <2>2. \A p \in Req : TabOf[p] # x => call'[p] = call[p] /\ req'[p] = req[p]
    BY <1>1, LoadDrops
  <2>3. promise'[x] = None /\ \A y \in Tab \ {x} : promise'[y] = promise[y]
    BY <1>1 DEF Load
  <2>4. PromiseKept'
    BY <2>2, <2>3
  <2>5. OneRefreshPerTab'
    BY <2>1, <2>2, <2>3
  <2> QED
    BY <2>4, <2>5
<1>2. ASSUME NEW x \in Tab, Leave(x) PROVE PromiseKept' /\ OneRefreshPerTab'
  BY <1>2 DEF Leave
<1>3. ASSUME NEW x \in Tab, Logout(x) PROVE PromiseKept' /\ OneRefreshPerTab'
  BY <1>3 DEF Logout, Clear
<1>4. ASSUME NEW q \in Req, NEW u \in User \cup {None}, SubmitLogin(q, u)
      PROVE PromiseKept' /\ OneRefreshPerTab'
  BY <1>4 DEF SubmitLogin, Send, Idle, Request, Token
<1>5. ASSUME NEW q \in Req, Fetch(q) PROVE PromiseKept' /\ OneRefreshPerTab'
  BY <1>5 DEF Fetch, Send, Idle, Request, Token
<1>6. ASSUME NEW q \in Req, Serve(q) PROVE PromiseKept' /\ OneRefreshPerTab'
  BY <1>6 DEF Serve, Fail, PasswordRight, TokenValid, Request
<1>7. ASSUME NEW q \in Req, ServeRefresh(q)
      PROVE PromiseKept' /\ OneRefreshPerTab'
  BY <1>7 DEF ServeRefresh, Call
<1>8. ASSUME NEW q \in Req, DataArrives(q)
      PROVE PromiseKept' /\ OneRefreshPerTab'
  BY <1>8 DEF DataArrives, Settle, Idle, Request
<1>9. ASSUME NEW q \in Req, UserArrives(q)
      PROVE PromiseKept' /\ OneRefreshPerTab'
  BY <1>9 DEF UserArrives, Settle, Loaded, Idle, Request, Token
<1>10. ASSUME NEW q \in Req, LoggedIn(q)
      PROVE PromiseKept' /\ OneRefreshPerTab'
  BY <1>10 DEF LoggedIn, Send, New, Idle, Request, Token
<1>11. ASSUME NEW q \in Req, AwaitRefresh(q)
      PROVE PromiseKept' /\ OneRefreshPerTab'
  BY <1>11 DEF AwaitRefresh, Refreshable, Shared, Request, Call, Token
<1>12. ASSUME NEW q \in Req, Rejected(q)
      PROVE PromiseKept' /\ OneRefreshPerTab'
  BY <1>12 DEF Rejected, Refreshable, Settle, Clear, Loaded, Idle, Request
<1>13. ASSUME NEW q \in Req, RefreshGranted(q)
      PROVE PromiseKept' /\ OneRefreshPerTab'
  <2>1. promise[TabOf[q]] = q
    BY <1>13 DEF RefreshGranted
  <2>2. /\ promise'[TabOf[q]] = None
        /\ \A y \in Tab \ {TabOf[q]} : promise'[y] = promise[y]
    BY <1>13 DEF RefreshGranted
  <2>3. call'[q].pc = "none" /\ \A p \in Req \ {q} : call'[p] = call[p]
    BY <1>13 DEF RefreshGranted, NoCall
  <2>4. \A p \in Req : req'[p].pc = "waiting" => req'[p] = req[p] /\ req[p].awaits # q
    BY <1>13, Granted DEF RefreshGranted, Waiters, Answers
  <2>5. \A p \in Req : req'[p].pc = "waiting" => TabOf[p] # TabOf[q]
    BY <2>1, <2>4
  <2>6. PromiseKept'
    BY <2>2, <2>3
  <2>7. \A p \in Req : req'[p].pc = "waiting" =>
          /\ req'[p].awaits = promise'[TabOf[p]] /\ req'[p].awaits # None
          /\ call'[req'[p].awaits].pc # "none"
    <3> SUFFICES ASSUME NEW p \in Req, req'[p].pc = "waiting"
                 PROVE  /\ req'[p].awaits = promise'[TabOf[p]] /\ req'[p].awaits # None
                        /\ call'[req'[p].awaits].pc # "none"
      OBVIOUS
    <3>1. /\ req'[p] = req[p] /\ req[p].awaits # q
          /\ promise'[TabOf[p]] = promise[TabOf[p]]
      BY <2>2, <2>4, <2>5
    <3>2. req[p].awaits \in Req /\ call[req[p].awaits].pc # "none"
      BY <3>1
    <3> QED
      BY <2>3, <3>1, <3>2
  <2>8. \A x \in Tab : \A p \in Req :
          TabOf[p] = x /\ call'[p].pc # "none" => promise'[x] = p
    <3>1. \A p \in Req \ {q} : call[p].pc # "none" => TabOf[p] # TabOf[q]
      BY <2>1
    <3> QED
      BY <2>2, <2>3, <3>1
  <2> QED
    BY <2>6, <2>7, <2>8
<1>14. ASSUME NEW q \in Req, RefreshRefused(q)
      PROVE PromiseKept' /\ OneRefreshPerTab'
  BY <1>14 DEF RefreshRefused, Waiters, Clear, Idle, NoCall, Request, Call
<1>15. ASSUME NEW q \in Req, Unanswered(q)
      PROVE PromiseKept' /\ OneRefreshPerTab'
  <2>1. CASE req[q].pc = "sent" /\ Fail(q, "error") /\ UNCHANGED call
    BY <1>15, <2>1, Failure DEF Unanswered
  <2>2. CASE /\ call[q].pc = "posted"
             /\ call' = [call EXCEPT ![q].pc = "lost"]
             /\ UNCHANGED req
    BY <1>15, <2>2 DEF Unanswered, Call
  <2> QED
    BY <1>15, <2>1, <2>2 DEF Unanswered
<1>16. ASSUME NEW u \in User, ExpireAccess(u)
      PROVE PromiseKept' /\ OneRefreshPerTab'
  BY <1>16 DEF ExpireAccess, Expired, Request
<1>17. ASSUME NEW u \in User, ExpireRefresh(u)
      PROVE PromiseKept' /\ OneRefreshPerTab'
  BY <1>17 DEF ExpireRefresh, Expired, Call
<1>18. CASE UNCHANGED vars
  BY <1>18 DEF vars
<1> QED
  BY <1>1, <1>2, <1>3, <1>4, <1>5, <1>6, <1>7, <1>8, <1>9,
     <1>10, <1>11, <1>12, <1>13, <1>14, <1>15, <1>16, <1>17, <1>18
     DEF Next, Server, Client

\* The stored pair is torn only by a refresh that answers too late.
LEMMA TornStep == IInv /\ [Next]_vars => TornByLateAnswer
<1> USE NoneAssumption
<1> USE DEF IInv, TypeOK, Answers, TornByLateAnswer, Sound, LateAnswer, store
<1> SUFFICES ASSUME IInv, [Next]_vars PROVE TornByLateAnswer
  OBVIOUS
<1>1. ASSUME NEW x \in Tab, Load(x) PROVE TornByLateAnswer
  BY <1>1 DEF Load
<1>2. ASSUME NEW x \in Tab, Leave(x) PROVE TornByLateAnswer
  BY <1>2 DEF Leave
<1>3. ASSUME NEW x \in Tab, Logout(x) PROVE TornByLateAnswer
  BY <1>3 DEF Logout, Clear
<1>4. ASSUME NEW q \in Req, NEW u \in User \cup {None}, SubmitLogin(q, u)
      PROVE TornByLateAnswer
  BY <1>4 DEF SubmitLogin, Send
<1>5. ASSUME NEW q \in Req, Fetch(q) PROVE TornByLateAnswer
  BY <1>5 DEF Fetch, Send
<1>6. ASSUME NEW q \in Req, Serve(q) PROVE TornByLateAnswer
  BY <1>6 DEF Serve, Fail, PasswordRight, TokenValid
<1>7. ASSUME NEW q \in Req, ServeRefresh(q) PROVE TornByLateAnswer
  BY <1>7 DEF ServeRefresh
<1>8. ASSUME NEW q \in Req, DataArrives(q) PROVE TornByLateAnswer
  BY <1>8 DEF DataArrives, Settle
<1>9. ASSUME NEW q \in Req, UserArrives(q) PROVE TornByLateAnswer
  BY <1>9 DEF UserArrives, Settle, Loaded
<1>10. ASSUME NEW q \in Req, LoggedIn(q) PROVE TornByLateAnswer
  <2>1. access' = New(req[q].as) /\ refresh' = New(req[q].as) /\ req[q].as # None
    BY <1>10 DEF LoggedIn
  <2>2. req[q].as \in User
    BY <2>1 DEF Request
  <2>3. New(req[q].as) \in Token
    BY <2>2 DEF New, Token
  <2> QED
    BY <2>1, <2>3
<1>11. ASSUME NEW q \in Req, AwaitRefresh(q) PROVE TornByLateAnswer
  BY <1>11 DEF AwaitRefresh, Refreshable, Shared
<1>12. ASSUME NEW q \in Req, Rejected(q) PROVE TornByLateAnswer
  BY <1>12 DEF Rejected, Refreshable, Settle, Clear, Loaded
<1>13. ASSUME NEW q \in Req, RefreshGranted(q) PROVE TornByLateAnswer
  <2>1. /\ refresh' = refresh /\ access' = New(call[q].key.of)
        /\ call[q].pc = "granted" /\ call'[q].pc = "none"
    BY <1>13 DEF RefreshGranted, NoCall
  <2>2. call[q].key \in Token
    BY <2>1 DEF Call
  <2>3. access' # None /\ access'.of = call[q].key.of
    <3>1. New(call[q].key.of) \in Token /\ New(call[q].key.of).of = call[q].key.of
      BY <2>2 DEF New, Token
    <3> QED
      BY <2>1, <3>1
  <2>4. CASE refresh # None /\ refresh.of = call[q].key.of
    BY <2>1, <2>3, <2>4
  <2>5. CASE refresh = None \/ refresh.of # call[q].key.of
    BY <2>1, <2>5
  <2> QED
    BY <2>4, <2>5
<1>14. ASSUME NEW q \in Req, RefreshRefused(q) PROVE TornByLateAnswer
  BY <1>14 DEF RefreshRefused, Waiters, Clear
<1>15. ASSUME NEW q \in Req, Unanswered(q) PROVE TornByLateAnswer
  BY <1>15 DEF Unanswered, Fail
<1>16. ASSUME NEW u \in User, ExpireAccess(u) PROVE TornByLateAnswer
  <2>1. /\ access' = Expired(access, u) /\ refresh' = refresh
    BY <1>16 DEF ExpireAccess
  <2> QED
    BY <2>1, Expiry
<1>17. ASSUME NEW u \in User, ExpireRefresh(u) PROVE TornByLateAnswer
  <2>1. /\ refresh' = Expired(refresh, u) /\ access' = access
    BY <1>17 DEF ExpireRefresh
  <2> QED
    BY <2>1, Expiry
<1>18. CASE UNCHANGED vars
  BY <1>18 DEF vars
<1> QED
  BY <1>1, <1>2, <1>3, <1>4, <1>5, <1>6, <1>7, <1>8, <1>9,
     <1>10, <1>11, <1>12, <1>13, <1>14, <1>15, <1>16, <1>17, <1>18
     DEF Next, Server, Client

\* A good session is dropped only for one of the causes listed.
LEMMA LostStep == IInv /\ [Next]_vars => LostWithCause
<1> USE NoneAssumption
<1> USE DEF IInv, TypeOK, Answers, LostWithCause, store
<1> SUFFICES ASSUME IInv, [Next]_vars PROVE LostWithCause
  OBVIOUS
<1>1. ASSUME NEW x \in Tab, Load(x) PROVE LostWithCause
  BY <1>1 DEF Load
<1>2. ASSUME NEW x \in Tab, Leave(x) PROVE LostWithCause
  BY <1>2 DEF Leave
<1>3. ASSUME NEW x \in Tab, Logout(x) PROVE LostWithCause
  BY <1>3 DEF Logout, Clear, LoggedOut
<1>4. ASSUME NEW q \in Req, NEW u \in User \cup {None}, SubmitLogin(q, u)
      PROVE LostWithCause
  BY <1>4 DEF SubmitLogin, Send
<1>5. ASSUME NEW q \in Req, Fetch(q) PROVE LostWithCause
  BY <1>5 DEF Fetch, Send
<1>6. ASSUME NEW q \in Req, Serve(q) PROVE LostWithCause
  BY <1>6 DEF Serve, Fail, PasswordRight, TokenValid
<1>7. ASSUME NEW q \in Req, ServeRefresh(q) PROVE LostWithCause
  BY <1>7 DEF ServeRefresh
<1>8. ASSUME NEW q \in Req, DataArrives(q) PROVE LostWithCause
  BY <1>8 DEF DataArrives, Settle
<1>9. ASSUME NEW q \in Req, UserArrives(q) PROVE LostWithCause
  BY <1>9 DEF UserArrives, Settle, Loaded
<1>10. ASSUME NEW q \in Req, LoggedIn(q) PROVE LostWithCause
  <2>1. access' = New(req[q].as) /\ refresh' = New(req[q].as) /\ req[q].as # None
    BY <1>10 DEF LoggedIn
  <2>2. req[q].as \in User
    BY <2>1 DEF Request
  <2>3. New(req[q].as) \in Token
    BY <2>2 DEF New, Token
  <2> QED
    BY <2>1, <2>3
<1>11. ASSUME NEW q \in Req, AwaitRefresh(q) PROVE LostWithCause
  BY <1>11 DEF AwaitRefresh, Refreshable, Shared
<1>12. ASSUME NEW q \in Req, Rejected(q) PROVE LostWithCause
  <2>1. req'[q].pc = "idle"
    BY <1>12 DEF Rejected, Settle, Idle
  <2> QED
    BY <1>12, <2>1 DEF Rejected, Refreshable, Clear, NotRestored
<1>13. ASSUME NEW q \in Req, RefreshGranted(q) PROVE LostWithCause
  BY <1>13 DEF RefreshGranted, Waiters, New
<1>14. ASSUME NEW q \in Req, RefreshRefused(q) PROVE LostWithCause
  <2>1. call[q].pc \in {"refused", "lost"} /\ call'[q].pc = "none"
    BY <1>14 DEF RefreshRefused, NoCall
  <2> QED
    BY <2>1 DEF RefusedAnother
<1>15. ASSUME NEW q \in Req, Unanswered(q) PROVE LostWithCause
  BY <1>15 DEF Unanswered, Fail
<1>16. ASSUME NEW u \in User, ExpireAccess(u) PROVE LostWithCause
  BY <1>16 DEF ExpireAccess
<1>17. ASSUME NEW u \in User, ExpireRefresh(u) PROVE LostWithCause
  <2>1. /\ refresh' = Expired(refresh, u) /\ access' = access
    BY <1>17 DEF ExpireRefresh
  <2> QED
    BY <2>1, Expiry
<1>18. CASE UNCHANGED vars
  BY <1>18 DEF vars
<1> QED
  BY <1>1, <1>2, <1>3, <1>4, <1>5, <1>6, <1>7, <1>8, <1>9,
     <1>10, <1>11, <1>12, <1>13, <1>14, <1>15, <1>16, <1>17, <1>18
     DEF Next, Server, Client

\* The first state satisfies the invariant.
LEMMA InitInv == Init => IInv
<1> SUFFICES ASSUME Init PROVE IInv
  OBVIOUS
<1>1. TypeOK
  BY Records DEF Init, TypeOK
<1>2. Answers
  BY DEF Init, Answers, Idle, NoCall
<1>3. PromiseKept
  BY DEF Init, PromiseKept
<1>4. OneRefreshPerTab
  BY DEF Init, OneRefreshPerTab, Idle, NoCall
<1> QED
  BY <1>1, <1>2, <1>3, <1>4 DEF IInv

(* The inductive invariant holds of every reachable state.                 *)
THEOREM IInvHolds == Spec => []IInv
<1>1. IInv /\ [Next]_vars => IInv'
  BY TypeStep, AnswersStep, RefreshStep DEF IInv
<1> QED
  BY InitInv, <1>1, PTL DEF Spec

(* Every variable has its type.                                            *)
THEOREM TypeCorrect == Spec => []TypeOK
<1>1. IInv => TypeOK
  BY DEF IInv
<1> QED
  BY IInvHolds, <1>1, PTL

(* However many requests of however many tabs are answered 401 at once,    *)
(* each tab has one refresh out at most, and nobody waits for one that has *)
(* settled.                                                                *)
THEOREM OneRefreshPerTabEver == Spec => []OneRefreshPerTab
<1>1. IInv => OneRefreshPerTab
  BY DEF IInv
<1> QED
  BY IInvHolds, <1>1, PTL

(* The stored pair belongs to one session until a refresh answers that     *)
(* was asked for by an earlier one, in whichever tab.                      *)
THEOREM TornOnlyByLateRefreshEver == Spec => TornOnlyByLateRefresh
BY IInvHolds, TornStep, PTL DEF Spec, TornOnlyByLateRefresh

(* No tab signs a browser with a good refresh token out by any other way   *)
(* than the named ones.                                                    *)
THEOREM LiveSessionLostWithCauseEver == Spec => LiveSessionLostWithCause
BY IInvHolds, LostStep, PTL DEF Spec, LiveSessionLostWithCause

-----------------------------------------------------------------------------
(* That every request settles, from the fairness of the server and of the  *)
(* tabs.  A request passes through stages: sent, answered, waiting for a   *)
(* refresh.  What makes it end is that a stage is never entered twice: a   *)
(* request that was sent again does not wait again, and a login turns      *)
(* into the request for its user, which is no login.                       *)

(* A refresh call is out only while the request that started it waits for  *)
(* it, and only a request that is to be sent again waits.                  *)
CallsOwned ==
  \A q \in Req :
    /\ call[q].pc # "none" => req[q].pc = "waiting" /\ req[q].awaits = q
    /\ req[q].pc = "waiting" => req[q].retried

\* The stages; l is TRUE of a login, r of a request that was sent again.
Phase(q, l, r) == (req[q].kind = "login") = l /\ req[q].retried = r
Sent(q, l, r) == req[q].pc = "sent" /\ Phase(q, l, r)
Answered(q, l, r) == req[q].pc \in {"ok", "denied", "error"} /\ Phase(q, l, r)
Waits(q, l, p) == /\ req[q].pc = "waiting" /\ Phase(q, l, TRUE)
                  /\ req[q].awaits = p

\* A call that is out belongs to a request that waits for it.
LEMMA OwnedStep == IInv /\ CallsOwned /\ [Next]_vars => CallsOwned'
<1> USE TabOfAssumption, NoneAssumption
<1> USE DEF IInv, TypeOK, CallsOwned, store
<1> SUFFICES ASSUME IInv, CallsOwned, [Next]_vars PROVE CallsOwned'
  OBVIOUS
<1>1. ASSUME NEW x \in Tab, Load(x) PROVE CallsOwned'
  BY <1>1, LoadDrops DEF NoCall
<1>2. ASSUME NEW x \in Tab, Leave(x) PROVE CallsOwned'
  BY <1>2 DEF Leave
<1>3. ASSUME NEW x \in Tab, Logout(x) PROVE CallsOwned'
  BY <1>3 DEF Logout
<1>4. ASSUME NEW q \in Req, NEW u \in User \cup {None}, SubmitLogin(q, u)
      PROVE CallsOwned'
  BY <1>4 DEF SubmitLogin, Send, Idle
<1>5. ASSUME NEW q \in Req, Fetch(q) PROVE CallsOwned'
  BY <1>5 DEF Fetch, Send, Idle
<1>6. ASSUME NEW q \in Req, Serve(q) PROVE CallsOwned'
  BY <1>6 DEF Serve, Fail, Request
<1>7. ASSUME NEW q \in Req, ServeRefresh(q) PROVE CallsOwned'
  BY <1>7 DEF ServeRefresh, Call
<1>8. ASSUME NEW q \in Req, DataArrives(q) PROVE CallsOwned'
  BY <1>8 DEF DataArrives, Settle, Idle
<1>9. ASSUME NEW q \in Req, UserArrives(q) PROVE CallsOwned'
  BY <1>9 DEF UserArrives, Settle, Idle
<1>10. ASSUME NEW q \in Req, LoggedIn(q) PROVE CallsOwned'
  BY <1>10 DEF LoggedIn, Send, Idle
<1>11. ASSUME NEW q \in Req, AwaitRefresh(q) PROVE CallsOwned'
  BY <1>11 DEF AwaitRefresh, Refreshable, Shared, Request, Call
<1>12. ASSUME NEW q \in Req, Rejected(q) PROVE CallsOwned'
  BY <1>12 DEF Rejected, Settle, Idle
<1>13. ASSUME NEW q \in Req, RefreshGranted(q) PROVE CallsOwned'
  <2>1. call'[q].pc = "none" /\ \A p \in Req \ {q} : call'[p] = call[p]
    BY <1>13 DEF RefreshGranted, NoCall
  <2>2. \A p \in Req \ {q} : call[p].pc # "none" => p \notin Waiters(q)
    BY DEF Waiters
  <2>3. call[q].key # None
    BY <1>13 DEF RefreshGranted, Answers
  <2>4. \A p \in Req : /\ p \in Waiters(q) => req'[p].pc = "sent"
                       /\ p \notin Waiters(q) => req'[p] = req[p]
    BY <1>13, <2>3, Granted
  <2> QED
    BY <2>1, <2>2, <2>4
<1>14. ASSUME NEW q \in Req, RefreshRefused(q) PROVE CallsOwned'
  <2>1. call'[q].pc = "none" /\ \A p \in Req \ {q} : call'[p] = call[p]
    BY <1>14 DEF RefreshRefused, NoCall
  <2>2. \A p \in Req \ {q} : call[p].pc # "none" => p \notin Waiters(q)
    BY DEF Waiters
  <2>3. \A p \in Req : /\ p \in Waiters(q) => req'[p].pc = "idle"
                       /\ p \notin Waiters(q) => req'[p] = req[p]
    BY <1>14 DEF RefreshRefused, Idle
  <2> QED
    BY <2>1, <2>2, <2>3
<1>15. ASSUME NEW q \in Req, Unanswered(q) PROVE CallsOwned'
  <2>1. CASE req[q].pc = "sent" /\ Fail(q, "error") /\ UNCHANGED call
    BY <1>15, <2>1, Failure DEF Unanswered
  <2>2. CASE /\ call[q].pc = "posted"
             /\ call' = [call EXCEPT ![q].pc = "lost"]
             /\ UNCHANGED req
    BY <1>15, <2>2 DEF Unanswered, Call
  <2> QED
    BY <1>15, <2>1, <2>2 DEF Unanswered
<1>16. ASSUME NEW u \in User, ExpireAccess(u) PROVE CallsOwned'
  BY <1>16 DEF ExpireAccess, Request
<1>17. ASSUME NEW u \in User, ExpireRefresh(u) PROVE CallsOwned'
  BY <1>17 DEF ExpireRefresh, Call
<1>18. CASE UNCHANGED vars
  BY <1>18 DEF vars
<1> QED
  BY <1>1, <1>2, <1>3, <1>4, <1>5, <1>6, <1>7, <1>8, <1>9,
     <1>10, <1>11, <1>12, <1>13, <1>14, <1>15, <1>16, <1>17, <1>18
     DEF Next, Server, Client

\* In every reachable state a refresh call belongs to a request that waits.
LEMMA OwnedHolds == Spec => []CallsOwned
<1>1. Init => CallsOwned
  BY DEF Init, CallsOwned, Idle, NoCall
<1> QED
  BY <1>1, IInvHolds, OwnedStep, PTL DEF Spec

(* What one step does to a request that is under way in a page that is not *)
(* being left.                                                             *)
RequestKept(q) ==
  /\ req'[q].pc = req[q].pc /\ req'[q].kind = req[q].kind
  /\ req'[q].retried = req[q].retried /\ req'[q].awaits = req[q].awaits

GetsAnswer(q) ==
  /\ req[q].pc = "sent" /\ req'[q].pc \in {"ok", "denied", "error"}
  /\ req'[q].kind = req[q].kind /\ req'[q].retried = req[q].retried

AsksForUser(q) ==
  /\ req[q].pc = "ok" /\ req[q].kind = "login"
  /\ req'[q].pc = "sent" /\ req'[q].kind = "me" /\ ~req'[q].retried

StartsWaiting(q) ==
  /\ req[q].pc = "denied" /\ ~req[q].retried
  /\ req'[q].pc = "waiting" /\ req'[q].kind = req[q].kind /\ req'[q].retried
  /\ req'[q].awaits \in Req

IsSentAgain(q) ==
  /\ req[q].pc = "waiting" /\ call[req[q].awaits].pc = "granted"
  /\ req'[q].pc = "sent" /\ req'[q].kind = req[q].kind
  /\ req'[q].retried = req[q].retried

\* A request under way keeps its stage, ends, or goes on to the next one.
LEMMA RequestSteps ==
  ASSUME IInv, CallsOwned, [Next]_vars, NEW p \in Req,
         req[p].pc # "idle", page[TabOf[p]] # "unloading"
  PROVE  \/ RequestKept(p) \/ req'[p].pc = "idle" \/ GetsAnswer(p)
         \/ AsksForUser(p) \/ StartsWaiting(p) \/ IsSentAgain(p)
<1> USE TabOfAssumption, NoneAssumption
<1> USE DEF IInv, TypeOK, store
<1> DEFINE Goal == \/ RequestKept(p) \/ req'[p].pc = "idle" \/ GetsAnswer(p)
                   \/ AsksForUser(p) \/ StartsWaiting(p) \/ IsSentAgain(p)
<1>0. ASSUME req'[p] = req[p] PROVE Goal
  BY <1>0 DEF RequestKept
<1>1. ASSUME NEW x \in Tab, Load(x) PROVE Goal
  <2>1. TabOf[p] # x
    BY <1>1 DEF Load
  <2> QED
    BY <1>0, <1>1, <2>1, LoadDrops
<1>2. ASSUME NEW x \in Tab, Leave(x) PROVE Goal
  BY <1>0, <1>2 DEF Leave
<1>3. ASSUME NEW x \in Tab, Logout(x) PROVE Goal
  BY <1>0, <1>3 DEF Logout
<1>4. ASSUME NEW q \in Req, NEW u \in User \cup {None}, SubmitLogin(q, u)
      PROVE Goal
  BY <1>0, <1>4 DEF SubmitLogin, Send
<1>5. ASSUME NEW q \in Req, Fetch(q) PROVE Goal
  BY <1>0, <1>5 DEF Fetch, Send
<1>6. ASSUME NEW q \in Req, Serve(q) PROVE Goal
  <2>1. CASE q = p
    BY <1>6, <2>1 DEF Serve, Fail, Request, GetsAnswer
  <2>2. CASE q # p
    BY <1>0, <1>6, <2>2 DEF Serve, Fail
  <2> QED
    BY <2>1, <2>2
<1>7. ASSUME NEW q \in Req, ServeRefresh(q) PROVE Goal
  BY <1>0, <1>7 DEF ServeRefresh
<1>8. ASSUME NEW q \in Req, DataArrives(q) PROVE Goal
  BY <1>0, <1>8 DEF DataArrives, Settle, Idle
<1>9. ASSUME NEW q \in Req, UserArrives(q) PROVE Goal
  BY <1>0, <1>9 DEF UserArrives, Settle, Idle
<1>10. ASSUME NEW q \in Req, LoggedIn(q) PROVE Goal
  <2>1. CASE q = p
    BY <1>10, <2>1 DEF LoggedIn, Send, Idle, AsksForUser
  <2>2. CASE q # p
    BY <1>0, <1>10, <2>2 DEF LoggedIn, Send
  <2> QED
    BY <2>1, <2>2
<1>11. ASSUME NEW q \in Req, AwaitRefresh(q) PROVE Goal
  <2>1. CASE q = p
    BY <1>11, <2>1 DEF AwaitRefresh, Refreshable, Shared, Request, StartsWaiting
  <2>2. CASE q # p
    BY <1>0, <1>11, <2>2 DEF AwaitRefresh
  <2> QED
    BY <2>1, <2>2
<1>12. ASSUME NEW q \in Req, Rejected(q) PROVE Goal
  BY <1>0, <1>12 DEF Rejected, Settle, Idle
<1>13. ASSUME NEW q \in Req, RefreshGranted(q) PROVE Goal
  <2>1. CASE p \in Waiters(q)
    <3>1. req[p] \in Request
      OBVIOUS
    <3>2. req'[p] = [req[p] EXCEPT !.pc = "sent", !.bearer = access', !.awaits = None]
      BY <1>13, <2>1 DEF RefreshGranted
    <3>3. /\ req'[p].pc = "sent" /\ req'[p].kind = req[p].kind
          /\ req'[p].retried = req[p].retried
      BY <3>1, <3>2 DEF Request
    <3> QED
      BY <1>13, <2>1, <3>3 DEF RefreshGranted, Waiters, IsSentAgain
  <2>2. CASE p \notin Waiters(q)
    BY <1>0, <1>13, <2>2 DEF RefreshGranted
  <2> QED
    BY <2>1, <2>2
<1>14. ASSUME NEW q \in Req, RefreshRefused(q) PROVE Goal
  BY <1>0, <1>14 DEF RefreshRefused, Idle
<1>15. ASSUME NEW q \in Req, Unanswered(q) PROVE Goal
  <2>1. CASE q = p /\ req[q].pc = "sent" /\ Fail(q, "error")
    BY <2>1 DEF Fail, Request, GetsAnswer
  <2>2. CASE ~(q = p /\ req[q].pc = "sent" /\ Fail(q, "error"))
    BY <1>0, <1>15, <2>2 DEF Unanswered, Fail
  <2> QED
    BY <2>1, <2>2
<1>16. ASSUME NEW u \in User, ExpireAccess(u) PROVE Goal
  BY <1>16 DEF ExpireAccess, Request, RequestKept
<1>17. ASSUME NEW u \in User, ExpireRefresh(u) PROVE Goal
  BY <1>0, <1>17 DEF ExpireRefresh
<1>18. CASE UNCHANGED vars
  BY <1>0, <1>18 DEF vars
<1> QED
  BY <1>1, <1>2, <1>3, <1>4, <1>5, <1>6, <1>7, <1>8, <1>9,
     <1>10, <1>11, <1>12, <1>13, <1>14, <1>15, <1>16, <1>17, <1>18
     DEF Next, Server, Client

(* A refresh call in a page that is not being left gets its answer, and    *)
(* then ends for all that wait for it at once.                             *)
LEMMA CallSteps ==
  ASSUME IInv, CallsOwned, [Next]_vars, NEW p \in Req,
         call[p].pc # "none", page[TabOf[p]] # "unloading"
  PROVE  \/ call'[p].pc = call[p].pc
         \/ call[p].pc = "posted" /\ call'[p].pc \in {"granted", "refused", "lost"}
         \/ \A q \in Waiters(p) : req'[q].pc \in {"sent", "idle"}
<1> USE TabOfAssumption, NoneAssumption
<1> USE DEF IInv, TypeOK, store
<1> DEFINE Goal ==
      \/ call'[p].pc = call[p].pc
      \/ call[p].pc = "posted" /\ call'[p].pc \in {"granted", "refused", "lost"}
      \/ \A q \in Waiters(p) : req'[q].pc \in {"sent", "idle"}
<1>0. ASSUME call'[p] = call[p] PROVE Goal
  BY <1>0
<1>1. ASSUME NEW x \in Tab, Load(x) PROVE Goal
  <2>1. TabOf[p] # x
    BY <1>1 DEF Load
  <2> QED
    BY <1>0, <1>1, <2>1, LoadDrops
<1>2. ASSUME NEW x \in Tab, Leave(x) PROVE Goal
  BY <1>0, <1>2 DEF Leave
<1>3. ASSUME NEW x \in Tab, Logout(x) PROVE Goal
  BY <1>0, <1>3 DEF Logout
<1>4. ASSUME NEW q \in Req, NEW u \in User \cup {None}, SubmitLogin(q, u)
      PROVE Goal
  BY <1>0, <1>4 DEF SubmitLogin
<1>5. ASSUME NEW q \in Req, Fetch(q) PROVE Goal
  BY <1>0, <1>5 DEF Fetch
<1>6. ASSUME NEW q \in Req, Serve(q) PROVE Goal
  BY <1>0, <1>6 DEF Serve
<1>7. ASSUME NEW q \in Req, ServeRefresh(q) PROVE Goal
  BY <1>7 DEF ServeRefresh, Call
<1>8. ASSUME NEW q \in Req, DataArrives(q) PROVE Goal
  BY <1>0, <1>8 DEF DataArrives
<1>9. ASSUME NEW q \in Req, UserArrives(q) PROVE Goal
  BY <1>0, <1>9 DEF UserArrives
<1>10. ASSUME NEW q \in Req, LoggedIn(q) PROVE Goal
  BY <1>0, <1>10 DEF LoggedIn
<1>11. ASSUME NEW q \in Req, AwaitRefresh(q) PROVE Goal
  <2>1. q # p
    BY <1>11 DEF AwaitRefresh, Refreshable, CallsOwned
  <2> QED
    BY <1>0, <1>11, <2>1 DEF AwaitRefresh
<1>12. ASSUME NEW q \in Req, Rejected(q) PROVE Goal
  BY <1>0, <1>12 DEF Rejected
<1>13. ASSUME NEW q \in Req, RefreshGranted(q) PROVE Goal
  <2>1. CASE q = p
    <3>1. call[q].key # None
      BY <1>13 DEF RefreshGranted, Answers
    <3>2. \A w \in Waiters(q) : w \in Req /\ req'[w].pc = "sent"
      BY <1>13, <3>1, Granted DEF Waiters
    <3> QED
      BY <2>1, <3>2
  <2>2. CASE q # p
    BY <1>0, <1>13, <2>2 DEF RefreshGranted
  <2> QED
    BY <2>1, <2>2
<1>14. ASSUME NEW q \in Req, RefreshRefused(q) PROVE Goal
  <2>1. CASE q = p
    BY <1>14, <2>1 DEF RefreshRefused, Waiters, Idle
  <2>2. CASE q # p
    BY <1>0, <1>14, <2>2 DEF RefreshRefused
  <2> QED
    BY <2>1, <2>2
<1>15. ASSUME NEW q \in Req, Unanswered(q) PROVE Goal
  BY <1>15 DEF Unanswered, Fail, Call
<1>16. ASSUME NEW u \in User, ExpireAccess(u) PROVE Goal
  BY <1>0, <1>16 DEF ExpireAccess
<1>17. ASSUME NEW u \in User, ExpireRefresh(u) PROVE Goal
  BY <1>17 DEF ExpireRefresh, Call
<1>18. CASE UNCHANGED vars
  BY <1>0, <1>18 DEF vars
<1> QED
  BY <1>1, <1>2, <1>3, <1>4, <1>5, <1>6, <1>7, <1>8, <1>9,
     <1>10, <1>11, <1>12, <1>13, <1>14, <1>15, <1>16, <1>17, <1>18
     DEF Next, Server, Client

\* A request that was sent stays sent until it has an answer.
LEMMA SentStep ==
  ASSUME NEW q \in Req, NEW l \in BOOLEAN, NEW r \in BOOLEAN
  PROVE  /\ IInv /\ CallsOwned /\ [Next]_vars /\ Sent(q, l, r) /\ ~Settled(q)
              => Sent(q, l, r)' \/ Answered(q, l, r)' \/ Settled(q)'
         /\ IInv /\ CallsOwned /\ <<Server(q)>>_vars /\ Sent(q, l, r)
              => Answered(q, l, r)'
<1>1. ASSUME IInv, CallsOwned, [Next]_vars, Sent(q, l, r), ~Settled(q)
      PROVE  Sent(q, l, r)' \/ Answered(q, l, r)' \/ Settled(q)'
  <2>1. \/ RequestKept(q) \/ req'[q].pc = "idle" \/ GetsAnswer(q)
        \/ AsksForUser(q) \/ StartsWaiting(q) \/ IsSentAgain(q)
    BY <1>1, RequestSteps DEF Sent, Settled
  <2> QED
    BY <1>1, <2>1 DEF Sent, Answered, Phase, Settled, RequestKept, GetsAnswer,
       AsksForUser, StartsWaiting, IsSentAgain
<1>2. ASSUME IInv, CallsOwned, <<Server(q)>>_vars, Sent(q, l, r)
      PROVE  Answered(q, l, r)'
  <2>1. Serve(q)
    BY <1>2 DEF Server, ServeRefresh, CallsOwned, Sent
  <2>2. req[q] \in Request /\ req \in [Req -> Request]
    BY <1>2 DEF IInv, TypeOK
  <2>3. /\ req'[q].pc \in {"ok", "denied"} /\ req'[q].kind = req[q].kind
        /\ req'[q].retried = req[q].retried
    BY <2>1, <2>2 DEF Serve, Fail, Request
  <2> QED
    BY <1>2, <2>3 DEF Sent, Answered, Phase
<1> QED
  BY <1>1, <1>2

(* What comes after an answer: the end, a refresh to wait for if there was *)
(* none before, or the request for the user after a login.                 *)
GoesOn(q, l, r) ==
  \/ Settled(q)
  \/ ~r /\ \E p \in Req : Waits(q, l, p)
  \/ l /\ Sent(q, FALSE, FALSE)

\* An answer stays until it is handled, and being handled the request goes on.
LEMMA AnsweredStep ==
  ASSUME NEW q \in Req, NEW l \in BOOLEAN, NEW r \in BOOLEAN
  PROVE  /\ IInv /\ CallsOwned /\ [Next]_vars /\ Answered(q, l, r) /\ ~Settled(q)
              => Answered(q, l, r)' \/ GoesOn(q, l, r)'
         /\ IInv /\ CallsOwned /\ <<Client(q)>>_vars /\ Answered(q, l, r) /\ ~Settled(q)
              => GoesOn(q, l, r)'
<1>1. ASSUME IInv, CallsOwned, [Next]_vars, Answered(q, l, r), ~Settled(q)
      PROVE  \/ RequestKept(q) /\ Answered(q, l, r)'
             \/ GoesOn(q, l, r)'
  <2>1. \/ RequestKept(q) \/ req'[q].pc = "idle" \/ GetsAnswer(q)
        \/ AsksForUser(q) \/ StartsWaiting(q) \/ IsSentAgain(q)
    BY <1>1, RequestSteps DEF Answered, Settled
  <2>2. CASE RequestKept(q)
    BY <1>1, <2>2 DEF Answered, Phase, RequestKept
  <2>3. CASE req'[q].pc = "idle"
    BY <2>3 DEF GoesOn, Settled
  <2>4. CASE AsksForUser(q)
    <3>1. Sent(q, FALSE, FALSE)' /\ l
      <4>1. req[q].kind = "login" /\ req'[q].kind # "login"
        BY <2>4 DEF AsksForUser
      <4>2. l
        BY <1>1, <4>1 DEF Answered, Phase
      <4>3. req'[q].retried = FALSE
        <5>1. req'[q].retried \in BOOLEAN
          BY <1>1, TypeStep DEF IInv, TypeOK, Request
        <5> QED
          BY <2>4, <5>1 DEF AsksForUser
      <4> QED
        BY <2>4, <4>1, <4>2, <4>3 DEF AsksForUser, Sent, Phase
    <3> QED
      BY <3>1 DEF GoesOn
  <2>5. CASE StartsWaiting(q)
    <3>1. ~r
      BY <1>1, <2>5 DEF StartsWaiting, Answered, Phase
    <3>2. req'[q].retried = TRUE
      <4>1. req'[q].retried \in BOOLEAN
        BY <1>1, TypeStep DEF IInv, TypeOK, Request
      <4> QED
        BY <2>5, <4>1 DEF StartsWaiting
    <3>3. PICK p \in Req : p = req'[q].awaits
      BY <2>5 DEF StartsWaiting
    <3>4. Waits(q, l, p)'
      BY <1>1, <2>5, <3>2, <3>3 DEF StartsWaiting, Answered, Waits, Phase
    <3> QED
      BY <3>1, <3>4 DEF GoesOn
  <2> QED
    BY <1>1, <2>1, <2>2, <2>3, <2>4, <2>5 DEF Answered, GetsAnswer, IsSentAgain
<1>2. ASSUME IInv, CallsOwned, <<Client(q)>>_vars, Answered(q, l, r),
             ~Settled(q)
      PROVE  GoesOn(q, l, r)'
  <2>1. call[q].pc = "none"
    BY <1>2 DEF CallsOwned, Answered
  <2>2. \/ DataArrives(q) \/ UserArrives(q) \/ LoggedIn(q) \/ AwaitRefresh(q)
        \/ Rejected(q)
    BY <1>2, <2>1 DEF Client, RefreshGranted, RefreshRefused
  <2>3. req \in [Req -> Request]
    BY <1>2 DEF IInv, TypeOK
  <2>4. ~RequestKept(q)
    <3>1. CASE DataArrives(q) \/ UserArrives(q) \/ Rejected(q)
      BY <1>2, <2>3, <3>1 DEF DataArrives, UserArrives, Rejected, Settle, Idle,
         RequestKept, Answered
    <3>2. CASE LoggedIn(q)
      BY <1>2, <2>3, <3>2 DEF LoggedIn, Send, Idle, RequestKept, Answered
    <3>3. CASE AwaitRefresh(q)
      <4>1. req'[q].pc = "waiting"
        BY <2>3, <3>3 DEF AwaitRefresh, Request
      <4> QED
        BY <1>2, <4>1 DEF RequestKept, Answered
    <3> QED
      BY <2>2, <3>1, <3>2, <3>3
  <2>5. [Next]_vars
    BY <1>2 DEF Next
  <2> QED
    BY <1>1, <1>2, <2>4, <2>5
<1> QED
  BY <1>1, <1>2

(* A waiting request waits for a call that is out: it is posted, or its    *)
(* answer is back.                                                         *)
WaitsPosted(q, l, p) == Waits(q, l, p) /\ call[p].pc = "posted"
WaitsBack(q, l, p) ==
  Waits(q, l, p) /\ call[p].pc \in {"granted", "refused", "lost"}

\* Who waits waits for a call of its own tab that is posted or back.
LEMMA WaitsForCall ==
  ASSUME NEW q \in Req, NEW l \in BOOLEAN, NEW p \in Req,
         IInv, CallsOwned, Waits(q, l, p)
  PROVE  /\ TabOf[p] = TabOf[q]
         /\ q \in Waiters(p)
         /\ call[p].pc # "none"
         /\ WaitsPosted(q, l, p) \/ WaitsBack(q, l, p)
         /\ req[p].pc = "waiting"
<1> USE TabOfAssumption
<1>1. promise[TabOf[q]] = p /\ call[p].pc # "none"
  BY DEF Waits, IInv, OneRefreshPerTab
<1>2. TabOf[p] = TabOf[q]
  BY <1>1, NoneAssumption DEF IInv, PromiseKept, TypeOK
<1>3. call[p] \in Call
  BY DEF IInv, TypeOK
<1> QED
  BY <1>1, <1>2, <1>3 DEF Waits, Waiters, WaitsPosted, WaitsBack, Call, CallsOwned

\* Who waits goes on waiting until it is sent again or settled.
LEMMA WaitsStep ==
  ASSUME NEW q \in Req, NEW l \in BOOLEAN, NEW p \in Req
  PROVE  /\ IInv /\ CallsOwned /\ [Next]_vars /\ WaitsPosted(q, l, p) /\ ~Settled(q)
              => \/ WaitsPosted(q, l, p)' \/ WaitsBack(q, l, p)'
                 \/ Sent(q, l, TRUE)' \/ Settled(q)'
         /\ IInv /\ CallsOwned /\ [Next]_vars /\ WaitsBack(q, l, p) /\ ~Settled(q)
              => WaitsBack(q, l, p)' \/ Sent(q, l, TRUE)' \/ Settled(q)'
<1>1. ASSUME IInv, CallsOwned, [Next]_vars, Waits(q, l, p), ~Settled(q)
      PROVE  \/ /\ Waits(q, l, p)' /\ IInv' /\ CallsOwned'
                /\ call[p].pc # "posted" => call'[p].pc # "posted"
             \/ Sent(q, l, TRUE)'
             \/ Settled(q)'
  <2>1. TabOf[p] = TabOf[q] /\ q \in Waiters(p) /\ call[p].pc # "none"
    BY <1>1, WaitsForCall
  <2>2. RequestKept(q) \/ req'[q].pc = "idle" \/ IsSentAgain(q)
    BY <1>1, RequestSteps DEF Waits, Settled, GetsAnswer, AsksForUser, StartsWaiting
  <2>3. \/ call'[p].pc = call[p].pc
        \/ call[p].pc = "posted" /\ call'[p].pc \in {"granted", "refused", "lost"}
        \/ \A w \in Waiters(p) : req'[w].pc \in {"sent", "idle"}
    BY <1>1, <2>1, CallSteps DEF Settled
  <2>4. CASE RequestKept(q)
    <3>1. IInv' /\ CallsOwned'
      BY <1>1, TypeStep, AnswersStep, RefreshStep, OwnedStep DEF IInv
    <3>2. Waits(q, l, p)'
      BY <1>1, <2>4 DEF RequestKept, Waits, Phase
    <3>3. req'[q].pc = "waiting"
      BY <1>1, <2>4 DEF RequestKept, Waits
    <3> QED
      BY <2>1, <2>3, <3>1, <3>2, <3>3
  <2>5. CASE req'[q].pc = "idle"
    BY <2>5 DEF Settled
  <2>6. CASE IsSentAgain(q)
    BY <1>1, <2>6 DEF IsSentAgain, Waits, Sent, Phase
  <2> QED
    BY <2>2, <2>4, <2>5, <2>6
<1>2. Waits(q, l, p)' /\ IInv' /\ CallsOwned'
        => WaitsPosted(q, l, p)' \/ WaitsBack(q, l, p)'
  <2>1. Waits(q, l, p) /\ IInv /\ CallsOwned
          => WaitsPosted(q, l, p) \/ WaitsBack(q, l, p)
    BY WaitsForCall
  <2> QED
    BY <2>1, PTL
<1> QED
  BY <1>1, <1>2 DEF WaitsPosted, WaitsBack

\* The step of the server, and then that of the tab, which end the waiting.
LEMMA WaitsEnd ==
  ASSUME NEW q \in Req, NEW l \in BOOLEAN, NEW p \in Req
  PROVE  /\ IInv /\ CallsOwned /\ <<Server(p)>>_vars /\ WaitsPosted(q, l, p)
              => ~WaitsPosted(q, l, p)'
         /\ IInv /\ CallsOwned /\ <<Client(p)>>_vars /\ WaitsBack(q, l, p)
              => ~WaitsBack(q, l, p)'
<1>1. ASSUME IInv, CallsOwned, <<Server(p)>>_vars, WaitsPosted(q, l, p)
      PROVE  ~WaitsPosted(q, l, p)'
  <2>1. req[p].pc = "waiting"
    BY <1>1, WaitsForCall DEF WaitsPosted
  <2>2. ServeRefresh(p)
    BY <1>1, <2>1 DEF Server, Serve
  <2>3. call'[p].pc # "posted"
    BY <1>1, <2>2 DEF ServeRefresh, IInv, TypeOK, Call
  <2> QED
    BY <2>3 DEF WaitsPosted
<1>2. ASSUME IInv, CallsOwned, <<Client(p)>>_vars, WaitsBack(q, l, p)
      PROVE  ~WaitsBack(q, l, p)'
  <2>1. req[p].pc = "waiting"
    BY <1>2, WaitsForCall DEF WaitsBack
  <2>2. RefreshGranted(p) \/ RefreshRefused(p)
    BY <1>2, <2>1 DEF Client, DataArrives, UserArrives, LoggedIn, AwaitRefresh,
       Refreshable, Rejected
  <2>3. call'[p] = NoCall
    BY <1>2, <2>2 DEF RefreshGranted, RefreshRefused, IInv, TypeOK
  <2> QED
    BY <2>3 DEF WaitsBack, NoCall
<1> QED
  BY <1>1, <1>2

\* The stages, as what each leads to.
SentEnds(q, l, r) == Sent(q, l, r) ~> Answered(q, l, r) \/ Settled(q)
AnsweredEnds(q, l, r) == Answered(q, l, r) ~> GoesOn(q, l, r)
WaitEnds(q, l, p) == Waits(q, l, p) ~> Sent(q, l, TRUE) \/ Settled(q)

\* The body of WaitEnds.
WaitGoesOn(q, l, p) == Waits(q, l, p) => <>(Sent(q, l, TRUE) \/ Settled(q))

\* Whatever refresh it is that is waited for.
WaitingEnds(q, l) ==
  (\E p \in Req : Waits(q, l, p)) ~> Sent(q, l, TRUE) \/ Settled(q)

\* Every request that is sent gets an answer or is dropped with its page.
LEMMA SentEndsEver ==
  Spec /\ []NoAnswerStuck
    => \A q \in Req, l \in BOOLEAN, r \in BOOLEAN : SentEnds(q, l, r)
<1> SUFFICES ASSUME NEW d \in Req, NEW l \in BOOLEAN, NEW r \in BOOLEAN
             PROVE  Spec /\ []NoAnswerStuck => SentEnds(d, l, r)
  OBVIOUS
<1>1. (\A q \in Req : Served(q)) => Served(d)
  OBVIOUS
<1>2. NoAnswerStuck /\ Sent(d, l, r) => CanServe(d)
  BY DEF NoAnswerStuck, Sent, ServerDue
<1>3. /\ IInv /\ CallsOwned /\ [Next]_vars /\ Sent(d, l, r) /\ ~Settled(d)
           => Sent(d, l, r)' \/ Answered(d, l, r)' \/ Settled(d)'
      /\ IInv /\ CallsOwned /\ <<Server(d)>>_vars /\ Sent(d, l, r)
           => Answered(d, l, r)'
  BY SentStep
<1> QED
  BY <1>1, <1>2, <1>3, IInvHolds, OwnedHolds, PTL
     DEF Spec, Fairness, Served, CanServe, SentEnds

\* Every answer is handled, or dropped with its page.
LEMMA AnsweredEndsEver ==
  Spec /\ []NoAnswerStuck
    => \A q \in Req, l \in BOOLEAN, r \in BOOLEAN : AnsweredEnds(q, l, r)
<1> SUFFICES ASSUME NEW d \in Req, NEW l \in BOOLEAN, NEW r \in BOOLEAN
             PROVE  Spec /\ []NoAnswerStuck => AnsweredEnds(d, l, r)
  OBVIOUS
<1>1. (\A q \in Req : Handled(q)) => Handled(d)
  OBVIOUS
<1>2. NoAnswerStuck /\ Answered(d, l, r) => CanHandle(d)
  BY DEF NoAnswerStuck, Answered, ClientDue
<1>3. /\ IInv /\ CallsOwned /\ [Next]_vars /\ Answered(d, l, r) /\ ~Settled(d)
           => Answered(d, l, r)' \/ GoesOn(d, l, r)'
      /\ IInv /\ CallsOwned /\ <<Client(d)>>_vars /\ Answered(d, l, r) /\ ~Settled(d)
           => GoesOn(d, l, r)'
  BY AnsweredStep
<1>4. Settled(d) => GoesOn(d, l, r)
  BY DEF GoesOn
<1> QED
  BY <1>1, <1>2, <1>3, <1>4, IInvHolds, OwnedHolds, PTL
     DEF Spec, Fairness, Handled, CanHandle, AnsweredEnds

(* Whoever waits for the refresh of any request of its tab is sent again   *)
(* or dropped.                                                             *)
LEMMA WaitEndsEver ==
  Spec /\ []NoAnswerStuck
    => \A q \in Req, l \in BOOLEAN, p \in Req : WaitEnds(q, l, p)
<1> SUFFICES ASSUME NEW d \in Req, NEW l \in BOOLEAN, NEW e \in Req
             PROVE  Spec /\ []NoAnswerStuck => WaitEnds(d, l, e)
  OBVIOUS
<1>1. (\A q \in Req : Served(q)) => Served(e)
  OBVIOUS
<1>2. (\A q \in Req : Handled(q)) => Handled(e)
  OBVIOUS
<1>3. NoAnswerStuck /\ WaitsPosted(d, l, e) => CanServe(e)
  BY DEF NoAnswerStuck, WaitsPosted, ServerDue
<1>4. NoAnswerStuck /\ WaitsBack(d, l, e) => CanHandle(e)
  BY DEF NoAnswerStuck, WaitsBack, ClientDue
<1>5. IInv /\ CallsOwned /\ Waits(d, l, e)
        => WaitsPosted(d, l, e) \/ WaitsBack(d, l, e)
  BY WaitsForCall
<1>6. /\ IInv /\ CallsOwned /\ [Next]_vars /\ WaitsPosted(d, l, e) /\ ~Settled(d)
           => \/ WaitsPosted(d, l, e)' \/ WaitsBack(d, l, e)'
              \/ Sent(d, l, TRUE)' \/ Settled(d)'
      /\ IInv /\ CallsOwned /\ [Next]_vars /\ WaitsBack(d, l, e) /\ ~Settled(d)
           => WaitsBack(d, l, e)' \/ Sent(d, l, TRUE)' \/ Settled(d)'
  BY WaitsStep
<1>7. /\ IInv /\ CallsOwned /\ <<Server(e)>>_vars /\ WaitsPosted(d, l, e)
           => ~WaitsPosted(d, l, e)'
      /\ IInv /\ CallsOwned /\ <<Client(e)>>_vars /\ WaitsBack(d, l, e)
           => ~WaitsBack(d, l, e)'
  BY WaitsEnd
<1>8. Spec /\ []NoAnswerStuck
        => (WaitsBack(d, l, e) ~> Sent(d, l, TRUE) \/ Settled(d))
  BY <1>2, <1>4, <1>6, <1>7, IInvHolds, OwnedHolds, PTL
     DEF Spec, Fairness, Handled, CanHandle
<1>9. Spec /\ []NoAnswerStuck
        => (WaitsPosted(d, l, e)
              ~> WaitsBack(d, l, e) \/ Sent(d, l, TRUE) \/ Settled(d))
  BY <1>1, <1>3, <1>6, <1>7, IInvHolds, OwnedHolds, PTL
     DEF Spec, Fairness, Served, CanServe
<1> QED
  BY <1>5, <1>8, <1>9, IInvHolds, OwnedHolds, PTL DEF WaitEnds

\* The same, whichever refresh it is.
LEMMA WaitingEndsEver ==
  Spec /\ []NoAnswerStuck => \A q \in Req, l \in BOOLEAN : WaitingEnds(q, l)
<1> SUFFICES ASSUME NEW d \in Req, NEW k \in BOOLEAN
             PROVE  Spec /\ []NoAnswerStuck => WaitingEnds(d, k)
  OBVIOUS
<1>1. (\A q \in Req, l \in BOOLEAN, p \in Req : WaitEnds(q, l, p))
        => \A p \in Req : WaitEnds(d, k, p)
  OBVIOUS
<1>2. (\A p \in Req : WaitEnds(d, k, p))
        => \A p \in Req : []WaitGoesOn(d, k, p)
  BY PTL DEF WaitEnds, WaitGoesOn
<1>3. (\A p \in Req : []WaitGoesOn(d, k, p))
        => [](\A p \in Req : WaitGoesOn(d, k, p))
  OBVIOUS
<1>4. (\A p \in Req : WaitGoesOn(d, k, p))
        => ((\E p \in Req : Waits(d, k, p)) => <>(Sent(d, k, TRUE) \/ Settled(d)))
  BY DEF WaitGoesOn
<1>5. [](\A p \in Req : WaitGoesOn(d, k, p))
        => []((\E p \in Req : Waits(d, k, p)) => <>(Sent(d, k, TRUE) \/ Settled(d)))
  BY <1>4, PTL
<1>6. (\A p \in Req : WaitEnds(d, k, p)) => WaitingEnds(d, k)
  BY <1>2, <1>3, <1>5, PTL DEF WaitingEnds
<1>7. Spec /\ []NoAnswerStuck => \A p \in Req : WaitEnds(d, k, p)
  BY <1>1, WaitEndsEver
<1> QED
  BY <1>6, <1>7, PTL

(* Whatever tabs do with their tokens, pages and refreshes, a request of   *)
(* one of them is settled or dropped with its page: a server that answers  *)
(* and tabs that handle their answers are enough.                          *)
THEOREM EveryRequestSettlesEver == Spec /\ []NoAnswerStuck => EveryRequestSettles
<1> SUFFICES ASSUME NEW d \in Req
             PROVE  Spec /\ []NoAnswerStuck => Settles(d)
  BY DEF EveryRequestSettles
<1>1. (\A q \in Req, l \in BOOLEAN, r \in BOOLEAN : SentEnds(q, l, r))
        => /\ SentEnds(d, TRUE, TRUE) /\ SentEnds(d, TRUE, FALSE)
           /\ SentEnds(d, FALSE, TRUE) /\ SentEnds(d, FALSE, FALSE)
  OBVIOUS
<1>2. (\A q \in Req, l \in BOOLEAN, r \in BOOLEAN : AnsweredEnds(q, l, r))
        => /\ AnsweredEnds(d, TRUE, TRUE) /\ AnsweredEnds(d, TRUE, FALSE)
           /\ AnsweredEnds(d, FALSE, TRUE) /\ AnsweredEnds(d, FALSE, FALSE)
  OBVIOUS
<1>3. (\A q \in Req, l \in BOOLEAN : WaitingEnds(q, l))
        => WaitingEnds(d, TRUE) /\ WaitingEnds(d, FALSE)
  OBVIOUS
<1>4. IInv /\ CallsOwned /\ req[d].pc # "idle"
        => \/ Sent(d, TRUE, TRUE) \/ Sent(d, TRUE, FALSE)
           \/ Sent(d, FALSE, TRUE) \/ Sent(d, FALSE, FALSE)
           \/ Answered(d, TRUE, TRUE) \/ Answered(d, TRUE, FALSE)
           \/ Answered(d, FALSE, TRUE) \/ Answered(d, FALSE, FALSE)
           \/ \E p \in Req : Waits(d, TRUE, p)
           \/ \E p \in Req : Waits(d, FALSE, p)
  BY NoneAssumption DEF IInv, TypeOK, OneRefreshPerTab, Request, CallsOwned,
     Sent, Answered, Waits, Phase
<1> QED
  BY <1>1, <1>2, <1>3, <1>4, SentEndsEver, AnsweredEndsEver, WaitingEndsEver,
     IInvHolds, OwnedHolds, PTL
     DEF Settles, SentEnds, AnsweredEnds, WaitingEnds, GoesOn

=============================================================================
