------------------------------- MODULE Session -------------------------------
(***************************************************************************)
(* The session of a browser: the two tokens in localStorage, which all     *)
(* tabs share, and in each tab the requests in flight, the refresh they    *)
(* share and the user the page shows.  A request carries the access token  *)
(* stored when it is sent; one answered 401 waits for the tab's refresh    *)
(* and is sent once more with what that brings.                            *)
(*                                                                         *)
(* A step is what a browser runs without yielding: one response and all    *)
(* promises it settles.  Of a token only its account is kept and whether   *)
(* it has expired; those of one account and type expire together, apart    *)
(* from the ones still to be issued.                                       *)
(***************************************************************************)
CONSTANTS
  Tab,    \* tabs of one browser
  Req,    \* requests
  TabOf,  \* the tab a request is made in
  User,   \* accounts
  None,   \* no token, no user, no request
  Faults  \* {"network"} when requests may get no answer

Token == [of: User, live: BOOLEAN]
New(u) == [of |-> u, live |-> TRUE]

ASSUME TabOfAssumption == TabOf \in [Req -> Tab]
ASSUME NoneAssumption == None \notin Token \cup User \cup Req
ASSUME FaultsAssumption == Faults \subseteq {"network"}

VARIABLES
  access,    \* the stored access token
  refresh,   \* the stored refresh token
  page,      \* loading (the session is being restored), ready or unloading
  shown,     \* the user each tab believes is signed in
  promise,   \* the request whose refresh call a tab's requests share
  req,       \* requests: what for, the token carried, what became of it
  call       \* refresh calls, each under the request that started it

store == <<access, refresh>>
vars  == <<access, refresh, page, shown, promise, req, call>>

Request == [pc: {"idle", "sent", "ok", "denied", "error", "waiting"},
            kind: {"data", "restore", "login", "me"},
            as: User \cup {None},
            bearer: Token \cup {None},
            retried: BOOLEAN,
            awaits: Req \cup {None}]

Call == [pc: {"none", "posted", "granted", "refused", "lost"},
         key: Token \cup {None}]

Idle   == [pc |-> "idle", kind |-> "data", as |-> None, bearer |-> None,
           retried |-> FALSE, awaits |-> None]
NoCall == [pc |-> "none", key |-> None]

TypeOK ==
  /\ access \in Token \cup {None}
  /\ refresh \in Token \cup {None}
  /\ page \in [Tab -> {"loading", "ready", "unloading"}]
  /\ shown \in [Tab -> User \cup {None}]
  /\ promise \in [Tab -> Req \cup {None}]
  /\ req \in [Req -> Request]
  /\ call \in [Req -> Call]

(* Every tab is about to load; a session may be left from an earlier one.  *)
Init ==
  /\ \/ access = None /\ refresh = None
     \/ access \in Token /\ refresh \in Token /\ access.of = refresh.of
  /\ page = [x \in Tab |-> "unloading"]
  /\ shown = [x \in Tab |-> None]
  /\ promise = [x \in Tab |-> None]
  /\ req = [q \in Req |-> Idle]
  /\ call = [q \in Req |-> NoCall]

Send(q, kind, as, token) ==
  req' = [req EXCEPT ![q] =
            [Idle EXCEPT !.pc = "sent", !.kind = kind, !.as = as, !.bearer = token]]

Settle(q) == req' = [req EXCEPT ![q] = Idle]

(* The request has failed; what it carried no longer matters.              *)
Fail(q, how) == req' = [req EXCEPT ![q].pc = how, ![q].bearer = None]

-----------------------------------------------------------------------------
(* Changed forms of steps below, for checking that the properties notice.  *)

(* authenticate does not verify the password.                              *)
ServeUnverified(q) ==
  /\ req[q].pc = "sent"
  /\ IF req[q].kind = "login" \/ (req[q].bearer # None /\ req[q].bearer.live)
     THEN req' = [req EXCEPT ![q].pc = "ok"]
     ELSE Fail(q, "denied")
  /\ UNCHANGED <<store, page, shown, promise, call>>

(* tokenStore.clear forgets the refresh token.                             *)
ClearAccess == access' = None /\ UNCHANGED refresh

(* Every 401 starts a refresh of its own.                                  *)
OwnRefresh(q) == q

(* Only the request that started the refresh is sent again.                *)
StarterOnly(q) == {q}

(* Any failed request clears the tokens, as restoreSession's does.         *)
RejectedClears(q) ==
  /\ req[q].pc \in {"denied", "error"}
  /\ req[q].pc = "denied" => req[q].retried \/ refresh = None
  /\ Settle(q)
  /\ access' = None /\ refresh' = None
  /\ page' = [page EXCEPT ![TabOf[q]] = IF @ = "loading" THEN "ready" ELSE @]
  /\ UNCHANGED <<shown, promise, call>>

-----------------------------------------------------------------------------
Clear == access' = None /\ refresh' = None

(* restoreSession's finally.                                               *)
Loaded(x) == page' = [page EXCEPT ![x] = IF @ = "loading" THEN "ready" ELSE @]

Waiters(q) == {w \in Req : req[w].pc = "waiting" /\ req[w].awaits = q}

(* refreshPromise ??= refreshAccessToken(...)                              *)
Shared(q) == IF promise[TabOf[q]] # None THEN promise[TabOf[q]] ELSE q

-----------------------------------------------------------------------------
(* A page is loaded: nothing of what it ran before is left, and the        *)
(* session is restored if there are tokens.                                *)
Load(x) ==
  LET gone == {q \in Req : TabOf[q] = x}
  IN  /\ page[x] = "unloading"
      /\ shown' = [shown EXCEPT ![x] = None]
      /\ promise' = [promise EXCEPT ![x] = None]
      /\ call' = [q \in Req |-> IF q \in gone THEN NoCall ELSE call[q]]
      /\ IF access = None /\ refresh = None
         THEN /\ page' = [page EXCEPT ![x] = "ready"]
              /\ req' = [q \in Req |-> IF q \in gone THEN Idle ELSE req[q]]
         ELSE /\ page' = [page EXCEPT ![x] = "loading"]
              /\ \E p \in gone :
                   req' = [q \in Req |->
                     IF q = p THEN [Idle EXCEPT !.pc = "sent", !.kind = "restore",
                                                !.bearer = access]
                     ELSE IF q \in gone THEN Idle ELSE req[q]]
      /\ UNCHANGED store

(* The user reloads the page.                                              *)
Leave(x) ==
  /\ page[x] # "unloading"
  /\ page' = [page EXCEPT ![x] = "unloading"]
  /\ UNCHANGED <<store, shown, promise, req, call>>

(* Pages other than the login form are shown to a user only.               *)
Fetch(q) ==
  /\ page[TabOf[q]] = "ready"
  /\ shown[TabOf[q]] # None
  /\ req[q].pc = "idle"
  /\ Send(q, "data", None, access)
  /\ UNCHANGED <<store, page, shown, promise, call>>

(* The login form takes one submission at a time; u is None when the       *)
(* password is wrong.  The server does not look at the token it carries.   *)
SubmitLogin(q, u) ==
  /\ page[TabOf[q]] # "unloading"
  /\ req[q].pc = "idle"
  /\ \A p \in Req : TabOf[p] = TabOf[q] /\ req[p].pc # "idle"
                      => req[p].kind \notin {"login", "me"}
  /\ Send(q, "login", u, None)
  /\ UNCHANGED <<store, page, shown, promise, call>>

Logout(x) ==
  /\ page[x] = "ready"
  /\ shown[x] # None
  /\ Clear
  /\ shown' = [shown EXCEPT ![x] = None]
  /\ UNCHANGED <<page, promise, req, call>>

-----------------------------------------------------------------------------
(* The server: a request with a token that is missing or has expired is    *)
(* answered 401, as is a login with the wrong password.                    *)
PasswordRight(q) == req[q].as # None
TokenValid(q)    == req[q].bearer # None /\ req[q].bearer.live

Serve(q) ==
  /\ req[q].pc = "sent"
  /\ IF IF req[q].kind = "login" THEN PasswordRight(q) ELSE TokenValid(q)
     THEN req' = [req EXCEPT ![q].pc = "ok"]
     ELSE Fail(q, "denied")
  /\ UNCHANGED <<store, page, shown, promise, call>>

ServeRefresh(q) ==
  /\ call[q].pc = "posted"
  /\ call' = [call EXCEPT ![q].pc = IF call[q].key.live THEN "granted" ELSE "refused"]
  /\ UNCHANGED <<store, page, shown, promise, req>>

Expired(t, u) == IF t # None /\ t.of = u THEN [t EXCEPT !.live = FALSE] ELSE t

ExpireAccess(u) ==
  /\ access' = Expired(access, u)
  /\ req' = [q \in Req |-> [req[q] EXCEPT !.bearer = Expired(@, u)]]
  /\ UNCHANGED <<refresh, page, shown, promise, call>>

ExpireRefresh(u) ==
  /\ refresh' = Expired(refresh, u)
  /\ call' = [q \in Req |-> [call[q] EXCEPT !.key = Expired(@, u)]]
  /\ UNCHANGED <<access, page, shown, promise, req>>

(* No answer, or one that is not the application's.                        *)
Unanswered(q) ==
  /\ "network" \in Faults
  /\ \/ req[q].pc = "sent" /\ Fail(q, "error") /\ UNCHANGED call
     \/ /\ call[q].pc = "posted"
        /\ call' = [call EXCEPT ![q].pc = "lost"]
        /\ UNCHANGED req
  /\ UNCHANGED <<store, page, shown, promise>>

-----------------------------------------------------------------------------
(* Answers as the tab gets them.                                           *)
DataArrives(q) ==
  /\ req[q].pc = "ok" /\ req[q].kind = "data"
  /\ Settle(q)
  /\ UNCHANGED <<store, page, shown, promise, call>>

(* The user that restoreSession or login asked for.                        *)
UserArrives(q) ==
  /\ req[q].pc = "ok" /\ req[q].kind \in {"restore", "me"}
  /\ shown' = [shown EXCEPT ![TabOf[q]] = req[q].bearer.of]
  /\ IF req[q].kind = "restore" THEN Loaded(TabOf[q]) ELSE UNCHANGED page
  /\ Settle(q)
  /\ UNCHANGED <<store, promise, call>>

(* The pair is stored and the user asked for with it.                      *)
LoggedIn(q) ==
  /\ req[q].pc = "ok" /\ req[q].kind = "login"
  /\ access' = New(req[q].as)
  /\ refresh' = New(req[q].as)
  /\ Send(q, "me", None, access')
  /\ UNCHANGED <<page, shown, promise, call>>

Refreshable(q) == req[q].pc = "denied" /\ ~req[q].retried /\ refresh # None

(* A first 401 waits for the refresh in flight, or starts one.             *)
AwaitRefresh(q) ==
  /\ Refreshable(q)
  /\ req' = [req EXCEPT ![q].pc = "waiting", ![q].retried = TRUE, ![q].awaits = Shared(q)]
  /\ promise' = [promise EXCEPT ![TabOf[q]] = Shared(q)]
  /\ call' = [call EXCEPT ![q] = IF Shared(q) = q THEN [pc |-> "posted", key |-> refresh]
                                                  ELSE @]
  /\ UNCHANGED <<store, page, shown>>

(* Any other failure is the caller's; restoreSession clears the tokens.    *)
Rejected(q) ==
  /\ req[q].pc \in {"denied", "error"}
  /\ ~Refreshable(q)
  /\ Settle(q)
  /\ IF req[q].kind = "restore" THEN Clear /\ Loaded(TabOf[q])
                                ELSE UNCHANGED <<store, page>>
  /\ UNCHANGED <<shown, promise, call>>

(* The new token is stored and carried by all that waited for it.          *)
RefreshGranted(q) ==
  /\ call[q].pc = "granted"
  /\ access' = New(call[q].key.of)
  /\ promise' = [promise EXCEPT ![TabOf[q]] = None]
  /\ call' = [call EXCEPT ![q] = NoCall]
  /\ req' = [p \in Req |-> IF p \in Waiters(q)
                           THEN [req[p] EXCEPT !.pc = "sent", !.bearer = access',
                                               !.awaits = None]
                           ELSE req[p]]
  /\ UNCHANGED <<refresh, page, shown>>

(* All that waited are rejected, and the tab goes to the login page.       *)
RefreshRefused(q) ==
  /\ call[q].pc \in {"refused", "lost"}
  /\ Clear
  /\ page' = [page EXCEPT ![TabOf[q]] = "unloading"]
  /\ promise' = [promise EXCEPT ![TabOf[q]] = None]
  /\ call' = [call EXCEPT ![q] = NoCall]
  /\ req' = [p \in Req |-> IF p \in Waiters(q) THEN Idle ELSE req[p]]
  /\ UNCHANGED <<shown>>

-----------------------------------------------------------------------------
Server(q) == Serve(q) \/ ServeRefresh(q)

Client(q) ==
  \/ DataArrives(q)
  \/ UserArrives(q)
  \/ LoggedIn(q)
  \/ AwaitRefresh(q)
  \/ Rejected(q)
  \/ RefreshGranted(q)
  \/ RefreshRefused(q)

Next ==
  \/ \E x \in Tab : Load(x) \/ Leave(x) \/ Logout(x)
  \/ \E q \in Req, u \in User \cup {None} : SubmitLogin(q, u)
  \/ \E q \in Req : Fetch(q) \/ Server(q) \/ Client(q) \/ Unanswered(q)
  \/ \E u \in User : ExpireAccess(u) \/ ExpireRefresh(u)

(* The server answers, and the browser runs what it was answered.          *)
Served(q)  == WF_vars(Server(q))
Handled(q) == WF_vars(Client(q))

Fairness ==
  /\ \A q \in Req : Served(q)
  /\ \A q \in Req : Handled(q)

Spec == Init /\ [][Next]_vars /\ Fairness

-----------------------------------------------------------------------------
(* A tab has one refresh in flight at most, and whoever waits in it waits  *)
(* for that one: client.ts's promise is set while a call is out, shared by *)
(* all, and reset when the call settles.                                   *)
OneRefreshPerTab ==
  /\ \A q \in Req : req[q].pc = "waiting" => /\ req[q].awaits = promise[TabOf[q]]
                                             /\ req[q].awaits # None
                                             /\ call[req[q].awaits].pc # "none"
  /\ \A x \in Tab : \A q \in Req :
       TabOf[q] = x /\ call[q].pc # "none" => promise[x] = q

(* The two stored tokens are there together and belong to one account.     *)
Sound == /\ access = None <=> refresh = None
         /\ access # None => access.of = refresh.of

(* A refresh is answered when the session it was asked for is not the      *)
(* stored one any more.                                                    *)
LateAnswer ==
  \E q \in Req : /\ call[q].pc = "granted" /\ call'[q].pc = "none"
                 /\ refresh = None \/ refresh.of # call[q].key.of

(* Nothing but a refresh that outlives its session tears the stored pair   *)
(* apart, however tabs log in, log out, reload and refresh: setPair and    *)
(* clear write both, setAccess the one.                                    *)
TornByLateAnswer == Sound /\ ~Sound' => LateAnswer
TornOnlyByLateRefresh == [][TornByLateAnswer]_vars

LoggedOut == \E x \in Tab : /\ page[x] = "ready" /\ page'[x] = "ready"
                           /\ shown[x] # None /\ shown'[x] = None

RefusedAnother == \E q \in Req : /\ call'[q].pc = "none"
                                 /\ \/ call[q].pc = "lost"
                                    \/ call[q].pc = "refused" /\ call[q].key # refresh

NotRestored == \E q \in Req : /\ req[q].kind = "restore" /\ req'[q].pc = "idle"
                              /\ \/ req[q].pc = "error"
                                 \/ req[q].pc = "denied" /\ req[q].retried

(* A refresh token that is still good leaves the store only when a user    *)
(* logs out, when the tokens are cleared for a refresh that was refused    *)
(* another token or got no answer, or when a page could not restore the    *)
(* session (AuthContext's catch, whatever the failure).                    *)
LostWithCause ==
  refresh # None /\ refresh.live /\ refresh' = None
    => LoggedOut \/ RefusedAnother \/ NotRestored
LiveSessionLostWithCause == [][LostWithCause]_vars

(* Every request is settled or dropped with its page, also one that waits  *)
(* for another's refresh.                                                  *)
Settled(q)  == req[q].pc = "idle" \/ page[TabOf[q]] = "unloading"
Settles(q)  == req[q].pc # "idle" ~> Settled(q)
EveryRequestSettles == \A q \in Req : Settles(q)

(* Where the server or the tab has something to answer or to handle, the   *)
(* step that does it can be taken.                                         *)
CanServe(q)  == ENABLED <<Server(q)>>_vars
CanHandle(q) == ENABLED <<Client(q)>>_vars
ServerDue(q) == req[q].pc = "sent" \/ call[q].pc = "posted"
ClientDue(q) == \/ req[q].pc \in {"ok", "denied", "error"}
                \/ call[q].pc \in {"granted", "refused", "lost"}
NoAnswerStuck ==
  \A q \in Req : /\ ServerDue(q) => CanServe(q)
                 /\ ClientDue(q) => CanHandle(q)

=============================================================================
