------------------------------ MODULE Accounts -------------------------------
(***************************************************************************)
(* Accounts: registration, login, the refresh of an access token, and the  *)
(* reset of a forgotten password by a mailed link.  Nothing is stored for  *)
(* a link: it carries a fingerprint of the password's hash, and is good as *)
(* long as the account still has that hash.                                *)
(*                                                                         *)
(* An account is the request that registered it.  Every hash is salted: it *)
(* is told from all others by the request that made it.                    *)
(***************************************************************************)
EXTENDS Naturals

CONSTANTS
  Email,     \* addresses
  Password,  \* passwords
  Req,       \* requests
  Asks,      \* what the requests may ask for together
  Faults     \* {"database"} when it may fail under a request

Kind == {"register", "login", "refresh", "forgot", "reset"}
Job  == [kind: Kind, email: Email, password: Password]

ASSUME AsksAssumption == Asks \subseteq [Req -> Job]

Hash      == [password: Password, salt: Req]
TokenType == {"access", "refresh", "password_reset"}

(* by is the request that was answered with the token, or mailed it.       *)
Token == [type: TokenType, user: Req, by: Req, pwd: Hash]

VARIABLES
  users,     \* the committed accounts
  tokens,    \* those given out or mailed
  expired,   \* those past their time
  pc,        \* how far each request is
  job,       \* what it asks for
  token,     \* the token it came with
  answer,    \* what its client was told
  before     \* history: the requests that were stored when it looked

vars == <<users, tokens, expired, pc, job, token, answer, before>>

User == [id: Req, email: Email, hashed_password: Hash]

TypeOK ==
  /\ users \subseteq User
  /\ tokens \subseteq Token /\ expired \subseteq tokens
  /\ pc \in [Req -> {"idle", "checked", "flushed", "stored", "done"}]
  /\ job \in [Req -> Job]
  /\ token \in [Req -> SUBSET tokens]
  /\ answer \in [Req -> {"none", "created", "conflict", "raced", "denied", "tokens",
                         "a link is on its way", "invalid link", "updated", "failed", "lost"}]
  /\ before \in [Req -> SUBSET Req]

Init ==
  /\ users = {} /\ tokens = {} /\ expired = {}
  /\ pc = [r \in Req |-> "idle"] /\ job \in Asks
  /\ token = [r \in Req |-> {}] /\ answer = [r \in Req |-> "none"]
  /\ before = [r \in Req |-> {}]

GetByEmail(e) == {u \in users : u.email = e}
GetById(id)   == {u \in users : u.id = id}

HashPassword(r)      == [password |-> job[r].password, salt |-> r]
VerifyPassword(p, h) == h.password = p
PasswordFingerprint(h) == h

CreateToken(r, type, u) == [type |-> type, user |-> u.id, by |-> r, pwd |-> u.hashed_password]
DecodeToken(type) == {k \in tokens \ expired : k.type = type}

Is(r, kind, here) == job[r].kind = kind /\ pc[r] = here
Finish(r, a) == pc' = [pc EXCEPT ![r] = "done"] /\ answer' = [answer EXCEPT ![r] = a]
Go(r, there) == pc' = [pc EXCEPT ![r] = there] /\ UNCHANGED answer

Stored(r) == pc[r] = "stored" \/ answer[r] \in {"created", "updated", "lost"}
Looks(r)  == before' = [before EXCEPT ![r] = {q \in Req : Stored(q)}]

(***************************************************************************)
(* Requests that look, and change no account.                              *)
(***************************************************************************)
RegisterLooks(r) ==
  /\ Is(r, "register", "idle")
  /\ IF GetByEmail(job[r].email) = {} THEN Go(r, "checked") ELSE Finish(r, "conflict")
  /\ Looks(r)
  /\ UNCHANGED <<users, tokens, expired, job, token>>

Authenticated(r) ==
  {u \in GetByEmail(job[r].email) : VerifyPassword(job[r].password, u.hashed_password)}

(* A login issues a pair of tokens.                                        *)
Login(r) ==
  /\ Is(r, "login", "idle")
  /\ IF Authenticated(r) = {} THEN Finish(r, "denied") ELSE Finish(r, "tokens")
  /\ tokens' = tokens \cup
       {CreateToken(r, type, u) : type \in {"access", "refresh"}, u \in Authenticated(r)}
  /\ Looks(r)
  /\ UNCHANGED <<users, expired, job, token>>

(* A request comes with any token that was ever given out, or with none of *)
(* them.                                                                   *)
Presented == {{}} \cup {{k} : k \in tokens}

Refresh(r) == \E c \in Presented :
  /\ Is(r, "refresh", "idle")
  /\ token' = [token EXCEPT ![r] = c]
  /\ LET good == {u \in users : \E k \in c \cap DecodeToken("refresh") : k.user = u.id}
     IN /\ IF good = {} THEN Finish(r, "denied") ELSE Finish(r, "tokens")
        /\ tokens' = tokens \cup {CreateToken(r, "access", u) : u \in good}
  /\ Looks(r)
  /\ UNCHANGED <<users, expired, job>>

(* The answer is the same whether the address has an account or not.       *)
ForgotPassword(r) ==
  /\ Is(r, "forgot", "idle")
  /\ Finish(r, "a link is on its way")
  /\ tokens' = tokens \cup {CreateToken(r, "password_reset", u) : u \in GetByEmail(job[r].email)}
  /\ Looks(r)
  /\ UNCHANGED <<users, expired, job, token>>

(* Mutant: A link is good until it expires.                               *)
UsableUntilExpired(c) ==
  {u \in users : \E k \in c \cap DecodeToken("password_reset") : k.user = u.id}

(* The accounts, none or one, that a link opens.                           *)
Usable(c) ==
  {u \in users : \E k \in c \cap DecodeToken("password_reset") :
                  k.user = u.id /\ k.pwd = PasswordFingerprint(u.hashed_password)}

ResetLooks(r) == \E c \in Presented :
  /\ Is(r, "reset", "idle")
  /\ token' = [token EXCEPT ![r] = c]
  /\ IF Usable(c) = {} THEN Finish(r, "invalid link") ELSE Go(r, "checked")
  /\ Looks(r)
  /\ UNCHANGED <<users, tokens, expired, job>>

(***************************************************************************)
(* Requests that write.                                                    *)
(***************************************************************************)
TokenUsers(r) == {k.user : k \in token[r]}

(* Both have rows of one address, or of one account, in hand.              *)
Contend(q, r) ==
  /\ pc[q] = "flushed" /\ job[q].kind = job[r].kind
  /\ IF job[r].kind = "register" THEN job[q].email = job[r].email
                                 ELSE TokenUsers(q) = TokenUsers(r)

(* Mutant: The look-up is all there is; the address is not unique.        *)
FlushUnindexed(r) ==
  /\ pc[r] = "checked"
  /\ Go(r, "flushed")
  /\ UNCHANGED <<users, tokens, expired, job, token, before>>

(* A row waits for another with its address, or for another update of its  *)
(* account; an address that is then taken is refused by the unique index,  *)
(* for which registration has no handler.                                  *)
Flush(r) ==
  /\ pc[r] = "checked"
  /\ \A q \in Req : ~Contend(q, r)
  /\ IF job[r].kind = "register" /\ GetByEmail(job[r].email) # {}
     THEN Finish(r, "raced") ELSE Go(r, "flushed")
  /\ UNCHANGED <<users, tokens, expired, job, token, before>>

CommitRegister(r) ==
  /\ Is(r, "register", "flushed")
  /\ users' = users \cup {[id |-> r, email |-> job[r].email, hashed_password |-> HashPassword(r)]}
  /\ Go(r, "stored")
  /\ UNCHANGED <<tokens, expired, job, token, before>>

(* Mutant: The password is stored as it came.                             *)
CommitPlain(r) ==
  /\ Is(r, "reset", "flushed")
  /\ users' = {IF u.id \in TokenUsers(r) THEN [u EXCEPT !.hashed_password = job[r].password] ELSE u :
                 u \in users}
  /\ Go(r, "stored")
  /\ UNCHANGED <<tokens, expired, job, token, before>>

CommitReset(r) ==
  /\ Is(r, "reset", "flushed")
  /\ users' = {IF u.id \in TokenUsers(r) THEN [u EXCEPT !.hashed_password = HashPassword(r)] ELSE u :
                 u \in users}
  /\ Go(r, "stored")
  /\ UNCHANGED <<tokens, expired, job, token, before>>

Respond(r) ==
  /\ pc[r] = "stored"
  /\ Finish(r, IF job[r].kind = "register" THEN "created" ELSE "updated")
  /\ UNCHANGED <<users, tokens, expired, job, token, before>>

(* The database or the server is lost under a request; after the commit    *)
(* this loses the answer only.                                             *)
Fail(r) ==
  /\ "database" \in Faults
  /\ pc[r] \in {"checked", "flushed", "stored"}
  /\ Finish(r, IF pc[r] = "stored" THEN "lost" ELSE "failed")
  /\ UNCHANGED <<users, tokens, expired, job, token, before>>

Expire(k) ==
  /\ expired' = expired \cup {k}
  /\ UNCHANGED <<users, tokens, pc, job, token, answer, before>>

Quiet == (\A r \in Req : pc[r] = "done") /\ UNCHANGED vars

Serve(r) ==
  \/ RegisterLooks(r) \/ Login(r) \/ Refresh(r) \/ ForgotPassword(r) \/ ResetLooks(r)
  \/ Flush(r) \/ CommitRegister(r) \/ CommitReset(r) \/ Respond(r)

Next == Quiet \/ (\E r \in Req : Serve(r) \/ Fail(r)) \/ (\E k \in tokens : Expire(k))

Spec == Init /\ [][Next]_vars

(***************************************************************************)
(* Properties                                                              *)
(***************************************************************************)
(* However registrations race, an address has one account; who was told    *)
(* that it was created has it, and who was refused finds another's.  Its   *)
(* password is that of the registration, or of a reset by a link that was  *)
(* mailed to its address.                                                  *)
AccountsTrue ==
  /\ \A u, v \in users : u.email = v.email => u = v
  /\ \A r \in Req : job[r].kind = "register" =>
       /\ Stored(r) => \E u \in GetById(r) : u.email = job[r].email
       /\ answer[r] \in {"conflict", "raced"} =>
            GetById(r) = {} /\ GetByEmail(job[r].email) # {}
  /\ \A u \in users : LET r == u.hashed_password.salt IN
       /\ Stored(r) /\ VerifyPassword(job[r].password, u.hashed_password)
       /\ r = u.id \/ \E k \in token[r] :
            /\ k.type = "password_reset" /\ k.user = u.id
            /\ job[k.by].kind = "forgot" /\ job[k.by].email = u.email

(* A link dies with the password it was mailed for.  A reset that went     *)
(* through was asked for after every earlier one it could have seen: of    *)
(* two uses of one link, or of two links for one password, the second      *)
(* works only if it looked before the first was committed.                 *)
LinksDieWithPassword == \A q, r \in Req :
  /\ job[q].kind = "reset" /\ job[r].kind = "reset"
  /\ Stored(q) /\ Stored(r) /\ TokenUsers(q) = TokenUsers(r)
  /\ q \in before[r]
  => \A k \in token[r] : q \in before[k.by]
=============================================================================
