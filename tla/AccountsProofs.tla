--------------------------- MODULE AccountsProofs ----------------------------
(***************************************************************************)
(* Proofs about Accounts, for any addresses, passwords and requests.       *)
(*                                                                         *)
(* The argument for the links: a token remembers the hash it was made of,  *)
(* and a salt is used once.  So as long as a link still fits, no reset has *)
(* been committed since it was mailed: all that are stored were stored     *)
(* when it was asked for (Fits).  A reset that passes its check inherits   *)
(* that of its link, for all it could see at that moment (Inherits).       *)
(***************************************************************************)
EXTENDS Accounts, TLAPS

Passed(r) == pc[r] \in {"checked", "flushed", "stored"} \/ Stored(r)

Progress == \A r \in Req :
  /\ pc[r] # "done" => answer[r] = "none"
  /\ Passed(r) => job[r].kind \in {"register", "reset"}
  /\ \A q \in before[r] : Stored(q)

Rows ==
  /\ \A u \in users : Stored(u.id) /\ job[u.id].kind = "register" /\ u.email = job[u.id].email
  /\ \A u, v \in users : u.id = v.id => u = v
  /\ \A r \in Req : Stored(r) /\ job[r].kind = "register" => \E u \in users : u.id = r

Addresses ==
  /\ \A u, v \in users : u.email = v.email => u = v
  /\ \A r \in Req : pc[r] = "flushed" /\ job[r].kind = "register" =>
       \A u \in users : u.email # job[r].email
  /\ \A q, r \in Req :
       /\ pc[q] = "flushed" /\ job[q].kind = "register"
       /\ pc[r] = "flushed" /\ job[r].kind = "register"
       /\ job[q].email = job[r].email
       => q = r
  /\ \A r \in Req : job[r].kind = "register" /\ answer[r] \in {"conflict", "raced"} =>
       \E u \in users : u.email = job[r].email

Links ==
  /\ \A k \in tokens : Stored(k.pwd.salt)
  /\ \A k \in tokens : k.type = "password_reset" =>
       /\ job[k.by].kind = "forgot" /\ pc[k.by] = "done"
       /\ \E u \in users : u.id = k.user /\ u.email = job[k.by].email
  /\ \A r \in Req : job[r].kind = "reset" /\ Passed(r) =>
       \E k \in tokens : token[r] = {k} /\ k.type = "password_reset"

Hashes == \A u \in users :
  /\ Stored(u.hashed_password.salt)
  /\ u.hashed_password.password = job[u.hashed_password.salt].password
  /\ \/ u.hashed_password.salt = u.id
     \/ /\ job[u.hashed_password.salt].kind = "reset"
        /\ \A k \in token[u.hashed_password.salt] : k.user = u.id

Fits == \A k \in tokens, u \in users, q \in Req :
  /\ k.type = "password_reset" /\ k.user = u.id /\ k.pwd = u.hashed_password
  /\ job[q].kind = "reset" /\ Stored(q) /\ \A l \in token[q] : l.user = u.id
  => q \in before[k.by]

Inherits == \A q, r \in Req :
  /\ job[q].kind = "reset" /\ job[r].kind = "reset" /\ Passed(r) /\ q \in before[r]
  => \A k \in token[r], l \in token[q] : k.user = l.user => q \in before[k.by]

IInv == TypeOK /\ Progress /\ Rows /\ Addresses /\ Links /\ Hashes /\ Fits /\ Inherits

\* Before the first request there is no account, token or hash to be wrong about.
LEMMA InitIInv == Init => IInv
  BY AsksAssumption DEF Init, IInv, TypeOK, Progress, Rows, Addresses, Links, Hashes, Fits, Inherits,
     Stored, Passed, User, Hash, Token, Job

(* Steps that leave the rows, the tokens and who is stored as they are.    *)
LEMMA Frame ==
  ASSUME IInv, UNCHANGED <<users, tokens, job, token, before>>,
         \A q \in Req : Stored(q)' <=> Stored(q),
         \A q \in Req : Passed(q)' => Passed(q),
         \A q \in Req : pc[q] = "done" => pc'[q] = "done"
  PROVE  Rows' /\ Links' /\ Hashes' /\ Fits' /\ Inherits'
<1> USE DEF IInv
<1>1. Rows'
  BY DEF Rows, TypeOK, User, Hash
<1>2. Links'
  BY DEF Links, TypeOK, Token, Hash
<1>3. Hashes'
  BY DEF Hashes, TypeOK, User, Hash
<1>4. Fits'
  BY DEF Fits
<1>5. Inherits'
  BY DEF Inherits
<1> QED BY <1>1, <1>2, <1>3, <1>4, <1>5

(* How a look ends: the request goes on, or is answered.                   *)
Turns(r) ==
  \/ Go(r, "checked") /\ job[r].kind \in {"register", "reset"}
  \/ \E a \in {"conflict", "denied", "tokens", "a link is on its way", "invalid link"} : Finish(r, a)

(* A request that looks was idle: nothing of it was stored, and what it    *)
(* saw stored still is.                                                    *)
LEMMA LookLemma ==
  ASSUME IInv, NEW r \in Req, pc[r] = "idle", Looks(r), UNCHANGED <<users, expired, job>>,
         Turns(r)
  PROVE  /\ \A q \in Req : Stored(q)' <=> Stored(q)
         /\ \A q \in Req \ {r} : Passed(q)' <=> Passed(q)
         /\ \A q \in Req : pc[q] = "done" => pc'[q] = "done"
         /\ \A q \in Req \ {r} : before'[q] = before[q]
         /\ before'[r] = {q \in Req : Stored(q)}
         /\ Progress' /\ Rows'
<1> USE DEF IInv
<1>1. answer[r] = "none"
  BY DEF Progress
<1>2. \A q \in Req : Stored(q)' <=> Stored(q)
  BY <1>1 DEF TypeOK, Stored, Turns, Go, Finish
<1>3. \A q \in Req \ {r} : Passed(q)' <=> Passed(q)
  BY DEF TypeOK, Passed, Stored, Turns, Go, Finish
<1>4. \A q \in Req : pc[q] = "done" => pc'[q] = "done"
  BY DEF TypeOK, Turns, Go, Finish
<1>5. /\ \A q \in Req \ {r} : before'[q] = before[q]
      /\ before'[r] = {q \in Req : Stored(q)}
  BY DEF TypeOK, Looks
<1>6. Progress'
  <2>1. ASSUME NEW q \in Req
        PROVE  /\ pc'[q] # "done" => answer'[q] = "none"
               /\ Passed(q)' => job'[q].kind \in {"register", "reset"}
    <3>1. CASE q = r
      <4>1. CASE Go(r, "checked") /\ job[r].kind \in {"register", "reset"}
        BY <3>1, <4>1, <1>1 DEF Go
      <4>2. ASSUME NEW a \in {"conflict", "denied", "tokens", "a link is on its way", "invalid link"},
                   Finish(r, a)
            PROVE  pc'[q] = "done" /\ ~Passed(q)'
        <5>1. pc'[r] = "done" /\ answer'[r] = a
          BY <4>2 DEF TypeOK, Finish
        <5> QED BY <5>1, <3>1 DEF Passed, Stored
      <4> QED BY <4>1, <4>2 DEF Turns
    <3>2. CASE q # r
      <4>1. pc'[q] = pc[q] /\ answer'[q] = answer[q] /\ job' = job
        BY <3>2 DEF TypeOK, Turns, Go, Finish
      <4> QED BY <4>1 DEF Progress, Passed, Stored
    <3> QED BY <3>1, <3>2
  <2>2. ASSUME NEW q \in Req, NEW x \in before'[q]
        PROVE  Stored(x)'
    <3>1. x \in Req /\ Stored(x)
      BY <2>2, <1>5 DEF TypeOK, Progress
    <3> QED BY <3>1, <1>2
  <2> QED BY <2>1, <2>2 DEF Progress
<1>7. Rows'
  BY <1>2 DEF Rows, TypeOK, User
<1> QED BY <1>2, <1>3, <1>4, <1>5, <1>6, <1>7

(* A link that a request passed with: who mailed it was done by then.      *)
LEMMA LinkLemma ==
  ASSUME IInv, NEW r \in Req, job[r].kind = "reset", Passed(r), NEW k \in token[r]
  PROVE  /\ k \in tokens /\ k.type = "password_reset" /\ token[r] = {k}
         /\ k.by \in Req /\ pc[k.by] = "done"
<1> USE DEF IInv
<1>1. PICK l \in tokens : token[r] = {l} /\ l.type = "password_reset"
  BY DEF Links
<1>2. k = l
  BY <1>1
<1>3. k.by \in Req
  BY <1>1, <1>2 DEF TypeOK, Token
<1>4. pc[k.by] = "done"
  BY <1>1, <1>2 DEF Links
<1> QED BY <1>1, <1>2, <1>3, <1>4

(* What a look leaves of the rest: the tokens that were there and those    *)
(* who passed before.                                                      *)
LEMMA LookFrame ==
  ASSUME IInv, NEW r \in Req, pc[r] = "idle", Looks(r), UNCHANGED <<users, expired, job>>,
         Turns(r),
         tokens \subseteq tokens', \A q \in Req \ {r} : token'[q] = token[q]
  PROVE  /\ \A k \in tokens, u \in users, q \in Req :
              /\ k.type = "password_reset" /\ k.user = u.id /\ k.pwd = u.hashed_password
              /\ job[q].kind = "reset" /\ Stored(q) /\ \A l \in token'[q] : l.user = u.id
              => q \in before'[k.by]
         /\ \A q \in Req, x \in Req \ {r} :
              /\ job[q].kind = "reset" /\ job[x].kind = "reset" /\ Passed(x)' /\ q \in before'[x]
              => \A k \in token'[x], l \in token'[q] : k.user = l.user => q \in before'[k.by]
         /\ \A x \in Req \ {r} : job[x].kind = "reset" /\ Passed(x)' =>
              \E k \in tokens' : token'[x] = {k} /\ k.type = "password_reset"
         /\ \A k \in tokens : Stored(k.pwd.salt)' /\
              (k.type = "password_reset" =>
                 /\ job[k.by].kind = "forgot" /\ pc'[k.by] = "done"
                 /\ \E u \in users : u.id = k.user /\ u.email = job[k.by].email)
         /\ Hashes'
<1> USE DEF IInv
<1>1. /\ \A q \in Req : Stored(q)' <=> Stored(q)
      /\ \A q \in Req \ {r} : Passed(q)' <=> Passed(q)
      /\ \A q \in Req : pc[q] = "done" => pc'[q] = "done"
      /\ \A q \in Req \ {r} : before'[q] = before[q]
  BY LookLemma
<1>2. ~Stored(r)
  BY DEF Progress, Stored
<1>3. \A k \in tokens : k.type = "password_reset" =>
        k.by \in Req /\ pc[k.by] = "done" /\ before'[k.by] = before[k.by]
  BY <1>1 DEF Links, TypeOK, Token
<1>4. ASSUME NEW k \in tokens, NEW u \in users, NEW q \in Req,
             k.type = "password_reset" /\ k.user = u.id /\ k.pwd = u.hashed_password,
             job[q].kind = "reset" /\ Stored(q) /\ \A l \in token'[q] : l.user = u.id
      PROVE  q \in before'[k.by]
  <2>1. token'[q] = token[q]
    BY <1>4, <1>2
  <2>2. q \in before[k.by]
    BY <1>4, <2>1 DEF Fits
  <2> QED BY <1>4, <2>2, <1>3
<1>5. ASSUME NEW q \in Req, NEW x \in Req \ {r},
             job[q].kind = "reset" /\ job[x].kind = "reset" /\ Passed(x)' /\ q \in before'[x],
             NEW k \in token'[x], NEW l \in token'[q], k.user = l.user
      PROVE  q \in before'[k.by]
  <2>1. Passed(x) /\ q \in before[x] /\ token'[x] = token[x]
    BY <1>5, <1>1
  <2>2. Stored(q)
    BY <2>1 DEF Progress
  <2>3. token'[q] = token[q]
    BY <2>2, <1>2
  <2>4. q \in before[k.by]
    BY <1>5, <2>1, <2>3 DEF Inherits
  <2>5. k \in tokens /\ k.type = "password_reset"
    BY <1>5, <2>1, LinkLemma
  <2> QED BY <2>4, <2>5, <1>3
<1>6. ASSUME NEW x \in Req \ {r}, job[x].kind = "reset" /\ Passed(x)'
      PROVE  \E k \in tokens' : token'[x] = {k} /\ k.type = "password_reset"
  BY <1>6, <1>1 DEF Links
<1>7. ASSUME NEW k \in tokens
      PROVE  Stored(k.pwd.salt)' /\
              (k.type = "password_reset" =>
                 /\ job[k.by].kind = "forgot" /\ pc'[k.by] = "done"
                 /\ \E u \in users : u.id = k.user /\ u.email = job[k.by].email)
  <2>1. k.pwd.salt \in Req
    BY DEF TypeOK, Token, Hash
  <2> QED BY <2>1, <1>1, <1>3 DEF Links
<1>8. Hashes'
  <2> SUFFICES ASSUME NEW u \in users
               PROVE  /\ Stored(u.hashed_password.salt)'
                      /\ u.hashed_password.password = job[u.hashed_password.salt].password
                      /\ \/ u.hashed_password.salt = u.id
                         \/ /\ job[u.hashed_password.salt].kind = "reset"
                            /\ \A k \in token'[u.hashed_password.salt] : k.user = u.id
    BY DEF Hashes
  <2>1. u.hashed_password.salt \in Req /\ Stored(u.hashed_password.salt)
    BY DEF Hashes, TypeOK, User, Hash
  <2>2. token'[u.hashed_password.salt] = token[u.hashed_password.salt]
    BY <2>1, <1>2
  <2> QED BY <2>1, <2>2, <1>1 DEF Hashes
<1> QED BY <1>4, <1>5, <1>6, <1>7, <1>8

(* No look but a registration's concerns the addresses.                    *)
LEMMA LookAddresses ==
  ASSUME IInv, NEW r \in Req, pc[r] = "idle", UNCHANGED <<users, job>>, NEW a,
         Go(r, "checked") \/ Finish(r, a), a # "raced",
         a = "conflict" => \E u \in users : u.email = job[r].email
  PROVE  Addresses'
<1> USE DEF IInv
<1>1. \A q \in Req : pc'[q] = "flushed" => pc[q] = "flushed"
  BY DEF TypeOK, Go, Finish
<1>2. \A q \in Req \ {r} : answer'[q] = answer[q]
  BY DEF TypeOK, Go, Finish
<1>3. answer'[r] \in {"conflict", "raced"} => \E u \in users : u.email = job[r].email
  <2>1. answer'[r] \in {"none", a}
    BY DEF TypeOK, Progress, Go, Finish
  <2> QED BY <2>1
<1> QED BY <1>1, <1>2, <1>3 DEF Addresses

(* What a look may add: tokens made of accounts, and the link a reset came *)
(* with.                                                                   *)
Made(k, r) == \E u \in users :
  /\ k.pwd = u.hashed_password /\ k.user = u.id /\ k.by = r
  /\ k.type = "password_reset" =>
       job[r].kind = "forgot" /\ pc[r] = "done" /\ u.email = job[r].email

Opens(r) == \E k \in tokens, u \in users :
  token[r] = {k} /\ k.type = "password_reset" /\ k.user = u.id /\ k.pwd = u.hashed_password

\* What the four kinds of look-up share: one request moves on, tokens may be added, accounts stay.
LEMMA LookInv ==
  ASSUME IInv, NEW r \in Req, pc[r] = "idle", Looks(r), UNCHANGED <<users, expired, job>>,
         Turns(r),
         tokens \subseteq tokens', \A q \in Req \ {r} : token'[q] = token[q],
         TypeOK', Addresses',
         \A k \in tokens' \ tokens : Made(k, r)',
         job[r].kind = "reset" /\ Passed(r)' => Opens(r)'
  PROVE  IInv'
<1> USE DEF IInv
<1>1. /\ \A q \in Req : Stored(q)' <=> Stored(q)
      /\ before'[r] = {q \in Req : Stored(q)}
      /\ Progress' /\ Rows'
  BY LookLemma
<1>2. /\ \A k \in tokens, u \in users, q \in Req :
           /\ k.type = "password_reset" /\ k.user = u.id /\ k.pwd = u.hashed_password
           /\ job[q].kind = "reset" /\ Stored(q) /\ \A l \in token'[q] : l.user = u.id
           => q \in before'[k.by]
      /\ \A q \in Req, x \in Req \ {r} :
           /\ job[q].kind = "reset" /\ job[x].kind = "reset" /\ Passed(x)' /\ q \in before'[x]
           => \A k \in token'[x], l \in token'[q] : k.user = l.user => q \in before'[k.by]
      /\ \A x \in Req \ {r} : job[x].kind = "reset" /\ Passed(x)' =>
           \E k \in tokens' : token'[x] = {k} /\ k.type = "password_reset"
      /\ \A k \in tokens : Stored(k.pwd.salt)' /\
           (k.type = "password_reset" =>
              /\ job[k.by].kind = "forgot" /\ pc'[k.by] = "done"
              /\ \E u \in users : u.id = k.user /\ u.email = job[k.by].email)
      /\ Hashes'
  BY LookFrame
<1>3. ~Stored(r)
  BY DEF Progress, Stored
<1>4. Links'
  <2>1. ASSUME NEW k \in tokens'
        PROVE  /\ Stored(k.pwd.salt)'
               /\ k.type = "password_reset" =>
                    /\ job'[k.by].kind = "forgot" /\ pc'[k.by] = "done"
                    /\ \E u \in users' : u.id = k.user /\ u.email = job'[k.by].email
    <3>1. CASE k \in tokens
      BY <3>1, <1>2
    <3>2. CASE k \notin tokens
      <4>1. Made(k, r)'
        BY <3>2
      <4>2. PICK u \in users :
              /\ k.pwd = u.hashed_password /\ k.user = u.id /\ k.by = r
              /\ k.type = "password_reset" =>
                   job[r].kind = "forgot" /\ pc'[r] = "done" /\ u.email = job[r].email
        BY <4>1 DEF Made
      <4>3. u.hashed_password.salt \in Req /\ Stored(u.hashed_password.salt)
        BY DEF Hashes, TypeOK, User, Hash
      <4> QED BY <4>2, <4>3, <1>1
    <3> QED BY <3>1, <3>2
  <2>2. ASSUME NEW x \in Req, job[x].kind = "reset" /\ Passed(x)'
        PROVE  \E k \in tokens' : token'[x] = {k} /\ k.type = "password_reset"
    <3>1. CASE x = r
      <4>1. Opens(r)'
        BY <2>2, <3>1
      <4> QED BY <4>1, <3>1 DEF Opens
    <3> QED BY <3>1, <2>2, <1>2
  <2> QED BY <2>1, <2>2 DEF Links
<1>5. Fits'
  <2> SUFFICES ASSUME NEW k \in tokens', NEW u \in users, NEW q \in Req,
                      k.type = "password_reset" /\ k.user = u.id /\ k.pwd = u.hashed_password,
                      job[q].kind = "reset" /\ Stored(q) /\ \A l \in token'[q] : l.user = u.id
               PROVE  q \in before'[k.by]
    BY <1>1 DEF Fits
  <2>1. CASE k \in tokens
    BY <2>1, <1>2
  <2>2. CASE k \notin tokens
    <3>1. Made(k, r)'
      BY <2>2
    <3>2. k.by = r
      BY <3>1 DEF Made
    <3> QED BY <3>2, <1>1
  <2> QED BY <2>1, <2>2
<1>6. Inherits'
  <2> SUFFICES ASSUME NEW q \in Req, NEW x \in Req,
                      job[q].kind = "reset" /\ job[x].kind = "reset" /\ Passed(x)' /\ q \in before'[x],
                      NEW k \in token'[x], NEW l \in token'[q], k.user = l.user
               PROVE  q \in before'[k.by]
    BY DEF Inherits
  <2>1. CASE x # r
    BY <2>1, <1>2
  <2>2. CASE x = r
    <3>1. Stored(q) /\ q # r /\ token'[q] = token[q]
      BY <2>2, <1>1, <1>3
    <3>2. Opens(r)'
      BY <2>2
    <3>3. PICK o \in tokens', u \in users :
            token'[r] = {o} /\ o.type = "password_reset" /\ o.user = u.id /\ o.pwd = u.hashed_password
      BY <3>2 DEF Opens
    <3>4. o = k
      BY <3>3, <2>2
    <3>5. Passed(q)
      BY <3>1 DEF Passed
    <3>6. token[q] = {l}
      BY <3>1, <3>5, LinkLemma
    <3>7. \A m \in token'[q] : m.user = u.id
      BY <3>1, <3>3, <3>4, <3>6
    <3>8. Stored(q)'
      BY <3>1, <1>1
    <3> QED BY <1>5, <3>3, <3>4, <3>7, <3>8 DEF Fits
  <2> QED BY <2>1, <2>2
<1> QED BY <1>1, <1>2, <1>4, <1>5, <1>6

\* A registration that looked its address up has written nothing yet.
LEMMA RegisterLooksInv ==
  ASSUME IInv, NEW r \in Req, RegisterLooks(r)
  PROVE  IInv'
<1> USE DEF IInv
<1>1. /\ pc[r] = "idle" /\ job[r].kind = "register" /\ Looks(r)
      /\ UNCHANGED <<users, expired, job, tokens, token>>
  BY DEF RegisterLooks, Is
<1>2. Go(r, "checked") \/ (Finish(r, "conflict") /\ GetByEmail(job[r].email) # {})
  BY DEF RegisterLooks
<1>3. Turns(r)
  BY <1>1, <1>2 DEF Turns
<1>4. TypeOK'
  BY <1>1, <1>2 DEF TypeOK, Looks, Go, Finish
<1>5. Addresses'
  <2>1. CASE Go(r, "checked")
    <3>1. "denied" # "raced" /\ ("denied" = "conflict" => \E u \in users : u.email = job[r].email)
      OBVIOUS
    <3> QED BY <2>1, <3>1, <1>1, LookAddresses
  <2>2. CASE Finish(r, "conflict") /\ GetByEmail(job[r].email) # {}
    <3>1. \E u \in users : u.email = job[r].email
      BY <2>2 DEF GetByEmail
    <3> QED BY <2>2, <3>1, <1>1, LookAddresses
  <2> QED BY <1>2, <2>1, <2>2
<1>6. /\ tokens \subseteq tokens' /\ \A q \in Req \ {r} : token'[q] = token[q]
      /\ \A k \in tokens' \ tokens : Made(k, r)'
      /\ job[r].kind = "reset" /\ Passed(r)' => Opens(r)'
  BY <1>1
<1> QED BY <1>1, <1>3, <1>4, <1>5, <1>6, LookInv

(* The looks that end in an answer: login, refresh, a forgotten password.  *)
LEMMA AnsweredInv ==
  ASSUME IInv, NEW r \in Req, pc[r] = "idle", Looks(r), UNCHANGED <<users, expired, job>>,
         NEW a \in {"denied", "tokens", "a link is on its way"}, Finish(r, a),
         \A q \in Req \ {r} : token'[q] = token[q],
         tokens \subseteq tokens', token' \in [Req -> SUBSET tokens'],
         \A k \in tokens' \ tokens : \E u \in users, type \in TokenType :
           /\ k = CreateToken(r, type, u)
           /\ type = "password_reset" => job[r].kind = "forgot" /\ u.email = job[r].email
  PROVE  IInv'
<1> USE DEF IInv
<1>1. Turns(r)
  BY DEF Turns
<1>2. pc'[r] = "done" /\ answer'[r] = a
  BY DEF TypeOK, Finish
<1>3. TypeOK'
  <2>1. ASSUME NEW k \in tokens' \ tokens
        PROVE  k \in Token
    <3>1. PICK u \in users, type \in TokenType : k = CreateToken(r, type, u)
      OBVIOUS
    <3>2. u.id \in Req /\ u.hashed_password \in Hash
      BY DEF TypeOK, User
    <3> QED BY <3>1, <3>2 DEF CreateToken, Token
  <2> QED BY <2>1 DEF TypeOK, Looks, Finish
<1>4. Addresses'
  BY LookAddresses
<1>5. ASSUME NEW k \in tokens' \ tokens
      PROVE  Made(k, r)'
  <2>1. PICK u \in users, type \in TokenType :
           /\ k = CreateToken(r, type, u)
           /\ type = "password_reset" => job[r].kind = "forgot" /\ u.email = job[r].email
    OBVIOUS
  <2>2. k.pwd = u.hashed_password /\ k.user = u.id /\ k.by = r /\ k.type = type
    BY <2>1 DEF CreateToken
  <2> QED BY <2>1, <2>2, <1>2 DEF Made
<1>6. ~Passed(r)'
  BY <1>2 DEF Passed, Stored
<1> QED BY <1>1, <1>3, <1>4, <1>5, <1>6, LookInv

\* A login adds a pair of tokens of the account it found.
LEMMA LoginInv ==
  ASSUME IInv, NEW r \in Req, Login(r)
  PROVE  IInv'
<1> USE DEF IInv
<1>1. /\ pc[r] = "idle" /\ Looks(r) /\ UNCHANGED <<users, expired, job, token>>
      /\ Finish(r, "denied") \/ Finish(r, "tokens")
      /\ tokens' = tokens \cup
           {CreateToken(r, type, u) : type \in {"access", "refresh"}, u \in Authenticated(r)}
  BY DEF Login, Is
<1>2. \A k \in tokens' \ tokens : \E u \in users, type \in TokenType :
           /\ k = CreateToken(r, type, u)
           /\ type = "password_reset" => job[r].kind = "forgot" /\ u.email = job[r].email
  BY <1>1 DEF Authenticated, GetByEmail, TokenType
<1>3. tokens \subseteq tokens' /\ token' \in [Req -> SUBSET tokens']
      /\ \A q \in Req \ {r} : token'[q] = token[q]
  <2>1. ASSUME NEW k \in tokens
        PROVE  k \in tokens'
    BY <1>1
  <2>2. token' = token
    BY <1>1, Zenon
  <2> QED BY <2>1, <2>2 DEF TypeOK
<1>4. PICK a \in {"denied", "tokens"} : Finish(r, a)
  BY <1>1
<1> QED BY <1>1, <1>2, <1>3, <1>4, AnsweredInv

\* A refresh adds an access token of the account its own token names.
LEMMA RefreshInv ==
  ASSUME IInv, NEW r \in Req, Refresh(r)
  PROVE  IInv'
<1> USE DEF IInv
<1>1. PICK c \in Presented :
        /\ pc[r] = "idle" /\ Looks(r) /\ UNCHANGED <<users, expired, job>>
        /\ token' = [token EXCEPT ![r] = c]
        /\ Finish(r, "denied") \/ Finish(r, "tokens")
        /\ tokens' = tokens \cup {CreateToken(r, "access", u) :
             u \in {v \in users : \E k \in c \cap DecodeToken("refresh") : k.user = v.id}}
  BY DEF Refresh, Is
<1>2. \A k \in tokens' \ tokens : \E u \in users, type \in TokenType :
           /\ k = CreateToken(r, type, u)
           /\ type = "password_reset" => job[r].kind = "forgot" /\ u.email = job[r].email
  BY <1>1 DEF TokenType
<1>3. tokens \subseteq tokens' /\ token' \in [Req -> SUBSET tokens']
      /\ \A q \in Req \ {r} : token'[q] = token[q]
  BY <1>1 DEF TypeOK, Presented
<1> QED BY <1>1, <1>2, <1>3, AnsweredInv

\* A link carries the hash its account has now, so it fits.
LEMMA ForgotPasswordInv ==
  ASSUME IInv, NEW r \in Req, ForgotPassword(r)
  PROVE  IInv'
<1> USE DEF IInv
<1>1. /\ pc[r] = "idle" /\ Looks(r) /\ UNCHANGED <<users, expired, job, token>>
      /\ job[r].kind = "forgot" /\ Finish(r, "a link is on its way")
      /\ tokens' = tokens \cup
           {CreateToken(r, "password_reset", u) : u \in GetByEmail(job[r].email)}
  BY DEF ForgotPassword, Is
<1>2. \A k \in tokens' \ tokens : \E u \in users, type \in TokenType :
           /\ k = CreateToken(r, type, u)
           /\ type = "password_reset" => job[r].kind = "forgot" /\ u.email = job[r].email
  BY <1>1 DEF GetByEmail, TokenType
<1>3. tokens \subseteq tokens' /\ token' \in [Req -> SUBSET tokens']
      /\ \A q \in Req \ {r} : token'[q] = token[q]
  BY <1>1 DEF TypeOK
<1> QED BY <1>1, <1>2, <1>3, AnsweredInv

\* A reset that passes its check holds a link that fits the account as read.
LEMMA ResetLooksInv ==
  ASSUME IInv, NEW r \in Req, ResetLooks(r)
  PROVE  IInv'
<1> USE DEF IInv
<1>1. PICK c \in Presented :
        /\ pc[r] = "idle" /\ job[r].kind = "reset" /\ Looks(r)
        /\ UNCHANGED <<users, tokens, expired, job>>
        /\ token' = [token EXCEPT ![r] = c]
        /\ \/ Usable(c) = {} /\ Finish(r, "invalid link")
           \/ Usable(c) # {} /\ Go(r, "checked")
  BY DEF ResetLooks, Is
<1>2. Turns(r)
  BY <1>1 DEF Turns
<1>3. token' \in [Req -> SUBSET tokens'] /\ token'[r] = c
      /\ \A q \in Req \ {r} : token'[q] = token[q]
  BY <1>1 DEF TypeOK, Presented
<1>4. TypeOK'
  BY <1>1, <1>3 DEF TypeOK, Looks, Go, Finish
<1>5. Addresses'
  <2>1. "invalid link" # "raced" /\ "invalid link" # "conflict"
    OBVIOUS
  <2> QED BY <1>1, <2>1, LookAddresses
<1>6. ASSUME Passed(r)'
      PROVE  Opens(r)'
  <2>1. Usable(c) # {}
    <3>1. ASSUME Usable(c) = {}
          PROVE  FALSE
      <4>1. pc'[r] = "done" /\ answer'[r] = "invalid link"
        BY <3>1, <1>1 DEF TypeOK, Finish
      <4> QED BY <4>1, <1>6 DEF Passed, Stored
    <3> QED BY <3>1
  <2>2. PICK u \in users, k \in c \cap DecodeToken("password_reset") :
          k.user = u.id /\ k.pwd = u.hashed_password
    BY <2>1 DEF Usable, PasswordFingerprint
  <2>3. c = {k} /\ k \in tokens /\ k.type = "password_reset"
    BY <2>2, <1>1 DEF DecodeToken, Presented
  <2> QED BY <2>2, <2>3, <1>1, <1>3 DEF Opens
<1>7. /\ tokens \subseteq tokens'
      /\ \A k \in tokens' \ tokens : Made(k, r)'
  BY <1>1
<1> QED BY <1>1, <1>2, <1>3, <1>4, <1>5, <1>6, <1>7, LookInv

(* Steps of a request that stored nothing by them.                         *)
Moves(r) ==
  \/ pc[r] = "checked" /\ Go(r, "flushed")
  \/ pc[r] \in {"checked", "flushed"} /\ \E a \in {"raced", "failed"} : Finish(r, a)
  \/ pc[r] = "stored" /\ \E a \in {"created", "updated", "lost"} : Finish(r, a)

\* A step that moves one request and neither rows nor tokens keeps all but Addresses.
LEMMA MoveInv ==
  ASSUME IInv, NEW r \in Req, Moves(r), UNCHANGED <<users, tokens, expired, job, token, before>>,
         Addresses'
  PROVE  IInv'
<1> USE DEF IInv
<1>1. /\ pc[r] \in {"checked", "flushed", "stored"} /\ answer[r] = "none"
      /\ Passed(r) /\ job[r].kind \in {"register", "reset"}
  BY DEF Moves, Progress, Passed
<1>2. \A q \in Req \ {r} : pc'[q] = pc[q] /\ answer'[q] = answer[q]
  BY DEF TypeOK, Moves, Go, Finish
<1>3. /\ Stored(r)' <=> Stored(r)
      /\ pc'[r] # "done" => answer'[r] = "none"
  <2>1. CASE pc[r] = "checked" /\ Go(r, "flushed")
    BY <2>1, <1>1 DEF TypeOK, Go, Stored
  <2>2. ASSUME NEW a \in {"raced", "failed"}, pc[r] \in {"checked", "flushed"}, Finish(r, a)
        PROVE  /\ Stored(r)' <=> Stored(r)
               /\ pc'[r] # "done" => answer'[r] = "none"
    BY <2>2, <1>1 DEF TypeOK, Finish, Stored
  <2>3. ASSUME NEW a \in {"created", "updated", "lost"}, pc[r] = "stored", Finish(r, a)
        PROVE  /\ Stored(r)' <=> Stored(r)
               /\ pc'[r] # "done" => answer'[r] = "none"
    BY <2>3, <1>1 DEF TypeOK, Finish, Stored
  <2> QED BY <2>1, <2>2, <2>3 DEF Moves
<1>4. \A q \in Req : Stored(q)' <=> Stored(q)
  BY <1>2, <1>3 DEF Stored
<1>5. \A q \in Req : Passed(q)' => Passed(q)
  BY <1>1, <1>2 DEF Passed, Stored
<1>6. \A q \in Req : pc[q] = "done" => pc'[q] = "done"
  BY <1>1, <1>2
<1>7. Progress'
  <2>1. ASSUME NEW q \in Req
        PROVE  /\ pc'[q] # "done" => answer'[q] = "none"
               /\ Passed(q)' => job'[q].kind \in {"register", "reset"}
               /\ \A x \in before'[q] : Stored(x)'
    <3>1. pc'[q] # "done" => answer'[q] = "none"
      BY <1>2, <1>3 DEF Progress
    <3>2. Passed(q)' => job'[q].kind \in {"register", "reset"}
      BY <1>5 DEF Progress
    <3>3. \A x \in before'[q] : x \in Req /\ Stored(x)
      BY DEF Progress, TypeOK
    <3> QED BY <3>1, <3>2, <3>3, <1>4
  <2> QED BY <2>1 DEF Progress
<1>8. TypeOK'
  BY DEF TypeOK, Moves, Go, Finish
<1>9. Rows' /\ Links' /\ Hashes' /\ Fits' /\ Inherits'
  BY <1>4, <1>5, <1>6, Frame
<1> QED BY <1>7, <1>8, <1>9

(* A row that waited has its address for itself.                           *)
LEMMA FlushInv ==
  ASSUME IInv, NEW r \in Req, Flush(r)
  PROVE  IInv'
<1> USE DEF IInv
<1>1. /\ pc[r] = "checked" /\ \A q \in Req : ~Contend(q, r)
      /\ UNCHANGED <<users, tokens, expired, job, token, before>>
  BY DEF Flush
<1>2. \/ job[r].kind = "register" /\ GetByEmail(job[r].email) # {} /\ Finish(r, "raced")
      \/ (job[r].kind = "register" => GetByEmail(job[r].email) = {}) /\ Go(r, "flushed")
  BY DEF Flush
<1>3. Moves(r)
  BY <1>1, <1>2 DEF Moves
<1>4. Addresses'
  <2>1. \A q \in Req \ {r} : pc'[q] = pc[q] /\ answer'[q] = answer[q]
    BY <1>2 DEF TypeOK, Go, Finish
  <2>2. CASE job[r].kind = "register" /\ GetByEmail(job[r].email) # {} /\ Finish(r, "raced")
    <3>1. pc'[r] = "done" /\ \E u \in users : u.email = job[r].email
      BY <2>2 DEF TypeOK, Finish, GetByEmail
    <3> QED BY <3>1, <2>1, <1>1 DEF Addresses
  <2>3. CASE (job[r].kind = "register" => GetByEmail(job[r].email) = {}) /\ Go(r, "flushed")
    <3>1. answer' = answer
      BY <2>3 DEF Go
    <3>2. job[r].kind = "register" =>
            /\ \A u \in users : u.email # job[r].email
            /\ \A q \in Req : pc[q] = "flushed" /\ job[q].kind = "register" =>
                 job[q].email # job[r].email
      BY <2>3, <1>1 DEF GetByEmail, Contend
    <3> QED BY <3>1, <3>2, <2>1, <1>1 DEF Addresses
  <2> QED BY <1>2, <2>2, <2>3
<1> QED BY <1>1, <1>3, <1>4, MoveInv

\* An answer changes no row and no token.
LEMMA RespondInv ==
  ASSUME IInv, NEW r \in Req, Respond(r)
  PROVE  IInv'
<1> USE DEF IInv
<1>1. /\ pc[r] = "stored" /\ UNCHANGED <<users, tokens, expired, job, token, before>>
      /\ \E a \in {"created", "updated", "lost"} : Finish(r, a)
  BY DEF Respond
<1>2. Moves(r)
  BY <1>1 DEF Moves
<1>3. Addresses'
  <2>1. /\ \A q \in Req : pc'[q] = "flushed" => pc[q] = "flushed"
        /\ \A q \in Req : answer'[q] \in {"conflict", "raced"} => answer'[q] = answer[q]
    BY <1>1 DEF TypeOK, Finish
  <2> QED BY <1>1, <2>1 DEF Addresses
<1> QED BY <1>1, <1>2, <1>3, MoveInv

\* A failure ends a request that has committed nothing.
LEMMA FailInv ==
  ASSUME IInv, NEW r \in Req, Fail(r)
  PROVE  IInv'
<1> USE DEF IInv
<1>1. /\ pc[r] \in {"checked", "flushed", "stored"}
      /\ UNCHANGED <<users, tokens, expired, job, token, before>>
      /\ Finish(r, IF pc[r] = "stored" THEN "lost" ELSE "failed")
  BY DEF Fail
<1>2. Moves(r)
  BY <1>1 DEF Moves
<1>3. Addresses'
  <2>1. /\ \A q \in Req : pc'[q] = "flushed" => pc[q] = "flushed"
        /\ \A q \in Req : answer'[q] \in {"conflict", "raced"} => answer'[q] = answer[q]
    BY <1>1 DEF TypeOK, Finish
  <2> QED BY <1>1, <2>1 DEF Addresses
<1> QED BY <1>1, <1>2, <1>3, MoveInv

\* An expired token only opens less.
LEMMA ExpireInv ==
  ASSUME IInv, NEW k \in tokens, Expire(k)
  PROVE  IInv'
<1> USE DEF IInv
<1>1. UNCHANGED <<users, tokens, pc, job, token, answer, before>> /\ expired' = expired \cup {k}
  BY DEF Expire
<1>2. TypeOK' /\ Progress' /\ Addresses'
  <2>1. TypeOK'
    BY <1>1 DEF TypeOK
  <2>2. Progress'
    BY <1>1 DEF Progress, Passed, Stored
  <2>3. Addresses'
    BY <1>1 DEF Addresses
  <2> QED BY <2>1, <2>2, <2>3
<1>3. Rows' /\ Links' /\ Hashes' /\ Fits' /\ Inherits'
  <2>1. /\ \A q \in Req : Stored(q)' <=> Stored(q)
        /\ \A q \in Req : Passed(q)' => Passed(q)
        /\ \A q \in Req : pc[q] = "done" => pc'[q] = "done"
    BY <1>1 DEF Passed, Stored
  <2> QED BY <1>1, <2>1, Frame
<1> QED BY <1>2, <1>3

\* The invariant is about the variables alone.
LEMMA StutterInv ==
  ASSUME IInv, UNCHANGED vars
  PROVE  IInv'
<1> USE DEF IInv, vars
<1>1. TypeOK' /\ Progress' /\ Addresses'
  <2>1. TypeOK'
    BY DEF TypeOK
  <2>2. Progress'
    BY DEF Progress, Passed, Stored
  <2>3. Addresses'
    BY DEF Addresses
  <2> QED BY <2>1, <2>2, <2>3
<1>2. Rows' /\ Links' /\ Hashes' /\ Fits' /\ Inherits'
  <2>1. /\ \A q \in Req : Stored(q)' <=> Stored(q)
        /\ \A q \in Req : Passed(q)' => Passed(q)
        /\ \A q \in Req : pc[q] = "done" => pc'[q] = "done"
    BY DEF Passed, Stored
  <2> QED BY <2>1, Frame
<1> QED BY <1>1, <1>2

(* A commit: the request was flushed, and is stored from now on.           *)
LEMMA CommitLemma ==
  ASSUME IInv, NEW r \in Req, pc[r] = "flushed", Go(r, "stored"),
         UNCHANGED <<tokens, expired, job, token, before>>, users' \subseteq User
  PROVE  /\ ~Stored(r) /\ Stored(r)' /\ \A q \in Req \ {r} : Stored(q)' <=> Stored(q)
         /\ Passed(r) /\ \A q \in Req : Passed(q)' => Passed(q)
         /\ \A q \in Req : pc[q] = "done" => pc'[q] = "done"
         /\ \A q \in Req : pc'[q] = "flushed" => q # r /\ pc[q] = "flushed"
         /\ TypeOK' /\ Progress' /\ Inherits'
<1> USE DEF IInv
<1>1. answer[r] = "none" /\ ~Stored(r) /\ Passed(r)
  BY DEF Progress, Stored, Passed
<1>2. pc'[r] = "stored" /\ answer' = answer /\ \A q \in Req \ {r} : pc'[q] = pc[q]
  BY DEF TypeOK, Go
<1>3. Stored(r)' /\ \A q \in Req \ {r} : Stored(q)' <=> Stored(q)
  BY <1>2 DEF Stored
<1>4. \A q \in Req : Passed(q)' => Passed(q)
  BY <1>1, <1>2 DEF Passed, Stored
<1>5. TypeOK'
  BY DEF TypeOK, Go
<1>6. Progress'
  <2>1. ASSUME NEW q \in Req
        PROVE  /\ pc'[q] # "done" => answer'[q] = "none"
               /\ Passed(q)' => job'[q].kind \in {"register", "reset"}
               /\ \A x \in before'[q] : Stored(x)'
    <3>1. pc'[q] # "done" => answer'[q] = "none"
      BY <1>1, <1>2 DEF Progress
    <3>2. Passed(q)' => job'[q].kind \in {"register", "reset"}
      BY <1>4 DEF Progress
    <3>3. \A x \in before'[q] : x \in Req /\ Stored(x)
      BY DEF Progress, TypeOK
    <3> QED BY <3>1, <3>2, <3>3, <1>3
  <2> QED BY <2>1 DEF Progress
<1>7. Inherits'
  BY <1>4 DEF Inherits
<1> QED BY <1>1, <1>2, <1>3, <1>4, <1>5, <1>6, <1>7

\* A registration commits a row of its own, under an address no other request has flushed.
LEMMA CommitRegisterInv ==
  ASSUME IInv, NEW r \in Req, CommitRegister(r)
  PROVE  IInv'
<1> USE DEF IInv
<1> DEFINE new == [id |-> r, email |-> job[r].email, hashed_password |-> HashPassword(r)]
<1>1. /\ pc[r] = "flushed" /\ job[r].kind = "register" /\ Go(r, "stored")
      /\ users' = users \cup {new}
      /\ UNCHANGED <<tokens, expired, job, token, before>>
  BY DEF CommitRegister, Is
<1>2. /\ new.id = r /\ new.email = job[r].email
      /\ new.hashed_password.password = job[r].password /\ new.hashed_password.salt = r
  BY DEF HashPassword
<1>3. new \in User
  BY DEF TypeOK, User, Job, Hash, HashPassword
<1> HIDE DEF new
<1>4. users' \subseteq User
  BY <1>1, <1>3 DEF TypeOK
<1>5. /\ ~Stored(r) /\ Stored(r)' /\ \A q \in Req \ {r} : Stored(q)' <=> Stored(q)
      /\ Passed(r) /\ \A q \in Req : Passed(q)' => Passed(q)
      /\ \A q \in Req : pc[q] = "done" => pc'[q] = "done"
      /\ \A q \in Req : pc'[q] = "flushed" => q # r /\ pc[q] = "flushed"
      /\ TypeOK' /\ Progress' /\ Inherits'
  BY <1>1, <1>4, CommitLemma
<1>6. \A u \in users : u.id \in Req /\ u.id # r
  <2>1. \A u \in users : Stored(u.id)
    BY DEF Rows
  <2>2. \A u \in users : u.id \in Req
    BY DEF TypeOK, User
  <2> QED
    BY <1>5, <2>1, <2>2
<1>7. Rows'
  <2>1. \A u \in users' : Stored(u.id)' /\ job'[u.id].kind = "register" /\ u.email = job'[u.id].email
    BY <1>1, <1>2, <1>5, <1>6 DEF Rows
  <2>2. \A u, v \in users' : u.id = v.id => u = v
    BY <1>1, <1>2, <1>6 DEF Rows
  <2>3. \A q \in Req : Stored(q)' /\ job'[q].kind = "register" => \E u \in users' : u.id = q
    BY <1>1, <1>2, <1>5 DEF Rows
  <2> QED BY <2>1, <2>2, <2>3 DEF Rows
<1>8. Addresses'
  <2>1. \A u \in users : u.email # job[r].email
    BY <1>1 DEF Addresses
  <2>2. \A u, v \in users' : u.email = v.email => u = v
    BY <2>1, <1>1, <1>2 DEF Addresses
  <2>3. \A q \in Req : pc'[q] = "flushed" /\ job'[q].kind = "register" =>
          \A u \in users' : u.email # job'[q].email
    BY <1>1, <1>2, <1>5 DEF Addresses
  <2>4. \A q, x \in Req :
          /\ pc'[q] = "flushed" /\ job'[q].kind = "register"
          /\ pc'[x] = "flushed" /\ job'[x].kind = "register"
          /\ job'[q].email = job'[x].email
          => q = x
    BY <1>1, <1>5 DEF Addresses
  <2>5. \A q \in Req : job'[q].kind = "register" /\ answer'[q] \in {"conflict", "raced"} =>
          \E u \in users' : u.email = job'[q].email
    BY <1>1 DEF Addresses, Go
  <2> QED BY <2>2, <2>3, <2>4, <2>5 DEF Addresses
<1>9. Links'
  <2>1. ASSUME NEW k \in tokens
        PROVE  /\ Stored(k.pwd.salt)'
               /\ k.type = "password_reset" =>
                    /\ job[k.by].kind = "forgot" /\ pc'[k.by] = "done"
                    /\ \E u \in users' : u.id = k.user /\ u.email = job[k.by].email
    <3>1. k.pwd.salt \in Req /\ k.by \in Req
      BY DEF TypeOK, Token, Hash
    <3> QED BY <3>1, <1>1, <1>5 DEF Links
  <2> QED BY <2>1, <1>1, <1>5 DEF Links
<1>10. Hashes'
  <2>1. ASSUME NEW u \in users
        PROVE  u.hashed_password.salt \in Req /\ Stored(u.hashed_password.salt)'
    BY <1>5 DEF Hashes, TypeOK, User, Hash
  <2> QED BY <2>1, <1>1, <1>2, <1>5 DEF Hashes
<1>11. Fits'
  <2> SUFFICES ASSUME NEW k \in tokens, NEW u \in users', NEW q \in Req,
                      k.type = "password_reset" /\ k.user = u.id /\ k.pwd = u.hashed_password,
                      job[q].kind = "reset" /\ Stored(q)' /\ \A l \in token[q] : l.user = u.id
               PROVE  q \in before[k.by]
    BY <1>1 DEF Fits
  <2>1. u \in users
    <3>1. \E v \in users : v.id = k.user
      BY DEF Links
    <3> QED BY <3>1, <1>1, <1>2, <1>6
  <2>2. Stored(q)
    BY <1>1, <1>5
  <2> QED BY <2>1, <2>2 DEF Fits
<1> QED BY <1>5, <1>7, <1>8, <1>9, <1>10, <1>11

\* A reset commits a hash of its own: every link to the old hash ceases to fit.
LEMMA CommitResetInv ==
  ASSUME IInv, NEW r \in Req, CommitReset(r)
  PROVE  IInv'
<1> USE DEF IInv
<1> DEFINE put(u) == IF u.id \in TokenUsers(r) THEN [u EXCEPT !.hashed_password = HashPassword(r)] ELSE u
<1>1. /\ pc[r] = "flushed" /\ job[r].kind = "reset" /\ Go(r, "stored")
      /\ users' = {put(u) : u \in users}
      /\ UNCHANGED <<tokens, expired, job, token, before>>
  BY DEF CommitReset, Is
<1>2. Passed(r)
  BY <1>1 DEF Passed
<1>3. PICK own \in tokens : token[r] = {own} /\ own.type = "password_reset"
  BY <1>1, <1>2 DEF Links
<1>4. TokenUsers(r) = {own.user}
  BY <1>3 DEF TokenUsers
<1>5. ASSUME NEW u \in users
      PROVE  /\ put(u) \in User /\ put(u).id = u.id /\ put(u).email = u.email
             /\ u.id = own.user =>
                  /\ put(u).hashed_password.salt = r
                  /\ put(u).hashed_password.password = job[r].password
             /\ u.id # own.user => put(u) = u
  <2>1. u \in User
    BY DEF TypeOK
  <2>2. HashPassword(r) \in Hash /\ HashPassword(r).salt = r /\ HashPassword(r).password = job[r].password
    BY DEF HashPassword, Hash, TypeOK, Job
  <2> QED BY <2>1, <2>2, <1>4 DEF User
<1> HIDE DEF put
<1>6. users' \subseteq User
  BY <1>1, <1>5
<1>7. /\ ~Stored(r) /\ Stored(r)' /\ \A q \in Req \ {r} : Stored(q)' <=> Stored(q)
      /\ Passed(r) /\ \A q \in Req : Passed(q)' => Passed(q)
      /\ \A q \in Req : pc[q] = "done" => pc'[q] = "done"
      /\ \A q \in Req : pc'[q] = "flushed" => q # r /\ pc[q] = "flushed"
      /\ TypeOK' /\ Progress' /\ Inherits'
  BY <1>1, <1>6, CommitLemma
<1>8. Rows'
  <2>1. \A v \in users' : Stored(v.id)' /\ job'[v.id].kind = "register" /\ v.email = job'[v.id].email
    <3>1. ASSUME NEW u \in users
          PROVE  Stored(u.id)' /\ job[u.id].kind = "register" /\ u.email = job[u.id].email
      BY <1>7 DEF Rows, TypeOK, User
    <3> QED BY <3>1, <1>1, <1>5
  <2>2. \A u, v \in users' : u.id = v.id => u = v
    BY <1>1, <1>5 DEF Rows
  <2>3. \A q \in Req : Stored(q)' /\ job'[q].kind = "register" => \E u \in users' : u.id = q
    BY <1>1, <1>5, <1>7 DEF Rows
  <2> QED BY <2>1, <2>2, <2>3 DEF Rows
<1>9. Addresses'
  <2>1. \A u, v \in users' : u.email = v.email => u = v
    BY <1>1, <1>5 DEF Addresses
  <2>2. \A q \in Req : pc'[q] = "flushed" /\ job'[q].kind = "register" =>
          \A u \in users' : u.email # job'[q].email
    BY <1>1, <1>5, <1>7 DEF Addresses
  <2>3. \A q, x \in Req :
          /\ pc'[q] = "flushed" /\ job'[q].kind = "register"
          /\ pc'[x] = "flushed" /\ job'[x].kind = "register"
          /\ job'[q].email = job'[x].email
          => q = x
    BY <1>1, <1>7 DEF Addresses
  <2>4. ASSUME NEW q \in Req, job'[q].kind = "register" /\ answer'[q] \in {"conflict", "raced"}
        PROVE  \E u \in users' : u.email = job'[q].email
    <3>1. PICK u \in users : u.email = job[q].email
      BY <2>4, <1>1 DEF Addresses, Go
    <3>2. put(u) \in users' /\ put(u).email = job'[q].email
      BY <3>1, <1>1, <1>5
    <3> QED BY <3>2
  <2> QED BY <2>1, <2>2, <2>3, <2>4 DEF Addresses
<1>10. Links'
  <2>1. ASSUME NEW k \in tokens
        PROVE  /\ Stored(k.pwd.salt)'
               /\ k.type = "password_reset" =>
                    /\ job[k.by].kind = "forgot" /\ pc'[k.by] = "done"
                    /\ \E u \in users' : u.id = k.user /\ u.email = job[k.by].email
    <3>1. k.pwd.salt \in Req /\ k.by \in Req
      BY DEF TypeOK, Token, Hash
    <3>2. Stored(k.pwd.salt)'
      BY <3>1, <1>7 DEF Links
    <3>3. ASSUME k.type = "password_reset"
          PROVE  /\ job[k.by].kind = "forgot" /\ pc'[k.by] = "done"
                 /\ \E u \in users' : u.id = k.user /\ u.email = job[k.by].email
      <4>1. PICK u \in users : u.id = k.user /\ u.email = job[k.by].email
        BY <3>3 DEF Links
      <4>2. put(u) \in users' /\ put(u).id = k.user /\ put(u).email = job[k.by].email
        BY <4>1, <1>1, <1>5
      <4> QED BY <3>1, <3>3, <4>2, <1>7 DEF Links
    <3> QED BY <3>2, <3>3
  <2> QED BY <2>1, <1>1, <1>7 DEF Links
<1>11. Hashes'
  <2> SUFFICES ASSUME NEW v \in users'
               PROVE  /\ Stored(v.hashed_password.salt)'
                      /\ v.hashed_password.password = job[v.hashed_password.salt].password
                      /\ \/ v.hashed_password.salt = v.id
                         \/ /\ job[v.hashed_password.salt].kind = "reset"
                            /\ \A k \in token[v.hashed_password.salt] : k.user = v.id
    BY <1>1 DEF Hashes
  <2>1. PICK u \in users : v = put(u)
    BY <1>1
  <2>2. CASE u.id = own.user
    <3>1. v.hashed_password.salt = r /\ v.hashed_password.password = job[r].password /\ v.id = own.user
      BY <2>1, <2>2, <1>5
    <3> QED BY <3>1, <1>1, <1>3, <1>7
  <2>3. CASE u.id # own.user
    <3>1. v = u
      BY <2>1, <2>3, <1>5
    <3>2. u.hashed_password.salt \in Req /\ Stored(u.hashed_password.salt)'
      BY <1>7 DEF Hashes, TypeOK, User, Hash
    <3> QED BY <3>1, <3>2 DEF Hashes
  <2> QED BY <2>2, <2>3
<1>12. Fits'
  <2> SUFFICES ASSUME NEW k \in tokens, NEW v \in users', NEW q \in Req,
                      k.type = "password_reset" /\ k.user = v.id /\ k.pwd = v.hashed_password,
                      job[q].kind = "reset" /\ Stored(q)' /\ \A l \in token[q] : l.user = v.id
               PROVE  q \in before[k.by]
    BY <1>1 DEF Fits
  <2>1. PICK u \in users : v = put(u)
    BY <1>1
  <2>2. u.id # own.user
    <3>1. ASSUME u.id = own.user
          PROVE  FALSE
      <4>1. k.pwd.salt = r
        BY <3>1, <2>1, <1>5
      <4> QED BY <4>1, <1>7 DEF Links
    <3> QED BY <3>1
  <2>3. v = u
    BY <2>1, <2>2, <1>5
  <2>4. q # r
    BY <2>2, <2>3, <1>3
  <2>5. Stored(q)
    BY <2>4, <1>7
  <2> QED BY <2>3, <2>5 DEF Fits
<1> QED BY <1>7, <1>8, <1>9, <1>10, <1>11, <1>12

\* Every step keeps the invariant: one lemma per action.
LEMMA NextInv == IInv /\ [Next]_vars => IInv'
<1> SUFFICES ASSUME IInv, [Next]_vars
             PROVE  IInv'
  OBVIOUS
<1>1. ASSUME NEW r \in Req, Serve(r) \/ Fail(r)
      PROVE  IInv'
  BY <1>1, RegisterLooksInv, LoginInv, RefreshInv, ForgotPasswordInv, ResetLooksInv, FlushInv,
     CommitRegisterInv, CommitResetInv, RespondInv, FailInv DEF Serve
<1>2. ASSUME NEW k \in tokens, Expire(k)
      PROVE  IInv'
  BY <1>2, ExpireInv
<1>3. CASE Quiet \/ UNCHANGED vars
  BY <1>3, StutterInv DEF Quiet
<1> QED BY <1>1, <1>2, <1>3 DEF Next

\* The invariant holds in every reachable state.
LEMMA Invariance == Spec => []IInv
  BY InitIInv, NextInv, PTL DEF Spec

(* The types are kept, for any number of requests.                         *)
THEOREM TypeCorrect == Spec => []TypeOK
<1>1. IInv => TypeOK
  BY DEF IInv
<1> QED BY <1>1, Invariance, PTL

(* However registrations race and whatever fails, an address has one       *)
(* account, and nobody but its owner chose its password.                   *)
THEOREM AccountsTrueEver == Spec => []AccountsTrue
<1>1. ASSUME IInv
      PROVE  AccountsTrue
  <2> USE <1>1 DEF IInv
  <2>1. \A u, v \in users : u.email = v.email => u = v
    BY DEF Addresses
  <2>2. ASSUME NEW r \in Req, job[r].kind = "register"
        PROVE  /\ Stored(r) => \E u \in GetById(r) : u.email = job[r].email
               /\ answer[r] \in {"conflict", "raced"} =>
                    GetById(r) = {} /\ GetByEmail(job[r].email) # {}
    <3>1. Stored(r) => \E u \in GetById(r) : u.email = job[r].email
      BY <2>2 DEF Rows, GetById
    <3>2. ASSUME answer[r] \in {"conflict", "raced"}
          PROVE  GetById(r) = {} /\ GetByEmail(job[r].email) # {}
      <4>1. ~Stored(r)
        BY <3>2 DEF Progress, Stored
      <4> QED BY <4>1, <2>2, <3>2 DEF Rows, Addresses, GetById, GetByEmail
    <3> QED BY <3>1, <3>2
  <2>3. ASSUME NEW u \in users, NEW r, r = u.hashed_password.salt
        PROVE  /\ Stored(r) /\ VerifyPassword(job[r].password, u.hashed_password)
               /\ r = u.id \/ \E k \in token[r] :
                    /\ k.type = "password_reset" /\ k.user = u.id
                    /\ job[k.by].kind = "forgot" /\ job[k.by].email = u.email
    <3>1. r \in Req /\ Stored(r) /\ VerifyPassword(job[r].password, u.hashed_password)
      BY <2>3 DEF Hashes, VerifyPassword, TypeOK, User, Hash
    <3>2. ASSUME r # u.id
          PROVE  \E k \in token[r] :
                   /\ k.type = "password_reset" /\ k.user = u.id
                   /\ job[k.by].kind = "forgot" /\ job[k.by].email = u.email
      <4>1. job[r].kind = "reset" /\ \A k \in token[r] : k.user = u.id
        BY <2>3, <3>2 DEF Hashes
      <4>2. Passed(r)
        BY <3>1 DEF Passed
      <4>3. PICK k \in tokens : token[r] = {k} /\ k.type = "password_reset"
        BY <3>1, <4>1, <4>2 DEF Links
      <4>4. PICK v \in users : v.id = k.user /\ v.email = job[k.by].email
        BY <4>3 DEF Links
      <4>5. v = u
        BY <4>1, <4>3, <4>4 DEF Rows
      <4> QED BY <4>1, <4>3, <4>4, <4>5 DEF Links
    <3> QED BY <3>1, <3>2
  <2> QED BY <2>1, <2>2, <2>3 DEF AccountsTrue
<1> QED BY <1>1, Invariance, PTL

(* A link dies with the password it was mailed for, for any number of      *)
(* links, requests and accounts.                                           *)
THEOREM LinksDieWithPasswordEver == Spec => []LinksDieWithPassword
<1>1. ASSUME IInv
      PROVE  LinksDieWithPassword
  <2> SUFFICES ASSUME NEW q \in Req, NEW r \in Req,
                      job[q].kind = "reset" /\ job[r].kind = "reset",
                      Stored(q) /\ Stored(r) /\ TokenUsers(q) = TokenUsers(r),
                      q \in before[r], NEW k \in token[r]
               PROVE  q \in before[k.by]
    BY DEF LinksDieWithPassword
  <2>1. Passed(q) /\ Passed(r)
    BY DEF Passed
  <2>2. PICK l \in token[q] : l.user = k.user
    BY DEF TokenUsers
  <2> QED BY <1>1, <2>1, <2>2 DEF IInv, Inherits
<1> QED BY <1>1, Invariance, PTL
=============================================================================
