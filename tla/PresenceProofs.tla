--------------------------- MODULE PresenceProofs ---------------------------
(***************************************************************************)
(* Proofs about Presence, for every set of connections, users and          *)
(* processes and with every fault enabled.                                 *)
(***************************************************************************)
EXTENDS Presence, FiniteSetTheorems, TLAPS

-----------------------------------------------------------------------------
(* Type correctness.                                                       *)

(* Initially every variable has its type.                                  *)
LEMMA InitTypeOK == Init => TypeOK
<1> USE OwnerAssumption
<1> SUFFICES ASSUME Init PROVE TypeOK
  OBVIOUS
<1>1. published \in Seq(Event)
  BY DEF Init
<1> QED
  BY <1>1 DEF Init, TypeOK, Step

(* What the handlers publish are events.                                   *)
LEMMA EventsTyped ==
  ASSUME NEW c \in Conn
  PROVE  Joined(c) \in Event /\ Left(c) \in Event
BY OwnerAssumption DEF Joined, Left, Event

(* Every action keeps the type invariant.                                  *)
LEMMA NextTypeOK == TypeOK /\ [Next]_vars => TypeOK'
<1> USE OwnerAssumption
<1> SUFFICES ASSUME TypeOK, [Next]_vars PROVE TypeOK'
  OBVIOUS
<1>1. ASSUME NEW c \in Conn, Accept(c) PROVE TypeOK'
  BY <1>1 DEF Accept, Goto, TypeOK, Step
<1>2. ASSUME NEW c \in Conn, Join(c) PROVE TypeOK'
  BY <1>2 DEF Join, Goto, HIncrBy, TypeOK, Step
<1>3. ASSUME NEW c \in Conn, ListOnline(c) PROVE TypeOK'
  BY <1>3 DEF ListOnline, Goto, HKeys, TypeOK, Step
<1>4. ASSUME NEW c \in Conn, SendSnapshot(c) PROVE TypeOK'
  BY <1>4 DEF SendSnapshot, Goto, TypeOK, Step
<1>5. ASSUME NEW c \in Conn, Announce(c) PROVE TypeOK'
  <2>1. published' \in Seq(Event)
    BY <1>5, EventsTyped DEF Announce, TypeOK
  <2> QED
    BY <1>5, <2>1 DEF Announce, Goto, TypeOK, Step
<1>6. ASSUME NEW c \in Conn, Disconnect(c) PROVE TypeOK'
  BY <1>6 DEF Disconnect, Goto, TypeOK, Step
<1>7. ASSUME NEW c \in Conn, Decrement(c) PROVE TypeOK'
  BY <1>7 DEF Decrement, Goto, HIncrBy, TypeOK, Step
<1>8. ASSUME NEW c \in Conn, Delete(c) PROVE TypeOK'
  BY <1>8 DEF Delete, Goto, HDel, TypeOK, Step
<1>9. ASSUME NEW c \in Conn, Farewell(c) PROVE TypeOK'
  <2>1. published' \in Seq(Event)
    BY <1>9, EventsTyped DEF Farewell, TypeOK
  <2> QED
    BY <1>9, <2>1 DEF Farewell, Goto, TypeOK, Step
<1>10. ASSUME NEW c \in Conn, ClientLeaves(c) PROVE TypeOK'
  BY <1>10 DEF ClientLeaves, TypeOK
<1>11. ASSUME NEW c \in Conn, SendFails(c) PROVE TypeOK'
  BY <1>11 DEF SendFails, Goto, TypeOK, Step
<1>12. ASSUME NEW c \in Conn, RedisFails(c) PROVE TypeOK'
  BY <1>12 DEF RedisFails, TypeOK, Step
<1>13. ASSUME NEW i \in Instance, Crash(i) PROVE TypeOK'
  BY <1>13 DEF Crash, TypeOK, Step
<1>14. CASE UNCHANGED vars
  BY <1>14 DEF vars, TypeOK
<1> QED
  BY <1>1, <1>2, <1>3, <1>4, <1>5, <1>6, <1>7, <1>8, <1>9, <1>10, <1>11, <1>12,
     <1>13, <1>14 DEF Next, HandlerStep

(* The variables keep their types.                                         *)
THEOREM TypeCorrect == Spec => []TypeOK
BY InitTypeOK, NextTypeOK, PTL DEF Spec

-----------------------------------------------------------------------------
(* The reference count.                                                    *)

(* A user's holders are finitely many.                                     *)
LEMMA HoldersFinite ==
  ASSUME NEW u
  PROVE  /\ IsFiniteSet(Holders(u))
         /\ Cardinality(Holders(u)) \in Nat
<1>1. Holders(u) \in SUBSET Conn
  BY DEF Holders, ConnsOf
<1>2. IsFiniteSet(Holders(u))
  BY <1>1, ConnAssumption, FS_Subset
<1> QED
  BY <1>2, FS_CardinalityType

(* The same of the next state.                                             *)
LEMMA HoldersFinitePrime ==
  ASSUME NEW u
  PROVE  /\ IsFiniteSet(Holders(u)')
         /\ Cardinality(Holders(u)') \in Nat
<1>1. Holders(u)' \in SUBSET Conn
  BY DEF Holders, ConnsOf
<1>2. IsFiniteSet(Holders(u)')
  BY <1>1, ConnAssumption, FS_Subset
<1> QED
  BY <1>2, FS_CardinalityType

(* A step that leaves u's counter alone and takes nobody out of u's        *)
(* holders keeps the bound.                                                *)
LEMMA BoundKept ==
  ASSUME NEW u \in User, TypeOK, TypeOK',
         refs[u] <= Cardinality(Holders(u)),
         refs'[u] = refs[u],
         Holders(u) \subseteq Holders(u)'
  PROVE  refs'[u] <= Cardinality(Holders(u)')
<1>1. Cardinality(Holders(u)) <= Cardinality(Holders(u)')
  BY HoldersFinitePrime, FS_Subset
<1> QED
  BY <1>1, HoldersFinite, HoldersFinitePrime DEF TypeOK

(* Initially nothing is counted.                                           *)
LEMMA InitNeverOvercounted == Init => NeverOvercounted
<1> SUFFICES ASSUME Init, NEW u \in User PROVE refs[u] <= Cardinality(Holders(u))
  BY DEF NeverOvercounted
<1>1. refs[u] = 0
  BY DEF Init
<1> QED
  BY <1>1, HoldersFinite

(* The counter moves by one with the join or the leave of a holder, and    *)
(* can only be reset to zero otherwise.                                    *)
LEMMA NextNeverOvercounted ==
  TypeOK /\ NeverOvercounted /\ [Next]_vars => NeverOvercounted'
<1> USE OwnerAssumption
<1> SUFFICES ASSUME TypeOK, NeverOvercounted, [Next]_vars, NEW u \in User
             PROVE  refs'[u] <= Cardinality(Holders(u)')
  BY DEF NeverOvercounted
<1>t. TypeOK'
  BY NextTypeOK
<1>b. refs[u] <= Cardinality(Holders(u))
  BY DEF NeverOvercounted
<1>1. ASSUME NEW c \in Conn, Accept(c) PROVE refs'[u] <= Cardinality(Holders(u)')
  <2>1. Holders(u) \subseteq Holders(u)'
    BY <1>1 DEF Accept, Goto, Holders, Holding, ConnsOf, TypeOK
  <2> QED
    BY <1>1, <1>t, <1>b, <2>1, BoundKept DEF Accept
<1>2. ASSUME NEW c \in Conn, Join(c) PROVE refs'[u] <= Cardinality(Holders(u)')
  <2>1. CASE Owner[c] = u
    <3>1. Holders(u)' = Holders(u) \cup {c} /\ c \notin Holders(u)
      BY <1>2, <2>1 DEF Join, Goto, Holders, Holding, ConnsOf, TypeOK
    <3>2. Cardinality(Holders(u)') = Cardinality(Holders(u)) + 1
      BY <3>1, HoldersFinite, FS_AddElement
    <3>3. refs'[u] = refs[u] + 1
      BY <1>2, <2>1 DEF Join, HIncrBy, TypeOK
    <3> QED
      BY <3>2, <3>3, <1>b, HoldersFinite DEF TypeOK
  <2>2. CASE Owner[c] # u
    <3>1. Holders(u) \subseteq Holders(u)'
      BY <1>2, <2>2 DEF Join, Goto, Holders, Holding, ConnsOf, TypeOK
    <3>2. refs'[u] = refs[u]
      BY <1>2, <2>2 DEF Join, HIncrBy, TypeOK
    <3> QED
      BY <3>1, <3>2, <1>t, <1>b, BoundKept
  <2> QED
    BY <2>1, <2>2
<1>3. ASSUME NEW c \in Conn, Decrement(c) PROVE refs'[u] <= Cardinality(Holders(u)')
  <2>1. CASE Owner[c] = u
    <3>1. Holders(u)' = Holders(u) \ {c} /\ c \in Holders(u)
      BY <1>3, <2>1 DEF Decrement, Goto, Holders, Holding, ConnsOf, TypeOK
    <3>2. Cardinality(Holders(u)') = Cardinality(Holders(u)) - 1
      BY <3>1, HoldersFinite, FS_RemoveElement
    <3>3. refs'[u] = refs[u] - 1
      BY <1>3, <2>1 DEF Decrement, HIncrBy, TypeOK
    <3> QED
      BY <3>2, <3>3, <1>b, HoldersFinite DEF TypeOK
  <2>2. CASE Owner[c] # u
    <3>1. Holders(u) \subseteq Holders(u)'
      BY <1>3, <2>2 DEF Decrement, Goto, Holders, Holding, ConnsOf, TypeOK
    <3>2. refs'[u] = refs[u]
      BY <1>3, <2>2 DEF Decrement, HIncrBy, TypeOK
    <3> QED
      BY <3>1, <3>2, <1>t, <1>b, BoundKept
  <2> QED
    BY <2>1, <2>2
<1>4. ASSUME NEW c \in Conn, Delete(c) PROVE refs'[u] <= Cardinality(Holders(u)')
  <2>1. CASE Owner[c] = u
    <3>1. refs'[u] = 0
      BY <1>4, <2>1 DEF Delete, HDel, TypeOK
    <3> QED
      BY <3>1, HoldersFinitePrime
  <2>2. CASE Owner[c] # u
    <3>1. Holders(u) \subseteq Holders(u)'
      BY <1>4, <2>2 DEF Delete, Goto, Holders, Holding, ConnsOf, TypeOK
    <3>2. refs'[u] = refs[u]
      BY <1>4, <2>2 DEF Delete, HDel, TypeOK
    <3> QED
      BY <3>1, <3>2, <1>t, <1>b, BoundKept
  <2> QED
    BY <2>1, <2>2
<1>5. ASSUME NEW c \in Conn,
             ListOnline(c) \/ SendSnapshot(c) \/ Announce(c) \/ Disconnect(c) \/ Farewell(c)
      PROVE  refs'[u] <= Cardinality(Holders(u)')
  <2>1. Holders(u) \subseteq Holders(u)'
    BY <1>5 DEF ListOnline, SendSnapshot, Announce, Disconnect, Farewell,
                Goto, Holders, Holding, ConnsOf, TypeOK
  <2>2. refs' = refs
    BY <1>5 DEF ListOnline, SendSnapshot, Announce, Disconnect, Farewell
  <2> QED
    BY <1>t, <1>b, <2>1, <2>2, BoundKept
<1>6. ASSUME NEW c \in Conn, ClientLeaves(c) \/ SendFails(c) \/ RedisFails(c)
      PROVE  refs'[u] <= Cardinality(Holders(u)')
  <2>1. Holders(u) \subseteq Holders(u)'
    BY <1>6 DEF ClientLeaves, SendFails, RedisFails, Goto, Holders, Holding, ConnsOf, TypeOK
  <2>2. refs' = refs
    BY <1>6 DEF ClientLeaves, SendFails, RedisFails
  <2> QED
    BY <1>t, <1>b, <2>1, <2>2, BoundKept
<1>7. ASSUME NEW i \in Instance, Crash(i) PROVE refs'[u] <= Cardinality(Holders(u)')
  <2>1. Holders(u) \subseteq Holders(u)'
    BY <1>7 DEF Crash, Holders, Holding, ConnsOf, TypeOK
  <2> QED
    BY <1>7, <1>t, <1>b, <2>1, BoundKept DEF Crash
<1>8. CASE UNCHANGED vars
  <2>1. Holders(u) \subseteq Holders(u)'
    BY <1>8 DEF vars, Holders, Holding, ConnsOf
  <2> QED
    BY <1>8, <1>t, <1>b, <2>1, BoundKept DEF vars
<1> QED
  BY <1>1, <1>2, <1>3, <1>4, <1>5, <1>6, <1>7, <1>8 DEF Next, HandlerStep

(* presence.join and presence.leave never count more connections than      *)
(* there are, for any number of tabs, processes and failures.              *)
THEOREM CountBounded == Spec => []NeverOvercounted
BY InitNeverOvercounted, NextNeverOvercounted, TypeCorrect, PTL DEF Spec

-----------------------------------------------------------------------------
(* No ghosts.                                                              *)

(* NoGhost is not inductive: it forgets the values.  What is inductive is  *)
(* that a missing field counts zero and that a field at or below zero has  *)
(* a delete on its way, or one that died on its way.                       *)
FieldsInv ==
  \A u \in User :
    /\ u \notin fields => refs[u] = 0
    /\ u \in fields /\ refs[u] <= 0 =>
         \E c \in ConnsOf(u) : pc[c] \in {"deleting", "dead"}

(* A field is created by a join, deleted by a delete, and otherwise kept   *)
(* by the handler that has yet to leave: every step keeps FieldsInv.       *)
LEMMA NextFieldsInv == TypeOK /\ FieldsInv /\ [Next]_vars => FieldsInv'
<1> USE OwnerAssumption
<1> SUFFICES ASSUME TypeOK, FieldsInv, [Next]_vars, NEW u \in User
             PROVE  /\ u \notin fields' => refs'[u] = 0
                    /\ u \in fields' /\ refs'[u] <= 0 =>
                         \E c \in ConnsOf(u) : pc'[c] \in {"deleting", "dead"}
  BY DEF FieldsInv, ConnsOf
<1> DEFINE Pending  == \E c \in ConnsOf(u) : pc[c] \in {"deleting", "dead"}
           Pending2 == \E c \in ConnsOf(u) : pc'[c] \in {"deleting", "dead"}
<1>i. /\ u \notin fields => refs[u] = 0
      /\ u \in fields /\ refs[u] <= 0 => Pending
  BY DEF FieldsInv
<1> HIDE DEF Pending, Pending2
(* Steps that touch neither the hash nor a pending delete.                 *)
<1>k. ASSUME fields' = fields, refs' = refs, Pending => Pending2
      PROVE  /\ u \notin fields' => refs'[u] = 0
             /\ u \in fields' /\ refs'[u] <= 0 => Pending2
  BY <1>i, <1>k
<1>1. ASSUME NEW c \in Conn,
             \/ Accept(c) \/ ListOnline(c) \/ SendSnapshot(c) \/ Announce(c)
             \/ Disconnect(c) \/ Farewell(c)
      PROVE  /\ u \notin fields' => refs'[u] = 0
             /\ u \in fields' /\ refs'[u] <= 0 => Pending2
  <2>1. Pending => Pending2
    BY <1>1 DEF Accept, ListOnline, SendSnapshot, Announce, Disconnect, Farewell, Goto,
                ConnsOf, TypeOK, Pending, Pending2
  <2>2. fields' = fields /\ refs' = refs
    BY <1>1 DEF Accept, ListOnline, SendSnapshot, Announce, Disconnect, Farewell
  <2> QED
    BY <1>k, <2>1, <2>2
<1>2. ASSUME NEW c \in Conn, Join(c)
      PROVE  /\ u \notin fields' => refs'[u] = 0
             /\ u \in fields' /\ refs'[u] <= 0 => Pending2
  <2>1. Pending => Pending2
    BY <1>2 DEF Join, Goto, ConnsOf, TypeOK, Pending, Pending2
  <2> QED
    BY <1>2, <1>i, <2>1 DEF Join, HIncrBy, TypeOK
<1>3. ASSUME NEW c \in Conn, Decrement(c)
      PROVE  /\ u \notin fields' => refs'[u] = 0
             /\ u \in fields' /\ refs'[u] <= 0 => Pending2
  <2>1. CASE Owner[c] = u
    <3>1. u \in fields' /\ refs'[u] = refs[u] - 1
      BY <1>3, <2>1 DEF Decrement, HIncrBy, TypeOK
    <3>2. refs'[u] <= 0 => pc'[c] = "deleting"
      BY <1>3, <2>1, <3>1 DEF Decrement, Goto, TypeOK
    <3> QED
      BY <2>1, <3>1, <3>2 DEF ConnsOf, Pending2
  <2>2. CASE Owner[c] # u
    <3>1. Pending => Pending2
      BY <1>3 DEF Decrement, Goto, ConnsOf, TypeOK, Pending, Pending2
    <3>2. (u \in fields' <=> u \in fields) /\ refs'[u] = refs[u]
      BY <1>3, <2>2 DEF Decrement, HIncrBy, TypeOK
    <3> QED
      BY <3>1, <3>2, <1>i
  <2> QED
    BY <2>1, <2>2
<1>4. ASSUME NEW c \in Conn, Delete(c)
      PROVE  /\ u \notin fields' => refs'[u] = 0
             /\ u \in fields' /\ refs'[u] <= 0 => Pending2
  <2>1. CASE Owner[c] = u
    BY <1>4, <2>1 DEF Delete, HDel, TypeOK
  <2>2. CASE Owner[c] # u
    <3>1. Pending => Pending2
      BY <1>4, <2>2 DEF Delete, Goto, ConnsOf, TypeOK, Pending, Pending2
    <3>2. (u \in fields' <=> u \in fields) /\ refs'[u] = refs[u]
      BY <1>4, <2>2 DEF Delete, HDel, TypeOK
    <3> QED
      BY <3>1, <3>2, <1>i
  <2> QED
    BY <2>1, <2>2
<1>5. ASSUME NEW c \in Conn, ClientLeaves(c) \/ SendFails(c) \/ RedisFails(c)
      PROVE  /\ u \notin fields' => refs'[u] = 0
             /\ u \in fields' /\ refs'[u] <= 0 => Pending2
  <2>1. Pending => Pending2
    BY <1>5 DEF ClientLeaves, SendFails, RedisFails, Goto, ConnsOf, TypeOK, Pending, Pending2
  <2>2. fields' = fields /\ refs' = refs
    BY <1>5 DEF ClientLeaves, SendFails, RedisFails
  <2> QED
    BY <1>k, <2>1, <2>2
<1>6. ASSUME NEW i \in Instance, Crash(i)
      PROVE  /\ u \notin fields' => refs'[u] = 0
             /\ u \in fields' /\ refs'[u] <= 0 => Pending2
  <2>1. Pending => Pending2
    BY <1>6 DEF Crash, ConnsOf, TypeOK, Pending, Pending2
  <2>2. fields' = fields /\ refs' = refs
    BY <1>6 DEF Crash
  <2> QED
    BY <1>k, <2>1, <2>2
<1>7. CASE UNCHANGED vars
  BY <1>7, <1>i DEF vars, Pending, Pending2
<1> QED
  BY <1>1, <1>2, <1>3, <1>4, <1>5, <1>6, <1>7 DEF Next, HandlerStep, Pending2

(* Initially the hash is empty.                                            *)
LEMMA InitFieldsInv == Init => FieldsInv
BY DEF Init, FieldsInv

(* FieldsInv holds throughout: a user is in the hash exactly while the     *)
(* counter is worth keeping, or a leave or a death explains it.            *)
THEOREM FieldsCorrect == Spec => []FieldsInv
BY InitFieldsInv, NextFieldsInv, TypeCorrect, PTL DEF Spec

(* A positive count has a holder behind it.                                *)
LEMMA PositiveHasHolder ==
  ASSUME NEW u \in User, TypeOK, NeverOvercounted, refs[u] > 0
  PROVE  \E c \in ConnsOf(u) : pc[c] \in Holding \cup {"dead"}
<1>1. Cardinality(Holders(u)) >= 1
  BY HoldersFinite DEF TypeOK, NeverOvercounted
<1>2. Holders(u) # {}
  BY <1>1, FS_EmptySet
<1> QED
  BY <1>2 DEF Holders

(* The two invariants together leave no ghost.                             *)
LEMMA NoGhostHolds ==
  ASSUME TypeOK, NeverOvercounted, FieldsInv
  PROVE  NoGhost
<1> SUFFICES ASSUME NEW u \in fields
             PROVE  \E c \in ConnsOf(u) : pc[c] \in Holding \cup {"deleting", "dead"}
  BY DEF NoGhost
<1>1. u \in User /\ refs[u] \in Int
  BY DEF TypeOK
<1>2. CASE refs[u] > 0
  BY <1>1, <1>2, PositiveHasHolder
<1>3. CASE refs[u] <= 0
  BY <1>1, <1>3 DEF FieldsInv
<1> QED
  BY <1>1, <1>2, <1>3

(* A user stays in the presence hash only because of a connection still    *)
(* counted, a delete under way, or a handler that died.                    *)
THEOREM NoGhostEver == Spec => []NoGhost
BY NoGhostHolds, TypeCorrect, CountBounded, FieldsCorrect, PTL

-----------------------------------------------------------------------------
(* No stale join.                                                          *)

(* An event about another user leaves u's last event what it was.          *)
LEMMA AppendOther ==
  ASSUME NEW u \in User, NEW e \in Event, e.user # u, TypeOK,
         published' = Append(published, e), JoinStands(u)'
  PROVE  JoinStands(u)
<1> USE DEF Event
<1>1. PICK i \in 1..Len(published') :
        /\ published'[i].type = "presence_joined"
        /\ published'[i].user = u
        /\ \A j \in i+1..Len(published') : published'[j].user # u
  BY DEF JoinStands
<1>2. Len(published') = Len(published) + 1 /\ published'[Len(published) + 1] = e
  BY DEF TypeOK
<1>3. \A j \in 1..Len(published) : published'[j] = published[j]
  BY DEF TypeOK
<1>n. Len(published) \in Nat
  BY DEF TypeOK
<1>4. i \in 1..Len(published)
  BY <1>1, <1>2, <1>n
<1>5. published[i].type = "presence_joined" /\ published[i].user = u
  BY <1>1, <1>3, <1>4
<1>6. ASSUME NEW j \in i+1..Len(published) PROVE published[j].user # u
  <2>1. j \in i+1..Len(published') /\ j \in 1..Len(published)
    BY <1>2, <1>4, <1>n
  <2> QED
    BY <1>1, <1>3, <2>1
<1> QED
  BY <1>4, <1>5, <1>6 DEF JoinStands

(* After u's departure is published, no join of u stands.                  *)
LEMMA AppendLeft ==
  ASSUME NEW c \in Conn, TypeOK, published' = Append(published, Left(c))
  PROVE  ~JoinStands(Owner[c])'
<1> SUFFICES ASSUME NEW i \in 1..Len(published'),
                    published'[i].type = "presence_joined",
                    \A j \in i+1..Len(published') : published'[j].user # Owner[c]
             PROVE  FALSE
  BY DEF JoinStands
<1>1. Len(published') = Len(published) + 1 /\ published'[Len(published) + 1] = Left(c)
  BY EventsTyped DEF TypeOK
<1>2. i # Len(published')
  BY <1>1 DEF Left
<1>3. Len(published') \in i+1..Len(published')
  BY <1>1, <1>2 DEF TypeOK
<1> QED
  BY <1>1, <1>3 DEF Left

(* A join is published by a handler that has yet to leave, and the last    *)
(* one to leave publishes the departure: every step keeps NoStaleJoin.     *)
LEMMA NextNoStaleJoin ==
  TypeOK /\ NeverOvercounted /\ NoStaleJoin /\ [Next]_vars => NoStaleJoin'
<1> USE OwnerAssumption
<1> DEFINE Live == Holding \cup {"deleting", "farewell", "dead"}
<1> SUFFICES ASSUME TypeOK, NeverOvercounted, NoStaleJoin, [Next]_vars,
                    NEW u \in User, JoinStands(u)'
             PROVE  \E c \in ConnsOf(u) : pc'[c] \in Live
  BY DEF NoStaleJoin, ConnsOf
<1>t. TypeOK' /\ NeverOvercounted'
  BY NextTypeOK, NextNeverOvercounted
<1>i. JoinStands(u) => \E c \in ConnsOf(u) : pc[c] \in Live
  BY DEF NoStaleJoin
(* Steps that publish nothing and take nobody out of Live.                 *)
<1>k. ASSUME published' = published,
             \A c \in ConnsOf(u) : pc[c] \in Live => pc'[c] \in Live
      PROVE  \E c \in ConnsOf(u) : pc'[c] \in Live
  <2>1. JoinStands(u)
    BY <1>k DEF JoinStands
  <2> QED
    BY <1>i, <1>k, <2>1
<1>1. ASSUME NEW c \in Conn,
             \/ Accept(c) \/ Join(c) \/ ListOnline(c) \/ SendSnapshot(c)
             \/ Disconnect(c) \/ Delete(c)
      PROVE  \E d \in ConnsOf(u) : pc'[d] \in Live
  <2>1. published' = published
    BY <1>1 DEF Accept, Join, ListOnline, SendSnapshot, Disconnect, Delete
  <2>2. \A d \in ConnsOf(u) : pc[d] \in Live => pc'[d] \in Live
    BY <1>1 DEF Accept, Join, ListOnline, SendSnapshot, Disconnect, Delete, Goto, ConnsOf,
                Holding, TypeOK
  <2> QED
    BY <1>k, <2>1, <2>2
<1>2. ASSUME NEW c \in Conn, Announce(c) PROVE \E d \in ConnsOf(u) : pc'[d] \in Live
  <2>1. CASE Owner[c] = u
    BY <1>2, <2>1 DEF Announce, Goto, ConnsOf, Holding, TypeOK
  <2>2. CASE Owner[c] # u
    <3>1. JoinStands(u)
      <4>1. CASE published' = published
        BY <4>1 DEF JoinStands
      <4>2. CASE published' = Append(published, Joined(c))
        BY <2>2, <4>2, EventsTyped, AppendOther DEF Joined
      <4> QED
        BY <1>2, <4>1, <4>2 DEF Announce
    <3> QED
      BY <1>2, <1>i, <3>1 DEF Announce, Goto, ConnsOf, Holding, TypeOK
  <2> QED
    BY <2>1, <2>2
<1>3. ASSUME NEW c \in Conn, Decrement(c) PROVE \E d \in ConnsOf(u) : pc'[d] \in Live
  <2>p. published' = published
    BY <1>3 DEF Decrement
  <2>1. CASE Owner[c] = u /\ refs'[u] > 0
    <3>1. \E d \in Holders(u)' : TRUE
      <4>1. Cardinality(Holders(u)') >= 1
        BY <1>t, <2>1, HoldersFinitePrime DEF TypeOK, NeverOvercounted
      <4>2. Cardinality({}) = 0
        BY FS_EmptySet
      <4>3. Holders(u)' # {}
        BY <4>1, <4>2
      <4> QED
        BY <4>3
    <3> QED
      BY <3>1 DEF Holders, ConnsOf
  <2>2. CASE Owner[c] = u /\ ~(refs'[u] > 0)
    <3>1. refs'[u] = refs[u] - 1
      BY <1>3, <2>2 DEF Decrement, HIncrBy, TypeOK
    <3>2. pc'[c] = "deleting"
      BY <1>3, <2>2, <3>1 DEF Decrement, Goto, TypeOK
    <3> QED
      BY <2>2, <3>2 DEF ConnsOf
  <2>3. CASE Owner[c] # u
    <3>1. \A d \in ConnsOf(u) : pc'[d] = pc[d]
      BY <1>3, <2>3 DEF Decrement, Goto, ConnsOf, TypeOK
    <3> QED
      BY <1>k, <2>p, <3>1
  <2> QED
    BY <2>1, <2>2, <2>3
<1>4. ASSUME NEW c \in Conn, Farewell(c) PROVE \E d \in ConnsOf(u) : pc'[d] \in Live
  <2>1. published' = Append(published, Left(c))
    BY <1>4 DEF Farewell
  <2>2. Owner[c] # u
    BY <2>1, AppendLeft
  <2>3. JoinStands(u)
    BY <2>1, <2>2, EventsTyped, AppendOther DEF Left
  <2> QED
    BY <1>4, <1>i, <2>2, <2>3 DEF Farewell, Goto, ConnsOf, Holding, TypeOK
<1>5. ASSUME NEW c \in Conn, ClientLeaves(c) \/ SendFails(c) \/ RedisFails(c)
      PROVE  \E d \in ConnsOf(u) : pc'[d] \in Live
  <2>1. published' = published
    BY <1>5 DEF ClientLeaves, SendFails, RedisFails
  <2>2. \A d \in ConnsOf(u) : pc[d] \in Live => pc'[d] \in Live
    BY <1>5 DEF ClientLeaves, SendFails, RedisFails, Goto, ConnsOf, Holding, TypeOK
  <2> QED
    BY <1>k, <2>1, <2>2
<1>6. ASSUME NEW i \in Instance, Crash(i) PROVE \E d \in ConnsOf(u) : pc'[d] \in Live
  <2>1. \A d \in ConnsOf(u) : pc[d] \in Live => pc'[d] \in Live
    BY <1>6 DEF Crash, ConnsOf, TypeOK
  <2> QED
    BY <1>6, <1>k, <2>1 DEF Crash
<1>7. CASE UNCHANGED vars
  BY <1>7, <1>k DEF vars
<1> QED
  BY <1>1, <1>2, <1>3, <1>4, <1>5, <1>6, <1>7 DEF Next, HandlerStep

(* Initially nothing is published.                                         *)
LEMMA InitNoStaleJoin == Init => NoStaleJoin
BY DEF Init, NoStaleJoin, JoinStands

(* However the handlers of a user's tabs interleave, the join they         *)
(* announce is answered by a later leave once none of them is left.        *)
THEOREM NoStaleJoinEver == Spec => []NoStaleJoin
BY InitNoStaleJoin, NextNoStaleJoin, TypeCorrect, CountBounded, PTL DEF Spec

-----------------------------------------------------------------------------
(* Everyone goes offline.  A handler whose client is gone runs through its *)
(* steps, one after the other and never back; when all of a user's         *)
(* handlers are through, NoGhost says that the field is gone.              *)

Moving == {"joining", "listing", "greeting", "announcing", "open", "leaving", "deleting", "farewell"}

After(s) ==
  CASE s = "joining"    -> {"listing"}
    [] s = "listing"    -> {"greeting"}
    [] s = "greeting"   -> {"announcing"}
    [] s = "announcing" -> {"open"}
    [] s = "open"       -> {"leaving"}
    [] s = "leaving"    -> {"deleting", "closed"}
    [] s = "deleting"   -> {"farewell"}
    [] s = "farewell"   -> {"closed"}

At(c, s)   == pc[c] = s
Beyond(c, s) == pc[c] \in After(s)
StageEnds(c, u, s) == []([]Leaving(u) /\ At(c, s) => <>Beyond(c, s))
Follows(c, u) == AllLeave(u) => GetsThrough(c)

\* The step of a handler leads to the next one.
LEMMA HandlerPath ==
  ASSUME NEW c \in Conn, NEW s \in Moving, TypeOK, HandlerStep(c), At(c, s)
  PROVE  Beyond(c, s)'
BY DEF TypeOK, Moving, At, Beyond, After, HandlerStep, Join, ListOnline, SendSnapshot, Announce, Disconnect,
   Decrement, Delete, Farewell, Goto

\* Whatever else happens, a handler stays where it is, starts, takes its step, or dies.
LEMMA HandlersKeep ==
  ASSUME NEW c \in Conn, TypeOK, [Next]_vars
  PROVE  pc'[c] = pc[c] \/ (pc[c] = "idle" /\ pc'[c] = "joining") \/ HandlerStep(c) \/ pc'[c] = "dead"
<1> USE DEF TypeOK
<1>1. ASSUME NEW d \in Conn, Accept(d)
      PROVE  pc'[c] = pc[c] \/ (pc[c] = "idle" /\ pc'[c] = "joining")
  BY <1>1 DEF Accept, Goto
<1>2. ASSUME NEW d \in Conn, HandlerStep(d)
      PROVE  pc'[c] = pc[c] \/ HandlerStep(c)
  BY <1>2 DEF HandlerStep, Join, ListOnline, SendSnapshot, Announce, Disconnect, Decrement, Delete,
     Farewell, Goto
<1>3. ASSUME NEW d \in Conn, ClientLeaves(d) \/ SendFails(d) \/ RedisFails(d)
      PROVE  pc'[c] = pc[c] \/ pc'[c] = "dead"
  BY <1>3 DEF ClientLeaves, SendFails, RedisFails, Goto
<1>4. ASSUME NEW i \in Instance, Crash(i)
      PROVE  pc'[c] = pc[c] \/ pc'[c] = "dead"
  BY <1>4 DEF Crash
<1>5. CASE UNCHANGED vars
  BY <1>5 DEF vars
<1> QED
  BY <1>1, <1>2, <1>3, <1>4, <1>5 DEF Next

\* While its user is leaving, a handler takes whatever step it is at.
LEMMA StageEndsEver ==
  Spec /\ []NoHandlerStuck
    => \A u \in User : \A c \in ConnsOf(u) : \A s \in Moving : StageEnds(c, u, s)
<1> SUFFICES ASSUME NEW v \in User, NEW d \in ConnsOf(v), NEW r \in Moving
             PROVE  Spec /\ []NoHandlerStuck => StageEnds(d, v, r)
  OBVIOUS
<1>1. (\A c \in Conn : HandlerRuns(c)) => HandlerRuns(d)
  BY DEF ConnsOf
<1>2. NoHandlerStuck /\ Leaving(v) /\ At(d, r) => CanRun(d)
  BY DEF NoHandlerStuck, HandlerDue, Leaving, AllGone, ConnsOf, At, Moving, Over
<1>3. TypeOK /\ <<HandlerStep(d)>>_vars /\ At(d, r) => Beyond(d, r)'
  BY HandlerPath DEF ConnsOf
<1>4. TypeOK /\ [Next]_vars /\ At(d, r) /\ Leaving(v)' => At(d, r)' \/ Beyond(d, r)'
  BY HandlersKeep, HandlerPath DEF ConnsOf, Leaving, NoneDied, At, Moving
<1> QED
  BY <1>1, <1>2, <1>3, <1>4, TypeCorrect, PTL DEF Spec, Fairness, HandlerRuns, CanRun, StageEnds

\* So each of the handlers of a user who leaves is through for good, or never starts.
LEMMA FollowsEver ==
  Spec /\ []NoHandlerStuck => \A u \in User : \A c \in ConnsOf(u) : Follows(c, u)
<1> SUFFICES ASSUME NEW v \in User, NEW d \in ConnsOf(v)
             PROVE  Spec /\ []NoHandlerStuck => Follows(d, v)
  OBVIOUS
<1>1. (\A u \in User : \A c \in ConnsOf(u) : \A s \in Moving : StageEnds(c, u, s))
        => /\ StageEnds(d, v, "joining") /\ StageEnds(d, v, "listing")
           /\ StageEnds(d, v, "greeting") /\ StageEnds(d, v, "announcing")
           /\ StageEnds(d, v, "open") /\ StageEnds(d, v, "leaving")
           /\ StageEnds(d, v, "deleting") /\ StageEnds(d, v, "farewell")
  BY DEF Moving
<1>2. /\ Beyond(d, "joining") => At(d, "listing")
      /\ Beyond(d, "listing") => At(d, "greeting")
      /\ Beyond(d, "greeting") => At(d, "announcing")
      /\ Beyond(d, "announcing") => At(d, "open")
      /\ Beyond(d, "open") => At(d, "leaving")
      /\ Beyond(d, "leaving") => At(d, "deleting") \/ At(d, "closed")
      /\ Beyond(d, "deleting") => At(d, "farewell")
      /\ Beyond(d, "farewell") => At(d, "closed")
  BY DEF Beyond, At, After
<1>3. /\ TypeOK /\ [Next]_vars /\ Leaving(v)' /\ At(d, "closed") => At(d, "closed")'
      /\ TypeOK /\ [Next]_vars /\ Leaving(v)' /\ At(d, "idle") => At(d, "idle")' \/ At(d, "joining")'
  BY HandlersKeep DEF ConnsOf, Leaving, NoneDied, At, HandlerStep, Join, ListOnline, SendSnapshot, Announce,
     Disconnect, Decrement, Delete, Farewell, Goto
<1>4. TypeOK /\ Leaving(v)
        => \/ At(d, "idle") \/ At(d, "joining") \/ At(d, "listing") \/ At(d, "greeting")
           \/ At(d, "announcing") \/ At(d, "open") \/ At(d, "leaving") \/ At(d, "deleting")
           \/ At(d, "farewell") \/ At(d, "closed")
  BY DEF TypeOK, Step, ConnsOf, Leaving, NoneDied, At
<1>5. At(d, "idle") \/ At(d, "closed") => Through(d)
  BY DEF At, Through
<1>6. Spec /\ []NoHandlerStuck
        => /\ StageEnds(d, v, "joining") /\ StageEnds(d, v, "listing")
           /\ StageEnds(d, v, "greeting") /\ StageEnds(d, v, "announcing")
           /\ StageEnds(d, v, "open") /\ StageEnds(d, v, "leaving")
           /\ StageEnds(d, v, "deleting") /\ StageEnds(d, v, "farewell")
  BY <1>1, StageEndsEver
<1> QED
  BY <1>2, <1>3, <1>4, <1>5, <1>6, TypeCorrect, PTL
     DEF Spec, StageEnds, Follows, AllLeave, GetsThrough

(* Once all the clients of a user have left for good and none of the       *)
(* handlers died, the user leaves the hash for good, however the last      *)
(* leaves and the joins before them overtook each other.                   *)
THEOREM EventuallyOfflineEver ==
  Spec /\ []NoHandlerStuck /\ AllTogether => EventuallyOffline
<1> SUFFICES ASSUME NEW v \in User
             PROVE  Spec /\ []NoHandlerStuck /\ AllTogether => GoesOffline(v)
  BY DEF EventuallyOffline
<1>1. AllTogether => Together(v)
  BY DEF AllTogether
<1>2. Spec /\ []NoHandlerStuck => \A c \in ConnsOf(v) : Follows(c, v)
  BY FollowsEver
<1>3. (\A c \in ConnsOf(v) : Follows(c, v)) => (AllLeave(v) => \A c \in ConnsOf(v) : GetsThrough(c))
  BY DEF Follows
<1>4. NoGhost /\ (\A c \in ConnsOf(v) : Through(c)) => v \notin fields
  BY DEF NoGhost, Through, Holding
<1> QED
  BY <1>1, <1>2, <1>3, <1>4, NoGhostEver, PTL DEF Together, GoesOffline

=============================================================================
