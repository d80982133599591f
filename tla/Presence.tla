------------------------------ MODULE Presence ------------------------------
(***************************************************************************)
(* Who is viewing one project: the Redis hash of open-connection counts    *)
(* (ws/presence.py) and the steps of the WebSocket handler that keeps it   *)
(* (api/routers/ws.py, project_websocket).                                 *)
(*                                                                         *)
(* A connection is one WebSocket, used once; a reconnecting tab is another *)
(* element of Conn.  Every await of the handler ends an action, because    *)
(* another handler, in this process or in another, may run there.  Each    *)
(* Redis command is atomic.                                                *)
(***************************************************************************)
EXTENDS Integers, Sequences, FiniteSets

CONSTANTS
  Conn,      \* WebSocket connections, each opened at most once
  User,      \* members of the project
  Instance,  \* backend processes
  Owner,     \* Owner[c]: the user authenticated on connection c
  Host,      \* Host[c]: the process that serves connection c
  Faults     \* which of "send", "redis" and "crash" may happen

ASSUME ConnAssumption   == IsFiniteSet(Conn)
ASSUME OwnerAssumption  == Owner \in [Conn -> User]
ASSUME HostAssumption   == Host \in [Conn -> Instance]
ASSUME FaultsAssumption == Faults \subseteq {"send", "redis", "crash"}

VARIABLES
  pc,         \* the handler step connection c is about to take
  gone,       \* connections whose client has gone away
  fields,     \* the users that have a field in the presence hash
  refs,       \* that field's value; 0 for a missing field, as HINCRBY reads it
  count,      \* connection_count in the handler of c, 0 when it is of no use
  snapshot,   \* online_ids in the handler of c, {} when it is of no use
  published   \* the project's pub/sub channel, oldest event first

vars == <<pc, gone, fields, refs, count, snapshot, published>>

Joined(c) == [type |-> "presence_joined", user |-> Owner[c], by |-> c]
Left(c)   == [type |-> "presence_left",   user |-> Owner[c], by |-> c]

Event == [type: {"presence_joined", "presence_left"}, user: User, by: Conn]

(* The handler's steps: idle before the handshake, closed after a clean    *)
(* return, dead when an exception or a crash ended it early.               *)
Step == {"idle", "joining", "listing", "greeting", "announcing", "open",
         "leaving", "deleting", "farewell", "closed", "dead"}

Over    == {"idle", "closed", "dead"}
Holding == {"listing", "greeting", "announcing", "open", "leaving"}

ConnsOf(u) == {c \in Conn : Owner[c] = u}

(* The connections of u counted by the hash: joined and not yet left, and  *)
(* those whose handler died without leaving.                               *)
Holders(u) == {c \in ConnsOf(u) : pc[c] \in Holding \cup {"dead"}}

TypeOK ==
  /\ pc \in [Conn -> Step]
  /\ gone \subseteq Conn
  /\ fields \subseteq User
  /\ refs \in [User -> Int]
  /\ count \in [Conn -> Int]
  /\ snapshot \in [Conn -> SUBSET User]
  /\ published \in Seq(Event)

Init ==
  /\ pc = [c \in Conn |-> "idle"]
  /\ gone = {}
  /\ fields = {}
  /\ refs = [u \in User |-> 0]
  /\ count = [c \in Conn |-> 0]
  /\ snapshot = [c \in Conn |-> {}]
  /\ published = <<>>

-----------------------------------------------------------------------------
(* The Redis commands.                                                     *)

HIncrBy(c, n) ==
  /\ fields' = fields \cup {Owner[c]}
  /\ refs' = [refs EXCEPT ![Owner[c]] = @ + n]

HDel(u) ==
  /\ fields' = fields \ {u}
  /\ refs' = [refs EXCEPT ![u] = 0]

Goto(c, from, to) ==
  /\ pc[c] = from
  /\ pc' = [pc EXCEPT ![c] = to]

-----------------------------------------------------------------------------
(* Plausible mistakes in the code below, each substituted for the          *)
(* definition it resembles to show that a property notices it.             *)

(* hvals for hkeys.                                                        *)
HVals == {refs[u] : u \in fields}

(* A join retried after a reply was lost: counted twice.                   *)
JoinTwice(c) ==
  /\ Goto(c, "joining", "listing")
  /\ HIncrBy(c, 2)
  /\ count' = [count EXCEPT ![c] = refs[Owner[c]] + 1]
  /\ UNCHANGED <<gone, snapshot, published>>

(* The join announced before the snapshot is sent.                         *)
JoinAloud(c) ==
  /\ Goto(c, "joining", "listing")
  /\ HIncrBy(c, 1)
  /\ count' = [count EXCEPT ![c] = refs[Owner[c]] + 1]
  /\ published' = IF refs[Owner[c]] = 0 THEN Append(published, Joined(c)) ELSE published
  /\ UNCHANGED <<gone, snapshot>>

(* No finally block.                                                       *)
DisconnectOnly(c) ==
  /\ c \in gone
  /\ Goto(c, "open", "closed")
  /\ UNCHANGED <<gone, fields, refs, count, snapshot, published>>

(* The field deleted below zero only.                                      *)
DecrementKeepsZero(c) ==
  /\ Goto(c, "leaving", IF refs[Owner[c]] - 1 < 0 THEN "deleting" ELSE "closed")
  /\ HIncrBy(c, -1)
  /\ UNCHANGED <<gone, count, snapshot, published>>

(* The field deleted, and the leave announced, at exactly zero only.       *)
DecrementAtZero(c) ==
  /\ Goto(c, "leaving", IF refs[Owner[c]] - 1 = 0 THEN "deleting" ELSE "closed")
  /\ HIncrBy(c, -1)
  /\ UNCHANGED <<gone, count, snapshot, published>>

-----------------------------------------------------------------------------
(* The handler.                                                            *)

HKeys == fields

Accept(c) ==
  /\ Goto(c, "idle", "joining")
  /\ UNCHANGED <<gone, fields, refs, count, snapshot, published>>

Join(c) ==
  /\ Goto(c, "joining", "listing")
  /\ HIncrBy(c, 1)
  /\ count' = [count EXCEPT ![c] = refs[Owner[c]] + 1]
  /\ UNCHANGED <<gone, snapshot, published>>

ListOnline(c) ==
  /\ Goto(c, "listing", "greeting")
  /\ snapshot' = [snapshot EXCEPT ![c] = HKeys]
  /\ UNCHANGED <<gone, fields, refs, count, published>>

(* A send to a client that has gone may still succeed: the server learns   *)
(* of it later.                                                            *)
SendSnapshot(c) ==
  /\ Goto(c, "greeting", "announcing")
  /\ snapshot' = [snapshot EXCEPT ![c] = {}]
  /\ UNCHANGED <<gone, fields, refs, count, published>>

Announce(c) ==
  /\ Goto(c, "announcing", "open")
  /\ published' = IF count[c] = 1 THEN Append(published, Joined(c)) ELSE published
  /\ count' = [count EXCEPT ![c] = 0]
  /\ UNCHANGED <<gone, fields, refs, snapshot>>

(* receive_text raises WebSocketDisconnect and the finally block begins.   *)
Disconnect(c) ==
  /\ c \in gone
  /\ Goto(c, "open", "leaving")
  /\ UNCHANGED <<gone, fields, refs, count, snapshot, published>>

Decrement(c) ==
  /\ Goto(c, "leaving", IF refs[Owner[c]] - 1 <= 0 THEN "deleting" ELSE "closed")
  /\ HIncrBy(c, -1)
  /\ UNCHANGED <<gone, count, snapshot, published>>

Delete(c) ==
  /\ Goto(c, "deleting", "farewell")
  /\ HDel(Owner[c])
  /\ UNCHANGED <<gone, count, snapshot, published>>

Farewell(c) ==
  /\ Goto(c, "farewell", "closed")
  /\ published' = Append(published, Left(c))
  /\ UNCHANGED <<gone, fields, refs, count, snapshot>>

-----------------------------------------------------------------------------
(* The environment.                                                        *)

ClientLeaves(c) ==
  /\ pc[c] \notin Over
  /\ gone' = gone \cup {c}
  /\ UNCHANGED <<pc, fields, refs, count, snapshot, published>>

(* The snapshot's send_json raises before the handler entered its try.     *)
SendFails(c) ==
  /\ "send" \in Faults
  /\ c \in gone
  /\ Goto(c, "greeting", "dead")
  /\ count' = [count EXCEPT ![c] = 0]
  /\ snapshot' = [snapshot EXCEPT ![c] = {}]
  /\ UNCHANGED <<gone, fields, refs, published>>

(* A Redis command of the handler raises; nothing in the handler catches   *)
(* it, and the client's socket is closed.                                  *)
RedisFails(c) ==
  /\ "redis" \in Faults
  /\ pc[c] \notin Over \cup {"greeting", "open"}
  /\ pc[c] = "announcing" => count[c] = 1   \* else nothing is published
  /\ pc' = [pc EXCEPT ![c] = "dead"]
  /\ gone' = gone \cup {c}
  /\ count' = [count EXCEPT ![c] = 0]
  /\ UNCHANGED <<fields, refs, snapshot, published>>

(* Process i dies with its handlers; Redis keeps the hash.                 *)
Crash(i) ==
  LET hosted == {c \in Conn : Host[c] = i /\ pc[c] \notin Over} IN
  /\ "crash" \in Faults
  /\ hosted # {}
  /\ pc' = [c \in Conn |-> IF c \in hosted THEN "dead" ELSE pc[c]]
  /\ gone' = gone \cup hosted
  /\ count' = [c \in Conn |-> IF c \in hosted THEN 0 ELSE count[c]]
  /\ snapshot' = [c \in Conn |-> IF c \in hosted THEN {} ELSE snapshot[c]]
  /\ UNCHANGED <<fields, refs, published>>

-----------------------------------------------------------------------------

HandlerStep(c) ==
  \/ Join(c)
  \/ ListOnline(c)
  \/ SendSnapshot(c)
  \/ Announce(c)
  \/ Disconnect(c)
  \/ Decrement(c)
  \/ Delete(c)
  \/ Farewell(c)

Next ==
  \/ \E c \in Conn : Accept(c) \/ HandlerStep(c)
  \/ \E c \in Conn : ClientLeaves(c) \/ SendFails(c) \/ RedisFails(c)
  \/ \E i \in Instance : Crash(i)

(* The event loop keeps running a handler whose await has completed, and   *)
(* Redis answers; no client has to connect or to leave.                    *)
HandlerRuns(c) == WF_vars(HandlerStep(c))
Fairness == \A c \in Conn : HandlerRuns(c)

Spec == Init /\ [][Next]_vars /\ Fairness

-----------------------------------------------------------------------------
(* Properties.                                                             *)

(* The count never exceeds the connections it stands for: the decrement    *)
(* and the delete of presence.leave, interleaved with joins and leaves of  *)
(* the user's other tabs, can lose a count but never invent one.           *)
NeverOvercounted == \A u \in User : refs[u] <= Cardinality(Holders(u))

(* No ghost: a user has a field in the hash only while one of their        *)
(* connections is still counted, or a leave is about to delete the field,  *)
(* or a handler died before it could leave.                                *)
NoGhost ==
  \A u \in fields : \E c \in ConnsOf(u) : pc[c] \in Holding \cup {"deleting", "dead"}

(* u's last event on the channel says that u joined.                       *)
JoinStands(u) ==
  \E i \in 1..Len(published) :
    /\ published[i].type = "presence_joined"
    /\ published[i].user = u
    /\ \A j \in i+1..Len(published) : published[j].user # u

(* Nobody is left on the other clients' lists for good: u's join stands as *)
(* the channel's last word on u only while some handler of u has yet to    *)
(* leave, or to say so, or died before it could.                           *)
NoStaleJoin ==
  \A u \in User : JoinStands(u) =>
    \E c \in ConnsOf(u) : pc[c] \in Holding \cup {"deleting", "farewell", "dead"}

(* "They're only offline once every one of those closes" (presence.py): a  *)
(* user with an open connection is listed.                                 *)
OfflineOnlyOnceAllClose == \A c \in Conn : pc[c] = "open" => Owner[c] \in fields

Settled == \A c \in Conn : pc[c] \in Over \cup {"open"}

(* Once all of a user's clients have gone for good, the user leaves the    *)
(* hash for good, unless one of their handlers died: whatever leaves, in   *)
(* any order with the others, the last one to leave deletes the field.     *)
AllGone(u) == \A c \in ConnsOf(u) : pc[c] \in {"idle", "closed"} \/ c \in gone
NoneDied(u) == \A c \in ConnsOf(u) : pc[c] # "dead"

Leaving(u)     == AllGone(u) /\ NoneDied(u)
AllLeave(u)    == <>[]Leaving(u)
GoesOffline(u) == AllLeave(u) => <>[](u \notin fields)
EventuallyOffline == \A u \in User : GoesOffline(u)

(* A handler that has something to do can do it: it waits for nobody but   *)
(* its client, and for the client only while it is open.                   *)
CanRun(c) == ENABLED <<HandlerStep(c)>>_vars
HandlerDue(c) == pc[c] \notin Over /\ (pc[c] = "open" => c \in gone)
NoHandlerStuck == \A c \in Conn : HandlerDue(c) => CanRun(c)

(* If each of u's handlers is through from some point on, then from some   *)
(* point on they all are: a law of temporal logic, as they are finitely    *)
(* many.                                                                   *)
Through(c)  == pc[c] \in {"idle", "closed"}
GetsThrough(c) == <>[]Through(c)
Together(u) == (\A c \in ConnsOf(u) : GetsThrough(c)) => <>[](\A c \in ConnsOf(u) : Through(c))
AllTogether == \A u \in User : Together(u)
=============================================================================
