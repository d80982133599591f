---------------------------- MODULE ProjectRoom ----------------------------
(***************************************************************************)
(* The live room of one project: the handlers of Presence, the sockets     *)
(* each process has registered (ws/connection_manager.py), the listener    *)
(* of each process that relays the Redis channel to them                   *)
(* (ws/redis_listener.py), and the list of online users each client keeps  *)
(* (frontend ProjectPage.tsx), beside the one it got over HTTP.            *)
(*                                                                         *)
(* The channel is the immutable log "published" of Presence; a process has *)
(* a cursor into it.  A socket is a FIFO stream, so what is sent to a      *)
(* client takes effect there when it is sent.                              *)
(***************************************************************************)
EXTENDS Presence

VARIABLES
  registered,  \* connections in their process's ConnectionManager
  listening,   \* processes whose listener task is running
  cursor,      \* cursor[i]: events the listener of i is done with
  sending,     \* sending[i]: sockets still to be sent event cursor[i] + 1
  dead,        \* dead[i]: sockets whose send failed in that loop
  view,        \* view[c]: onlineUserIds of the page behind c
  rest,        \* rest[c]: the answer of GET /presence that page has
  last,        \* last[c]: index of the last event sent to c, 0 for none
  greetedAt    \* last[c] when c was sent its snapshot

roomVars  == <<registered, listening, cursor, sending, dead, view, rest, last, greetedAt>>
relayVars == <<listening, cursor, sending, dead>>
pageVars  == <<view, rest, last, greetedAt>>
allVars   == <<vars, roomVars>>

HostedBy(i) == {c \in Conn : Host[c] = i}
Greeted(c)  == pc[c] \notin {"idle", "joining", "listing", "greeting"}

RoomTypeOK ==
  /\ TypeOK
  /\ registered \subseteq Conn
  /\ listening \subseteq Instance
  /\ cursor \in [Instance -> 0..Len(published)]
  /\ sending \in [Instance -> SUBSET Conn]
  /\ dead \in [Instance -> SUBSET Conn]
  /\ view \in [Conn -> SUBSET User] /\ rest \in [Conn -> SUBSET User]
  /\ last \in [Conn -> 0..Len(published)]
  /\ greetedAt \in [Conn -> 0..Len(published)]

RoomInit ==
  /\ Init
  /\ registered = {}
  /\ listening = Instance
  /\ cursor = [i \in Instance |-> 0]
  /\ sending = [i \in Instance |-> {}]
  /\ dead = [i \in Instance |-> {}]
  /\ view = [c \in Conn |-> {}] /\ rest = [c \in Conn |-> {}]
  /\ last = [c \in Conn |-> 0]
  /\ greetedAt = [c \in Conn |-> 0]

Relaying(i) == sending[i] # {} \/ dead[i] # {}

-----------------------------------------------------------------------------
(* Plausible mistakes, each substituted for the definition it resembles to *)
(* show that a property notices it.                                        *)

(* A finally block that forgets presence.leave.                            *)
DisconnectSilently(c) ==
  /\ DisconnectOnly(c)
  /\ registered' = registered \ {c}
  /\ UNCHANGED <<relayVars, pageVars>>

(* A listener that does not wait for a message.                            *)
TakeNothing(i) ==
  LET targets == registered \cap HostedBy(i) IN
  /\ i \in listening
  /\ ~Relaying(i)
  /\ sending' = [sending EXCEPT ![i] = targets]
  /\ cursor' = IF targets = {} THEN [cursor EXCEPT ![i] = @ + 1] ELSE cursor
  /\ UNCHANGED <<vars, registered, listening, dead, pageVars>>

(* The event is not echoed to the user it is about.                        *)
TakeForOthers(i) ==
  LET targets == {c \in registered \cap HostedBy(i) :
                    Owner[c] # published[cursor[i] + 1].user}
  IN
  /\ i \in listening
  /\ ~Relaying(i)
  /\ cursor[i] < Len(published)
  /\ sending' = [sending EXCEPT ![i] = targets]
  /\ cursor' = IF targets = {} THEN [cursor EXCEPT ![i] = @ + 1] ELSE cursor
  /\ UNCHANGED <<vars, registered, listening, dead, pageVars>>

(* The page ignores departures.                                            *)
ShownJoinsOnly(ids, event) ==
  IF event.type = "presence_joined" THEN ids \cup {event.user} ELSE ids

(* The loop stops at the first send that raises.                           *)
SendRaisesBreaks(i, c) ==
  /\ i \in listening
  /\ c \in sending[i] \cap gone
  /\ sending' = [sending EXCEPT ![i] = {}]
  /\ registered' = registered \ {c}
  /\ dead' = [dead EXCEPT ![i] = {}]
  /\ cursor' = [cursor EXCEPT ![i] = @ + 1]
  /\ UNCHANGED <<vars, listening, pageVars>>

(* An event is kept until there is a socket to take it.                    *)
TakeWaits(i) ==
  LET targets == registered \cap HostedBy(i) IN
  /\ i \in listening
  /\ ~Relaying(i)
  /\ cursor[i] < Len(published)
  /\ targets # {}
  /\ sending' = [sending EXCEPT ![i] = targets]
  /\ UNCHANGED <<vars, registered, listening, cursor, dead, pageVars>>

-----------------------------------------------------------------------------
(* The handler, with what it does to the manager and to its own client.    *)

RoomAccept(c) ==
  /\ Accept(c)
  /\ registered' = registered \cup {c}
  /\ UNCHANGED <<relayVars, pageVars>>

RoomGreet(c) ==
  /\ SendSnapshot(c)
  /\ view' = [view EXCEPT ![c] = IF c \in gone THEN @ ELSE snapshot[c]]
  /\ greetedAt' = [greetedAt EXCEPT ![c] = last[c]]
  /\ UNCHANGED <<registered, relayVars, rest, last>>

RoomDisconnect(c) ==
  /\ Disconnect(c)
  /\ registered' = registered \ {c}
  /\ UNCHANGED <<relayVars, pageVars>>

(* The steps that only talk to Redis.                                      *)
RoomRedisStep(c) ==
  /\ Join(c) \/ ListOnline(c) \/ Announce(c) \/ Decrement(c) \/ Delete(c) \/ Farewell(c)
  /\ UNCHANGED roomVars

(* An exception before the try leaves the socket registered: the finally   *)
(* block with its disconnect is not entered.                               *)
RoomHandlerFails(c) ==
  /\ SendFails(c) \/ RedisFails(c)
  /\ UNCHANGED roomVars

RoomClientLeaves(c) ==
  /\ ClientLeaves(c)
  /\ view' = [view EXCEPT ![c] = {}] /\ rest' = [rest EXCEPT ![c] = {}]   \* the page is gone
  /\ UNCHANGED <<registered, relayVars, last, greetedAt>>

(* The page asks for the list when it opens, and again now and then.  An   *)
(* answer counts from the moment it is read: where one is under way the    *)
(* page has the one before, as it could have had then.                     *)
GetPresence(c) ==
  /\ c \notin gone
  /\ rest' = [rest EXCEPT ![c] = fields]
  /\ UNCHANGED <<vars, registered, relayVars, view, last, greetedAt>>

(* The list ProjectPage shows: the socket's once it has anything to say.   *)
Online(c) == IF view[c] # {} THEN view[c] ELSE rest[c]

-----------------------------------------------------------------------------
(* The listener: run_pattern_listener awaiting send_to_project.            *)

(* The next message; send_to_project copies the sockets registered now.    *)
(* With none it returns at once.                                           *)
Take(i) ==
  LET targets == registered \cap HostedBy(i) IN
  /\ i \in listening
  /\ ~Relaying(i)
  /\ cursor[i] < Len(published)
  /\ sending' = [sending EXCEPT ![i] = targets]
  /\ cursor' = IF targets = {} THEN [cursor EXCEPT ![i] = @ + 1] ELSE cursor
  /\ UNCHANGED <<vars, registered, listening, dead, pageVars>>

(* What ProjectPage does with a presence event.                            *)
Shown(ids, event) ==
  IF event.type = "presence_joined" THEN ids \cup {event.user} ELSE ids \ {event.user}

(* After the loop, the sockets that failed are dropped from the manager.   *)
EndLoop(i, remaining, failed) ==
  IF remaining = {}
    THEN /\ registered' = registered \ failed
         /\ dead' = [dead EXCEPT ![i] = {}]
         /\ cursor' = [cursor EXCEPT ![i] = @ + 1]
    ELSE /\ dead' = [dead EXCEPT ![i] = failed]
         /\ UNCHANGED <<registered, cursor>>

Send(i, c) ==
  LET k == cursor[i] + 1 IN
  /\ i \in listening
  /\ c \in sending[i]
  /\ sending' = [sending EXCEPT ![i] = @ \ {c}]
  /\ last' = [last EXCEPT ![c] = k]
  /\ view' = [view EXCEPT ![c] = IF c \in gone THEN @ ELSE Shown(@, published[k])]
  /\ EndLoop(i, sending[i] \ {c}, dead[i])
  /\ UNCHANGED <<vars, listening, rest, greetedAt>>

SendRaises(i, c) ==
  /\ i \in listening
  /\ c \in sending[i] \cap gone
  /\ sending' = [sending EXCEPT ![i] = @ \ {c}]
  /\ EndLoop(i, sending[i] \ {c}, dead[i] \cup {c})
  /\ UNCHANGED <<vars, listening, pageVars>>

(* The subscription's connection to Redis fails while the listener waits   *)
(* for a message: the task ends, and nothing starts it again.              *)
ListenerFails(i) ==
  /\ "redis" \in Faults
  /\ i \in listening
  /\ ~Relaying(i)
  /\ listening' = listening \ {i}
  /\ UNCHANGED <<vars, registered, cursor, sending, dead, pageVars>>

(* The process dies and is started again: an empty manager and a new       *)
(* subscription, which hears only what is published from now on.           *)
RoomCrash(i) ==
  /\ Crash(i)
  /\ registered' = registered \ HostedBy(i)
  /\ listening' = listening \cup {i}
  /\ cursor' = [cursor EXCEPT ![i] = Len(published)]
  /\ sending' = [sending EXCEPT ![i] = {}]
  /\ dead' = [dead EXCEPT ![i] = {}]
  /\ UNCHANGED pageVars

-----------------------------------------------------------------------------

RoomHandlerStep(c) == RoomRedisStep(c) \/ RoomGreet(c) \/ RoomDisconnect(c)

Relay(i) ==
  \/ Take(i)
  \/ \E c \in Conn : Send(i, c) \/ SendRaises(i, c)

RoomNext ==
  \/ \E c \in Conn : RoomAccept(c) \/ RoomHandlerStep(c)
  \/ \E c \in Conn : RoomClientLeaves(c) \/ RoomHandlerFails(c) \/ GetPresence(c)
  \/ \E i \in Instance : Relay(i) \/ ListenerFails(i) \/ RoomCrash(i)

(* The event loop runs every task whose await has completed: the handlers, *)
(* as in Presence, and the listener of each process.                       *)
RoomHandlerRuns(c) == WF_allVars(RoomHandlerStep(c))
ListenerRuns(i)    == WF_allVars(Relay(i))

RoomFairness ==
  /\ \A c \in Conn : RoomHandlerRuns(c)
  /\ \A i \in Instance : ListenerRuns(i)

RoomSpec == RoomInit /\ [][RoomNext]_allVars /\ RoomFairness

-----------------------------------------------------------------------------
(* Properties.                                                             *)

(* The room does to presence what Presence allows, and nothing else.       *)
RoomImplementsPresence == Spec

(* Registering sockets and relaying events keep no handler from a step     *)
(* that Presence lets it take.                                             *)
RoomCanRun(c) == ENABLED <<RoomHandlerStep(c)>>_allVars
RoomBlocksNoHandler == \A c \in Conn : CanRun(c) => RoomCanRun(c)

(* A socket is sent a contiguous run of the channel: no event twice, none  *)
(* skipped, none out of order, whatever other sockets, connections and     *)
(* failures the loop of send_to_project meets.                             *)
ContiguousRelay ==
  [][\A c \in Conn : last'[c] # last[c] => last[c] = 0 \/ last'[c] = last[c] + 1]_allVars

(* A live client that has been sent an event is never behind its process.  *)
NoneLeftBehind ==
  \A c \in registered \ gone : last[c] # 0 => last[c] >= cursor[Host[c]]

(* The guarantee project_websocket claims for sending the snapshot before  *)
(* publishing: the join a handler publishes is not relayed to its own      *)
(* socket until the snapshot has been sent to it.                          *)
OwnJoinAfterSnapshot ==
  [][\A c \in Conn :
       last'[c] # last[c] /\ published[last'[c]].by = c => Greeted(c)]_allVars

Quiet ==
  /\ Settled
  /\ \A i \in Instance : cursor[i] = Len(published) /\ ~Relaying(i)

(* The last event sent to c about u came before c's snapshot, which then   *)
(* replaced what it said.                                                  *)
Overwritten(c, u) ==
  \E k \in 1..greetedAt[c] :
    /\ published[k].user = u
    /\ \A j \in k+1..Len(published) : published[j].user # u

(* What a page can be right about: a single-tab user, whose last event did *)
(* not overtake the page's snapshot and whose handler did not die.         *)
Followed(c, u) ==
  Cardinality(ConnsOf(u)) = 1 /\ NoneDied(u) /\ ~Overwritten(c, u)

(* When nothing is in flight, onlineUserIds of every open page has the     *)
(* users it can be right about as they are.  So does the list it shows,    *)
(* when its own user is one of them: then it does not fall back on the old *)
(* answer of GET /presence, which nothing corrects.                        *)
ViewsAgree ==
  Quiet => \A c \in Conn : pc[c] = "open" /\ c \notin gone =>
    \A u \in User : Followed(c, u) =>
      /\ u \in view[c] <=> u \in fields
      /\ Followed(c, Owner[c]) => (u \in Online(c) <=> u \in fields)

(* "Kept live from the moment we connect" (ProjectPage.tsx): without the   *)
(* exception of the snapshot.                                              *)
KeptLive ==
  Quiet => \A c \in Conn, u \in User :
    /\ pc[c] = "open"
    /\ c \notin gone
    /\ Cardinality(ConnsOf(u)) = 1
    /\ NoneDied(u)
    => (u \in view[c] <=> u \in fields)

(* "The REST call is just what fills the gap before the socket's own       *)
(* snapshot arrives" (ProjectPage.tsx): without the exception of the page  *)
(* whose own user another tab's departure took off the list.               *)
TakesOver ==
  Quiet => \A c \in Conn, u \in User :
    pc[c] = "open" /\ c \notin gone /\ Followed(c, u) => (u \in Online(c) <=> u \in fields)

(* Every event published reaches the end of the loop of every process      *)
(* whose listener is still running.                                        *)
Reaches(i, k) == Len(published) >= k ~> cursor[i] >= k \/ i \notin listening
EventuallyRelayed == \A i \in Instance, k \in 1..(2 * Cardinality(Conn)) : Reaches(i, k)

(* "Runs for the lifetime of the app" (redis_listener.py): the same of     *)
(* every process.                                                          *)
RelayedForLife ==
  \A i \in Instance, k \in 1..(2 * Cardinality(Conn)) :
    Len(published) >= k ~> cursor[i] >= k

(* A listener with an event to relay can take its next step: it waits for  *)
(* no socket.                                                              *)
CanRelay(i) == ENABLED <<Relay(i)>>_allVars
NoListenerStuck ==
  \A i \in Instance : i \in listening /\ cursor[i] < Len(published) => CanRelay(i)

(* Where a listener can be while it is to relay the first k events, and    *)
(* that it is not everywhere for the last time: a law of temporal logic,   *)
(* as these places are finitely many.                                      *)
Places(k)      == (0..k-1) \X SUBSET Conn
IsAt(i, p)     == <<cursor[i], sending[i]>> = p
LeavesForGood(i, p) == <>[]~IsAt(i, p)
SomewhereStill(i, k) ==
  (\A p \in Places(k) : LeavesForGood(i, p)) => <>[](\A p \in Places(k) : ~IsAt(i, p))
AllSomewhere == \A i \in Instance, k \in 1..(2 * Cardinality(Conn)) : SomewhereStill(i, k)
=============================================================================
