------------------------- MODULE ProjectRoomProofs -------------------------
(***************************************************************************)
(* Proofs about ProjectRoom, for any connections, users and processes and  *)
(* with every fault enabled.                                               *)
(*                                                                         *)
(* A step of the room is a step of Presence or leaves it alone, so what is *)
(* proved of Presence holds in the room.  What the room adds is a loop per *)
(* process: a registered socket has been sent nothing yet, or everything   *)
(* up to the point its process has reached for it (InStep).                *)
(***************************************************************************)
EXTENDS ProjectRoom, PresenceProofs

(* The events of the channel that the process of c is done with for c.     *)
Pos(c) ==
  IF sending[Host[c]] = {} \/ c \in sending[Host[c]]
  THEN cursor[Host[c]] ELSE cursor[Host[c]] + 1

(* The sockets that are still to hear of the channel, or in line for it.   *)
InLine(c) == c \in (registered \ dead[Host[c]]) \cup sending[Host[c]]

Loops == \A i \in Instance :
  /\ sending[i] \subseteq HostedBy(i)
  /\ dead[i] \subseteq gone
  /\ sending[i] = {} => dead[i] = {}
  /\ sending[i] # {} => cursor[i] < Len(published)

InStep == \A c \in Conn :
  /\ pc[c] = "idle" => last[c] = 0 /\ c \notin registered \cup sending[Host[c]]
  /\ pc[c] = "idle" \/ c \in registered \cup gone
  /\ InLine(c) => last[c] \in {0, Pos(c)}

Departed == \A c \in Conn :
  pc[c] \in {"leaving", "deleting", "farewell", "closed", "dead"} => c \in gone

Announcers == \A k \in 1 .. Len(published) : Greeted(published[k].by)

RoomInv == RoomTypeOK /\ Loops /\ InStep /\ Departed /\ Announcers

-----------------------------------------------------------------------------
(* The room refines Presence, fairness apart.                              *)

(* The room does to presence only what its handlers may do.                *)
LEMMA RoomStepIsPresenceStep == [RoomNext]_allVars => [Next]_vars
<1> SUFFICES ASSUME [RoomNext]_allVars PROVE [Next]_vars
  OBVIOUS
<1>1. ASSUME NEW c \in Conn, RoomAccept(c) \/ RoomHandlerStep(c) PROVE Next
  BY <1>1 DEF RoomAccept, RoomHandlerStep, RoomRedisStep, RoomGreet, RoomDisconnect, Next, HandlerStep
<1>2. ASSUME NEW c \in Conn, RoomClientLeaves(c) \/ RoomHandlerFails(c) PROVE Next
  BY <1>2 DEF RoomClientLeaves, RoomHandlerFails, Next
<1>3. ASSUME NEW i \in Instance, Relay(i) \/ ListenerFails(i) PROVE UNCHANGED vars
  BY <1>3 DEF Relay, Take, Send, SendRaises, ListenerFails
<1>4. ASSUME NEW i \in Instance, RoomCrash(i) PROVE Next
  BY <1>4 DEF RoomCrash, Next
<1>5. ASSUME NEW c \in Conn, GetPresence(c) PROVE UNCHANGED vars
  BY <1>5 DEF GetPresence
<1>6. CASE UNCHANGED allVars
  BY <1>6 DEF allVars
<1> QED
  BY <1>1, <1>2, <1>3, <1>4, <1>5, <1>6 DEF RoomNext

(* So the room has all of what Presence promises.                          *)
THEOREM RoomKeepsPresence ==
  RoomSpec => [](TypeOK /\ NeverOvercounted /\ NoGhost /\ NoStaleJoin)
<1>1. RoomInit => Init
  BY DEF RoomInit
<1>2. RoomSpec => Init /\ [][Next]_vars
  BY <1>1, RoomStepIsPresenceStep, PTL DEF RoomSpec
<1>3. TypeOK /\ NeverOvercounted /\ FieldsInv => NoGhost
  BY NoGhostHolds
<1> QED
  BY <1>2, <1>3, InitTypeOK, NextTypeOK, InitNeverOvercounted, NextNeverOvercounted,
     InitFieldsInv, NextFieldsInv, InitNoStaleJoin, NextNoStaleJoin, PTL


-----------------------------------------------------------------------------
(* What the room's steps may rely on of a step of Presence.                *)

(* Connections do not come back, and the channel only grows.               *)
LEMMA PresenceSteps ==
  ASSUME TypeOK, [Next]_vars
  PROVE  /\ gone \subseteq gone'
         /\ \A c \in Conn : pc'[c] = "idle" => pc[c] = "idle"
         /\ \A c \in Conn : pc[c] = "dead" => pc'[c] = "dead"
         /\ \A c \in Conn : Greeted(c) => Greeted(c)'
         /\ published \in Seq(Event) /\ published' \in Seq(Event)
         /\ \/ published' = published
            \/ \E c \in Conn : /\ Greeted(c)
                              /\ published' \in {Append(published, Joined(c)), Append(published, Left(c))}
<1> USE DEF Greeted
<1>1. ASSUME NEW c \in Conn, Accept(c) \/ HandlerStep(c)
      PROVE  /\ gone \subseteq gone'
             /\ \A d \in Conn : (pc'[d] = "idle" => pc[d] = "idle") /\ (pc[d] = "dead" => pc'[d] = "dead")
             /\ \A d \in Conn : Greeted(d) => Greeted(d)'
             /\ \/ published' = published
                \/ /\ Greeted(c)
                   /\ published' \in {Append(published, Joined(c)), Append(published, Left(c))}
  BY <1>1 DEF HandlerStep, Accept, Join, ListOnline, SendSnapshot, Announce, Disconnect, Decrement,
     Delete, Farewell, Goto, TypeOK
<1>2. ASSUME NEW c \in Conn, ClientLeaves(c) \/ SendFails(c) \/ RedisFails(c)
      PROVE  /\ gone \subseteq gone' /\ published' = published
             /\ \A d \in Conn : (pc'[d] = "idle" => pc[d] = "idle") /\ (pc[d] = "dead" => pc'[d] = "dead")
             /\ \A d \in Conn : Greeted(d) => Greeted(d)'
  BY <1>2 DEF ClientLeaves, SendFails, RedisFails, Goto, TypeOK
<1>3. ASSUME NEW i \in Instance, Crash(i)
      PROVE  /\ gone \subseteq gone' /\ published' = published
             /\ \A d \in Conn : (pc'[d] = "idle" => pc[d] = "idle") /\ (pc[d] = "dead" => pc'[d] = "dead")
             /\ \A d \in Conn : Greeted(d) => Greeted(d)'
  BY <1>3 DEF Crash, TypeOK
<1>4. CASE UNCHANGED vars
  BY <1>4, NextTypeOK DEF vars, TypeOK
<1>5. TypeOK'
  BY NextTypeOK
<1> QED
  BY <1>1, <1>2, <1>3, <1>4, <1>5 DEF Next, TypeOK

(* What was published stays published, and the joins and leaves are of     *)
(* handlers that have sent their snapshot.                                 *)
LEMMA ChannelGrows ==
  ASSUME TypeOK, [Next]_vars
  PROVE  /\ Len(published) \in Nat /\ Len(published') \in Nat
         /\ Len(published) <= Len(published')
         /\ \A k \in 1 .. Len(published) : published'[k] = published[k]
         /\ \A k \in 1 .. Len(published') :
              k \notin 1 .. Len(published) =>
                published'[k].by \in Conn /\ Greeted(published'[k].by)
<1>1. published \in Seq(Event) /\ published' \in Seq(Event)
  BY PresenceSteps
<1>2. CASE published' = published
  BY <1>1, <1>2
<1>3. ASSUME NEW c \in Conn, Greeted(c),
             published' \in {Append(published, Joined(c)), Append(published, Left(c))}
      PROVE  /\ Len(published) <= Len(published')
             /\ \A k \in 1 .. Len(published) : published'[k] = published[k]
             /\ \A k \in 1 .. Len(published') :
                  k \notin 1 .. Len(published) => published'[k].by = c
  <2>1. Joined(c) \in Event /\ Left(c) \in Event /\ Joined(c).by = c /\ Left(c).by = c
    BY EventsTyped DEF Joined, Left
  <2>2. PICK e \in Event : published' = Append(published, e) /\ e.by = c
    BY <1>3, <2>1
  <2> QED
    BY <1>1, <2>2
<1> QED
  BY <1>1, <1>2, <1>3, PresenceSteps

(* A handler leaves or dies because its client has gone, or takes it along.*)
LEMMA NextDeparted == TypeOK /\ Departed /\ [Next]_vars => Departed'
<1> SUFFICES ASSUME TypeOK, Departed, [Next]_vars PROVE Departed'
  OBVIOUS
<1>1. ASSUME NEW c \in Conn, Accept(c) \/ HandlerStep(c) PROVE Departed'
  BY <1>1 DEF HandlerStep, Accept, Join, ListOnline, SendSnapshot, Announce, Disconnect, Decrement,
     Delete, Farewell, Goto, TypeOK, Departed
<1>2. ASSUME NEW c \in Conn, ClientLeaves(c) \/ SendFails(c) \/ RedisFails(c) PROVE Departed'
  BY <1>2 DEF ClientLeaves, SendFails, RedisFails, Goto, TypeOK, Departed
<1>3. ASSUME NEW i \in Instance, Crash(i) PROVE Departed'
  BY <1>3 DEF Crash, TypeOK, Departed
<1>4. CASE UNCHANGED vars
  BY <1>4 DEF vars, Departed
<1> QED
  BY <1>1, <1>2, <1>3, <1>4 DEF Next

(* Whoever announced something had sent the snapshot.                      *)
LEMMA NextAnnouncers == TypeOK /\ Announcers /\ [Next]_vars => Announcers'
<1> SUFFICES ASSUME TypeOK, Announcers, [Next]_vars, NEW k \in 1 .. Len(published')
             PROVE  pc'[published'[k].by] \notin {"idle", "joining", "listing", "greeting"}
  BY DEF Announcers, Greeted
<1>1. published'[k].by \in Conn /\ Greeted(published'[k].by)
  <2>1. CASE k \in 1 .. Len(published)
    <3>1. published[k] \in Event /\ published'[k] = published[k]
      BY <2>1, ChannelGrows DEF TypeOK
    <3> QED
      BY <2>1, <3>1 DEF Announcers, Event
  <2> QED
    BY <2>1, ChannelGrows
<1>2. PICK c \in Conn : c = published'[k].by
  BY <1>1
<1>3. Greeted(c) /\ Greeted(c)'
  BY <1>1, <1>2, PresenceSteps
<1> QED
  BY <1>2, <1>3 DEF Greeted


-----------------------------------------------------------------------------
(* Type correctness of the room.                                           *)

(* What a handler, a client or a failing handler changes of the room: its  *)
(* own registration, and what its own page shows.                          *)
HandlerMoves(c) ==
  /\ UNCHANGED <<relayVars, last>>
  /\ \/ registered' = registered
     \/ registered' = registered \ {c} /\ c \in gone
     \/ registered' = registered \cup {c} /\ pc[c] = "idle" /\ pc'[c] = "joining"
  /\ \A d \in Conn \ {c} : /\ pc'[d] = pc[d] /\ snapshot'[d] = snapshot[d]
                           /\ view'[d] = view[d] /\ greetedAt'[d] = greetedAt[d]

\* Each step of a handler or a client makes such a move.
LEMMA HandlersMove ==
  ASSUME RoomTypeOK, NEW c \in Conn,
         RoomAccept(c) \/ RoomHandlerStep(c) \/ RoomClientLeaves(c) \/ RoomHandlerFails(c)
  PROVE  HandlerMoves(c)
<1> USE DEF HandlerMoves, RoomTypeOK, TypeOK, roomVars, relayVars, pageVars
<1>1. CASE RoomAccept(c)
  BY <1>1 DEF RoomAccept, Accept, Goto
<1>2. CASE RoomRedisStep(c)
  BY <1>2 DEF RoomRedisStep, Join, ListOnline, Announce, Decrement, Delete, Farewell, Goto
<1>3. CASE RoomGreet(c)
  BY <1>3 DEF RoomGreet, SendSnapshot, Goto
<1>4. CASE RoomDisconnect(c)
  BY <1>4 DEF RoomDisconnect, Disconnect, Goto
<1>5. CASE RoomClientLeaves(c)
  BY <1>5 DEF RoomClientLeaves, ClientLeaves
<1>6. CASE RoomHandlerFails(c)
  BY <1>6 DEF RoomHandlerFails, SendFails, RedisFails, Goto
<1> QED
  BY <1>1, <1>2, <1>3, <1>4, <1>5, <1>6 DEF RoomHandlerStep

(* Initially every variable has its type.                                  *)
LEMMA InitRoomInv == RoomInit => RoomInv
<1> SUFFICES ASSUME RoomInit PROVE RoomInv
  OBVIOUS
<1>1. TypeOK /\ published = <<>>
  BY InitTypeOK DEF RoomInit, Init
<1>2. RoomTypeOK
  BY <1>1 DEF RoomInit, RoomTypeOK
<1>3. Loops /\ InStep /\ Departed /\ Announcers
  BY <1>1, HostAssumption DEF RoomInit, Init, Loops, InStep, InLine, Departed, Announcers
<1> QED
  BY <1>2, <1>3 DEF RoomInv

(* The page shows users.                                                   *)
LEMMA ShownTyped ==
  ASSUME TypeOK, NEW k \in 1 .. Len(published), NEW ids \in SUBSET User
  PROVE  Shown(ids, published[k]) \in SUBSET User
<1>1. published[k] \in Event
  BY DEF TypeOK
<1>2. published[k].user \in User
  BY <1>1 DEF Event
<1> QED
  BY <1>2 DEF Shown

(* Every action keeps the types.                                           *)
LEMMA NextRoomTypeOK == RoomTypeOK /\ Loops /\ [RoomNext]_allVars => RoomTypeOK'
<1> SUFFICES ASSUME RoomTypeOK, Loops, [RoomNext]_allVars PROVE RoomTypeOK'
  OBVIOUS
<1>1. TypeOK /\ TypeOK' /\ [Next]_vars
  BY RoomStepIsPresenceStep, NextTypeOK DEF RoomTypeOK
<1>2. /\ Len(published) \in Nat /\ Len(published') \in Nat
      /\ Len(published) <= Len(published')
  BY <1>1, ChannelGrows
<1>3. ASSUME NEW c \in Conn,
             RoomAccept(c) \/ RoomHandlerStep(c) \/ RoomClientLeaves(c) \/ RoomHandlerFails(c)
      PROVE  RoomTypeOK'
  <2>1. HandlerMoves(c)
    BY <1>3, HandlersMove
  <2>2. registered' \subseteq Conn /\ UNCHANGED <<listening, cursor, sending, dead, last>>
    BY <2>1 DEF HandlerMoves, relayVars, RoomTypeOK
  <2>3. /\ view' \in [Conn -> SUBSET User] /\ rest' \in [Conn -> SUBSET User]
        /\ greetedAt' \in [Conn -> 0 .. Len(published)]
    <3>1. CASE RoomGreet(c)
      BY <3>1, <1>1 DEF RoomGreet, RoomTypeOK, TypeOK
    <3>2. CASE ~RoomGreet(c)
      BY <3>2, <1>3 DEF RoomAccept, RoomHandlerStep, RoomRedisStep, RoomDisconnect, RoomClientLeaves,
         RoomHandlerFails, roomVars, pageVars, RoomTypeOK
    <3> QED
      BY <3>1, <3>2
  <2> QED
    BY <1>1, <1>2, <2>2, <2>3 DEF RoomTypeOK
<1>4. ASSUME NEW i \in Instance, Take(i) PROVE RoomTypeOK'
  BY <1>1, <1>2, <1>4 DEF Take, RoomTypeOK, pageVars, vars
<1>5. ASSUME NEW i \in Instance, NEW c \in Conn, Send(i, c) PROVE RoomTypeOK'
  <2>1. cursor[i] + 1 \in 1 .. Len(published) /\ cursor[i] + 1 \in 0 .. Len(published)
    <3>1. cursor[i] \in 0 .. Len(published)
      BY DEF RoomTypeOK
    <3>2. cursor[i] < Len(published)
      BY <1>5 DEF Send, Loops
    <3> QED
      BY <1>2, <3>1, <3>2
  <2>2. Shown(view[c], published[cursor[i] + 1]) \in SUBSET User
    BY <1>1, <2>1, ShownTyped DEF RoomTypeOK
  <2>3. view' \in [Conn -> SUBSET User] /\ last' \in [Conn -> 0 .. Len(published)]
    BY <1>5, <2>1, <2>2 DEF Send, RoomTypeOK
  <2> QED
    BY <1>1, <1>5, <2>1, <2>3 DEF Send, EndLoop, RoomTypeOK, vars
<1>6. ASSUME NEW i \in Instance, NEW c \in Conn, SendRaises(i, c) PROVE RoomTypeOK'
  <2>1. cursor[i] + 1 \in 0 .. Len(published)
    <3>1. cursor[i] \in 0 .. Len(published)
      BY DEF RoomTypeOK
    <3>2. cursor[i] < Len(published)
      BY <1>6 DEF SendRaises, Loops
    <3> QED
      BY <1>2, <3>1, <3>2
  <2>2. dead[i] \cup {c} \in SUBSET Conn /\ sending[i] \ {c} \in SUBSET Conn
    BY DEF RoomTypeOK
  <2>3. /\ registered' \subseteq Conn /\ cursor' \in [Instance -> 0 .. Len(published)]
        /\ dead' \in [Instance -> SUBSET Conn] /\ sending' \in [Instance -> SUBSET Conn]
    BY <1>6, <2>1, <2>2 DEF SendRaises, EndLoop, RoomTypeOK
  <2>4. UNCHANGED <<vars, listening, view, rest, last, greetedAt>>
    BY <1>6 DEF SendRaises, pageVars
  <2> QED
    BY <1>1, <2>3, <2>4 DEF RoomTypeOK, vars
<1>7. ASSUME NEW i \in Instance, ListenerFails(i) PROVE RoomTypeOK'
  BY <1>1, <1>7 DEF ListenerFails, RoomTypeOK, pageVars, vars
<1>8. ASSUME NEW i \in Instance, RoomCrash(i) PROVE RoomTypeOK'
  <2>1. published' = published
    BY <1>8 DEF RoomCrash, Crash
  <2> QED
    BY <1>1, <1>2, <1>8, <2>1 DEF RoomCrash, RoomTypeOK, pageVars
<1>9. ASSUME NEW c \in Conn, GetPresence(c) PROVE RoomTypeOK'
  <2>1. fields \in SUBSET User
    BY <1>1 DEF TypeOK
  <2> QED
    BY <1>1, <1>9, <2>1 DEF GetPresence, RoomTypeOK, relayVars, vars
<1>10. CASE UNCHANGED allVars
  BY <1>1, <1>10 DEF allVars, roomVars, vars, RoomTypeOK
<1> QED
  BY <1>3, <1>4, <1>5, <1>6, <1>7, <1>8, <1>9, <1>10 DEF RoomNext, Relay


-----------------------------------------------------------------------------
(* The relay.                                                              *)

(* A loop of sends runs over sockets of its own process, for an event that *)
(* is there; those that failed have gone.                                  *)
LEMMA NextLoops == RoomTypeOK /\ Loops /\ [RoomNext]_allVars => Loops'
<1> SUFFICES ASSUME RoomTypeOK, Loops, [RoomNext]_allVars, NEW j \in Instance
             PROVE  /\ sending'[j] \subseteq HostedBy(j)
                    /\ dead'[j] \subseteq gone'
                    /\ sending'[j] = {} => dead'[j] = {}
                    /\ sending'[j] # {} => cursor'[j] < Len(published')
  BY DEF Loops, HostedBy
<1>1. TypeOK /\ [Next]_vars
  BY RoomStepIsPresenceStep DEF RoomTypeOK
<1>2. /\ Len(published) \in Nat /\ Len(published') \in Nat
      /\ Len(published) <= Len(published') /\ gone \subseteq gone'
  BY <1>1, ChannelGrows, PresenceSteps
<1>3. /\ sending[j] \subseteq HostedBy(j) /\ dead[j] \subseteq gone
      /\ sending[j] = {} => dead[j] = {}
      /\ sending[j] # {} => cursor[j] < Len(published)
      /\ cursor[j] \in Nat
  <2>1. cursor \in [Instance -> 0..Len(published)]
    BY DEF RoomTypeOK
  <2>2. cursor[j] \in Nat
    BY <1>2, <2>1
  <2> QED
    BY <2>2 DEF Loops
<1>4. ASSUME NEW c \in Conn,
             RoomAccept(c) \/ RoomHandlerStep(c) \/ RoomClientLeaves(c) \/ RoomHandlerFails(c)
      PROVE  UNCHANGED relayVars
  BY <1>4, HandlersMove DEF HandlerMoves
<1>5. CASE UNCHANGED relayVars
  BY <1>2, <1>3, <1>5 DEF relayVars
<1>6. ASSUME NEW i \in Instance, Take(i)
      PROVE  /\ sending'[j] \subseteq HostedBy(j) /\ dead'[j] \subseteq gone'
             /\ sending'[j] = {} => dead'[j] = {}
             /\ sending'[j] # {} => cursor'[j] < Len(published')
  BY <1>2, <1>3, <1>6 DEF Take, Relaying, RoomTypeOK, vars
<1>7. ASSUME NEW i \in Instance, NEW c \in Conn, Send(i, c) \/ SendRaises(i, c)
      PROVE  /\ sending'[j] \subseteq HostedBy(j) /\ dead'[j] \subseteq gone'
             /\ sending'[j] = {} => dead'[j] = {}
             /\ sending'[j] # {} => cursor'[j] < Len(published')
  <2>1. CASE i # j
    BY <1>2, <1>3, <1>7, <2>1 DEF Send, SendRaises, EndLoop, RoomTypeOK, vars
  <2>2. CASE i = j
    BY <1>2, <1>3, <1>7, <2>2 DEF Send, SendRaises, EndLoop, RoomTypeOK, vars
  <2> QED
    BY <2>1, <2>2
<1>8. ASSUME NEW i \in Instance, ListenerFails(i) PROVE UNCHANGED <<sending, dead, cursor, vars>>
  BY <1>8 DEF ListenerFails
<1>9. ASSUME NEW i \in Instance, RoomCrash(i)
      PROVE  /\ sending'[j] \subseteq HostedBy(j) /\ dead'[j] \subseteq gone'
             /\ sending'[j] = {} => dead'[j] = {}
             /\ sending'[j] # {} => cursor'[j] < Len(published')
  BY <1>2, <1>3, <1>9 DEF RoomCrash, RoomTypeOK
<1>10. CASE UNCHANGED allVars
  BY <1>5, <1>10 DEF allVars, roomVars, relayVars
<1>11. CASE UNCHANGED <<sending, dead, cursor, vars>>
  BY <1>2, <1>3, <1>11 DEF vars
<1>12. ASSUME NEW c \in Conn, GetPresence(c) PROVE UNCHANGED relayVars
  BY <1>12 DEF GetPresence
<1> QED
  BY <1>4, <1>5, <1>6, <1>7, <1>8, <1>9, <1>10, <1>11, <1>12 DEF RoomNext, Relay


(* A step of a listener moves a socket in line by one event, when it is    *)
(* that socket's turn, drops it from the line, or leaves it where it is.   *)
LEMMA RelayMoves ==
  ASSUME RoomTypeOK, Loops, NEW c \in Conn, InLine(c), NEW i \in Instance, Relay(i)
  PROVE  /\ UNCHANGED <<vars, greetedAt>>
         /\ \/ Pos(c)' = Pos(c) /\ last'[c] = last[c] /\ view'[c] = view[c]
            \/ ~InLine(c)' /\ c \in gone /\ last'[c] = last[c]
            \/ /\ Pos(c) \in Nat /\ Pos(c) + 1 \in 1 .. Len(published)
               /\ c \in sending[Host[c]] /\ Pos(c)' = Pos(c) + 1 /\ last'[c] = Pos(c) + 1
               /\ view'[c] = IF c \in gone THEN view[c] ELSE Shown(view[c], published[Pos(c) + 1])
<1> DEFINE h == Host[c]
<1>1. h \in Instance
  BY HostAssumption
<1>2. Len(published) \in Nat
  BY DEF RoomTypeOK, TypeOK
<1>3. /\ cursor[h] \in Nat /\ (sending[h] = {} => dead[h] = {})
      /\ (sending[h] # {} => cursor[h] < Len(published)) /\ dead[h] \subseteq gone
  <2>1. cursor[h] \in 0 .. Len(published)
    BY <1>1 DEF RoomTypeOK
  <2> QED
    BY <1>1, <1>2, <2>1 DEF Loops
<1>4. UNCHANGED <<vars, greetedAt>>
  BY DEF Relay, Take, Send, SendRaises, pageVars
<1>5. CASE Take(i)
  <2>1. last'[c] = last[c] /\ view'[c] = view[c]
    BY <1>5 DEF Take, pageVars
  <2>2. CASE i # h
    <3>1. sending'[h] = sending[h] /\ cursor'[h] = cursor[h]
      BY <1>1, <1>5, <2>2 DEF Take, RoomTypeOK
    <3> QED
      BY <1>4, <2>1, <3>1 DEF Pos
  <2>3. CASE i = h
    <3>1. sending[h] = {} /\ dead[h] = {}
      BY <1>5, <2>3 DEF Take, Relaying
    <3>2. c \in registered \cap HostedBy(h)
      BY <3>1 DEF InLine, HostedBy
    <3>3. c \in sending'[h] /\ cursor'[h] = cursor[h]
      BY <1>1, <1>5, <2>3, <3>2 DEF Take, RoomTypeOK
    <3>4. Pos(c)' = Pos(c)
      BY <3>1, <3>3 DEF Pos
    <3> QED
      BY <1>4, <2>1, <3>4
  <2> QED
    BY <1>4, <2>2, <2>3
<1>6. ASSUME NEW e \in Conn, Send(i, e) \/ SendRaises(i, e), ~(i = h /\ e = c)
      PROVE  Pos(c)' = Pos(c) /\ last'[c] = last[c] /\ view'[c] = view[c]
  <2>2. e # c
    <3>1. sending[i] \subseteq HostedBy(i) /\ e \in sending[i]
      BY <1>6 DEF Loops, Send, SendRaises
    <3> QED
      BY <1>6, <3>1 DEF HostedBy
  <2>3. last'[c] = last[c] /\ view'[c] = view[c]
    BY <1>6, <2>2 DEF Send, SendRaises, pageVars, RoomTypeOK
  <2>4. CASE i # h
    BY <1>1, <1>6, <2>3, <2>4 DEF Send, SendRaises, EndLoop, Pos, RoomTypeOK
  <2>5. CASE i = h
    <3>1. e \in sending[h] /\ sending'[h] = sending[h] \ {e}
      BY <1>1, <1>6, <2>5 DEF Send, SendRaises, RoomTypeOK
    <3>2. cursor'[h] = IF sending'[h] = {} THEN cursor[h] + 1 ELSE cursor[h]
      BY <1>1, <1>6, <2>5, <3>1 DEF Send, SendRaises, EndLoop, RoomTypeOK
    <3> QED
      BY <1>3, <2>2, <2>3, <3>1, <3>2 DEF Pos
  <2> QED
    BY <2>4, <2>5
<1>7. CASE Send(h, c)
  <2>1. c \in sending[h] /\ sending'[h] = sending[h] \ {c}
    BY <1>1, <1>7 DEF Send, RoomTypeOK
  <2>2. cursor'[h] = IF sending'[h] = {} THEN cursor[h] + 1 ELSE cursor[h]
    BY <1>1, <1>7, <2>1 DEF Send, EndLoop, RoomTypeOK
  <2>3. Pos(c) = cursor[h] /\ Pos(c)' = cursor[h] + 1 /\ cursor[h] + 1 \in 1 .. Len(published)
    BY <1>2, <1>3, <2>1, <2>2 DEF Pos
  <2>4. /\ last'[c] = cursor[h] + 1
        /\ view'[c] = IF c \in gone THEN view[c] ELSE Shown(view[c], published[cursor[h] + 1])
    BY <1>7 DEF Send, RoomTypeOK
  <2> QED
    BY <1>3, <1>4, <2>1, <2>3, <2>4
<1>8. CASE SendRaises(h, c)
  <2>1. c \in gone /\ c \notin sending'[h] /\ last'[c] = last[c]
    BY <1>1, <1>8 DEF SendRaises, RoomTypeOK, pageVars
  <2>2. c \notin registered' \/ c \in dead'[h]
    BY <1>1, <1>8 DEF SendRaises, EndLoop, RoomTypeOK
  <2> QED
    BY <1>4, <2>1, <2>2 DEF InLine
<1> QED
  BY <1>4, <1>5, <1>6, <1>7, <1>8 DEF Relay


(* Who joins the line, and who leaves it, by a step of Relay.              *)
LEMMA RelayLine ==
  ASSUME RoomTypeOK, Loops, NEW c \in Conn, NEW i \in Instance, Relay(i)
  PROVE  /\ InLine(c)' => InLine(c)
         /\ registered' \subseteq registered
         /\ c \in registered /\ c \notin gone => c \in registered'
         /\ ~InLine(c) => last'[c] = last[c]
<1> DEFINE h == Host[c]
<1>1. h \in Instance /\ dead[h] \subseteq gone /\ (sending[h] = {} => dead[h] = {})
  BY HostAssumption DEF Loops
<1>2. ASSUME Take(i)
      PROVE  /\ InLine(c)' => InLine(c)
             /\ registered' \subseteq registered
             /\ c \in registered /\ c \notin gone => c \in registered'
  BY <1>1, <1>2 DEF Take, InLine, RoomTypeOK, HostedBy, Relaying
<1>3. ASSUME NEW e \in Conn, Send(i, e) \/ SendRaises(i, e)
      PROVE  /\ InLine(c)' => InLine(c)
             /\ registered' \subseteq registered
             /\ c \in registered /\ c \notin gone => c \in registered'
  <2>1. PICK failed \in SUBSET Conn :
          /\ failed = dead[i] \/ failed = dead[i] \cup {e}
          /\ failed \subseteq gone
          /\ EndLoop(i, sending[i] \ {e}, failed)
    BY <1>3 DEF Send, SendRaises, Loops, RoomTypeOK
  <2>2. e \in sending[i] /\ sending' = [sending EXCEPT ![i] = @ \ {e}]
    BY <1>3 DEF Send, SendRaises
  <2>3. \/ registered' = registered \ failed /\ dead' = [dead EXCEPT ![i] = {}]
        \/ registered' = registered /\ dead' = [dead EXCEPT ![i] = failed]
    BY <2>1 DEF EndLoop
  <2>4. registered' \subseteq registered /\ (c \in registered /\ c \notin gone => c \in registered')
    BY <2>1, <2>3
  <2>5. CASE i # h
    BY <1>1, <2>2, <2>3, <2>4, <2>5 DEF InLine, RoomTypeOK
  <2>6. CASE i = h
    <3>1. sending'[h] \subseteq sending[h]
      BY <1>1, <2>2, <2>6 DEF RoomTypeOK
    <3>2. registered' \ dead'[h] \subseteq registered \ dead[h]
      BY <1>1, <2>1, <2>3, <2>6 DEF RoomTypeOK
    <3> QED
      BY <2>4, <3>1, <3>2 DEF InLine
  <2> QED
    BY <2>5, <2>6
<1>4. ASSUME ~InLine(c) PROVE last'[c] = last[c]
  <2>1. \A e \in Conn : Send(i, e) => e # c
    <3>1. \A e \in Conn : Send(i, e) => e \in sending[i] /\ Host[e] = i
      BY DEF Send, Loops, HostedBy
    <3> QED
      BY <1>4, <3>1 DEF InLine
  <2> QED
    BY <2>1 DEF Relay, Take, Send, SendRaises, pageVars, RoomTypeOK
<1> QED
  BY <1>2, <1>3, <1>4 DEF Relay

(* What a socket has been sent is in step with its process.                *)
LEMMA NextInStep == RoomTypeOK /\ Loops /\ InStep /\ Departed /\ [RoomNext]_allVars => InStep'
<1> SUFFICES ASSUME RoomTypeOK, Loops, InStep, Departed, [RoomNext]_allVars, NEW c \in Conn
             PROVE  /\ pc'[c] = "idle" =>
                         last'[c] = 0 /\ c \notin registered' \cup sending'[Host[c]]
                    /\ pc'[c] = "idle" \/ c \in registered' \cup gone'
                    /\ InLine(c)' => last'[c] \in {0, Pos(c)'}
  BY DEF InStep
<1> DEFINE h == Host[c]
<1>1. TypeOK /\ TypeOK' /\ [Next]_vars /\ h \in Instance
  BY RoomStepIsPresenceStep, NextTypeOK, HostAssumption DEF RoomTypeOK
<1>2. gone \subseteq gone' /\ (pc'[c] = "idle" => pc[c] = "idle")
  BY <1>1, PresenceSteps
<1>3. /\ pc[c] = "idle" => last[c] = 0 /\ c \notin registered \cup sending[h]
      /\ pc[c] = "idle" \/ c \in registered \cup gone
      /\ InLine(c) => last[c] \in {0, Pos(c)}
  BY DEF InStep
<1>4. ASSUME NEW d \in Conn,
             RoomAccept(d) \/ RoomHandlerStep(d) \/ RoomClientLeaves(d) \/ RoomHandlerFails(d)
      PROVE  /\ pc'[c] = "idle" => last'[c] = 0 /\ c \notin registered' \cup sending'[h]
             /\ pc'[c] = "idle" \/ c \in registered' \cup gone'
             /\ InLine(c)' => last'[c] \in {0, Pos(c)'}
  <2>1. HandlerMoves(d)
    BY <1>4, HandlersMove
  <2>2. last'[c] = last[c] /\ Pos(c)' = Pos(c) /\ UNCHANGED <<sending, dead>>
    BY <2>1 DEF HandlerMoves, relayVars, Pos
  <2>3. CASE d # c
    <3>1. pc'[c] = pc[c] /\ (c \in registered' <=> c \in registered)
      BY <2>1, <2>3 DEF HandlerMoves
    <3> QED
      BY <1>2, <1>3, <2>2, <3>1 DEF InLine
  <2>4. CASE d = c
    <3>1. CASE RoomAccept(c)
      BY <1>1, <1>3, <2>2, <3>1 DEF RoomAccept, Accept, Goto, TypeOK
    <3>2. CASE ~RoomAccept(c)
      <4>1. pc[c] # "idle" /\ pc'[c] # "idle"
        BY <1>1, <1>2, <1>4, <2>4, <3>2 DEF RoomHandlerStep, RoomRedisStep, RoomGreet, RoomDisconnect,
           RoomClientLeaves, RoomHandlerFails, Join, ListOnline, SendSnapshot, Announce, Disconnect,
           Decrement, Delete, Farewell, ClientLeaves, SendFails, RedisFails, Goto, Over
      <4>2. registered' \subseteq registered /\ (c \in registered => c \in registered' \cup gone)
        BY <2>1, <2>4, <4>1 DEF HandlerMoves
      <4> QED
        BY <1>2, <1>3, <2>2, <4>1, <4>2 DEF InLine
    <3> QED
      BY <3>1, <3>2
  <2> QED
    BY <2>3, <2>4
<1>5. ASSUME NEW i \in Instance, Relay(i)
      PROVE  /\ pc'[c] = "idle" => last'[c] = 0 /\ c \notin registered' \cup sending'[h]
             /\ pc'[c] = "idle" \/ c \in registered' \cup gone'
             /\ InLine(c)' => last'[c] \in {0, Pos(c)'}
  <2>1. /\ InLine(c)' => InLine(c)
        /\ registered' \subseteq registered
        /\ c \in registered /\ c \notin gone => c \in registered'
    BY <1>5, RelayLine
  <2>2. UNCHANGED vars
    BY <1>5 DEF Relay, Take, Send, SendRaises
  <2>3. pc'[c] = pc[c] /\ gone' = gone
    BY <2>2 DEF vars
  <2>4. CASE InLine(c)
    <3>1. pc[c] # "idle"
      BY <1>3, <2>4 DEF InLine
    <3>2. InLine(c)' => last'[c] \in {0, Pos(c)'}
      BY <1>3, <1>5, <2>4, RelayMoves
    <3> QED
      BY <1>3, <2>1, <2>3, <3>1, <3>2
  <2>5. CASE ~InLine(c)
    <3>1. last'[c] = last[c]
      BY <1>5, <2>5, RelayLine
    <3>2. c \notin sending'[h]
      BY <2>1, <2>5 DEF InLine
    <3> QED
      BY <1>3, <2>1, <2>3, <2>5, <3>1, <3>2
  <2> QED
    BY <2>4, <2>5
<1>6. ASSUME NEW i \in Instance, RoomCrash(i)
      PROVE  /\ pc'[c] = "idle" => last'[c] = 0 /\ c \notin registered' \cup sending'[h]
             /\ pc'[c] = "idle" \/ c \in registered' \cup gone'
             /\ InLine(c)' => last'[c] \in {0, Pos(c)'}
  <2>1. last'[c] = last[c]
    BY <1>6 DEF RoomCrash, pageVars
  <2>2. CASE h # i
    <3>1. UNCHANGED <<sending[h], dead[h], cursor[h]>> /\ (c \in registered' <=> c \in registered)
      BY <1>1, <1>6, <2>2 DEF RoomCrash, RoomTypeOK, HostedBy
    <3>2. pc'[c] = pc[c]
      BY <1>1, <1>6, <2>2 DEF RoomCrash, Crash, TypeOK
    <3> QED
      BY <1>2, <1>3, <2>1, <3>1, <3>2 DEF InLine, Pos
  <2>3. CASE h = i
    <3>1. sending'[h] = {} /\ c \notin registered'
      BY <1>1, <1>6, <2>3 DEF RoomCrash, RoomTypeOK, HostedBy
    <3>2. pc'[c] = "idle" \/ c \in gone'
      <4>1. CASE pc[c] \in {"closed", "dead"}
        BY <1>2, <4>1 DEF Departed
      <4>2. CASE pc[c] \notin Over
        BY <1>6, <2>3, <4>2 DEF RoomCrash, Crash
      <4>3. CASE pc[c] = "idle"
        BY <1>1, <1>6, <4>3 DEF RoomCrash, Crash, TypeOK, Over
      <4> QED
        BY <4>1, <4>2, <4>3 DEF Over
    <3> QED
      BY <1>2, <1>3, <2>1, <3>1, <3>2 DEF InLine
  <2> QED
    BY <2>2, <2>3
<1>7. ASSUME NEW i \in Instance, ListenerFails(i)
      PROVE  UNCHANGED <<vars, registered, sending, dead, cursor, last>>
  BY <1>7 DEF ListenerFails, pageVars
<1>8. CASE UNCHANGED allVars
  BY <1>3, <1>8 DEF allVars, vars, roomVars, InLine, Pos
<1>9. CASE UNCHANGED <<vars, registered, sending, dead, cursor, last>>
  BY <1>3, <1>9 DEF vars, InLine, Pos
<1>10. ASSUME NEW d \in Conn, GetPresence(d)
       PROVE  UNCHANGED <<vars, registered, sending, dead, cursor, last>>
  BY <1>10 DEF GetPresence, relayVars
<1> QED
  BY <1>4, <1>5, <1>6, <1>7, <1>8, <1>9, <1>10 DEF RoomNext

-----------------------------------------------------------------------------
(* The theorems.                                                           *)

(* Every step keeps the invariant.                                         *)
LEMMA NextRoomInv == RoomInv /\ [RoomNext]_allVars => RoomInv'
<1> SUFFICES ASSUME RoomInv, [RoomNext]_allVars PROVE RoomInv'
  OBVIOUS
<1>1. TypeOK /\ [Next]_vars
  BY RoomStepIsPresenceStep DEF RoomInv, RoomTypeOK
<1> QED
  BY <1>1, NextRoomTypeOK, NextLoops, NextInStep, NextDeparted, NextAnnouncers DEF RoomInv

(* The invariant holds throughout: types, loops, and sockets in step.      *)
THEOREM RoomInvHolds == RoomSpec => []RoomInv
BY InitRoomInv, NextRoomInv, PTL DEF RoomSpec

(* The variables of the room keep their types.                             *)
THEOREM RoomTypeCorrect == RoomSpec => []RoomTypeOK
<1>1. RoomInv => RoomTypeOK
  BY DEF RoomInv
<1> QED
  BY <1>1, RoomInvHolds, PTL

(* Whichever sockets fail, connect or disconnect during a loop of sends, a *)
(* live client that was sent an event has all its process is done with.    *)
THEOREM NoneLeftBehindEver == RoomSpec => []NoneLeftBehind
<1>1. RoomInv => NoneLeftBehind
  <2> SUFFICES ASSUME RoomInv, NEW c \in registered \ gone, last[c] # 0
               PROVE  last[c] >= cursor[Host[c]]
    BY DEF NoneLeftBehind
  <2>1. c \in Conn /\ Host[c] \in Instance
    BY HostAssumption DEF RoomInv, RoomTypeOK
  <2>2. cursor[Host[c]] \in 0 .. Len(published) /\ Len(published) \in Nat
    BY <2>1 DEF RoomInv, RoomTypeOK, TypeOK
  <2>3. InLine(c)
    BY <2>1 DEF RoomInv, Loops, InLine
  <2>4. last[c] = Pos(c)
    BY <2>1, <2>3 DEF RoomInv, InStep
  <2> QED
    BY <2>2, <2>4 DEF Pos
<1> QED
  BY <1>1, RoomInvHolds, PTL

(* A socket is sent something only when it is its turn in a loop.          *)
LEMMA LastMoves ==
  ASSUME RoomInv, [RoomNext]_allVars, NEW c \in Conn, last'[c] # last[c]
  PROVE  /\ InLine(c) /\ Pos(c) \in Nat /\ Pos(c) + 1 \in 1 .. Len(published)
         /\ last'[c] = Pos(c) + 1 /\ last[c] \in {0, Pos(c)}
<1>1. RoomTypeOK /\ Loops /\ InStep
  BY DEF RoomInv
<1>2. ASSUME NEW d \in Conn,
             RoomAccept(d) \/ RoomHandlerStep(d) \/ RoomClientLeaves(d) \/ RoomHandlerFails(d)
      PROVE  FALSE
  BY <1>1, <1>2, HandlersMove DEF HandlerMoves
<1>3. PICK i \in Instance : Relay(i)
  BY <1>2 DEF RoomNext, GetPresence, ListenerFails, RoomCrash, allVars, roomVars, pageVars
<1>4. InLine(c)
  BY <1>1, <1>3, RelayLine
<1> QED
  BY <1>1, <1>3, <1>4, RelayMoves DEF InStep

(* Every socket hears a run of the channel without a gap or a repetition.  *)
THEOREM ContiguousRelayEver == RoomSpec => ContiguousRelay
<1>1. RoomInv /\ [RoomNext]_allVars =>
        \A c \in Conn : last'[c] # last[c] => last[c] = 0 \/ last'[c] = last[c] + 1
  BY LastMoves
<1> QED
  BY <1>1, RoomInvHolds, PTL DEF RoomSpec, ContiguousRelay

(* No socket hears of its own join before it has the snapshot.             *)
THEOREM OwnJoinAfterSnapshotEver == RoomSpec => OwnJoinAfterSnapshot
<1>1. RoomInv /\ [RoomNext]_allVars =>
        \A c \in Conn : last'[c] # last[c] /\ published[last'[c]].by = c => Greeted(c)
  <2> SUFFICES ASSUME RoomInv, [RoomNext]_allVars, NEW c \in Conn,
                      last'[c] # last[c], published[last'[c]].by = c
               PROVE  Greeted(c)
    OBVIOUS
  <2>1. last'[c] \in 1 .. Len(published)
    BY LastMoves
  <2> QED
    BY <2>1 DEF RoomInv, Announcers
<1> QED
  BY <1>1, RoomInvHolds, PTL DEF RoomSpec, OwnJoinAfterSnapshot

-----------------------------------------------------------------------------
(* What the pages show.                                                    *)

(* A user with a single connection, on the channel: nothing yet, the join, *)
(* or the join and then the leave.                                         *)
Sole(d) == \A x \in Conn : Owner[x] = Owner[d] => x = d

Silent(d) == \A k \in 1 .. Len(published) : published[k].user # Owner[d]

OnlyJoined(d) == \E k \in 1 .. Len(published) :
  /\ published[k].user = Owner[d] /\ published[k].type = "presence_joined"
  /\ \A j \in 1 .. Len(published) : published[j].user = Owner[d] => j = k

LeftLast(d) == \E k \in 1 .. Len(published) :
  /\ published[k].user = Owner[d] /\ published[k].type = "presence_left"
  /\ \A j \in 1 .. Len(published) : published[j].user = Owner[d] =>
       j = k \/ (j < k /\ published[j].type = "presence_joined")

(* Unless its handler died, such a user's place in the hash and on the     *)
(* channel follow from where the handler is.                               *)
Alone(d) ==
  /\ Owner[d] \in fields <=> pc[d] \in Holding \cup {"deleting"}
  /\ refs[Owner[d]] = IF pc[d] \in Holding THEN 1 ELSE 0
  /\ pc[d] \in {"listing", "greeting", "announcing"} => count[d] = 1
  /\ pc[d] \in {"idle", "joining", "listing", "greeting", "announcing"} => Silent(d)
  /\ pc[d] \in {"open", "leaving", "deleting", "farewell"} => OnlyJoined(d)
  /\ pc[d] = "closed" => LeftLast(d)

Solo == \A d \in Conn : Sole(d) /\ pc[d] # "dead" => Alone(d)

(* Another user's event changes none of it.                                *)
LEMMA OthersSpeak ==
  ASSUME TypeOK, NEW d \in Conn, NEW e \in Event, e.user # Owner[d],
         published' = Append(published, e)
  PROVE  /\ Silent(d) => Silent(d)'
         /\ OnlyJoined(d) => OnlyJoined(d)'
         /\ LeftLast(d) => LeftLast(d)'
<1>1. /\ Len(published) \in Nat /\ Len(published') = Len(published) + 1
      /\ published'[Len(published) + 1] = e
      /\ \A k \in 1 .. Len(published) : published'[k] = published[k]
  BY DEF TypeOK
<1>2. \A k \in 1 .. Len(published') :
        published'[k].user = Owner[d] => k \in 1 .. Len(published)
  BY <1>1
<1>3. \A k \in 1 .. Len(published) : k \in 1 .. Len(published')
  BY <1>1
<1>4. Silent(d) => Silent(d)'
  BY <1>1, <1>2 DEF Silent
<1>5. ASSUME OnlyJoined(d) PROVE OnlyJoined(d)'
  <2>1. PICK k \in 1 .. Len(published) :
          /\ published[k].user = Owner[d] /\ published[k].type = "presence_joined"
          /\ \A j \in 1 .. Len(published) : published[j].user = Owner[d] => j = k
    BY <1>5 DEF OnlyJoined
  <2>2. k \in 1 .. Len(published') /\ published'[k] = published[k]
    BY <1>1, <1>3
  <2>3. \A j \in 1 .. Len(published') : published'[j].user = Owner[d] => j = k
    BY <1>1, <1>2, <2>1
  <2> QED
    BY <2>1, <2>2, <2>3 DEF OnlyJoined
<1>6. ASSUME LeftLast(d) PROVE LeftLast(d)'
  <2>1. PICK k \in 1 .. Len(published) :
          /\ published[k].user = Owner[d] /\ published[k].type = "presence_left"
          /\ \A j \in 1 .. Len(published) : published[j].user = Owner[d] =>
               j = k \/ (j < k /\ published[j].type = "presence_joined")
    BY <1>6 DEF LeftLast
  <2>2. k \in 1 .. Len(published') /\ published'[k] = published[k]
    BY <1>1, <1>3
  <2>3. \A j \in 1 .. Len(published') : published'[j].user = Owner[d] =>
          j = k \/ (j < k /\ published'[j].type = "presence_joined")
    BY <1>1, <1>2, <2>1
  <2> QED
    BY <2>1, <2>2, <2>3 DEF LeftLast
<1> QED
  BY <1>4, <1>5, <1>6

(* Its own events bring it from one to the next.                           *)
LEMMA OwnWords ==
  ASSUME TypeOK, NEW d \in Conn
  PROVE  /\ Silent(d) /\ published' = Append(published, Joined(d)) => OnlyJoined(d)'
         /\ OnlyJoined(d) /\ published' = Append(published, Left(d)) => LeftLast(d)'
<1>1. /\ Joined(d) \in Event /\ Joined(d).user = Owner[d] /\ Joined(d).type = "presence_joined"
      /\ Left(d) \in Event /\ Left(d).user = Owner[d] /\ Left(d).type = "presence_left"
  BY EventsTyped DEF Joined, Left
<1>2. ASSUME NEW e \in Event, published' = Append(published, e)
      PROVE  /\ Len(published) \in Nat /\ Len(published') = Len(published) + 1
             /\ published'[Len(published) + 1] = e
             /\ \A k \in 1 .. Len(published) : published'[k] = published[k]
  BY <1>2 DEF TypeOK
<1>3. ASSUME Silent(d), published' = Append(published, Joined(d)) PROVE OnlyJoined(d)'
  <2>1. /\ Len(published) \in Nat /\ Len(published') = Len(published) + 1
        /\ published'[Len(published) + 1] = Joined(d)
        /\ \A k \in 1 .. Len(published) : published'[k] = published[k]
    BY <1>1, <1>2, <1>3
  <2>2. \A j \in 1 .. Len(published') : published'[j].user = Owner[d] => j = Len(published) + 1
    BY <1>3, <2>1 DEF Silent
  <2>3. Len(published) + 1 \in 1 .. Len(published')
    BY <2>1
  <2> QED
    BY <1>1, <2>1, <2>2, <2>3 DEF OnlyJoined
<1>4. ASSUME OnlyJoined(d), published' = Append(published, Left(d)) PROVE LeftLast(d)'
  <2>1. /\ Len(published) \in Nat /\ Len(published') = Len(published) + 1
        /\ published'[Len(published) + 1] = Left(d)
        /\ \A k \in 1 .. Len(published) : published'[k] = published[k]
    BY <1>1, <1>2, <1>4
  <2>2. PICK k \in 1 .. Len(published) :
          /\ published[k].user = Owner[d] /\ published[k].type = "presence_joined"
          /\ \A j \in 1 .. Len(published) : published[j].user = Owner[d] => j = k
    BY <1>4 DEF OnlyJoined
  <2>3. \A j \in 1 .. Len(published') : published'[j].user = Owner[d] =>
          j = Len(published) + 1
            \/ (j < Len(published) + 1 /\ published'[j].type = "presence_joined")
    BY <2>1, <2>2
  <2>4. Len(published) + 1 \in 1 .. Len(published')
    BY <2>1
  <2> QED
    BY <1>1, <2>1, <2>3, <2>4 DEF LeftLast
<1> QED
  BY <1>3, <1>4

(* What leaves such a user alone changes none of it.                       *)
LEMMA AloneFrame ==
  ASSUME TypeOK, NEW d \in Conn, Alone(d),
         pc'[d] = pc[d], count'[d] = count[d], refs'[Owner[d]] = refs[Owner[d]],
         Owner[d] \in fields' <=> Owner[d] \in fields,
         published' = published
           \/ \E e \in Event : e.user # Owner[d] /\ published' = Append(published, e)
  PROVE  Alone(d)'
<1>1. /\ Silent(d) => Silent(d)'
      /\ OnlyJoined(d) => OnlyJoined(d)'
      /\ LeftLast(d) => LeftLast(d)'
  <2>1. CASE published' = published
    BY <2>1 DEF Silent, OnlyJoined, LeftLast
  <2> QED
    BY <2>1, OthersSpeak
<1> QED
  BY <1>1 DEF Alone

(* Every step keeps it.                                                    *)
LEMMA NextSolo == TypeOK /\ Solo /\ [Next]_vars => Solo'
<1> SUFFICES ASSUME TypeOK, Solo, [Next]_vars, NEW d \in Conn, Sole(d), pc'[d] # "dead"
             PROVE  Alone(d)'
  BY DEF Solo, Sole
<1>1. Owner[d] \in User /\ refs[Owner[d]] \in Int
  BY OwnerAssumption DEF TypeOK
<1>2. ASSUME pc[d] # "dead" PROVE Alone(d)
  BY <1>2 DEF Solo
<1>3. ASSUME NEW e \in Conn, e # d, Accept(e) \/ HandlerStep(e) PROVE Alone(d)'
  <2>1. Owner[e] # Owner[d] /\ Owner[e] \in User
    BY <1>3, OwnerAssumption DEF Sole
  <2>2. /\ Joined(e) \in Event /\ Joined(e).user # Owner[d]
        /\ Left(e) \in Event /\ Left(e).user # Owner[d]
    BY <2>1, EventsTyped DEF Joined, Left
  <2>3. /\ pc'[d] = pc[d] /\ count'[d] = count[d]
        /\ refs'[Owner[d]] = refs[Owner[d]] /\ (Owner[d] \in fields' <=> Owner[d] \in fields)
    BY <1>1, <1>3, <2>1 DEF HandlerStep, Accept, Join, ListOnline, SendSnapshot, Announce, Disconnect,
       Decrement, Delete, Farewell, Goto, HIncrBy, HDel, TypeOK
  <2>4. published' = published \/ published' = Append(published, Joined(e))
          \/ published' = Append(published, Left(e))
    BY <1>3 DEF HandlerStep, Accept, Join, ListOnline, SendSnapshot, Announce, Disconnect,
       Decrement, Delete, Farewell
  <2>5. published' = published
           \/ \E x \in Event : x.user # Owner[d] /\ published' = Append(published, x)
    BY <2>2, <2>4
  <2> QED
    BY <1>2, <2>3, <2>5, AloneFrame
<1>4. ASSUME Accept(d) \/ HandlerStep(d) PROVE Alone(d)'
  <2>1. pc[d] # "dead" /\ Alone(d)
    BY <1>2, <1>4 DEF HandlerStep, Accept, Join, ListOnline, SendSnapshot, Announce, Disconnect,
       Decrement, Delete, Farewell, Goto
  <2>2. ASSUME published' = published
        PROVE  (Silent(d)' <=> Silent(d)) /\ (OnlyJoined(d)' <=> OnlyJoined(d))
    BY <2>2 DEF Silent, OnlyJoined
  <2>3. CASE Accept(d)
    BY <2>1, <2>2, <2>3 DEF Accept, Goto, TypeOK, Alone, Holding
  <2>4. CASE Join(d)
    BY <1>1, <2>1, <2>2, <2>4 DEF Join, HIncrBy, Goto, TypeOK, Alone, Holding
  <2>5. CASE ListOnline(d)
    BY <2>1, <2>2, <2>5 DEF ListOnline, Goto, TypeOK, Alone, Holding
  <2>6. CASE SendSnapshot(d)
    BY <2>1, <2>2, <2>6 DEF SendSnapshot, Goto, TypeOK, Alone, Holding
  <2>7. CASE Announce(d)
    <3>1. pc[d] = "announcing" /\ Silent(d) /\ published' = Append(published, Joined(d))
      BY <2>1, <2>7 DEF Announce, Goto, Alone
    <3>2. OnlyJoined(d)'
      BY <3>1, OwnWords
    <3> QED
      BY <2>1, <2>7, <3>1, <3>2 DEF Announce, Goto, TypeOK, Alone, Holding
  <2>8. CASE Disconnect(d)
    BY <2>1, <2>2, <2>8 DEF Disconnect, Goto, TypeOK, Alone, Holding
  <2>9. CASE Decrement(d)
    BY <1>1, <2>1, <2>2, <2>9 DEF Decrement, HIncrBy, Goto, TypeOK, Alone, Holding
  <2>10. CASE Delete(d)
    BY <1>1, <2>1, <2>2, <2>10 DEF Delete, HDel, Goto, TypeOK, Alone, Holding
  <2>11. CASE Farewell(d)
    <3>1. LeftLast(d)'
      BY <2>1, <2>11, OwnWords DEF Farewell, Goto, Alone
    <3> QED
      BY <2>1, <2>11, <3>1 DEF Farewell, Goto, TypeOK, Alone, Holding
  <2> QED
    BY <1>4, <2>3, <2>4, <2>5, <2>6, <2>7, <2>8, <2>9, <2>10, <2>11 DEF HandlerStep
<1>5. ASSUME NEW e \in Conn, ClientLeaves(e) \/ SendFails(e) \/ RedisFails(e) PROVE Alone(d)'
  <2>1. /\ pc'[d] = pc[d] /\ count'[d] = count[d] /\ UNCHANGED <<refs, fields, published>>
    BY <1>5 DEF ClientLeaves, SendFails, RedisFails, Goto, TypeOK
  <2> QED
    BY <1>2, <2>1, AloneFrame
<1>6. ASSUME NEW i \in Instance, Crash(i) PROVE Alone(d)'
  <2>1. /\ pc'[d] = pc[d] /\ count'[d] = count[d] /\ UNCHANGED <<refs, fields, published>>
    BY <1>6 DEF Crash, TypeOK
  <2> QED
    BY <1>2, <2>1, AloneFrame
<1>7. CASE UNCHANGED vars
  BY <1>2, <1>7, AloneFrame DEF vars
<1> QED
  BY <1>3, <1>4, <1>5, <1>6, <1>7 DEF Next

(* Whether the page of c lists the user of d, or will once its snapshot    *)
(* arrives; what it had been sent of the channel by then; and the events   *)
(* it has still to hear of or that came before its snapshot.               *)
Lists(c, d) == Owner[d] \in IF pc[c] = "greeting" THEN snapshot[c] ELSE view[c]
Mark(c)     == IF pc[c] = "greeting" THEN last[c] ELSE greetedAt[c]
Excused(c, k) == k > Pos(c) \/ k <= Mark(c)

(* A page is right about the user of d, or has an event to hear of or one  *)
(* that came too early.                                                    *)
Shows(c, d) ==
  /\ Lists(c, d) => pc[d] \notin {"idle", "joining"}
  /\ Lists(c, d) /\ pc[d] = "closed" => \A k \in 1 .. Len(published) :
       published[k].user = Owner[d] /\ published[k].type = "presence_left" => Excused(c, k)
  /\ ~Lists(c, d) /\ pc[d] \in {"open", "leaving", "deleting"} => \A k \in 1 .. Len(published) :
       published[k].user = Owner[d] => Excused(c, k)

Pages == \A c \in Conn \ gone, d \in Conn :
  pc[c] \in {"greeting", "announcing", "open"} /\ Sole(d) /\ pc[d] # "dead" => Shows(c, d)

(* A step that neither moves the page nor speaks of the user.              *)
LEMMA ShowsFrame ==
  ASSUME NEW c \in Conn, NEW d \in Conn, Shows(c, d),
         Lists(c, d)' <=> Lists(c, d), Mark(c)' = Mark(c), Pos(c)' = Pos(c),
         pc'[d] \in {"idle", "joining"} => pc[d] \in {"idle", "joining"},
         pc'[d] = "closed" => pc[d] = "closed",
         pc'[d] \in {"open", "leaving", "deleting"} => pc[d] \in {"open", "leaving", "deleting"},
         \A k \in 1 .. Len(published') : published'[k].user = Owner[d] =>
           k \in 1 .. Len(published) /\ published'[k] = published[k]
  PROVE  Shows(c, d)'
<1>1. \A k : Excused(c, k)' <=> Excused(c, k)
  BY DEF Excused
<1> QED
  BY <1>1 DEF Shows

(* What a socket hears is an event.                                        *)
LEMMA HeardTyped ==
  ASSUME TypeOK, NEW k \in 1 .. Len(published)
  PROVE  published[k].type \in {"presence_joined", "presence_left"}
<1>1. published[k] \in Event
  BY DEF TypeOK
<1> QED
  BY <1>1 DEF Event

(* A socket that hears an event shows what the event says.                 *)
LEMMA ShowsRelay ==
  ASSUME RoomInv, Solo, NEW c \in Conn \ gone, NEW d \in Conn, Shows(c, d), Sole(d),
         pc[c] \in {"greeting", "announcing", "open"}, pc[d] # "dead", NEW i \in Instance, Relay(i)
  PROVE  Shows(c, d)'
<1>1. RoomTypeOK /\ Loops /\ InStep /\ TypeOK /\ Alone(d)
  BY DEF RoomInv, RoomTypeOK, Solo
<1>2. InLine(c)
  BY <1>1, HostAssumption DEF InStep, Loops, InLine
<1>3. UNCHANGED <<vars, greetedAt>>
  BY <1>1, <1>2, RelayMoves
<1>4. UNCHANGED <<pc, snapshot, published, greetedAt>>
  BY <1>3 DEF vars
<1>5. CASE Pos(c)' = Pos(c) /\ last'[c] = last[c] /\ view'[c] = view[c]
  <2>1. (Lists(c, d)' <=> Lists(c, d)) /\ Mark(c)' = Mark(c)
    BY <1>4, <1>5 DEF Lists, Mark
  <2> QED
    BY <1>4, <1>5, <2>1, ShowsFrame
<1>6. ASSUME Pos(c) \in Nat, Pos(c) + 1 \in 1 .. Len(published),
             Pos(c)' = Pos(c) + 1, last'[c] = Pos(c) + 1,
             view'[c] = Shown(view[c], published[Pos(c) + 1])
      PROVE  Shows(c, d)'
  <2>1. CASE pc[c] = "greeting"
    <3>1. Lists(c, d)' <=> Lists(c, d)
      BY <1>4, <2>1 DEF Lists
    <3>2. \A k \in 1 .. Len(published) : Excused(c, k)'
      BY <1>4, <1>6, <2>1 DEF Excused, Mark
    <3> QED
      BY <1>4, <3>1, <3>2 DEF Shows
  <2>2. CASE pc[c] # "greeting"
    <3>1. Mark(c)' = Mark(c)
      BY <1>4, <2>2 DEF Mark
    <3>2. Lists(c, d) <=> Owner[d] \in view[c]
      BY <2>2 DEF Lists
    <3>3. Lists(c, d)' <=> Owner[d] \in view'[c]
      BY <1>4, <2>2 DEF Lists
    <3>4. \A k \in 1 .. Len(published) : Excused(c, k) /\ k # Pos(c) + 1 => Excused(c, k)'
      BY <1>6, <3>1 DEF Excused
    <3>5. published[Pos(c) + 1].type \in {"presence_joined", "presence_left"}
      BY <1>1, <1>6, HeardTyped
    <3>6. CASE published[Pos(c) + 1].user # Owner[d]
      <4>1. Lists(c, d)' <=> Lists(c, d)
        BY <1>6, <3>2, <3>3, <3>6 DEF Shown
      <4> QED
        BY <1>4, <3>4, <3>6, <4>1 DEF Shows
    <3>7. CASE /\ published[Pos(c) + 1].user = Owner[d]
               /\ published[Pos(c) + 1].type = "presence_joined"
      <4>1. Lists(c, d)'
        BY <1>6, <3>3, <3>7 DEF Shown
      <4>2. ~Silent(d)
        BY <1>6, <3>7 DEF Silent
      <4>3. pc[d] \notin {"idle", "joining"}
        BY <1>1, <4>2 DEF Alone
      <4>4. ASSUME pc[d] = "closed", NEW k \in 1 .. Len(published),
                   published[k].user = Owner[d], published[k].type = "presence_left"
            PROVE  Excused(c, k)'
        <5>1. k > Pos(c) + 1
          BY <1>1, <1>6, <3>7, <4>4 DEF Alone, LeftLast
        <5> QED
          BY <1>6, <5>1 DEF Excused
      <4> QED
        BY <1>4, <4>1, <4>3, <4>4 DEF Shows
    <3>8. CASE /\ published[Pos(c) + 1].user = Owner[d]
               /\ published[Pos(c) + 1].type = "presence_left"
      <4>1. ~Lists(c, d)'
        BY <1>6, <3>3, <3>8 DEF Shown
      <4>2. ~OnlyJoined(d)
        BY <1>6, <3>8 DEF OnlyJoined
      <4>3. pc[d] \notin {"open", "leaving", "deleting"}
        BY <1>1, <4>2 DEF Alone
      <4> QED
        BY <1>4, <4>1, <4>3 DEF Shows
    <3> QED
      BY <3>5, <3>6, <3>7, <3>8
  <2> QED
    BY <2>1, <2>2
<1> QED
  BY <1>1, <1>2, <1>5, <1>6, RelayMoves

(* A handler's step, its own client's or its failure, keeps what a page    *)
(* shows right.                                                            *)
LEMMA ShowsHandler ==
  ASSUME RoomInv, Solo, Pages, NEW c \in Conn, NEW d \in Conn, NEW e \in Conn,
         RoomAccept(e) \/ RoomHandlerStep(e) \/ RoomClientLeaves(e) \/ RoomHandlerFails(e),
         c \notin gone', pc'[c] \in {"greeting", "announcing", "open"}, Sole(d), pc'[d] # "dead"
  PROVE  Shows(c, d)'
<1>1. RoomTypeOK /\ TypeOK /\ Loops /\ InStep
  BY DEF RoomInv, RoomTypeOK
<1>2. [Next]_vars
  BY RoomStepIsPresenceStep DEF RoomNext
<1>3. c \notin gone /\ pc[d] # "dead" /\ Alone(d)
  BY <1>1, <1>2, PresenceSteps DEF Solo
<1>4. HandlerMoves(e)
  BY <1>1, HandlersMove
<1>5. Pos(c)' = Pos(c) /\ last'[c] = last[c]
  BY <1>4 DEF HandlerMoves, relayVars, Pos
<1>6. Len(published) \in Nat /\ Pos(c) \in Nat /\ Pos(c) <= Len(published)
  <2>1. Host[c] \in Instance /\ cursor[Host[c]] \in 0 .. Len(published) /\ Len(published) \in Nat
    BY <1>1, HostAssumption DEF RoomTypeOK, TypeOK
  <2> QED
    BY <1>1, <2>1 DEF Pos, Loops
<1>7. pc[c] \in {"greeting", "announcing", "open"} => Shows(c, d)
  BY <1>3 DEF Pages
<1>8. CASE ListOnline(c)
  <2>1. pc'[c] = "greeting" /\ snapshot'[c] = fields /\ published' = published
    BY <1>1, <1>8 DEF ListOnline, HKeys, Goto, TypeOK
  <2>2. Lists(c, d)' <=> pc[d] \in Holding \cup {"deleting"}
    BY <1>3, <2>1 DEF Lists, Alone
  <2>3. pc'[d] = pc[d] \/ (pc[d] = "listing" /\ pc'[d] = "greeting")
    BY <1>1, <1>8 DEF ListOnline, Goto, TypeOK
  <2> QED
    BY <2>2, <2>3 DEF Shows, Holding
<1>9. CASE ~ListOnline(c)
  <2>1. /\ pc[c] \in {"greeting", "announcing", "open"}
        /\ (Lists(c, d)' <=> Lists(c, d)) /\ Mark(c)' = Mark(c)
    <3>1. CASE e # c
      <4>1. /\ pc'[c] = pc[c] /\ snapshot'[c] = snapshot[c]
            /\ view'[c] = view[c] /\ greetedAt'[c] = greetedAt[c]
        BY <1>4, <3>1 DEF HandlerMoves
      <4> QED
        BY <1>5, <4>1 DEF Lists, Mark
    <3>2. CASE RoomGreet(c)
      <4>1. /\ pc[c] = "greeting" /\ pc'[c] = "announcing"
            /\ view'[c] = snapshot[c] /\ greetedAt'[c] = last[c]
        BY <1>1, <1>3, <3>2 DEF RoomGreet, SendSnapshot, Goto, RoomTypeOK, TypeOK
      <4> QED
        BY <4>1 DEF Lists, Mark
    <3>3. CASE RoomRedisStep(c)
      <4>1. /\ pc[c] = "announcing" /\ pc'[c] = "open"
            /\ view'[c] = view[c] /\ greetedAt'[c] = greetedAt[c]
        BY <1>1, <1>9, <3>3 DEF RoomRedisStep, Join, Announce, Decrement, Delete, Farewell, Goto,
           TypeOK, roomVars
      <4> QED
        BY <4>1 DEF Lists, Mark
    <3>4. CASE RoomAccept(c) \/ RoomDisconnect(c) \/ RoomHandlerFails(c) \/ RoomClientLeaves(c)
      BY <1>1, <3>4 DEF RoomAccept, Accept, RoomDisconnect, Disconnect, RoomHandlerFails, SendFails,
         RedisFails, RoomClientLeaves, ClientLeaves, Goto, TypeOK
    <3> QED
      BY <3>1, <3>2, <3>3, <3>4 DEF RoomHandlerStep
  <2>2. Shows(c, d)
    BY <1>7, <2>1
  <2>3. CASE e = d /\ Announce(d)
    <3>1. pc[d] = "announcing" /\ pc'[d] = "open" /\ published' = Append(published, Joined(d))
      BY <1>1, <1>3, <2>3 DEF Announce, Goto, Alone, TypeOK
    <3>2. Silent(d)
      BY <1>3, <3>1 DEF Alone
    <3>3. \A k \in 1 .. Len(published') : published'[k].user = Owner[d] => k = Len(published) + 1
      BY <1>1, <3>1, <3>2, EventsTyped DEF Silent, TypeOK
    <3>4. \A k \in 1 .. Len(published') : published'[k].user = Owner[d] => Excused(c, k)'
      BY <1>5, <1>6, <3>3 DEF Excused
    <3> QED
      BY <3>1, <3>4 DEF Shows
  <2>4. CASE e = d /\ Farewell(d)
    <3>1. pc[d] = "farewell" /\ pc'[d] = "closed" /\ published' = Append(published, Left(d))
      BY <1>1, <2>4 DEF Farewell, Goto, TypeOK
    <3>2. OnlyJoined(d)
      BY <1>3, <3>1 DEF Alone
    <3>3. \A k \in 1 .. Len(published') :
            published'[k].user = Owner[d] /\ published'[k].type = "presence_left"
              => k = Len(published) + 1
      BY <1>1, <3>1, <3>2, EventsTyped DEF OnlyJoined, TypeOK
    <3>4. \A k \in 1 .. Len(published') :
            published'[k].user = Owner[d] /\ published'[k].type = "presence_left" => Excused(c, k)'
      BY <1>5, <1>6, <3>3 DEF Excused
    <3> QED
      BY <3>1, <3>4 DEF Shows
  <2>5. CASE ~(e = d /\ (Announce(d) \/ Farewell(d)))
    <3>1. \A k \in 1 .. Len(published') : published'[k].user = Owner[d] =>
            k \in 1 .. Len(published) /\ published'[k] = published[k]
      <4>1. published' = published
              \/ (e # d /\ published' \in {Append(published, Joined(e)), Append(published, Left(e))})
        BY <2>5 DEF RoomAccept, Accept, RoomHandlerStep, RoomRedisStep, RoomGreet, RoomDisconnect,
           RoomClientLeaves, RoomHandlerFails, Join, ListOnline, SendSnapshot, Announce, Disconnect,
           Decrement, Delete, Farewell, ClientLeaves, SendFails, RedisFails
      <4>2. CASE published' = published
        BY <4>2
      <4>3. ASSUME e # d, published' \in {Append(published, Joined(e)), Append(published, Left(e))}
            PROVE  \A k \in 1 .. Len(published') : published'[k].user = Owner[d] =>
                     k \in 1 .. Len(published) /\ published'[k] = published[k]
        <5>1. PICK x \in Event : published' = Append(published, x) /\ x.user # Owner[d]
          BY <4>3, EventsTyped DEF Joined, Left, Sole
        <5> QED
          BY <1>1, <5>1 DEF TypeOK
      <4> QED
        BY <4>1, <4>2, <4>3
    <3>2. /\ pc'[d] \in {"idle", "joining"} => pc[d] \in {"idle", "joining"}
          /\ pc'[d] = "closed" => pc[d] = "closed"
          /\ pc'[d] \in {"open", "leaving", "deleting"} => pc[d] \in {"open", "leaving", "deleting"}
      <4>1. CASE e # d
        BY <1>4, <4>1 DEF HandlerMoves
      <4>2. CASE Decrement(d)
        <5>1. pc'[d] = "deleting" /\ pc[d] = "leaving"
          BY <1>1, <1>3, <4>2 DEF Decrement, Goto, Alone, Holding, TypeOK
        <5> QED
          BY <5>1
      <4>3. CASE e = d /\ ~Decrement(d)
        BY <1>1, <2>5, <4>3 DEF RoomAccept, Accept, RoomHandlerStep, RoomRedisStep, RoomGreet,
           RoomDisconnect, RoomClientLeaves, RoomHandlerFails, Join, ListOnline, SendSnapshot,
           Disconnect, Delete, ClientLeaves, SendFails, RedisFails, Goto, TypeOK
      <4> QED
        BY <4>1, <4>2, <4>3
    <3> QED
      BY <1>5, <2>1, <2>2, <3>1, <3>2, ShowsFrame
  <2> QED
    BY <2>3, <2>4, <2>5
<1> QED
  BY <1>8, <1>9

(* Every step keeps the pages right.                                       *)
LEMMA NextPages == RoomInv /\ Solo /\ Pages /\ [RoomNext]_allVars => Pages'
<1> SUFFICES ASSUME RoomInv, Solo, Pages, [RoomNext]_allVars, NEW c \in Conn, NEW d \in Conn,
                    c \notin gone', pc'[c] \in {"greeting", "announcing", "open"},
                    Sole(d), pc'[d] # "dead"
             PROVE  Shows(c, d)'
  BY DEF Pages, Sole
<1>1. RoomTypeOK /\ TypeOK /\ [Next]_vars
  BY RoomStepIsPresenceStep DEF RoomInv, RoomTypeOK
<1>2. c \notin gone /\ pc[d] # "dead"
  BY <1>1, PresenceSteps
<1>3. ASSUME NEW e \in Conn,
             RoomAccept(e) \/ RoomHandlerStep(e) \/ RoomClientLeaves(e) \/ RoomHandlerFails(e)
      PROVE  Shows(c, d)'
  BY <1>3, ShowsHandler
<1>4. ASSUME NEW i \in Instance, Relay(i) PROVE Shows(c, d)'
  <2>1. UNCHANGED pc
    BY <1>4 DEF Relay, Take, Send, SendRaises, vars
  <2>2. Shows(c, d)
    BY <1>2, <2>1 DEF Pages
  <2> QED
    BY <1>2, <1>4, <2>1, <2>2, ShowsRelay
<1>5. ASSUME NEW i \in Instance, RoomCrash(i) PROVE Shows(c, d)'
  <2>1. Host[c] # i /\ pc'[c] = pc[c] /\ snapshot'[c] = snapshot[c] /\ pc'[d] = pc[d]
    BY <1>1, <1>5 DEF RoomCrash, Crash, TypeOK, Over
  <2>2. Pos(c)' = Pos(c) /\ UNCHANGED <<published, view, last, greetedAt>>
    BY <1>1, <1>5, <2>1, HostAssumption DEF RoomCrash, Crash, Pos, RoomTypeOK, pageVars
  <2>3. (Lists(c, d)' <=> Lists(c, d)) /\ Mark(c)' = Mark(c)
    BY <2>1, <2>2 DEF Lists, Mark
  <2>4. Shows(c, d)
    BY <1>2, <2>1 DEF Pages
  <2> QED
    BY <2>1, <2>2, <2>3, <2>4, ShowsFrame
<1>6. ASSUME NEW i \in Instance, ListenerFails(i)
      PROVE  UNCHANGED <<vars, cursor, sending, view, last, greetedAt>>
  BY <1>6 DEF ListenerFails, pageVars
<1>7. CASE UNCHANGED <<vars, cursor, sending, view, last, greetedAt>>
  <2>1. Shows(c, d)
    BY <1>2, <1>7 DEF Pages, vars
  <2>2. (Lists(c, d)' <=> Lists(c, d)) /\ Mark(c)' = Mark(c) /\ Pos(c)' = Pos(c)
    BY <1>7 DEF vars, Lists, Mark, Pos
  <2> QED
    BY <1>7, <2>1, <2>2, ShowsFrame DEF vars
<1>8. CASE UNCHANGED allVars
  BY <1>7, <1>8 DEF allVars, roomVars, relayVars, pageVars
<1>9. ASSUME NEW e \in Conn, GetPresence(e)
      PROVE  UNCHANGED <<vars, cursor, sending, view, last, greetedAt>>
  BY <1>9 DEF GetPresence, relayVars
<1> QED
  BY <1>3, <1>4, <1>5, <1>6, <1>7, <1>8, <1>9 DEF RoomNext

(* Initially nobody has connected.                                         *)
LEMMA InitPages == RoomInit => Solo /\ Pages
<1> SUFFICES ASSUME RoomInit PROVE Solo /\ Pages
  OBVIOUS
<1>1. Solo
  BY OwnerAssumption DEF RoomInit, Init, Solo, Alone, Silent, Holding
<1>2. Pages
  BY DEF RoomInit, Init, Pages
<1> QED
  BY <1>1, <1>2

(* At rest, what is excused was overwritten by the snapshot: onlineUserIds *)
(* has the rest as they are.  A page that is open has its own user online. *)
LEMMA ViewRight ==
  ASSUME RoomInv, Solo, Pages, Quiet, NEW c \in Conn, NEW u \in User,
         pc[c] = "open", c \notin gone, Followed(c, u)
  PROVE  /\ u \in view[c] <=> u \in fields
         /\ Owner[c] = u => u \in fields
<1> USE DEF Followed
<1>1. PICK d \in Conn : Owner[d] = u /\ Sole(d)
  <2>1. IsFiniteSet(ConnsOf(u))
    BY ConnAssumption, FS_Subset DEF ConnsOf
  <2>2. PICK d : ConnsOf(u) = {d}
    BY <2>1, FS_Singleton
  <2> QED
    BY <2>2 DEF ConnsOf, Sole
<1>2. pc[d] \in {"idle", "open", "closed"}
  BY <1>1 DEF Quiet, Settled, NoneDied, ConnsOf, Over
<1>3. Alone(d) /\ Shows(c, d)
  BY <1>1, <1>2 DEF Solo, Pages
<1>4. Lists(c, d) <=> u \in view[c]
  BY <1>1 DEF Lists
<1>5. Pos(c) = Len(published) /\ Len(published) \in Nat
  BY HostAssumption DEF Quiet, Relaying, Pos, RoomInv, RoomTypeOK, TypeOK
<1>6. greetedAt[c] \in 0 .. Len(published)
  BY DEF RoomInv, RoomTypeOK
<1>7. ASSUME NEW k \in 1 .. Len(published), published[k].user = u, Excused(c, k),
             \A j \in 1 .. Len(published) : published[j].user = u => j <= k
      PROVE  FALSE
  <2>1. k \in 1 .. greetedAt[c]
    BY <1>5, <1>6, <1>7 DEF Excused, Mark
  <2>2. \A j \in k + 1 .. Len(published) : published[j].user # u
    BY <1>5, <1>7
  <2> QED
    BY <1>7, <2>1, <2>2 DEF Overwritten
<1>8. Owner[c] = u => c = d
  BY <1>1 DEF Sole
<1>9. CASE pc[d] = "idle"
  BY <1>1, <1>3, <1>4, <1>8, <1>9 DEF Alone, Shows, Holding
<1>10. CASE pc[d] = "open"
  <2>1. u \in fields /\ OnlyJoined(d)
    BY <1>1, <1>3, <1>10 DEF Alone, Holding
  <2>2. PICK k \in 1 .. Len(published) :
          published[k].user = u /\ \A j \in 1 .. Len(published) : published[j].user = u => j = k
    BY <1>1, <2>1 DEF OnlyJoined
  <2>3. ASSUME ~Lists(c, d) PROVE FALSE
    <3>1. Excused(c, k)
      BY <1>1, <1>3, <1>10, <2>2, <2>3 DEF Shows
    <3>2. \A j \in 1 .. Len(published) : published[j].user = u => j <= k
      BY <1>5, <2>2
    <3> QED
      BY <1>7, <2>2, <3>1, <3>2
  <2> QED
    BY <1>4, <2>1, <2>3
<1>11. CASE pc[d] = "closed"
  <2>1. u \notin fields /\ LeftLast(d)
    BY <1>1, <1>3, <1>11 DEF Alone, Holding
  <2>2. PICK k \in 1 .. Len(published) :
          /\ published[k].user = u /\ published[k].type = "presence_left"
          /\ \A j \in 1 .. Len(published) : published[j].user = u => j = k \/ j < k
    BY <1>1, <2>1 DEF LeftLast
  <2>3. ASSUME Lists(c, d) PROVE FALSE
    <3>1. Excused(c, k)
      BY <1>1, <1>3, <1>11, <2>2, <2>3 DEF Shows
    <3>2. \A j \in 1 .. Len(published) : published[j].user = u => j <= k
      BY <1>5, <2>2
    <3> QED
      BY <1>7, <2>2, <3>1, <3>2
  <2> QED
    BY <1>4, <1>8, <1>11, <2>1, <2>3
<1> QED
  BY <1>2, <1>9, <1>10, <1>11

(* So the list shown is onlineUserIds where it names the page's own user.  *)
LEMMA PagesAgree ==
  ASSUME RoomInv, Solo, Pages
  PROVE  ViewsAgree
<1> SUFFICES ASSUME Quiet, NEW c \in Conn, NEW u \in User, pc[c] = "open", c \notin gone,
                    Followed(c, u)
             PROVE  /\ u \in view[c] <=> u \in fields
                    /\ Followed(c, Owner[c]) => (u \in Online(c) <=> u \in fields)
  BY DEF ViewsAgree
<1>1. u \in view[c] <=> u \in fields
  BY ViewRight
<1>2. ASSUME Followed(c, Owner[c]) PROVE Online(c) = view[c]
  <2>1. Owner[c] \in User
    BY OwnerAssumption
  <2>2. Owner[c] \in view[c]
    BY <1>2, <2>1, ViewRight
  <2> QED
    BY <2>2 DEF Online
<1> QED
  BY <1>1, <1>2

(* Whatever order joins, snapshots, relays and leaves take, and whatever   *)
(* fails: once all is quiet onlineUserIds of a page agrees with the hash   *)
(* about every user with one tab, but for those whose last event came      *)
(* before its snapshot and those whose handler died.  The list shown does  *)
(* so too where the page's own user is one of those it agrees about.       *)
THEOREM ViewsAgreeEver == RoomSpec => []ViewsAgree
<1>1. RoomInv /\ Solo /\ Pages /\ [RoomNext]_allVars => (Solo /\ Pages)'
  <2>1. RoomInv /\ [RoomNext]_allVars => TypeOK /\ [Next]_vars
    BY RoomStepIsPresenceStep DEF RoomInv, RoomTypeOK
  <2> QED
    BY <2>1, NextSolo, NextPages
<1>2. RoomInv /\ Solo /\ Pages => ViewsAgree
  BY PagesAgree
<1> QED
  BY <1>1, <1>2, InitPages, RoomInvHolds, PTL DEF RoomSpec

-----------------------------------------------------------------------------
(* The refinement with its fairness.                                       *)

\* A step of a handler moves its program counter, so it is no stutter of Presence.
LEMMA HandlerProgress ==
  ASSUME NEW c \in Conn, TypeOK, RoomHandlerStep(c)
  PROVE  <<HandlerStep(c)>>_vars
<1>1. HandlerStep(c)
  BY DEF RoomHandlerStep, RoomRedisStep, RoomGreet, RoomDisconnect, HandlerStep
<1>2. pc'[c] # pc[c]
  BY <1>1 DEF TypeOK, HandlerStep, Join, ListOnline, SendSnapshot, Announce, Disconnect, Decrement, Delete,
     Farewell, Goto
<1> QED
  BY <1>1, <1>2 DEF vars

\* The room schedules a handler as Presence asks for.
LEMMA RoomRunsHandlers ==
  RoomSpec /\ []RoomBlocksNoHandler => \A c \in Conn : HandlerRuns(c)
<1> SUFFICES ASSUME NEW d \in Conn
             PROVE  RoomSpec /\ []RoomBlocksNoHandler => HandlerRuns(d)
  OBVIOUS
<1>1. (\A c \in Conn : RoomHandlerRuns(c)) => RoomHandlerRuns(d)
  OBVIOUS
<1>2. RoomBlocksNoHandler => (CanRun(d) => RoomCanRun(d))
  BY DEF RoomBlocksNoHandler
<1>3. RoomInv /\ <<RoomHandlerStep(d)>>_allVars => <<HandlerStep(d)>>_vars
  BY HandlerProgress DEF RoomInv, RoomTypeOK
<1> QED
  BY <1>1, <1>2, <1>3, RoomInvHolds, PTL
     DEF RoomSpec, RoomFairness, RoomHandlerRuns, HandlerRuns, CanRun, RoomCanRun

(* The room implements Presence, its fairness included: every behaviour of *)
(* the handlers among sockets and listeners is one of the handlers alone,  *)
(* and none is kept waiting that would not wait there.                     *)
THEOREM RoomImplements ==
  RoomSpec /\ []RoomBlocksNoHandler => RoomImplementsPresence
<1>1. RoomInit => Init
  BY DEF RoomInit
<1>2. RoomSpec => Init /\ [][Next]_vars
  BY <1>1, RoomStepIsPresenceStep, PTL DEF RoomSpec
<1> QED
  BY <1>2, RoomRunsHandlers, PTL DEF RoomImplementsPresence, Spec, Fairness


-----------------------------------------------------------------------------
(* Every event is relayed.  A listener that has events to relay goes from  *)
(* one place to the next, to fewer sockets and then to the next event, and *)
(* is never at a place again.                                              *)

Behind(i, k) == Len(published) >= k /\ cursor[i] < k /\ i \in listening
IsPast(i, p) ==
  \/ cursor[i] > p[1]
  \/ cursor[i] = p[1] /\ sending[i] # {} /\ (p[2] = {} \/ (sending[i] \subseteq p[2] /\ sending[i] # p[2]))
GoesOn(i, k, p) == <>[]Behind(i, k) => LeavesForGood(i, p)
StaysBehind(i, k) == <>[]Behind(i, k)

\* A listener's step takes it past the place where it is.
LEMMA RelayPast ==
  ASSUME RoomInv, NEW i \in Instance, Relay(i)
  PROVE  \/ cursor'[i] = cursor[i] + 1
         \/ /\ cursor'[i] = cursor[i] /\ sending'[i] # {}
            /\ sending[i] = {} \/ (sending'[i] \subseteq sending[i] /\ sending'[i] # sending[i])
<1> USE DEF RoomInv, RoomTypeOK
<1>1. CASE Take(i)
  BY <1>1 DEF Take, Relaying
<1>2. ASSUME NEW c \in Conn, Send(i, c) \/ SendRaises(i, c)
      PROVE  \/ cursor'[i] = cursor[i] + 1
             \/ /\ cursor'[i] = cursor[i] /\ sending'[i] # {}
                /\ sending'[i] \subseteq sending[i] /\ sending'[i] # sending[i]
  BY <1>2 DEF Send, SendRaises, EndLoop
<1> QED
  BY <1>1, <1>2 DEF Relay

\* Nothing else moves a listener, short of a restart of its process.
LEMMA OthersLeaveListener ==
  ASSUME RoomInv, NEW i \in Instance, [RoomNext]_allVars
  PROVE  \/ Relay(i)
         \/ cursor'[i] = cursor[i] /\ sending'[i] = sending[i]
         \/ cursor'[i] = Len(published) /\ published' = published
<1> USE DEF RoomInv, RoomTypeOK
<1>1. ASSUME NEW c \in Conn, RoomAccept(c) \/ RoomHandlerStep(c) \/ RoomClientLeaves(c) \/ RoomHandlerFails(c)
      PROVE  cursor'[i] = cursor[i] /\ sending'[i] = sending[i]
  BY <1>1, HandlersMove DEF HandlerMoves, relayVars
<1>2. ASSUME NEW j \in Instance, j # i, Relay(j)
      PROVE  cursor'[i] = cursor[i] /\ sending'[i] = sending[i]
  <2>1. CASE Take(j)
    BY <1>2, <2>1 DEF Take
  <2>2. ASSUME NEW c \in Conn, Send(j, c) \/ SendRaises(j, c)
        PROVE  cursor'[i] = cursor[i] /\ sending'[i] = sending[i]
    BY <1>2, <2>2 DEF Send, SendRaises, EndLoop
  <2> QED
    BY <1>2, <2>1, <2>2 DEF Relay
<1>3. ASSUME NEW j \in Instance, ListenerFails(j)
      PROVE  cursor'[i] = cursor[i] /\ sending'[i] = sending[i]
  BY <1>3 DEF ListenerFails
<1>4. ASSUME NEW j \in Instance, RoomCrash(j)
      PROVE  \/ cursor'[i] = cursor[i] /\ sending'[i] = sending[i]
             \/ cursor'[i] = Len(published) /\ published' = published
  BY <1>4 DEF RoomCrash, Crash
<1>5. ASSUME NEW c \in Conn, GetPresence(c) PROVE cursor'[i] = cursor[i] /\ sending'[i] = sending[i]
  BY <1>5 DEF GetPresence, relayVars
<1>6. CASE UNCHANGED allVars
  BY <1>6 DEF allVars, roomVars
<1> QED
  BY <1>1, <1>2, <1>3, <1>4, <1>5, <1>6 DEF RoomNext

\* A place is left by the listener's step, and once passed it stays behind.
LEMMA PlacePassed ==
  ASSUME NEW i \in Instance, NEW k \in Nat, NEW p \in Places(k)
  PROVE  /\ RoomInv /\ <<Relay(i)>>_allVars /\ IsAt(i, p) => IsPast(i, p)'
         /\ RoomInv /\ [RoomNext]_allVars /\ IsAt(i, p) /\ Behind(i, k)'
              => IsAt(i, p)' \/ IsPast(i, p)'
         /\ RoomInv /\ [RoomNext]_allVars /\ IsPast(i, p) /\ Behind(i, k)' => IsPast(i, p)'
         /\ IsPast(i, p) => ~IsAt(i, p)
<1> USE DEF RoomInv, RoomTypeOK, TypeOK
<1>1. p[1] \in Nat /\ p[2] \in SUBSET Conn /\ p = <<p[1], p[2]>>
  BY DEF Places
<1>2. RoomInv => cursor[i] \in Nat /\ Len(published) \in Nat
  OBVIOUS
<1>3. ASSUME RoomInv, Relay(i), IsAt(i, p)
      PROVE  IsPast(i, p)'
  <2>1. cursor[i] = p[1] /\ sending[i] = p[2]
    BY <1>1, <1>3 DEF IsAt
  <2>2. CASE cursor'[i] = cursor[i] + 1
    BY <1>1, <1>2, <1>3, <2>1, <2>2 DEF IsPast
  <2>3. CASE cursor'[i] # cursor[i] + 1
    <3>1. /\ cursor'[i] = cursor[i] /\ sending'[i] # {}
          /\ sending[i] = {} \/ (sending'[i] \subseteq sending[i] /\ sending'[i] # sending[i])
      BY <1>3, <2>3, RelayPast
    <3> QED
      BY <2>1, <3>1 DEF IsPast
  <2> QED
    BY <2>2, <2>3
<1>4. ASSUME RoomInv, Relay(i), IsPast(i, p)
      PROVE  IsPast(i, p)'
  <2>1. CASE cursor[i] > p[1] \/ cursor'[i] = cursor[i] + 1
    BY <1>1, <1>2, <1>4, <2>1, RelayPast DEF IsPast
  <2>2. CASE ~(cursor[i] > p[1] \/ cursor'[i] = cursor[i] + 1)
    <3>1. /\ cursor[i] = p[1] /\ sending[i] # {}
          /\ p[2] = {} \/ (sending[i] \subseteq p[2] /\ sending[i] # p[2])
      BY <1>4, <2>2 DEF IsPast
    <3>2. /\ cursor'[i] = cursor[i] /\ sending'[i] # {}
          /\ sending'[i] \subseteq sending[i] /\ sending'[i] # sending[i]
      BY <1>4, <2>2, <3>1, RelayPast
    <3>3. p[2] = {} \/ (sending'[i] \subseteq p[2] /\ sending'[i] # p[2])
      BY <3>1, <3>2
    <3> QED
      BY <3>1, <3>2, <3>3 DEF IsPast
  <2> QED
    BY <2>1, <2>2
<1>5. ASSUME RoomInv, cursor'[i] = Len(published), published' = published
      PROVE  ~Behind(i, k)'
  BY <1>2, <1>5 DEF Behind
<1>6. ASSUME RoomInv, [RoomNext]_allVars, IsAt(i, p), Behind(i, k)'
      PROVE  IsAt(i, p)' \/ IsPast(i, p)'
  BY <1>3, <1>5, <1>6, OthersLeaveListener DEF IsAt
<1>7. ASSUME RoomInv, [RoomNext]_allVars, IsPast(i, p), Behind(i, k)'
      PROVE  IsPast(i, p)'
  BY <1>4, <1>5, <1>7, OthersLeaveListener DEF IsPast
<1>8. IsPast(i, p) => ~IsAt(i, p)
  BY <1>1 DEF IsPast, IsAt
<1> QED
  BY <1>3, <1>6, <1>7, <1>8

\* So a listener that stays behind leaves each place for good.
LEMMA GoesOnEver ==
  RoomSpec /\ []NoListenerStuck
    => \A i \in Instance, k \in Nat : \A p \in Places(k) : GoesOn(i, k, p)
<1> SUFFICES ASSUME NEW j \in Instance, NEW n \in Nat, NEW q \in Places(n)
             PROVE  RoomSpec /\ []NoListenerStuck => GoesOn(j, n, q)
  OBVIOUS
<1>1. (\A i \in Instance : ListenerRuns(i)) => ListenerRuns(j)
  OBVIOUS
<1>2. RoomInv /\ NoListenerStuck /\ Behind(j, n) => CanRelay(j)
  BY DEF RoomInv, RoomTypeOK, TypeOK, NoListenerStuck, Behind
<1>3. /\ RoomInv /\ <<Relay(j)>>_allVars /\ IsAt(j, q) => IsPast(j, q)'
      /\ RoomInv /\ [RoomNext]_allVars /\ IsAt(j, q) /\ Behind(j, n)'
           => IsAt(j, q)' \/ IsPast(j, q)'
      /\ RoomInv /\ [RoomNext]_allVars /\ IsPast(j, q) /\ Behind(j, n)' => IsPast(j, q)'
      /\ IsPast(j, q) => ~IsAt(j, q)
  BY PlacePassed
<1> QED
  BY <1>1, <1>2, <1>3, RoomInvHolds, PTL
     DEF RoomSpec, RoomFairness, ListenerRuns, CanRelay, GoesOn, LeavesForGood

(* Every event that is published comes to the end of the loop of every     *)
(* process that still listens, whatever sockets come, go and fail.         *)
THEOREM EventuallyRelayedEver ==
  RoomSpec /\ []NoListenerStuck /\ AllSomewhere => EventuallyRelayed
<1> SUFFICES ASSUME NEW j \in Instance, NEW n \in 1..(2 * Cardinality(Conn))
             PROVE  RoomSpec /\ []NoListenerStuck /\ AllSomewhere => Reaches(j, n)
  BY DEF EventuallyRelayed
<1>1. n \in Nat \ {0}
  BY ConnAssumption, FS_CardinalityType
<1>2. AllSomewhere => SomewhereStill(j, n)
  BY DEF AllSomewhere
<1>3. (\A i \in Instance, k \in Nat : \A p \in Places(k) : GoesOn(i, k, p))
        => \A p \in Places(n) : GoesOn(j, n, p)
  BY <1>1
<1>4. (\A p \in Places(n) : GoesOn(j, n, p))
        => (StaysBehind(j, n) => \A p \in Places(n) : LeavesForGood(j, p))
  BY DEF GoesOn, StaysBehind
<1>5. RoomSpec /\ []NoListenerStuck => \A p \in Places(n) : GoesOn(j, n, p)
  BY <1>3, GoesOnEver
<1>6. RoomInv /\ Behind(j, n) => ~(\A p \in Places(n) : ~IsAt(j, p))
  <2> SUFFICES ASSUME RoomInv, Behind(j, n)
               PROVE  \E p \in Places(n) : IsAt(j, p)
    OBVIOUS
  <2>1. <<cursor[j], sending[j]>> \in Places(n)
    BY <1>1 DEF RoomInv, RoomTypeOK, TypeOK, Behind, Places
  <2> QED
    BY <2>1 DEF IsAt
<1>7. RoomInv /\ [RoomNext]_allVars /\ Len(published) >= n => (Len(published) >= n)'
  <2> SUFFICES ASSUME RoomInv, [RoomNext]_allVars, Len(published) >= n
               PROVE  Len(published') >= n
    OBVIOUS
  <2>1. Len(published) \in Nat /\ Len(published') \in Nat /\ Len(published') >= Len(published)
    BY RoomStepIsPresenceStep, ChannelGrows DEF RoomInv, RoomTypeOK, TypeOK
  <2> QED
    BY <1>1, <2>1
<1>8. RoomInv /\ Len(published) >= n => Behind(j, n) \/ cursor[j] >= n \/ j \notin listening
  BY <1>1 DEF RoomInv, RoomTypeOK, TypeOK, Behind
<1>9. RoomSpec /\ []NoListenerStuck /\ AllSomewhere => ~StaysBehind(j, n)
  BY <1>2, <1>4, <1>5, <1>6, RoomInvHolds, PTL DEF SomewhereStill, StaysBehind
<1> QED
  BY <1>7, <1>8, <1>9, RoomInvHolds, PTL DEF RoomSpec, Reaches, StaysBehind

=============================================================================
