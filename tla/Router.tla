------------------------------- MODULE Router -------------------------------
(***************************************************************************)
(* The dispatcher, internal/router/message_router.go: one goroutine takes  *)
(* events and client messages from the hub, keeps who is where and who is  *)
(* online, and answers with commands for the hub.                          *)
(*                                                                         *)
(* A handler changes the router's state in one step, nobody else reads it, *)
(* and leaves what it has to send in rout and rswitch; each of those sends *)
(* is a step of its own, because it blocks while the hub's channel is full.*)
(* Positions, boards, tasks and chat texts are data here: what a join is   *)
(* sent of them is HistoryLen messages.                                    *)
(***************************************************************************)
EXTENDS Client

CONSTANTS
  HistoryLen,   \* boards, tasks and chat messages a newcomer is sent
  ObjectCap     \* bound of the model: objects placed in a room

ASSUME RouterAssumption == HistoryLen \in Nat /\ ObjectCap \in Nat

VARIABLES
  online,    \* Router.online
  inCall,    \* Router.inCall
  roomOf,    \* Router.roomOf, None where the map has no entry
  players,   \* room.Manager: who has an avatar in which room
  objects,   \* room.Manager: how many objects a room has
  rout,      \* commands the current handler has still to put on out
  rswitch    \* the switch it has still to ask for

routerVars == <<online, inCall, roomOf, players, objects, rout, rswitch>>
allVars == <<clientVars, routerVars>>

\* What peers send, as far as the handlers tell it apart.
ClientMsg ==
  [type : {"join", "move", "sprite_change", "object", "edit"}]
    \cup [type : {"switch_room"}, room : Room \cup {None}]
    \cup [type : {"call_status"}, inCall : BOOLEAN]
    \cup [type : {"chat"}, scope : {"room", "all", "private"},
          to : User \cup {None}]
    \cup [type : {"signal", "call"}, to : User \cup {None}]

\* What they are sent.
PresenceMsg == [type : {"presence"}, id : User, online : BOOLEAN,
                inCall : BOOLEAN, room : Room \cup {None}]
ServerMsg ==
  [type : {"welcome", "join", "move", "sprite_change", "leave"}, id : User]
    \cup [type : {"chat", "signal", "call"}, id : User, to : User \cup {None}]
    \cup [type : {"object", "history", "edit"}]
    \cup PresenceMsg

ASSUME MessageAssumption == Message \subseteq ClientMsg /\ Data = ServerMsg

About(type, u) == [type |-> type, id |-> u]
Talk(in, to) == [type |-> in.data.type, id |-> in.id, to |-> to]

RouterInit ==
  /\ ClientInit
  /\ online = {} /\ inCall = {}
  /\ roomOf = [u \in User |-> None]
  /\ players = [r \in Room |-> {}]
  /\ objects = [r \in Room |-> 0]
  /\ rout = <<>> /\ rswitch = <<>>

RouterTypeOK ==
  /\ ClientTypeOK
  /\ online \in SUBSET User
  /\ inCall \in SUBSET User
  /\ roomOf \in [User -> Room \cup {None}]
  /\ players \in [Room -> SUBSET User]
  /\ objects \in [Room -> 0..ObjectCap]
  /\ rout \in Seq(Outbound)
  /\ rswitch \in Seq(SwitchReq)

Ready == rout = <<>> /\ rswitch = <<>>

\* Mutant: the room is left out.
Presence_NoRoom(u, onl, calls, where) ==
  [type |-> "presence", id |-> u, online |-> u \in onl, inCall |-> u \in calls]

\* A presence message, from what the router knows after the handler's changes.
Presence(u, onl, calls, where) ==
  [type |-> "presence", id |-> u, online |-> u \in onl, inCall |-> u \in calls,
   room |-> where[u]]

\* The orders in which a map with these keys may be iterated.
Orders(S) == {s \in [1..Cardinality(S) -> S] : \A x \in S : \E i \in DOMAIN s : s[i] = x}

----------------------------------------------------------------------------
(* handleEvent. *)

\* Mutant: a newcomer is not told who is online.
HandleJoined_NoSnapshot(e) ==
  LET me(d) == ToOne(e.room, e.id, d)
      each(n, d) == [i \in 1..n |-> me([type |-> d])]
  IN
  /\ e.kind = "joined"
  /\ roomOf' = [roomOf EXCEPT ![e.id] = e.room]
  /\ players' = [players EXCEPT ![e.room] = @ \cup {e.id}]
  /\ \E others \in Orders(players[e.room] \ {e.id}) :
       rout' = <<me(About("welcome", e.id))>>
               \o [i \in DOMAIN others |-> me(About("join", others[i]))]
               \o each(objects[e.room], "object")
               \o each(HistoryLen, "history")
               \o (IF e.id \in online
                     THEN <<ToAll(Presence(e.id, online, inCall, roomOf'))>>
                     ELSE <<>>)
  /\ UNCHANGED <<online, inCall, objects>>

HandleJoined(e) ==
  LET where == [roomOf EXCEPT ![e.id] = e.room]
      me(d) == ToOne(e.room, e.id, d)
      each(n, d) == [i \in 1..n |-> me([type |-> d])]
  IN
  /\ e.kind = "joined"
  /\ roomOf' = where
  /\ players' = [players EXCEPT ![e.room] = @ \cup {e.id}]
  /\ \E others \in Orders(players[e.room] \ {e.id}), known \in Orders(online) :
       rout' = <<me(About("welcome", e.id))>>
               \o [i \in DOMAIN others |-> me(About("join", others[i]))]
               \o each(objects[e.room], "object")
               \o each(HistoryLen, "history")
               \o [i \in DOMAIN known |->
                     me(Presence(known[i], online, inCall, where))]
               \o (IF e.id \in online
                     THEN <<ToAll(Presence(e.id, online, inCall, where))>>
                     ELSE <<>>)
  /\ UNCHANGED <<online, inCall, objects>>

\* Mutant: leaving a room is taken for leaving the office.
HandleLeft_Offline(e) ==
  /\ e.kind = "left"
  /\ players' = [players EXCEPT ![e.room] = @ \ {e.id}]
  /\ online' = online \ {e.id}
  /\ rout' = <<ToRoom(e.room, About("leave", e.id))>>
  /\ UNCHANGED <<inCall, roomOf, objects>>

\* Manager.Remove forgets the room, objects and all, with its last player.
HandleLeft(e) ==
  /\ e.kind = "left"
  /\ players' = [players EXCEPT ![e.room] = @ \ {e.id}]
  /\ objects' = IF players[e.room] \subseteq {e.id}
                  THEN [objects EXCEPT ![e.room] = 0] ELSE objects
  /\ rout' = <<ToRoom(e.room, About("leave", e.id))>>
  /\ UNCHANGED <<online, inCall, roomOf>>

HandleOnline(e) ==
  /\ e.kind = "online"
  /\ online' = online \cup {e.id}
  /\ rout' = <<ToAll(Presence(e.id, online', inCall, roomOf))>>
  /\ UNCHANGED <<inCall, roomOf, players, objects>>

\* Mutant: nobody is told.
HandleOffline_Silent(e) ==
  /\ e.kind = "offline"
  /\ online' = online \ {e.id}
  /\ inCall' = inCall \ {e.id}
  /\ roomOf' = [roomOf EXCEPT ![e.id] = None]
  /\ UNCHANGED <<rout, players, objects>>

HandleOffline(e) ==
  /\ e.kind = "offline"
  /\ online' = online \ {e.id}
  /\ inCall' = inCall \ {e.id}
  /\ roomOf' = [roomOf EXCEPT ![e.id] = None]
  /\ rout' = <<ToAll(Presence(e.id, online', inCall', roomOf'))>>
  /\ UNCHANGED <<players, objects>>

HandleEvent ==
  /\ Ready /\ TakeEvent
  /\ \/ HandleJoined(Head(events))
     \/ HandleLeft(Head(events))
     \/ HandleOnline(Head(events))
     \/ HandleOffline(Head(events))
  /\ UNCHANGED <<pumpVars, rswitch>>

----------------------------------------------------------------------------
(* handleMessage.  in.id is the sender, in.room the tag its readPump gave    *)
(* the message; by now the sender may be elsewhere, or gone.                 *)

\* updatePlayer and the sprite change: who has no avatar in that room gets one.
HandleAvatar(in) ==
  /\ in.data.type \in {"join", "move", "sprite_change"}
  /\ players' = [players EXCEPT ![in.room] = @ \cup {in.id}]
  /\ rout' = <<ToRoom(in.room, About(in.data.type, in.id))>>
  /\ UNCHANGED <<online, inCall, roomOf, objects, rswitch>>

HandleSwitchRoom(in) ==
  /\ in.data.type = "switch_room"
  /\ rswitch' = IF in.data.room \in {None, in.room}
                  THEN <<>>
                  ELSE <<[room |-> in.room, id |-> in.id, newRoom |-> in.data.room]>>
  /\ UNCHANGED <<online, inCall, roomOf, players, objects, rout>>

\* Mutant: a private chat is broadcast.
ChatTo_All(in) ==
  IF in.data.scope = "room"
    THEN <<ToRoom(in.room, Talk(in, None))>>
    ELSE <<ToAll(Talk(in, in.data.to))>>

\* A private chat goes to its addressee and back to its sender.
ChatTo(in) ==
  CASE in.data.scope = "all" -> <<ToAll(Talk(in, None))>>
    [] in.data.scope = "room" -> <<ToRoom(in.room, Talk(in, None))>>
    [] in.data.scope = "private" /\ in.data.to # None ->
         <<ToUser(in.data.to, Talk(in, in.data.to)),
           ToUser(in.id, Talk(in, in.data.to))>>
    [] OTHER -> <<>>

HandleChat(in) ==
  /\ in.data.type = "chat"
  /\ rout' = ChatTo(in)
  /\ UNCHANGED <<online, inCall, roomOf, players, objects, rswitch>>

HandleCallStatus(in) ==
  /\ in.data.type = "call_status"
  /\ inCall' = IF in.data.inCall THEN inCall \cup {in.id} ELSE inCall \ {in.id}
  /\ rout' = <<ToAll(Presence(in.id, online, inCall', roomOf))>>
  /\ UNCHANGED <<online, roomOf, players, objects, rswitch>>

\* signaling.Relay passes any addressee on, also none.
HandleSignal(in) ==
  /\ in.data.type = "signal"
  /\ rout' = <<ToOne(in.room, in.data.to, Talk(in, in.data.to))>>
  /\ UNCHANGED <<online, inCall, roomOf, players, objects, rswitch>>

\* signaling.RelayCall drops a call message to nobody.
HandleCall(in) ==
  /\ in.data.type = "call"
  /\ rout' = IF in.data.to = None
               THEN <<>>
               ELSE <<ToOne(in.room, in.data.to, Talk(in, in.data.to))>>
  /\ UNCHANGED <<online, inCall, roomOf, players, objects, rswitch>>

HandleObject(in) ==
  /\ in.data.type = "object"
  /\ objects[in.room] < ObjectCap
  /\ objects' = [objects EXCEPT ![in.room] = @ + 1]
  /\ rout' = <<ToRoom(in.room, [type |-> "object"])>>
  /\ UNCHANGED <<online, inCall, roomOf, players, rswitch>>

\* A board or task message: the stores refuse it, or the room is told.
HandleEdit(in) ==
  /\ in.data.type = "edit"
  /\ rout' \in {<<>>, <<ToRoom(in.room, [type |-> "edit"])>>}
  /\ UNCHANGED <<online, inCall, roomOf, players, objects, rswitch>>

HandleMessage ==
  /\ Ready
  /\ incoming # <<>>
  /\ incoming' = Tail(incoming)
  /\ \/ HandleAvatar(Head(incoming))
     \/ HandleSwitchRoom(Head(incoming))
     \/ HandleChat(Head(incoming))
     \/ HandleCallStatus(Head(incoming))
     \/ HandleSignal(Head(incoming))
     \/ HandleCall(Head(incoming))
     \/ HandleObject(Head(incoming))
     \/ HandleEdit(Head(incoming))
  /\ UNCHANGED <<hubVars, held, dead, cut>>

----------------------------------------------------------------------------
(* Sending: h.out <- ... and h.switchCh <- ... block while they are full. *)

RouterSend ==
  /\ rout # <<>>
  /\ PutOut(Head(rout))
  /\ rout' = Tail(rout)
  /\ UNCHANGED <<pumpVars, online, inCall, roomOf, players, objects, rswitch>>

RouterSwitch ==
  /\ rswitch # <<>>
  /\ LET req == Head(rswitch) IN SwitchRoom(req.room, req.id, req.newRoom)
  /\ rswitch' = Tail(rswitch)
  /\ UNCHANGED <<pumpVars, online, inCall, roomOf, players, objects, rout>>
============================================================================
