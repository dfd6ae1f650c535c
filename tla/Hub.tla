-------------------------------- MODULE Hub --------------------------------
(***************************************************************************)
(* The transport layer, internal/hub/hub.go: one goroutine (Hub.Run) owns  *)
(* the membership of the rooms and talks to everything else over channels. *)
(*                                                                         *)
(*   register, unregister   unbuffered; ServeWs / readPump block on them   *)
(*   out, switchCh          buffered; the router blocks when they are full *)
(*   events                 buffered; the hub blocks when it is full       *)
(*   send                   buffered, one per connection; the hub blocks   *)
(*                          when it is full and closes it on a kick        *)
(*                                                                         *)
(* One iteration of Run is one action up to its first channel send.  What  *)
(* the iteration still has to send is kept in emit, moving and dlv, and    *)
(* the next iteration starts only when all three are empty, so every       *)
(* channel send of the goroutine is a step that can block.                 *)
(***************************************************************************)
EXTENDS Naturals, Sequences, FiniteSets

CONSTANTS
  Client,     \* connections: one *Client for each accepted /ws request
  User,       \* user ids, as main.go takes them from the JWT
  Room,       \* room names
  None,       \* the empty string where a room name or an id is expected
  Lobby,      \* the room of a request that names none
  Id,         \* Id[c]: Client.id, fixed when the connection is made
  Data,       \* payloads; the hub never looks inside
  EventsCap, OutCap, SwitchCap, SendCap  \* capacities (code: 64, 1024, 64, 256)

ASSUME HubAssumption ==
  /\ Id \in [Client -> User]
  /\ Lobby \in Room
  /\ None \notin Room
  /\ None \notin User

VARIABLES
  phase,      \* where ServeWs / readPump of each connection is
  room,       \* Client.room (Lobby, until ServeWs makes the connection)
  rooms,      \* Hub.rooms, an absent key being the empty set
  closed,     \* connections whose send channel the hub has closed
  send,       \* contents of each connection's send channel
  events, out, switchCh,  \* contents of the hub's channels
  emit,       \* events the current iteration has still to put on events
  moving,     \* the second half of a room switch, still to be done
  dlv         \* sends the current iteration has still to make

netVars == <<phase, room, rooms, closed, send>>
chanVars == <<events, out, switchCh>>
loopVars == <<emit, moving, dlv>>
hubVars == <<phase, room, rooms, closed, send, events, out, switchCh,
             emit, moving, dlv>>

Phase == {"fresh", "registering", "registered", "unregistering", "gone"}
Event == [kind : {"joined", "left"}, id : User, room : Room]
           \cup [kind : {"online", "offline"}, id : User, room : {None}]
Outbound == [all : BOOLEAN, room : Room \cup {None}, id : User \cup {None},
             data : Data]
SwitchReq == [room : Room, id : User, newRoom : Room \cup {None}]

Ev(kind, u, r) == [kind |-> kind, id |-> u, room |-> r]

----------------------------------------------------------------------------
(* Membership. *)

Members == {c \in Client : \E r \in Room : c \in rooms[r]}

\* userOnline, on the membership rs.
UserOnline(rs, u) == \E r \in Room : \E c \in rs[r] : Id[c] = u

\* The older connections of c's user in room r, which a newcomer kicks out.
Stale(c, r) == {d \in rooms[r] : Id[d] = Id[c] /\ d # c}

\* Mutant: the older connection is closed but stays in the room.
Entered_KeepsStale(c, r) == [rooms EXCEPT ![r] = @ \cup {c}]

\* Membership after c takes its place in room r.
Entered(c, r) == [rooms EXCEPT ![r] = (@ \ Stale(c, r)) \cup {c}]

\* Membership after c is taken out of room r.
Removed(c, r) == [rooms EXCEPT ![r] = @ \ {c}]

----------------------------------------------------------------------------
(* ServeWs and the end of readPump, as far as the hub sees them. *)

\* The request is upgraded and ServeWs blocks on register.
ServeWs(c, r) ==
  /\ phase[c] = "fresh"
  /\ phase' = [phase EXCEPT ![c] = "registering"]
  /\ room' = [room EXCEPT ![c] = IF r = None THEN Lobby ELSE r]
  /\ UNCHANGED <<rooms, closed, send, chanVars, loopVars>>

\* readPump leaves its loop and blocks on unregister.
Hangup(c) ==
  /\ phase[c] = "registered"
  /\ phase' = [phase EXCEPT ![c] = "unregistering"]
  /\ UNCHANGED <<room, rooms, closed, send, chanVars, loopVars>>

\* writePump takes the next message for its socket.
TakeSend(c) ==
  /\ send[c] # <<>>
  /\ send' = [send EXCEPT ![c] = Tail(@)]
  /\ UNCHANGED <<phase, room, rooms, closed, chanVars, loopVars>>

----------------------------------------------------------------------------
(* What the hub offers the router: Events, Broadcast, SendTo, ... *)

TakeEvent ==
  /\ events # <<>>
  /\ events' = Tail(events)
  /\ UNCHANGED <<netVars, out, switchCh, loopVars>>

ToRoom(r, d) == [all |-> FALSE, room |-> r, id |-> None, data |-> d]
ToOne(r, u, d) == [all |-> FALSE, room |-> r, id |-> u, data |-> d]
ToAll(d) == [all |-> TRUE, room |-> None, id |-> None, data |-> d]
ToUser(u, d) == [all |-> FALSE, room |-> None, id |-> u, data |-> d]

PutOut(o) ==
  /\ Len(out) < OutCap
  /\ out' = Append(out, o)
  /\ UNCHANGED <<netVars, events, switchCh, loopVars>>

SwitchRoom(r, u, new) ==
  /\ Len(switchCh) < SwitchCap
  /\ switchCh' = Append(switchCh, [room |-> r, id |-> u, newRoom |-> new])
  /\ UNCHANGED <<netVars, events, out, loopVars>>

----------------------------------------------------------------------------
(* Hub.Run: the select, one action for each case. *)

Idle == emit = <<>> /\ moving = {} /\ dlv = {}

\* Mutants: the older connection leaves the room, its channel stays open; Online
\* is sent before Joined; commands and switches are served first.
Register_NoClose(c) ==
  LET r == room[c] IN
  /\ Idle
  /\ phase[c] = "registering"
  /\ phase' = [phase EXCEPT ![c] = "registered"]
  /\ rooms' = Entered(c, r)
  /\ emit' = IF UserOnline(rooms, Id[c])
               THEN <<Ev("joined", Id[c], r)>>
               ELSE <<Ev("joined", Id[c], r), Ev("online", Id[c], None)>>
  /\ UNCHANGED <<room, closed, send, chanVars, moving, dlv>>

Register_OnlineFirst(c) ==
  /\ Idle
  /\ phase[c] = "registering"
  /\ phase' = [phase EXCEPT ![c] = "registered"]
  /\ rooms' = Entered(c, room[c])
  /\ closed' = closed \cup Stale(c, room[c])
  /\ emit' = IF UserOnline(rooms, Id[c])
               THEN <<Ev("joined", Id[c], room[c])>>
               ELSE <<Ev("online", Id[c], None), Ev("joined", Id[c], room[c])>>
  /\ UNCHANGED <<room, send, chanVars, moving, dlv>>

Register_CommandsFirst(c) ==
  /\ out = <<>> /\ switchCh = <<>>
  /\ Idle
  /\ phase[c] = "registering"
  /\ phase' = [phase EXCEPT ![c] = "registered"]
  /\ rooms' = Entered(c, room[c])
  /\ closed' = closed \cup Stale(c, room[c])
  /\ emit' = IF UserOnline(rooms, Id[c])
               THEN <<Ev("joined", Id[c], room[c])>>
               ELSE <<Ev("joined", Id[c], room[c]), Ev("online", Id[c], None)>>
  /\ UNCHANGED <<room, send, chanVars, moving, dlv>>

Register(c) ==
  LET r == room[c] IN
  /\ Idle
  /\ phase[c] = "registering"
  /\ phase' = [phase EXCEPT ![c] = "registered"]
  /\ rooms' = Entered(c, r)
  /\ closed' = closed \cup Stale(c, r)
  /\ emit' = IF UserOnline(rooms, Id[c])
               THEN <<Ev("joined", Id[c], r)>>
               ELSE <<Ev("joined", Id[c], r), Ev("online", Id[c], None)>>
  /\ UNCHANGED <<room, send, chanVars, moving, dlv>>

\* Mutant: userOnline is asked before the connection is taken out.
UnregisterMember_AsksEarly(c) ==
  LET r == room[c] IN
  /\ Idle
  /\ phase[c] = "unregistering"
  /\ c \in rooms[r]
  /\ phase' = [phase EXCEPT ![c] = "gone"]
  /\ rooms' = Removed(c, r)
  /\ closed' = closed \cup {c}
  /\ emit' = IF UserOnline(rooms, Id[c])
               THEN <<Ev("left", Id[c], r)>>
               ELSE <<Ev("left", Id[c], r), Ev("offline", Id[c], None)>>
  /\ UNCHANGED <<room, send, chanVars, moving, dlv>>

UnregisterMember(c) ==
  LET r == room[c]
      rest == Removed(c, r)
  IN
  /\ Idle
  /\ phase[c] = "unregistering"
  /\ c \in rooms[r]
  /\ phase' = [phase EXCEPT ![c] = "gone"]
  /\ rooms' = rest
  /\ closed' = closed \cup {c}
  /\ emit' = IF UserOnline(rest, Id[c])
               THEN <<Ev("left", Id[c], r)>>
               ELSE <<Ev("left", Id[c], r), Ev("offline", Id[c], None)>>
  /\ UNCHANGED <<room, send, chanVars, moving, dlv>>

\* Mutants: a kicked connection is announced as having left; its unregister is
\* never answered.
UnregisterKicked_Left(c) ==
  /\ Idle
  /\ phase[c] = "unregistering"
  /\ c \notin rooms[room[c]]
  /\ phase' = [phase EXCEPT ![c] = "gone"]
  /\ emit' = <<Ev("left", Id[c], room[c])>>
  /\ UNCHANGED <<room, rooms, closed, send, chanVars, moving, dlv>>

\* A connection that was kicked is no member: nothing but the rendezvous.
UnregisterKicked(c) ==
  /\ Idle
  /\ phase[c] = "unregistering"
  /\ c \notin rooms[room[c]]
  /\ phase' = [phase EXCEPT ![c] = "gone"]
  /\ UNCHANGED <<room, rooms, closed, send, chanVars, loopVars>>

\* The connections an outbound command matches; the cases in the code's order.
Matching(o) ==
  CASE o.all -> Members
    [] ~o.all /\ o.room = None -> {c \in Members : Id[c] = o.id}
    [] ~o.all /\ o.room # None /\ o.id = None -> rooms[o.room]
    [] OTHER -> {c \in rooms[o.room] : Id[c] = o.id}

\* A command with room and id stops at the first match, in map order.
Recipients(o) ==
  IF ~o.all /\ o.room # None /\ o.id # None /\ Matching(o) # {}
    THEN {{c} : c \in Matching(o)}
    ELSE {Matching(o)}

HandleOut ==
  /\ Idle
  /\ out # <<>>
  /\ out' = Tail(out)
  /\ \E to \in Recipients(Head(out)) :
       dlv' = {[client |-> c, data |-> Head(out).data] : c \in to}
  /\ UNCHANGED <<netVars, events, switchCh, emit, moving>>

\* The member a switch request is about, if it is still where it was.
Switching(req) == {c \in rooms[req.room] : Id[c] = req.id}

\* A request for the room one is in, for "", or of someone who has left.
SwitchIgnored ==
  /\ Idle
  /\ switchCh # <<>>
  /\ LET req == Head(switchCh) IN
       \/ req.newRoom \in {None, req.room}
       \/ Switching(req) = {}
  /\ switchCh' = Tail(switchCh)
  /\ UNCHANGED <<netVars, events, out, loopVars>>

\* Mutant: a request for the room "" is not ignored.
SwitchLeave_ToNowhere ==
  /\ Idle
  /\ switchCh # <<>>
  /\ switchCh' = Tail(switchCh)
  /\ LET req == Head(switchCh) IN
       /\ req.newRoom # req.room
       /\ \E c \in Switching(req) :
            /\ rooms' = Removed(c, req.room)
            /\ moving' = {[client |-> c, to |-> req.newRoom]}
       /\ emit' = <<Ev("left", req.id, req.room)>>
  /\ UNCHANGED <<phase, room, closed, send, events, out, dlv>>

\* First half of a switch: out of the old room, Left goes out.
SwitchLeave ==
  /\ Idle
  /\ switchCh # <<>>
  /\ switchCh' = Tail(switchCh)
  /\ LET req == Head(switchCh) IN
       /\ req.newRoom \notin {None, req.room}
       /\ \E c \in Switching(req) :
            /\ rooms' = Removed(c, req.room)
            /\ moving' = {[client |-> c, to |-> req.newRoom]}
       /\ emit' = <<Ev("left", req.id, req.room)>>
  /\ UNCHANGED <<phase, room, closed, send, events, out, dlv>>

\* Mutant: setRoom is forgotten.
SwitchEnter_KeepsRoom(m) ==
  /\ emit = <<>>
  /\ moving = {m}
  /\ moving' = {}
  /\ rooms' = Entered(m.client, m.to)
  /\ closed' = closed \cup Stale(m.client, m.to)
  /\ emit' = <<Ev("joined", Id[m.client], m.to)>>
  /\ UNCHANGED <<room, phase, send, chanVars, dlv>>

\* Second half, once Left is in the channel: into the new room.
SwitchEnter(m) ==
  /\ emit = <<>>
  /\ moving = {m}
  /\ moving' = {}
  /\ room' = [room EXCEPT ![m.client] = m.to]
  /\ rooms' = Entered(m.client, m.to)
  /\ closed' = closed \cup Stale(m.client, m.to)
  /\ emit' = <<Ev("joined", Id[m.client], m.to)>>
  /\ UNCHANGED <<phase, send, chanVars, dlv>>

\* h.events <- Event{...}: blocks while the channel is full.
Emit ==
  /\ emit # <<>>
  /\ Len(events) < EventsCap
  /\ events' = Append(events, Head(emit))
  /\ emit' = Tail(emit)
  /\ UNCHANGED <<netVars, out, switchCh, moving, dlv>>

\* c.send <- o.data: blocks while the channel is full, in map order.
Deliver(p) ==
  /\ p \in dlv
  /\ Len(send[p.client]) < SendCap
  /\ send' = [send EXCEPT ![p.client] = Append(@, p.data)]
  /\ dlv' = dlv \ {p}
  /\ UNCHANGED <<phase, room, rooms, closed, chanVars, emit, moving>>

\* The goroutine's next step, whichever it is.
HubStep ==
  \/ \E c \in Client : Register(c) \/ UnregisterMember(c) \/ UnregisterKicked(c)
  \/ HandleOut \/ SwitchIgnored \/ SwitchLeave
  \/ \E m \in moving : SwitchEnter(m)
  \/ Emit
  \/ \E p \in dlv : Deliver(p)

HubInit ==
  /\ phase = [c \in Client |-> "fresh"]
  /\ room = [c \in Client |-> Lobby]
  /\ rooms = [r \in Room |-> {}]
  /\ closed = {}
  /\ send = [c \in Client |-> <<>>]
  /\ events = <<>> /\ out = <<>> /\ switchCh = <<>>
  /\ emit = <<>> /\ moving = {} /\ dlv = {}

HubTypeOK ==
  /\ phase \in [Client -> Phase]
  /\ room \in [Client -> Room]
  /\ rooms \in [Room -> SUBSET Client]
  /\ closed \in SUBSET Client
  /\ send \in [Client -> Seq(Data)]
  /\ events \in Seq(Event)
  /\ out \in Seq(Outbound)
  /\ switchCh \in Seq(SwitchReq)
  /\ emit \in Seq(Event)
  /\ moving \in SUBSET [client : Client, to : Room]
  /\ dlv \in SUBSET [client : Client, data : Data]

\* Fairness of the goroutine: it runs whenever it can, and Go's select picks at
\* random among its ready cases, so a case ready again and again is taken.
HubFairness ==
  /\ WF_hubVars(Emit)
  /\ WF_hubVars(\E m \in moving : SwitchEnter(m))
  /\ WF_hubVars(\E p \in dlv : Deliver(p))
  /\ SF_hubVars(HandleOut)
  /\ SF_hubVars(SwitchIgnored \/ SwitchLeave)
  /\ \A c \in Client :
       SF_hubVars(Register(c) \/ UnregisterMember(c) \/ UnregisterKicked(c))
============================================================================
