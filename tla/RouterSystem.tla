---------------------------- MODULE RouterSystem ----------------------------
(***************************************************************************)
(* The whole realtime server, as main.go wires it: the hub goroutine, the  *)
(* router goroutine and two pumps for each connection.  Only the peers at  *)
(* the far ends of the sockets are free to do as they like.                *)
(*                                                                         *)
(* view is a history variable: for every connection, the last presence     *)
(* message about each user that has been written to its socket.  So is     *)
(* seated: who is where by the events the router has taken, as HubSystem   *)
(* has it.  said counts the messages of the peers, to bound them.  Writes  *)
(* that fail are the subject of ClientSystem and left out here.            *)
(***************************************************************************)
EXTENDS Router

CONSTANT MaxSaid   \* bound of the model: messages the peers send in all

ASSUME SaidAssumption == MaxSaid \in Nat

VARIABLES view, seated, said

systemVars == <<allVars, view, seated, said>>

\* What a peer takes for granted of a user it has heard nothing of.
Absent(u) == [type |-> "presence", id |-> u, online |-> FALSE, inCall |-> FALSE,
              room |-> None]

Init ==
  /\ RouterInit
  /\ view = [c \in Client |-> [u \in User |-> Absent(u)]]
  /\ seated = {}
  /\ said = 0

\* A message reaches the socket of c.
Write(c) ==
  /\ WriteOk(c)
  /\ LET d == Head(send[c]) IN
       view' = IF d.type = "presence"
                 THEN [view EXCEPT ![c][d.id] = d] ELSE view

Say(c) ==
  /\ said < MaxSaid
  /\ \E msg \in Message : Read(c, msg)
  /\ said' = said + 1

Pump(c) == Push(c) \/ ReadFail(c) \/ CloseConn(c) \/ WriteClosed(c)

\* Where an event puts its user.
Seating(e) ==
  CASE e.kind = "joined" -> seated \cup {<<e.id, e.room>>}
    [] e.kind = "left" -> seated \ {<<e.id, e.room>>}
    [] OTHER -> seated

RouterNext ==
  \/ HandleEvent /\ seated' = Seating(Head(events))
  \/ (HandleMessage \/ RouterSend \/ RouterSwitch) /\ UNCHANGED seated

Next ==
  \/ HubStep /\ UNCHANGED <<pumpVars, routerVars, view, seated, said>>
  \/ RouterNext /\ UNCHANGED <<view, said>>
  \/ \E c \in Client :
       \/ \E r \in Room : ServeWs(c, r) /\ UNCHANGED <<pumpVars, routerVars, view, seated, said>>
       \/ Say(c) /\ UNCHANGED <<routerVars, view, seated>>
       \/ Write(c) /\ UNCHANGED <<routerVars, seated, said>>
       \/ Pump(c) /\ UNCHANGED <<routerVars, view, seated, said>>

Spec == Init /\ [][Next]_systemVars

TypeOK ==
  /\ RouterTypeOK
  /\ view \in [Client -> [User -> PresenceMsg]]
  /\ seated \in SUBSET (User \X Room)
  /\ said \in 0..MaxSaid

----------------------------------------------------------------------------
\* Everything that was on its way has arrived: no goroutine has anything left
\* to do and no channel holds anything.
Settled ==
  /\ Idle /\ Ready
  /\ events = <<>> /\ out = <<>> /\ switchCh = <<>> /\ incoming = <<>>
  /\ \A c \in Client : send[c] = <<>> /\ held[c] = <<>>

Here(u) == \E r \in Room : \E c \in rooms[r] : Id[c] = u

\* The router's idea of who is online is the hub's, once it has caught up,
\* through refreshes, second tabs and switches (router.go:30).
OnlineAgrees == events = <<>> /\ Idle => \A u \in User : u \in online <=> Here(u)

\* Whoever is in a room has an avatar there: the Left of an older stay, or of
\* another connection, never removes the avatar of one that has come since.
MembersHaveAvatars ==
  events = <<>> /\ Idle =>
    \A r \in Room : \A c \in rooms[r] : Id[c] \in players[r]

\* Every connection sees the presence of every user as the router knows it,
\* once all is delivered: the snapshot a newcomer is sent and the broadcasts
\* of changes neither miss nor overtake each other.
ViewsAgree ==
  Settled => \A c \in Members : \A u \in User :
    u \in online => view[c][u] = Presence(u, online, inCall, roomOf)

\* ... and nobody is shown as online who is not.
NobodyLingers ==
  Settled => \A c \in Members : \A u \in User \ online : ~view[c][u].online

\* What is addressed to one user is delivered to nobody else but, a private
\* chat, to its sender; wherever the two have moved to in the meantime.
PrivateIsPrivate ==
  \A p \in dlv :
    p.data.type \in {"chat", "signal", "call"} =>
      p.data.to \in {None, Id[p.client]} \/ p.data.id = Id[p.client]

----------------------------------------------------------------------------
(* What comments of the code say and the code does not do. *)

\* hub.go:67-68: the buffers keep hub and router from waiting for each other.
NoCircularWait ==
  ~ (/\ emit # <<>> /\ Len(events) = EventsCap
     /\ \/ rout # <<>> /\ Len(out) = OutCap
        \/ rswitch # <<>> /\ Len(switchCh) = SwitchCap)

\* router.go:137: Left deletes the state of one who has gone.
NoGhosts ==
  Settled => \A r \in Room : \A u \in players[r] : \E c \in rooms[r] : Id[c] = u
============================================================================
