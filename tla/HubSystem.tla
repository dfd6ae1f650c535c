------------------------------ MODULE HubSystem ------------------------------
(***************************************************************************)
(* The hub on its own: Hub.Run against every router and every connection   *)
(* its channels admit.  The environment may issue any command at any time, *)
(* so what holds here does not depend on what router and clients do.       *)
(*                                                                         *)
(* told and seated are history variables: what a reader of the events      *)
(* channel knows from the events it has taken so far.                      *)
(***************************************************************************)
EXTENDS Hub

CONSTANTS
  Command,   \* the outbound commands the router may give
  Request    \* the room switches it may ask for

ASSUME SystemAssumption ==
  /\ Command \subseteq Outbound
  /\ Request \subseteq SwitchReq

VARIABLES
  told,    \* users whose last Online / Offline taken was Online
  seated   \* <<user, room>> whose last Joined / Left taken was Joined

sysVars == <<hubVars, told, seated>>

Init ==
  /\ HubInit
  /\ told = {}
  /\ seated = {}

\* The effect of one event on a reader's knowledge.
Learn(e) ==
  /\ told' = CASE e.kind = "online" -> told \cup {e.id}
               [] e.kind = "offline" -> told \ {e.id}
               [] OTHER -> told
  /\ seated' = CASE e.kind = "joined" -> seated \cup {<<e.id, e.room>>}
                 [] e.kind = "left" -> seated \ {<<e.id, e.room>>}
                 [] OTHER -> seated

ReadEvent == TakeEvent /\ Learn(Head(events))

Router ==
  \/ \E o \in Command : PutOut(o)
  \/ \E q \in Request : SwitchRoom(q.room, q.id, q.newRoom)

Connection(c) ==
  \/ \E r \in Room \cup {None} : ServeWs(c, r)
  \/ Hangup(c)
  \/ TakeSend(c)

Next ==
  \/ HubStep /\ UNCHANGED <<told, seated>>
  \/ ReadEvent
  \/ \E c \in Client : Connection(c) /\ UNCHANGED <<told, seated>>
  \/ Router /\ UNCHANGED <<told, seated>>

Spec == Init /\ [][Next]_sysVars

----------------------------------------------------------------------------
(* Safety. *)

\* The phases of a connection the hub has registered and not yet released.
Live == {"registered", "unregistering"}

TypeOK ==
  /\ HubTypeOK
  /\ told \in SUBSET User
  /\ seated \in SUBSET (User \X (Room \cup {None}))

\* Hub.Run never panics: a connection it still holds -- as a member, in the
\* middle of a switch, or as one it is about to send to -- has an open send
\* channel, so neither a send nor a second close meets a closed channel, on any
\* interleaving of kicks (register, switch), unregisters and deliveries.
NeverOnClosed ==
  /\ Members \cap closed = {}
  /\ \A m \in moving : m.client \notin closed
  /\ \A p \in dlv : p.client \notin closed

\* userOnline and SendTo look connections up by id, unregister by Client.room:
\* a user has one connection at most in a room, and every member is in the room
\* its Client.room names, also across a switch that kicks and a hangup queued
\* behind it (hub.go:136-139, "the id in membership is not repeated").
WellPlaced ==
  \A r \in Room : \A c, d \in rooms[r] :
    /\ room[c] = r
    /\ Id[c] = Id[d] => c = d

\* No connection is forgotten: one the hub has registered and not closed is a
\* member or is between two rooms, and one whose readPump has been released
\* has a closed send channel, so its writePump ends too.
NoneForgotten ==
  \A c \in Client :
    /\ phase[c] \in Live /\ c \notin closed
         => c \in Members \/ \E m \in moving : m.client = c
    /\ phase[c] = "gone" => c \in closed

\* What a reader will have learned when it has taken everything that is still
\* on its way to it: those events in their order.
Pending == events \o emit
Tells(e, yes, u, r) == e.kind \in yes /\ e.id = u /\ e.room = r

\* The last pending event of one of the kinds on / off about u (and r) is "on",
\* or there is none and the reader already knows it.
WillKnow(on, off, u, r, known) ==
  \/ \E i \in 1..Len(Pending) :
       /\ Tells(Pending[i], {on}, u, r)
       /\ \A j \in (i + 1)..Len(Pending) : ~Tells(Pending[j], {off}, u, r)
  \/ known /\ \A j \in 1..Len(Pending) : ~Tells(Pending[j], {off}, u, r)

Connected(u) == UserOnline(rooms, u) \/ \E m \in moving : Id[m.client] = u

\* Online / Offline tell the truth: when the reader has caught up it takes a
\* user for online exactly when the user has a live connection -- across
\* refreshes, second tabs, kicks and switches, none of which may leave a stray
\* Offline or swallow an Online.
PresenceAgrees ==
  \A u \in User : WillKnow("online", "offline", u, None, u \in told)
                    <=> Connected(u)

\* Joined / Left tell the truth: caught up, the reader has a user in a room
\* exactly when the user has a connection there; in particular the kick of an
\* older connection and its later unregister send no Left.
SeatsAgree ==
  \A u \in User, r \in Room :
    WillKnow("joined", "left", u, r, <<u, r>> \in seated)
      <=> \E c \in rooms[r] : Id[c] = u

----------------------------------------------------------------------------
(* The hub implements Office: connections, channels, kicks and blocking are  *)
(* hidden; a user is where a connection of the user is.                      *)

Seats == UNION {{<<Id[c], r>> : c \in rooms[r]} : r \in Room}
Walking == {<<Id[m.client], m.to>> : m \in moving}

O == INSTANCE Office WITH seats <- Seats, walking <- Walking, news <- Pending

\* Every step of the server is a step of Office or invisible in it: each change
\* of who is where is announced once, by the events Office prescribes and in the
\* order of the changes, and nothing is announced that is no change; a refresh
\* counts as coming again, the death of a kicked connection as nothing, and a
\* walk between rooms neither ends nor renews anybody's presence.
ImplementsOffice == O!Spec

----------------------------------------------------------------------------
(* What holds NeverOnClosed, WellPlaced and NoneForgotten up: the inductive  *)
(* invariant of HubProofs.                                                   *)

MembersLive ==
  \A r \in Room : \A c \in rooms[r] :
    room[c] = r /\ c \notin closed /\ phase[c] \in Live

MovingAlone ==
  /\ \A m, n \in moving : m = n
  /\ \A m \in moving :
       /\ m.client \notin Members
       /\ m.client \notin closed
       /\ phase[m.client] \in Live

\* Nothing is closed before it has been a member.
ClosedLater == \A c \in closed : phase[c] \in Live \cup {"gone"}

\* A broadcast in progress is all the goroutine is doing.
OneJob ==
  /\ dlv # {} => emit = <<>> /\ moving = {}
  /\ \A p \in dlv : p.client \in Members

HubInv ==
  /\ TypeOK
  /\ MembersLive /\ WellPlaced /\ MovingAlone
  /\ ClosedLater /\ NoneForgotten /\ OneJob

============================================================================
