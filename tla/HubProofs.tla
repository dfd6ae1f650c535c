------------------------------ MODULE HubProofs ------------------------------
(***************************************************************************)
(* Theorems about the hub, for every number of connections, users, rooms   *)
(* and every capacity of the channels.                                     *)
(***************************************************************************)
EXTENDS HubSystem, TLAPS

USE HubAssumption, SystemAssumption DEF HubAssumption, SystemAssumption

----------------------------------------------------------------------------
(* The pieces the actions are built from keep their types. *)

\* What an iteration sends on events is an event, one or two of them.
LEMMA EvType ==
  ASSUME NEW kind, NEW u \in User, NEW r,
         \/ kind \in {"joined", "left"} /\ r \in Room
         \/ kind \in {"online", "offline"} /\ r = None
  PROVE  /\ Ev(kind, u, r) \in Event
         /\ <<Ev(kind, u, r)>> \in Seq(Event)
  BY DEF Ev, Event

LEMMA EvPair ==
  ASSUME NEW e \in Event, NEW f \in Event
  PROVE  <<e, f>> \in Seq(Event)
  OBVIOUS

\* Entering or leaving a room keeps rooms a map from rooms to connections.
LEMMA PlaceType ==
  ASSUME rooms \in [Room -> SUBSET Client], NEW c \in Client, NEW r
  PROVE  /\ Entered(c, r) \in [Room -> SUBSET Client]
         /\ Removed(c, r) \in [Room -> SUBSET Client]
         /\ r \in Room => Stale(c, r) \in SUBSET Client
  BY DEF Entered, Removed, Stale

\* Whoever an outbound command reaches is a connection.
LEMMA RecipientType ==
  ASSUME rooms \in [Room -> SUBSET Client], NEW o \in Outbound,
         NEW to \in Recipients(o)
  PROVE  to \subseteq Members /\ Members \subseteq Client
<1>1. Members \subseteq Client
  BY DEF Members
<1>2. Matching(o) \subseteq Members
  BY DEF Matching, Members, Outbound
<1>3. QED
  BY <1>1, <1>2 DEF Recipients

----------------------------------------------------------------------------
(* The type invariant. *)

LEMMA TypeInit == Init => TypeOK
  BY DEF Init, HubInit, TypeOK, HubTypeOK, Phase

LEMMA TypeStep ==
  ASSUME TypeOK, [Next]_sysVars
  PROVE  TypeOK'
<1> USE DEF TypeOK, HubTypeOK
<1>1. CASE UNCHANGED sysVars
  BY <1>1 DEF sysVars, hubVars
<1>2. ASSUME NEW c \in Client, Register(c), UNCHANGED <<told, seated>>
      PROVE  TypeOK'
  <2>1. room[c] \in Room \cup {None} /\ Id[c] \in User
    OBVIOUS
  <2>2. emit' \in Seq(Event)
    <3>1. /\ Ev("joined", Id[c], room[c]) \in Event
          /\ Ev("online", Id[c], None) \in Event
          /\ <<Ev("joined", Id[c], room[c])>> \in Seq(Event)
      BY <2>1, EvType
    <3>2. QED
      BY <1>2, <3>1, EvPair DEF Register
  <2>3. Stale(c, room[c]) \in SUBSET Client
    BY DEF Stale
  <2>4. rooms' \in [Room -> SUBSET Client]
    BY <1>2, PlaceType DEF Register
  <2>5. phase' \in [Client -> Phase]
    BY <1>2 DEF Register, Phase
  <2>6. QED
    BY <1>2, <2>2, <2>3, <2>4, <2>5 DEF Register, chanVars
<1>3. ASSUME NEW c \in Client, UnregisterMember(c), UNCHANGED <<told, seated>>
      PROVE  TypeOK'
  <2>1. room[c] \in Room \cup {None} /\ Id[c] \in User
    OBVIOUS
  <2>2. emit' \in Seq(Event)
    BY <1>3, <2>1, EvType, EvPair DEF UnregisterMember
  <2>3. rooms' \in [Room -> SUBSET Client]
    BY <1>3, PlaceType DEF UnregisterMember
  <2>4. phase' \in [Client -> Phase]
    BY <1>3 DEF UnregisterMember, Phase
  <2>5. QED
    BY <1>3, <2>2, <2>3, <2>4 DEF UnregisterMember, chanVars
<1>4. ASSUME NEW c \in Client, UnregisterKicked(c), UNCHANGED <<told, seated>>
      PROVE  TypeOK'
  BY <1>4 DEF UnregisterKicked, Phase, chanVars, loopVars
<1>5. CASE HandleOut /\ UNCHANGED <<told, seated>>
  <2>1. Head(out) \in Outbound /\ out' \in Seq(Outbound)
    BY <1>5 DEF HandleOut
  <2>2. PICK to \in Recipients(Head(out)) :
          dlv' = {[client |-> c, data |-> Head(out).data] : c \in to}
    BY <1>5 DEF HandleOut
  <2>3. Head(out).data \in Data
    BY <2>1 DEF Outbound
  <2>4. dlv' \in SUBSET [client : Client, data : Data]
    BY <2>1, <2>2, <2>3, RecipientType
  <2>5. QED
    BY <1>5, <2>1, <2>4 DEF HandleOut, netVars
<1>6. CASE SwitchIgnored /\ UNCHANGED <<told, seated>>
  BY <1>6 DEF SwitchIgnored, netVars, loopVars
<1>7. CASE SwitchLeave /\ UNCHANGED <<told, seated>>
  <2> DEFINE req == Head(switchCh)
  <2>1. req \in SwitchReq /\ switchCh' \in Seq(SwitchReq)
    BY <1>7 DEF SwitchLeave
  <2>2. req.room \in Room /\ req.id \in User /\ req.newRoom \in Room \cup {None}
    BY <2>1 DEF SwitchReq
  <2>3. PICK c \in Switching(req) :
          /\ rooms' = Removed(c, req.room)
          /\ moving' = {[client |-> c, to |-> req.newRoom]}
    BY <1>7 DEF SwitchLeave
  <2>4. c \in Client
    BY <2>2, <2>3 DEF Switching
  <2>5. req.newRoom \in Room
    BY <1>7, <2>2 DEF SwitchLeave
  <2>6. emit' \in Seq(Event)
    BY <1>7, <2>2, EvType DEF SwitchLeave
  <2>7. rooms' \in [Room -> SUBSET Client]
    BY <2>3, <2>4, PlaceType
  <2>8. moving' \in SUBSET [client : Client, to : Room]
    BY <2>3, <2>4, <2>5
  <2>9. QED
    BY <1>7, <2>1, <2>6, <2>7, <2>8 DEF SwitchLeave
<1>8. ASSUME NEW m \in moving, SwitchEnter(m), UNCHANGED <<told, seated>>
      PROVE  TypeOK'
  <2>1. m.client \in Client /\ m.to \in Room
    OBVIOUS
  <2>2. Id[m.client] \in User
    BY <2>1
  <2>3. emit' \in Seq(Event)
    BY <1>8, <2>1, <2>2, EvType DEF SwitchEnter
  <2>4. /\ rooms' \in [Room -> SUBSET Client]
        /\ closed' \in SUBSET Client
    BY <1>8, <2>1, PlaceType DEF SwitchEnter
  <2>5. room' \in [Client -> Room]
    BY <1>8, <2>1 DEF SwitchEnter
  <2>6. QED
    BY <1>8, <2>3, <2>4, <2>5 DEF SwitchEnter, chanVars
<1>9. CASE Emit /\ UNCHANGED <<told, seated>>
  BY <1>9 DEF Emit, netVars
<1>10. ASSUME NEW p \in dlv, Deliver(p), UNCHANGED <<told, seated>>
       PROVE  TypeOK'
  BY <1>10 DEF Deliver, chanVars
<1>11. CASE ReadEvent
  <2>1. Head(events) \in Event /\ events' \in Seq(Event)
    BY <1>11 DEF ReadEvent, TakeEvent
  <2>2. /\ Head(events).id \in User
        /\ Head(events).kind = "joined" \/ Head(events).kind = "left"
             \/ Head(events).kind \in {"online", "offline"}
    BY <2>1 DEF Event
  <2>3. told' \in SUBSET User
    BY <1>11, <2>2 DEF ReadEvent, Learn
  <2>4. seated' \in SUBSET (User \X (Room \cup {None}))
    BY <1>11, <2>1, <2>2 DEF ReadEvent, Learn, Event
  <2>5. QED
    BY <1>11, <2>1, <2>3, <2>4 DEF ReadEvent, TakeEvent, netVars, loopVars
<1>12. CASE Router /\ UNCHANGED <<told, seated>>
  <2>1. ASSUME NEW o \in Command, PutOut(o)
        PROVE  TypeOK'
    BY <1>12, <2>1 DEF PutOut, netVars, loopVars
  <2>2. ASSUME NEW q \in Request, SwitchRoom(q.room, q.id, q.newRoom)
        PROVE  TypeOK'
    <3>1. [room |-> q.room, id |-> q.id, newRoom |-> q.newRoom] \in SwitchReq
      BY DEF SwitchReq
    <3>2. QED
      BY <1>12, <2>2, <3>1 DEF SwitchRoom, netVars, loopVars
  <2>3. QED
    BY <1>12, <2>1, <2>2 DEF Router
<1>13. ASSUME NEW c \in Client, Connection(c), UNCHANGED <<told, seated>>
       PROVE  TypeOK'
  <2>1. ASSUME NEW r \in Room \cup {None}, ServeWs(c, r)
        PROVE  TypeOK'
    BY <1>13, <2>1 DEF ServeWs, Phase, chanVars, loopVars
  <2>2. CASE Hangup(c)
    BY <1>13, <2>2 DEF Hangup, Phase, chanVars, loopVars
  <2>3. CASE TakeSend(c)
    <3>1. send' \in [Client -> Seq(Data)]
      BY <2>3 DEF TakeSend
    <3>2. QED
      BY <1>13, <2>3, <3>1 DEF TakeSend, chanVars, loopVars
  <2>4. QED
    BY <1>13, <2>1, <2>2, <2>3 DEF Connection
<1>14. QED
  BY <1>1, <1>2, <1>3, <1>4, <1>5, <1>6, <1>7, <1>8, <1>9, <1>10, <1>11,
     <1>12, <1>13 DEF Next, HubStep

\* The hub's state keeps its type: channels hold what they are declared to
\* hold, and whoever a goroutine is about to serve is a connection.
THEOREM TypeCorrect == Spec => []TypeOK
  BY TypeInit, TypeStep, PTL DEF Spec


----------------------------------------------------------------------------
(* The safety invariant. *)

LEMMA SafeInit == Init => HubInv
  BY TypeInit
  DEF Init, HubInit, HubInv, MembersLive, WellPlaced, MovingAlone, ClosedLater,
      NoneForgotten, OneJob, Members, Live

\* What happens when c takes its place in room r and kicks whom it finds there.
LEMMA Placed ==
  ASSUME HubInv, NEW c \in Client, NEW r \in Room,
         c \notin Members, c \notin closed, dlv = {},
         phase' \in [Client -> Phase], room' \in [Client -> Room],
         phase'[c] \in Live, room'[c] = r,
         \A d \in Client \ {c} : phase'[d] = phase[d] /\ room'[d] = room[d],
         rooms' = Entered(c, r), closed' = closed \cup Stale(c, r),
         moving' = {}, dlv' = {}, \A m \in moving : m.client = c
  PROVE  /\ MembersLive' /\ WellPlaced' /\ MovingAlone'
         /\ ClosedLater' /\ NoneForgotten' /\ OneJob'
<1>a. /\ phase \in [Client -> Phase] /\ room \in [Client -> Room]
      /\ rooms \in [Room -> SUBSET Client] /\ closed \subseteq Client
      /\ moving \subseteq [client : Client, to : Room]
  BY DEF HubInv, TypeOK, HubTypeOK
<1>b. /\ MembersLive /\ WellPlaced /\ MovingAlone
      /\ ClosedLater /\ NoneForgotten /\ OneJob
  BY DEF HubInv
<1> USE <1>a, <1>b
<1>1. \A s \in Room : rooms'[s] = IF s = r THEN (rooms[r] \ Stale(c, r)) \cup {c}
                                           ELSE rooms[s]
  BY DEF Entered
<1>2. \A s \in Room : c \notin rooms[s]
  BY DEF Members
<1>3. \A d \in Stale(c, r) : d \in rooms[r] /\ d # c /\ Id[d] = Id[c]
  BY DEF Stale
<1>4. MembersLive'
  <2> SUFFICES ASSUME NEW s \in Room, NEW d \in rooms'[s]
               PROVE  room'[d] = s /\ d \notin closed' /\ phase'[d] \in Live
    BY DEF MembersLive
  <2>1. CASE d = c
    <3>1. s = r
      BY <2>1, <1>1, <1>2
    <3>2. QED
      BY <2>1, <3>1, <1>3
  <2>2. CASE d # c
    <3>1. d \in rooms[s] /\ d \in Client
      BY <2>2, <1>1
    <3>2. room[d] = s /\ d \notin closed /\ phase[d] \in Live
      BY <3>1 DEF MembersLive
    <3>3. d \notin Stale(c, r)
      <4>1. CASE s = r
        BY <4>1, <2>2, <1>1
      <4>2. CASE s # r
        BY <4>2, <3>2, <1>3 DEF MembersLive
      <4>3. QED
        BY <4>1, <4>2
    <3>4. QED
      BY <2>2, <3>1, <3>2, <3>3
  <2>3. QED
    BY <2>1, <2>2
<1>5. WellPlaced'
  <2> SUFFICES ASSUME NEW s \in Room, NEW d \in rooms'[s], NEW e \in rooms'[s],
                      Id[d] = Id[e]
               PROVE  d = e
    BY <1>4 DEF WellPlaced, MembersLive
  <2>1. CASE d # c /\ e # c
    BY <2>1, <1>1 DEF WellPlaced
  <2>2. CASE d = c \/ e = c
    <3>1. s = r
      BY <2>2, <1>1, <1>2
    <3>2. \A f \in rooms'[r] : f # c => f \in rooms[r] /\ f \notin Stale(c, r)
      BY <1>1
    <3>3. \A f \in rooms'[r] : Id[f] = Id[c] => f = c
      BY <3>2 DEF Stale
    <3>4. QED
      BY <2>2, <3>1, <3>3
  <2>3. QED
    BY <2>1, <2>2
<1>6. MovingAlone' /\ OneJob'
  BY DEF MovingAlone, OneJob
<1>7. ClosedLater'
  <2> SUFFICES ASSUME NEW d \in closed'
               PROVE  phase'[d] \in Live \cup {"gone"}
    BY DEF ClosedLater
  <2>1. d \in Client /\ d # c
    BY <1>3
  <2>2. phase[d] \in Live \cup {"gone"}
    BY <1>3 DEF ClosedLater, MembersLive
  <2>3. QED
    BY <2>1, <2>2
<1>8. NoneForgotten'
  <2> SUFFICES ASSUME NEW d \in Client
               PROVE  /\ phase'[d] \in Live /\ d \notin closed' => d \in Members'
                      /\ phase'[d] = "gone" => d \in closed'
    BY DEF NoneForgotten
  <2>1. CASE d = c
    <3>1. c \in rooms'[r]
      BY <1>1
    <3>2. QED
      BY <2>1, <3>1 DEF Members, Live
  <2>2. CASE d # c
    <3>1. phase[d] \in Live /\ d \notin closed => d \in Members
      BY <2>2 DEF NoneForgotten
    <3>2. d \in Members => d \in Members' \/ d \in Stale(c, r)
      BY <1>1 DEF Members
    <3>3. phase[d] = "gone" => d \in closed
      BY DEF NoneForgotten
    <3>4. QED
      BY <2>2, <3>1, <3>2, <3>3
  <2>3. QED
    BY <2>1, <2>2
<1>9. QED
  BY <1>4, <1>5, <1>6, <1>7, <1>8

LEMMA SafeStep ==
  ASSUME HubInv, [Next]_sysVars
  PROVE  HubInv'
<1>0. TypeOK'
  BY TypeStep DEF HubInv
<1>c. phase' \in [Client -> Phase] /\ room' \in [Client -> Room]
  BY <1>0 DEF TypeOK, HubTypeOK
<1> DEFINE Rest == /\ MembersLive /\ WellPlaced /\ MovingAlone
                   /\ ClosedLater /\ NoneForgotten /\ OneJob
<1> SUFFICES Rest'
  BY <1>0 DEF HubInv
<1>a. /\ phase \in [Client -> Phase] /\ room \in [Client -> Room]
      /\ rooms \in [Room -> SUBSET Client] /\ closed \subseteq Client
      /\ moving \subseteq [client : Client, to : Room]
      /\ out \in Seq(Outbound) /\ switchCh \in Seq(SwitchReq)
  BY DEF HubInv, TypeOK, HubTypeOK
<1>b. /\ MembersLive /\ WellPlaced /\ MovingAlone
      /\ ClosedLater /\ NoneForgotten /\ OneJob
  BY DEF HubInv
<1> USE <1>a, <1>b
\* Steps that touch neither membership nor what the goroutine is about to do.
<1>1. ASSUME UNCHANGED <<phase, room, rooms, closed, moving>>,
             dlv' \subseteq dlv, dlv # {} => emit' = emit
      PROVE  Rest'
  BY <1>1 DEF MembersLive, WellPlaced, MovingAlone, ClosedLater, NoneForgotten,
              OneJob, Members
<1>2. CASE UNCHANGED sysVars
  BY <1>1, <1>2 DEF sysVars, hubVars
<1>3. ASSUME NEW c \in Client, Register(c)
      PROVE  Rest'
  <2>1. phase[c] = "registering" /\ dlv = {} /\ moving = {}
    BY <1>3 DEF Register, Idle
  <2>2. c \notin Members /\ c \notin closed
    BY <2>1 DEF Members, MembersLive, ClosedLater, Live
  <2>3. /\ phase'[c] \in Live
        /\ \A d \in Client \ {c} : phase'[d] = phase[d] /\ room'[d] = room[d]
        /\ room'[c] = room[c]
    BY <1>3 DEF Register, Live
  <2>4. /\ rooms' = Entered(c, room[c]) /\ closed' = closed \cup Stale(c, room[c])
        /\ moving' = {} /\ dlv' = {}
    BY <1>3, <2>1 DEF Register
  <2>5. QED
    BY <1>c, <2>1, <2>2, <2>3, <2>4, Placed
<1>4. ASSUME NEW c \in Client, UnregisterMember(c)
      PROVE  Rest'
  <2> DEFINE r == room[c]
  <2>1. /\ phase[c] = "unregistering" /\ dlv = {} /\ moving = {} /\ c \in rooms[r]
        /\ phase' = [phase EXCEPT ![c] = "gone"] /\ closed' = closed \cup {c}
        /\ moving' = {} /\ dlv' = {} /\ room' = room
    BY <1>4 DEF UnregisterMember, Idle
  <2>2. \A s \in Room : rooms'[s] = IF s = r THEN rooms[r] \ {c} ELSE rooms[s]
    BY <1>4 DEF UnregisterMember, Removed
  <2>3. MembersLive' /\ WellPlaced'
    <3>1. \A s \in Room : \A d \in rooms'[s] : d # c /\ d \in rooms[s]
      BY <2>2 DEF MembersLive
    <3>2. QED
      BY <2>1, <3>1 DEF MembersLive, WellPlaced
  <2>4. MovingAlone' /\ OneJob'
    BY <2>1 DEF MovingAlone, OneJob
  <2>5. ClosedLater'
    BY <2>1 DEF ClosedLater, Live
  <2>6. NoneForgotten'
    <3> SUFFICES ASSUME NEW d \in Client
                 PROVE  /\ phase'[d] \in Live /\ d \notin closed' => d \in Members'
                        /\ phase'[d] = "gone" => d \in closed'
      BY DEF NoneForgotten
    <3>1. CASE d = c
      BY <3>1, <2>1
    <3>2. CASE d # c
      <4>1. d \in Members => d \in Members'
        BY <3>2, <2>2 DEF Members
      <4>2. QED
        BY <3>2, <2>1, <4>1 DEF NoneForgotten
    <3>3. QED
      BY <3>1, <3>2
  <2>7. QED
    BY <2>3, <2>4, <2>5, <2>6
<1>5. ASSUME NEW c \in Client, UnregisterKicked(c)
      PROVE  Rest'
  <2>1. /\ phase[c] = "unregistering" /\ dlv = {} /\ moving = {}
        /\ c \notin rooms[room[c]] /\ phase' = [phase EXCEPT ![c] = "gone"]
        /\ UNCHANGED <<room, rooms, closed, moving, dlv>>
    BY <1>5 DEF UnregisterKicked, Idle, loopVars
  <2>2. c \notin Members
    BY <2>1 DEF Members, MembersLive
  <2>3. c \in closed
    BY <2>1, <2>2 DEF NoneForgotten, Live
  <2>4. MembersLive' /\ WellPlaced'
    <3>1. \A s \in Room : \A d \in rooms[s] : d # c
      BY <2>2 DEF Members
    <3>2. QED
      BY <2>1, <3>1 DEF MembersLive, WellPlaced
  <2>5. MovingAlone' /\ OneJob' /\ ClosedLater'
    BY <2>1 DEF MovingAlone, OneJob, ClosedLater, Live
  <2>6. NoneForgotten'
    BY <2>1, <2>3 DEF NoneForgotten, Members, Live
  <2>7. QED
    BY <2>4, <2>5, <2>6
<1>6. CASE HandleOut
  <2>1. PICK to \in Recipients(Head(out)) :
          dlv' = {[client |-> c, data |-> Head(out).data] : c \in to}
    BY <1>6 DEF HandleOut
  <2>2. Head(out) \in Outbound
    BY <1>6 DEF HandleOut
  <2>3. \A p \in dlv' : p.client \in Members
    BY <2>1, <2>2, RecipientType
  <2>4. /\ UNCHANGED <<phase, room, rooms, closed, moving, emit>>
        /\ moving = {} /\ emit = <<>>
    BY <1>6 DEF HandleOut, netVars, Idle
  <2>5. OneJob'
    BY <2>3, <2>4 DEF OneJob, Members
  <2>6. QED
    BY <2>4, <2>5 DEF MembersLive, WellPlaced, MovingAlone, ClosedLater,
                      NoneForgotten, Members
<1>7. CASE SwitchIgnored
  BY <1>1, <1>7 DEF SwitchIgnored, netVars, loopVars
<1>8. CASE SwitchLeave
  <2> DEFINE req == Head(switchCh)
  <2>1. PICK c \in Switching(req) :
          /\ rooms' = Removed(c, req.room)
          /\ moving' = {[client |-> c, to |-> req.newRoom]}
    BY <1>8 DEF SwitchLeave
  <2>2. req.room \in Room
    <3>1. req \in SwitchReq
      BY <1>8 DEF SwitchLeave
    <3>2. QED
      BY <3>1 DEF SwitchReq
  <2>3. c \in rooms[req.room] /\ c \in Client
    BY <2>2 DEF Switching
  <2>4. UNCHANGED <<phase, room, closed, dlv>> /\ dlv = {}
    BY <1>8 DEF SwitchLeave, Idle
  <2>5. \A s \in Room :
          rooms'[s] = IF s = req.room THEN rooms[s] \ {c} ELSE rooms[s]
    BY <2>1 DEF Removed
  <2>6. \A s \in Room : c \notin rooms'[s]
    <3>1. \A s \in Room : c \in rooms[s] => s = req.room
      BY <2>2, <2>3 DEF MembersLive
    <3>2. QED
      BY <3>1, <2>5
  <2>7. \A s \in Room : rooms'[s] \subseteq rooms[s]
    BY <2>5
  <2>8. MembersLive' /\ WellPlaced'
    BY <2>4, <2>7 DEF MembersLive, WellPlaced
  <2>9. MovingAlone'
    <3>1. c \notin closed /\ phase[c] \in Live
      BY <2>2, <2>3 DEF MembersLive
    <3>2. \A m \in moving' : m.client = c
      BY <2>1
    <3>3. c \notin Members'
      BY <2>6 DEF Members
    <3>4. \A m, n \in moving' : m = n
      BY <2>1
    <3>5. QED
      BY <2>4, <3>1, <3>2, <3>3, <3>4 DEF MovingAlone
  <2>10. ClosedLater' /\ OneJob'
    BY <2>4 DEF ClosedLater, OneJob
  <2>11. NoneForgotten'
    <3> SUFFICES ASSUME NEW d \in Client
                 PROVE  /\ phase'[d] \in Live /\ d \notin closed'
                             => d \in Members' \/ \E m \in moving' : m.client = d
                        /\ phase'[d] = "gone" => d \in closed'
      BY DEF NoneForgotten
    <3>1. moving = {}
      BY <1>8 DEF SwitchLeave, Idle
    <3>2. d # c /\ d \in Members => d \in Members'
      BY <2>5 DEF Members
    <3>3. \E m \in moving' : m.client = c
      BY <2>1
    <3>4. QED
      BY <2>4, <3>1, <3>2, <3>3 DEF NoneForgotten
  <2>12. QED
    BY <2>8, <2>9, <2>10, <2>11
<1>9. ASSUME NEW m \in moving, SwitchEnter(m)
      PROVE  Rest'
  <2> DEFINE c == m.client
  <2>1. c \in Client /\ m.to \in Room
    OBVIOUS
  <2>2. /\ c \notin Members /\ c \notin closed /\ phase[c] \in Live
        /\ \A n \in moving : n.client = c
    BY DEF MovingAlone
  <2>3. dlv = {}
    BY DEF OneJob
  <2>4. /\ phase' = phase /\ room' = [room EXCEPT ![c] = m.to]
        /\ rooms' = Entered(c, m.to) /\ closed' = closed \cup Stale(c, m.to)
        /\ moving' = {} /\ dlv' = dlv
    BY <1>9 DEF SwitchEnter
  <2>5. /\ room'[c] = m.to
        /\ \A d \in Client \ {c} : phase'[d] = phase[d] /\ room'[d] = room[d]
    BY <2>1, <2>4
  <2> HIDE DEF c
  <2>6. QED
    BY <1>c, <2>1, <2>2, <2>3, <2>4, <2>5, Placed
<1>10. CASE Emit
  <2>1. dlv = {}
    BY <1>10 DEF Emit, OneJob
  <2>2. QED
    BY <1>1, <1>10, <2>1 DEF Emit, netVars
<1>11. ASSUME NEW p \in dlv, Deliver(p)
       PROVE  Rest'
  BY <1>1, <1>11 DEF Deliver, chanVars
<1>12. CASE ReadEvent
  BY <1>1, <1>12 DEF ReadEvent, TakeEvent, netVars, loopVars
<1>13. CASE Router
  BY <1>1, <1>13 DEF Router, PutOut, SwitchRoom, netVars, loopVars
<1>14. ASSUME NEW c \in Client, NEW r \in Room \cup {None}, ServeWs(c, r)
       PROVE  Rest'
  <2>1. /\ phase[c] = "fresh" /\ phase' = [phase EXCEPT ![c] = "registering"]
        /\ \A d \in Client \ {c} : room'[d] = room[d] /\ phase'[d] = phase[d]
        /\ UNCHANGED <<rooms, closed, emit, moving, dlv>>
    BY <1>14 DEF ServeWs, loopVars
  <2>2. /\ \A s \in Room : c \notin rooms[s]
        /\ c \notin closed
        /\ \A m \in moving : m.client # c
    BY <2>1 DEF MembersLive, MovingAlone, ClosedLater, Live
  <2>3. MembersLive' /\ WellPlaced'
    BY <2>1, <2>2 DEF MembersLive, WellPlaced
  <2>4. MovingAlone' /\ ClosedLater' /\ OneJob'
    BY <2>1, <2>2 DEF MovingAlone, ClosedLater, OneJob, Members
  <2>5. NoneForgotten'
    BY <2>1, <2>2 DEF NoneForgotten, Members, Live
  <2>6. QED
    BY <2>3, <2>4, <2>5
<1>15. ASSUME NEW c \in Client, Hangup(c)
       PROVE  Rest'
  <2>1. /\ phase[c] = "registered" /\ phase' = [phase EXCEPT ![c] = "unregistering"]
        /\ UNCHANGED <<room, rooms, closed, emit, moving, dlv>>
    BY <1>15 DEF Hangup, loopVars
  <2>2. \A d \in Client : /\ phase[d] \in Live <=> phase'[d] \in Live
                          /\ phase[d] = "gone" <=> phase'[d] = "gone"
    BY <2>1 DEF Live
  <2>3. MembersLive' /\ WellPlaced' /\ MovingAlone'
    BY <2>1, <2>2 DEF MembersLive, WellPlaced, MovingAlone, Members
  <2>4. ClosedLater' /\ NoneForgotten' /\ OneJob'
    BY <2>1, <2>2 DEF ClosedLater, NoneForgotten, OneJob, Members
  <2>5. QED
    BY <2>3, <2>4
<1>16. ASSUME NEW c \in Client, TakeSend(c)
       PROVE  Rest'
  BY <1>1, <1>16 DEF TakeSend, chanVars, loopVars
<1>17. QED
  BY <1>2, <1>3, <1>4, <1>5, <1>6, <1>7, <1>8, <1>9, <1>10, <1>11, <1>12,
     <1>13, <1>14, <1>15, <1>16 DEF Next, HubStep, Connection

\* HubInv is inductive; the three safety properties are its consequences.
THEOREM Safe == Spec => []HubInv
  BY SafeInit, SafeStep, PTL DEF Spec

\* Hub.Run never sends on, nor closes, a closed send channel.
THEOREM NoSendOnClosed == Spec => []NeverOnClosed
<1>1. HubInv => NeverOnClosed
  BY DEF HubInv, NeverOnClosed, MembersLive, MovingAlone, OneJob, Members
<1>2. QED
  BY <1>1, Safe, PTL

\* A user has at most one connection in a room, and every member is where its
\* Client.room says, so SendTo reaches the right one.
THEOREM OnePerRoom == Spec => []WellPlaced
<1>1. HubInv => WellPlaced
  BY DEF HubInv
<1>2. QED
  BY <1>1, Safe, PTL

\* Every connection the hub has taken on is a member until it is closed, and
\* no readPump ends with its writePump left waiting on an open channel.
THEOREM NoConnectionForgotten == Spec => []NoneForgotten
<1>1. HubInv => NoneForgotten
  BY DEF HubInv
<1>2. QED
  BY <1>1, Safe, PTL
==============================================================================
