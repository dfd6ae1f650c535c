---------------------------- MODULE ClientProofs ----------------------------
(***************************************************************************)
(* Theorems about connections with their two pumps, against any router,    *)
(* for any connections, users, rooms, messages and capacities, and         *)
(* whichever writes fail.                                                  *)
(*                                                                         *)
(* What HubProofs shows of the hub carries over: the pumps are among the   *)
(* connections it was proved against, so only what they keep for           *)
(* themselves is new.  Nothing in HubInv depends on what a reader of       *)
(* events has learned, so told and seated are left empty.                  *)
(***************************************************************************)
EXTENDS ClientSystem, TLAPS

H == INSTANCE HubProofs WITH told <- {}, seated <- {}, Request <- {}

USE HubAssumption, ClientAssumption, CommandAssumption
    DEF HubAssumption, ClientAssumption, CommandAssumption

----------------------------------------------------------------------------
(* The hub's part of a step. *)

LEMMA HubAssumptions == H!HubAssumption /\ H!SystemAssumption
  BY DEF H!HubAssumption, H!SystemAssumption, H!Outbound, Outbound

\* What Hub says of the connections is what it says of the hub on its own.
LEMMA SameTypes == HubTypeOK <=> H!HubTypeOK
  BY DEF HubTypeOK, H!HubTypeOK, Phase, H!Phase, Event, H!Event, Outbound, H!Outbound,
         SwitchReq, H!SwitchReq

LEMMA SameInit == HubInit => H!Init
  BY DEF HubInit, H!HubInit, H!Init

LEMMA SameSteps ==
  /\ HubStep <=> H!HubStep
  /\ \A c, r : ServeWs(c, r) <=> H!ServeWs(c, r)
  /\ \A c : Hangup(c) <=> H!Hangup(c)
  /\ \A c : TakeSend(c) <=> H!TakeSend(c)
  /\ \A o : PutOut(o) <=> H!PutOut(o)
<1> USE DEF netVars, chanVars, loopVars, H!netVars, H!chanVars, H!loopVars,
            Idle, H!Idle, Ev, H!Ev, UserOnline, H!UserOnline, Entered, H!Entered,
            Stale, H!Stale, Removed, H!Removed
<1>1. \A c : Register(c) <=> H!Register(c)
  BY DEF Register, H!Register
<1>2. \A c : UnregisterMember(c) <=> H!UnregisterMember(c)
  BY DEF UnregisterMember, H!UnregisterMember
<1>3. \A c : UnregisterKicked(c) <=> H!UnregisterKicked(c)
  BY DEF UnregisterKicked, H!UnregisterKicked
<1>4. HandleOut <=> H!HandleOut
  BY DEF HandleOut, H!HandleOut, Recipients, H!Recipients, Matching, H!Matching,
         Members, H!Members
<1>5. (SwitchIgnored <=> H!SwitchIgnored) /\ (SwitchLeave <=> H!SwitchLeave)
  BY DEF SwitchIgnored, H!SwitchIgnored, SwitchLeave, H!SwitchLeave, Switching, H!Switching
<1>6. \A m : SwitchEnter(m) <=> H!SwitchEnter(m)
  BY DEF SwitchEnter, H!SwitchEnter
<1>7. (Emit <=> H!Emit) /\ (\A p : Deliver(p) <=> H!Deliver(p))
  BY DEF Emit, H!Emit, Deliver, H!Deliver
<1>8. HubStep <=> H!HubStep
  BY <1>1, <1>2, <1>3, <1>4, <1>5, <1>6, <1>7 DEF HubStep, H!HubStep
<1> QED
  BY <1>8 DEF ServeWs, H!ServeWs, Hangup, H!Hangup, TakeSend, H!TakeSend, PutOut, H!PutOut

\* Every step is one of the hub and its environment, or the router takes an event.
LEMMA HubSide ==
  ASSUME [Next]_clientVars
  PROVE  [H!Next]_H!sysVars \/ TakeEvent
<1> USE DEF H!sysVars, H!hubVars, H!Next
<1>1. CASE HubStep
  BY <1>1, SameSteps
<1>2. ASSUME NEW c \in Client, NEW r \in Room, ServeWs(c, r)
      PROVE  H!Next
  BY <1>2, SameSteps DEF H!Connection
<1>3. ASSUME NEW c \in Client, Pumps(c)
      PROVE  [H!Next]_H!sysVars
  <2>1. CASE \/ \E msg \in Message : Read(c, msg)
             \/ Push(c) \/ CloseConn(c) \/ PingFail(c) \/ WriteClosed(c)
    BY <2>1 DEF Read, Push, CloseConn, PingFail, WriteClosed, hubVars
  <2>2. CASE ReadFail(c)
    BY <2>2, SameSteps DEF ReadFail, H!Connection
  <2>3. CASE WriteOk(c) \/ WriteFail(c)
    BY <2>3, SameSteps DEF WriteOk, WriteFail, H!Connection
  <2> QED
    BY <1>3, <2>1, <2>2, <2>3 DEF Pumps
<1>4. ASSUME Router
      PROVE  [H!Next]_H!sysVars \/ TakeEvent
  <2>1. ASSUME NEW o \in Command, PutOut(o)
        PROVE  H!Next
    BY <2>1, SameSteps DEF H!Router
  <2>2. CASE TakeIncoming
    BY <2>2 DEF TakeIncoming, hubVars
  <2> QED
    BY <1>4, <2>1, <2>2 DEF Router
<1>5. CASE UNCHANGED clientVars
  BY <1>5 DEF clientVars, hubVars
<1> QED
  BY <1>1, <1>2, <1>3, <1>4, <1>5 DEF Next

\* Taking an event does nothing HubInv speaks of.
LEMMA EventTaken ==
  ASSUME H!HubInv, TakeEvent
  PROVE  H!HubInv'
<1>1. H!TypeOK'
  <2>1. events' \in Seq(Event)
    BY SameTypes DEF H!HubInv, H!TypeOK, HubTypeOK, TakeEvent
  <2>2. HubTypeOK'
    BY <2>1, SameTypes DEF H!HubInv, H!TypeOK, HubTypeOK, TakeEvent, netVars, loopVars
  <2> QED
    BY <2>2 DEF H!TypeOK, HubTypeOK, H!HubTypeOK, Phase, H!Phase, Event, H!Event,
                Outbound, H!Outbound, SwitchReq, H!SwitchReq
<1> QED
  BY <1>1 DEF TakeEvent, netVars, loopVars, H!HubInv, H!MembersLive, H!WellPlaced,
              H!MovingAlone, H!ClosedLater, H!NoneForgotten, H!OneJob, H!Members, H!Live

----------------------------------------------------------------------------
(* The pumps. *)

\* What the pumps keep for themselves.
PumpTypes ==
  /\ held \in [Client -> Seq(Inbound)]
  /\ dead \in SUBSET Client /\ cut \in SUBSET Client
  /\ incoming \in Seq(Inbound)

\* A connection that was let in.
Served(c) == phase[c] \in {"registered", "unregistering", "gone"}

\* Only a readPump that has not asked to be let go holds a message, and one at most,
\* its own; a writePump that has returned has closed its socket; and nobody closes
\* a socket before a pump of the connection is done.
PumpOrder ==
  \A c \in Client :
    /\ held[c] # <<>> => phase[c] = "registered" /\ Len(held[c]) = 1 /\ Head(held[c]).id = Id[c]
    /\ c \in dead => c \in cut /\ Served(c)
    /\ c \in cut => c \in dead \/ phase[c] = "gone"

ClientInv == H!HubInv /\ PumpTypes /\ PumpOrder

\* The hub moves a connection on only along the phases, and never one that is
\* registered: leaving is up to its readPump.
LEMMA Onward ==
  ASSUME H!HubInv, HubStep, NEW c \in Client
  PROVE  /\ phase[c] = "registered" => phase'[c] = "registered"
         /\ Served(c) => Served(c)'
         /\ phase[c] = "gone" => phase'[c] = "gone"
<1> USE DEF Served
<1>1. phase \in [Client -> Phase]
  BY SameTypes DEF H!HubInv, H!TypeOK, HubTypeOK
<1>2. ASSUME NEW d \in Client, Register(d) \/ UnregisterMember(d) \/ UnregisterKicked(d)
      PROVE  /\ phase[c] = "registered" => phase'[c] = "registered"
             /\ Served(c) => Served(c)'
             /\ phase[c] = "gone" => phase'[c] = "gone"
  BY <1>1, <1>2 DEF Register, UnregisterMember, UnregisterKicked
<1>3. CASE \/ HandleOut \/ SwitchIgnored \/ SwitchLeave \/ Emit
           \/ (\E m \in moving : SwitchEnter(m)) \/ (\E p \in dlv : Deliver(p))
  BY <1>3 DEF HandleOut, SwitchIgnored, SwitchLeave, Emit, SwitchEnter, Deliver, netVars
<1> QED
  BY <1>2, <1>3 DEF HubStep

LEMMA PumpStep ==
  ASSUME ClientInv, [Next]_clientVars
  PROVE  PumpTypes' /\ PumpOrder'
<1> USE DEF PumpTypes, PumpOrder, Served
<1>0. /\ PumpTypes /\ PumpOrder
      /\ phase \in [Client -> Phase] /\ room \in [Client -> Room] /\ Id \in [Client -> User]
  BY SameTypes DEF ClientInv, H!HubInv, H!TypeOK, HubTypeOK
<1>1. CASE HubStep /\ UNCHANGED pumpVars
  BY <1>0, <1>1, Onward DEF ClientInv, pumpVars
<1>2. ASSUME NEW c \in Client, NEW r \in Room, ServeWs(c, r), UNCHANGED pumpVars
      PROVE  PumpTypes' /\ PumpOrder'
  BY <1>0, <1>2 DEF ServeWs, pumpVars
<1>3. CASE Router
  <2>1. CASE UNCHANGED <<phase, pumpVars>>
    BY <1>0, <2>1 DEF pumpVars
  <2>2. CASE TakeIncoming
    <3>1. incoming' \in Seq(Inbound)
      BY <1>0, <2>2 DEF TakeIncoming
    <3> QED
      BY <1>0, <2>2, <3>1 DEF TakeIncoming, hubVars
  <2> QED
    BY <1>3, <2>1, <2>2 DEF Router, PutOut, TakeEvent, netVars
<1>4. ASSUME NEW c \in Client, Pumps(c)
      PROVE  PumpTypes' /\ PumpOrder'
  <2>1. ASSUME NEW msg \in Message, Read(c, msg)
        PROVE  PumpTypes' /\ PumpOrder'
    <3> DEFINE in == [id |-> Id[c], room |-> room[c], data |-> msg]
    <3>1. in \in Inbound /\ in.id = Id[c]
      BY <1>0 DEF Inbound
    <3>2. /\ phase[c] = "registered" /\ held' = [held EXCEPT ![c] = <<in>>]
          /\ UNCHANGED <<phase, dead, cut, incoming>>
      BY <2>1 DEF Read, hubVars
    <3> HIDE DEF in
    <3>3. <<in>> \in Seq(Inbound) /\ Len(<<in>>) = 1 /\ Head(<<in>>) = in
      BY <3>1
    <3> QED
      BY <1>0, <3>1, <3>2, <3>3
  <2>2. CASE Push(c)
    <3>1. Head(held[c]) \in Inbound
      BY <1>0, <2>2 DEF Push
    <3>2. incoming' \in Seq(Inbound)
      BY <1>0, <2>2, <3>1 DEF Push
    <3> QED
      BY <1>0, <2>2, <3>2 DEF Push, hubVars
  <2>3. CASE ReadFail(c)
    BY <1>0, <2>3 DEF ReadFail, Hangup, pumpVars
  <2>4. CASE CloseConn(c)
    BY <1>0, <2>4 DEF CloseConn, hubVars
  <2>5. CASE WriteOk(c)
    BY <1>0, <2>5 DEF WriteOk, TakeSend, pumpVars
  <2>6. CASE WriteFail(c) \/ PingFail(c) \/ WriteClosed(c)
    BY <1>0, <2>6 DEF WriteFail, PingFail, WriteClosed, Writing, Return, TakeSend, hubVars
  <2> QED
    BY <1>4, <2>1, <2>2, <2>3, <2>4, <2>5, <2>6 DEF Pumps
<1>5. CASE UNCHANGED clientVars
  BY <1>0, <1>5 DEF clientVars, hubVars, pumpVars
<1> QED
  BY <1>1, <1>2, <1>3, <1>4, <1>5 DEF Next

LEMMA ClientStart == Init => ClientInv
<1> SUFFICES ASSUME Init PROVE ClientInv
  OBVIOUS
<1>1. HubInit
  BY DEF Init, ClientInit
<1>2. H!HubInv
  BY <1>1, SameInit, HubAssumptions, H!SafeInit
<1>3. PumpTypes /\ PumpOrder
  BY DEF Init, ClientInit, PumpTypes, PumpOrder
<1> QED
  BY <1>2, <1>3 DEF ClientInv

LEMMA ClientStep ==
  ASSUME ClientInv, [Next]_clientVars
  PROVE  ClientInv'
<1>1. H!HubInv'
  <2>1. H!HubInv
    BY DEF ClientInv
  <2>2. CASE [H!Next]_H!sysVars
    BY <2>1, <2>2, HubAssumptions, H!SafeStep
  <2>3. CASE TakeEvent
    BY <2>1, <2>3, EventTaken
  <2> QED
    BY <2>2, <2>3, HubSide
<1> QED
  BY <1>1, PumpStep DEF ClientInv

LEMMA AlwaysClient == Spec => []ClientInv
<1>1. ClientInv /\ [Next]_clientVars => ClientInv'
  BY ClientStep
<1> QED
  BY <1>1, ClientStart, PTL DEF Spec

----------------------------------------------------------------------------
\* Every variable of hub and pumps keeps its type, whichever reads and writes fail.
THEOREM ClientTypes == Spec => []TypeOK
<1>1. ClientInv => TypeOK
  BY SameTypes DEF ClientInv, H!HubInv, H!TypeOK, PumpTypes, TypeOK, ClientTypeOK
<1> QED
  BY <1>1, AlwaysClient, PTL

\* With the pumps as its connections, and sockets that fail, the hub still neither
\* sends on nor closes a closed channel, has one connection of a user in a room,
\* and forgets none it has let in (hub.go:126-234).
THEOREM HubStaysSafe == Spec => [](H!NeverOnClosed /\ H!WellPlaced /\ H!NoneForgotten)
<1>1. H!HubInv => H!NeverOnClosed /\ H!WellPlaced /\ H!NoneForgotten
  BY DEF H!HubInv, H!NeverOnClosed, H!MembersLive, H!MovingAlone, H!OneJob, H!Members
<1>2. ClientInv => H!NeverOnClosed /\ H!WellPlaced /\ H!NoneForgotten
  BY <1>1 DEF ClientInv
<1> QED
  BY <1>2, AlwaysClient, PTL

\* client.go:49-100: what a connection says has been pushed before its readPump asks
\* to be let go, so nothing of a connection that is gone is still to come; a
\* writePump never returns without closing the socket, and a socket is only ever
\* closed by a pump that has ended.
THEOREM PumpsInOrder == Spec => []PumpOrder
<1>1. ClientInv => PumpOrder
  BY DEF ClientInv
<1> QED
  BY <1>1, AlwaysClient, PTL
============================================================================
