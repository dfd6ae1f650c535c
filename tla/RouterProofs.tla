---------------------------- MODULE RouterProofs ----------------------------
(***************************************************************************)
(* Theorems about the whole realtime server, for any connections, users,   *)
(* rooms and capacities, whatever the peers say.                           *)
(*                                                                         *)
(* The server implements the hub on its own (HubSystem): pumps and router  *)
(* are one of the environments it admits, and the reader of its events has *)
(* learned of presence what Router.online holds.  So what HubProofs and    *)
(* OfficeProofs say of the hub is true of the server.                      *)
(***************************************************************************)
EXTENDS RouterSystem, FiniteSetTheorems, TLAPS

H == INSTANCE OfficeProofs WITH
       told <- online,
       Command <- Outbound,
       Request <- SwitchReq

USE HubAssumption, ClientAssumption, RouterAssumption, MessageAssumption, SaidAssumption
    DEF HubAssumption, ClientAssumption, RouterAssumption, MessageAssumption, SaidAssumption

----------------------------------------------------------------------------
(* The server implements HubSystem. *)

LEMMA HubAssumptions == H!HubAssumption /\ H!SystemAssumption
  BY DEF H!HubAssumption, H!SystemAssumption, H!Outbound, H!SwitchReq, Outbound, SwitchReq

\* What Hub says of the server is what it says of the hub on its own.
LEMMA SameHub ==
  /\ HubTypeOK <=> H!HubTypeOK
  /\ HubInit <=> H!HubInit
  /\ HubStep <=> H!HubStep
  /\ TakeEvent <=> H!TakeEvent
  /\ \A c, r : ServeWs(c, r) <=> H!ServeWs(c, r)
  /\ \A c : Hangup(c) <=> H!Hangup(c)
  /\ \A c : TakeSend(c) <=> H!TakeSend(c)
  /\ \A o : PutOut(o) <=> H!PutOut(o)
  /\ \A r, u, n : SwitchRoom(r, u, n) <=> H!SwitchRoom(r, u, n)
<1> USE DEF netVars, chanVars, loopVars, H!netVars, H!chanVars, H!loopVars
<1>1. HubTypeOK <=> H!HubTypeOK
  BY DEF HubTypeOK, H!HubTypeOK, Phase, H!Phase, Event, H!Event, Outbound, H!Outbound,
         SwitchReq, H!SwitchReq
<1>2. HubInit <=> H!HubInit
  BY DEF HubInit, H!HubInit
<1> USE DEF Idle, H!Idle, Ev, H!Ev, UserOnline, H!UserOnline, Entered, H!Entered, Stale, H!Stale,
            Removed, H!Removed
<1>3. \A c : Register(c) <=> H!Register(c)
  BY DEF Register, H!Register
<1>4. \A c : UnregisterMember(c) <=> H!UnregisterMember(c)
  BY DEF UnregisterMember, H!UnregisterMember
<1>5. \A c : UnregisterKicked(c) <=> H!UnregisterKicked(c)
  BY DEF UnregisterKicked, H!UnregisterKicked
<1>6. HandleOut <=> H!HandleOut
  BY DEF HandleOut, H!HandleOut, Recipients, H!Recipients, Matching, H!Matching, Members, H!Members
<1>7. (SwitchIgnored <=> H!SwitchIgnored) /\ (SwitchLeave <=> H!SwitchLeave)
  BY DEF SwitchIgnored, H!SwitchIgnored, SwitchLeave, H!SwitchLeave, Switching, H!Switching
<1>8. \A m : SwitchEnter(m) <=> H!SwitchEnter(m)
  BY DEF SwitchEnter, H!SwitchEnter
<1>9. (Emit <=> H!Emit) /\ (\A p : Deliver(p) <=> H!Deliver(p))
  BY DEF Emit, H!Emit, Deliver, H!Deliver
<1>10. HubStep <=> H!HubStep
  BY <1>3, <1>4, <1>5, <1>6, <1>7, <1>8, <1>9 DEF HubStep, H!HubStep
<1>11. /\ TakeEvent <=> H!TakeEvent
       /\ \A c, r : ServeWs(c, r) <=> H!ServeWs(c, r)
       /\ \A c : Hangup(c) <=> H!Hangup(c)
       /\ \A c : TakeSend(c) <=> H!TakeSend(c)
       /\ \A o : PutOut(o) <=> H!PutOut(o)
       /\ \A r, u, n : SwitchRoom(r, u, n) <=> H!SwitchRoom(r, u, n)
  BY DEF TakeEvent, H!TakeEvent, ServeWs, H!ServeWs, Hangup, H!Hangup, TakeSend, H!TakeSend,
         PutOut, H!PutOut, SwitchRoom, H!SwitchRoom
<1> QED
  BY <1>1, <1>2, <1>10, <1>11

----------------------------------------------------------------------------
(* Types. *)

\* What is in a channel.
Items(s) == {s[i] : i \in 1..Len(s)}

\* Iterating over a map ends.
Finite == IsFiniteSet(online) /\ \A r \in Room : IsFiniteSet(players[r])

SystemInv == TypeOK /\ Finite

\* What the router puts on out is a command the hub knows.
LEMMA Commands ==
  ASSUME NEW r \in Room \cup {None}, NEW u \in User \cup {None}, NEW d \in ServerMsg
  PROVE  {ToRoom(r, d), ToOne(r, u, d), ToAll(d), ToUser(u, d)} \subseteq Outbound
  BY DEF ToRoom, ToOne, ToAll, ToUser, Outbound

LEMMA Messages ==
  ASSUME NEW u \in User
  PROVE  /\ \A t \in {"welcome", "join", "move", "sprite_change", "leave"} : About(t, u) \in ServerMsg
         /\ \A t \in {"object", "history", "edit"} : [type |-> t] \in ServerMsg
         /\ \A onl, calls : \A where \in [User -> Room \cup {None}] :
              Presence(u, onl, calls, where) \in PresenceMsg
         /\ PresenceMsg \subseteq ServerMsg
  BY DEF About, ServerMsg, Presence, PresenceMsg

LEMMA Talks ==
  ASSUME NEW in \in Inbound, in.data.type \in {"chat", "signal", "call"},
         NEW u \in User \cup {None}
  PROVE  Talk(in, u) \in ServerMsg
  BY DEF Talk, ServerMsg, Inbound

LEMMA ItemsEmpty == Items(<<>>) = {} /\ \A x : Items(<<x>>) = {x}
  BY DEF Items

LEMMA ItemsConcat ==
  ASSUME NEW S, NEW s \in Seq(S), NEW t \in Seq(S)
  PROVE  s \o t \in Seq(S) /\ Items(s \o t) = Items(s) \cup Items(t)
<1>1. \A i \in 1..Len(s) : i \in 1..Len(s \o t) /\ (s \o t)[i] = s[i]
  OBVIOUS
<1>2. \A i \in 1..Len(t) : Len(s) + i \in 1..Len(s \o t) /\ (s \o t)[Len(s) + i] = t[i]
  OBVIOUS
<1>3. \A i \in 1..Len(s \o t) : \/ i \in 1..Len(s) /\ (s \o t)[i] = s[i]
                                \/ i - Len(s) \in 1..Len(t) /\ (s \o t)[i] = t[i - Len(s)]
  OBVIOUS
<1> QED
  BY <1>1, <1>2, <1>3 DEF Items

LEMMA ItemsAppend ==
  ASSUME NEW S, NEW s \in Seq(S), NEW x \in S
  PROVE  Items(Append(s, x)) = Items(s) \cup {x}
<1>1. /\ Len(Append(s, x)) = Len(s) + 1 /\ Append(s, x)[Len(s) + 1] = x
      /\ \A i \in 1..Len(s) : Append(s, x)[i] = s[i]
  OBVIOUS
<1>2. 1..(Len(s) + 1) = 1..Len(s) \cup {Len(s) + 1}
  OBVIOUS
<1> QED
  BY <1>1, <1>2 DEF Items

LEMMA ItemsTail ==
  ASSUME NEW S, NEW s \in Seq(S), s # <<>>
  PROVE  Items(s) = {Head(s)} \cup Items(Tail(s)) /\ Head(s) \in S /\ Tail(s) \in Seq(S)
<1>1. /\ Len(Tail(s)) = Len(s) - 1 /\ Head(s) = s[1] /\ Len(s) \in Nat \ {0}
      /\ \A i \in 1..Len(Tail(s)) : i + 1 \in 1..Len(s) /\ Tail(s)[i] = s[i + 1]
  OBVIOUS
<1>2. \A i \in 1..Len(s) : i = 1 \/ (i - 1 \in 1..Len(Tail(s)) /\ Tail(s)[i - 1] = s[i])
  BY <1>1
<1>3. 1 \in 1..Len(s) /\ Head(s) \in S /\ Tail(s) \in Seq(S)
  BY <1>1
<1>4. Items(s) \subseteq {Head(s)} \cup Items(Tail(s))
  BY <1>1, <1>2 DEF Items
<1>5. {Head(s)} \cup Items(Tail(s)) \subseteq Items(s)
  BY <1>1, <1>3 DEF Items
<1> QED
  BY <1>3, <1>4, <1>5

\* A function on 1..n is a sequence, and its values are its items.
LEMMA ItemsOf ==
  ASSUME NEW S, NEW n \in Nat, NEW s \in [1..n -> S]
  PROVE  s \in Seq(S) /\ Items(s) = {s[i] : i \in 1..n}
<1>1. s \in Seq(S) /\ Len(s) = n
  OBVIOUS
<1> QED
  BY <1>1 DEF Items

\* The orders of a finite set are sequences of just its elements.
LEMMA Ordered ==
  ASSUME NEW S, IsFiniteSet(S), NEW s \in Orders(S)
  PROVE  /\ \E n \in Nat : DOMAIN s = 1..n /\ s \in [1..n -> S]
         /\ \A x \in S : \E i \in DOMAIN s : s[i] = x
<1>1. Cardinality(S) \in Nat
  BY FS_CardinalityType
<1> QED
  BY <1>1 DEF Orders

\* What a newcomer is sent: whatever the order, presence as it is, of all who are
\* online, and nothing private; and all are told if the newcomer is online.
LEMMA Joined ==
  ASSUME SystemInv, NEW e \in Event, HandleJoined(e)
  PROVE  /\ rout' \in Seq(Outbound)
         /\ \A o \in Items(rout') :
              \/ \E u \in online : o.data = Presence(u, online, inCall, roomOf')
              \/ o.data.type \in {"welcome", "join", "object", "history"}
         /\ \A u \in online :
              ToOne(e.room, e.id, Presence(u, online, inCall, roomOf')) \in Items(rout')
         /\ e.id \in online =>
              ToAll(Presence(e.id, online, inCall, roomOf')) \in Items(rout')
<1> DEFINE where == [roomOf EXCEPT ![e.id] = e.room]
           me(d) == ToOne(e.room, e.id, d)
           each(n, d) == [i \in 1..n |-> me([type |-> d])]
           p(u) == Presence(u, online, inCall, where)
<1>1. PICK others \in Orders(players[e.room] \ {e.id}), known \in Orders(online) :
        rout' = <<me(About("welcome", e.id))>>
                  \o [i \in DOMAIN others |-> me(About("join", others[i]))]
                  \o each(objects[e.room], "object")
                  \o each(HistoryLen, "history")
                  \o [i \in DOMAIN known |-> me(p(known[i]))]
                  \o (IF e.id \in online THEN <<ToAll(p(e.id))>> ELSE <<>>)
  BY DEF HandleJoined
<1>2. /\ e.room \in Room /\ e.id \in User /\ roomOf' = where
      /\ where \in [User -> Room \cup {None}]
      /\ online \subseteq User /\ players[e.room] \subseteq User /\ objects[e.room] \in Nat
      /\ IsFiniteSet(online) /\ IsFiniteSet(players[e.room])
  BY DEF HandleJoined, Event, SystemInv, TypeOK, RouterTypeOK, Finite
<1>3. \A d \in ServerMsg : me(d) \in Outbound /\ ToAll(d) \in Outbound
                            /\ me(d).data = d /\ ToAll(d).data = d
  BY <1>2, Commands DEF ToOne, ToAll
<1>4. /\ \A u \in User : p(u) \in ServerMsg
      /\ \A u \in User : About("join", u) \in ServerMsg /\ About("join", u).type = "join"
      /\ About("welcome", e.id) \in ServerMsg /\ About("welcome", e.id).type = "welcome"
      /\ \A t \in {"object", "history"} : [type |-> t] \in ServerMsg
  BY <1>2, Messages DEF About
<1> DEFINE s1 == <<me(About("welcome", e.id))>>
           s2 == [i \in DOMAIN others |-> me(About("join", others[i]))]
           s3 == each(objects[e.room], "object")
           s4 == each(HistoryLen, "history")
           s5 == [i \in DOMAIN known |-> me(p(known[i]))]
           s6 == IF e.id \in online THEN <<ToAll(p(e.id))>> ELSE <<>>
           Plain(o) == o.data.type \in {"welcome", "join", "object", "history"}
           Told(o) == \E u \in online : o.data = p(u)
<1> HIDE DEF p, me, where
<1>5. s1 \in Seq(Outbound) /\ \A o \in Items(s1) : Plain(o)
  BY <1>3, <1>4, ItemsEmpty
<1>6. s2 \in Seq(Outbound) /\ \A o \in Items(s2) : Plain(o)
  <2>1. IsFiniteSet(players[e.room] \ {e.id})
    BY <1>2, FS_Difference
  <2>2. PICK n \in Nat : DOMAIN others = 1..n /\ others \in [1..n -> players[e.room] \ {e.id}]
    BY <2>1, Ordered
  <2>3. s2 \in [1..n -> Outbound] /\ \A i \in 1..n : s2[i].data = About("join", others[i])
    BY <1>2, <1>3, <1>4, <2>2
  <2> HIDE DEF s2
  <2>4. \A i \in 1..n : Plain(s2[i])
    BY <1>2, <1>4, <2>2, <2>3
  <2> QED
    BY <2>3, <2>4, ItemsOf
<1>7. \A n \in Nat, t \in {"object", "history"} :
         each(n, t) \in Seq(Outbound) /\ \A o \in Items(each(n, t)) : Plain(o)
  <2> SUFFICES ASSUME NEW n \in Nat, NEW t \in {"object", "history"}
               PROVE  each(n, t) \in Seq(Outbound) /\ \A o \in Items(each(n, t)) : Plain(o)
    OBVIOUS
  <2>1. each(n, t) \in [1..n -> Outbound] /\ \A i \in 1..n : each(n, t)[i].data.type = t
    BY <1>3, <1>4
  <2> HIDE DEF each
  <2>2. \A i \in 1..n : Plain(each(n, t)[i])
    BY <2>1
  <2>3. each(n, t) \in Seq(Outbound) /\ Items(each(n, t)) = {each(n, t)[i] : i \in 1..n}
    BY <2>1, ItemsOf
  <2> QED
    BY <2>2, <2>3
<1>8. /\ s5 \in Seq(Outbound) /\ \A o \in Items(s5) : Told(o)
      /\ \A u \in online : me(p(u)) \in Items(s5)
  <2>1. PICK n \in Nat : DOMAIN known = 1..n /\ known \in [1..n -> online]
    BY <1>2, Ordered
  <2>2. \A u \in online : \E i \in 1..n : known[i] = u
    BY <1>2, <2>1, Ordered
  <2>3. s5 \in [1..n -> Outbound] /\ \A i \in 1..n : s5[i] = me(p(known[i])) /\ s5[i].data = p(known[i])
    BY <1>2, <1>3, <1>4, <2>1
  <2> HIDE DEF s5
  <2>4. s5 \in Seq(Outbound) /\ Items(s5) = {s5[i] : i \in 1..n}
    BY <2>3, ItemsOf
  <2> QED
    BY <2>1, <2>2, <2>3, <2>4
<1>9. /\ s6 \in Seq(Outbound) /\ \A o \in Items(s6) : Told(o)
      /\ e.id \in online => ToAll(p(e.id)) \in Items(s6)
  BY <1>2, <1>3, <1>4, ItemsEmpty
<1>10. s3 \in Seq(Outbound) /\ s4 \in Seq(Outbound) /\ \A o \in Items(s3) \cup Items(s4) : Plain(o)
  BY <1>2, <1>7
<1> HIDE DEF s1, s2, s3, s4, s5, s6
<1>11. rout' = s1 \o s2 \o s3 \o s4 \o s5 \o s6
  BY <1>1 DEF s1, s2, s3, s4, s5, s6
<1>12. /\ rout' \in Seq(Outbound)
       /\ Items(rout') = Items(s1) \cup Items(s2) \cup Items(s3) \cup Items(s4)
                            \cup Items(s5) \cup Items(s6)
  <2> DEFINE t2 == s1 \o s2
             t3 == t2 \o s3
             t4 == t3 \o s4
             t5 == t4 \o s5
             t6 == t5 \o s6
  <2>1. rout' = t6
    BY <1>11
  <2> HIDE DEF t6
  <2>2. \A s \in {s1, s2, s3, s4, s5, s6} : s \in Seq(Outbound)
    BY <1>5, <1>6, <1>8, <1>9, <1>10
  <2>3. \A s, t \in Seq(Outbound) :
          s \o t \in Seq(Outbound) /\ Items(s \o t) = Items(s) \cup Items(t)
    BY ItemsConcat
  <2> HIDE DEF t6
  <2>8. t5 \in Seq(Outbound) => t6 \in Seq(Outbound) /\ Items(t6) = Items(t5) \cup Items(s6)
    BY <2>2, <2>3 DEF t6
  <2> HIDE DEF t5
  <2>7. t4 \in Seq(Outbound) => t5 \in Seq(Outbound) /\ Items(t5) = Items(t4) \cup Items(s5)
    BY <2>2, <2>3 DEF t5
  <2> HIDE DEF t4
  <2>6. t3 \in Seq(Outbound) => t4 \in Seq(Outbound) /\ Items(t4) = Items(t3) \cup Items(s4)
    BY <2>2, <2>3 DEF t4
  <2> HIDE DEF t3
  <2>5. t2 \in Seq(Outbound) => t3 \in Seq(Outbound) /\ Items(t3) = Items(t2) \cup Items(s3)
    BY <2>2, <2>3 DEF t3
  <2> HIDE DEF t2
  <2>4. t2 \in Seq(Outbound) /\ Items(t2) = Items(s1) \cup Items(s2)
    BY <2>2, <2>3 DEF t2
  <2> QED
    BY <2>1, <2>4, <2>5, <2>6, <2>7, <2>8
<1>13. \A u : p(u) = Presence(u, online, inCall, roomOf')
  BY <1>2 DEF p
<1>14. \A d : me(d) = ToOne(e.room, e.id, d)
  BY DEF me
<1> QED
  BY <1>5, <1>6, <1>8, <1>9, <1>10, <1>12, <1>13, <1>14

\* The router's own state, and that of the pumps.
RouterSide ==
  /\ online \in SUBSET User /\ inCall \in SUBSET User
  /\ roomOf \in [User -> Room \cup {None}]
  /\ players \in [Room -> SUBSET User]
  /\ objects \in [Room -> 0..ObjectCap]
  /\ rout \in Seq(Outbound) /\ rswitch \in Seq(SwitchReq)
  /\ Finite

PumpSide ==
  /\ held \in [Client -> Seq(Inbound)]
  /\ dead \in SUBSET Client /\ cut \in SUBSET Client
  /\ incoming \in Seq(Inbound)

LEMMA Sides ==
  SystemInv <=> /\ HubTypeOK /\ PumpSide /\ RouterSide
                /\ view \in [Client -> [User -> PresenceMsg]]
                /\ seated \in SUBSET (User \X Room)
                /\ said \in 0..MaxSaid
  BY DEF SystemInv, TypeOK, RouterTypeOK, ClientTypeOK, PumpSide, RouterSide

\* The event a handler is called with.
LEMMA FirstEvent ==
  ASSUME SystemInv, events # <<>>
  PROVE  /\ Head(events) \in Event /\ Tail(events) \in Seq(Event)
         /\ Head(events).id \in User
         /\ Head(events).kind \in {"joined", "left"} => Head(events).room \in Room
<1>1. events \in Seq(Event)
  BY DEF SystemInv, TypeOK, RouterTypeOK, ClientTypeOK, HubTypeOK
<1>2. Head(events) \in Event /\ Tail(events) \in Seq(Event)
  BY <1>1, ItemsTail
<1> QED
  BY <1>2 DEF Event

LEMMA FirstMessage ==
  ASSUME SystemInv, incoming # <<>>
  PROVE  /\ Head(incoming) \in Inbound /\ Tail(incoming) \in Seq(Inbound)
         /\ Head(incoming).id \in User /\ Head(incoming).room \in Room
         /\ Head(incoming).data \in ClientMsg
<1>1. incoming \in Seq(Inbound)
  BY DEF SystemInv, TypeOK, RouterTypeOK, ClientTypeOK
<1>2. Head(incoming) \in Inbound /\ Tail(incoming) \in Seq(Inbound)
  BY <1>1, ItemsTail
<1> QED
  BY <1>2 DEF Inbound

LEMMA EventTypes ==
  ASSUME SystemInv, HandleEvent
  PROVE  RouterSide'
<1> DEFINE e == Head(events)
<1>1. e \in Event /\ e.id \in User /\ (e.kind \in {"joined", "left"} => e.room \in Room)
  BY FirstEvent DEF HandleEvent, TakeEvent
<1>2. RouterSide /\ seated \in SUBSET (User \X Room) /\ rswitch' = rswitch
  BY Sides DEF HandleEvent
<1> HIDE DEF e
<1>4. ASSUME HandleJoined(e) PROVE RouterSide'
  <2>1. rout' \in Seq(Outbound)
    BY <1>1, <1>4, Joined
  <2>2. \A r \in Room : IsFiniteSet(players'[r])
    <3>1. \A r \in Room : players'[r] \in {players[r], players[r] \cup {e.id}}
      BY <1>2, <1>4 DEF HandleJoined, RouterSide
    <3>2. \A r \in Room : IsFiniteSet(players[r]) /\ IsFiniteSet(players[r] \cup {e.id})
      BY <1>2, FS_AddElement DEF RouterSide, Finite
    <3> QED
      BY <3>1, <3>2
  <2> QED
    BY <1>1, <1>2, <1>4, <2>1, <2>2 DEF HandleJoined, RouterSide, Finite
<1>5. ASSUME HandleLeft(e) PROVE RouterSide'
  <2>1. rout' \in Seq(Outbound)
    <3>1. ToRoom(e.room, About("leave", e.id)) \in Outbound
      BY <1>1, <1>5, Commands, Messages DEF HandleLeft
    <3> QED
      BY <1>5, <3>1 DEF HandleLeft
  <2>2. \A r \in Room : IsFiniteSet(players'[r])
    <3>1. \A r \in Room : players'[r] \in {players[r], players[r] \ {e.id}}
      BY <1>2, <1>5 DEF HandleLeft, RouterSide
    <3>2. \A r \in Room : IsFiniteSet(players[r]) /\ IsFiniteSet(players[r] \ {e.id})
      BY <1>2, FS_RemoveElement DEF RouterSide, Finite
    <3> QED
      BY <3>1, <3>2
  <2>3. objects' \in [Room -> 0..ObjectCap]
    <3>1. 0 \in 0..ObjectCap
      OBVIOUS
    <3>2. objects' \in {objects, [objects EXCEPT ![e.room] = 0]}
      BY <1>5 DEF HandleLeft
    <3> QED
      BY <1>2, <3>1, <3>2 DEF RouterSide
  <2> QED
    BY <1>1, <1>2, <1>5, <2>1, <2>2, <2>3 DEF HandleLeft, RouterSide, Finite
<1>6. ASSUME HandleOnline(e) PROVE RouterSide'
  <2>1. rout' \in Seq(Outbound)
    <3>1. ToAll(Presence(e.id, online', inCall, roomOf)) \in Outbound
      BY <1>1, <1>2, Commands, Messages DEF RouterSide
    <3> QED
      BY <1>6, <3>1 DEF HandleOnline
  <2>2. IsFiniteSet(online')
    BY <1>2, <1>6, FS_AddElement DEF HandleOnline, RouterSide, Finite
  <2> QED
    BY <1>1, <1>2, <1>6, <2>1, <2>2 DEF HandleOnline, RouterSide, Finite
<1>7. ASSUME HandleOffline(e) PROVE RouterSide'
  <2>1. roomOf' \in [User -> Room \cup {None}]
    BY <1>1, <1>2, <1>7 DEF HandleOffline, RouterSide
  <2>2. rout' \in Seq(Outbound)
    <3>1. ToAll(Presence(e.id, online', inCall', roomOf')) \in Outbound
      BY <1>1, <2>1, Commands, Messages
    <3> QED
      BY <1>7, <3>1 DEF HandleOffline
  <2>3. IsFiniteSet(online')
    BY <1>2, <1>7, FS_RemoveElement DEF HandleOffline, RouterSide, Finite
  <2> QED
    BY <1>1, <1>2, <1>7, <2>1, <2>2, <2>3 DEF HandleOffline, RouterSide, Finite
<1> QED
  BY <1>4, <1>5, <1>6, <1>7 DEF HandleEvent, e

LEMMA MessageTypes ==
  ASSUME SystemInv, HandleMessage
  PROVE  RouterSide'
<1> DEFINE in == Head(incoming)
<1>1. /\ in \in Inbound /\ in.id \in User /\ in.room \in Room /\ in.data \in ClientMsg
  BY FirstMessage DEF HandleMessage
<1>2. RouterSide
  BY Sides
<1> HIDE DEF in
<1>3. ASSUME HandleAvatar(in) PROVE RouterSide'
  <2>1. ToRoom(in.room, About(in.data.type, in.id)) \in Outbound
    BY <1>1, <1>3, Commands, Messages DEF HandleAvatar
  <2>2. \A r \in Room : IsFiniteSet(players'[r])
    <3>1. \A r \in Room : players'[r] \in {players[r], players[r] \cup {in.id}}
      BY <1>2, <1>3 DEF HandleAvatar, RouterSide
    <3>2. \A r \in Room : IsFiniteSet(players[r]) /\ IsFiniteSet(players[r] \cup {in.id})
      BY <1>2, FS_AddElement DEF RouterSide, Finite
    <3> QED
      BY <3>1, <3>2
  <2>3. rout' \in Seq(Outbound) /\ players' \in [Room -> SUBSET User]
    BY <1>1, <1>2, <1>3, <2>1 DEF HandleAvatar, RouterSide
  <2> QED
    BY <1>2, <1>3, <2>2, <2>3 DEF HandleAvatar, RouterSide, Finite
<1>4. ASSUME HandleSwitchRoom(in) PROVE RouterSide'
  <2>1. in.data.room \in Room \cup {None}
    BY <1>1, <1>4 DEF HandleSwitchRoom, ClientMsg
  <2>2. [room |-> in.room, id |-> in.id, newRoom |-> in.data.room] \in SwitchReq
    BY <1>1, <2>1 DEF SwitchReq
  <2>3. rswitch' \in Seq(SwitchReq)
    BY <1>4, <2>2 DEF HandleSwitchRoom
  <2> QED
    BY <1>2, <1>4, <2>3 DEF HandleSwitchRoom, RouterSide, Finite
<1>5. ASSUME HandleChat(in) PROVE RouterSide'
  <2>1. in.data.scope \in {"room", "all", "private"} /\ in.data.to \in User \cup {None}
    BY <1>1, <1>5 DEF HandleChat, ClientMsg
  <2>2. Talk(in, None) \in ServerMsg /\ Talk(in, in.data.to) \in ServerMsg
    BY <1>1, <1>5, <2>1, Talks DEF HandleChat
  <2>3. /\ ToAll(Talk(in, None)) \in Outbound
        /\ ToRoom(in.room, Talk(in, None)) \in Outbound
        /\ ToUser(in.data.to, Talk(in, in.data.to)) \in Outbound
        /\ ToUser(in.id, Talk(in, in.data.to)) \in Outbound
    BY <1>1, <2>1, <2>2, Commands
  <2>4. ChatTo(in) \in Seq(Outbound)
    BY <2>1, <2>3 DEF ChatTo
  <2> QED
    BY <1>2, <1>5, <2>4 DEF HandleChat, RouterSide, Finite
<1>6. ASSUME HandleCallStatus(in) PROVE RouterSide'
  <2>1. inCall' \in SUBSET User
    BY <1>1, <1>2, <1>6 DEF HandleCallStatus, RouterSide
  <2>2. ToAll(Presence(in.id, online, inCall', roomOf)) \in Outbound
    BY <1>1, <1>2, Commands, Messages DEF RouterSide
  <2> QED
    BY <1>2, <1>6, <2>1, <2>2 DEF HandleCallStatus, RouterSide, Finite
<1>7. ASSUME HandleSignal(in) PROVE RouterSide'
  <2>1. in.data.to \in User \cup {None}
    BY <1>1, <1>7 DEF HandleSignal, ClientMsg
  <2>2. ToOne(in.room, in.data.to, Talk(in, in.data.to)) \in Outbound
    BY <1>1, <1>7, <2>1, Talks, Commands DEF HandleSignal
  <2> QED
    BY <1>2, <1>7, <2>2 DEF HandleSignal, RouterSide, Finite
<1>8. ASSUME HandleCall(in) PROVE RouterSide'
  <2>1. in.data.to \in User \cup {None}
    BY <1>1, <1>8 DEF HandleCall, ClientMsg
  <2>2. ToOne(in.room, in.data.to, Talk(in, in.data.to)) \in Outbound
    BY <1>1, <1>8, <2>1, Talks, Commands DEF HandleCall
  <2> QED
    BY <1>2, <1>8, <2>2 DEF HandleCall, RouterSide, Finite
<1>9. ASSUME HandleObject(in) PROVE RouterSide'
  <2>1. ToRoom(in.room, [type |-> "object"]) \in Outbound
    BY <1>1, Commands, Messages
  <2>2. objects' \in [Room -> 0..ObjectCap]
    BY <1>1, <1>2, <1>9 DEF HandleObject, RouterSide
  <2> QED
    BY <1>2, <1>9, <2>1, <2>2 DEF HandleObject, RouterSide, Finite
<1>10. ASSUME HandleEdit(in) PROVE RouterSide'
  <2>1. ToRoom(in.room, [type |-> "edit"]) \in Outbound
    BY <1>1, Commands, Messages
  <2>2. <<>> \in Seq(Outbound) /\ <<ToRoom(in.room, [type |-> "edit"])>> \in Seq(Outbound)
    BY <2>1
  <2> QED
    BY <1>2, <1>10, <2>2 DEF HandleEdit, RouterSide, Finite
<1> QED
  BY <1>1, <1>3, <1>4, <1>5, <1>6, <1>7, <1>8, <1>9, <1>10 DEF HandleMessage, in

\* What a step of the server is to the hub, its channels and who reads its events.
LEMMA HubSide ==
  ASSUME TypeOK, [Next]_systemVars
  PROVE  [H!Next]_H!sysVars
<1> USE DEF H!sysVars, H!hubVars, H!Next
<1>1. \A o \in Seq(Outbound) : o # <<>> => Head(o) \in Outbound
  BY ItemsTail
<1>2. \A q \in Seq(SwitchReq) : q # <<>> => Head(q) \in SwitchReq
  BY ItemsTail
<1>3. rout \in Seq(Outbound) /\ rswitch \in Seq(SwitchReq)
  BY DEF TypeOK, RouterTypeOK
<1>4. CASE HubStep /\ UNCHANGED <<pumpVars, routerVars, view, seated, said>>
  BY <1>4, SameHub DEF routerVars
<1>5. CASE HandleEvent /\ seated' = Seating(Head(events))
  <2>1. H!TakeEvent
    BY <1>5, SameHub DEF HandleEvent
  <2>2. H!Learn(Head(events))
    <3>1. CASE HandleJoined(Head(events))
      BY <1>5, <3>1 DEF HandleJoined, H!Learn, Seating
    <3>2. CASE HandleLeft(Head(events))
      BY <1>5, <3>2 DEF HandleLeft, H!Learn, Seating
    <3>3. CASE HandleOnline(Head(events))
      BY <1>5, <3>3 DEF HandleOnline, H!Learn, Seating
    <3>4. CASE HandleOffline(Head(events))
      BY <1>5, <3>4 DEF HandleOffline, H!Learn, Seating
    <3> QED
      BY <1>5, <3>1, <3>2, <3>3, <3>4 DEF HandleEvent
  <2> QED
    BY <2>1, <2>2 DEF H!ReadEvent
<1>6. CASE HandleMessage /\ UNCHANGED seated
  BY <1>6 DEF HandleMessage, hubVars, HandleAvatar, HandleSwitchRoom, HandleChat, HandleCallStatus,
              HandleSignal, HandleCall, HandleObject, HandleEdit
<1>7. CASE RouterSend /\ UNCHANGED seated
  <2>1. Head(rout) \in Outbound /\ H!PutOut(Head(rout))
    BY <1>1, <1>3, <1>7, SameHub DEF RouterSend
  <2> QED
    BY <1>7, <2>1 DEF RouterSend, H!Router
<1>8. CASE RouterSwitch /\ UNCHANGED seated
  <2>1. /\ Head(rswitch) \in SwitchReq
        /\ H!SwitchRoom(Head(rswitch).room, Head(rswitch).id, Head(rswitch).newRoom)
    BY <1>2, <1>3, <1>8, SameHub DEF RouterSwitch
  <2> QED
    BY <1>8, <2>1 DEF RouterSwitch, H!Router
<1>9. ASSUME NEW c \in Client, NEW r \in Room, ServeWs(c, r),
             UNCHANGED <<pumpVars, routerVars, view, seated, said>>
      PROVE  H!Next
  <2>1. H!ServeWs(c, r)
    BY <1>9, SameHub
  <2> QED
    BY <1>9, <2>1 DEF H!Connection, routerVars
<1>10. ASSUME NEW c \in Client, Say(c) /\ UNCHANGED <<routerVars, view, seated>>
       PROVE  UNCHANGED H!sysVars
  BY <1>10 DEF Say, Read, hubVars, routerVars
<1>11. ASSUME NEW c \in Client, Write(c) /\ UNCHANGED <<routerVars, seated, said>>
       PROVE  H!Next
  <2>1. H!TakeSend(c)
    BY <1>11, SameHub DEF Write, WriteOk
  <2> QED
    BY <1>11, <2>1 DEF H!Connection, routerVars
<1>12. ASSUME NEW c \in Client, Pump(c), UNCHANGED <<routerVars, view, seated, said>>
       PROVE  [H!Next]_H!sysVars
  <2>1. CASE Push(c) \/ CloseConn(c) \/ WriteClosed(c)
    BY <1>12, <2>1 DEF Push, CloseConn, WriteClosed, hubVars, routerVars
  <2>2. CASE ReadFail(c)
    <3>1. H!Hangup(c)
      BY <2>2, SameHub DEF ReadFail
    <3> QED
      BY <1>12, <3>1 DEF H!Connection, routerVars
  <2> QED
    BY <1>12, <2>1, <2>2 DEF Pump
<1>13. CASE UNCHANGED systemVars
  BY <1>13 DEF systemVars, allVars, clientVars, hubVars, routerVars
<1> QED
  BY <1>4, <1>5, <1>6, <1>7, <1>8, <1>9, <1>10, <1>11, <1>12, <1>13 DEF Next, RouterNext

LEMMA SystemInit == Init => SystemInv /\ H!Init
<1> SUFFICES ASSUME Init PROVE SystemInv /\ H!Init
  OBVIOUS
<1>1. HubInit
  BY DEF Init, RouterInit, ClientInit
<1>2. H!Init
  BY <1>1, SameHub DEF Init, RouterInit, H!Init
<1>3. HubTypeOK
  BY <1>2, HubAssumptions, H!TypeInit, SameHub DEF H!TypeOK
<1>4. PumpSide
  BY DEF Init, RouterInit, ClientInit, PumpSide
<1>5. RouterSide
  BY FS_EmptySet DEF Init, RouterInit, RouterSide, Finite
<1>6. view \in [Client -> [User -> PresenceMsg]]
  BY DEF Init, Absent, PresenceMsg
<1> QED
  BY <1>2, <1>3, <1>4, <1>5, <1>6, Sides DEF Init

LEMMA SystemStep ==
  ASSUME SystemInv, [Next]_systemVars
  PROVE  SystemInv'
<1>1. H!TypeOK'
  <2>1. H!TypeOK
    BY SameHub DEF SystemInv, TypeOK, RouterTypeOK, ClientTypeOK, H!TypeOK
  <2>2. [H!Next]_H!sysVars
    BY HubSide DEF SystemInv
  <2> QED
    BY <2>1, <2>2, HubAssumptions, H!TypeStep
<1>2. HubTypeOK'
  BY <1>1 DEF H!TypeOK, HubTypeOK, H!HubTypeOK, Phase, H!Phase, Event, H!Event, Outbound, H!Outbound,
         SwitchReq, H!SwitchReq
<1>3. /\ HubTypeOK /\ PumpSide /\ RouterSide
      /\ view \in [Client -> [User -> PresenceMsg]]
      /\ seated \in SUBSET (User \X Room)
      /\ said \in 0..MaxSaid
  BY Sides
<1> DEFINE Rest == /\ PumpSide /\ RouterSide
                   /\ view \in [Client -> [User -> PresenceMsg]]
                   /\ seated \in SUBSET (User \X Room)
                   /\ said \in 0..MaxSaid
<1> SUFFICES Rest'
  BY <1>2 DEF SystemInv, TypeOK, RouterTypeOK, ClientTypeOK, PumpSide, RouterSide
<1>4. UNCHANGED routerVars => RouterSide'
  BY <1>3 DEF RouterSide, Finite, routerVars
<1>5. UNCHANGED pumpVars => PumpSide'
  BY <1>3 DEF PumpSide, pumpVars
<1>6. CASE HubStep /\ UNCHANGED <<pumpVars, routerVars, view, seated, said>>
  BY <1>3, <1>4, <1>5, <1>6
<1>7. CASE RouterNext /\ UNCHANGED <<view, said>>
  <2>1. CASE HandleEvent /\ seated' = Seating(Head(events))
    <3>1. Seating(Head(events)) \in SUBSET (User \X Room)
      BY <1>3, <2>1, FirstEvent DEF HandleEvent, TakeEvent, Seating
    <3> QED
      BY <1>3, <1>5, <1>7, <2>1, <3>1, EventTypes DEF HandleEvent
  <2>2. CASE HandleMessage /\ UNCHANGED seated
    <3>1. PumpSide'
      BY <1>3, <2>2, FirstMessage DEF HandleMessage, PumpSide
    <3> QED
      BY <1>3, <1>7, <2>2, <3>1, MessageTypes
  <2>3. CASE RouterSend /\ UNCHANGED seated
    <3>1. rout' \in Seq(Outbound)
      BY <1>3, <2>3 DEF RouterSend, RouterSide
    <3> QED
      BY <1>3, <1>5, <1>7, <2>3, <3>1 DEF RouterSend, RouterSide, Finite
  <2>4. CASE RouterSwitch /\ UNCHANGED seated
    <3>1. rswitch' \in Seq(SwitchReq)
      BY <1>3, <2>4 DEF RouterSwitch, RouterSide
    <3> QED
      BY <1>3, <1>5, <1>7, <2>4, <3>1 DEF RouterSwitch, RouterSide, Finite
  <2> QED
    BY <1>7, <2>1, <2>2, <2>3, <2>4 DEF RouterNext
<1>8. ASSUME NEW c \in Client, NEW r \in Room, ServeWs(c, r),
             UNCHANGED <<pumpVars, routerVars, view, seated, said>>
      PROVE  Rest'
  BY <1>3, <1>4, <1>5, <1>8
<1>9. ASSUME NEW c \in Client, Say(c), UNCHANGED <<routerVars, view, seated>>
      PROVE  Rest'
  <2>1. said' \in 0..MaxSaid
    BY <1>3, <1>9 DEF Say
  <2>2. PumpSide'
    <3>1. PICK msg \in Message : Read(c, msg)
      BY <1>9 DEF Say
    <3>2. [id |-> Id[c], room |-> room[c], data |-> msg] \in Inbound
      BY <1>3 DEF HubTypeOK, Inbound
    <3> QED
      BY <1>3, <3>1, <3>2 DEF Read, PumpSide
  <2> QED
    BY <1>3, <1>4, <1>9, <2>1, <2>2
<1>10. ASSUME NEW c \in Client, Write(c), UNCHANGED <<routerVars, seated, said>>
       PROVE  Rest'
  <2>1. send[c] \in Seq(ServerMsg) /\ send[c] # <<>>
    BY <1>3, <1>10 DEF HubTypeOK, Write, WriteOk, TakeSend
  <2>2. Head(send[c]) \in ServerMsg
    BY <2>1, ItemsTail
  <2>3. Head(send[c]).type = "presence" => Head(send[c]) \in PresenceMsg /\ Head(send[c]).id \in User
    BY <2>2 DEF ServerMsg, PresenceMsg
  <2>4. view' \in [Client -> [User -> PresenceMsg]]
    BY <1>3, <1>10, <2>3 DEF Write
  <2> QED
    BY <1>3, <1>4, <1>5, <1>10, <2>4 DEF Write, WriteOk
<1>11. ASSUME NEW c \in Client, Pump(c), UNCHANGED <<routerVars, view, seated, said>>
       PROVE  Rest'
  <2>1. CASE Push(c)
    <3>1. held[c] \in Seq(Inbound) /\ held[c] # <<>>
      BY <1>3, <2>1 DEF PumpSide, Push
    <3>2. Head(held[c]) \in Inbound
      BY <3>1, ItemsTail
    <3>3. PumpSide'
      BY <1>3, <2>1, <3>2 DEF PumpSide, Push
    <3> QED
      BY <1>3, <1>4, <1>11, <3>3
  <2>2. CASE ReadFail(c) \/ CloseConn(c) \/ WriteClosed(c)
    <3>1. PumpSide'
      BY <1>3, <2>2 DEF ReadFail, CloseConn, WriteClosed, Return, PumpSide, pumpVars
    <3> QED
      BY <1>3, <1>4, <1>11, <3>1
  <2> QED
    BY <1>11, <2>1, <2>2 DEF Pump
<1>12. CASE UNCHANGED systemVars
  BY <1>3, <1>4, <1>5, <1>12 DEF systemVars, allVars, clientVars
<1> QED
  BY <1>6, <1>7, <1>8, <1>9, <1>10, <1>11, <1>12 DEF Next

\* Every variable of the server keeps its type: whatever the peers say, what the
\* router puts on its channels are commands and requests the hub knows, and only
\* messages of the protocol reach a connection.
THEOREM RouterTypes == Spec => []TypeOK
<1>1. SystemInv /\ [Next]_systemVars => SystemInv'
  BY SystemStep
<1>2. SystemInv => TypeOK
  BY DEF SystemInv
<1> QED
  BY <1>1, <1>2, SystemInit, PTL DEF Spec

LEMMA AlwaysSystem == Spec => []SystemInv
<1>1. SystemInv /\ [Next]_systemVars => SystemInv'
  BY SystemStep
<1> QED
  BY <1>1, SystemInit, PTL DEF Spec

\* The server implements HubSystem: pumps and router together are one of the
\* environments the hub was proved against.
THEOREM ServerImplementsHub == Spec => H!Spec
<1>1. SystemInv /\ [Next]_systemVars => [H!Next]_H!sysVars
  BY HubSide DEF SystemInv
<1>2. Init => H!Init
  BY SystemInit
<1> QED
  BY <1>1, <1>2, AlwaysSystem, PTL DEF Spec, H!Spec

----------------------------------------------------------------------------
(* Who is online, and who has an avatar. *)

\* Once the events have been taken, the router's online users are those with a
\* connection in a room: from the hub's promise on Online / Offline.
THEOREM OnlineIsTrue == Spec => []OnlineAgrees
<1>1. SystemInv /\ H!PresenceAgrees => OnlineAgrees
  <2> SUFFICES ASSUME H!PresenceAgrees, events = <<>>, Idle, NEW u \in User
               PROVE  u \in online <=> Here(u)
    BY DEF OnlineAgrees
  <2>1. H!Pending = <<>>
    BY DEF H!Pending, Idle
  <2>2. u \in online <=> H!Connected(u)
    BY <2>1 DEF H!PresenceAgrees, H!WillKnow
  <2>3. H!Connected(u) <=> Here(u)
    BY DEF H!Connected, H!UserOnline, Idle, Here
  <2> QED
    BY <2>2, <2>3
<1>2. H!Spec => []H!PresenceAgrees
  BY HubAssumptions, H!PresenceTold
<1> QED
  BY <1>1, <1>2, ServerImplementsHub, AlwaysSystem, PTL

\* Who has joined a room by the events taken has an avatar there: moves add
\* avatars, only Left takes one away.
Avatars == \A u \in User, r \in Room : <<u, r>> \in seated => u \in players[r]

LEMMA AvatarsStep ==
  ASSUME SystemInv, Avatars, [Next]_systemVars
  PROVE  Avatars'
<1>1. players \in [Room -> SUBSET User]
  BY Sides DEF RouterSide
<1>2. CASE HandleEvent /\ seated' = Seating(Head(events))
  <2> DEFINE e == Head(events)
  <2>1. CASE HandleJoined(e)
    BY <1>1, <1>2, <2>1 DEF HandleJoined, Seating, Avatars
  <2>2. CASE HandleLeft(e)
    BY <1>1, <1>2, <2>2 DEF HandleLeft, Seating, Avatars
  <2>3. CASE HandleOnline(e) \/ HandleOffline(e)
    BY <1>2, <2>3 DEF HandleOnline, HandleOffline, Seating, Avatars
  <2> QED
    BY <1>2, <2>1, <2>2, <2>3 DEF HandleEvent
<1>3. CASE HandleMessage /\ UNCHANGED seated
  <2>1. \A r \in Room : players[r] \subseteq players'[r]
    BY <1>1, <1>3 DEF HandleMessage, HandleAvatar, HandleSwitchRoom, HandleChat, HandleCallStatus,
                      HandleSignal, HandleCall, HandleObject, HandleEdit
  <2> QED
    BY <1>3, <2>1 DEF Avatars
<1>4. CASE UNCHANGED <<players, seated>>
  BY <1>4 DEF Avatars
<1> QED
  BY <1>2, <1>3, <1>4 DEF Next, RouterNext, RouterSend, RouterSwitch, Say, Write, Pump, systemVars,
                          allVars, routerVars

\* Once the events have been taken, every member of a room has an avatar there.
THEOREM AvatarsKept == Spec => []MembersHaveAvatars
<1>1. Init => Avatars
  BY DEF Init, Avatars
<1>2. SystemInv /\ Avatars /\ [Next]_systemVars => Avatars'
  BY AvatarsStep
<1>3. Avatars /\ SystemInv /\ H!SeatsAgree => MembersHaveAvatars
  <2> SUFFICES ASSUME Avatars, SystemInv, H!SeatsAgree, events = <<>>, Idle,
                      NEW r \in Room, NEW c \in rooms[r]
               PROVE  Id[c] \in players[r]
    BY DEF MembersHaveAvatars
  <2>1. Id[c] \in User
    BY Sides DEF HubTypeOK
  <2>2. H!Pending = <<>>
    BY DEF H!Pending, Idle
  <2>3. <<Id[c], r>> \in seated
    BY <2>1, <2>2 DEF H!SeatsAgree, H!WillKnow
  <2> QED
    BY <2>1, <2>3 DEF Avatars
<1>4. H!Spec => []H!SeatsAgree
  BY HubAssumptions, H!SeatsTold
<1> QED
  BY <1>1, <1>2, <1>3, <1>4, ServerImplementsHub, AlwaysSystem, PTL DEF Spec

----------------------------------------------------------------------------
(* What the handlers say. *)

\* What is addressed to a user goes to that user or back to the sender.
Addressed(o) ==
  o.data.type \in {"chat", "signal", "call"} /\ o.data.to # None
    => ~o.all /\ o.id # None /\ o.id \in {o.data.to, o.data.id}

\* An answer to an event or a message: presence as it is now, or something else
\* that is not misdirected.
Answer(o) ==
  \/ \E u \in User : o.data = Presence(u, online, inCall, roomOf)
  \/ o.data.type \in {"welcome", "join", "move", "sprite_change", "leave", "object", "history", "edit"}
  \/ o.data.type \in {"chat", "signal", "call"} /\ Addressed(o)

LEMMA EventSays ==
  ASSUME SystemInv, HandleEvent
  PROVE  \A o \in Items(rout') : Answer(o)'
<1> DEFINE e == Head(events)
<1>1. e \in Event /\ e.id \in User /\ online \subseteq User
  BY FirstEvent, Sides DEF HandleEvent, TakeEvent, RouterSide
<1> HIDE DEF e
<1>2. ASSUME HandleJoined(e) PROVE \A o \in Items(rout') : Answer(o)'
  <2>1. online' = online /\ inCall' = inCall
    BY <1>2 DEF HandleJoined
  <2>2. \A o \in Items(rout') :
           \/ \E u \in online : o.data = Presence(u, online, inCall, roomOf')
           \/ o.data.type \in {"welcome", "join", "object", "history"}
    BY <1>1, <1>2, Joined
  <2> QED
    BY <1>1, <2>1, <2>2 DEF Answer
<1>3. ASSUME HandleLeft(e) PROVE \A o \in Items(rout') : Answer(o)'
  <2>1. Items(rout') = {ToRoom(e.room, About("leave", e.id))}
    BY <1>3, ItemsEmpty DEF HandleLeft
  <2> QED
    BY <2>1 DEF Answer, ToRoom, About
<1>4. ASSUME HandleOnline(e) \/ HandleOffline(e) PROVE \A o \in Items(rout') : Answer(o)'
  <2>1. Items(rout') = {ToAll(Presence(e.id, online', inCall', roomOf'))}
    BY <1>4, ItemsEmpty DEF HandleOnline, HandleOffline
  <2> QED
    BY <1>1, <2>1 DEF Answer, ToAll
<1> QED
  BY <1>2, <1>3, <1>4 DEF HandleEvent, e

LEMMA MessageSays ==
  ASSUME SystemInv, HandleMessage
  PROVE  \A o \in Items(rout') : Answer(o)'
<1> DEFINE in == Head(incoming)
<1>1. in.id \in User /\ in.room \in Room /\ in.data \in ClientMsg
  BY FirstMessage DEF HandleMessage
<1>2. Items(rout) = {}
  BY ItemsEmpty DEF HandleMessage, Ready
<1> HIDE DEF in
<1>3. ASSUME HandleAvatar(in) PROVE \A o \in Items(rout') : Answer(o)'
  <2>1. Items(rout') = {ToRoom(in.room, About(in.data.type, in.id))}
    BY <1>3, ItemsEmpty DEF HandleAvatar
  <2> QED
    BY <1>3, <2>1 DEF Answer, HandleAvatar, ToRoom, About
<1>4. ASSUME HandleSwitchRoom(in) PROVE \A o \in Items(rout') : Answer(o)'
  BY <1>2, <1>4 DEF HandleSwitchRoom
<1>5. ASSUME HandleChat(in) PROVE \A o \in Items(rout') : Answer(o)'
  <2>1. in.data.type = "chat" /\ rout' = ChatTo(in) /\ in.id # None
    BY <1>1, <1>5 DEF HandleChat
  <2>2. CASE in.data.scope = "all"
    <3>1. Items(rout') = {ToAll(Talk(in, None))}
      BY <2>1, <2>2, ItemsEmpty DEF ChatTo
    <3> QED
      BY <2>1, <3>1 DEF Answer, Addressed, ToAll, Talk
  <2>3. CASE in.data.scope = "room"
    <3>1. Items(rout') = {ToRoom(in.room, Talk(in, None))}
      BY <2>1, <2>3, ItemsEmpty DEF ChatTo
    <3> QED
      BY <2>1, <3>1 DEF Answer, Addressed, ToRoom, Talk
  <2>4. CASE in.data.scope = "private" /\ in.data.to # None
    <3> DEFINE x == ToUser(in.data.to, Talk(in, in.data.to))
               y == ToUser(in.id, Talk(in, in.data.to))
    <3>1. rout' = <<x, y>>
      BY <2>1, <2>4 DEF ChatTo
    <3>2. \A o \in {x, y} : Answer(o)'
      BY <2>1, <2>4 DEF Answer, Addressed, ToUser, Talk
    <3> HIDE DEF x, y
    <3>3. Items(rout') = {x, y}
      BY <3>1 DEF Items
    <3> QED
      BY <3>2, <3>3
  <2>5. CASE in.data.scope \notin {"all", "room"} /\ ~(in.data.scope = "private" /\ in.data.to # None)
    <3>1. Items(rout') = {}
      BY <2>1, <2>5, ItemsEmpty DEF ChatTo
    <3> QED
      BY <3>1
  <2> QED
    BY <2>2, <2>3, <2>4, <2>5
<1>6. ASSUME HandleCallStatus(in) PROVE \A o \in Items(rout') : Answer(o)'
  <2>1. Items(rout') = {ToAll(Presence(in.id, online', inCall', roomOf'))}
    BY <1>6, ItemsEmpty DEF HandleCallStatus
  <2> QED
    BY <1>1, <2>1 DEF Answer, ToAll
<1>7. ASSUME HandleSignal(in) PROVE \A o \in Items(rout') : Answer(o)'
  <2>1. Items(rout') = {ToOne(in.room, in.data.to, Talk(in, in.data.to))}
    BY <1>7, ItemsEmpty DEF HandleSignal
  <2> QED
    BY <1>7, <2>1 DEF HandleSignal, Answer, Addressed, ToOne, Talk
<1>8. ASSUME HandleCall(in) PROVE \A o \in Items(rout') : Answer(o)'
  <2>1. Items(rout') \subseteq {ToOne(in.room, in.data.to, Talk(in, in.data.to))}
    BY <1>8, ItemsEmpty DEF HandleCall
  <2> QED
    BY <1>8, <2>1 DEF HandleCall, Answer, Addressed, ToOne, Talk
<1>9. ASSUME HandleObject(in) PROVE \A o \in Items(rout') : Answer(o)'
  <2>1. Items(rout') = {ToRoom(in.room, [type |-> "object"])}
    BY <1>9, ItemsEmpty DEF HandleObject
  <2> QED
    BY <2>1 DEF Answer, ToRoom
<1>10. ASSUME HandleEdit(in) PROVE \A o \in Items(rout') : Answer(o)'
  <2>1. Items(rout') \subseteq {ToRoom(in.room, [type |-> "edit"])}
    BY <1>10, ItemsEmpty DEF HandleEdit
  <2> QED
    BY <2>1 DEF Answer, ToRoom
<1> QED
  BY <1>3, <1>4, <1>5, <1>6, <1>7, <1>8, <1>9, <1>10 DEF HandleMessage, in

\* Whatever a step of the router adds to rout is an answer; others only take out.
LEMMA RouterSays ==
  ASSUME SystemInv, RouterNext
  PROVE  \/ \A o \in Items(rout') : Answer(o)'
         \/ Items(rout') \subseteq Items(rout) /\ UNCHANGED <<online, inCall, roomOf>>
<1>1. rout \in Seq(Outbound)
  BY Sides DEF RouterSide
<1>2. ASSUME RouterSend PROVE Items(rout') \subseteq Items(rout)
  BY <1>1, <1>2, ItemsTail DEF RouterSend
<1> QED
  BY <1>2, EventSays, MessageSays DEF RouterNext, RouterSend, RouterSwitch

----------------------------------------------------------------------------
(* Privacy. *)

\* Whatever is on its way to the hub, or from it to a connection, is addressed
\* to those it is meant for.
Private ==
  /\ \A o \in Items(rout) \cup Items(out) : Addressed(o)
  /\ PrivateIsPrivate

LEMMA PrivateInit == Init => Private
  BY ItemsEmpty DEF Init, RouterInit, ClientInit, HubInit, Private, PrivateIsPrivate

\* The recipients of a command that names a user are connections of that user.
LEMMA Named ==
  ASSUME NEW o \in Outbound, ~o.all, o.id # None,
         NEW to \in Recipients(o), NEW c \in to
  PROVE  Id[c] = o.id
<1>1. \A d \in Matching(o) : Id[d] = o.id
  BY DEF Matching, Outbound
<1> QED
  BY <1>1 DEF Recipients

LEMMA PrivateStep ==
  ASSUME SystemInv, Private, [Next]_systemVars
  PROVE  Private'
<1>1. HubTypeOK /\ RouterSide
  BY Sides
<1>2. ASSUME NEW o, Answer(o)' PROVE Addressed(o)
  <2>1. ASSUME NEW u \in User, o.data = Presence(u, online', inCall', roomOf')
        PROVE  o.data.type = "presence"
    BY <2>1 DEF Presence
  <2> QED
    BY <1>2, <2>1 DEF Answer, Addressed
<1>3. CASE RouterNext
  <2>1. \A o \in Items(rout') : Addressed(o)
    BY <1>2, <1>3, RouterSays DEF Private
  <2>2. \A o \in Items(out') : Addressed(o)
    <3>1. CASE RouterSend
      <4>1. Head(rout) \in Items(rout) /\ Head(rout) \in Outbound
        BY <1>1, <3>1, ItemsTail DEF RouterSend, RouterSide
      <4>2. Items(out') = Items(out) \cup {Head(rout)}
        BY <1>1, <3>1, <4>1, ItemsAppend DEF RouterSend, PutOut, HubTypeOK
      <4> QED
        BY <4>1, <4>2 DEF Private
    <3>2. CASE out' = out
      BY <3>2 DEF Private
    <3> QED
      BY <1>3, <3>1, <3>2 DEF RouterNext, HandleEvent, TakeEvent, HandleMessage, hubVars, RouterSwitch, SwitchRoom
  <2>3. dlv' = dlv
    BY <1>3 DEF RouterNext, HandleEvent, TakeEvent, HandleMessage, hubVars, RouterSend, PutOut,
                RouterSwitch, SwitchRoom, loopVars
  <2> QED
    BY <2>1, <2>2, <2>3 DEF Private, PrivateIsPrivate
<1>4. CASE HandleOut /\ UNCHANGED routerVars
  <2> DEFINE o == Head(out)
  <2>1. o \in Outbound /\ o \in Items(out) /\ Items(out') \subseteq Items(out)
    BY <1>1, <1>4, ItemsTail DEF HandleOut, HubTypeOK
  <2>2. PICK to \in Recipients(o) : dlv' = {[client |-> c, data |-> o.data] : c \in to}
    BY <1>4 DEF HandleOut
  <2>3. Addressed(o)
    BY <2>1 DEF Private
  <2> HIDE DEF o
  <2>4. PrivateIsPrivate'
    <3> SUFFICES ASSUME NEW c \in to, o.data.type \in {"chat", "signal", "call"}
                 PROVE  o.data.to \in {None, Id[c]} \/ o.data.id = Id[c]
      BY <2>2 DEF PrivateIsPrivate
    <3> QED
      BY <2>1, <2>3, Named DEF Addressed
  <2> QED
    BY <1>4, <2>1, <2>4 DEF Private, routerVars
<1>5. CASE UNCHANGED <<out, rout>> /\ dlv' \subseteq dlv
  BY <1>5 DEF Private, PrivateIsPrivate
<1>6. ASSUME HubStep, ~HandleOut PROVE out' = out /\ dlv' \subseteq dlv
  BY <1>6 DEF HubStep, Register, UnregisterMember, UnregisterKicked, SwitchIgnored, SwitchLeave,
              SwitchEnter, Emit, Deliver, chanVars, loopVars
<1>7. ASSUME NEW c \in Client,
             (\E r \in Room : ServeWs(c, r)) \/ Say(c) \/ Write(c) \/ Pump(c)
      PROVE  UNCHANGED <<out, dlv>>
  BY <1>7 DEF ServeWs, Say, Read, Write, WriteOk, TakeSend, Pump, Push, ReadFail, Hangup, CloseConn,
              WriteClosed, hubVars, chanVars, loopVars
<1> QED
  BY <1>3, <1>4, <1>5, <1>6, <1>7 DEF Next, systemVars, allVars, clientVars, hubVars, routerVars

\* A private chat, a signal and a call reach their addressee, a private chat its
\* sender too, and no other user, wherever the two have moved in the meantime.
THEOREM PrivacyKept == Spec => []PrivateIsPrivate
<1>1. SystemInv /\ Private /\ [Next]_systemVars => Private'
  BY PrivateStep
<1>2. Private => PrivateIsPrivate
  BY DEF Private
<1> QED
  BY <1>1, <1>2, PrivateInit, AlwaysSystem, PTL DEF Spec

----------------------------------------------------------------------------
(* What peers see of each other. *)

\* The presence messages about u, those of them that are so, and the commands that
\* carry such messages.
News(u) == {d \in PresenceMsg : d.id = u}
Right(u) == {d \in News(u) : IF u \in online
                                THEN d = Presence(u, online, inCall, roomOf)
                                ELSE ~d.online}
Carry(D) == {o \in Outbound : o.data \in D}
Broadcasts(u) == {o \in Carry(News(u)) : o.all}

\* Of the elements of s in A, each is in G or followed by one in B.
Covered(s, A, B, G) ==
  \A i \in 1..Len(s) : s[i] \in A => \/ s[i] \in G
                                     \/ \E j \in (i + 1)..Len(s) : s[j] \in B

\* The hub will tell every member of u.
Coming(u) == \E o \in Items(out) \cup Items(rout) : o \in Broadcasts(u)

\* c has been sent something of u, or is about to be.
Handed(c, u) == \E p \in dlv : p.client = c /\ p.data \in News(u)
Queued(c, u) == \E d \in Items(send[c]) : d \in News(u)

\* The snapshot for c in room r is still to be made, or holds something of u.
Welcome(c, r, u) ==
  \/ Ev("joined", Id[c], r) \in Items(events) \cup Items(emit)
  \/ \E o \in Items(out) \cup Items(rout) :
       o \in Carry(News(u)) /\ ~o.all /\ o.room = r /\ o.id = Id[c]

Held == Members \cup {m.client : m \in moving}

\* What the router still has to say of u is so; what the hub has been given, or
\* is about to send, is so too or will be followed by what is.
Prompt(u) ==
  /\ \A o \in Items(rout) : o \in Carry(News(u)) => o \in Carry(Right(u))
  /\ \/ \E o \in Items(rout) : o \in Broadcasts(u)
     \/ Covered(out, Carry(News(u)), Broadcasts(u), Carry(Right(u)))
  /\ \A p \in dlv : p.data \in News(u) => p.data \in Right(u) \/ Coming(u)

\* What c has queued of u ends in what is so, or more is coming.
Following(c, u) == Coming(u) \/ Handed(c, u) \/ Covered(send[c], News(u), News(u), Right(u))

\* c has been shown what is so of u, or it is on its way.
Informed(c, u) ==
  \/ view[c][u] \in Right(u) \/ Coming(u) \/ Handed(c, u) \/ Queued(c, u)
  \/ u \in online /\ \A r \in Room : c \in rooms[r] => Welcome(c, r, u)

\* A connection that is yet to come has been told nothing.
Blank(c) ==
  phase[c] \in {"fresh", "registering"} =>
    send[c] = <<>> /\ view[c] = [u \in User |-> Absent(u)]

ViewInv ==
  /\ \A u \in User : Prompt(u)
  /\ \A c \in Held, u \in User : Following(c, u) /\ Informed(c, u)
  /\ \A c \in Client : Blank(c)

\* What ViewInv needs of the hub: where connections are.
Places ==
  /\ \A r \in Room : \A c \in rooms[r] : room[c] = r /\ phase[c] \in {"registered", "unregistering"}
  /\ \A r \in Room : \A c, d \in rooms[r] : Id[c] = Id[d] => c = d
  /\ \A m \in moving : m.client \notin Members

LEMMA HubPlaces == H!HubInv => Places
  BY DEF H!HubInv, H!MembersLive, H!WellPlaced, H!MovingAlone, H!Live, H!Members, Members, Places

----------------------------------------------------------------------------
(* Covered, along a channel. *)

LEMMA CoveredAppend ==
  ASSUME NEW S, NEW s \in Seq(S), NEW x \in S, NEW A, NEW B, NEW G,
         x \in A => x \in G,
         Covered(s, A, B, G) \/ x \in B
  PROVE  Covered(Append(s, x), A, B, G)
<1>1. /\ Len(Append(s, x)) = Len(s) + 1 /\ Append(s, x)[Len(s) + 1] = x
      /\ \A i \in 1..Len(s) : Append(s, x)[i] = s[i]
      /\ Len(s) \in Nat
  OBVIOUS
<1>2. SUFFICES ASSUME NEW i \in 1..Len(s), s[i] \in A
               PROVE  \/ s[i] \in G
                      \/ \E j \in (i + 1)..(Len(s) + 1) : Append(s, x)[j] \in B
  BY <1>1 DEF Covered
<1>3. CASE x \in B
  BY <1>1, <1>3
<1>4. CASE Covered(s, A, B, G)
  <2>1. s[i] \in G \/ \E j \in (i + 1)..Len(s) : s[j] \in B
    BY <1>2, <1>4 DEF Covered
  <2> QED
    BY <1>1, <2>1
<1> QED
  BY <1>3, <1>4

LEMMA CoveredTail ==
  ASSUME NEW S, NEW s \in Seq(S), s # <<>>, NEW A, NEW B, NEW G,
         Covered(s, A, B, G)
  PROVE  /\ Covered(Tail(s), A, B, G)
         /\ Head(s) \in A => Head(s) \in G \/ \E x \in Items(Tail(s)) : x \in B
<1>1. /\ Len(Tail(s)) = Len(s) - 1 /\ Head(s) = s[1] /\ Len(s) \in Nat \ {0}
      /\ \A i \in 1..Len(Tail(s)) : i + 1 \in 1..Len(s) /\ Tail(s)[i] = s[i + 1]
  OBVIOUS
<1>2. \A i \in 2..Len(s) : i - 1 \in 1..Len(Tail(s)) /\ Tail(s)[i - 1] = s[i]
  BY <1>1
<1>3. ASSUME NEW i \in 1..Len(Tail(s)), Tail(s)[i] \in A
      PROVE  Tail(s)[i] \in G \/ \E j \in (i + 1)..Len(Tail(s)) : Tail(s)[j] \in B
  <2>1. i + 1 \in 1..Len(s) /\ s[i + 1] \in A /\ Tail(s)[i] = s[i + 1]
    BY <1>1, <1>3
  <2>2. s[i + 1] \in G \/ \E j \in ((i + 1) + 1)..Len(s) : s[j] \in B
    BY <2>1 DEF Covered
  <2>3. ASSUME NEW j \in ((i + 1) + 1)..Len(s), s[j] \in B
        PROVE  j - 1 \in (i + 1)..Len(Tail(s)) /\ Tail(s)[j - 1] \in B
    BY <1>1, <1>2, <2>3
  <2> QED
    BY <2>1, <2>2, <2>3
<1>4. ASSUME Head(s) \in A
      PROVE  Head(s) \in G \/ \E x \in Items(Tail(s)) : x \in B
  <2>1. 1 \in 1..Len(s) /\ s[1] \in A
    BY <1>1, <1>4
  <2>2. s[1] \in G \/ \E j \in (1 + 1)..Len(s) : s[j] \in B
    BY <2>1 DEF Covered
  <2>3. ASSUME NEW j \in (1 + 1)..Len(s), s[j] \in B
        PROVE  \E x \in Items(Tail(s)) : x \in B
    BY <1>2, <2>3 DEF Items
  <2> QED
    BY <1>1, <2>2, <2>3
<1> QED
  BY <1>3, <1>4 DEF Covered

LEMMA CoveredEmpty == \A A, B, G : Covered(<<>>, A, B, G)
  BY DEF Covered

----------------------------------------------------------------------------
(* The steps. *)

\* A step that moves connections and announces where they go.
LEMMA Moved ==
  ASSUME UNCHANGED <<online, inCall, roomOf, out, rout, dlv, send, view>>,
         Items(events) \cup Items(emit) \subseteq Items(events') \cup Items(emit')
  PROVE  /\ \A u \in User : Prompt(u) => Prompt(u)'
         /\ \A c \in Client, u \in User :
              /\ Following(c, u) => Following(c, u)'
              /\ Informed(c, u)
                 /\ (\A r \in Room : c \in rooms'[r] =>
                       c \in rooms[r] \/ Ev("joined", Id[c], r) \in Items(emit'))
                 => Informed(c, u)'
<1>1. \A u \in User : Right(u)' = Right(u) /\ (Coming(u)' <=> Coming(u))
  BY DEF Right, News, Coming, Broadcasts, Carry
<1>2. \A c \in Client, u \in User :
         (Handed(c, u)' <=> Handed(c, u)) /\ (Queued(c, u)' <=> Queued(c, u))
  BY DEF Handed, Queued
<1>3. \A c \in Client, r \in Room, u \in User : Welcome(c, r, u) => Welcome(c, r, u)'
  BY DEF Welcome, Carry, News
<1>4. \A c \in Client, r \in Room, u \in User :
         Ev("joined", Id[c], r) \in Items(emit') => Welcome(c, r, u)'
  BY DEF Welcome
<1>5. \A u \in User : Prompt(u) => Prompt(u)'
  BY <1>1 DEF Prompt, Carry, Broadcasts
<1>6. \A c \in Client, u \in User : Following(c, u) => Following(c, u)'
  BY <1>1, <1>2 DEF Following
<1>7. ASSUME NEW c \in Client, NEW u \in User, Informed(c, u),
             \A r \in Room : c \in rooms'[r] =>
               c \in rooms[r] \/ Ev("joined", Id[c], r) \in Items(emit')
      PROVE  Informed(c, u)'
  BY <1>1, <1>2, <1>3, <1>4, <1>7 DEF Informed
<1> QED
  BY <1>5, <1>6, <1>7

LEMMA RegisterViews ==
  ASSUME SystemInv, Places, ViewInv, UNCHANGED <<routerVars, view>>,
         NEW k \in Client, Register(k)
  PROVE  ViewInv'
<1>1. /\ HubTypeOK /\ Id[k] \in User /\ room[k] \in Room
      /\ view \in [Client -> [User -> PresenceMsg]]
  BY Sides DEF HubTypeOK
<1>2. /\ Items(emit) = {} /\ events' = events
      /\ Ev("joined", Id[k], room[k]) \in Items(emit')
  <2>1. emit' \in {<<Ev("joined", Id[k], room[k])>>,
                   <<Ev("joined", Id[k], room[k]), Ev("online", Id[k], None)>>}
    BY DEF Register
  <2>2. Len(emit') \in {1, 2} /\ emit'[1] = Ev("joined", Id[k], room[k])
    BY <2>1
  <2> QED
    BY <2>2, ItemsEmpty DEF Register, Idle, chanVars, Items
<1>3. /\ UNCHANGED <<online, inCall, roomOf, out, rout, dlv, send, view, moving>>
      /\ Items(events) \cup Items(emit) \subseteq Items(events') \cup Items(emit')
  BY <1>2 DEF Register, chanVars, routerVars
<1>4. \A u \in User : Prompt(u)'
  BY <1>3, Moved DEF ViewInv
<1>5. \A c \in Client, r \in Room :
         c \in rooms'[r] => c \in rooms[r] \/ (c = k /\ r = room[k])
  BY <1>1 DEF Register, Entered, HubTypeOK
<1>6. ASSUME NEW c \in Held', c # k, NEW u \in User
      PROVE  (Following(c, u) /\ Informed(c, u))'
  <2>1. c \in Held /\ c \in Client
    BY <1>1, <1>3, <1>5, <1>6 DEF Held, Members, HubTypeOK
  <2>2. Following(c, u) /\ Informed(c, u)
    BY <2>1 DEF ViewInv
  <2> QED
    BY <1>3, <1>5, <1>6, <2>1, <2>2, Moved
<1>7. ASSUME NEW u \in User
      PROVE  (Following(k, u) /\ Informed(k, u))'
  <2>1. send'[k] = <<>> /\ view'[k] = [v \in User |-> Absent(v)]
    BY <1>3 DEF Register, ViewInv, Blank
  <2>2. Following(k, u)'
    BY <2>1, CoveredEmpty DEF Following
  <2>3. CASE u \in online
    <3>1. \A r \in Room : k \notin rooms[r]
      BY DEF Places, Register
    <3>2. \A r \in Room : k \in rooms'[r] => r = room[k]
      BY <1>5, <3>1
    <3>3. \A r \in Room : k \in rooms'[r] => Welcome(k, r, u)'
      BY <3>2, <1>2 DEF Welcome
    <3> QED
      BY <1>3, <2>2, <2>3, <3>3 DEF Informed
  <2>4. CASE u \notin online
    <3>1. view'[k][u] = Absent(u) /\ Absent(u) \in Right(u)'
      BY <1>3, <2>1, <2>4 DEF Absent, Right, News, PresenceMsg
    <3> QED
      BY <2>2, <3>1 DEF Informed
  <2> QED
    BY <2>3, <2>4
<1>8. \A c \in Client : Blank(c)'
  BY <1>1, <1>3 DEF Register, ViewInv, Blank, HubTypeOK
<1> QED
  BY <1>4, <1>6, <1>7, <1>8 DEF ViewInv

\* The other steps that change who is where, and Emit.
LEMMA HubMoves ==
  ASSUME SystemInv, Places, ViewInv, UNCHANGED <<routerVars, view>>,
         \/ \E c \in Client : UnregisterMember(c) \/ UnregisterKicked(c)
         \/ SwitchIgnored \/ SwitchLeave \/ Emit
         \/ \E m \in moving : SwitchEnter(m)
  PROVE  ViewInv'
<1>1. HubTypeOK
  BY Sides
<1>2. UNCHANGED <<online, inCall, roomOf, out, rout, dlv, send, view>>
  BY DEF UnregisterMember, UnregisterKicked, SwitchIgnored, SwitchLeave, Emit, SwitchEnter, netVars,
         chanVars, loopVars, routerVars
<1>3. Items(events) \cup Items(emit) \subseteq Items(events') \cup Items(emit')
  <2>1. CASE emit = <<>> /\ events' = events
    BY <2>1, ItemsEmpty
  <2>2. CASE Emit
    <3>1. Items(emit) = {Head(emit)} \cup Items(emit') /\ Head(emit) \in Event
      BY <1>1, <2>2, ItemsTail DEF Emit, HubTypeOK
    <3>2. Items(events') = Items(events) \cup {Head(emit)}
      BY <1>1, <2>2, <3>1, ItemsAppend DEF Emit, HubTypeOK
    <3> QED
      BY <3>1, <3>2
  <2> QED
    BY <2>1, <2>2 DEF UnregisterMember, UnregisterKicked, SwitchIgnored, SwitchLeave, SwitchEnter,
                      Idle, chanVars
<1>4. \A c \in Client, r \in Room : c \in rooms'[r] =>
         c \in rooms[r] \/ Ev("joined", Id[c], r) \in Items(emit')
  <2>1. CASE \E c \in Client : UnregisterMember(c)
    BY <1>1, <2>1 DEF UnregisterMember, Removed, HubTypeOK
  <2>2. CASE rooms' = rooms
    BY <2>2
  <2>3. CASE SwitchLeave
    BY <1>1, <2>3 DEF SwitchLeave, Removed, HubTypeOK
  <2>4. ASSUME NEW m \in moving, SwitchEnter(m)
        PROVE  \A c \in Client, r \in Room : c \in rooms'[r] =>
                  c \in rooms[r] \/ Ev("joined", Id[c], r) \in Items(emit')
    <3>1. \A c \in Client, r \in Room : c \in rooms'[r] =>
             c \in rooms[r] \/ (c = m.client /\ r = m.to)
      BY <1>1, <2>4 DEF SwitchEnter, Entered, HubTypeOK
    <3>2. Items(emit') = {Ev("joined", Id[m.client], m.to)}
      BY <2>4, ItemsEmpty DEF SwitchEnter
    <3> QED
      BY <3>1, <3>2
  <2> QED
    BY <2>1, <2>2, <2>3, <2>4 DEF UnregisterKicked, SwitchIgnored, Emit, netVars
<1>5. Held' \subseteq Held /\ Held \subseteq Client
  <2>1. Held \subseteq Client
    BY <1>1 DEF Held, Members, HubTypeOK
  <2>2. CASE \E c \in Client : UnregisterMember(c)
    BY <1>1, <2>2 DEF UnregisterMember, Removed, HubTypeOK, Held, Members
  <2>3. CASE UNCHANGED <<rooms, moving>>
    BY <2>1, <2>3 DEF Held, Members
  <2>4. CASE SwitchLeave
    <3>1. PICK r \in Room, c \in Client, n \in Room \cup {None} :
            c \in rooms[r] /\ rooms' = Removed(c, r) /\ moving' = {[client |-> c, to |-> n]}
      <4>1. switchCh \in Seq(SwitchReq) /\ switchCh # <<>>
        BY <1>1, <2>4 DEF HubTypeOK, SwitchLeave
      <4>2. Head(switchCh) \in SwitchReq
        BY <4>1, ItemsTail
      <4> QED
        BY <1>1, <2>4, <4>2 DEF SwitchLeave, Switching, SwitchReq, HubTypeOK
    <3>2. c \in Members
      BY <1>1, <3>1 DEF Members, HubTypeOK
    <3> QED
      BY <1>1, <3>1, <3>2 DEF Removed, HubTypeOK, Held, Members
  <2>5. ASSUME NEW m \in moving, SwitchEnter(m) PROVE Held' \subseteq Held
    <3>1. moving' = {} /\ rooms' = Entered(m.client, m.to) /\ m.client \in Held
      BY <2>5 DEF SwitchEnter, Held
    <3>2. \A c \in Client, r \in Room : c \in rooms'[r] => c \in rooms[r] \/ c = m.client
      BY <1>1, <3>1 DEF Entered, HubTypeOK
    <3> QED
      BY <3>1, <3>2 DEF Held, Members
  <2>6. (\E c \in Client : UnregisterKicked(c)) \/ SwitchIgnored \/ Emit => UNCHANGED <<rooms, moving>>
    BY DEF UnregisterKicked, SwitchIgnored, Emit, netVars, loopVars
  <2> QED
    BY <2>1, <2>2, <2>3, <2>4, <2>5, <2>6
<1>6. \A c \in Client : Blank(c)'
  <2>1. \A c \in Client : phase'[c] \in {phase[c], "gone"}
    BY <1>1 DEF HubTypeOK, UnregisterMember, UnregisterKicked, SwitchIgnored, SwitchLeave, Emit,
                SwitchEnter, netVars
  <2> QED
    BY <1>2, <2>1 DEF ViewInv, Blank
<1>7. \A u \in User : Prompt(u)'
  BY <1>2, <1>3, Moved DEF ViewInv
<1>8. \A c \in Held', u \in User : Following(c, u)' /\ Informed(c, u)'
  BY <1>2, <1>3, <1>4, <1>5, Moved DEF ViewInv
<1> QED
  BY <1>6, <1>7, <1>8 DEF ViewInv

\* A command is turned into sends: whoever is held is a member now.
LEMMA CommandViews ==
  ASSUME SystemInv, Places, ViewInv, UNCHANGED <<routerVars, view>>, HandleOut
  PROVE  ViewInv'
<1> DEFINE h == Head(out)
<1>1. /\ HubTypeOK
      /\ out \in Seq(Outbound) /\ out # <<>> /\ out' = Tail(out)
      /\ moving = {} /\ moving' = {} /\ dlv = {} /\ emit = <<>>
      /\ UNCHANGED <<online, inCall, roomOf, rout, send, view, rooms, phase, events, emit>>
  BY Sides DEF HandleOut, HubTypeOK, Idle, netVars, routerVars
<1>2. h \in Outbound /\ Items(out) = {h} \cup Items(out')
  BY <1>1, ItemsTail
<1>3. PICK to \in Recipients(h) : dlv' = {[client |-> c, data |-> h.data] : c \in to}
  BY DEF HandleOut
<1>4. \A u \in User : Right(u)' = Right(u)
  BY <1>1 DEF Right, News
<1>5. \A A, B, G : Covered(out, A, B, G) =>
         /\ Covered(out', A, B, G)
         /\ h \in A => h \in G \/ \E x \in Items(out') : x \in B
  BY <1>1, CoveredTail
<1>6. Held' = Members /\ Held = Members /\ Members \subseteq Client
  BY <1>1 DEF Held, Members
<1> HIDE DEF h
<1>7. ASSUME NEW u \in User PROVE Prompt(u)'
  <2>1. Prompt(u)
    BY DEF ViewInv
  <2>2. (\E o \in Items(rout) : o \in Broadcasts(u)) \/ Covered(out', Carry(News(u)), Broadcasts(u), Carry(Right(u)))
    BY <1>5, <2>1 DEF Prompt
  <2>3. ASSUME NEW p \in dlv', p.data \in News(u)
        PROVE  p.data \in Right(u) \/ Coming(u)'
    <3>1. h \in Carry(News(u)) /\ p.data = h.data
      BY <1>2, <1>3, <2>3 DEF Carry
    <3>2. \/ \E o \in Items(rout) : o \in Broadcasts(u)
          \/ h \in Carry(Right(u))
          \/ \E o \in Items(out') : o \in Broadcasts(u)
      BY <1>5, <2>1, <3>1 DEF Prompt
    <3> QED
      BY <1>1, <3>1, <3>2 DEF Coming, Carry, Broadcasts, News
  <2> QED
    BY <1>1, <1>4, <2>1, <2>2, <2>3 DEF Prompt, Carry, Broadcasts, News
<1>8. ASSUME NEW c \in Members, NEW u \in User, c \in to, h \in Carry(News(u))
      PROVE  Handed(c, u)'
  <2>1. [client |-> c, data |-> h.data] \in dlv' /\ h.data \in News(u)
    BY <1>3, <1>8 DEF Carry
  <2> QED
    BY <2>1 DEF Handed, News
<1>9. ASSUME NEW c \in Members, NEW u \in User, h \in Broadcasts(u)
      PROVE  Handed(c, u)'
  <2>1. h.all /\ h \in Carry(News(u))
    BY <1>9 DEF Broadcasts
  <2>2. to = Members
    BY <1>3, <2>1 DEF Recipients, Matching
  <2> QED
    BY <1>8, <2>1, <2>2
<1>10. ASSUME NEW c \in Members, NEW u \in User PROVE Coming(u) => Coming(u)' \/ Handed(c, u)'
  BY <1>1, <1>2, <1>9 DEF Coming, Broadcasts, Carry, News
<1>11. ASSUME NEW c \in Members, NEW u \in User, NEW r \in Room, c \in rooms[r], Welcome(c, r, u)
       PROVE  Welcome(c, r, u)' \/ Handed(c, u)'
  <2>1. CASE /\ h \in Carry(News(u)) /\ ~h.all /\ h.room = r /\ h.id = Id[c]
    <3>1. Id[c] # None /\ r # None
      BY <1>6
    <3>2. Matching(h) = {d \in rooms[r] : Id[d] = Id[c]}
      BY <2>1, <3>1 DEF Matching
    <3>3. Matching(h) = {c}
      BY <1>11, <3>2 DEF Places
    <3>4. to = {c}
      BY <1>3, <2>1, <3>1, <3>3 DEF Recipients
    <3> QED
      BY <1>8, <2>1, <3>4
  <2>2. CASE ~(h \in Carry(News(u)) /\ ~h.all /\ h.room = r /\ h.id = Id[c])
    BY <1>1, <1>2, <1>11, <2>2 DEF Welcome, Carry, News
  <2> QED
    BY <2>1, <2>2
<1>12. ASSUME NEW c \in Members, NEW u \in User PROVE Following(c, u)' /\ Informed(c, u)'
  <2>1. Following(c, u) /\ Informed(c, u) /\ ~Handed(c, u) /\ c \in Client
    BY <1>1, <1>6 DEF ViewInv, Handed
  <2>2. Following(c, u)'
    BY <1>1, <1>4, <1>10, <2>1 DEF Following, News
  <2>3. Queued(c, u)' <=> Queued(c, u)
    BY <1>1 DEF Queued, News
  <2>4. PICK r \in Room : c \in rooms[r]
    BY DEF Members
  <2>5. \A q \in Room : c \in rooms[q] => q = r
    BY <2>4 DEF Places
  <2>6. Informed(c, u)'
    <3>1. CASE view[c][u] \in Right(u) \/ Coming(u) \/ Queued(c, u)
      BY <1>1, <1>4, <1>10, <2>3, <3>1 DEF Informed
    <3>2. CASE u \in online /\ Welcome(c, r, u)
      BY <1>1, <1>11, <2>4, <2>5, <3>2 DEF Informed
    <3> QED
      BY <2>1, <2>4, <3>1, <3>2 DEF Informed
  <2> QED
    BY <2>2, <2>6
<1>13. \A c \in Client : Blank(c)'
  BY <1>1 DEF ViewInv, Blank
<1> QED
  BY <1>6, <1>7, <1>12, <1>13 DEF ViewInv

\* A message is queued for a connection.
LEMMA DeliverViews ==
  ASSUME SystemInv, Places, ViewInv, UNCHANGED <<routerVars, view>>,
         \A q \in dlv : q.client \in Members,
         NEW p \in dlv, Deliver(p)
  PROVE  ViewInv'
<1>1. /\ HubTypeOK /\ Held' = Held /\ Held \subseteq Client
      /\ UNCHANGED <<online, inCall, roomOf, rout, out, view, rooms, phase, events, emit>>
      /\ p.client \in Client /\ p.client \in Members /\ p.data \in Data
      /\ dlv' = dlv \ {p}
  BY Sides DEF Deliver, HubTypeOK, chanVars, routerVars, Held, Members
<1>2. /\ send[p.client] \in Seq(Data)
      /\ send' = [send EXCEPT ![p.client] = Append(send[p.client], p.data)]
  BY <1>1 DEF Deliver, HubTypeOK
<1>3. /\ send'[p.client] = Append(send[p.client], p.data)
      /\ \A c \in Client : c # p.client => send'[c] = send[c]
      /\ Items(send'[p.client]) = Items(send[p.client]) \cup {p.data}
  BY <1>1, <1>2, ItemsAppend DEF HubTypeOK
<1>4. \A u \in User : Right(u)' = Right(u) /\ (Coming(u)' <=> Coming(u))
  BY <1>1 DEF Right, News, Coming, Broadcasts, Carry
<1>5. \A u \in User : Prompt(u)'
  BY <1>1, <1>4 DEF ViewInv, Prompt, Carry, Broadcasts, News
<1>6. ASSUME NEW c \in Held, NEW u \in User PROVE Following(c, u)' /\ Informed(c, u)'
  <2>1. Following(c, u) /\ Informed(c, u) /\ Prompt(u) /\ c \in Client
    BY <1>1 DEF ViewInv
  <2>2. CASE c = p.client /\ p.data \in News(u)
    <3>1. Queued(c, u)'
      BY <1>3, <2>2 DEF Queued, News
    <3>2. p.data \in Right(u) \/ Coming(u)
      BY <2>1, <2>2 DEF Prompt
    <3>3. p.data \in Right(u) => Covered(send'[c], News(u), News(u), Right(u))
      BY <1>1, <1>2, <1>3, <2>2, CoveredAppend
    <3>4. Following(c, u)'
      BY <1>4, <3>2, <3>3 DEF Following, News
    <3> QED
      BY <3>1, <3>4 DEF Informed
  <2>3. CASE ~(c = p.client /\ p.data \in News(u))
    <3>1. Handed(c, u)' <=> Handed(c, u)
      BY <1>1, <2>3 DEF Handed, News
    <3>2. Queued(c, u) => Queued(c, u)'
      BY <1>3, <2>1 DEF Queued, News
    <3>3. Covered(send[c], News(u), News(u), Right(u)) => Covered(send'[c], News(u), News(u), Right(u))
      <4>1. CASE c = p.client
        BY <1>1, <1>2, <1>3, <2>3, <4>1, CoveredAppend
      <4>2. CASE c # p.client
        BY <1>3, <2>1, <4>2
      <4> QED
        BY <4>1, <4>2
    <3>4. Following(c, u)'
      BY <1>4, <2>1, <3>1, <3>3 DEF Following, News
    <3>5. \A r \in Room : Welcome(c, r, u) => Welcome(c, r, u)'
      BY <1>1 DEF Welcome, Carry, News
    <3>6. Informed(c, u)'
      BY <1>1, <1>4, <2>1, <3>1, <3>2, <3>5 DEF Informed
    <3> QED
      BY <3>4, <3>6
  <2> QED
    BY <2>2, <2>3
<1>7. \A c \in Client : Blank(c)'
  <2>1. phase[p.client] \notin {"fresh", "registering"}
    BY <1>1 DEF Places, Members
  <2> QED
    BY <1>1, <1>3, <2>1 DEF ViewInv, Blank
<1> QED
  BY <1>1, <1>5, <1>6, <1>7 DEF ViewInv

\* A message is written to a socket.
LEMMA WriteViews ==
  ASSUME SystemInv, Places, ViewInv, UNCHANGED routerVars, NEW k \in Client, Write(k)
  PROVE  ViewInv'
<1> DEFINE d == Head(send[k])
<1>1. /\ HubTypeOK /\ Held' = Held /\ Held \subseteq Client
      /\ UNCHANGED <<online, inCall, roomOf, rout, out, rooms, phase, events, emit, dlv>>
      /\ view \in [Client -> [User -> PresenceMsg]]
  BY Sides DEF Write, WriteOk, TakeSend, HubTypeOK, chanVars, loopVars, routerVars, Held, Members
<1>2. /\ send[k] \in Seq(ServerMsg) /\ send[k] # <<>>
      /\ send'[k] = Tail(send[k])
      /\ \A c \in Client : c # k => send'[c] = send[c]
  BY <1>1 DEF Write, WriteOk, TakeSend, HubTypeOK
<1>3. d \in ServerMsg /\ Items(send[k]) = {d} \cup Items(send'[k])
  BY <1>2, ItemsTail
<1>4. \A A, B, G : Covered(send[k], A, B, G) =>
         /\ Covered(send'[k], A, B, G)
         /\ d \in A => d \in G \/ \E x \in Items(send'[k]) : x \in B
  BY <1>2, CoveredTail
<1>5. view' = IF d.type = "presence" THEN [view EXCEPT ![k][d.id] = d] ELSE view
  BY DEF Write
<1> HIDE DEF d
<1>6. \A u \in User : Right(u)' = Right(u) /\ (Coming(u)' <=> Coming(u))
  BY <1>1 DEF Right, News, Coming, Broadcasts, Carry
<1>6a. \A c \in Client, u \in User : Handed(c, u)' <=> Handed(c, u)
  BY <1>1 DEF Handed, News
<1>6b. \A c \in Client, u \in User, r \in Room : Welcome(c, r, u)' <=> Welcome(c, r, u)
  BY <1>1 DEF Welcome, Carry, News
<1>7. ASSUME NEW u \in User PROVE Prompt(u)'
  <2>1. Prompt(u)
    BY DEF ViewInv
  <2> QED
    BY <1>1, <1>6, <2>1 DEF Prompt, Carry, Broadcasts, News
<1>8. \A u \in User : d \in News(u) <=> d.type = "presence" /\ d.id = u
  BY <1>3 DEF News, ServerMsg, PresenceMsg
<1>9. /\ \A c \in Client : c # k => view'[c] = view[c]
      /\ \A u \in User : view'[k][u] = IF d \in News(u) THEN d ELSE view[k][u]
  <2>1. d.type = "presence" => d.id \in User
    BY <1>3 DEF ServerMsg, PresenceMsg
  <2> QED
    BY <1>1, <1>5, <1>8, <2>1
<1>10. ASSUME NEW c \in Held, NEW u \in User PROVE Following(c, u)' /\ Informed(c, u)'
  <2>1. Following(c, u) /\ Informed(c, u) /\ c \in Client
    BY <1>1 DEF ViewInv
  <2>2. Following(c, u)'
    <3>1. Covered(send[c], News(u), News(u), Right(u)) => Covered(send'[c], News(u), News(u), Right(u))
      BY <1>2, <1>4, <2>1
    <3> QED
      BY <1>6, <1>6a, <2>1, <3>1 DEF Following, News
  <2>3. Informed(c, u)'
    <3>1. CASE c = k /\ d \in News(u)
      <4>1. \/ Coming(u) \/ Handed(c, u) \/ d \in Right(u)
            \/ \E x \in Items(send'[k]) : x \in News(u)
        BY <1>4, <2>1, <3>1 DEF Following
      <4>2. view'[c][u] = d
        BY <1>9, <3>1
      <4> QED
        BY <1>6, <1>6a, <2>1, <3>1, <4>1, <4>2 DEF Informed, Queued, News
    <3>2. CASE ~(c = k /\ d \in News(u))
      <4>1. view'[c][u] = view[c][u]
        BY <1>9, <2>1, <3>2
      <4>2. Queued(c, u) => Queued(c, u)'
        BY <1>2, <1>3, <2>1, <3>2 DEF Queued, News
      <4> QED
        BY <1>1, <1>6, <1>6a, <1>6b, <2>1, <4>1, <4>2 DEF Informed
    <3> QED
      BY <3>1, <3>2
  <2> QED
    BY <2>2, <2>3
<1>11. \A c \in Client : Blank(c)'
  BY <1>1, <1>2, <1>9 DEF ViewInv, Blank, Write, WriteOk, Writing
<1> QED
  BY <1>1, <1>7, <1>10, <1>11 DEF ViewInv

\* The router hands a command to the hub.
LEMMA SendViews ==
  ASSUME SystemInv, Places, ViewInv, UNCHANGED view, RouterSend
  PROVE  ViewInv'
<1> DEFINE h == Head(rout)
<1>1. /\ HubTypeOK /\ Held' = Held /\ Held \subseteq Client
      /\ UNCHANGED <<online, inCall, roomOf, rooms, phase, events, emit, dlv, send>>
      /\ rout \in Seq(Outbound) /\ rout # <<>> /\ rout' = Tail(rout) /\ out \in Seq(Outbound)
  BY Sides DEF RouterSend, PutOut, HubTypeOK, RouterSide, netVars, loopVars, Held, Members
<1>2. h \in Outbound /\ Items(rout) = {h} \cup Items(rout') /\ out' = Append(out, h)
  BY <1>1, ItemsTail DEF RouterSend, PutOut
<1>3. Items(out') = Items(out) \cup {h}
  BY <1>1, <1>2, ItemsAppend
<1> HIDE DEF h
<1>4. Items(out') \cup Items(rout') = Items(out) \cup Items(rout)
  BY <1>2, <1>3
<1>5. \A u \in User : Right(u)' = Right(u) /\ (Coming(u)' <=> Coming(u))
  BY <1>1, <1>4 DEF Right, News, Coming, Broadcasts, Carry
<1>5a. \A c \in Client, u \in User : (Handed(c, u)' <=> Handed(c, u)) /\ (Queued(c, u)' <=> Queued(c, u))
  BY <1>1 DEF Handed, Queued, News
<1>5b. \A c \in Client, u \in User, r \in Room : Welcome(c, r, u)' <=> Welcome(c, r, u)
  BY <1>1, <1>4 DEF Welcome, Carry, News
<1>6. ASSUME NEW u \in User PROVE Prompt(u)'
  <2>1. Prompt(u)
    BY DEF ViewInv
  <2>2. h \in Carry(News(u)) => h \in Carry(Right(u))
    BY <1>2, <2>1 DEF Prompt
  <2>3. \/ \E o \in Items(rout') : o \in Broadcasts(u)
        \/ h \in Broadcasts(u)
        \/ Covered(out, Carry(News(u)), Broadcasts(u), Carry(Right(u)))
    BY <1>2, <2>1 DEF Prompt
  <2>4. \/ \E o \in Items(rout') : o \in Broadcasts(u)
        \/ Covered(out', Carry(News(u)), Broadcasts(u), Carry(Right(u)))
    BY <1>1, <1>2, <2>2, <2>3, CoveredAppend
  <2> QED
    BY <1>1, <1>2, <1>5, <2>1, <2>4 DEF Prompt, Carry, Broadcasts, News
<1>7. ASSUME NEW c \in Held, NEW u \in User PROVE Following(c, u)' /\ Informed(c, u)'
  <2>1. Following(c, u) /\ Informed(c, u) /\ c \in Client
    BY <1>1 DEF ViewInv
  <2>2. Following(c, u)'
    BY <1>1, <1>5, <1>5a, <2>1 DEF Following, News
  <2>3. Informed(c, u)'
    BY <1>1, <1>5, <1>5a, <1>5b, <2>1 DEF Informed
  <2> QED
    BY <2>2, <2>3
<1>8. \A c \in Client : Blank(c)'
  BY <1>1 DEF ViewInv, Blank
<1> QED
  BY <1>1, <1>6, <1>7, <1>8 DEF ViewInv

\* What a handler does to presence: of a user whose presence changes it tells all;
\* everything it says of presence is so; a newcomer is sent what is known of those
\* who are online.
LEMMA EventTells ==
  ASSUME SystemInv, HandleEvent, NEW u \in User
  PROVE  \/ \E o \in Items(rout') : o \in Broadcasts(u)
         \/ (u \in online' <=> u \in online) /\ Right(u)' = Right(u)
<1> DEFINE e == Head(events)
           p == Presence(e.id, online', inCall', roomOf')
<1>1. /\ e \in Event /\ e.id \in User /\ RouterSide /\ RouterSide'
      /\ e.kind = "joined" => e.room \in Room
  BY FirstEvent, Sides, EventTypes DEF HandleEvent, TakeEvent
<1>2. p \in News(e.id) /\ ToAll(p) \in Outbound
  <2>1. p \in PresenceMsg /\ p.id = e.id
    BY <1>1, Messages DEF RouterSide, Presence
  <2> HIDE DEF p
  <2> QED
    BY <2>1, Messages, Commands DEF News
<1> HIDE DEF p
<1>3. ToAll(p) \in Broadcasts(e.id)
  BY <1>2 DEF Broadcasts, Carry, ToAll
<1>4. CASE HandleJoined(e)
  <2>1. CASE u = e.id /\ u \in online
    <3>1. ToAll(p) \in Items(rout')
      BY <1>1, <1>4, <2>1, Joined DEF HandleJoined, p
    <3> QED
      BY <1>3, <2>1, <3>1
  <2>2. CASE u \notin online
    BY <1>4, <2>2 DEF HandleJoined, Right, News
  <2>3. CASE u # e.id
    BY <1>1, <1>4, <2>3 DEF HandleJoined, Right, News, Presence, RouterSide
  <2> QED
    BY <2>1, <2>2, <2>3
<1>5. CASE HandleLeft(e)
  BY <1>5 DEF HandleLeft, Right, News
<1>6. CASE HandleOnline(e)
  <2>1. CASE u = e.id
    <3>1. Items(rout') = {ToAll(p)}
      BY <1>6, ItemsEmpty DEF HandleOnline, p
    <3> QED
      BY <1>3, <2>1, <3>1
  <2>2. CASE u # e.id
    <3>1. u \in online' <=> u \in online
      BY <1>6, <2>2 DEF HandleOnline
    <3> QED
      BY <1>6, <3>1 DEF HandleOnline, Right, News, Presence
  <2> QED
    BY <2>1, <2>2
<1>7. CASE HandleOffline(e)
  <2>1. CASE u = e.id
    <3>1. Items(rout') = {ToAll(p)}
      BY <1>7, ItemsEmpty DEF HandleOffline, p
    <3> QED
      BY <1>3, <2>1, <3>1
  <2>2. CASE u # e.id
    <3>1. /\ u \in online' <=> u \in online
          /\ u \in inCall' <=> u \in inCall
          /\ roomOf'[u] = roomOf[u]
      BY <1>1, <1>7, <2>2 DEF HandleOffline, RouterSide
    <3> QED
      BY <3>1 DEF Right, News, Presence
  <2> QED
    BY <2>1, <2>2
<1> QED
  BY <1>4, <1>5, <1>6, <1>7 DEF HandleEvent

LEMMA MessageTells ==
  ASSUME SystemInv, HandleMessage, NEW u \in User
  PROVE  \/ \E o \in Items(rout') : o \in Broadcasts(u)
         \/ (u \in online' <=> u \in online) /\ Right(u)' = Right(u)
<1> DEFINE in == Head(incoming)
           p == Presence(in.id, online', inCall', roomOf')
<1>1. in.id \in User /\ RouterSide /\ RouterSide'
  BY FirstMessage, Sides, MessageTypes DEF HandleMessage
<1>2. CASE HandleCallStatus(in)
  <2>1. p \in News(in.id) /\ ToAll(p) \in Outbound
    <3>1. p \in PresenceMsg /\ p.id = in.id
      BY <1>1, Messages DEF RouterSide, Presence
    <3> HIDE DEF p
    <3> QED
      BY <3>1, Messages, Commands DEF News
  <2> HIDE DEF p
  <2>2. ToAll(p) \in Broadcasts(in.id)
    BY <2>1 DEF Broadcasts, Carry, ToAll
  <2>3. CASE u = in.id
    <3>1. Items(rout') = {ToAll(p)}
      BY <1>2, ItemsEmpty DEF HandleCallStatus, p
    <3> QED
      BY <2>2, <2>3, <3>1
  <2>4. CASE u # in.id
    <3>1. /\ online' = online /\ roomOf' = roomOf
          /\ u \in inCall' <=> u \in inCall
      BY <1>2, <2>4 DEF HandleCallStatus
    <3> QED
      BY <3>1 DEF Right, News, Presence
  <2> QED
    BY <2>3, <2>4
<1>3. CASE UNCHANGED <<online, inCall, roomOf>>
  BY <1>3 DEF Right, News
<1> QED
  BY <1>2, <1>3 DEF HandleMessage, HandleAvatar, HandleSwitchRoom, HandleChat, HandleSignal,
                    HandleCall, HandleObject, HandleEdit

\* A newcomer's snapshot replaces the event that announced it.
LEMMA EventWelcomes ==
  ASSUME SystemInv, HandleEvent, NEW u \in online, u \in User, u \in online',
         NEW c \in Client, NEW r \in Room, Welcome(c, r, u)
  PROVE  Welcome(c, r, u)'
<1> DEFINE e == Head(events)
<1>1. /\ HubTypeOK /\ RouterSide /\ RouterSide' /\ e \in Event /\ e.id \in User
      /\ e.kind = "joined" => e.room \in Room
  BY FirstEvent, Sides, EventTypes DEF HandleEvent, TakeEvent
<1>2. /\ Items(events) = {e} \cup Items(events') /\ Items(rout) = {}
      /\ UNCHANGED <<emit, out>>
  BY <1>1, ItemsTail, ItemsEmpty DEF HandleEvent, TakeEvent, HubTypeOK, Ready, loopVars
<1> HIDE DEF e
<1>3. CASE e = Ev("joined", Id[c], r)
  <2> DEFINE p == Presence(u, online', inCall', roomOf')
  <2>1. e.kind = "joined" /\ e.id = Id[c] /\ e.room = r
    BY <1>3 DEF Ev
  <2>2. HandleJoined(e)
    BY <2>1 DEF HandleEvent, e, HandleJoined, HandleLeft, HandleOnline, HandleOffline
  <2>3. online' = online /\ inCall' = inCall
    BY <2>2 DEF HandleJoined
  <2>4. ToOne(r, Id[c], p) \in Items(rout')
    BY <1>1, <2>1, <2>2, <2>3, Joined
  <2>5. p \in News(u) /\ ToOne(r, Id[c], p) \in Outbound
    <3>1. p \in PresenceMsg /\ p.id = u
      BY <1>1, Messages DEF RouterSide, Presence
    <3> HIDE DEF p
    <3> QED
      BY <1>1, <2>1, <3>1, Messages, Commands DEF News
  <2> HIDE DEF p
  <2> QED
    BY <2>4, <2>5 DEF Welcome, Carry, ToOne, News
<1>4. CASE e # Ev("joined", Id[c], r)
  BY <1>2, <1>4 DEF Welcome, Carry, News
<1> QED
  BY <1>3, <1>4

\* The router takes an event or a message.
LEMMA HandlerViews ==
  ASSUME SystemInv, Places, ViewInv, UNCHANGED view, HandleEvent \/ HandleMessage
  PROVE  ViewInv'
<1>1. /\ HubTypeOK /\ Held' = Held /\ Held \subseteq Client
      /\ UNCHANGED <<rooms, phase, out, dlv, send, emit>>
      /\ Items(rout) = {}
  BY Sides, ItemsEmpty DEF HandleEvent, TakeEvent, HandleMessage, hubVars, netVars, loopVars, HubTypeOK,
                           Held, Members, Ready
<1>2. ASSUME NEW u \in User
      PROVE  \/ \E o \in Items(rout') : o \in Broadcasts(u)
             \/ (u \in online' <=> u \in online) /\ Right(u)' = Right(u)
  BY EventTells, MessageTells
<1>3. ASSUME NEW u \in User
      PROVE  \A o \in Items(rout') : o \in Carry(News(u)) => o \in Carry(Right(u)')
  <2> SUFFICES ASSUME NEW o \in Items(rout'), o \in Carry(News(u))
               PROVE  o.data \in Right(u)'
    BY DEF Carry
  <2>1. o.data \in News(u) /\ o.data.type = "presence" /\ o.data.id = u
    BY DEF Carry, News, PresenceMsg
  <2>2. Answer(o)'
    BY EventSays, MessageSays
  <2>3. PICK v \in User : o.data = Presence(v, online', inCall', roomOf')
    BY <2>1, <2>2 DEF Answer
  <2>4. v = u /\ o.data.online = (u \in online')
    BY <2>1, <2>3 DEF Presence
  <2> QED
    BY <2>1, <2>3, <2>4 DEF Right, News
<1>4. ASSUME NEW u \in User, Coming(u) PROVE Coming(u)'
  BY <1>1, <1>4 DEF Coming, Broadcasts, Carry, News
<1>5. ASSUME NEW u \in User, \E o \in Items(rout') : o \in Broadcasts(u) PROVE Coming(u)'
  BY <1>5 DEF Coming, Broadcasts, Carry, News
<1>6. ASSUME NEW u \in User PROVE Prompt(u)'
  <2>1. Prompt(u)
    BY DEF ViewInv
  <2>2. \/ \E o \in Items(rout') : o \in Broadcasts(u)
        \/ Covered(out', Carry(News(u)), Broadcasts(u), Carry(Right(u)'))
    BY <1>1, <1>2, <2>1 DEF Prompt
  <2>3. \A p \in dlv' : p.data \in News(u) => p.data \in Right(u)' \/ Coming(u)'
    BY <1>1, <1>2, <1>4, <1>5, <2>1 DEF Prompt
  <2> QED
    BY <1>3, <2>2, <2>3 DEF Prompt, Carry, Broadcasts, News
<1>7. ASSUME NEW c \in Held, NEW u \in User PROVE Following(c, u)' /\ Informed(c, u)'
  <2>1. Following(c, u) /\ Informed(c, u) /\ c \in Client
    BY <1>1 DEF ViewInv
  <2>2. CASE \E o \in Items(rout') : o \in Broadcasts(u)
    BY <1>5, <2>2 DEF Following, Informed
  <2>3. CASE (u \in online' <=> u \in online) /\ Right(u)' = Right(u)
    <3>1. (Handed(c, u)' <=> Handed(c, u)) /\ (Queued(c, u)' <=> Queued(c, u))
      BY <1>1 DEF Handed, Queued, News
    <3>2. Following(c, u)'
      BY <1>1, <1>4, <2>1, <2>3, <3>1 DEF Following, News
    <3>3. ASSUME u \in online, NEW r \in Room, Welcome(c, r, u) PROVE Welcome(c, r, u)'
      <4>1. CASE HandleEvent
        BY <2>1, <2>3, <3>3, <4>1, EventWelcomes
      <4>2. CASE HandleMessage
        BY <1>1, <3>3, <4>2 DEF Welcome, Carry, News, HandleMessage, hubVars
      <4> QED
        BY <4>1, <4>2
    <3>4. Informed(c, u)'
      BY <1>1, <1>4, <2>1, <2>3, <3>1, <3>3 DEF Informed
    <3> QED
      BY <3>2, <3>4
  <2> QED
    BY <1>2, <2>2, <2>3
<1>8. \A c \in Client : Blank(c)'
  BY <1>1 DEF ViewInv, Blank
<1> QED
  BY <1>1, <1>6, <1>7, <1>8 DEF ViewInv

\* Steps that say nothing and move nobody.
LEMMA OtherViews ==
  ASSUME SystemInv, ViewInv,
         UNCHANGED <<online, inCall, roomOf, out, rout, dlv, send, view, rooms, moving, events, emit>>,
         \A c \in Client : phase'[c] \in {"fresh", "registering"} => phase[c] \in {"fresh", "registering"}
  PROVE  ViewInv'
<1>1. Held' = Held /\ Held \subseteq Client
  BY Sides DEF Held, Members, HubTypeOK
<1>2. \A u \in User : Prompt(u)'
  BY Moved DEF ViewInv
<1>3. \A c \in Held, u \in User : Following(c, u)' /\ Informed(c, u)'
  BY <1>1, Moved DEF ViewInv
<1>4. \A c \in Client : Blank(c)'
  BY DEF ViewInv, Blank
<1> QED
  BY <1>1, <1>2, <1>3, <1>4 DEF ViewInv

LEMMA ViewInit == Init => ViewInv
<1> SUFFICES ASSUME Init PROVE ViewInv
  OBVIOUS
<1>1. /\ \A r \in Room : rooms[r] = {}
      /\ moving = {} /\ dlv = {} /\ out = <<>> /\ rout = <<>>
      /\ \A c \in Client : send[c] = <<>> /\ view[c] = [u \in User |-> Absent(u)]
  BY DEF Init, RouterInit, ClientInit, HubInit
<1>2. Held = {}
  BY <1>1 DEF Held, Members
<1>3. \A u \in User : Prompt(u)
  BY <1>1, ItemsEmpty, CoveredEmpty DEF Prompt
<1> QED
  BY <1>1, <1>2, <1>3 DEF ViewInv, Blank

LEMMA ViewStep ==
  ASSUME SystemInv, H!HubInv, ViewInv, [Next]_systemVars
  PROVE  ViewInv'
<1>1. Places /\ HubTypeOK /\ \A q \in dlv : q.client \in Members
  BY HubPlaces, Sides DEF H!HubInv, H!OneJob, H!Members, Members
<1> DEFINE Still == /\ UNCHANGED <<online, inCall, roomOf, out, rout, dlv, send, view, rooms, moving,
                                    events, emit>>
                    /\ \A c \in Client : phase'[c] \in {"fresh", "registering"} =>
                                           phase[c] \in {"fresh", "registering"}
<1>2. CASE HubStep /\ UNCHANGED <<pumpVars, routerVars, view, seated, said>>
  BY <1>1, <1>2, RegisterViews, HubMoves, CommandViews, DeliverViews DEF HubStep
<1>3. CASE RouterNext /\ UNCHANGED <<view, said>>
  <2>1. CASE RouterSwitch /\ UNCHANGED seated
    <3>1. Still
      BY <1>3, <2>1 DEF RouterSwitch, SwitchRoom, netVars, loopVars
    <3> QED
      BY <3>1, OtherViews
  <2> QED
    BY <1>1, <1>3, <2>1, HandlerViews, SendViews DEF RouterNext
<1>4. ASSUME NEW c \in Client, Write(c) /\ UNCHANGED <<routerVars, seated, said>>
      PROVE  ViewInv'
  BY <1>1, <1>4, WriteViews
<1>5. ASSUME NEW c \in Client,
             \/ \E r \in Room : ServeWs(c, r) /\ UNCHANGED <<pumpVars, routerVars, view, seated, said>>
             \/ Say(c) /\ UNCHANGED <<routerVars, view, seated>>
             \/ Pump(c) /\ UNCHANGED <<routerVars, view, seated, said>>
      PROVE  Still
  BY <1>1, <1>5 DEF ServeWs, Say, Read, Pump, Push, ReadFail, Hangup, CloseConn, WriteClosed, hubVars,
                    chanVars, loopVars, routerVars, HubTypeOK
<1>6. CASE UNCHANGED systemVars
  <2>1. Still
    BY <1>6 DEF systemVars, allVars, clientVars, hubVars, routerVars
  <2> QED
    BY <2>1, OtherViews
<1>7. Still => ViewInv'
  BY OtherViews
<1> QED
  BY <1>2, <1>3, <1>4, <1>5, <1>6, <1>7 DEF Next

LEMMA AlwaysViews == Spec => []ViewInv
<1>1. SystemInv /\ H!HubInv /\ ViewInv /\ [Next]_systemVars => ViewInv'
  BY ViewStep
<1>2. H!Spec => []H!HubInv
  BY HubAssumptions, H!Safe
<1> QED
  BY <1>1, <1>2, ViewInit, AlwaysSystem, ServerImplementsHub, PTL DEF Spec

\* With nothing left on its way, what a member has been shown of a user is so.
LEMMA Shown ==
  ASSUME SystemInv, ViewInv, Settled, NEW c \in Members, NEW u \in User
  PROVE  view[c][u] \in Right(u)
<1>1. /\ c \in Held /\ c \in Client /\ \E r \in Room : c \in rooms[r]
      /\ rout = <<>> /\ out = <<>> /\ events = <<>> /\ emit = <<>> /\ dlv = {} /\ send[c] = <<>>
  BY DEF Held, Members, Settled, Idle, Ready
<1>2. ~Coming(u) /\ ~Handed(c, u) /\ ~Queued(c, u) /\ \A r \in Room : ~Welcome(c, r, u)
  BY <1>1, ItemsEmpty DEF Coming, Handed, Queued, Welcome
<1> QED
  BY <1>1, <1>2 DEF ViewInv, Informed

\* Every member sees the presence of every online user as the router has it.
THEOREM ViewsAreRight == Spec => []ViewsAgree
<1>1. SystemInv /\ ViewInv => ViewsAgree
  BY Shown DEF ViewsAgree, Right
<1> QED
  BY <1>1, AlwaysSystem, AlwaysViews, PTL

\* ... and sees nobody online who is not.
THEOREM NoneLinger == Spec => []NobodyLingers
<1>1. SystemInv /\ ViewInv => NobodyLingers
  BY Shown DEF NobodyLingers, Right
<1> QED
  BY <1>1, AlwaysSystem, AlwaysViews, PTL
============================================================================
