---------------------------- MODULE OfficeProofs ----------------------------
(***************************************************************************)
(* The hub implements Office, and its events tell the truth, for every     *)
(* number of connections, users and rooms and every capacity of the        *)
(* channels.                                                               *)
(***************************************************************************)
EXTENDS HubProofs, SequenceTheorems

----------------------------------------------------------------------------
(* Sequences of events. *)

\* An event that goes from emit into events stays where it is in Pending.
LEMMA PassOn ==
  ASSUME NEW s \in Seq(Event), NEW t \in Seq(Event), t # <<>>
  PROVE  Append(s, Head(t)) \o Tail(t) = s \o t
<1>1. Head(t) \in Event /\ Tail(t) \in Seq(Event) /\ <<Head(t)>> \in Seq(Event)
  BY HeadTailProperties
<1>2. <<Head(t)>> \o Tail(t) = t
  OBVIOUS
<1>3. Append(s, Head(t)) = s \o <<Head(t)>>
  BY <1>1, AppendIsConcat
<1>4. (s \o <<Head(t)>>) \o Tail(t) = s \o (<<Head(t)>> \o Tail(t))
  BY <1>1, ConcatAssociative
<1>5. QED
  BY <1>2, <1>3, <1>4

\* The oldest event pending is that of events, if there is one.
LEMMA TakeFirst ==
  ASSUME NEW s \in Seq(Event), NEW t \in Seq(Event), s # <<>>
  PROVE  /\ s \o t # <<>>
         /\ Head(s \o t) = Head(s)
         /\ Tail(s \o t) = Tail(s) \o t
  OBVIOUS

\* What an iteration of the hub announces is added at the end.
LEMMA AddTwo ==
  ASSUME NEW s \in Seq(Event), NEW e \in Event, NEW f \in Event
  PROVE  /\ s \o <<e>> = Append(s, e)
         /\ s \o <<e, f>> = Append(Append(s, e), f)
         /\ Len(s \o <<e>>) > Len(s) /\ Len(s \o <<e, f>>) > Len(s)
  OBVIOUS

----------------------------------------------------------------------------
(* Who sits where. *)

LEMMA Places ==
  ASSUME rooms \in [Room -> SUBSET Client]
  PROVE  /\ \A s : s \in Seats <=> \E r \in Room : \E c \in rooms[r] : s = <<Id[c], r>>
         /\ \A u, r : <<u, r>> \in Seats <=> r \in Room /\ \E c \in rooms[r] : Id[c] = u
  BY DEF Seats

LEMMA Presence ==
  ASSUME rooms \in [Room -> SUBSET Client],
         moving \in SUBSET [client : Client, to : Room], NEW u
  PROVE  O!Present(u) <=> Connected(u)
<1>1. (\E r \in Room : <<u, r>> \in Seats) <=> UserOnline(rooms, u)
  BY Places DEF UserOnline
<1>2. (\E r \in Room : <<u, r>> \in Walking) <=> \E m \in moving : Id[m.client] = u
  BY DEF Walking
<1>3. QED
  BY <1>1, <1>2 DEF O!Present, Connected

LEMMA PresenceNext ==
  ASSUME rooms' \in [Room -> SUBSET Client],
         moving' \in SUBSET [client : Client, to : Room], NEW u
  PROVE  O!Present(u)' <=> Connected(u)'
<1>1. (\E r \in Room : <<u, r>> \in Seats') <=> \E r \in Room : \E c \in rooms'[r] : Id[c] = u
  BY DEF Seats
<1>2. (\E r \in Room : <<u, r>> \in Walking') <=> \E m \in moving' : Id[m.client] = u
  BY DEF Walking
<1>3. QED
  BY <1>1, <1>2 DEF O!Present, Connected, UserOnline

----------------------------------------------------------------------------
(* The refinement. *)

LEMMA OfficeInit == Init => O!Init
<1> SUFFICES ASSUME Init PROVE O!Init
  OBVIOUS
<1>1. rooms \in [Room -> SUBSET Client] /\ \A r \in Room : rooms[r] = {}
  BY DEF Init, HubInit
<1>2. Seats = {} /\ Walking = {}
  BY <1>1, Places DEF Walking, Init, HubInit
<1>3. Pending = <<>>
  BY DEF Pending, Init, HubInit
<1>4. QED
  BY <1>2, <1>3 DEF Init, O!Init

\* A connection that takes a place seats its user there; those it kicks are of the
\* same user.
LEMMA Seated ==
  ASSUME rooms \in [Room -> SUBSET Client], NEW c \in Client, NEW r \in Room,
         rooms' = Entered(c, r)
  PROVE  Seats' = Seats \cup {<<Id[c], r>>}
<1>1. rooms' \in [Room -> SUBSET Client]
  BY PlaceType
<1>2. \A s \in Room : rooms'[s] = IF s = r THEN (rooms[r] \ Stale(c, r)) \cup {c}
                                           ELSE rooms[s]
  BY DEF Entered
<1>3. \A d \in Stale(c, r) : Id[d] = Id[c]
  BY DEF Stale
<1>4. \A s : s \in Seats' <=> \E q \in Room : \E d \in rooms'[q] : s = <<Id[d], q>>
  BY <1>1 DEF Seats
<1>5. \A s : s \in Seats <=> \E q \in Room : \E d \in rooms[q] : s = <<Id[d], q>>
  BY Places
<1>6. ASSUME NEW s \in Seats'
      PROVE  s \in Seats \cup {<<Id[c], r>>}
  BY <1>2, <1>4, <1>5
<1>7. ASSUME NEW s \in Seats \cup {<<Id[c], r>>}
      PROVE  s \in Seats'
  <2>1. c \in rooms'[r]
    BY <1>2
  <2>2. CASE s = <<Id[c], r>>
    BY <2>1, <2>2, <1>4
  <2>3. CASE s \in Seats
    <3>a. PICK q \in Room : \E d \in rooms[q] : s = <<Id[d], q>>
      BY <2>3, <1>5
    <3>1. PICK d \in rooms[q] : s = <<Id[d], q>>
      BY <3>a
    <3>2. CASE d \in rooms'[q]
      BY <3>1, <3>2, <1>4
    <3>3. CASE d \notin rooms'[q]
      <4>1. q = r /\ d \in Stale(c, r)
        BY <3>1, <3>3, <1>2
      <4>2. s = <<Id[c], r>>
        BY <4>1, <3>1, <1>3
      <4>3. QED
        BY <4>2, <2>2
    <3>4. QED
      BY <3>2, <3>3
  <2>4. QED
    BY <2>2, <2>3
<1>8. QED
  BY <1>6, <1>7

\* A member taken out of its room frees the seat of its user, who has no other
\* connection in the room.
LEMMA Freed ==
  ASSUME rooms \in [Room -> SUBSET Client], WellPlaced,
         NEW c \in Client, NEW r \in Room, c \in rooms[r], rooms' = Removed(c, r)
  PROVE  Seats' = Seats \ {<<Id[c], r>>}
<1>1. rooms' \in [Room -> SUBSET Client]
  BY PlaceType
<1>2. \A s \in Room : rooms'[s] = IF s = r THEN rooms[r] \ {c} ELSE rooms[s]
  BY DEF Removed
<1>3. \A d \in rooms[r] : Id[d] = Id[c] => d = c
  BY DEF WellPlaced
<1>4. \A s : s \in Seats' <=> \E q \in Room : \E d \in rooms'[q] : s = <<Id[d], q>>
  BY <1>1 DEF Seats
<1>5. \A s : s \in Seats <=> \E q \in Room : \E d \in rooms[q] : s = <<Id[d], q>>
  BY Places
<1>6. ASSUME NEW s \in Seats'
      PROVE  s \in Seats \ {<<Id[c], r>>}
  <2>a. PICK q \in Room : \E d \in rooms'[q] : s = <<Id[d], q>>
    BY <1>4
  <2>1. PICK d \in rooms'[q] : s = <<Id[d], q>>
    BY <2>a
  <2>2. d \in rooms[q] /\ (q = r => d # c)
    BY <2>1, <1>2
  <2>3. s # <<Id[c], r>>
    BY <2>1, <2>2, <1>3
  <2>4. QED
    BY <2>1, <2>2, <2>3, <1>5
<1>7. ASSUME NEW s \in Seats, s # <<Id[c], r>>
      PROVE  s \in Seats'
  <2>a. PICK q \in Room : \E d \in rooms[q] : s = <<Id[d], q>>
    BY <1>5
  <2>1. PICK d \in rooms[q] : s = <<Id[d], q>>
    BY <2>a
  <2>2. d \in rooms'[q]
    BY <2>1, <1>2, <1>7
  <2>3. QED
    BY <2>1, <2>2, <1>4
<1>8. QED
  BY <1>6, <1>7

\* What the hub announces when an iteration begins follows what events hold.
LEMMA Announces ==
  ASSUME TypeOK, emit = <<>>, events' = events
  PROVE  Pending = events /\ Pending' = Pending \o emit'
<1>1. events \in Seq(Event)
  BY DEF TypeOK, HubTypeOK
<1>2. events \o <<>> = events
  BY <1>1, ConcatEmptySeq
<1>3. QED
  BY <1>2 DEF Pending

\* Steps that Office does not see.
LEMMA Unseen ==
  ASSUME UNCHANGED <<rooms, moving, told, seated>>, Pending' = Pending
  PROVE  UNCHANGED O!officeVars
  BY DEF O!officeVars, Seats, Walking

LEMMA OfficeStep ==
  ASSUME HubInv, [Next]_sysVars
  PROVE  [O!Next]_(O!officeVars)
<1>a. /\ phase \in [Client -> Phase] /\ room \in [Client -> Room]
      /\ rooms \in [Room -> SUBSET Client]
      /\ moving \in SUBSET [client : Client, to : Room]
      /\ events \in Seq(Event) /\ emit \in Seq(Event) /\ switchCh \in Seq(SwitchReq)
  BY DEF HubInv, TypeOK, HubTypeOK
<1>b. TypeOK /\ WellPlaced /\ OneJob
  BY DEF HubInv
<1>c. TypeOK'
  BY <1>b, TypeStep
<1>d. /\ rooms' \in [Room -> SUBSET Client]
      /\ moving' \in SUBSET [client : Client, to : Room]
  BY <1>c DEF TypeOK, HubTypeOK
<1> USE <1>a
<1>1. CASE UNCHANGED sysVars
  BY <1>1, Unseen DEF sysVars, hubVars, Pending
<1>2. ASSUME NEW c \in Client, Register(c), UNCHANGED <<told, seated>>
      PROVE  O!Next
  <2> DEFINE u == Id[c]
             r == room[c]
  <2>1. /\ u \in User /\ r \in Room /\ emit = <<>> /\ moving = {} /\ moving' = {}
        /\ rooms' = Entered(c, r) /\ events' = events
    BY <1>2, HubAssumption DEF HubAssumption, Register, Idle, chanVars
  <2>2. emit' = IF O!Present(u)
                  THEN <<O!About("joined", u, r)>>
                  ELSE <<O!About("joined", u, r), O!About("online", u, None)>>
    <3>1. O!Present(u) <=> UserOnline(rooms, u)
      BY <2>1, Presence DEF Connected
    <3>2. QED
      BY <1>2, <3>1 DEF Register, Ev, O!About
  <2>3. Pending' = Pending \o emit' /\ Pending \in Seq(Event)
    BY <1>b, <2>1, Announces
  <2>4. Len(Pending') > Len(Pending)
    <3>1. O!About("joined", u, r) \in Event /\ O!About("online", u, None) \in Event
      BY <2>1 DEF O!About, Event
    <3>2. QED
      BY <2>2, <2>3, <3>1, AddTwo
  <2>5. Seats' = Seats \cup {<<u, r>>}
    BY <2>1, Seated
  <2>6. Walking = {} /\ Walking' = {}
    BY <2>1 DEF Walking
  <2>7. O!Come(u, r)
    BY <1>2, <2>2, <2>3, <2>5, <2>6 DEF O!Come
  <2>8. QED
    BY <2>1, <2>4, <2>7 DEF O!Next
<1>3. ASSUME NEW c \in Client, UnregisterMember(c), UNCHANGED <<told, seated>>
      PROVE  O!Next
  <2> DEFINE u == Id[c]
             r == room[c]
  <2>1. /\ u \in User /\ r \in Room /\ emit = <<>> /\ moving = {} /\ moving' = {}
        /\ c \in rooms[r] /\ rooms' = Removed(c, r) /\ events' = events
    BY <1>3, HubAssumption DEF HubAssumption, UnregisterMember, Idle, chanVars
  <2>2. emit' = IF O!Present(u)'
                  THEN <<O!About("left", u, r)>>
                  ELSE <<O!About("left", u, r), O!About("offline", u, None)>>
    <3>1. O!Present(u)' <=> UserOnline(rooms', u)
      BY <1>d, <2>1, PresenceNext DEF UserOnline, Connected
    <3>2. QED
      BY <1>3, <2>1, <3>1 DEF UnregisterMember, Ev, O!About
  <2>3. Pending' = Pending \o emit' /\ Pending \in Seq(Event)
    BY <1>b, <2>1, Announces
  <2>4. Len(Pending') > Len(Pending)
    <3>1. O!About("left", u, r) \in Event /\ O!About("offline", u, None) \in Event
      BY <2>1 DEF O!About, Event
    <3>2. QED
      BY <2>2, <2>3, <3>1, AddTwo
  <2>5. Seats' = Seats \ {<<u, r>>} /\ <<u, r>> \in Seats
    BY <1>b, <2>1, Freed, Places
  <2>6. Walking = {} /\ Walking' = {}
    BY <2>1 DEF Walking
  <2>7. O!Go(u, r)
    BY <1>3, <2>2, <2>3, <2>5, <2>6 DEF O!Go
  <2>8. QED
    BY <2>1, <2>4, <2>7 DEF O!Next
<1>4. ASSUME NEW c \in Client, UnregisterKicked(c), UNCHANGED <<told, seated>>
      PROVE  UNCHANGED O!officeVars
  BY <1>4, Unseen DEF UnregisterKicked, chanVars, loopVars, Pending
<1>5. CASE HandleOut /\ UNCHANGED <<told, seated>>
  BY <1>5, Unseen DEF HandleOut, netVars, Pending
<1>6. CASE SwitchIgnored /\ UNCHANGED <<told, seated>>
  BY <1>6, Unseen DEF SwitchIgnored, netVars, loopVars, Pending
<1>7. CASE SwitchLeave /\ UNCHANGED <<told, seated>>
  <2> DEFINE req == Head(switchCh)
  <2>1. /\ req.room \in Room /\ req.id \in User /\ req.newRoom \in Room
        /\ req.newRoom # req.room
    <3>1. req \in SwitchReq
      BY <1>7 DEF SwitchLeave
    <3>2. QED
      BY <1>7, <3>1 DEF SwitchReq, SwitchLeave
  <2>2. PICK c \in Switching(req) :
          /\ rooms' = Removed(c, req.room)
          /\ moving' = {[client |-> c, to |-> req.newRoom]}
    BY <1>7 DEF SwitchLeave
  <2>3. c \in Client /\ c \in rooms[req.room] /\ Id[c] = req.id
    BY <2>1 DEF Switching
  <2>4. /\ emit = <<>> /\ moving = {} /\ events' = events
        /\ emit' = <<O!About("left", req.id, req.room)>>
    BY <1>7 DEF SwitchLeave, Idle, Ev, O!About
  <2>5. Pending' = Pending \o emit' /\ Pending \in Seq(Event)
    BY <1>b, <2>4, Announces
  <2>6. O!About("left", req.id, req.room) \in Event
    BY <2>1 DEF O!About, Event
  <2>7. /\ Pending' = Append(Pending, O!About("left", req.id, req.room))
        /\ Len(Pending') > Len(Pending)
    BY <2>4, <2>5, <2>6, AddTwo
  <2>8. Seats' = Seats \ {<<req.id, req.room>>} /\ <<req.id, req.room>> \in Seats
    <3>1. Seats' = Seats \ {<<Id[c], req.room>>}
      BY <1>b, <2>1, <2>2, <2>3, Freed
    <3>2. QED
      BY <2>1, <2>3, <3>1, Places
  <2>9. Walking = {} /\ Walking' = {<<req.id, req.newRoom>>}
    BY <2>2, <2>3, <2>4 DEF Walking
  <2>10. O!SetOut(req.id, req.room, req.newRoom)
    BY <1>7, <2>1, <2>7, <2>8, <2>9 DEF O!SetOut
  <2>11. QED
    BY <2>1, <2>7, <2>10 DEF O!Next
<1>8. ASSUME NEW m \in moving, SwitchEnter(m), UNCHANGED <<told, seated>>
      PROVE  O!Next
  <2> DEFINE u == Id[m.client]
             r == m.to
  <2>1. /\ m.client \in Client /\ r \in Room /\ u \in User /\ emit = <<>>
        /\ moving = {m} /\ moving' = {} /\ rooms' = Entered(m.client, r)
        /\ events' = events /\ emit' = <<O!About("joined", u, r)>>
    BY <1>8, HubAssumption DEF HubAssumption, SwitchEnter, chanVars, Ev, O!About
  <2>2. Pending' = Pending \o emit' /\ Pending \in Seq(Event)
    BY <1>b, <2>1, Announces
  <2>3. O!About("joined", u, r) \in Event
    BY <2>1 DEF O!About, Event
  <2>4. /\ Pending' = Append(Pending, O!About("joined", u, r))
        /\ Len(Pending') > Len(Pending)
    BY <2>1, <2>2, <2>3, AddTwo
  <2>5. Seats' = Seats \cup {<<u, r>>}
    BY <2>1, Seated
  <2>6. Walking = {<<u, r>>} /\ Walking' = {}
    BY <2>1 DEF Walking
  <2>7. O!Arrive(u, r)
    BY <1>8, <2>4, <2>5, <2>6 DEF O!Arrive
  <2>8. QED
    BY <2>1, <2>4, <2>7 DEF O!Next
<1>9. CASE Emit /\ UNCHANGED <<told, seated>>
  <2>1. Pending' = Pending
    BY <1>9, PassOn DEF Emit, Pending
  <2>2. QED
    BY <1>9, <2>1, Unseen DEF Emit, netVars
<1>10. ASSUME NEW p \in dlv, Deliver(p), UNCHANGED <<told, seated>>
       PROVE  UNCHANGED O!officeVars
  BY <1>10, Unseen DEF Deliver, chanVars, Pending
<1>11. CASE ReadEvent
  <2>1. events # <<>> /\ events' = Tail(events) /\ emit' = emit
    BY <1>11 DEF ReadEvent, TakeEvent, loopVars
  <2>2. Pending # <<>> /\ Head(Pending) = Head(events) /\ Pending' = Tail(Pending)
    BY <2>1, TakeFirst DEF Pending
  <2>3. Seats' = Seats /\ Walking' = Walking
    BY <1>11 DEF ReadEvent, TakeEvent, netVars, loopVars, Seats, Walking
  <2>4. O!Read
    BY <1>11, <2>2, <2>3 DEF ReadEvent, Learn, O!Read
  <2>5. QED
    BY <2>4 DEF O!Next
<1>12. CASE Router /\ UNCHANGED <<told, seated>>
  BY <1>12, Unseen DEF Router, PutOut, SwitchRoom, netVars, loopVars, Pending
<1>13. ASSUME NEW c \in Client, Connection(c), UNCHANGED <<told, seated>>
       PROVE  UNCHANGED O!officeVars
  BY <1>13, Unseen DEF Connection, ServeWs, Hangup, TakeSend, chanVars, loopVars, Pending
<1>14. QED
  BY <1>1, <1>2, <1>3, <1>4, <1>5, <1>6, <1>7, <1>8, <1>9, <1>10, <1>11,
     <1>12, <1>13 DEF Next, HubStep

\* Office is what the hub implements, for all constants: every change of who is where
\* is announced once, in order, by the events Office prescribes.
THEOREM HubImplementsOffice == Spec => ImplementsOffice
  BY OfficeInit, OfficeStep, Safe, PTL DEF Spec, ImplementsOffice, O!Spec

----------------------------------------------------------------------------
(* The events tell the truth: this follows from the steps of Office alone. *)

\* WillKnow of the events p, when x \in K says what the reader knows.
Knows(p, on, off, u, r, x, K) ==
  \/ \E i \in 1..Len(p) :
       /\ Tells(p[i], {on}, u, r)
       /\ \A j \in (i + 1)..Len(p) : ~Tells(p[j], {off}, u, r)
  \/ x \in K /\ \A j \in 1..Len(p) : ~Tells(p[j], {off}, u, r)

\* The last event decides, if it is about u and r at all.
LEMMA LastWord ==
  ASSUME NEW p \in Seq(Event), NEW e \in Event, NEW on, NEW off, on # off,
         NEW u, NEW r, NEW x, NEW K
  PROVE  Knows(Append(p, e), on, off, u, r, x, K)
           <=> \/ Tells(e, {on}, u, r)
               \/ ~Tells(e, {off}, u, r) /\ Knows(p, on, off, u, r, x, K)
<1> DEFINE q == Append(p, e)
<1>1. /\ Len(p) \in Nat /\ Len(q) = Len(p) + 1
      /\ \A i \in 1 .. Len(p) : q[i] = p[i]
      /\ q[Len(p) + 1] = e
  BY AppendProperties
<1> HIDE DEF q
<1>2. CASE Tells(e, {on}, u, r)
  <2>1. Len(p) + 1 \in 1 .. Len(q) /\ Tells(q[Len(p) + 1], {on}, u, r)
    BY <1>1, <1>2
  <2>2. \A j \in ((Len(p) + 1) + 1) .. Len(q) : ~Tells(q[j], {off}, u, r)
    BY <1>1
  <2>3. Knows(q, on, off, u, r, x, K)
    <3>1. \E i \in 1 .. Len(q) : /\ Tells(q[i], {on}, u, r)
                                /\ \A j \in (i + 1) .. Len(q) : ~Tells(q[j], {off}, u, r)
      BY <2>1, <2>2, Zenon
    <3>2. QED
      BY <3>1 DEF Knows
  <2>4. QED
    BY <1>2, <2>3 DEF q
<1>3. CASE Tells(e, {off}, u, r)
  <2>1. ~Tells(e, {on}, u, r)
    BY <1>3 DEF Tells
  <2>2. Len(p) + 1 \in 1 .. Len(q) /\ Tells(q[Len(p) + 1], {off}, u, r)
    BY <1>1, <1>3
  <2>3. ASSUME NEW i \in 1 .. Len(q), Tells(q[i], {on}, u, r)
        PROVE  \E j \in (i + 1) .. Len(q) : Tells(q[j], {off}, u, r)
    <3>1. i # Len(p) + 1
      BY <1>1, <2>1, <2>3
    <3>2. Len(p) + 1 \in (i + 1) .. Len(q)
      BY <1>1, <3>1
    <3>3. QED
      BY <2>2, <3>2
  <2>4. ~Knows(q, on, off, u, r, x, K)
    BY <2>2, <2>3 DEF Knows
  <2>5. QED
    BY <1>3, <2>1, <2>4 DEF q
<1>4. CASE ~Tells(e, {on}, u, r) /\ ~Tells(e, {off}, u, r)
  <2>1. ASSUME NEW i \in Nat
        PROVE  (\A j \in (i + 1) .. Len(q) : ~Tells(q[j], {off}, u, r))
                 <=> \A j \in (i + 1) .. Len(p) : ~Tells(p[j], {off}, u, r)
    <3>1. ASSUME \A j \in (i + 1) .. Len(q) : ~Tells(q[j], {off}, u, r),
                 NEW j \in (i + 1) .. Len(p)
          PROVE  ~Tells(p[j], {off}, u, r)
      <4>1. j \in (i + 1) .. Len(q) /\ q[j] = p[j]
        BY <1>1
      <4>2. QED
        BY <3>1, <4>1
    <3>2. ASSUME \A j \in (i + 1) .. Len(p) : ~Tells(p[j], {off}, u, r),
                 NEW j \in (i + 1) .. Len(q)
          PROVE  ~Tells(q[j], {off}, u, r)
      <4>1. CASE j = Len(p) + 1
        BY <4>1, <1>1, <1>4
      <4>2. CASE j # Len(p) + 1
        <5>1. j \in (i + 1) .. Len(p) /\ q[j] = p[j]
          BY <4>2, <1>1
        <5>2. QED
          BY <3>2, <5>1
      <4>3. QED
        BY <4>1, <4>2
    <3>3. QED
      BY <3>1, <3>2
  <2>2. (\A j \in 1 .. Len(q) : ~Tells(q[j], {off}, u, r))
          <=> \A j \in 1 .. Len(p) : ~Tells(p[j], {off}, u, r)
    <3>1. 0 \in Nat /\ 0 + 1 = 1
      OBVIOUS
    <3>2. QED
      BY <2>1, <3>1
  <2>3. \A i \in 1 .. Len(q) : Tells(q[i], {on}, u, r)
                                 <=> i \in 1 .. Len(p) /\ Tells(p[i], {on}, u, r)
    BY <1>1, <1>4
  <2>4. 1 .. Len(p) \subseteq 1 .. Len(q) /\ 1 .. Len(q) \subseteq Nat
    BY <1>1
  <2>5. Knows(q, on, off, u, r, x, K) <=> Knows(p, on, off, u, r, x, K)
    BY <2>1, <2>2, <2>3, <2>4, Zenon DEF Knows
  <2>6. QED
    BY <1>4, <2>5 DEF q
<1>5. QED
  BY <1>2, <1>3, <1>4

\* What the first event says is forgotten knowledge, once it is taken.
LEMMA FirstWord ==
  ASSUME NEW p \in Seq(Event), p # <<>>, NEW on, NEW off, on # off,
         NEW u, NEW r, NEW x, NEW K, NEW L,
         x \in L <=> Tells(Head(p), {on}, u, r) \/ (x \in K /\ ~Tells(Head(p), {off}, u, r))
  PROVE  Knows(p, on, off, u, r, x, K) <=> Knows(Tail(p), on, off, u, r, x, L)
<1> DEFINE q == Tail(p)
           h == Head(p)
           On(e) == Tells(e, {on}, u, r)
           Off(e) == Tells(e, {off}, u, r)
<1>1. /\ Len(q) \in Nat /\ Len(p) = Len(q) + 1 /\ h = p[1]
      /\ \A i \in 1 .. Len(q) : q[i] = p[i + 1]
  BY HeadTailProperties
<1>2. ~(On(h) /\ Off(h)) /\ (x \in L <=> On(h) \/ (x \in K /\ ~Off(h)))
  BY DEF Tells
<1>k. Knows(p, on, off, u, r, x, K)
        <=> \/ \E i \in 1 .. Len(p) : On(p[i]) /\ \A j \in (i + 1) .. Len(p) : ~Off(p[j])
            \/ x \in K /\ \A j \in 1 .. Len(p) : ~Off(p[j])
  BY Zenon DEF Knows
<1>l. Knows(q, on, off, u, r, x, L)
        <=> \/ \E i \in 1 .. Len(q) : On(q[i]) /\ \A j \in (i + 1) .. Len(q) : ~Off(q[j])
            \/ x \in L /\ \A j \in 1 .. Len(q) : ~Off(q[j])
  BY Zenon DEF Knows
<1> HIDE DEF q, h, On, Off
<1>3. ASSUME NEW i \in Nat
      PROVE  (\A j \in (i + 1) .. Len(q) : ~Off(q[j]))
               <=> \A j \in ((i + 1) + 1) .. Len(p) : ~Off(p[j])
  <2>1. ASSUME \A j \in (i + 1) .. Len(q) : ~Off(q[j]),
               NEW j \in ((i + 1) + 1) .. Len(p)
        PROVE  ~Off(p[j])
    <3>1. j - 1 \in (i + 1) .. Len(q) /\ q[j - 1] = p[j]
      BY <1>1
    <3>2. QED
      BY <2>1, <3>1
  <2>2. ASSUME \A j \in ((i + 1) + 1) .. Len(p) : ~Off(p[j]),
               NEW j \in (i + 1) .. Len(q)
        PROVE  ~Off(q[j])
    <3>1. j + 1 \in ((i + 1) + 1) .. Len(p) /\ q[j] = p[j + 1]
      BY <1>1
    <3>2. QED
      BY <2>2, <3>1
  <2>3. QED
    BY <2>1, <2>2
<1>4. (\A j \in 1 .. Len(p) : ~Off(p[j])) <=> ~Off(h) /\ \A j \in 1 .. Len(q) : ~Off(q[j])
  <2>1. (\A j \in 1 .. Len(q) : ~Off(q[j])) <=> \A j \in 2 .. Len(p) : ~Off(p[j])
    <3>1. 0 \in Nat /\ 0 + 1 = 1 /\ (0 + 1) + 1 = 2
      OBVIOUS
    <3>2. QED
      BY <3>1, <1>3
  <2>2. 1 .. Len(p) = {1} \cup 2 .. Len(p)
    BY <1>1
  <2>3. QED
    BY <1>1, <2>1, <2>2
<1>5. (\E i \in 1 .. Len(p) : On(p[i]) /\ \A j \in (i + 1) .. Len(p) : ~Off(p[j]))
        <=> \/ On(h) /\ \A j \in 1 .. Len(q) : ~Off(q[j])
            \/ \E i \in 1 .. Len(q) : On(q[i]) /\ \A j \in (i + 1) .. Len(q) : ~Off(q[j])
  <2>1. ASSUME NEW i \in 1 .. Len(p), On(p[i]), \A j \in (i + 1) .. Len(p) : ~Off(p[j])
        PROVE  \/ On(h) /\ \A j \in 1 .. Len(q) : ~Off(q[j])
               \/ \E k \in 1 .. Len(q) : On(q[k]) /\ \A j \in (k + 1) .. Len(q) : ~Off(q[j])
    <3>1. CASE i = 1
      <4>0. \A j \in ((0 + 1) + 1) .. Len(p) : ~Off(p[j])
        BY <2>1, <3>1
      <4>1. \A j \in (0 + 1) .. Len(q) : ~Off(q[j])
        BY <4>0, <1>3, 0 \in Nat, Zenon
      <4>2. QED
        BY <2>1, <3>1, <4>1, <1>1
    <3>2. CASE i # 1
      <4>1. i - 1 \in 1 .. Len(q) /\ q[i - 1] = p[i] /\ i = (i - 1) + 1 /\ i - 1 \in Nat
        BY <3>2, <1>1
      <4>2. \A j \in ((i - 1) + 1) .. Len(q) : ~Off(q[j])
        BY <2>1, <4>1, <1>3
      <4>3. QED
        BY <2>1, <4>1, <4>2
    <3>3. QED
      BY <3>1, <3>2
  <2>2. ASSUME On(h), \A j \in 1 .. Len(q) : ~Off(q[j])
        PROVE  \E i \in 1 .. Len(p) : On(p[i]) /\ \A j \in (i + 1) .. Len(p) : ~Off(p[j])
    <3>1. \A j \in (1 + 1) .. Len(p) : ~Off(p[j])
      BY <2>2, <1>3
    <3>2. 1 \in 1 .. Len(p) /\ On(p[1])
      BY <2>2, <1>1
    <3>3. QED
      BY <3>1, <3>2
  <2>3. ASSUME NEW i \in 1 .. Len(q), On(q[i]), \A j \in (i + 1) .. Len(q) : ~Off(q[j])
        PROVE  \E k \in 1 .. Len(p) : On(p[k]) /\ \A j \in (k + 1) .. Len(p) : ~Off(p[j])
    <3>1. \A j \in ((i + 1) + 1) .. Len(p) : ~Off(p[j])
      BY <2>3, <1>3
    <3>2. i + 1 \in 1 .. Len(p) /\ On(p[i + 1])
      BY <2>3, <1>1
    <3>3. QED
      BY <3>1, <3>2
  <2>4. QED
    BY <2>1, <2>2, <2>3
<1>6. QED
  BY <1>2, <1>4, <1>5, <1>k, <1>l DEF q, h, On, Off

\* What the reader will take for true when it has taken the events p too.
Online(p, u) == Knows(p, "online", "offline", u, None, u, told)
Seat(p, u, r) == Knows(p, "joined", "left", u, r, <<u, r>>, seated)

\* And that is so.
Truthful ==
  /\ \A u \in User : Online(Pending, u) <=> O!Present(u)
  /\ \A u \in User, r \in Room : Seat(Pending, u, r) <=> <<u, r>> \in Seats

\* An event appended to Pending is the last word on what it is about.
LEMMA News ==
  ASSUME NEW p \in Seq(Event), NEW e \in Event, NEW u \in User, NEW r \in Room
  PROVE  /\ Online(Append(p, e), u) <=> \/ e.kind = "online" /\ e.id = u
                                        \/ ~(e.kind = "offline" /\ e.id = u) /\ Online(p, u)
         /\ Seat(Append(p, e), u, r)
              <=> \/ e.kind = "joined" /\ e.id = u /\ e.room = r
                  \/ ~(e.kind = "left" /\ e.id = u /\ e.room = r) /\ Seat(p, u, r)
<1>1. e.kind \in {"online", "offline"} => e.room = None
  BY DEF Event
<1>2. \A k \in {"online", "offline"} : Tells(e, {k}, u, None) <=> e.kind = k /\ e.id = u
  BY <1>1 DEF Tells
<1>3. \A k : Tells(e, {k}, u, r) <=> e.kind = k /\ e.id = u /\ e.room = r
  BY DEF Tells
<1>4. Online(Append(p, e), u) <=> \/ Tells(e, {"online"}, u, None)
                                  \/ ~Tells(e, {"offline"}, u, None) /\ Online(p, u)
  <2>1. "online" # "offline"
    OBVIOUS
  <2>2. QED
    BY <2>1, LastWord DEF Online
<1>5. Seat(Append(p, e), u, r) <=> \/ Tells(e, {"joined"}, u, r)
                                   \/ ~Tells(e, {"left"}, u, r) /\ Seat(p, u, r)
  <2>1. "joined" # "left"
    OBVIOUS
  <2>2. QED
    BY <2>1, LastWord DEF Seat
<1>6. QED
  BY <1>2, <1>3, <1>4, <1>5

LEMMA Told ==
  ASSUME told' = told, seated' = seated
  PROVE  /\ \A u : Online(Pending, u)' <=> Online(Pending', u)
         /\ \A u, r : Seat(Pending, u, r)' <=> Seat(Pending', u, r)
  BY DEF Online, Seat, Knows

\* Office tells the truth step by step, whoever implements it.
LEMMA TruthStep ==
  ASSUME Pending \in Seq(Event), Truthful, O!Next
  PROVE  Truthful'
<1>1. CASE O!Read
  <2> DEFINE e == Head(Pending)
  <2>1. /\ Pending # <<>> /\ Pending' = Tail(Pending)
        /\ e \in Event /\ e.kind \in {"joined", "left", "online", "offline"}
        /\ e.kind \in {"online", "offline"} => e.room = None
        /\ Seats' = Seats /\ Walking' = Walking
    <3>1. Pending # <<>> /\ Pending' = Tail(Pending) /\ Seats' = Seats /\ Walking' = Walking
      BY <1>1 DEF O!Read
    <3>2. e \in Event
      BY <3>1
    <3>3. QED
      BY <3>1, <3>2 DEF Event
  <2>2. ASSUME NEW u \in User
        PROVE  Online(Pending, u)' <=> Online(Pending, u)
    <3>1. /\ Tells(e, {"online"}, u, None) <=> e.kind = "online" /\ e.id = u
          /\ Tells(e, {"offline"}, u, None) <=> e.kind = "offline" /\ e.id = u
      BY <2>1 DEF Tells
    <3>2. u \in told' <=> \/ Tells(e, {"online"}, u, None)
                          \/ u \in told /\ ~Tells(e, {"offline"}, u, None)
      BY <1>1, <2>1, <3>1 DEF O!Read
    <3>3. "online" # "offline"
      OBVIOUS
    <3>4. QED
      BY <2>1, <3>2, <3>3, FirstWord DEF Online
  <2>3. ASSUME NEW u \in User, NEW r \in Room
        PROVE  Seat(Pending, u, r)' <=> Seat(Pending, u, r)
    <3>1. /\ Tells(e, {"joined"}, u, r) <=> e.kind = "joined" /\ <<e.id, e.room>> = <<u, r>>
          /\ Tells(e, {"left"}, u, r) <=> e.kind = "left" /\ <<e.id, e.room>> = <<u, r>>
      BY DEF Tells
    <3>2. <<u, r>> \in seated' <=> \/ Tells(e, {"joined"}, u, r)
                                   \/ <<u, r>> \in seated /\ ~Tells(e, {"left"}, u, r)
      BY <1>1, <2>1, <3>1 DEF O!Read
    <3>3. "joined" # "left"
      OBVIOUS
    <3>4. QED
      BY <2>1, <3>2, <3>3, FirstWord DEF Seat
  <2>4. \A u : O!Present(u)' <=> O!Present(u)
    BY <2>1 DEF O!Present
  <2>5. QED
    BY <2>2, <2>3, <2>4, <2>1 DEF Truthful
<1>2. ASSUME NEW v \in User, NEW q \in Room, O!Come(v, q)
      PROVE  Truthful'
  <2> DEFINE j == O!About("joined", v, q)
             o == O!About("online", v, None)
  <2>1. /\ j \in Event /\ j.kind = "joined" /\ j.id = v /\ j.room = q
        /\ o \in Event /\ o.kind = "online" /\ o.id = v
    BY DEF O!About, Event
  <2>2. /\ told' = told /\ seated' = seated
        /\ Seats' = Seats \cup {<<v, q>>} /\ Walking = {} /\ Walking' = {}
        /\ Pending' = Pending \o (IF O!Present(v) THEN <<j>> ELSE <<j, o>>)
    BY <1>2 DEF O!Come
  <2> HIDE DEF j, o
  <2>3. Pending' = IF O!Present(v) THEN Append(Pending, j) ELSE Append(Append(Pending, j), o)
    BY <2>1, <2>2, AddTwo
  <2>4. Append(Pending, j) \in Seq(Event)
    BY <2>1
  <2>5. ASSUME NEW u \in User, NEW r \in Room
        PROVE  /\ Online(Pending', u) <=> Online(Pending, u) \/ (u = v /\ ~O!Present(v))
               /\ Seat(Pending', u, r) <=> Seat(Pending, u, r) \/ (u = v /\ r = q)
    BY <2>1, <2>3, <2>4, News
  <2>6. \A u : O!Present(u)' <=> O!Present(u) \/ u = v
    BY <2>2 DEF O!Present
  <2>7. \A u \in User, r \in Room :
          <<u, r>> \in Seats' <=> <<u, r>> \in Seats \/ (u = v /\ r = q)
    BY <2>2
  <2>8. QED
    BY <2>2, <2>5, <2>6, <2>7, Told DEF Truthful
<1>3. ASSUME NEW v \in User, NEW q \in Room, O!Go(v, q)
      PROVE  Truthful'
  <2> DEFINE j == O!About("left", v, q)
             o == O!About("offline", v, None)
  <2>1. /\ j \in Event /\ j.kind = "left" /\ j.id = v /\ j.room = q
        /\ o \in Event /\ o.kind = "offline" /\ o.id = v
    BY DEF O!About, Event
  <2>2. /\ told' = told /\ seated' = seated
        /\ <<v, q>> \in Seats /\ Seats' = Seats \ {<<v, q>>} /\ Walking = {} /\ Walking' = {}
        /\ Pending' = Pending \o (IF O!Present(v)' THEN <<j>> ELSE <<j, o>>)
    BY <1>3 DEF O!Go
  <2> HIDE DEF j, o
  <2>3. Pending' = IF O!Present(v)' THEN Append(Pending, j) ELSE Append(Append(Pending, j), o)
    BY <2>1, <2>2, AddTwo
  <2>4. Append(Pending, j) \in Seq(Event)
    BY <2>1
  <2>5. ASSUME NEW u \in User, NEW r \in Room
        PROVE  /\ Online(Pending', u) <=> Online(Pending, u) /\ (u = v => O!Present(v)')
               /\ Seat(Pending', u, r) <=> Seat(Pending, u, r) /\ ~(u = v /\ r = q)
    <3>1. CASE O!Present(v)'
      <4>1. Pending' = Append(Pending, j)
        BY <2>3, <3>1
      <4>2. QED
        BY <2>1, <3>1, <4>1, News
    <3>2. CASE ~O!Present(v)'
      <4>1. Pending' = Append(Append(Pending, j), o)
        BY <2>3, <3>2
      <4>2. /\ Online(Append(Pending, j), u) <=> Online(Pending, u)
            /\ Seat(Append(Pending, j), u, r) <=> Seat(Pending, u, r) /\ ~(u = v /\ r = q)
        BY <2>1, News
      <4>3. /\ Online(Pending', u) <=> Online(Append(Pending, j), u) /\ u # v
            /\ Seat(Pending', u, r) <=> Seat(Append(Pending, j), u, r)
        BY <2>1, <2>4, <4>1, News
      <4>4. QED
        BY <3>2, <4>2, <4>3
    <3>3. QED
      BY <3>1, <3>2
  <2>6. \A u : O!Present(u)' <=> O!Present(u) /\ (u = v => O!Present(v)')
    BY <2>2 DEF O!Present
  <2>7. \A u \in User, r \in Room :
          <<u, r>> \in Seats' <=> <<u, r>> \in Seats /\ ~(u = v /\ r = q)
    BY <2>2
  <2>8. QED
    BY <2>2, <2>5, <2>6, <2>7, Told DEF Truthful
<1>4. ASSUME NEW v \in User, NEW q \in Room, NEW to \in Room, O!SetOut(v, q, to)
      PROVE  Truthful'
  <2> DEFINE j == O!About("left", v, q)
  <2>1. j \in Event /\ j.kind = "left" /\ j.id = v /\ j.room = q
    BY DEF O!About, Event
  <2>2. /\ told' = told /\ seated' = seated
        /\ <<v, q>> \in Seats /\ Seats' = Seats \ {<<v, q>>}
        /\ Walking = {} /\ Walking' = {<<v, to>>}
        /\ Pending' = Append(Pending, j)
    BY <1>4 DEF O!SetOut
  <2> HIDE DEF j
  <2>3. ASSUME NEW u \in User, NEW r \in Room
        PROVE  /\ Online(Pending', u) <=> Online(Pending, u)
               /\ Seat(Pending', u, r) <=> Seat(Pending, u, r) /\ ~(u = v /\ r = q)
    BY <2>1, <2>2, News
  <2>4. \A u : O!Present(u)' <=> O!Present(u)
    BY <2>2 DEF O!Present
  <2>5. \A u \in User, r \in Room :
          <<u, r>> \in Seats' <=> <<u, r>> \in Seats /\ ~(u = v /\ r = q)
    BY <2>2
  <2>6. QED
    BY <2>2, <2>3, <2>4, <2>5, Told DEF Truthful
<1>5. ASSUME NEW v \in User, NEW q \in Room, O!Arrive(v, q)
      PROVE  Truthful'
  <2> DEFINE j == O!About("joined", v, q)
  <2>1. j \in Event /\ j.kind = "joined" /\ j.id = v /\ j.room = q
    BY DEF O!About, Event
  <2>2. /\ told' = told /\ seated' = seated
        /\ Seats' = Seats \cup {<<v, q>>} /\ Walking = {<<v, q>>} /\ Walking' = {}
        /\ Pending' = Append(Pending, j)
    BY <1>5 DEF O!Arrive
  <2> HIDE DEF j
  <2>3. ASSUME NEW u \in User, NEW r \in Room
        PROVE  /\ Online(Pending', u) <=> Online(Pending, u)
               /\ Seat(Pending', u, r) <=> Seat(Pending, u, r) \/ (u = v /\ r = q)
    BY <2>1, <2>2, News
  <2>4. \A u : O!Present(u)' <=> O!Present(u)
    BY <2>2 DEF O!Present
  <2>5. \A u \in User, r \in Room :
          <<u, r>> \in Seats' <=> <<u, r>> \in Seats \/ (u = v /\ r = q)
    BY <2>2
  <2>6. QED
    BY <2>2, <2>3, <2>4, <2>5, Told DEF Truthful
<1>6. QED
  BY <1>1, <1>2, <1>3, <1>4, <1>5 DEF O!Next

LEMMA TruthInit == Init => Truthful
<1> SUFFICES ASSUME Init PROVE Truthful
  OBVIOUS
<1>1. rooms \in [Room -> SUBSET Client] /\ \A r \in Room : rooms[r] = {}
  BY DEF Init, HubInit
<1>2. Seats = {} /\ Walking = {} /\ Pending = <<>> /\ told = {} /\ seated = {}
  BY <1>1, Places DEF Walking, Pending, Init, HubInit
<1>3. \A u, r, on, off, x : ~Knows(<<>>, on, off, u, r, x, {})
  BY DEF Knows
<1>4. \A u : ~O!Present(u)
  BY <1>2 DEF O!Present
<1>5. QED
  BY <1>2, <1>3, <1>4 DEF Truthful, Online, Seat

LEMMA TruthNext ==
  ASSUME HubInv, Truthful, [Next]_sysVars
  PROVE  Truthful'
<1>1. Pending \in Seq(Event)
  BY DEF HubInv, TypeOK, HubTypeOK, Pending
<1>2. CASE O!Next
  BY <1>1, <1>2, TruthStep
<1>3. CASE UNCHANGED O!officeVars
  <2>1. Seats' = Seats /\ Walking' = Walking /\ Pending' = Pending
        /\ told' = told /\ seated' = seated
    BY <1>3 DEF O!officeVars
  <2>2. \A u : O!Present(u)' <=> O!Present(u)
    BY <2>1 DEF O!Present
  <2>3. QED
    BY <2>1, <2>2, Told DEF Truthful
<1>4. QED
  BY <1>2, <1>3, OfficeStep

LEMMA TruthTells ==
  ASSUME TypeOK, Truthful
  PROVE  PresenceAgrees /\ SeatsAgree
<1>1. /\ rooms \in [Room -> SUBSET Client]
      /\ moving \in SUBSET [client : Client, to : Room]
  BY DEF TypeOK, HubTypeOK
<1>2. ASSUME NEW u \in User
      PROVE  WillKnow("online", "offline", u, None, u \in told) <=> Online(Pending, u)
  BY DEF WillKnow, Online, Knows
<1>3. ASSUME NEW u \in User, NEW r \in Room
      PROVE  WillKnow("joined", "left", u, r, <<u, r>> \in seated) <=> Seat(Pending, u, r)
  BY DEF WillKnow, Seat, Knows
<1>4. PresenceAgrees
  BY <1>1, <1>2, Presence DEF PresenceAgrees, Truthful
<1>5. SeatsAgree
  BY <1>1, <1>3, Places DEF SeatsAgree, Truthful
<1>6. QED
  BY <1>4, <1>5

LEMMA AlwaysTruthful == Spec => [](TypeOK /\ Truthful)
<1>1. HubInv => TypeOK
  BY DEF HubInv
<1>2. QED
  BY <1>1, TruthInit, TruthNext, Safe, PTL DEF Spec

\* Who has taken every event on its way takes exactly those for online who have a
\* connection, for any number of users, connections, rooms and any capacities.
THEOREM PresenceTold == Spec => []PresenceAgrees
  BY TruthTells, AlwaysTruthful, PTL

\* And has exactly those in a room who have a connection there.
THEOREM SeatsTold == Spec => []SeatsAgree
  BY TruthTells, AlwaysTruthful, PTL
==============================================================================
