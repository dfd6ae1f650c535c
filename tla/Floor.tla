------------------------------- MODULE Floor -------------------------------
(***************************************************************************)
(* What the stored things of the office share: the ids the server hands    *)
(* out, the peers who are told of them, and the queues between peers, hub  *)
(* and router.  Kanban and Chat say what is stored, FloorSystem puts them  *)
(* together.                                                               *)
(*                                                                         *)
(* Contents are version numbers: count goes up with every message that is  *)
(* not refused, what is stored keeps the number of its last change, and a  *)
(* peer is told a number for an id (0: nothing yet).  Hub, pumps and full  *)
(* buffers are the subject of Hub, Client and Router; here out is one      *)
(* queue that is delivered in order to those who are there by then.        *)
(***************************************************************************)
EXTENDS Naturals, Sequences, FiniteSets, Functions

CONSTANTS
  Client,    \* connections, of different users
  Room,
  Nowhere,   \* the room of one who is not connected
  Anywhere,  \* the room of what goes to a user, or all, in whatever room they are
  Item,      \* ids of what is stored
  Pools,     \* bound of the model: the sets of ids a behaviour is about
  MaxIncoming, \* bound of the model: messages that wait in incoming (code: 256)
  MaxOut,    \* bound of the model: the router goes on when fewer wait in out
  MaxCount,  \* bound of the model: messages not refused
  MaxJoins   \* bound of the model: joins

ASSUME FloorAssumption ==
  /\ Nowhere \notin Room /\ Anywhere \notin Room \cup {Nowhere}
  /\ Pools \subseteq SUBSET Item
  /\ MaxIncoming \in Nat /\ MaxOut \in Nat /\ MaxCount \in Nat /\ MaxJoins \in Nat

VARIABLES
  at,        \* Hub.rooms: where each connection is
  events,    \* Joined events the router has not handled
  incoming,  \* messages it has not handled; their content is chosen when they are
  out,       \* what the hub has still to send
  told,      \* the number each client was last told for each id
  pool,      \* the ids this behaviour is about
  fresh,     \* those of them not handed out yet
  count, joins,
  blind      \* history: clients whose last snapshot failed

peerVars == <<at, told>>
floorVars == <<at, events, incoming, out, told, pool, fresh, count, joins, blind>>

Note == [room : Room \cup {Anywhere}, to : SUBSET Client, id : Item, n : Nat]
Unaware == [c \in Client |-> [i \in Item |-> 0]]

FloorInit ==
  /\ at = [c \in Client |-> Nowhere]
  /\ events = <<>> /\ incoming = <<>> /\ out = <<>>
  /\ told = Unaware
  /\ pool \in Pools /\ fresh = pool
  /\ count = 0 /\ joins = 0
  /\ blind = {}

FloorTypeOK ==
  /\ at \in [Client -> Room \cup {Nowhere}]
  /\ events \in Seq([client : Client, room : Room])
  /\ incoming \in Seq([client : Client, room : Room])
  /\ out \in Seq(Note)
  /\ told \in [Client -> [Item -> 0..MaxCount]]
  /\ pool \in Pools /\ fresh \subseteq pool
  /\ count \in 0..MaxCount /\ joins \in 0..MaxJoins
  /\ blind \subseteq Client

----------------------------------------------------------------------------
\* A connection comes, or switches rooms.
Enter(c, r) ==
  /\ at[c] # r
  /\ joins < MaxJoins
  /\ joins' = joins + 1
  /\ at' = [at EXCEPT ![c] = r]
  /\ events' = Append(events, [client |-> c, room |-> r])
  /\ UNCHANGED <<incoming, out, told, pool, fresh, count, blind>>

\* It ends; its peer starts from nothing when it comes back.
Leave(c) ==
  /\ at[c] # Nowhere
  /\ at' = [at EXCEPT ![c] = Nowhere]
  /\ told' = [told EXCEPT ![c] = Unaware[c]]
  /\ UNCHANGED <<events, incoming, out, pool, fresh, count, joins, blind>>

\* A message is read and tagged with its sender and the sender's room.
Say(c) ==
  /\ at[c] # Nowhere
  /\ Len(incoming) < MaxIncoming /\ count + Len(incoming) < MaxCount
  /\ incoming' = Append(incoming, [client |-> c, room |-> at[c]])
  /\ UNCHANGED <<peerVars, events, out, pool, fresh, count, joins, blind>>

Hears(c, m) == c \in m.to /\ at[c] # Nowhere /\ m.room \in {at[c], Anywhere}

\* The hub sends the next message to those it is for and who are there.
Deliver ==
  /\ out # <<>>
  /\ LET m == Head(out) IN
       told' = [c \in Client |-> IF Hears(c, m) THEN [told[c] EXCEPT ![m.id] = m.n]
                                                ELSE told[c]]
  /\ out' = Tail(out)
  /\ UNCHANGED <<at, events, incoming, pool, fresh, count, joins, blind>>

\* hub.Broadcast(room, ...) of what id i has become.
Announcement(i, r) == [room |-> r, to |-> Client, id |-> i, n |-> count']

\* hub.SendTo, one message for each id of n; the order between them tells nothing
\* apart and is that of their numbers.
Notes(e, n) == {[room |-> e.room, to |-> {e.client}, id |-> i, n |-> n[i]] : i \in DOMAIN n}
Snapshots(e, n) ==
  {s \in [1..Cardinality(DOMAIN n) -> Notes(e, n)] :
     /\ \A x \in Notes(e, n) : \E k \in DOMAIN s : s[k] = x
     /\ \A j, k \in DOMAIN s : j < k => s[j].n <= s[k].n}
============================================================================
