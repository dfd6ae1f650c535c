------------------------------- MODULE Office -------------------------------
(***************************************************************************)
(* What the hub promises the reader of its events, with nothing said of    *)
(* connections, channels, kicks and blocking: users sit in rooms, one      *)
(* after the other comes, goes or walks over to another room, and the      *)
(* reader hears of exactly that and in that order.  HubSystem implements   *)
(* this.                                                                   *)
(***************************************************************************)
EXTENDS Naturals, Sequences

CONSTANTS User, Room, None

VARIABLES
  seats,    \* <<user, room>>: who is in which room
  walking,  \* <<user, room>>: who is between two rooms, and to which
  news,     \* events on their way to the reader
  told, seated  \* what the reader knows from those it has taken

officeVars == <<seats, walking, news, told, seated>>

About(kind, u, r) == [kind |-> kind, id |-> u, room |-> r]
Present(u) == \E r \in Room : <<u, r>> \in seats \cup walking

Init ==
  /\ seats = {} /\ walking = {}
  /\ news = <<>>
  /\ told = {} /\ seated = {}

\* A user appears in a room; who was there already is announced again.
Come(u, r) ==
  /\ walking = {}
  /\ seats' = seats \cup {<<u, r>>}
  /\ news' = news \o IF Present(u)
                       THEN <<About("joined", u, r)>>
                       ELSE <<About("joined", u, r), About("online", u, None)>>
  /\ UNCHANGED <<walking, told, seated>>

\* A user disappears from a room, and from the office with the last one.
Go(u, r) ==
  /\ walking = {}
  /\ <<u, r>> \in seats
  /\ seats' = seats \ {<<u, r>>}
  /\ news' = news \o IF Present(u)'
                       THEN <<About("left", u, r)>>
                       ELSE <<About("left", u, r), About("offline", u, None)>>
  /\ UNCHANGED <<walking, told, seated>>

\* A user walks over to another room, without leaving the office.
SetOut(u, r, to) ==
  /\ walking = {} /\ to # r
  /\ <<u, r>> \in seats
  /\ seats' = seats \ {<<u, r>>}
  /\ walking' = {<<u, to>>}
  /\ news' = Append(news, About("left", u, r))
  /\ UNCHANGED <<told, seated>>

Arrive(u, r) ==
  /\ walking = {<<u, r>>}
  /\ walking' = {}
  /\ seats' = seats \cup {<<u, r>>}
  /\ news' = Append(news, About("joined", u, r))
  /\ UNCHANGED <<told, seated>>

\* The reader takes the oldest event.
Read ==
  /\ news # <<>>
  /\ news' = Tail(news)
  /\ LET e == Head(news) IN
       /\ told' = CASE e.kind = "online" -> told \cup {e.id}
                    [] e.kind = "offline" -> told \ {e.id}
                    [] OTHER -> told
       /\ seated' = CASE e.kind = "joined" -> seated \cup {<<e.id, e.room>>}
                      [] e.kind = "left" -> seated \ {<<e.id, e.room>>}
                      [] OTHER -> seated
  /\ UNCHANGED <<seats, walking>>

\* Nothing happens in silence.
Next ==
  \/ Read
  \/ /\ Len(news') > Len(news)
     /\ \E u \in User, r \in Room :
          \/ Come(u, r) \/ Go(u, r) \/ Arrive(u, r)
          \/ \E to \in Room : SetOut(u, r, to)

Spec == Init /\ [][Next]_officeVars
============================================================================
