-------------------------------- MODULE Chat --------------------------------
(***************************************************************************)
(* Chat: service/chat.go, repository/message.go and the handler in the     *)
(* router.  What is said is stored as well as the database allows, sent to *)
(* those it is for, and shown again to who joins later: the newest of the  *)
(* room, of what was said to all, and of the newcomer's private messages.  *)
(***************************************************************************)
EXTENDS Floor, FiniteSets, FiniteSetsExt

CONSTANTS
  Message,      \* ids of chat messages
  HistoryLimit  \* the most a query for the history returns

ASSUME ChatAssumption ==
  /\ Message \subseteq Item
  /\ HistoryLimit \in Nat \ {0}

VARIABLES
  posted,  \* every message Record has returned, with its fields
  saved    \* table messages: those the database took

chatVars == <<posted, saved>>

\* "other" is any text the switch on the scope does not know.
Scope == {"room", "all", "private", "other"}

\* A row: who it is from and to matters only when it is private, and parties are the
\* two; the room is kept of what is said to a room only.
Post == [scope : Scope, room : Room \cup {Nowhere}, parties : SUBSET Client,
         n : 1..MaxCount, second : Nat]

ChatInit == posted = <<>> /\ saved = {}

ChatTypeOK ==
  /\ DOMAIN posted \subseteq Message \ fresh
  /\ \A m \in DOMAIN posted : posted[m] \in Post
  /\ saved \subseteq DOMAIN posted

----------------------------------------------------------------------------
(* Saying something. *)

\* created_at: seconds, so the next message may well have the time of this one.
Now ==
  IF posted = <<>>
    THEN {0}
    ELSE LET last == Max({posted[m].second : m \in DOMAIN posted}) IN {last, last + 1}

\* ChatStore.Record: best effort.
Record(m, post) ==
  /\ m \in fresh
  /\ fresh' = fresh \ {m}
  /\ posted' = [i \in DOMAIN posted \cup {m} |-> IF i = m THEN post ELSE posted[i]]
  /\ saved' \in {saved, saved \cup {m}}

\* Sends of the switch on the scope: BroadcastAll, SendToUser twice, or Broadcast.
Sends(m, scope, r, from, to) ==
  CASE scope = "all" -> <<Announcement(m, Anywhere)>>
    [] scope = "private" -> <<[Announcement(m, Anywhere) EXCEPT !.to = {to}],
                              [Announcement(m, Anywhere) EXCEPT !.to = {from}]>>
    [] OTHER -> <<Announcement(m, r)>>

HandleChat(m, scope, r, from, to) ==
  /\ \E t \in Now :
       Record(m, [scope |-> scope, room |-> IF scope = "room" THEN r ELSE Nowhere,
                  parties |-> IF scope = "private" THEN {from, to} ELSE {},
                  n |-> count', second |-> t])
  /\ out' = out \o Sends(m, scope, r, from, to)

----------------------------------------------------------------------------
(* The history a newcomer is sent. *)

Of(scope) == {m \in saved : posted[m].scope = scope}
ToRoom(r) == {m \in Of("room") : posted[m].room = r}
Private(u) == {m \in Of("private") : u \in posted[m].parties}

\* Mutant: the limit is applied to the ascending order.
Newest_Oldest(S) ==
  {H \in SUBSET S :
     /\ Cardinality(H) = Min({Cardinality(S), HistoryLimit})
     /\ \A h \in H, m \in S \ H : posted[h].second <= posted[m].second}

\* gormMessages.query: the newest by created_at; of those of one second that do not
\* all fit, any.
Newest(S) ==
  {H \in SUBSET S :
     /\ Cardinality(H) = Min({Cardinality(S), HistoryLimit})
     /\ \A h \in H, m \in S \ H : posted[h].second >= posted[m].second}

\* ChatStore.History when no query fails; each one that does answers nothing.
Histories(r, u) ==
  {a \cup b \cup c : a \in Newest(ToRoom(r)), b \in Newest(Of("all")), c \in Newest(Private(u))}
Partial(r, u) ==
  {a \cup b \cup c : a \in Newest(ToRoom(r)) \cup {{}}, b \in Newest(Of("all")) \cup {{}},
                     c \in Newest(Private(u)) \cup {{}}}

----------------------------------------------------------------------------
\* What is said to a room is shown to those in the room, what is said to a user to
\* the two of them, live and from the history, also when a newcomer has left the
\* room again before its history is sent (message_router.go:115).
KeptInScope ==
  [][\A c \in Client, m \in DOMAIN posted : told'[c][m] \notin {0, told[c][m]} =>
       /\ posted[m].scope = "room" => at[c] = posted[m].room
       /\ posted[m].scope = "private" => c \in posted[m].parties]_told

\* The messages with which m shares a query of the history of user c in room r.
Rivals(m, r, c) ==
  CASE posted[m].scope = "room" -> ToRoom(r)
    [] posted[m].scope = "all" -> Of("all")
    [] posted[m].scope = "private" -> Private(c)

\* What a user in room r should have seen: what is stored for the room, for all and
\* for the user, but for what at least as many other messages as the limit, none
\* of them older, have pushed out.
Due(c, r) ==
  {m \in ToRoom(r) \cup Of("all") \cup Private(c) :
     Cardinality({x \in Rivals(m, r, c) \ {m} : posted[x].second >= posted[m].second})
       < HistoryLimit}
============================================================================
