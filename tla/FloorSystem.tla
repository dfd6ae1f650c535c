---------------------------- MODULE FloorSystem ----------------------------
(***************************************************************************)
(* Boards, tasks and chat together: one router handles the messages about  *)
(* all of them, and sends who joins all there is of each.                  *)
(***************************************************************************)
EXTENDS Kanban, Chat

ASSUME FloorSystemAssumption ==
  /\ Message \cap BoardOrTask = {}
  /\ Item = BoardOrTask \cup Message

vars == <<floorVars, kanbanVars, chatVars>>

Init == FloorInit /\ KanbanInit /\ ChatInit
TypeOK == FloorTypeOK /\ KanbanTypeOK /\ ChatTypeOK

----------------------------------------------------------------------------
\* The loop of the router: idle, and not ahead of the hub.
Ready == cascade = <<>> /\ Len(out) < MaxOut

\* Mutant: the history is sent to the user, wherever they are.
HandleJoined_Follows ==
  /\ Ready /\ events # <<>>
  /\ LET e == Head(events) IN
       \E boards \in {{}, InUse \cap Board}, tasks \in {{}, InUse \cap Task},
          chat \in Partial(e.room, e.client) :
         /\ \E s \in Snapshots(e, [i \in boards |-> rows[i].n]),
               t \in Snapshots(e, [i \in tasks |-> rows[i].n]),
               h \in Snapshots([e EXCEPT !.room = Anywhere], [m \in chat |-> posted[m].n]) :
              out' = out \o s \o t \o h
         /\ blind' = IF boards \cup tasks = InUse /\ chat \in Histories(e.room, e.client)
                       THEN blind \ {e.client} ELSE blind \cup {e.client}
  /\ events' = Tail(events)
  /\ UNCHANGED <<peerVars, incoming, pool, fresh, count, joins, kanbanVars, chatVars>>

\* The newcomer is sent all boards, then all tasks, then the history of the chat; a
\* query that fails is an empty list.
HandleJoined ==
  /\ Ready /\ events # <<>>
  /\ LET e == Head(events) IN
       \E boards \in {{}, InUse \cap Board}, tasks \in {{}, InUse \cap Task},
          chat \in Partial(e.room, e.client) :
         /\ \E s \in Snapshots(e, [i \in boards |-> rows[i].n]),
               t \in Snapshots(e, [i \in tasks |-> rows[i].n]),
               h \in Snapshots(e, [m \in chat |-> posted[m].n]) :
              out' = out \o s \o t \o h
         /\ blind' = IF boards \cup tasks = InUse /\ chat \in Histories(e.room, e.client)
                       THEN blind \ {e.client} ELSE blind \cup {e.client}
  /\ events' = Tail(events)
  /\ UNCHANGED <<peerVars, incoming, pool, fresh, count, joins, kanbanVars, chatVars>>

\* Text that is blank, a row or a board that is not there, a private message to
\* nobody, an error of the database on a query whose error is looked at: nothing
\* happens.
Refuse == UNCHANGED <<out, fresh, count, kanbanVars, chatVars>>

HandleMessage ==
  /\ Ready /\ incoming # <<>>
  /\ \/ /\ count' = count + 1
        /\ LET in == Head(incoming) IN
             \/ \E e \in Edit : e.id \in pool /\ HandleEdit(e, in.room) /\ UNCHANGED chatVars
             \/ \E m \in Message, scope \in Scope, to \in Client \ {in.client} :
                  HandleChat(m, scope, in.room, in.client, to) /\ UNCHANGED kanbanVars
     \/ Refuse
  /\ incoming' = Tail(incoming)
  /\ UNCHANGED <<peerVars, events, pool, joins, blind>>

\* The process ends and starts again: all but the tables is lost.
Restart ==
  /\ at' = [c \in Client |-> Nowhere]
  /\ told' = Unaware
  /\ events' = <<>> /\ incoming' = <<>> /\ out' = <<>>
  /\ LoseCascade
  /\ UNCHANGED <<pool, fresh, count, joins, blind, chatVars>>

Peers ==
  \/ \E c \in Client : (\E r \in Room : Enter(c, r)) \/ Leave(c) \/ Say(c)
  \/ Deliver

Next ==
  \/ Peers /\ UNCHANGED <<kanbanVars, chatVars>>
  \/ HandleJoined \/ HandleMessage
  \/ FinishDelete /\ UNCHANGED chatVars
  \/ Restart

Spec == Init /\ [][Next]_vars

----------------------------------------------------------------------------
Settled == cascade = <<>> /\ events = <<>> /\ incoming = <<>> /\ out = <<>>

\* Everybody in a room sees the boards and tasks last changed from that room as
\* they are stored, also one who came in the middle of the change.
RoomSeesItsEdits ==
  Settled => \A c \in Client \ blind, i \in InUse \ undead :
    at[c] # Nowhere /\ announced[i] = at[c] => told[c][i] = rows[i].n

\* Between what is sent live and what is read from the history, no message falls
\* through: who is connected has been shown all the stored messages they are due.
NothingMissed ==
  Settled => \A c \in Client \ blind :
    at[c] # Nowhere => \A m \in Due(c, at[c]) : told[c][m] # 0
============================================================================
