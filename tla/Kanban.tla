------------------------------- MODULE Kanban -------------------------------
(***************************************************************************)
(* Boards and tasks: service/board.go, service/task.go and their handlers  *)
(* in the router.  The router is the only one to touch the two tables, one *)
(* message at a time; it tells the room of the sender what it has stored,  *)
(* and a newcomer everything there is.                                     *)
(***************************************************************************)
EXTENDS Floor

CONSTANTS
  Board,     \* ids of boards
  Task,      \* ids of tasks
  NoBoard    \* the board of a board

ASSUME KanbanAssumption ==
  /\ Board \cup Task \subseteq Item
  /\ Board \cap Task = {} /\ NoBoard \notin Board \cup Task

VARIABLES
  rows,      \* tables boards and tasks: a function on the ids in use
  cascade,   \* the board whose tasks the handler has still to delete
  undead,    \* history: rows a delete has failed to delete
  announced  \* history: the room that was told of the last change of each id

kanbanVars == <<rows, cascade, undead, announced>>

BoardOrTask == Board \cup Task
InUse == DOMAIN rows
TasksOf(b) == {t \in InUse : rows[t].board = b}

Row == [n : 1..MaxCount, board : Board \cup {NoBoard}]
Edit == [op : {"create"}, id : BoardOrTask, board : Board \cup {NoBoard}]
          \cup [op : {"change", "delete"}, id : BoardOrTask]

KanbanInit ==
  /\ rows = <<>> /\ cascade = <<>>
  /\ undead = {}
  /\ announced = [i \in BoardOrTask |-> Nowhere]

KanbanTypeOK ==
  /\ InUse \subseteq BoardOrTask \ fresh
  /\ \A i \in InUse : rows[i] \in Row /\ (i \in Board <=> rows[i].board = NoBoard)
  /\ cascade \in Seq([board : Board, room : Room]) /\ Len(cascade) <= 1
  /\ undead \subseteq BoardOrTask
  /\ announced \in [BoardOrTask -> Room \cup {Nowhere}]

----------------------------------------------------------------------------
\* Mutant: broadcasts are sent before snapshots that wait.
Announce_First(i, r) ==
  /\ out' = <<Announcement(i, r)>> \o out
  /\ announced' = [announced EXCEPT ![i] = r]

Announce(i, r) ==
  /\ out' = Append(out, Announcement(i, r))
  /\ announced' = [announced EXCEPT ![i] = r]

Insert(e) == rows' = [i \in InUse \cup {e.id} |->
                         IF i = e.id THEN [n |-> count', board |-> e.board] ELSE rows[i]]

\* Mutant: tasks are created under boards nobody has.
Create_Unchecked(e, r) ==
  /\ e.op = "create" /\ e.id \in fresh
  /\ (e.board = NoBoard) <=> (e.id \in Board)
  /\ Insert(e)
  /\ fresh' = fresh \ {e.id}
  /\ Announce(e.id, r)
  /\ UNCHANGED <<cascade, undead>>

\* Mutant: it is the client that picks the id.
Create_AnyId(e, r) ==
  /\ e.op = "create" /\ e.id \in BoardOrTask \ InUse
  /\ IF e.id \in Board THEN e.board = NoBoard ELSE e.board \in InUse
  /\ Insert(e)
  /\ UNCHANGED fresh
  /\ Announce(e.id, r)
  /\ UNCHANGED <<cascade, undead>>

\* board_create, and task_create under a board that exists.
Create(e, r) ==
  /\ e.op = "create" /\ e.id \in fresh
  /\ IF e.id \in Board THEN e.board = NoBoard ELSE e.board \in InUse
  /\ Insert(e)
  /\ fresh' = fresh \ {e.id}
  /\ Announce(e.id, r)
  /\ UNCHANGED <<cascade, undead>>

\* Mutant: what is announced was read before the change was stored.
Change_Old(e, r) ==
  /\ e.op = "change" /\ e.id \in InUse
  /\ rows' = [rows EXCEPT ![e.id].n = count']
  /\ out' = Append(out, [Announcement(e.id, r) EXCEPT !.n = rows[e.id].n])
  /\ announced' = [announced EXCEPT ![e.id] = r]
  /\ UNCHANGED <<fresh, cascade, undead>>

\* board_rename, task_move, task_update of a row that exists: read, changed and
\* saved with nobody else at the tables.
Change(e, r) ==
  /\ e.op = "change" /\ e.id \in InUse
  /\ rows' = [rows EXCEPT ![e.id].n = count']
  /\ Announce(e.id, r)
  /\ UNCHANGED <<fresh, cascade, undead>>

\* Rows are deleted, or the database fails and nobody looks at the error.
Drop(ids) ==
  \/ rows' = Restrict(rows, InUse \ ids) /\ UNCHANGED undead
  \/ ids \cap InUse # {} /\ undead' = undead \cup (ids \cap InUse) /\ UNCHANGED rows

\* task_delete, announced whatever came of it.
DeleteTask(e, r) ==
  /\ e.op = "delete" /\ e.id \in Task
  /\ Drop({e.id})
  /\ Announce(e.id, r)
  /\ UNCHANGED <<fresh, cascade>>

\* board_delete: first the board ...
DeleteBoard(e, r) ==
  /\ e.op = "delete" /\ e.id \in Board
  /\ Drop({e.id})
  /\ cascade' = <<[board |-> e.id, room |-> r]>>
  /\ UNCHANGED <<fresh, out, announced>>

HandleEdit(e, r) ==
  \/ Create(e, r) \/ Change(e, r)
  \/ DeleteTask(e, r) \/ DeleteBoard(e, r)

\* ... then its tasks, and the room is told of the board.
FinishDelete ==
  /\ cascade # <<>>
  /\ Drop(TasksOf(Head(cascade).board))
  /\ count' = count
  /\ Announce(Head(cascade).board, Head(cascade).room)
  /\ cascade' = <<>>
  /\ UNCHANGED <<at, events, incoming, told, pool, fresh, joins, blind>>

\* The process ends in the middle of a delete: the rest of it is lost.
LoseCascade ==
  /\ cascade' = <<>>
  /\ undead' = IF cascade = <<>> THEN undead
                                 ELSE undead \cup TasksOf(Head(cascade).board)
  /\ UNCHANGED <<rows, announced>>

----------------------------------------------------------------------------
\* No task floats: its board is there, unless the cascade of a delete failed or
\* was cut off; no create slips in between the check of the board, its deletion
\* and the deletion of its tasks (message_router.go:328 and 338).
TasksHaveBoards ==
  \A t \in InUse \cap Task :
    \/ rows[t].board \in InUse
    \/ t \in undead
    \/ cascade # <<>> /\ Head(cascade).board = rows[t].board

\* No client is taken back to an older state of a board or task, whether it
\* learns of it by broadcast or by a snapshot and whatever rooms it goes through.
\* Of rows whose deletion was announced and has failed (undead) nothing is said.
NeverBack ==
  [][\A c \in Client, i \in BoardOrTask \ undead :
       at'[c] # Nowhere => told'[c][i] >= told[c][i]]_told
============================================================================
