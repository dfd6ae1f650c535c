---------------------------- MODULE FloorProofs ----------------------------
(***************************************************************************)
(* For any boards, tasks, messages, peers and rooms: no task is left       *)
(* without its board, whatever is said, fails or is cut off in the middle, *)
(* and what the peers are shown of boards, tasks and chat is what is       *)
(* stored, in order of age, complete, and for nobody else.                 *)
(***************************************************************************)
EXTENDS FloorSystem, FiniteSetTheorems, SequenceTheorems, TLAPS

\* What of a row the argument needs: a board is on no board, a task on one.
RowOK(i, row) ==
  /\ row \in [n : Nat, board : Board \cup {NoBoard}]
  /\ i \in Board <=> row.board = NoBoard

RowsOK == InUse \subseteq BoardOrTask /\ \A i \in InUse : RowOK(i, rows[i])

CascadeOK == cascade # <<>> => Head(cascade).board \in Board

TablesInv == count \in Nat /\ RowsOK /\ CascadeOK /\ TasksHaveBoards

----------------------------------------------------------------------------
LEMMA Tables == Init => TablesInv
  BY DEF Init, FloorInit, KanbanInit, TablesInv, RowsOK, CascadeOK, TasksHaveBoards, InUse

\* Deleting rows leaves the others as they are.
LEMMA Dropped ==
  ASSUME RowsOK, NEW ids, Drop(ids)
  PROVE  /\ RowsOK' /\ InUse' \subseteq InUse
         /\ \A i \in InUse' : rows'[i] = rows[i]
         /\ \/ InUse' = InUse \ ids /\ undead' = undead
            \/ InUse' = InUse /\ undead' = undead \cup (ids \cap InUse)
<1>1. CASE rows' = Restrict(rows, InUse \ ids) /\ UNCHANGED undead
  <2>1. InUse' = InUse \ ids /\ \A i \in InUse' : rows'[i] = rows[i]
    BY <1>1 DEF Restrict, InUse
  <2> QED
    BY <1>1, <2>1 DEF RowsOK, RowOK
<1>2. CASE UNCHANGED rows /\ undead' = undead \cup (ids \cap InUse)
  BY <1>2 DEF RowsOK, RowOK, InUse
<1> QED
  BY <1>1, <1>2 DEF Drop

\* A task is created under a board that is there, a board under none.
LEMMA Created ==
  ASSUME TablesInv, NEW e \in Edit, NEW r, Create(e, r), cascade = <<>>, count' = count + 1
  PROVE  TablesInv'
<1> USE DEF TablesInv
<1> DEFINE row == [n |-> count + 1, board |-> e.board]
<1>1. /\ e.id \in BoardOrTask /\ e.board \in Board \cup {NoBoard}
      /\ IF e.id \in Board THEN e.board = NoBoard ELSE e.board \in InUse
  BY DEF Create, Edit
<1>2. /\ InUse' = InUse \cup {e.id} /\ rows'[e.id] = row
      /\ \A i \in InUse \ {e.id} : rows'[i] = rows[i]
  BY DEF Create, Insert, InUse
<1>3. row \in [n : Nat, board : Board \cup {NoBoard}] /\ row.board = e.board
  BY <1>1
<1> HIDE DEF row
<1>4. e.id \in Board <=> e.board = NoBoard
  BY <1>1, KanbanAssumption DEF RowsOK, BoardOrTask
<1>5. RowsOK'
  BY <1>1, <1>2, <1>3, <1>4 DEF RowsOK, RowOK
<1>6. CascadeOK' /\ cascade' = <<>>
  BY DEF Create, CascadeOK
<1>7. TasksHaveBoards'
  <2> SUFFICES ASSUME NEW t \in InUse' \cap Task
               PROVE  rows'[t].board \in InUse' \/ t \in undead'
    BY DEF TasksHaveBoards
  <2>1. CASE t = e.id
    BY <2>1, <1>1, <1>2, <1>3, KanbanAssumption
  <2>2. CASE t # e.id
    BY <2>2, <1>2 DEF TasksHaveBoards, Create
  <2> QED
    BY <2>1, <2>2
<1> QED
  BY <1>5, <1>6, <1>7

\* A change leaves a row where it is.
LEMMA Changed ==
  ASSUME TablesInv, NEW e, NEW r, Change(e, r), cascade = <<>>, count' = count + 1
  PROVE  TablesInv'
<1> USE DEF TablesInv
<1> DEFINE i == e.id
<1>1. /\ i \in InUse /\ cascade' = <<>> /\ undead' = undead
      /\ rows' = [rows EXCEPT ![i] = [rows[i] EXCEPT !.n = count + 1]]
  BY DEF Change
<1>2. RowOK(i, rows[i])
  BY <1>1 DEF RowsOK
<1>3. /\ InUse' = InUse /\ rows'[i] = [rows[i] EXCEPT !.n = count + 1]
      /\ \A j \in InUse \ {i} : rows'[j] = rows[j]
  BY <1>1 DEF InUse
<1>4. RowOK(i, rows'[i]) /\ rows'[i].board = rows[i].board
  BY <1>2, <1>3 DEF RowOK
<1> HIDE DEF i
<1>5. RowsOK'
  BY <1>1, <1>3, <1>4 DEF RowsOK, RowOK
<1>6. \A j \in InUse : rows'[j].board = rows[j].board
  BY <1>3, <1>4
<1> QED
  BY <1>1, <1>3, <1>5, <1>6 DEF CascadeOK, TasksHaveBoards

\* Nobody is on a task.
LEMMA TaskDeleted ==
  ASSUME TablesInv, NEW e, NEW r, DeleteTask(e, r), cascade = <<>>, count' = count + 1
  PROVE  TablesInv'
<1> USE DEF TablesInv
<1>1. /\ RowsOK' /\ InUse' \subseteq InUse
      /\ \A i \in InUse' : rows'[i] = rows[i]
      /\ \/ InUse' = InUse \ {e.id} /\ undead' = undead
         \/ InUse' = InUse /\ undead' = undead \cup ({e.id} \cap InUse)
  BY Dropped DEF DeleteTask
<1>2. cascade' = <<>> /\ e.id \in Task
  BY DEF DeleteTask
<1>3. \A t \in InUse \cap Task : rows[t].board \in InUse => rows[t].board # e.id
  BY <1>2, KanbanAssumption DEF RowsOK, RowOK
<1>4. TasksHaveBoards'
  BY <1>1, <1>2, <1>3 DEF TasksHaveBoards
<1> QED
  BY <1>1, <1>2, <1>4 DEF CascadeOK

\* The board is gone, and its tasks are what the handler goes on to delete.
LEMMA BoardDeleted ==
  ASSUME TablesInv, NEW e, NEW r, DeleteBoard(e, r), cascade = <<>>, count' = count + 1
  PROVE  TablesInv'
<1> USE DEF TablesInv
<1>1. /\ RowsOK' /\ InUse' \subseteq InUse
      /\ \A i \in InUse' : rows'[i] = rows[i]
      /\ \/ InUse' = InUse \ {e.id} /\ undead' = undead
         \/ InUse' = InUse /\ undead' = undead \cup ({e.id} \cap InUse)
  BY Dropped DEF DeleteBoard
<1>2. cascade' = <<[board |-> e.id, room |-> r]>> /\ e.id \in Board
  BY DEF DeleteBoard
<1>3. CascadeOK' /\ cascade' # <<>> /\ Head(cascade').board = e.id
  BY <1>2 DEF CascadeOK
<1>4. TasksHaveBoards'
  BY <1>1, <1>3 DEF TasksHaveBoards
<1> QED
  BY <1>1, <1>3, <1>4

\* The tasks of the deleted board are gone with it, or known to have survived.
LEMMA Finished ==
  ASSUME TablesInv, FinishDelete
  PROVE  TablesInv'
<1> USE DEF TablesInv
<1> DEFINE b == Head(cascade).board
<1>1. cascade # <<>> /\ b \in Board /\ cascade' = <<>> /\ count' = count
  BY DEF FinishDelete, CascadeOK
<1>2. /\ RowsOK' /\ InUse' \subseteq InUse
      /\ \A i \in InUse' : rows'[i] = rows[i]
      /\ \/ InUse' = InUse \ TasksOf(b) /\ undead' = undead
         \/ InUse' = InUse /\ undead' = undead \cup (TasksOf(b) \cap InUse)
  BY Dropped DEF FinishDelete
<1>3. \A t \in InUse \cap Task : rows[t].board \in InUse \/ t \in undead \/ t \in TasksOf(b)
  BY <1>1 DEF TasksHaveBoards, TasksOf
<1>4. \A i \in TasksOf(b) : i \notin Board
  BY <1>1, KanbanAssumption DEF TasksOf, RowsOK, RowOK
<1>5. \A t \in InUse \cap Task : rows[t].board \in InUse => rows[t].board \notin TasksOf(b)
  BY <1>4, KanbanAssumption DEF RowsOK, RowOK
<1> HIDE DEF b
<1>6. TasksHaveBoards'
  BY <1>1, <1>2, <1>3, <1>5 DEF TasksHaveBoards
<1> QED
  BY <1>1, <1>2, <1>6 DEF CascadeOK

\* Cut off in the middle, the tasks of a deleted board stay, and are known to.
LEMMA CutOff ==
  ASSUME TablesInv, Restart
  PROVE  TablesInv'
<1> USE DEF TablesInv
<1>1. /\ rows' = rows /\ cascade' = <<>> /\ count' = count
      /\ undead' = IF cascade = <<>> THEN undead ELSE undead \cup TasksOf(Head(cascade).board)
  BY DEF Restart, LoseCascade
<1>2. InUse' = InUse /\ RowsOK' /\ CascadeOK'
  BY <1>1 DEF InUse, RowsOK, CascadeOK
<1>3. TasksHaveBoards'
  BY <1>1, <1>2 DEF TasksHaveBoards, TasksOf
<1> QED
  BY <1>1, <1>2, <1>3

\* The other steps are not about the tables.
LEMMA Elsewhere ==
  ASSUME TablesInv, UNCHANGED kanbanVars, count' \in Nat
  PROVE  TablesInv'
  BY DEF kanbanVars, TablesInv, RowsOK, CascadeOK, TasksHaveBoards, InUse

LEMMA TablesStep == TablesInv /\ [Next]_vars => TablesInv'
<1> SUFFICES ASSUME TablesInv, [Next]_vars PROVE TablesInv'
  OBVIOUS
<1>1. count \in Nat /\ count + 1 \in Nat
  BY DEF TablesInv
<1>2. CASE Peers /\ UNCHANGED <<kanbanVars, chatVars>>
  BY <1>1, <1>2, Elsewhere DEF Peers, Enter, Leave, Say, Deliver
<1>3. CASE HandleJoined
  <2>1. count' = count /\ UNCHANGED kanbanVars
    BY <1>3 DEF HandleJoined
  <2> QED
    BY <1>1, <2>1, Elsewhere
<1>4. CASE HandleMessage
  <2>1. cascade = <<>>
    BY <1>4 DEF HandleMessage, Ready
  <2>2. ASSUME NEW e \in Edit, NEW r, HandleEdit(e, r), count' = count + 1
        PROVE  TablesInv'
    BY <2>1, <2>2, Created, Changed, TaskDeleted, BoardDeleted DEF HandleEdit
  <2>3. CASE count' = count + 1 /\ UNCHANGED kanbanVars
    BY <1>1, <2>3, Elsewhere
  <2>4. CASE Refuse
    BY <1>1, <2>4, Elsewhere DEF Refuse
  <2> QED
    BY <1>4, <2>2, <2>3, <2>4 DEF HandleMessage
<1>5. CASE FinishDelete
  BY <1>5, Finished
<1>6. CASE Restart
  BY <1>6, CutOff
<1>7. CASE UNCHANGED vars
  BY <1>1, <1>7, Elsewhere DEF vars, floorVars
<1> QED
  BY <1>2, <1>3, <1>4, <1>5, <1>6, <1>7 DEF Next

----------------------------------------------------------------------------
\* The inductive invariant holds: a row of a board is on no board, a row of a task
\* on one that is there, or that is being deleted, or the task is known to be left.
THEOREM TablesHold == Spec => []TablesInv
<1> QED
  BY Tables, TablesStep, PTL DEF Spec

\* No task floats, for any number of boards, tasks, peers and messages of any kind:
\* only a delete that fails or is cut off leaves one (message_router.go:338).
THEOREM NoTaskFloats == Spec => []TasksHaveBoards
<1>1. TablesInv => TasksHaveBoards
  BY DEF TablesInv
<1> QED
  BY <1>1, TablesHold, PTL

----------------------------------------------------------------------------
(* Types. *)

\* What is in a queue.
Items(s) == {s[k] : k \in 1..Len(s)}

LEMMA ItemsConcat ==
  ASSUME NEW S, NEW s \in Seq(S), NEW t \in Seq(S)
  PROVE  /\ s \o t \in Seq(S) /\ Items(s \o t) = Items(s) \cup Items(t)
         /\ \A k \in 1..Len(s \o t) : \/ k \in 1..Len(s) /\ (s \o t)[k] = s[k]
                                      \/ k > Len(s) /\ (s \o t)[k] \in Items(t)
<1> DEFINE st == s \o t
<1>1. \A i \in 1..Len(s) : i \in 1..Len(st) /\ st[i] = s[i]
  OBVIOUS
<1>2. \A i \in 1..Len(t) : Len(s) + i \in 1..Len(st) /\ st[Len(s) + i] = t[i]
  OBVIOUS
<1>3. \A i \in 1..Len(st) :
        \/ i \in 1..Len(s) /\ st[i] = s[i]
        \/ i > Len(s) /\ i - Len(s) \in 1..Len(t) /\ st[i] = t[i - Len(s)]
  OBVIOUS
<1>4. st \in Seq(S)
  OBVIOUS
<1> HIDE DEF st
<1>5. Items(st) \subseteq Items(s) \cup Items(t)
  BY <1>3 DEF Items
<1>6. Items(s) \subseteq Items(st)
  BY <1>1 DEF Items
<1>7. Items(t) \subseteq Items(st)
  BY <1>2 DEF Items
<1>8. \A k \in 1..Len(st) : (k \in 1..Len(s) /\ st[k] = s[k]) \/ (k > Len(s) /\ st[k] \in Items(t))
  BY <1>3 DEF Items
<1> QED
  BY <1>4, <1>5, <1>6, <1>7, <1>8 DEF st

LEMMA ItemsAppend ==
  ASSUME NEW S, NEW s \in Seq(S), NEW x \in S
  PROVE  /\ Append(s, x) \in Seq(S) /\ Items(Append(s, x)) = Items(s) \cup {x}
         /\ \A k \in 1..Len(Append(s, x)) :
              \/ k \in 1..Len(s) /\ Append(s, x)[k] = s[k]
              \/ k = Len(s) + 1 /\ Append(s, x)[k] = x
<1> DEFINE a == Append(s, x)
<1>1. /\ a \in Seq(S) /\ Len(a) = Len(s) + 1 /\ a[Len(s) + 1] = x /\ Len(s) \in Nat
      /\ \A k \in 1..Len(s) : a[k] = s[k]
  OBVIOUS
<1> HIDE DEF a
<1>2. \A k \in 1..Len(a) : (k \in 1..Len(s) /\ a[k] = s[k]) \/ (k = Len(s) + 1 /\ a[k] = x)
  BY <1>1
<1>3. Items(a) \subseteq Items(s) \cup {x}
  BY <1>2 DEF Items
<1>4. Items(s) \subseteq Items(a)
  <2>1. \A k \in 1..Len(s) : k \in 1..Len(a)
    BY <1>1
  <2> QED
    BY <1>1, <2>1 DEF Items
<1>5. x \in Items(a)
  <2>1. Len(s) + 1 \in 1..Len(a)
    BY <1>1
  <2> QED
    BY <1>1, <2>1 DEF Items
<1> QED
  BY <1>1, <1>2, <1>3, <1>4, <1>5 DEF a

LEMMA ItemsTail ==
  ASSUME NEW S, NEW s \in Seq(S), s # <<>>
  PROVE  /\ Head(s) \in S /\ Tail(s) \in Seq(S) /\ Items(s) = {Head(s)} \cup Items(Tail(s))
         /\ Len(Tail(s)) = Len(s) - 1
         /\ \A k \in 1..Len(Tail(s)) : k + 1 \in 1..Len(s) /\ Tail(s)[k] = s[k + 1]
<1>1. /\ Len(Tail(s)) = Len(s) - 1 /\ Head(s) = s[1] /\ Len(s) \in Nat \ {0}
      /\ \A i \in 1..Len(Tail(s)) : i + 1 \in 1..Len(s) /\ Tail(s)[i] = s[i + 1]
  OBVIOUS
<1>2. \A i \in 1..Len(s) : i = 1 \/ (i - 1 \in 1..Len(Tail(s)) /\ Tail(s)[i - 1] = s[i])
  BY <1>1
<1>3. 1 \in 1..Len(s) /\ Head(s) \in S /\ Tail(s) \in Seq(S)
  BY <1>1
<1>4. Items(s) \subseteq {Head(s)} \cup Items(Tail(s))
  BY <1>1, <1>2 DEF Items
<1>5. {Head(s)} \cup Items(Tail(s)) \subseteq Items(s)
  BY <1>1, <1>3 DEF Items
<1> QED
  BY <1>1, <1>3, <1>4, <1>5

\* Numbers come from count; rows and messages are finitely many, and one of the
\* messages is the last.
Tallied ==
  /\ cascade # <<>> => count > 0
  /\ \A x \in Items(out) : x.n \in 1..count
  /\ \A i \in InUse : rows[i].n <= count
  /\ \A m \in DOMAIN posted : posted[m].n <= count
  /\ IsFiniteSet(InUse) /\ IsFiniteSet(DOMAIN posted)
  /\ posted = [m \in DOMAIN posted |-> posted[m]]
  /\ DOMAIN posted # {} =>
       \E m \in DOMAIN posted : \A p \in DOMAIN posted : posted[m].second >= posted[p].second

\* Messages are there only when there are numbers left for them.
Counted ==
  /\ count + Len(incoming) <= MaxCount
  /\ \A c \in Client, i \in Item : told[c][i] <= count
  /\ Tallied

FloorInv == TypeOK /\ Counted

\* A snapshot, in whatever order, is one note for each id.
LEMMA Snapshot ==
  ASSUME NEW e, NEW n, IsFiniteSet(DOMAIN n), Notes(e, n) \subseteq Note, NEW s \in Snapshots(e, n)
  PROVE  s \in Seq(Note) /\ Items(s) = Notes(e, n)
<1>1. Cardinality(DOMAIN n) \in Nat
  BY FS_CardinalityType
<1>2. s \in [1..Cardinality(DOMAIN n) -> Notes(e, n)] /\ \A x \in Notes(e, n) : \E k \in DOMAIN s : s[k] = x
  BY DEF Snapshots
<1>3. s \in Seq(Note) /\ Len(s) = Cardinality(DOMAIN n)
  BY <1>1, <1>2
<1> QED
  BY <1>2, <1>3 DEF Items

\* What a newcomer is sent: notes of rows and of messages in scope, and of all of
\* them unless the snapshot failed.
LEMMA Joined ==
  ASSUME FloorInv, HandleJoined
  PROVE  LET e == Head(events) IN
         /\ e \in [client : Client, room : Room]
         /\ \E s \in Seq(Note) :
              /\ out' = out \o s
              /\ \A x \in Items(s) :
                   /\ x.room = e.room /\ x.to = {e.client}
                   /\ \/ x.id \in InUse /\ x.n = rows[x.id].n
                      \/ /\ x.id \in ToRoom(e.room) \cup Of("all") \cup Private(e.client)
                         /\ x.n = posted[x.id].n
              /\ e.client \notin blind' =>
                   /\ \A i \in InUse : \E x \in Items(s) : x.id = i
                   /\ \E h \in Histories(e.room, e.client) : \A m \in h : \E x \in Items(s) : x.id = m
<1> DEFINE e == Head(events)
<1>1. /\ events \in Seq([client : Client, room : Room]) /\ events # <<>>
      /\ InUse \subseteq BoardOrTask /\ \A i \in InUse : rows[i].n \in Nat
      /\ DOMAIN posted \subseteq Message /\ \A m \in DOMAIN posted : posted[m].n \in Nat
      /\ saved \subseteq DOMAIN posted /\ out \in Seq(Note)
      /\ IsFiniteSet(InUse) /\ IsFiniteSet(DOMAIN posted)
  BY DEF FloorInv, TypeOK, FloorTypeOK, KanbanTypeOK, ChatTypeOK, Counted, Tallied,
         HandleJoined, Row, Post
<1>2. e \in [client : Client, room : Room]
  BY <1>1, ItemsTail
<1>3. PICK boards \in {{}, InUse \cap Board}, tasks \in {{}, InUse \cap Task},
           chat \in Partial(e.room, e.client) :
        /\ \E s \in Snapshots(e, [i \in boards |-> rows[i].n]),
              t \in Snapshots(e, [i \in tasks |-> rows[i].n]),
              h \in Snapshots(e, [m \in chat |-> posted[m].n]) :
             out' = out \o s \o t \o h
        /\ blind' = IF boards \cup tasks = InUse /\ chat \in Histories(e.room, e.client)
                      THEN blind \ {e.client} ELSE blind \cup {e.client}
  BY DEF HandleJoined
<1> HIDE DEF e
<1>4. PICK s \in Snapshots(e, [i \in boards |-> rows[i].n]),
           t \in Snapshots(e, [i \in tasks |-> rows[i].n]),
           h \in Snapshots(e, [m \in chat |-> posted[m].n]) :
        out' = out \o s \o t \o h
  BY <1>3
<1>5. /\ \A S, H : H \in Newest(S) => H \subseteq S
      /\ chat \subseteq ToRoom(e.room) \cup Of("all") \cup Private(e.client)
      /\ chat \subseteq DOMAIN posted
  <2>1. \A S, H : H \in Newest(S) => H \subseteq S
    BY DEF Newest
  <2>2. chat \subseteq ToRoom(e.room) \cup Of("all") \cup Private(e.client)
    BY <2>1 DEF Partial
  <2> QED
    BY <1>1, <2>1, <2>2 DEF ToRoom, Of, Private
<1>6. BoardOrTask \subseteq Item /\ Message \subseteq Item
  BY KanbanAssumption, ChatAssumption DEF BoardOrTask
<1>7. ASSUME NEW S, NEW f, S \in SUBSET Item, IsFiniteSet(S), DOMAIN f = S, \A i \in S : f[i] \in Nat,
             NEW q \in Snapshots(e, f)
      PROVE  q \in Seq(Note) /\ Items(q) = Notes(e, f)
  <2>1. Notes(e, f) \subseteq Note
    BY <1>2, <1>7 DEF Notes, Note
  <2> QED
    BY <1>7, <2>1, Snapshot
<1>8. s \in Seq(Note) /\ Items(s) = Notes(e, [i \in boards |-> rows[i].n])
  <2>1. boards \subseteq InUse /\ IsFiniteSet(boards)
    BY <1>1, FS_Subset
  <2> QED
    BY <1>1, <1>6, <1>7, <2>1
<1>9. t \in Seq(Note) /\ Items(t) = Notes(e, [i \in tasks |-> rows[i].n])
  <2>1. tasks \subseteq InUse /\ IsFiniteSet(tasks)
    BY <1>1, FS_Subset
  <2> QED
    BY <1>1, <1>6, <1>7, <2>1
<1>10. h \in Seq(Note) /\ Items(h) = Notes(e, [m \in chat |-> posted[m].n])
  <2>1. IsFiniteSet(chat)
    BY <1>1, <1>5, FS_Subset
  <2> QED
    BY <1>1, <1>5, <1>6, <1>7, <2>1
<1> DEFINE n1 == Notes(e, [i \in boards |-> rows[i].n])
           n2 == Notes(e, [i \in tasks |-> rows[i].n])
           n3 == Notes(e, [m \in chat |-> posted[m].n])
           all == s \o (t \o h)
<1>11. all \in Seq(Note) /\ Items(all) = n1 \cup n2 \cup n3 /\ out' = out \o all
  <2> DEFINE th == t \o h
             os == out \o s
  <2>1. \A p, q \in Seq(Note) : p \o q \in Seq(Note) /\ Items(p \o q) = Items(p) \cup Items(q)
    BY ItemsConcat
  <2>2. \A o, p, q \in Seq(Note) : (o \o p) \o q = o \o (p \o q)
    BY ConcatAssociative
  <2>3. th \in Seq(Note) /\ Items(th) = Items(t) \cup Items(h)
    BY <1>9, <1>10, <2>1
  <2>4. os \in Seq(Note)
    BY <1>1, <1>8, <2>1
  <2>5. out' = os \o th
    BY <1>4, <1>9, <1>10, <2>2, <2>4
  <2> HIDE DEF th
  <2>6. s \o th \in Seq(Note) /\ Items(s \o th) = Items(s) \cup Items(th)
    BY <1>8, <2>1, <2>3
  <2>7. out' = out \o (s \o th)
    BY <1>1, <1>8, <2>2, <2>3, <2>5
  <2>8. Items(s \o th) = n1 \cup n2 \cup n3
    BY <1>8, <1>9, <1>10, <2>3, <2>6
  <2> QED
    BY <2>6, <2>7, <2>8 DEF th
<1>12. /\ \A x \in n1 \cup n2 : x.room = e.room /\ x.to = {e.client} /\ x.id \in InUse /\ x.n = rows[x.id].n
       /\ \A x \in n3 : x.room = e.room /\ x.to = {e.client} /\ x.id \in chat /\ x.n = posted[x.id].n
  BY DEF Notes
<1>13. /\ \A i \in boards \cup tasks : \E x \in n1 \cup n2 : x.id = i
       /\ \A m \in chat : \E x \in n3 : x.id = m
  <2>1. ASSUME NEW f, NEW i \in DOMAIN f PROVE \E x \in Notes(e, f) : x.id = i
    <3> DEFINE x == [room |-> e.room, to |-> {e.client}, id |-> i, n |-> f[i]]
    <3>1. x \in Notes(e, f) /\ x.id = i
      BY <2>1 DEF Notes
    <3> QED
      BY <3>1
  <2>2. \A i \in boards : \E x \in n1 : x.id = i
    BY <2>1
  <2>3. \A i \in tasks : \E x \in n2 : x.id = i
    BY <2>1
  <2>4. \A m \in chat : \E x \in n3 : x.id = m
    BY <2>1
  <2> HIDE DEF n1, n2, n3
  <2> QED
    BY <2>2, <2>3, <2>4
<1>14. e.client \notin blind' => boards \cup tasks = InUse /\ chat \in Histories(e.room, e.client)
  BY <1>3
<1> HIDE DEF n1, n2, n3, all
<1>15. \A x \in Items(all) :
         /\ x.room = e.room /\ x.to = {e.client}
         /\ \/ x.id \in InUse /\ x.n = rows[x.id].n
            \/ /\ x.id \in ToRoom(e.room) \cup Of("all") \cup Private(e.client)
               /\ x.n = posted[x.id].n
  BY <1>5, <1>11, <1>12
<1>16. ASSUME e.client \notin blind'
       PROVE  /\ \A i \in InUse : \E x \in Items(all) : x.id = i
              /\ \E g \in Histories(e.room, e.client) : \A m \in g : \E x \in Items(all) : x.id = m
  <2>1. \A i \in InUse : \E x \in Items(all) : x.id = i
    BY <1>11, <1>13, <1>14, <1>16
  <2>2. \A m \in chat : \E x \in Items(all) : x.id = m
    BY <1>11, <1>13
  <2> QED
    BY <1>14, <1>16, <2>1, <2>2
<1> QED
  BY <1>2, <1>11, <1>15, <1>16 DEF e

LEMMA FloorStart == Init => FloorInv
<1> SUFFICES ASSUME Init PROVE FloorInv
  OBVIOUS
<1> USE DEF Init, FloorInit, KanbanInit, ChatInit
<1>1. count = 0 /\ out = <<>> /\ Items(out) = {} /\ InUse = {} /\ DOMAIN posted = {}
  BY DEF Items, InUse
<1>2. FloorTypeOK
  BY FloorAssumption DEF FloorTypeOK, Unaware
<1>3. KanbanTypeOK
  BY <1>1 DEF KanbanTypeOK
<1>4. ChatTypeOK
  BY <1>1 DEF ChatTypeOK
<1>5. \A c \in Client, i \in Item : told[c][i] <= count
  BY <1>1 DEF Unaware
<1>6. count + Len(incoming) <= MaxCount
  BY <1>1, FloorAssumption
<1>7. Counted
  BY <1>1, <1>5, <1>6, FS_EmptySet DEF Counted, Tallied
<1> QED
  BY <1>2, <1>3, <1>4, <1>7 DEF FloorInv, TypeOK

\* Nothing the types and counts say of the tables changes.
LEMMA TablesAlone ==
  ASSUME FloorInv, UNCHANGED <<rows, cascade, undead, announced, fresh, chatVars>>
  PROVE  KanbanTypeOK' /\ ChatTypeOK' /\ InUse' = InUse
  BY DEF FloorInv, TypeOK, KanbanTypeOK, ChatTypeOK, chatVars, InUse

LEMMA PeersTypes ==
  ASSUME FloorInv, Peers, UNCHANGED <<kanbanVars, chatVars>>
  PROVE  FloorInv'
<1> USE DEF FloorInv, TypeOK, FloorTypeOK
<1>1. UNCHANGED <<fresh, count, pool, blind>> /\ count \in Nat /\ MaxCount \in Nat
  <2>1. UNCHANGED <<fresh, count, pool, blind>>
    BY DEF Peers, Enter, Leave, Say, Deliver
  <2> QED
    BY <2>1, FloorAssumption
<1>2. KanbanTypeOK' /\ ChatTypeOK' /\ InUse' = InUse
  BY <1>1, TablesAlone DEF kanbanVars
<1>3. ASSUME FloorTypeOK', Items(out') \subseteq Items(out),
             \A c \in Client, i \in Item : told'[c][i] <= count,
             count + Len(incoming') <= MaxCount
      PROVE  FloorInv'
  BY <1>1, <1>2, <1>3 DEF Counted, Tallied, kanbanVars, chatVars
<1>4. ASSUME NEW c \in Client, NEW r \in Room, Enter(c, r) PROVE FloorInv'
  <2>1. joins' \in 0..MaxJoins
    BY <1>4, FloorAssumption DEF Enter
  <2>2. FloorTypeOK'
    BY <1>4, <2>1 DEF Enter
  <2> QED
    BY <1>3, <1>4, <2>2 DEF Enter, Counted
<1>5. ASSUME NEW c \in Client, Leave(c) PROVE FloorInv'
  <2>1. \A d \in Client, i \in Item : told'[d][i] = told[d][i] \/ told'[d][i] = 0
    BY <1>5 DEF Leave, Unaware
  <2>2. told' \in [Client -> [Item -> 0..MaxCount]]
    BY <1>1, <1>5 DEF Leave, Unaware
  <2>3. at' \in [Client -> Room \cup {Nowhere}]
    BY <1>5 DEF Leave
  <2>4. FloorTypeOK'
    BY <1>5, <2>2, <2>3 DEF Leave
  <2>5. \A d \in Client, i \in Item : told'[d][i] <= count
    <3>1. \A d \in Client, i \in Item : told[d][i] <= count
      BY DEF Counted
    <3>2. count \in Nat
      BY <1>1
    <3> QED
      BY ONLY <2>1, <3>1, <3>2
  <2> QED
    BY <1>3, <1>5, <2>4, <2>5 DEF Leave, Counted
<1>6. ASSUME NEW c \in Client, Say(c) PROVE FloorInv'
  <2>1. incoming' \in Seq([client : Client, room : Room]) /\ count + Len(incoming') <= MaxCount
    <3>1. at[c] \in Room
      BY <1>6 DEF Say
    <3>2. incoming \in Seq([client : Client, room : Room]) /\ Len(incoming) \in Nat
      OBVIOUS
    <3>3. [client |-> c, room |-> at[c]] \in [client : Client, room : Room]
      BY <3>1
    <3>4. /\ incoming' \in Seq([client : Client, room : Room])
          /\ Len(incoming') = Len(incoming) + 1
      BY <1>6, <3>2, <3>3 DEF Say
    <3>5. count + Len(incoming) < MaxCount
      BY <1>6 DEF Say
    <3> QED
      BY <1>1, <3>2, <3>4, <3>5
  <2>2. FloorTypeOK'
    BY <1>6, <2>1 DEF Say, peerVars
  <2> QED
    BY <1>3, <1>6, <2>1, <2>2 DEF Say, peerVars, Counted
<1>7. CASE Deliver
  <2> DEFINE m == Head(out)
  <2>1. /\ m \in Note /\ out' \in Seq(Note) /\ Items(out) = {m} \cup Items(out')
    BY <1>7, ItemsTail DEF Deliver
  <2>2. m.n \in 1..count /\ m.id \in Item
    BY <2>1 DEF Counted, Tallied, Note
  <2>3. told' = [c \in Client |-> IF Hears(c, m) THEN [told[c] EXCEPT ![m.id] = m.n] ELSE told[c]]
    BY <1>7 DEF Deliver
  <2> HIDE DEF m
  <2>4. /\ told' \in [Client -> [Item -> 0..MaxCount]]
        /\ \A c \in Client, i \in Item : told'[c][i] = told[c][i] \/ told'[c][i] = m.n
    BY <1>1, <2>2, <2>3
  <2>5. FloorTypeOK'
    BY <1>7, <2>1, <2>4 DEF Deliver
  <2>6. \A c \in Client, i \in Item : told'[c][i] <= count
    <3>1. \A c \in Client, i \in Item : told[c][i] <= count
      BY DEF Counted
    <3>2. m.n <= count
      BY <1>1, <2>2
    <3> QED
      BY ONLY <2>4, <3>1, <3>2
  <2> QED
    BY <1>3, <1>7, <2>1, <2>5, <2>6 DEF Deliver, Counted
<1> QED
  BY <1>4, <1>5, <1>6, <1>7 DEF Peers

LEMMA JoinedTypes ==
  ASSUME FloorInv, HandleJoined
  PROVE  FloorInv'
<1> USE DEF FloorInv, TypeOK, FloorTypeOK
<1> DEFINE e == Head(events)
<1>1. /\ UNCHANGED <<rows, cascade, undead, announced, fresh, chatVars>>
      /\ UNCHANGED <<at, told, incoming, pool, count, joins, posted, saved>>
      /\ events # <<>> /\ events' = Tail(events)
      /\ blind' \in {blind \ {e.client}, blind \cup {e.client}}
  BY DEF HandleJoined, kanbanVars, peerVars, chatVars
<1>2. KanbanTypeOK' /\ ChatTypeOK' /\ InUse' = InUse
  BY <1>1, TablesAlone
<1>3. e \in [client : Client, room : Room] /\ events' \in Seq([client : Client, room : Room])
  BY <1>1, ItemsTail
<1>4. PICK s \in Seq(Note) :
        /\ out' = out \o s
        /\ \A x \in Items(s) :
             \/ x.id \in InUse /\ x.n = rows[x.id].n
             \/ x.id \in DOMAIN posted /\ x.n = posted[x.id].n
  <2>1. \A r, u : ToRoom(r) \cup Of("all") \cup Private(u) \subseteq DOMAIN posted
    BY DEF ToRoom, Of, Private, ChatTypeOK
  <2> QED
    BY <2>1, Joined
<1>5. out' \in Seq(Note) /\ Items(out') = Items(out) \cup Items(s)
  BY <1>4, ItemsConcat
<1>6. /\ \A i \in InUse : rows[i].n \in 1..count
      /\ \A m \in DOMAIN posted : posted[m].n \in 1..count
  BY FloorAssumption DEF Counted, Tallied, KanbanTypeOK, ChatTypeOK, Row, Post
<1>7. \A x \in Items(out') : x.n \in 1..count
  BY <1>4, <1>5, <1>6 DEF Counted, Tallied
<1>8. FloorTypeOK'
  BY <1>1, <1>3, <1>5
<1>9. Counted'
  BY <1>1, <1>2, <1>7 DEF Counted, Tallied
<1> QED
  BY <1>2, <1>8, <1>9

\* A broadcast is a note with the newest of all numbers.
LEMMA Announced ==
  ASSUME FloorInv, NEW i \in Item, NEW r \in Room \cup {Anywhere},
         count' \in Nat \ {0}, count' >= count, out' = Append(out, Announcement(i, r))
  PROVE  /\ Announcement(i, r) \in Note /\ out' \in Seq(Note)
         /\ Items(out') = Items(out) \cup {Announcement(i, r)}
         /\ \A x \in Items(out') : x.n \in 1..count'
<1>1. Announcement(i, r) \in Note
  BY DEF Announcement, Note
<1>2. out \in Seq(Note) /\ count \in Nat /\ \A x \in Items(out) : x.n \in 1..count
  BY FloorAssumption DEF FloorInv, TypeOK, FloorTypeOK, Counted, Tallied
<1>3. out' \in Seq(Note) /\ Items(out') = Items(out) \cup {Announcement(i, r)}
  BY <1>1, <1>2, ItemsAppend
<1>4. Announcement(i, r).n = count'
  BY DEF Announcement
<1> QED
  BY <1>1, <1>2, <1>3, <1>4

\* What a change of the tables has to keep.
TablesOK ==
  KanbanTypeOK /\ ChatTypeOK /\ out \in Seq(Note) /\ fresh \subseteq pool /\ Tallied

LEMMA RowsTyped ==
  ASSUME FloorInv
  PROVE  /\ RowsOK /\ count \in Nat /\ InUse \subseteq BoardOrTask \ fresh
         /\ BoardOrTask \subseteq Item /\ \A i \in InUse : rows[i].n \in 1..count
<1>1. \A i \in InUse : RowOK(i, rows[i]) /\ rows[i].n \in 1..count
  BY FloorAssumption DEF FloorInv, TypeOK, FloorTypeOK, KanbanTypeOK, Counted, Tallied, RowOK, Row
<1>2. InUse \subseteq BoardOrTask \ fresh /\ count \in Nat
  BY FloorAssumption DEF FloorInv, TypeOK, FloorTypeOK, KanbanTypeOK
<1> QED
  BY <1>1, <1>2, KanbanAssumption DEF RowsOK, BoardOrTask

\* Rows that are deleted or not, with a number that has not gone down.
LEMMA DropTypes ==
  ASSUME FloorInv, NEW ids, Drop(ids), count' \in Nat \ {0}, count' >= count,
         UNCHANGED <<fresh, pool, chatVars>>, out' \in Seq(Note),
         \A x \in Items(out') : x.n \in 1..count',
         cascade' \in Seq([board : Board, room : Room]), Len(cascade') <= 1,
         announced' \in [BoardOrTask -> Room \cup {Nowhere}]
  PROVE  TablesOK'
<1>1. /\ InUse' \subseteq InUse /\ \A i \in InUse' : rows'[i] = rows[i]
      /\ undead' = undead \/ undead' = undead \cup (ids \cap InUse)
  BY RowsTyped, Dropped
<1>2. KanbanTypeOK'
  <2>1. InUse' \subseteq BoardOrTask \ fresh' /\ undead' \subseteq BoardOrTask
    BY <1>1, RowsTyped DEF FloorInv, TypeOK, KanbanTypeOK
  <2>2. \A i \in InUse' : rows'[i] \in Row /\ (i \in Board <=> rows'[i].board = NoBoard)
    BY <1>1 DEF FloorInv, TypeOK, KanbanTypeOK
  <2> QED
    BY <2>1, <2>2 DEF KanbanTypeOK
<1>3. ChatTypeOK' /\ fresh' \subseteq pool'
  BY DEF FloorInv, TypeOK, FloorTypeOK, ChatTypeOK, chatVars
<1>4. IsFiniteSet(InUse')
  BY <1>1, FS_Subset DEF FloorInv, Counted, Tallied
<1>5. \A i \in InUse' : rows'[i].n <= count'
  BY <1>1, RowsTyped
<1>6. \A m \in DOMAIN posted : posted[m].n \in Nat /\ posted[m].n <= count /\ count \in Nat
  BY FloorAssumption
  DEF FloorInv, TypeOK, FloorTypeOK, ChatTypeOK, Counted, Tallied, Post
<1>7. \A m \in DOMAIN posted' : posted'[m].n <= count'
  BY <1>6 DEF chatVars
<1>8. Tallied'
  BY <1>4, <1>5, <1>7 DEF Tallied, FloorInv, Counted, chatVars
<1> QED
  BY <1>2, <1>3, <1>8 DEF TablesOK

LEMMA CreateTypes ==
  ASSUME FloorInv, NEW e \in Edit, NEW r \in Room, Create(e, r), cascade = <<>>,
         count' = count + 1, count < MaxCount, UNCHANGED <<pool, chatVars>>
  PROVE  TablesOK'
<1> DEFINE row == [n |-> count + 1, board |-> e.board]
<1>1. /\ e.id \in BoardOrTask /\ e.board \in Board \cup {NoBoard} /\ e.id \in fresh
      /\ IF e.id \in Board THEN e.board = NoBoard ELSE e.board \in InUse
      /\ UNCHANGED <<cascade, undead>> /\ fresh' = fresh \ {e.id}
      /\ out' = Append(out, Announcement(e.id, r))
      /\ announced' = [announced EXCEPT ![e.id] = r]
  BY DEF Create, Edit, Announce
<1>2. /\ InUse' = InUse \cup {e.id} /\ rows'[e.id] = row
      /\ \A i \in InUse \ {e.id} : rows'[i] = rows[i]
  BY DEF Create, Insert, InUse
<1>3. count \in Nat /\ MaxCount \in Nat /\ count + 1 \in 1..MaxCount
  BY RowsTyped, FloorAssumption
<1>4. row \in Row /\ row.board = e.board /\ row.n = count + 1
  BY <1>1, <1>3 DEF Row
<1> HIDE DEF row
<1>5. e.id \in Board <=> e.board = NoBoard
  BY <1>1, RowsTyped, KanbanAssumption DEF BoardOrTask
<1>6. out' \in Seq(Note) /\ \A x \in Items(out') : x.n \in 1..count'
  BY <1>1, <1>3, RowsTyped, Announced
<1>7. KanbanTypeOK'
  <2>1. InUse' \subseteq BoardOrTask \ fresh'
    BY <1>1, <1>2, RowsTyped
  <2>2. \A i \in InUse : rows[i] \in Row /\ (i \in Board <=> rows[i].board = NoBoard)
    BY DEF FloorInv, TypeOK, KanbanTypeOK
  <2>3. \A i \in InUse' : rows'[i] \in Row /\ (i \in Board <=> rows'[i].board = NoBoard)
    BY <1>2, <1>4, <1>5, <2>2
  <2>4. /\ cascade' \in Seq([board : Board, room : Room]) /\ Len(cascade') <= 1
        /\ undead' \subseteq BoardOrTask /\ announced' \in [BoardOrTask -> Room \cup {Nowhere}]
    BY <1>1 DEF FloorInv, TypeOK, KanbanTypeOK
  <2> QED
    BY <2>1, <2>3, <2>4 DEF KanbanTypeOK
<1>8. ChatTypeOK' /\ fresh' \subseteq pool'
  BY <1>1 DEF FloorInv, TypeOK, FloorTypeOK, ChatTypeOK, chatVars
<1>9. IsFiniteSet(InUse')
  BY <1>2, FS_AddElement DEF FloorInv, Counted, Tallied
<1>10. \A i \in InUse' : rows'[i].n <= count'
  BY <1>2, <1>3, <1>4, RowsTyped
<1>11. \A m \in DOMAIN posted' : posted'[m].n <= count'
  <2>1. \A m \in DOMAIN posted : posted[m].n \in Nat /\ posted[m].n <= count
    BY FloorAssumption
    DEF FloorInv, TypeOK, FloorTypeOK, ChatTypeOK, Counted, Tallied, Post
  <2> QED
    BY <1>3, <2>1 DEF chatVars
<1>12. Tallied'
  BY <1>3, <1>6, <1>9, <1>10, <1>11 DEF Tallied, FloorInv, Counted, chatVars
<1> QED
  BY <1>6, <1>7, <1>8, <1>12 DEF TablesOK

LEMMA ChangeTypes ==
  ASSUME FloorInv, NEW e, NEW r \in Room, Change(e, r), cascade = <<>>,
         count' = count + 1, count < MaxCount, UNCHANGED <<pool, chatVars>>
  PROVE  TablesOK'
<1> DEFINE i == e.id
<1>1. /\ i \in InUse /\ UNCHANGED <<fresh, cascade, undead>>
      /\ rows' = [rows EXCEPT ![i] = [rows[i] EXCEPT !.n = count + 1]]
      /\ out' = Append(out, Announcement(i, r))
      /\ announced' = [announced EXCEPT ![i] = r]
  BY DEF Change, Announce
<1>2. count \in Nat /\ MaxCount \in Nat /\ count + 1 \in 1..MaxCount /\ i \in BoardOrTask
  BY <1>1, RowsTyped, FloorAssumption
<1>3. /\ InUse' = InUse /\ rows'[i] = [rows[i] EXCEPT !.n = count + 1]
      /\ \A j \in InUse \ {i} : rows'[j] = rows[j]
  BY <1>1 DEF InUse
<1>4. \A j \in InUse : rows[j] \in Row /\ (j \in Board <=> rows[j].board = NoBoard)
  BY DEF FloorInv, TypeOK, KanbanTypeOK
<1>5. rows'[i] \in Row /\ rows'[i].board = rows[i].board /\ rows'[i].n = count + 1
  BY <1>1, <1>2, <1>3, <1>4 DEF Row
<1>6. out' \in Seq(Note) /\ \A x \in Items(out') : x.n \in 1..count'
  BY <1>1, <1>2, RowsTyped, Announced
<1> HIDE DEF i
<1>7. KanbanTypeOK'
  <2>1. InUse' \subseteq BoardOrTask \ fresh'
    BY <1>1, <1>3, RowsTyped
  <2>2. \A j \in InUse' : rows'[j] \in Row /\ (j \in Board <=> rows'[j].board = NoBoard)
    BY <1>1, <1>3, <1>4, <1>5
  <2>3. /\ cascade' \in Seq([board : Board, room : Room]) /\ Len(cascade') <= 1
        /\ undead' \subseteq BoardOrTask /\ announced' \in [BoardOrTask -> Room \cup {Nowhere}]
    BY <1>1 DEF FloorInv, TypeOK, KanbanTypeOK
  <2> QED
    BY <2>1, <2>2, <2>3 DEF KanbanTypeOK
<1>8. ChatTypeOK' /\ fresh' \subseteq pool'
  BY <1>1 DEF FloorInv, TypeOK, FloorTypeOK, ChatTypeOK, chatVars
<1>9. \A j \in InUse' : rows'[j].n <= count'
  <2>1. \A j \in InUse : rows[j].n \in 1..count
    BY RowsTyped
  <2>2. rows'[i].n <= count'
    BY <1>2, <1>5
  <2>3. \A j \in InUse' : j # i => rows'[j].n <= count'
    BY <1>2, <1>3, <2>1
  <2> QED
    BY <2>2, <2>3
<1>10. \A m \in DOMAIN posted' : posted'[m].n <= count'
  <2>1. \A m \in DOMAIN posted : posted[m].n \in Nat /\ posted[m].n <= count
    BY FloorAssumption
    DEF FloorInv, TypeOK, FloorTypeOK, ChatTypeOK, Counted, Tallied, Post
  <2> QED
    BY <1>2, <2>1 DEF chatVars
<1>11. Tallied'
  BY <1>2, <1>3, <1>6, <1>9, <1>10 DEF Tallied, FloorInv, Counted, chatVars
<1> QED
  BY <1>6, <1>7, <1>8, <1>11 DEF TablesOK

LEMMA DeleteTypes ==
  ASSUME FloorInv, NEW e \in Edit, NEW r \in Room, DeleteTask(e, r) \/ DeleteBoard(e, r),
         cascade = <<>>, count' = count + 1, UNCHANGED <<pool, chatVars>>
  PROVE  TablesOK'
<1>1. /\ Drop({e.id}) /\ UNCHANGED fresh /\ e.id \in BoardOrTask
      /\ count' \in Nat \ {0} /\ count' >= count
  BY RowsTyped DEF DeleteTask, DeleteBoard, BoardOrTask
<1>2. /\ out \in Seq(Note) /\ \A x \in Items(out) : x.n \in 1..count
      /\ announced \in [BoardOrTask -> Room \cup {Nowhere}]
  BY DEF FloorInv, TypeOK, FloorTypeOK, KanbanTypeOK, Counted, Tallied
<1>3. CASE DeleteTask(e, r)
  <2>1. /\ out' = Append(out, Announcement(e.id, r)) /\ cascade' = <<>>
        /\ announced' = [announced EXCEPT ![e.id] = r]
    BY <1>3 DEF DeleteTask, Announce
  <2>2. out' \in Seq(Note) /\ \A x \in Items(out') : x.n \in 1..count'
    BY <1>1, <2>1, RowsTyped, Announced
  <2>3. announced' \in [BoardOrTask -> Room \cup {Nowhere}]
    BY <1>2, <2>1
  <2>4. cascade' \in Seq([board : Board, room : Room]) /\ Len(cascade') <= 1
    BY <2>1
  <2> QED
    BY <1>1, <2>2, <2>3, <2>4, DropTypes
<1>4. CASE DeleteBoard(e, r)
  <2>1. cascade' = <<[board |-> e.id, room |-> r]>> /\ e.id \in Board /\ UNCHANGED <<out, announced>>
    BY <1>4 DEF DeleteBoard
  <2>2. cascade' \in Seq([board : Board, room : Room]) /\ Len(cascade') <= 1
    BY <2>1
  <2>3. \A x \in Items(out) : x.n \in 1..count'
    BY <1>2, RowsTyped
  <2>4. Items(out') = Items(out)
    BY <2>1
  <2> QED
    BY <1>1, <1>2, <2>1, <2>2, <2>3, <2>4, DropTypes
<1> QED
  BY <1>3, <1>4

LEMMA NoneDefined ==
  ASSUME NEW f, f = [x \in DOMAIN f |-> f[x]], DOMAIN f = {}
  PROVE  f = <<>>
  OBVIOUS

\* What is sent of a message goes to all it is for, and to nobody else.
LEMMA Sent ==
  ASSUME NEW m \in Message, NEW scope \in Scope, NEW r \in Room,
         NEW from \in Client, NEW to \in Client, count' \in Nat
  PROVE  /\ Sends(m, scope, r, from, to) \in Seq(Note)
         /\ \A x \in Items(Sends(m, scope, r, from, to)) :
              /\ x.id = m /\ x.n = count'
              /\ scope = "room" => x.room = r
              /\ scope = "private" => x.to \subseteq {from, to}
         /\ scope = "room" =>
              \A c \in Client : \E x \in Items(Sends(m, scope, r, from, to)) : c \in x.to /\ x.room = r
         /\ scope = "all" =>
              \A c \in Client :
                \E x \in Items(Sends(m, scope, r, from, to)) : c \in x.to /\ x.room = Anywhere
         /\ scope = "private" =>
              /\ \E x \in Items(Sends(m, scope, r, from, to)) : from \in x.to /\ x.room = Anywhere
              /\ \E x \in Items(Sends(m, scope, r, from, to)) : to \in x.to /\ x.room = Anywhere
<1> DEFINE q == Sends(m, scope, r, from, to)
           w(u, v) == [room |-> u, to |-> v, id |-> m, n |-> count']
<1>1. \A x \in Note : <<x>> \in Seq(Note) /\ Items(<<x>>) = {x}
  BY DEF Items
<1>2. \A x, y \in Note : <<x, y>> \in Seq(Note) /\ Items(<<x, y>>) = {x, y}
  BY DEF Items
<1>3. m \in Item
  BY ChatAssumption
<1>4. CASE scope = "all"
  <2> DEFINE x == w(Anywhere, Client)
  <2>1. q = <<x>>
    BY <1>4 DEF Sends, Announcement
  <2>2. x \in Note /\ x.id = m /\ x.n = count' /\ x.room = Anywhere /\ x.to = Client
    BY <1>3 DEF Note
  <2> HIDE DEF q, x
  <2>3. q \in Seq(Note) /\ Items(q) = {x}
    BY <1>1, <2>1, <2>2
  <2> QED
    BY <1>4, <2>2, <2>3 DEF q
<1>5. CASE scope = "private"
  <2> DEFINE x == w(Anywhere, {to})
             y == w(Anywhere, {from})
  <2>1. q = <<x, y>>
    BY <1>5 DEF Sends, Announcement
  <2>2. /\ x \in Note /\ x.id = m /\ x.n = count' /\ x.room = Anywhere /\ x.to = {to}
        /\ y \in Note /\ y.id = m /\ y.n = count' /\ y.room = Anywhere /\ y.to = {from}
    BY <1>3 DEF Note
  <2> HIDE DEF q, x, y
  <2>3. q \in Seq(Note) /\ Items(q) = {x, y}
    BY <1>2, <2>1, <2>2
  <2> QED
    BY <1>5, <2>2, <2>3 DEF q
<1>6. CASE scope \in {"room", "other"}
  <2> DEFINE x == w(r, Client)
  <2>1. q = <<x>>
    BY <1>6 DEF Sends, Announcement
  <2>2. x \in Note /\ x.id = m /\ x.n = count' /\ x.room = r /\ x.to = Client
    BY <1>3 DEF Note
  <2> HIDE DEF q, x
  <2>3. q \in Seq(Note) /\ Items(q) = {x}
    BY <1>1, <2>1, <2>2
  <2> QED
    BY <1>6, <2>2, <2>3 DEF q
<1> QED
  BY <1>4, <1>5, <1>6 DEF Scope

\* A message that is recorded is the last, or as late as the last.
LEMMA ChatTypes ==
  ASSUME FloorInv, NEW m \in Message, NEW scope \in Scope, NEW r \in Room,
         NEW from \in Client, NEW to \in Client, HandleChat(m, scope, r, from, to),
         count' = count + 1, count < MaxCount, UNCHANGED <<pool, kanbanVars>>
  PROVE  TablesOK' /\ \E q \in Seq(Note) : q = Sends(m, scope, r, from, to) /\ out' = out \o q
<1>1. PICK t \in Now :
        Record(m, [scope |-> scope, room |-> IF scope = "room" THEN r ELSE Nowhere,
                   parties |-> IF scope = "private" THEN {from, to} ELSE {},
                   n |-> count', second |-> t])
  BY DEF HandleChat
<1> DEFINE post == [scope |-> scope, room |-> IF scope = "room" THEN r ELSE Nowhere,
                    parties |-> IF scope = "private" THEN {from, to} ELSE {},
                    n |-> count', second |-> t]
<1>2. /\ count \in Nat /\ MaxCount \in Nat /\ count' \in 1..MaxCount
      /\ out \in Seq(Note) /\ \A x \in Items(out) : x.n \in 1..count
  BY FloorAssumption DEF FloorInv, TypeOK, FloorTypeOK, Counted, Tallied
<1>3. t \in Nat /\ \A p \in DOMAIN posted : t >= posted[p].second
  <2>1. CASE posted = <<>>
    BY <2>1 DEF Now
  <2>2. CASE posted # <<>>
    <3> DEFINE S == {posted[p].second : p \in DOMAIN posted}
    <3>1. \A p \in DOMAIN posted : posted[p].second \in Nat
      BY DEF FloorInv, TypeOK, ChatTypeOK, Post
    <3>2. DOMAIN posted # {}
      BY <2>2, NoneDefined DEF FloorInv, Counted, Tallied
    <3>3. \E x \in S : \A y \in S : x >= y
      BY <3>2 DEF FloorInv, Counted, Tallied
    <3>4. Max(S) \in S /\ \A y \in S : Max(S) >= y
      BY <3>3 DEF Max
    <3>5. t \in {Max(S), Max(S) + 1}
      BY <2>2 DEF Now
    <3> HIDE DEF S
    <3>6. S \subseteq Nat /\ \A p \in DOMAIN posted : posted[p].second \in S
      BY <3>1 DEF S
    <3> DEFINE mx == Max(S)
    <3>7. mx \in S /\ t \in {mx, mx + 1} /\ \A y \in S : mx >= y
      BY <3>4, <3>5
    <3> HIDE DEF mx
    <3>8. mx \in Nat /\ t \in Nat /\ t >= mx
      BY <3>6, <3>7
    <3>9. ASSUME NEW p \in DOMAIN posted PROVE t >= posted[p].second
      <4>1. posted[p].second \in Nat /\ mx >= posted[p].second
        BY <3>6, <3>7
      <4> QED
        BY <3>8, <4>1
    <3> QED
      BY <3>8, <3>9
  <2> QED
    BY <2>1, <2>2
<1>4. post \in Post /\ post.n = count' /\ post.second = t
  BY <1>2, <1>3 DEF Post
<1>5. /\ m \in fresh /\ fresh' = fresh \ {m} /\ saved' \in {saved, saved \cup {m}}
      /\ DOMAIN posted' = DOMAIN posted \cup {m} /\ posted'[m] = post
      /\ \A p \in DOMAIN posted \ {m} : posted'[p] = posted[p]
  BY <1>1 DEF Record
<1> HIDE DEF post
<1>15. posted' = [p \in DOMAIN posted' |-> posted'[p]]
  BY <1>1 DEF Record
<1>6. ChatTypeOK'
  BY <1>4, <1>5 DEF ChatTypeOK, FloorInv, TypeOK
<1>7. KanbanTypeOK' /\ fresh' \subseteq pool'
  BY <1>5 DEF kanbanVars, KanbanTypeOK, InUse, FloorInv, TypeOK, FloorTypeOK
<1>8. \E q \in Seq(Note) : /\ q = Sends(m, scope, r, from, to) /\ out' = out \o q
                            /\ \A x \in Items(q) : x.n = count'
  BY <1>2, Sent DEF HandleChat
<1>9. out' \in Seq(Note) /\ \A x \in Items(out') : x.n \in 1..count'
  BY <1>2, <1>8, ItemsConcat
<1>10. IsFiniteSet(DOMAIN posted') /\ IsFiniteSet(InUse')
  BY <1>5, FS_AddElement DEF FloorInv, Counted, Tallied, kanbanVars, InUse
<1>11. \A p \in DOMAIN posted' : posted'[p].n <= count'
  <2>1. \A p \in DOMAIN posted : posted[p].n \in Nat /\ posted[p].n <= count
    BY FloorAssumption
    DEF FloorInv, TypeOK, FloorTypeOK, ChatTypeOK, Counted, Tallied, Post
  <2> QED
    BY <1>2, <1>4, <1>5, <2>1
<1>12. \A i \in InUse' : rows'[i].n <= count'
  BY <1>2, RowsTyped DEF kanbanVars, InUse
<1>13. m \in DOMAIN posted' /\ \A p \in DOMAIN posted' : posted'[m].second >= posted'[p].second
  BY <1>3, <1>4, <1>5
<1>14. Tallied'
  BY <1>2, <1>9, <1>10, <1>11, <1>12, <1>13, <1>15 DEF Tallied, FloorInv, Counted, kanbanVars
<1> QED
  BY <1>6, <1>7, <1>8, <1>9, <1>14 DEF TablesOK

LEMMA FinishTypes ==
  ASSUME FloorInv, FinishDelete, UNCHANGED chatVars
  PROVE  FloorInv'
<1> DEFINE b == Head(cascade).board
           r == Head(cascade).room
<1>1. /\ cascade # <<>> /\ cascade' = <<>> /\ Drop(TasksOf(b)) /\ count' = count
      /\ UNCHANGED <<at, events, incoming, told, pool, fresh, joins, blind>>
      /\ out' = Append(out, Announcement(b, r)) /\ announced' = [announced EXCEPT ![b] = r]
  BY DEF FinishDelete, Announce
<1>2. b \in Board /\ r \in Room
  <2>1. cascade \in Seq([board : Board, room : Room])
    BY DEF FloorInv, TypeOK, KanbanTypeOK
  <2>2. Head(cascade) \in [board : Board, room : Room]
    BY <1>1, <2>1, ItemsTail
  <2> QED
    BY <2>2
<1>3. count' \in Nat \ {0} /\ count' >= count
  BY <1>1, RowsTyped DEF FloorInv, Counted, Tallied
<1> HIDE DEF b, r
<1>4. out' \in Seq(Note) /\ \A x \in Items(out') : x.n \in 1..count'
  BY <1>1, <1>2, <1>3, RowsTyped, Announced DEF BoardOrTask
<1>5. announced' \in [BoardOrTask -> Room \cup {Nowhere}]
  BY <1>1, <1>2 DEF FloorInv, TypeOK, KanbanTypeOK
<1>6. cascade' \in Seq([board : Board, room : Room]) /\ Len(cascade') <= 1
  BY <1>1
<1>7. TablesOK'
  BY <1>1, <1>3, <1>4, <1>5, <1>6, DropTypes
<1> QED
  BY <1>1, <1>7 DEF TablesOK, FloorInv, TypeOK, FloorTypeOK, Counted

LEMMA MessageTypes ==
  ASSUME FloorInv, HandleMessage
  PROVE  FloorInv'
<1> DEFINE in == Head(incoming)
<1>1. /\ cascade = <<>> /\ incoming # <<>> /\ incoming' = Tail(incoming)
      /\ UNCHANGED <<at, told, events, pool, joins, blind>>
  BY DEF HandleMessage, Ready, peerVars
<1>2. /\ in \in [client : Client, room : Room]
      /\ incoming' \in Seq([client : Client, room : Room]) /\ Len(incoming') \in Nat
      /\ count \in Nat /\ MaxCount \in Nat /\ count + 1 + Len(incoming') <= MaxCount
  <2>1. /\ incoming \in Seq([client : Client, room : Room])
        /\ count + Len(incoming) <= MaxCount /\ count \in 0..MaxCount
    BY DEF FloorInv, TypeOK, FloorTypeOK, Counted
  <2>2. /\ in \in [client : Client, room : Room] /\ Len(incoming) \in Nat
        /\ Tail(incoming) \in Seq([client : Client, room : Room])
        /\ Len(Tail(incoming)) = Len(incoming) - 1
    <3>1. Head(incoming) \in [client : Client, room : Room]
      BY <1>1, <2>1, ItemsTail
    <3>3. Len(incoming) \in Nat
      BY <2>1
    <3>2. /\ Tail(incoming) \in Seq([client : Client, room : Room])
          /\ Len(Tail(incoming)) = Len(incoming) - 1
      BY <1>1, <2>1, ItemsTail
    <3> QED
      BY <3>1, <3>2, <3>3 DEF in
  <2>3. Len(Tail(incoming)) \in Nat
    BY <2>2
  <2> QED
    BY <1>1, <2>1, <2>2, <2>3, FloorAssumption
<1> HIDE DEF in
<1>3. ASSUME TablesOK', count' \in {count, count + 1}
      PROVE  FloorInv'
  <2>1. \A c \in Client, i \in Item : told[c][i] \in Nat /\ told[c][i] <= count
    BY <1>2 DEF FloorInv, TypeOK, FloorTypeOK, Counted
  <2>2. \A c \in Client, i \in Item : told'[c][i] <= count'
    BY <1>1, <1>2, <1>3, <2>1
  <2>3. incoming' \in Seq([client : Client, room : Room]) /\ count' + Len(incoming') <= MaxCount
    BY <1>2, <1>3
  <2>4. count' \in 0..MaxCount
    BY <1>2, <1>3
  <2>5. FloorTypeOK'
    BY <1>1, <1>3, <2>3, <2>4 DEF TablesOK, FloorInv, TypeOK, FloorTypeOK
  <2>6. Counted'
    BY <1>2, <1>3, <2>2, <2>3 DEF TablesOK, Counted
  <2> QED
    BY <1>3, <2>5, <2>6 DEF TablesOK, FloorInv, TypeOK
<1>4. ASSUME NEW e \in Edit, HandleEdit(e, in.room), count' = count + 1, UNCHANGED chatVars
      PROVE  TablesOK'
  <2>1. in.room \in Room
    BY <1>2
  <2> QED
    BY <1>1, <1>2, <1>4, <2>1, CreateTypes, ChangeTypes, DeleteTypes DEF HandleEdit
<1>5. ASSUME NEW m \in Message, NEW scope \in Scope, NEW to \in Client,
             HandleChat(m, scope, in.room, in.client, to), count' = count + 1, UNCHANGED kanbanVars
      PROVE  TablesOK'
  <2>1. in.room \in Room /\ in.client \in Client
    BY <1>2
  <2> QED
    BY <1>1, <1>2, <1>5, <2>1, ChatTypes
<1>6. CASE Refuse
  BY <1>1, <1>3, <1>6 DEF Refuse, TablesOK, FloorInv, TypeOK, FloorTypeOK, KanbanTypeOK, ChatTypeOK,
    Counted, Tallied, kanbanVars, chatVars, InUse
<1> QED
  BY <1>3, <1>4, <1>5, <1>6 DEF HandleMessage, in

LEMMA RestartTypes ==
  ASSUME FloorInv, Restart
  PROVE  FloorInv'
<1>1. /\ at' = [c \in Client |-> Nowhere] /\ told' = Unaware
      /\ events' = <<>> /\ incoming' = <<>> /\ out' = <<>> /\ cascade' = <<>>
      /\ UNCHANGED <<pool, fresh, count, joins, blind, posted, saved, rows, announced>>
      /\ undead' \subseteq undead \cup InUse
  BY DEF Restart, LoseCascade, chatVars, TasksOf
<1>2. FloorTypeOK'
  BY <1>1, FloorAssumption DEF FloorInv, TypeOK, FloorTypeOK, Unaware
<1>3. KanbanTypeOK'
  BY <1>1 DEF FloorInv, TypeOK, KanbanTypeOK, InUse
<1>4. ChatTypeOK'
  BY <1>1 DEF FloorInv, TypeOK, ChatTypeOK
<1>5. Items(out') = {}
  BY <1>1 DEF Items
<1>6. Tallied'
  BY <1>1, <1>5 DEF FloorInv, Counted, Tallied, InUse
<1>7. \A c \in Client, i \in Item : told'[c][i] <= count'
  BY <1>1, RowsTyped DEF Unaware
<1>8. count' + Len(incoming') <= MaxCount
  <2>1. count \in 0..MaxCount
    BY DEF FloorInv, TypeOK, FloorTypeOK
  <2> QED
    BY <1>1, <2>1, FloorAssumption
<1>9. Counted'
  BY <1>1, <1>6, <1>7, <1>8 DEF Counted
<1> QED
  BY <1>2, <1>3, <1>4, <1>9 DEF FloorInv, TypeOK

LEMMA FloorStep == FloorInv /\ [Next]_vars => FloorInv'
<1> SUFFICES ASSUME FloorInv, [Next]_vars PROVE FloorInv'
  OBVIOUS
<1>1. CASE UNCHANGED vars
  BY <1>1 DEF vars, floorVars, kanbanVars, chatVars, FloorInv, TypeOK, FloorTypeOK, KanbanTypeOK,
    ChatTypeOK, Counted, Tallied, InUse
<1> QED
  BY <1>1, PeersTypes, JoinedTypes, MessageTypes, FinishTypes, RestartTypes DEF Next

\* Types, and what the tables, the queue and the peers say of count.
THEOREM FloorHolds == Spec => []FloorInv
  BY FloorStart, FloorStep, PTL DEF Spec

\* Type correctness of boards, tasks, chat and their queues.
THEOREM FloorTypes == Spec => []TypeOK
<1>1. FloorInv => TypeOK
  BY DEF FloorInv
<1> QED
  BY <1>1, FloorHolds, PTL

----------------------------------------------------------------------------
(* What is queued, and what clients are told. *)

\* What is queued of a message goes to those it is for.
InScope(x) ==
  x.id \in Message =>
    /\ x.id \in DOMAIN posted
    /\ posted[x.id].scope = "room" => x.room = posted[x.id].room
    /\ posted[x.id].scope = "private" => x.to \subseteq posted[x.id].parties

Scoped == \A x \in Items(out) : InScope(x)

\* What a message to be handled may lead to, for the chat.
LEMMA Chatted ==
  ASSUME FloorInv, NEW m \in Message, NEW scope \in Scope, NEW r \in Room,
         NEW from \in Client, NEW to \in Client, HandleChat(m, scope, r, from, to)
  PROVE  /\ m \in fresh /\ m \notin DOMAIN posted /\ DOMAIN posted' = DOMAIN posted \cup {m}
         /\ \A p \in DOMAIN posted : posted'[p] = posted[p]
         /\ saved' \in {saved, saved \cup {m}} /\ saved \subseteq DOMAIN posted
         /\ posted'[m].scope = scope /\ posted'[m].n = count'
         /\ posted'[m].room = IF scope = "room" THEN r ELSE Nowhere
         /\ posted'[m].parties = IF scope = "private" THEN {from, to} ELSE {}
         /\ out' = out \o Sends(m, scope, r, from, to)
<1>1. m \notin DOMAIN posted \/ m \notin fresh
  BY DEF FloorInv, TypeOK, ChatTypeOK
<1>2. PICK t \in Now :
        Record(m, [scope |-> scope, room |-> IF scope = "room" THEN r ELSE Nowhere,
                   parties |-> IF scope = "private" THEN {from, to} ELSE {},
                   n |-> count', second |-> t])
  BY DEF HandleChat
<1>3. /\ m \in fresh /\ DOMAIN posted' = DOMAIN posted \cup {m}
      /\ \A p \in DOMAIN posted \ {m} : posted'[p] = posted[p]
      /\ saved' \in {saved, saved \cup {m}}
  BY <1>2 DEF Record
<1>4. /\ posted'[m].scope = scope /\ posted'[m].n = count'
      /\ posted'[m].room = IF scope = "room" THEN r ELSE Nowhere
      /\ posted'[m].parties = IF scope = "private" THEN {from, to} ELSE {}
  BY <1>2 DEF Record
<1>5. saved \subseteq DOMAIN posted
  BY DEF FloorInv, TypeOK, ChatTypeOK
<1> QED
  BY <1>1, <1>3, <1>4, <1>5 DEF HandleChat

\* The board that is being deleted is out of the table, or known to be left.
BoardGone == cascade # <<>> => Head(cascade).board \notin InUse \ undead

\* What a change of id i of a board or task comes to, when room r is told of it.
Noted(i, r) ==
  /\ i \in BoardOrTask /\ r \in Room
  /\ count' \in Nat \ {0} /\ count' >= count
  /\ undead \subseteq undead'
  /\ \A j \in InUse' \ {i} : j \in InUse /\ rows'[j] = rows[j] /\ announced'[j] = announced[j]
  /\ \/ /\ out' = Append(out, Announcement(i, r)) /\ announced'[i] = r
        /\ i \in InUse' \ undead' => rows'[i].n = count'
     \/ out' = out /\ i \notin InUse' \ undead'

LEMMA Deleted ==
  ASSUME FloorInv, NEW ids, Drop(ids)
  PROVE  /\ undead \subseteq undead' /\ InUse' \subseteq InUse
         /\ \A j \in InUse' : rows'[j] = rows[j]
         /\ \A j \in ids : j \notin InUse' \ undead'
  BY RowsTyped, Dropped

LEMMA Edited ==
  ASSUME FloorInv, NEW e \in Edit, NEW r \in Room, HandleEdit(e, r), cascade = <<>>,
         count' = count + 1
  PROVE  Noted(e.id, r) /\ BoardGone'
<1>1. /\ count' \in Nat \ {0} /\ count' >= count /\ e.id \in BoardOrTask
      /\ announced \in [BoardOrTask -> Room \cup {Nowhere}] /\ InUse \subseteq BoardOrTask
  BY RowsTyped DEF Edit, FloorInv, TypeOK, KanbanTypeOK
<1>2. CASE Create(e, r) \/ Change(e, r)
  <2>1. /\ cascade' = <<>> /\ undead' = undead
        /\ out' = Append(out, Announcement(e.id, r)) /\ announced' = [announced EXCEPT ![e.id] = r]
    BY <1>2 DEF Create, Change, Announce
  <2>2. /\ InUse' \subseteq InUse \cup {e.id} /\ \A j \in InUse \ {e.id} : rows'[j] = rows[j]
        /\ rows'[e.id].n = count'
    <3>1. CASE Create(e, r)
      BY <3>1 DEF Create, Insert, InUse
    <3>2. CASE Change(e, r)
      <4>1. rows' = [rows EXCEPT ![e.id] = [rows[e.id] EXCEPT !.n = count']] /\ e.id \in InUse
        BY <3>2 DEF Change
      <4>2. rows[e.id] \in Row
        BY <4>1 DEF FloorInv, TypeOK, KanbanTypeOK
      <4> QED
        BY <4>1, <4>2 DEF InUse, Row
    <3> QED
      BY <1>2, <3>1, <3>2
  <2>3. \A j \in InUse' \ {e.id} : announced'[j] = announced[j]
    BY <1>1, <2>1, <2>2
  <2>4. announced'[e.id] = r
    BY <1>1, <2>1
  <2> QED
    BY <1>1, <2>1, <2>2, <2>3, <2>4 DEF Noted, BoardGone
<1>3. CASE DeleteTask(e, r)
  <2>1. /\ cascade' = <<>> /\ Drop({e.id})
        /\ out' = Append(out, Announcement(e.id, r)) /\ announced' = [announced EXCEPT ![e.id] = r]
    BY <1>3 DEF DeleteTask, Announce
  <2>2. /\ undead \subseteq undead' /\ InUse' \subseteq InUse
        /\ \A j \in InUse' : rows'[j] = rows[j]
        /\ e.id \notin InUse' \ undead'
    BY <2>1, Deleted
  <2>3. \A j \in InUse' \ {e.id} : announced'[j] = announced[j]
    BY <1>1, <2>1, <2>2
  <2>4. announced'[e.id] = r
    BY <1>1, <2>1
  <2> QED
    BY <1>1, <2>1, <2>2, <2>3, <2>4 DEF Noted, BoardGone
<1>4. CASE DeleteBoard(e, r)
  <2>1. /\ cascade' = <<[board |-> e.id, room |-> r]>> /\ Drop({e.id})
        /\ out' = out /\ announced' = announced
    BY <1>4 DEF DeleteBoard
  <2>2. /\ undead \subseteq undead' /\ InUse' \subseteq InUse
        /\ \A j \in InUse' : rows'[j] = rows[j]
        /\ e.id \notin InUse' \ undead'
    BY <2>1, Deleted
  <2>3. Head(cascade').board = e.id
    BY <2>1
  <2>4. BoardGone'
    BY <2>2, <2>3 DEF BoardGone
  <2> QED
    BY <1>1, <2>1, <2>2, <2>4 DEF Noted
<1> QED
  BY <1>2, <1>3, <1>4 DEF HandleEdit

LEMMA DeleteFinished ==
  ASSUME FloorInv, BoardGone, FinishDelete
  PROVE  Noted(Head(cascade).board, Head(cascade).room) /\ BoardGone'
<1> DEFINE b == Head(cascade).board
           r == Head(cascade).room
<1>1. /\ cascade # <<>> /\ cascade' = <<>> /\ Drop(TasksOf(b)) /\ count' = count
      /\ out' = Append(out, Announcement(b, r)) /\ announced' = [announced EXCEPT ![b] = r]
  BY DEF FinishDelete, Announce
<1>2. b \in Board /\ r \in Room
  <2>1. cascade \in Seq([board : Board, room : Room])
    BY DEF FloorInv, TypeOK, KanbanTypeOK
  <2>2. Head(cascade) \in [board : Board, room : Room]
    BY <1>1, <2>1, ItemsTail
  <2> QED
    BY <2>2
<1>3. count' \in Nat \ {0} /\ count' >= count
  BY <1>1, RowsTyped DEF FloorInv, Counted, Tallied
<1>4. b \notin InUse \ undead
  BY <1>1 DEF BoardGone
<1> HIDE DEF b, r
<1>5. /\ undead \subseteq undead' /\ InUse' \subseteq InUse
      /\ \A j \in InUse' : rows'[j] = rows[j]
  BY <1>1, Deleted
<1>6. b \in BoardOrTask /\ InUse \subseteq BoardOrTask
      /\ announced \in [BoardOrTask -> Room \cup {Nowhere}]
  BY <1>2, RowsTyped DEF FloorInv, TypeOK, KanbanTypeOK, BoardOrTask
<1>7. announced'[b] = r /\ \A j \in InUse' \ {b} : announced'[j] = announced[j]
  BY <1>1, <1>5, <1>6
<1>8. Noted(b, r)
  BY <1>1, <1>2, <1>3, <1>4, <1>5, <1>6, <1>7 DEF Noted
<1> QED
  BY <1>1, <1>8 DEF BoardGone, b, r

\* A message is handled: a row is changed, something is said, or it is refused.
LEMMA Handled ==
  ASSUME FloorInv, HandleMessage
  PROVE  /\ UNCHANGED <<at, told, events, blind>>
         /\ \/ \E i, r : Noted(i, r) /\ BoardGone' /\ UNCHANGED chatVars
            \/ \E m \in Message, scope \in Scope, r \in Room, from \in Client, to \in Client :
                 HandleChat(m, scope, r, from, to) /\ UNCHANGED kanbanVars /\ count' = count + 1
            \/ UNCHANGED <<out, fresh, count, kanbanVars, chatVars>>
<1>1. Head(incoming) \in [client : Client, room : Room] /\ cascade = <<>>
  BY ItemsTail DEF FloorInv, TypeOK, FloorTypeOK, HandleMessage, Ready
<1>2. Head(incoming).client \in Client /\ Head(incoming).room \in Room
  BY <1>1
<1>3. UNCHANGED <<at, told, events, blind>>
  BY DEF HandleMessage, peerVars
<1>4. CASE Refuse
  BY <1>3, <1>4 DEF Refuse
<1>5. ASSUME NEW e \in Edit, HandleEdit(e, Head(incoming).room), count' = count + 1, UNCHANGED chatVars
      PROVE  \E i, r : Noted(i, r) /\ BoardGone' /\ UNCHANGED chatVars
  BY <1>1, <1>2, <1>5, Edited
<1> QED
  BY <1>2, <1>3, <1>4, <1>5 DEF HandleMessage

\* What is delivered.
LEMMA Delivered ==
  ASSUME FloorInv, Deliver
  PROVE  LET m == Head(out) IN
         /\ m \in Note /\ m.n \in 1..count /\ Items(out) = {m} \cup Items(out')
         /\ \A c \in Client, i \in Item :
              told'[c][i] = IF Hears(c, m) /\ m.id = i THEN m.n ELSE told[c][i]
         /\ UNCHANGED <<at, events, count, blind>>
<1> DEFINE m == Head(out)
<1>1. /\ m \in Note /\ Items(out) = {m} \cup Items(out')
      /\ told \in [Client -> [Item -> 0..MaxCount]]
  BY ItemsTail DEF Deliver, FloorInv, TypeOK, FloorTypeOK
<1>2. m.n \in 1..count /\ m.id \in Item
  BY <1>1 DEF FloorInv, Counted, Tallied, Note
<1>3. told' = [c \in Client |-> IF Hears(c, m) THEN [told[c] EXCEPT ![m.id] = m.n] ELSE told[c]]
  BY DEF Deliver
<1>4. UNCHANGED <<at, events, count, blind>>
  BY DEF Deliver
<1> HIDE DEF m
<1>5. \A c \in Client, i \in Item :
        told'[c][i] = IF Hears(c, m) /\ m.id = i THEN m.n ELSE told[c][i]
  BY <1>1, <1>2, <1>3
<1> QED
  BY <1>1, <1>2, <1>4, <1>5 DEF m

LEMMA ScopedStep ==
  ASSUME FloorInv, FloorInv', Scoped, [Next]_vars
  PROVE  Scoped'
<1>1. out \in Seq(Note) /\ DOMAIN posted \subseteq Message /\ saved \subseteq DOMAIN posted
  BY DEF FloorInv, TypeOK, FloorTypeOK, ChatTypeOK
<1>2. ASSUME Items(out') \subseteq Items(out), UNCHANGED posted PROVE Scoped'
  BY <1>2 DEF Scoped, InScope
<1>3. ASSUME NEW i, NEW r, Noted(i, r), UNCHANGED chatVars PROVE Scoped'
  <2>1. i \in Item /\ i \notin Message /\ r \in Room
    BY <1>3, RowsTyped, FloorSystemAssumption DEF Noted
  <2>2. CASE out' = out
    BY <1>2, <1>3, <2>2 DEF chatVars
  <2>3. CASE out' = Append(out, Announcement(i, r))
    <3>1. Items(out') = Items(out) \cup {Announcement(i, r)}
      BY <1>3, <2>1, <2>3, Announced DEF Noted
    <3>2. Announcement(i, r).id = i
      BY DEF Announcement
    <3> QED
      BY <1>3, <2>1, <3>1, <3>2 DEF Scoped, InScope, chatVars
  <2> QED
    BY <1>3, <2>2, <2>3 DEF Noted
<1>4. CASE Peers /\ UNCHANGED <<kanbanVars, chatVars>>
  <2>1. CASE Deliver
    BY <1>2, <1>4, <2>1, Delivered DEF chatVars
  <2>2. CASE UNCHANGED out
    BY <1>2, <1>4, <2>2 DEF chatVars
  <2> QED
    BY <1>4, <2>1, <2>2 DEF Peers, Enter, Leave, Say
<1>5. CASE HandleJoined
  <2> DEFINE e == Head(events)
  <2>1. PICK s \in Seq(Note) :
          /\ out' = out \o s
          /\ \A x \in Items(s) :
               /\ x.room = e.room /\ x.to = {e.client}
               /\ \/ x.id \in InUse
                  \/ x.id \in ToRoom(e.room) \cup Of("all") \cup Private(e.client)
    BY <1>5, Joined
  <2>2. Items(out') = Items(out) \cup Items(s)
    BY <1>1, <2>1, ItemsConcat
  <2>3. UNCHANGED posted
    BY <1>5 DEF HandleJoined, chatVars
  <2>4. \A i \in InUse : i \notin Message
    BY RowsTyped, FloorSystemAssumption
  <2> HIDE DEF e
  <2>5. ASSUME NEW x \in Items(s) PROVE InScope(x)
    BY <1>1, <2>1, <2>4 DEF InScope, ToRoom, Of, Private
  <2> QED
    BY <2>2, <2>3, <2>5 DEF Scoped, InScope
<1>6. CASE HandleMessage
  <2>1. ASSUME NEW m \in Message, NEW scope \in Scope, NEW r \in Room, NEW from \in Client,
               NEW to \in Client, HandleChat(m, scope, r, from, to)
        PROVE  Scoped'
    <3> DEFINE q == Sends(m, scope, r, from, to)
    <3>1. /\ m \notin DOMAIN posted /\ DOMAIN posted' = DOMAIN posted \cup {m}
          /\ \A p \in DOMAIN posted : posted'[p] = posted[p]
          /\ posted'[m].scope = scope
          /\ posted'[m].room = IF scope = "room" THEN r ELSE Nowhere
          /\ posted'[m].parties = IF scope = "private" THEN {from, to} ELSE {}
          /\ out' = out \o q
      BY <2>1, Chatted
    <3>2. count' \in Nat
      BY FloorAssumption DEF FloorInv, TypeOK, FloorTypeOK
    <3>3. /\ q \in Seq(Note)
          /\ \A x \in Items(q) :
               /\ x.id = m
               /\ scope = "room" => x.room = r
               /\ scope = "private" => x.to \subseteq {from, to}
      BY <3>2, Sent
    <3>4. Items(out') = Items(out) \cup Items(q)
      BY <1>1, <3>1, <3>3, ItemsConcat
    <3> HIDE DEF q
    <3>5. ASSUME NEW x \in Items(q) PROVE InScope(x)'
      <4>1. x.id = m /\ m \in DOMAIN posted'
        BY <3>1, <3>3
      <4>2. posted'[m].scope = "room" => x.room = posted'[m].room
        BY <3>1, <3>3
      <4>3. posted'[m].scope = "private" => x.to \subseteq posted'[m].parties
        BY <3>1, <3>3
      <4> QED
        BY <4>1, <4>2, <4>3 DEF InScope
    <3>6. \A x \in Items(out) : InScope(x)'
      BY <3>1 DEF InScope, Scoped
    <3> QED
      BY <3>4, <3>5, <3>6 DEF Scoped, InScope
  <2>2. CASE UNCHANGED <<out, fresh, count, kanbanVars, chatVars>>
    BY <1>2, <2>2 DEF chatVars
  <2> QED
    BY <1>3, <1>6, <2>1, <2>2, Handled
<1>7. CASE FinishDelete /\ UNCHANGED chatVars
  <2>1. PICK i, r : i \in Board /\ r \in Room /\ out' = Append(out, Announcement(i, r))
    <3>1. cascade \in Seq([board : Board, room : Room]) /\ cascade # <<>>
      BY <1>7 DEF FinishDelete, FloorInv, TypeOK, KanbanTypeOK
    <3>2. Head(cascade) \in [board : Board, room : Room]
      BY <3>1, ItemsTail
    <3> QED
      BY <1>7, <3>2 DEF FinishDelete, Announce
  <2>2. i \in Item /\ i \notin Message
    BY <2>1, RowsTyped, FloorSystemAssumption DEF BoardOrTask
  <2>3. count' \in Nat \ {0} /\ count' >= count
    BY <1>7, RowsTyped DEF FinishDelete, FloorInv, Counted, Tallied
  <2>4. Items(out') = Items(out) \cup {Announcement(i, r)}
    BY <2>1, <2>2, <2>3, Announced
  <2>5. Announcement(i, r).id = i
    BY DEF Announcement
  <2> QED
    BY <1>7, <2>2, <2>4, <2>5 DEF Scoped, InScope, chatVars
<1>8. CASE Restart
  BY <1>8 DEF Restart, Scoped, Items
<1>9. CASE UNCHANGED vars
  BY <1>2, <1>9 DEF vars, floorVars, chatVars
<1> QED
  BY <1>4, <1>5, <1>6, <1>7, <1>8, <1>9 DEF Next

\* Each note on its way is for those its message is for.
THEOREM ScopesHold == Spec => []Scoped
<1>1. Init => Scoped
  BY DEF Init, FloorInit, Scoped, Items
<1> QED
  BY <1>1, FloorHolds, ScopedStep, PTL DEF Spec

\* A client is only told by the hub, and then what is at the head of the queue.
LEMMA ToldStep ==
  ASSUME FloorInv, [Next]_vars, told' # told
  PROVE  \/ Deliver /\ UNCHANGED <<kanbanVars, chatVars>>
         \/ \E c \in Client : Leave(c) /\ UNCHANGED <<kanbanVars, chatVars>>
         \/ Restart
<1>1. ~HandleMessage
  BY DEF HandleMessage, peerVars
<1>2. ~HandleJoined
  BY DEF HandleJoined, peerVars
<1>3. ~FinishDelete
  BY DEF FinishDelete
<1> QED
  BY <1>1, <1>2, <1>3 DEF Next, Peers, Enter, Say, peerVars, vars, floorVars

\* What is said to a room or to a user is told to nobody else, live or from the
\* history, however many rooms, clients and messages there are.
THEOREM ScopesKept == Spec => KeptInScope
<1> DEFINE Told ==
      \A c \in Client, m \in DOMAIN posted : told'[c][m] \notin {0, told[c][m]} =>
        /\ posted[m].scope = "room" => at[c] = posted[m].room
        /\ posted[m].scope = "private" => c \in posted[m].parties
<1>1. ASSUME FloorInv, Scoped, [Next]_vars
      PROVE  [Told]_told
  <2> SUFFICES ASSUME told' # told, NEW c \in Client, NEW m \in DOMAIN posted,
                      told'[c][m] \notin {0, told[c][m]}
               PROVE  /\ posted[m].scope = "room" => at[c] = posted[m].room
                      /\ posted[m].scope = "private" => c \in posted[m].parties
    OBVIOUS
  <2>1. m \in Message /\ m \in Item
    BY <1>1, ChatAssumption DEF FloorInv, TypeOK, ChatTypeOK
  <2>2. CASE Deliver
    <3> DEFINE x == Head(out)
    <3>1. x \in Items(out) /\ Hears(c, x) /\ x.id = m
      BY <1>1, <2>1, <2>2, Delivered
    <3>2. InScope(x)
      BY <1>1, <3>1 DEF Scoped
    <3> HIDE DEF x
    <3>3. \A v \in {x} : posted[m].scope = "room" => v.room # Anywhere
      BY <1>1, <2>1, <3>1, <3>2, FloorAssumption
      DEF InScope, FloorInv, TypeOK, ChatTypeOK, Post
    <3> QED
      BY <2>1, <3>1, <3>2, <3>3 DEF InScope, Hears
  <2>3. ASSUME NEW d \in Client, Leave(d) PROVE FALSE
    <3>1. told' = [told EXCEPT ![d] = Unaware[d]]
      BY <2>3 DEF Leave
    <3>2. told \in [Client -> [Item -> 0..MaxCount]]
      BY <1>1 DEF FloorInv, TypeOK, FloorTypeOK
    <3> QED
      BY <2>1, <3>1, <3>2 DEF Unaware
  <2>4. CASE Restart
    BY <2>1, <2>4 DEF Restart, Unaware
  <2> QED
    BY <1>1, <2>2, <2>3, <2>4, ToldStep
<1> QED
  BY <1>1, FloorHolds, ScopesHold, PTL DEF Spec, KeptInScope

----------------------------------------------------------------------------
(* Nobody is taken back. *)

\* What is queued of a board or task is in order, no older than what anybody has been
\* told and no newer than what is stored.
Mounted(i) ==
  /\ \A j, k \in 1..Len(out) : j < k /\ out[j].id = i /\ out[k].id = i => out[j].n <= out[k].n
  /\ \A x \in Items(out) : x.id = i => \A c \in Client : told[c][i] <= x.n
  /\ i \in InUse => \A x \in Items(out) : x.id = i => x.n <= rows[i].n
  /\ i \in InUse => \A c \in Client : told[c][i] <= rows[i].n

Mounting == \A i \in BoardOrTask \ undead : Mounted(i)

LEMMA Numbers ==
  ASSUME FloorInv
  PROVE  /\ out \in Seq(Note) /\ count \in Nat
         /\ \A x \in Items(out) : x \in Note /\ x.n \in 1..count
         /\ \A k \in 1..Len(out) : out[k] \in Items(out)
         /\ \A c \in Client, i \in Item : told[c][i] \in 0..count
         /\ \A i \in InUse : i \in Item /\ rows[i].n \in 1..count
<1>1. out \in Seq(Note) /\ count \in Nat
  BY RowsTyped DEF FloorInv, TypeOK, FloorTypeOK
<1>2. \A k \in 1..Len(out) : out[k] \in Items(out) /\ out[k] \in Note
  BY <1>1 DEF Items
<1>3. \A x \in Items(out) : x \in Note /\ x.n \in 1..count
  BY <1>2 DEF FloorInv, Counted, Tallied, Items
<1>4. told \in [Client -> [Item -> 0..MaxCount]] /\ MaxCount \in Nat
  BY FloorAssumption DEF FloorInv, TypeOK, FloorTypeOK
<1>5. \A c \in Client, i \in Item : told[c][i] \in Nat /\ told[c][i] <= count
  BY <1>4 DEF FloorInv, Counted
<1>6. \A i \in InUse : i \in Item /\ rows[i].n \in 1..count
  BY RowsTyped
<1> QED
  BY <1>1, <1>2, <1>3, <1>5, <1>6

\* Notes about other ids do not matter.
LEMMA MountedApart ==
  ASSUME FloorInv, NEW i \in BoardOrTask, Mounted(i), UNCHANGED told,
         NEW s \in Seq(Note), out' = out \o s, \A x \in Items(s) : x.id # i,
         i \in InUse' => i \in InUse /\ rows'[i] = rows[i]
  PROVE  Mounted(i)'
<1>1. /\ out \in Seq(Note)
      /\ Items(out') = Items(out) \cup Items(s)
      /\ \A k \in 1..Len(out') : \/ k \in 1..Len(out) /\ out'[k] = out[k]
                                 \/ k > Len(out) /\ out'[k] \in Items(s)
  BY Numbers, ItemsConcat
<1>2. \A j, k \in 1..Len(out') :
        j < k /\ out'[j].id = i /\ out'[k].id = i => out'[j].n <= out'[k].n
  BY <1>1 DEF Mounted
<1>3. \A x \in Items(out') : x.id = i => x \in Items(out)
  BY <1>1
<1> QED
  BY <1>2, <1>3 DEF Mounted

\* Notes of one number are added, which nothing queued, told or stored exceeds.
LEMMA MountedHigher ==
  ASSUME FloorInv, NEW i \in BoardOrTask, Mounted(i), UNCHANGED told, NEW n \in Nat,
         NEW s \in Seq(Note), out' = out \o s, \A x \in Items(s) : x.id = i => x.n = n,
         \A x \in Items(out) : x.id = i => x.n <= n,
         \A c \in Client : told[c][i] <= n,
         i \in InUse' => rows'[i].n = n
  PROVE  Mounted(i)'
<1>1. /\ out \in Seq(Note)
      /\ Items(out') = Items(out) \cup Items(s)
      /\ \A k \in 1..Len(out') : \/ k \in 1..Len(out) /\ out'[k] = out[k]
                                 \/ k > Len(out) /\ out'[k] \in Items(s)
  BY Numbers, ItemsConcat
<1>2. \A k \in 1..Len(out) : out[k] \in Items(out)
  BY DEF Items
<1>3. ASSUME NEW j \in 1..Len(out'), NEW k \in 1..Len(out'),
             j < k, out'[j].id = i, out'[k].id = i
      PROVE  out'[j].n <= out'[k].n
  <2>1. CASE out'[k] \in Items(s)
    <3>1. out'[k].n = n
      BY <1>3, <2>1
    <3>2. CASE out'[j] \in Items(s)
      BY <1>3, <3>1, <3>2
    <3>3. CASE j \in 1..Len(out) /\ out'[j] = out[j]
      BY <1>2, <1>3, <3>1, <3>3
    <3> QED
      BY <1>1, <3>2, <3>3
  <2>2. CASE k \in 1..Len(out) /\ out'[k] = out[k]
    <3>1. j \in 1..Len(out) /\ out'[j] = out[j]
      <4>1. Len(out) \in Nat /\ Len(out') \in Nat
        BY <1>1
      <4>2. ~(j > Len(out))
        BY <1>3, <2>2, <4>1
      <4> QED
        BY <1>1, <4>2
    <3> QED
      BY <1>3, <2>2, <3>1 DEF Mounted
  <2> QED
    BY <1>1, <2>1, <2>2
<1>4. \A x \in Items(out') : x.id = i => x.n <= n /\ \A c \in Client : told[c][i] <= x.n
  BY <1>1 DEF Mounted
<1> QED
  BY <1>3, <1>4 DEF Mounted

LEMMA MountingStart == Init => Mounting
  BY DEF Init, FloorInit, KanbanInit, Mounting, Mounted, Items, InUse

LEMMA MountingNoted ==
  ASSUME FloorInv, Mounting, UNCHANGED told, NEW j, NEW r, Noted(j, r)
  PROVE  Mounting'
<1> SUFFICES ASSUME NEW i \in BoardOrTask \ undead' PROVE Mounted(i)'
  BY DEF Mounting
<1>1. Mounted(i) /\ j \in Item /\ r \in Room /\ i \in Item
  BY RowsTyped DEF Mounting, Noted
<1>2. i \in InUse' /\ i # j => i \in InUse /\ rows'[i] = rows[i]
  BY DEF Noted
<1>3. CASE out' = out /\ j \notin InUse' \ undead'
  <2>1. i \in InUse' => i # j
    BY <1>3
  <2> QED
    BY <1>1, <1>2, <1>3, <2>1 DEF Mounted
<1>4. CASE out' = Append(out, Announcement(j, r)) /\ (j \in InUse' \ undead' => rows'[j].n = count')
  <2> DEFINE x == Announcement(j, r)
             s == <<x>>
  <2>1. /\ x \in Note /\ x.id = j /\ x.n = count' /\ count' \in Nat /\ count' >= count
        /\ out \in Seq(Note)
    BY <1>1, Numbers DEF Noted, Announcement, Note
  <2> HIDE DEF x
  <2>2. s \in Seq(Note) /\ Items(s) = {x} /\ out' = out \o s
    BY <1>4, <2>1 DEF Items, x
  <2> HIDE DEF s
  <2>3. CASE i # j
    BY <1>1, <1>2, <2>1, <2>2, <2>3, MountedApart
  <2>4. CASE i = j
    <3>1. \A y \in Items(out) : y.n <= count'
      BY <2>1, Numbers
    <3>2. \A c \in Client : told[c][i] <= count'
      BY <1>1, <2>1, Numbers
    <3>3. i \in InUse' => rows'[i].n = count'
      BY <1>4, <2>4
    <3> QED
      BY <1>1, <2>1, <2>2, <3>1, <3>2, <3>3, MountedHigher
  <2> QED
    BY <2>3, <2>4
<1> QED
  BY <1>3, <1>4 DEF Noted

LEMMA MountingDelivered ==
  ASSUME FloorInv, Mounting, Deliver, UNCHANGED kanbanVars
  PROVE  Mounting'
<1> SUFFICES ASSUME NEW i \in BoardOrTask \ undead PROVE Mounted(i)'
  BY DEF Mounting, kanbanVars
<1> DEFINE m == Head(out)
<1>1. Mounted(i) /\ i \in Item /\ out # <<>> /\ out' = Tail(out)
  BY RowsTyped DEF Mounting, Deliver
<1>2. /\ m = out[1] /\ m \in Items(out) /\ Len(out) \in Nat
      /\ Len(out') = Len(out) - 1
      /\ \A k \in 1..Len(out') : k + 1 \in 1..Len(out) /\ out'[k] = out[k + 1]
  <2>1. out \in Seq(Note)
    BY Numbers
  <2>2. m = out[1] /\ Len(out) \in Nat
    BY <1>1, <2>1
  <2>3. m \in Items(out)
    BY <1>1, <2>1, ItemsTail
  <2> QED
    BY <1>1, <2>1, <2>2, <2>3, ItemsTail
<1>3. /\ Items(out) = {m} \cup Items(out') /\ m.n \in 1..count /\ UNCHANGED <<rows, at>>
      /\ \A c \in Client : told'[c][i] = IF Hears(c, m) /\ m.id = i THEN m.n ELSE told[c][i]
  BY <1>1, Delivered DEF kanbanVars
<1> HIDE DEF m
<1>4. \A j, k \in 1..Len(out') :
        j < k /\ out'[j].id = i /\ out'[k].id = i => out'[j].n <= out'[k].n
  <2> SUFFICES ASSUME NEW j \in 1..Len(out'), NEW k \in 1..Len(out'),
                      j < k, out'[j].id = i, out'[k].id = i
               PROVE  out'[j].n <= out'[k].n
    OBVIOUS
  <2>1. /\ j + 1 \in 1..Len(out) /\ k + 1 \in 1..Len(out) /\ j + 1 < k + 1
        /\ out'[j] = out[j + 1] /\ out'[k] = out[k + 1]
    BY <1>2
  <2> QED
    BY <1>1, <2>1 DEF Mounted
<1>5. ASSUME NEW x \in Items(out'), x.id = i, NEW c \in Client PROVE told'[c][i] <= x.n
  <2>1. told[c][i] <= x.n
    BY <1>1, <1>3, <1>5 DEF Mounted
  <2>2. CASE m.id = i
    <3>1. PICK k \in 1..Len(out') : out'[k] = x
      BY <1>5 DEF Items
    <3>2. k + 1 \in 1..Len(out) /\ out[k + 1] = x /\ 1 \in 1..Len(out) /\ 1 < k + 1
      BY <1>2, <3>1
    <3>3. m.n <= x.n
      BY <1>1, <1>2, <1>5, <2>2, <3>2 DEF Mounted
    <3> QED
      BY <1>3, <2>1, <3>3
  <2>3. CASE m.id # i
    BY <1>3, <2>1, <2>3
  <2> QED
    BY <2>2, <2>3
<1>6. ASSUME i \in InUse
      PROVE  /\ \A x \in Items(out') : x.id = i => x.n <= rows[i].n
             /\ \A c \in Client : told'[c][i] <= rows[i].n
  <2>1. \A x \in Items(out) : x.id = i => x.n <= rows[i].n
    BY <1>1, <1>6 DEF Mounted
  <2>2. \A c \in Client : told[c][i] <= rows[i].n
    BY <1>1, <1>6 DEF Mounted
  <2> QED
    BY <1>2, <1>3, <2>1, <2>2
<1>7. InUse' = InUse /\ rows' = rows
  BY <1>3 DEF InUse
<1> QED
  BY <1>4, <1>5, <1>6, <1>7 DEF Mounted

LEMMA MountingStep ==
  ASSUME FloorInv, FloorInv', Mounting, BoardGone, [Next]_vars
  PROVE  Mounting' /\ BoardGone'
<1>1. ASSUME UNCHANGED <<out, kanbanVars>>,
             \A c \in Client, i \in Item : told'[c][i] \in {0, told[c][i]}
      PROVE  Mounting' /\ BoardGone'
  <2>1. BoardGone' /\ InUse' = InUse
    BY <1>1 DEF BoardGone, kanbanVars, InUse
  <2>2. ASSUME NEW i \in BoardOrTask \ undead, Mounted(i) PROVE Mounted(i)'
    <3>1. i \in Item
      BY RowsTyped
    <3>2. /\ \A x \in Items(out) : x.n \in Nat
          /\ i \in InUse => rows[i].n \in Nat
      BY Numbers
    <3>3. \A c \in Client : told'[c][i] = 0 \/ told'[c][i] = told[c][i]
      BY <1>1, <3>1
    <3>4. \A x \in Items(out) : x.id = i => \A c \in Client : told'[c][i] <= x.n
      BY <2>2, <3>2, <3>3 DEF Mounted
    <3>5. i \in InUse => \A c \in Client : told'[c][i] <= rows[i].n
      BY <2>2, <3>2, <3>3 DEF Mounted
    <3>6. Items(out') = Items(out) /\ out' = out /\ rows' = rows
      BY <1>1 DEF kanbanVars
    <3> QED
      BY <2>1, <2>2, <3>4, <3>5, <3>6 DEF Mounted
  <2> QED
    BY <1>1, <2>1, <2>2 DEF Mounting, kanbanVars
<1>2. told \in [Client -> [Item -> 0..MaxCount]]
  BY DEF FloorInv, TypeOK, FloorTypeOK
<1>3. CASE Peers /\ UNCHANGED <<kanbanVars, chatVars>>
  <2>1. ASSUME NEW c \in Client, NEW r \in Room, Enter(c, r) PROVE Mounting' /\ BoardGone'
    BY <1>1, <1>3, <2>1 DEF Enter
  <2>2. ASSUME NEW c \in Client, Leave(c) PROVE Mounting' /\ BoardGone'
    BY <1>1, <1>2, <1>3, <2>2 DEF Leave, Unaware
  <2>3. ASSUME NEW c \in Client, Say(c) PROVE Mounting' /\ BoardGone'
    BY <1>1, <1>3, <2>3 DEF Say, peerVars
  <2>4. CASE Deliver
    <3>1. BoardGone'
      BY <1>3 DEF BoardGone, kanbanVars, InUse
    <3> QED
      BY <1>3, <2>4, <3>1, MountingDelivered
  <2> QED
    BY <1>3, <2>1, <2>2, <2>3, <2>4 DEF Peers
<1>4. CASE HandleJoined
  <2>1. PICK s \in Seq(Note) :
          /\ out' = out \o s
          /\ \A x \in Items(s) :
               \/ x.id \in InUse /\ x.n = rows[x.id].n
               \/ x.id \in Message
    <3>1. \A r, u : ToRoom(r) \cup Of("all") \cup Private(u) \subseteq Message
      BY DEF FloorInv, TypeOK, ChatTypeOK, ToRoom, Of, Private
    <3> QED
      BY <1>4, <3>1, Joined
  <2>2. UNCHANGED <<told, kanbanVars, rows, undead>> /\ InUse' = InUse
    BY <1>4 DEF HandleJoined, peerVars, kanbanVars, InUse
  <2>3. BoardGone'
    BY <2>2 DEF BoardGone, kanbanVars
  <2>4. ASSUME NEW i \in BoardOrTask \ undead PROVE Mounted(i)'
    <3>1. Mounted(i) /\ i \notin Message
      BY FloorSystemAssumption DEF Mounting
    <3>2. CASE i \in InUse
      <4>1. rows[i].n \in Nat
        BY <3>2, Numbers
      <4>2. /\ \A x \in Items(s) : x.id = i => x.n = rows[i].n
            /\ \A x \in Items(out) : x.id = i => x.n <= rows[i].n
            /\ \A c \in Client : told[c][i] <= rows[i].n
        BY <2>1, <3>1, <3>2 DEF Mounted
      <4> QED
        BY <2>1, <2>2, <3>1, <4>1, <4>2, MountedHigher
    <3>3. CASE i \notin InUse
      <4>1. \A x \in Items(s) : x.id # i
        BY <2>1, <3>1, <3>3
      <4> QED
        BY <2>1, <2>2, <3>1, <3>3, <4>1, MountedApart
    <3> QED
      BY <3>2, <3>3
  <2> QED
    BY <2>2, <2>3, <2>4 DEF Mounting
<1>5. CASE HandleMessage
  <2>1. UNCHANGED told
    BY <1>5, Handled
  <2>2. ASSUME NEW m \in Message, NEW scope \in Scope, NEW r \in Room, NEW from \in Client,
               NEW to \in Client, HandleChat(m, scope, r, from, to), UNCHANGED kanbanVars
        PROVE  Mounting' /\ BoardGone'
    <3> DEFINE q == Sends(m, scope, r, from, to)
    <3>1. count' \in Nat
      BY FloorAssumption DEF FloorInv, TypeOK, FloorTypeOK
    <3>2. q \in Seq(Note) /\ out' = out \o q /\ \A x \in Items(q) : x.id = m
      <4>1. q \in Seq(Note) /\ \A x \in Items(q) : x.id = m
        BY <3>1, Sent
      <4>2. out' = out \o q
        BY <2>2, Chatted
      <4> QED
        BY <4>1, <4>2
    <3> HIDE DEF q
    <3>3. BoardGone' /\ InUse' = InUse /\ rows' = rows /\ undead' = undead
      BY <2>2 DEF BoardGone, kanbanVars, InUse
    <3>4. ASSUME NEW i \in BoardOrTask \ undead PROVE Mounted(i)'
      <4>1. Mounted(i) /\ i # m
        BY FloorSystemAssumption DEF Mounting
      <4> QED
        BY <2>1, <3>2, <3>3, <4>1, MountedApart
    <3> QED
      BY <3>3, <3>4 DEF Mounting
  <2>3. CASE UNCHANGED <<out, fresh, count, kanbanVars, chatVars>>
    BY <1>1, <2>1, <2>3
  <2> QED
    BY <1>5, <2>1, <2>2, <2>3, Handled, MountingNoted
<1>6. CASE FinishDelete /\ UNCHANGED chatVars
  <2>1. UNCHANGED told
    BY <1>6 DEF FinishDelete
  <2> QED
    BY <1>6, <2>1, DeleteFinished, MountingNoted
<1>7. CASE Restart
  <2>1. /\ told' = Unaware /\ out' = <<>> /\ cascade' = <<>> /\ Items(out') = {}
        /\ UNCHANGED rows /\ InUse' = InUse
    BY <1>7 DEF Restart, LoseCascade, Items, InUse
  <2>2. undead \subseteq undead'
    BY <1>7 DEF Restart, LoseCascade
  <2>3. ASSUME NEW i \in BoardOrTask PROVE Mounted(i)'
    <3>1. \A c \in Client : told'[c][i] = 0
      BY <2>1, RowsTyped DEF Unaware
    <3>2. i \in InUse => \A c \in Client : told'[c][i] <= rows'[i].n
      BY <2>1, <3>1, Numbers
    <3> QED
      BY <2>1, <3>1, <3>2 DEF Mounted
  <2> QED
    BY <2>1, <2>2, <2>3 DEF Mounting, BoardGone
<1>8. CASE UNCHANGED vars
  BY <1>1, <1>8 DEF vars, floorVars
<1> QED
  BY <1>3, <1>4, <1>5, <1>6, <1>7, <1>8 DEF Next

\* The queue is in order of age, for each board and task.
THEOREM QueueMounts == Spec => [](Mounting /\ BoardGone)
<1>1. Init => BoardGone
  BY DEF Init, KanbanInit, BoardGone
<1>2. FloorInv /\ FloorInv' /\ (Mounting /\ BoardGone) /\ [Next]_vars => (Mounting /\ BoardGone)'
  BY MountingStep
<1> QED
  BY <1>1, <1>2, MountingStart, FloorHolds, PTL DEF Spec

\* No client is taken back to an older state of a board or task, by what is sent live
\* or in snapshots and whatever rooms it goes through, for any number of all of them.
THEOREM NeverTakenBack == Spec => NeverBack
<1> DEFINE Forth == \A c \in Client, i \in BoardOrTask \ undead :
                      at'[c] # Nowhere => told'[c][i] >= told[c][i]
<1>1. ASSUME FloorInv, Mounting, [Next]_vars
      PROVE  [Forth]_told
  <2> SUFFICES ASSUME told' # told, NEW c \in Client, NEW i \in BoardOrTask \ undead,
                      at'[c] # Nowhere
               PROVE  told'[c][i] >= told[c][i]
    OBVIOUS
  <2>1. i \in Item /\ told[c][i] \in Nat /\ Mounted(i)
    BY <1>1, RowsTyped, Numbers DEF Mounting
  <2>2. CASE Deliver
    <3> DEFINE m == Head(out)
    <3>1. /\ m \in Items(out)
          /\ told'[c][i] = IF Hears(c, m) /\ m.id = i THEN m.n ELSE told[c][i]
      BY <1>1, <2>1, <2>2, Delivered
    <3> HIDE DEF m
    <3>2. m.n \in Nat /\ (m.id = i => told[c][i] <= m.n)
      BY <1>1, <2>1, <3>1, Numbers DEF Mounted
    <3> QED
      BY <2>1, <3>1, <3>2
  <2>3. ASSUME NEW d \in Client, Leave(d) PROVE told'[c][i] >= told[c][i]
    <3>1. told' = [told EXCEPT ![d] = Unaware[d]] /\ at' = [at EXCEPT ![d] = Nowhere]
      BY <2>3 DEF Leave
    <3>2. c # d
      BY <1>1, <3>1 DEF FloorInv, TypeOK, FloorTypeOK
    <3> QED
      BY <1>1, <2>1, <3>1, <3>2 DEF FloorInv, TypeOK, FloorTypeOK
  <2>4. CASE Restart
    BY <2>4 DEF Restart
  <2> QED
    BY <1>1, <2>2, <2>3, <2>4, ToldStep
<1> QED
  BY <1>1, FloorHolds, QueueMounts, PTL DEF Spec, NeverBack

----------------------------------------------------------------------------
(* Nothing is missed. *)

\* The router is still to hear that c has come to room r.
Expected(c, r) == [client |-> c, room |-> r] \in Items(events)

\* The last that the router will hear of a client is where it is.
LastWord ==
  \A k \in 1..Len(events) :
    at[events[k].client] \notin {Nowhere, events[k].room} =>
      \E l \in (k + 1)..Len(events) :
        events[l] = [client |-> events[k].client, room |-> at[events[k].client]]

Coming(c, i, n) == \E x \in Items(out) : Hears(c, x) /\ x.id = i /\ x.n \in n

HasRow(c, i) == told[c][i] = rows[i].n \/ Coming(c, i, {rows[i].n})
HasMessage(c, m) == told[c][m] # 0 \/ Coming(c, m, Nat)

\* A client who is due something has it, or is about to be sent it.
Shows(c, r) ==
  /\ \A i \in InUse \ undead : announced[i] = r => HasRow(c, i)
  /\ \A m \in Due(c, r) : HasMessage(c, m)

Sees == \A c \in Client \ blind, r \in Room : at[c] = r /\ ~Expected(c, r) => Shows(c, r)

LEMMA LeastOfTwo ==
  ASSUME NEW a \in Nat, NEW b \in Nat
  PROVE  Min({a, b}) \in {a, b}
<1>1. \E x \in {a, b} : \A y \in {a, b} : x <= y
  <2>1. CASE a <= b
    BY <2>1
  <2>2. CASE b <= a
    BY <2>2
  <2> QED
    BY <2>1, <2>2
<1> QED
  BY <1>1 DEF Min

\* A query shows all that too few others push out.
LEMMA Shown ==
  ASSUME FloorInv, NEW S, S \subseteq saved, NEW H \in Newest(S), NEW m \in S,
         Cardinality({x \in S \ {m} : posted[x].second >= posted[m].second}) < HistoryLimit
  PROVE  m \in H
<1> DEFINE X == {x \in S \ {m} : posted[x].second >= posted[m].second}
<1> SUFFICES ASSUME m \notin H PROVE FALSE
  OBVIOUS
<1>1. H \subseteq X
  BY DEF Newest
<1>2. IsFiniteSet(S)
  BY FS_Subset DEF FloorInv, TypeOK, ChatTypeOK, Counted, Tallied
<1>3. IsFiniteSet(X) /\ Cardinality(X) \in Nat /\ Cardinality(S) \in Nat
  BY <1>2, FS_Subset, FS_CardinalityType
<1>4. Cardinality(X) < HistoryLimit
  OBVIOUS
<1> HIDE DEF X
<1>5. Cardinality(H) <= Cardinality(X) /\ IsFiniteSet(H)
  BY <1>1, <1>3, FS_Subset
<1>6. Cardinality(H) \in {Cardinality(S), HistoryLimit}
  BY <1>3, LeastOfTwo, ChatAssumption DEF Newest
<1>7. Cardinality(H) = Cardinality(S)
  <2>1. Cardinality(H) \in Nat
    BY <1>5, FS_CardinalityType
  <2> QED
    BY <1>3, <1>4, <1>5, <1>6, <2>1, ChatAssumption
<1>8. H \in SUBSET S
  BY DEF Newest
<1> QED
  BY <1>2, <1>7, <1>8, FS_Subset

\* The history has all a user is due.
LEMMA DueShown ==
  ASSUME FloorInv, NEW c, NEW r, NEW h \in Histories(r, c)
  PROVE  Due(c, r) \subseteq h
<1> SUFFICES ASSUME NEW m \in Due(c, r) PROVE m \in h
  OBVIOUS
<1>1. PICK a \in Newest(ToRoom(r)), b \in Newest(Of("all")), d \in Newest(Private(c)) : h = a \cup b \cup d
  BY DEF Histories
<1>2. /\ m \in ToRoom(r) \cup Of("all") \cup Private(c)
      /\ Cardinality({x \in Rivals(m, r, c) \ {m} : posted[x].second >= posted[m].second})
           < HistoryLimit
  BY DEF Due
<1>3. ToRoom(r) \subseteq saved /\ Of("all") \subseteq saved /\ Private(c) \subseteq saved
  BY DEF ToRoom, Of, Private
<1>4. CASE m \in ToRoom(r)
  <2>1. Rivals(m, r, c) = ToRoom(r)
    BY <1>4 DEF Rivals, ToRoom, Of
  <2> QED
    BY <1>1, <1>2, <1>3, <1>4, <2>1, Shown
<1>5. CASE m \in Of("all")
  <2>1. Rivals(m, r, c) = Of("all")
    BY <1>5 DEF Rivals, Of
  <2> QED
    BY <1>1, <1>2, <1>3, <1>5, <2>1, Shown
<1>6. CASE m \in Private(c)
  <2>1. Rivals(m, r, c) = Private(c)
    BY <1>6 DEF Rivals, Private, Of
  <2> QED
    BY <1>1, <1>2, <1>3, <1>6, <2>1, Shown
<1> QED
  BY <1>2, <1>4, <1>5, <1>6

\* What is said later makes nothing due that was not.
LEMMA DueLater ==
  ASSUME FloorInv, FloorInv', NEW c, NEW r, NEW m, m \notin DOMAIN posted,
         \A p \in DOMAIN posted : posted'[p] = posted[p],
         saved' \in {saved, saved \cup {m}},
         NEW p \in Due(c, r)', p # m
  PROVE  p \in Due(c, r)
<1>1. saved \subseteq DOMAIN posted /\ p \in saved'
  BY DEF FloorInv, TypeOK, ChatTypeOK, Due, ToRoom, Of, Private
<1>2. p \in saved /\ posted'[p] = posted[p]
  BY <1>1
<1>3. /\ \A x \in saved : posted'[x] = posted[x]
      /\ saved \subseteq saved'
  BY <1>1
<1>4. p \in ToRoom(r) \cup Of("all") \cup Private(c)
  BY <1>2 DEF Due, ToRoom, Of, Private
<1> DEFINE X == {x \in Rivals(p, r, c) \ {p} : posted[x].second >= posted[p].second}
           Y == {x \in Rivals(p, r, c)' \ {p} : posted'[x].second >= posted'[p].second}
<1>5. Cardinality(Y) < HistoryLimit
  BY DEF Due
<1>6. posted[p].scope \in {"room", "all", "private"}
  BY <1>4 DEF ToRoom, Of, Private
<1>7. Rivals(p, r, c) \subseteq Rivals(p, r, c)' /\ Rivals(p, r, c) \subseteq saved
  <2>1. CASE posted[p].scope = "room"
    BY <1>2, <1>3, <2>1 DEF Rivals, ToRoom, Of
  <2>2. CASE posted[p].scope = "all"
    BY <1>2, <1>3, <2>2 DEF Rivals, Of
  <2>3. CASE posted[p].scope = "private"
    BY <1>2, <1>3, <2>3 DEF Rivals, Private, Of
  <2> QED
    BY <1>6, <2>1, <2>2, <2>3
<1>8. X \subseteq Y
  BY <1>2, <1>3, <1>7
<1>9. Rivals(p, r, c)' \subseteq saved'
  BY <1>2, <1>6 DEF Rivals, ToRoom, Private, Of
<1>10. IsFiniteSet(Y)
  <2>1. IsFiniteSet(saved')
    BY FS_Subset DEF FloorInv, TypeOK, ChatTypeOK, Counted, Tallied
  <2>2. Y \subseteq saved'
    BY <1>9
  <2> QED
    BY <2>1, <2>2, FS_Subset
<1>11. Cardinality(X) <= Cardinality(Y) /\ Cardinality(X) \in Nat /\ Cardinality(Y) \in Nat
  <2> HIDE DEF X, Y
  <2> QED
    BY <1>8, <1>10, FS_Subset, FS_CardinalityType
<1>12. Cardinality(X) < HistoryLimit
  <2> HIDE DEF X, Y
  <2> QED
    BY <1>5, <1>11, ChatAssumption
<1> QED
  BY <1>4, <1>12 DEF Due

LEMMA LastWordStep ==
  ASSUME FloorInv, LastWord, [Next]_vars
  PROVE  LastWord'
<1> DEFINE Event == [client : Client, room : Room]
<1>1. /\ events \in Seq(Event) /\ at \in [Client -> Room \cup {Nowhere}]
      /\ \A k \in 1..Len(events) : events[k] \in Event /\ events[k].client \in Client
  <2>1. events \in Seq(Event) /\ at \in [Client -> Room \cup {Nowhere}]
    BY DEF FloorInv, TypeOK, FloorTypeOK
  <2>2. \A x \in Event : x.client \in Client
    OBVIOUS
  <2> HIDE DEF Event
  <2>3. \A k \in 1..Len(events) : events[k] \in Event
    BY <2>1
  <2> QED
    BY <2>1, <2>2, <2>3
<1>2. CASE UNCHANGED <<at, events>>
  BY <1>2 DEF LastWord
<1>3. ASSUME NEW c \in Client, NEW r \in Room, Enter(c, r) PROVE LastWord'
  <2> DEFINE e == [client |-> c, room |-> r]
  <2>1. e \in Event /\ events' = Append(events, e) /\ at' = [at EXCEPT ![c] = r]
    BY <1>3 DEF Enter
  <2>2. /\ Len(events') = Len(events) + 1 /\ Len(events) \in Nat /\ events'[Len(events) + 1] = e
        /\ \A k \in 1..Len(events) : events'[k] = events[k]
    BY <1>1, <2>1
  <2>3. e.client = c /\ e.room = r
    OBVIOUS
  <2>4. at'[c] = r /\ \A d \in Client \ {c} : at'[d] = at[d]
    BY <1>1, <2>1
  <2> HIDE DEF e, Event
  <2> SUFFICES ASSUME NEW k \in 1..Len(events'),
                      at'[events'[k].client] \notin {Nowhere, events'[k].room}
               PROVE  \E l \in (k + 1)..Len(events') :
                        events'[l] = [client |-> events'[k].client, room |-> at'[events'[k].client]]
    BY DEF LastWord
  <2>5. k \in 1..Len(events) /\ events'[k] = events[k]
    BY <2>2, <2>3, <2>4
  <2>6. CASE events[k].client = c
    <3>1. Len(events) + 1 \in (k + 1)..Len(events')
      BY <2>2, <2>5
    <3>2. events'[Len(events) + 1] = [client |-> events'[k].client, room |-> at'[events'[k].client]]
      BY <2>2, <2>4, <2>5, <2>6 DEF e
    <3> QED
      BY <3>1, <3>2
  <2>7. CASE events[k].client # c
    <3>1. at'[events[k].client] = at[events[k].client]
      BY <1>1, <2>4, <2>5, <2>7
    <3>2. PICK l \in (k + 1)..Len(events) :
            events[l] = [client |-> events[k].client, room |-> at[events[k].client]]
      BY <2>5, <3>1 DEF LastWord
    <3>3. l \in (k + 1)..Len(events') /\ l \in 1..Len(events)
      BY <2>2, <2>5
    <3> QED
      BY <2>2, <2>5, <3>1, <3>2, <3>3
  <2> QED
    BY <2>6, <2>7
<1>4. ASSUME NEW c \in Client, Leave(c) PROVE LastWord'
  <2>1. events' = events /\ \A d \in Client : at'[d] \in {Nowhere, at[d]}
    BY <1>1, <1>4 DEF Leave
  <2>2. \A k \in 1..Len(events) :
          at'[events[k].client] = Nowhere \/ at'[events[k].client] = at[events[k].client]
    BY <1>1, <2>1
  <2> QED
    BY <2>1, <2>2 DEF LastWord
<1>5. CASE HandleJoined
  <2>1. events # <<>> /\ events' = Tail(events) /\ at' = at
    BY <1>5 DEF HandleJoined, peerVars
  <2>2. /\ Len(events') = Len(events) - 1 /\ Len(events) \in Nat
        /\ \A k \in 1..Len(events') : k + 1 \in 1..Len(events) /\ events'[k] = events[k + 1]
    BY <1>1, <2>1, ItemsTail
  <2> SUFFICES ASSUME NEW k \in 1..Len(events'),
                      at'[events'[k].client] \notin {Nowhere, events'[k].room}
               PROVE  \E l \in (k + 1)..Len(events') :
                        events'[l] = [client |-> events'[k].client, room |-> at'[events'[k].client]]
    BY DEF LastWord
  <2>3. k + 1 \in 1..Len(events) /\ events'[k] = events[k + 1]
    BY <2>2
  <2>4. PICK l \in (k + 1 + 1)..Len(events) :
          events[l] = [client |-> events[k + 1].client, room |-> at[events[k + 1].client]]
    BY <2>1, <2>3 DEF LastWord
  <2>5. l - 1 \in (k + 1)..Len(events') /\ l - 1 \in 1..Len(events') /\ (l - 1) + 1 = l
    BY <2>2, <2>3
  <2>6. events'[l - 1] = events[l]
    BY <2>2, <2>5
  <2> QED
    BY <2>1, <2>3, <2>4, <2>5, <2>6
<1>6. CASE Restart
  BY <1>6 DEF Restart, LastWord
<1>7. CASE HandleMessage \/ FinishDelete \/ Deliver \/ (\E c \in Client : Say(c)) \/ UNCHANGED vars
  BY <1>2, <1>7 DEF HandleMessage, FinishDelete, Deliver, Say, peerVars, vars, floorVars
<1> QED
  BY <1>3, <1>4, <1>5, <1>6, <1>7 DEF Next, Peers

\* What is queued stays queued for who stays.
LEMMA ComingStays ==
  ASSUME FloorInv, NEW c \in Client, at'[c] = at[c], NEW s \in Seq(Note), out' = out \o s
  PROVE  /\ \A x : Hears(c, x)' <=> Hears(c, x)
         /\ Items(out') = Items(out) \cup Items(s)
         /\ \A m : HasMessage(c, m) /\ told'[c][m] = told[c][m] => HasMessage(c, m)'
         /\ \A i : HasRow(c, i) /\ told'[c][i] = told[c][i] /\ rows'[i] = rows[i] => HasRow(c, i)'
<1>1. \A x : Hears(c, x)' <=> Hears(c, x)
  BY DEF Hears
<1>2. Items(out') = Items(out) \cup Items(s)
  BY Numbers, ItemsConcat
<1>3. \A m : HasMessage(c, m) /\ told'[c][m] = told[c][m] => HasMessage(c, m)'
  BY <1>1, <1>2 DEF HasMessage, Coming
<1>4. \A i : HasRow(c, i) /\ told'[c][i] = told[c][i] /\ rows'[i] = rows[i] => HasRow(c, i)'
  BY <1>1, <1>2 DEF HasRow, Coming
<1> QED
  BY <1>1, <1>2, <1>3, <1>4

LEMMA SeesNoted ==
  ASSUME FloorInv, FloorInv', Sees, NEW j, NEW r, Noted(j, r),
         UNCHANGED <<at, told, events, blind, chatVars>>
  PROVE  Sees'
<1> SUFFICES ASSUME NEW c \in Client \ blind, NEW p \in Room, at[c] = p, ~Expected(c, p)
             PROVE  Shows(c, p)'
  BY DEF Sees, Expected
<1>1. Shows(c, p)
  BY DEF Sees
<1>2. j \in BoardOrTask /\ r \in Room /\ j \in Item /\ undead \subseteq undead'
  BY RowsTyped DEF Noted
<1>3. \E s \in Seq(Note) : out' = out \o s
  <2>1. CASE out' = out
    <3>1. out' = out \o <<>> /\ <<>> \in Seq(Note)
      BY <2>1, Numbers
    <3> QED
      BY <3>1
  <2>2. CASE out' = Append(out, Announcement(j, r))
    <3>1. Announcement(j, r) \in Note
      BY <1>2, <2>2, Announced DEF Noted
    <3>2. out' = out \o <<Announcement(j, r)>> /\ <<Announcement(j, r)>> \in Seq(Note)
      BY <2>2, <3>1, Numbers
    <3> QED
      BY <3>2
  <2> QED
    BY <2>1, <2>2 DEF Noted
<1>4. /\ \A m : HasMessage(c, m) => HasMessage(c, m)'
      /\ \A i : HasRow(c, i) /\ rows'[i] = rows[i] => HasRow(c, i)'
  BY <1>3, ComingStays
<1>5. Due(c, p)' = Due(c, p)
  BY DEF Due, ToRoom, Private, Of, Rivals, chatVars
<1>6. ASSUME NEW i \in InUse' \ undead', announced'[i] = p PROVE HasRow(c, i)'
  <2>1. CASE i # j
    <3>1. i \in InUse \ undead /\ rows'[i] = rows[i] /\ announced'[i] = announced[i]
      BY <1>2, <2>1 DEF Noted
    <3> QED
      BY <1>1, <1>4, <1>6, <3>1 DEF Shows
  <2>2. CASE i = j
    <3>1. out' = Append(out, Announcement(j, r)) /\ announced'[j] = r /\ rows'[j].n = count'
      BY <2>2 DEF Noted
    <3>2. Announcement(j, r) \in Items(out')
      BY <1>2, <3>1, Announced DEF Noted
    <3>3. \A x \in {Announcement(j, r)} : Hears(c, x)'
      BY <1>6, <2>2, <3>1, FloorAssumption DEF Hears, Announcement
    <3>4. Announcement(j, r).id = j /\ Announcement(j, r).n = count'
      BY DEF Announcement
    <3> QED
      BY <2>2, <3>1, <3>2, <3>3, <3>4 DEF HasRow, Coming
  <2> QED
    BY <2>1, <2>2
<1>7. \A m \in Due(c, p)' : HasMessage(c, m)'
  BY <1>1, <1>4, <1>5 DEF Shows
<1> QED
  BY <1>6, <1>7 DEF Shows

LEMMA SeesChatted ==
  ASSUME FloorInv, FloorInv', Sees, NEW m \in Message, NEW scope \in Scope, NEW r \in Room,
         NEW from \in Client, NEW to \in Client, HandleChat(m, scope, r, from, to),
         count' = count + 1, UNCHANGED <<at, told, events, blind, kanbanVars>>
  PROVE  Sees'
<1> SUFFICES ASSUME NEW c \in Client \ blind, NEW p \in Room, at[c] = p, ~Expected(c, p)
             PROVE  Shows(c, p)'
  BY DEF Sees, Expected
<1> DEFINE q == Sends(m, scope, r, from, to)
<1>1. Shows(c, p)
  BY DEF Sees
<1>2. /\ m \notin DOMAIN posted /\ \A x \in DOMAIN posted : posted'[x] = posted[x]
      /\ saved' \in {saved, saved \cup {m}}
      /\ posted'[m].scope = scope
      /\ posted'[m].room = IF scope = "room" THEN r ELSE Nowhere
      /\ posted'[m].parties = IF scope = "private" THEN {from, to} ELSE {}
      /\ out' = out \o q
  BY Chatted
<1>3. count' \in Nat
  BY RowsTyped
<1>4. /\ q \in Seq(Note)
      /\ \A x \in Items(q) : x.id = m /\ x.n = count'
      /\ (scope = "room" /\ r = p) \/ scope = "all" \/ (scope = "private" /\ c \in {from, to})
           => \E x \in Items(q) : c \in x.to /\ x.room \in {p, Anywhere}
  <2>1. q \in Seq(Note)
    BY <1>3, Sent
  <2>2. \A x \in Items(q) : x.id = m /\ x.n = count'
    BY <1>3, Sent
  <2>3. scope = "room" => \A d \in Client : \E x \in Items(q) : d \in x.to /\ x.room = r
    BY <1>3, Sent
  <2>4. scope = "all" => \A d \in Client : \E x \in Items(q) : d \in x.to /\ x.room = Anywhere
    BY <1>3, Sent
  <2>5. scope = "private" => \E x \in Items(q) : from \in x.to /\ x.room = Anywhere
    BY <1>3, Sent
  <2>6. scope = "private" => \E x \in Items(q) : to \in x.to /\ x.room = Anywhere
    BY <1>3, Sent
  <2> HIDE DEF q
  <2> QED
    BY <2>1, <2>2, <2>3, <2>4, <2>5, <2>6
<1> HIDE DEF q
<1>5. /\ \A x : Hears(c, x)' <=> Hears(c, x)
      /\ Items(out') = Items(out) \cup Items(q)
      /\ \A n : HasMessage(c, n) => HasMessage(c, n)'
      /\ \A i : HasRow(c, i) => HasRow(c, i)'
  <2>1. rows' = rows
    BY DEF kanbanVars
  <2> QED
    BY <1>2, <1>4, <2>1, ComingStays
<1>6. ASSUME NEW i \in InUse' \ undead', announced'[i] = p PROVE HasRow(c, i)'
  BY <1>1, <1>5, <1>6 DEF Shows, kanbanVars, InUse
<1>7. ASSUME NEW n \in Due(c, p)' PROVE HasMessage(c, n)'
  <2>1. CASE n # m
    <3>1. n \in Due(c, p)
      BY <1>2, <1>7, <2>1, DueLater
    <3> QED
      BY <1>1, <1>5, <3>1 DEF Shows
  <2>2. CASE n = m
    <3>1. \/ scope = "room" /\ r = p
          \/ scope = "all"
          \/ scope = "private" /\ c \in {from, to}
      BY <1>2, <1>7, <2>2 DEF Due, ToRoom, Private, Of
    <3>2. PICK x \in Items(q) : c \in x.to /\ x.room \in {p, Anywhere}
      BY <1>4, <3>1
    <3>3. Hears(c, x)'
      BY <3>2, FloorAssumption DEF Hears
    <3> QED
      BY <1>3, <1>4, <1>5, <2>2, <3>2, <3>3 DEF HasMessage, Coming
  <2> QED
    BY <2>1, <2>2
<1> QED
  BY <1>6, <1>7 DEF Shows

LEMMA SeesJoined ==
  ASSUME FloorInv, LastWord, Sees, HandleJoined
  PROVE  Sees'
<1> DEFINE e == Head(events)
<1>1. /\ UNCHANGED <<at, told, rows, undead, announced, posted, saved, count>>
      /\ events # <<>> /\ events' = Tail(events)
      /\ blind' \in {blind \ {e.client}, blind \cup {e.client}}
  BY DEF HandleJoined, peerVars, kanbanVars, chatVars
<1>2. /\ e \in [client : Client, room : Room] /\ Items(events) = {e} \cup Items(events')
      /\ e = events[1] /\ Len(events) \in Nat \ {0}
      /\ \A k \in 1..Len(events') : events'[k] = events[k + 1]
      /\ Len(events') = Len(events) - 1
  <2>1. events \in Seq([client : Client, room : Room])
    BY DEF FloorInv, TypeOK, FloorTypeOK
  <2>2. e = events[1] /\ Len(events) \in Nat \ {0}
    BY <1>1, <2>1
  <2>3. /\ e \in [client : Client, room : Room] /\ Items(events) = {e} \cup Items(events')
        /\ Len(events') = Len(events) - 1
    BY <1>1, <2>1, ItemsTail
  <2>4. \A k \in 1..Len(events') : events'[k] = events[k + 1]
    BY <1>1, <2>1, ItemsTail
  <2> QED
    BY <2>2, <2>3, <2>4
<1>3. PICK s \in Seq(Note) :
        /\ out' = out \o s
        /\ \A x \in Items(s) :
             /\ x.room = e.room /\ x.to = {e.client}
             /\ \/ x.id \in InUse /\ x.n = rows[x.id].n
                \/ /\ x.id \in ToRoom(e.room) \cup Of("all") \cup Private(e.client)
                   /\ x.n = posted[x.id].n
        /\ e.client \notin blind' =>
             /\ \A i \in InUse : \E x \in Items(s) : x.id = i
             /\ \E h \in Histories(e.room, e.client) : \A m \in h : \E x \in Items(s) : x.id = m
  BY Joined
<1> HIDE DEF e
<1> SUFFICES ASSUME NEW c \in Client \ blind', NEW p \in Room, at[c] = p, ~Expected(c, p)'
             PROVE  Shows(c, p)'
  BY <1>1 DEF Sees
<1>4. /\ \A x : Hears(c, x)' <=> Hears(c, x)
      /\ Items(out') = Items(out) \cup Items(s)
      /\ \A m : HasMessage(c, m) => HasMessage(c, m)'
      /\ \A i : HasRow(c, i) => HasRow(c, i)'
  BY <1>1, <1>3, ComingStays
<1>5. Due(c, p)' = Due(c, p) /\ InUse' = InUse
  BY <1>1 DEF Due, ToRoom, Private, Of, Rivals, InUse
<1>6. CASE c \notin blind /\ ~Expected(c, p)
  <2>1. Shows(c, p)
    BY <1>6 DEF Sees
  <2> QED
    BY <1>1, <1>4, <1>5, <2>1 DEF Shows
<1>7. CASE e.client = c /\ e.room = p
  <2>1. /\ \A i \in InUse : \E x \in Items(s) : x.id = i
        /\ \E h \in Histories(p, c) : \A m \in h : \E x \in Items(s) : x.id = m
    BY <1>3, <1>7
  <2>2. \A x \in Items(s) : Hears(c, x)'
    BY <1>1, <1>3, <1>7, FloorAssumption DEF Hears
  <2>3. ASSUME NEW i \in InUse PROVE HasRow(c, i)'
    <3>1. PICK x \in Items(s) : x.id = i
      BY <2>1
    <3>2. i \notin Message
      BY RowsTyped, FloorSystemAssumption
    <3>3. x.n = rows[i].n
      BY <1>3, <3>1, <3>2 DEF ToRoom, Of, Private, FloorInv, TypeOK, ChatTypeOK
    <3> QED
      BY <1>1, <1>4, <2>2, <3>1, <3>3 DEF HasRow, Coming
  <2>4. ASSUME NEW m \in Due(c, p) PROVE HasMessage(c, m)'
    <3>1. PICK x \in Items(s) : x.id = m
      BY <2>1, DueShown
    <3>2. s \in Seq(Note) /\ x \in Note
      BY DEF Items
    <3>3. x.n \in Nat
      BY <3>2 DEF Note
    <3> QED
      BY <1>4, <2>2, <3>1, <3>3 DEF HasMessage, Coming
  <2> QED
    BY <1>5, <2>3, <2>4 DEF Shows
<1>8. Expected(c, p) => e.client = c /\ e.room = p
  BY <1>2 DEF Expected
<1>9. CASE ~Expected(c, p) /\ c \in blind
  \* The event is of c, and not the last: c is in the room it came to last.
  <2>1. e.client = c
    BY <1>1, <1>9
  <2>2. e.room = p
    <3> SUFFICES ASSUME e.room # p PROVE FALSE
      OBVIOUS
    <3>1. p # Nowhere /\ 1 \in 1..Len(events)
      BY <1>2, FloorAssumption
    <3>2. PICK l \in 2..Len(events) : events[l] = [client |-> c, room |-> p]
      BY <1>2, <2>1, <3>1 DEF LastWord
    <3>3. l - 1 \in 1..Len(events') /\ events'[l - 1] = events[l]
      BY <1>2, <3>2
    <3> QED
      BY <3>2, <3>3 DEF Expected, Items
  <2> QED
    BY <1>7, <2>1, <2>2
<1> QED
  BY <1>6, <1>7, <1>8, <1>9

LEMMA SeesDelivered ==
  ASSUME FloorInv, Mounting, Sees, Deliver, UNCHANGED <<kanbanVars, chatVars>>
  PROVE  Sees'
<1> DEFINE m == Head(out)
<1>1. /\ m \in Note /\ m.n \in 1..count /\ m \in Items(out) /\ Items(out) = {m} \cup Items(out')
      /\ \A c \in Client, i \in Item :
           told'[c][i] = IF Hears(c, m) /\ m.id = i THEN m.n ELSE told[c][i]
      /\ UNCHANGED <<at, events, blind>>
  BY Delivered
<1> HIDE DEF m
<1> SUFFICES ASSUME NEW c \in Client \ blind, NEW p \in Room, at[c] = p, ~Expected(c, p)
             PROVE  Shows(c, p)'
  BY <1>1 DEF Sees, Expected
<1>2. Shows(c, p)
  BY DEF Sees
<1>3. \A x : Hears(c, x)' <=> Hears(c, x)
  BY <1>1 DEF Hears
<1>4. Due(c, p)' = Due(c, p) /\ InUse' = InUse /\ UNCHANGED <<rows, undead, announced>>
  BY DEF Due, ToRoom, Private, Of, Rivals, InUse, chatVars, kanbanVars
<1>5. \A x \in Items(out) : x \in Items(out') \/ x = m
  BY <1>1
<1>6. ASSUME NEW i \in InUse \ undead, HasRow(c, i) PROVE HasRow(c, i)'
  <2>1. /\ i \in Item /\ rows[i].n \in Nat /\ m.n \in Nat /\ told[c][i] \in Nat
        /\ told'[c][i] = IF Hears(c, m) /\ m.id = i THEN m.n ELSE told[c][i]
    BY <1>1, Numbers
  <2>2. m.id = i => told[c][i] <= m.n /\ m.n <= rows[i].n
    BY <1>1, RowsTyped DEF Mounting, Mounted
  <2>3. CASE told[c][i] = rows[i].n
    BY <1>4, <2>1, <2>2, <2>3 DEF HasRow
  <2>4. ASSUME NEW x \in Items(out), Hears(c, x), x.id = i, x.n = rows[i].n
        PROVE  HasRow(c, i)'
    BY <1>3, <1>4, <1>5, <2>1, <2>4 DEF HasRow, Coming
  <2> QED
    BY <1>6, <2>3, <2>4 DEF HasRow, Coming
<1>7. ASSUME NEW i \in Due(c, p), HasMessage(c, i) PROVE HasMessage(c, i)'
  <2>1. i \in Item
    BY ChatAssumption DEF Due, ToRoom, Private, Of, FloorInv, TypeOK, ChatTypeOK
  <2>2. /\ m.n \in Nat \ {0} /\ told[c][i] \in Nat
        /\ told'[c][i] = IF Hears(c, m) /\ m.id = i THEN m.n ELSE told[c][i]
    BY <1>1, <2>1, Numbers
  <2>3. CASE told[c][i] # 0
    BY <2>2, <2>3 DEF HasMessage
  <2>4. ASSUME NEW x \in Items(out), Hears(c, x), x.id = i, x.n \in Nat
        PROVE  HasMessage(c, i)'
    BY <1>3, <1>5, <2>2, <2>4 DEF HasMessage, Coming
  <2> QED
    BY <1>7, <2>3, <2>4 DEF HasMessage, Coming
<1> QED
  BY <1>2, <1>4, <1>6, <1>7 DEF Shows

\* Who stays and is told nothing is due the same.
LEMMA ShowsSame ==
  ASSUME UNCHANGED <<out, kanbanVars, chatVars>>, NEW c, NEW p, at'[c] = at[c], told'[c] = told[c],
         Shows(c, p)
  PROVE  Shows(c, p)'
<1>1. Due(c, p)' = Due(c, p) /\ InUse' = InUse /\ UNCHANGED <<rows, undead, announced, out>>
  BY DEF Due, ToRoom, Private, Of, Rivals, InUse, chatVars, kanbanVars
<1>2. \A x : Hears(c, x)' <=> Hears(c, x)
  BY DEF Hears
<1>3. Items(out') = Items(out)
  BY <1>1
<1>4. \A i : HasRow(c, i) => HasRow(c, i)'
  BY <1>1, <1>2, <1>3 DEF HasRow, Coming
<1>5. \A m : HasMessage(c, m) => HasMessage(c, m)'
  BY <1>2, <1>3 DEF HasMessage, Coming
<1> QED
  BY <1>1, <1>4, <1>5 DEF Shows

LEMMA SeesStep ==
  ASSUME FloorInv, FloorInv', Mounting, BoardGone, LastWord, Sees, [Next]_vars
  PROVE  Sees'
<1>1. /\ at \in [Client -> Room \cup {Nowhere}] /\ told \in [Client -> [Item -> 0..MaxCount]]
      /\ events \in Seq([client : Client, room : Room])
  BY DEF FloorInv, TypeOK, FloorTypeOK
<1>2. CASE UNCHANGED <<at, told, events, out, blind, kanbanVars, chatVars>>
  <2> SUFFICES ASSUME NEW c \in Client \ blind, NEW p \in Room, at[c] = p, ~Expected(c, p)
               PROVE  Shows(c, p)'
    BY <1>2 DEF Sees, Expected
  <2> QED
    BY <1>2, ShowsSame DEF Sees
<1>3. ASSUME NEW d \in Client, NEW r \in Room, Enter(d, r), UNCHANGED <<kanbanVars, chatVars>>
      PROVE  Sees'
  <2> DEFINE e == [client |-> d, room |-> r]
  <2>1. /\ events' = Append(events, e) /\ at' = [at EXCEPT ![d] = r]
        /\ UNCHANGED <<out, told, blind>>
    BY <1>3 DEF Enter
  <2>2. Items(events') = Items(events) \cup {e}
    <3> DEFINE E == [client : Client, room : Room]
    <3>1. e \in E /\ events \in Seq(E)
      BY <1>1
    <3> HIDE DEF e, E
    <3>2. Items(Append(events, e)) = Items(events) \cup {e}
      BY <3>1, ItemsAppend
    <3> QED
      BY <2>1, <3>2
  <2> SUFFICES ASSUME NEW c \in Client \ blind, NEW p \in Room, at'[c] = p, ~Expected(c, p)'
               PROVE  Shows(c, p)'
    BY <2>1 DEF Sees
  <2>3. c # d
    BY <1>1, <2>1, <2>2 DEF Expected
  <2>4. at'[c] = at[c] /\ ~Expected(c, p)
    BY <1>1, <2>1, <2>2, <2>3 DEF Expected
  <2> QED
    BY <1>3, <2>1, <2>4, ShowsSame DEF Sees
<1>4. ASSUME NEW d \in Client, Leave(d), UNCHANGED <<kanbanVars, chatVars>>
      PROVE  Sees'
  <2>1. /\ at' = [at EXCEPT ![d] = Nowhere] /\ told' = [told EXCEPT ![d] = Unaware[d]]
        /\ UNCHANGED <<events, out, blind>>
    BY <1>4 DEF Leave
  <2> SUFFICES ASSUME NEW c \in Client \ blind, NEW p \in Room, at'[c] = p, ~Expected(c, p)'
               PROVE  Shows(c, p)'
    BY <2>1 DEF Sees
  <2>2. c # d
    BY <1>1, <2>1, FloorAssumption
  <2>3. at'[c] = at[c] /\ told'[c] = told[c] /\ ~Expected(c, p)
    BY <1>1, <2>1, <2>2 DEF Expected
  <2> QED
    BY <1>4, <2>1, <2>3, ShowsSame DEF Sees
<1>5. CASE Peers /\ UNCHANGED <<kanbanVars, chatVars>>
  <2>1. ASSUME NEW c \in Client, Say(c) PROVE Sees'
    BY <1>2, <1>5, <2>1 DEF Say, peerVars
  <2> QED
    BY <1>3, <1>4, <1>5, <2>1, SeesDelivered DEF Peers
<1>6. CASE HandleMessage
  <2>1. UNCHANGED <<at, told, events, blind>>
    BY <1>6, Handled
  <2>2. ASSUME NEW i, NEW r, Noted(i, r), UNCHANGED chatVars PROVE Sees'
    BY <2>1, <2>2, SeesNoted
  <2>3. ASSUME NEW m \in Message, NEW scope \in Scope, NEW r \in Room, NEW from \in Client,
               NEW to \in Client, HandleChat(m, scope, r, from, to), count' = count + 1,
               UNCHANGED kanbanVars
        PROVE  Sees'
    BY <2>1, <2>3, SeesChatted
  <2>4. CASE UNCHANGED <<out, fresh, count, kanbanVars, chatVars>>
    BY <1>2, <2>1, <2>4
  <2> QED
    BY <1>6, <2>2, <2>3, <2>4, Handled
<1>7. CASE FinishDelete /\ UNCHANGED chatVars
  <2>1. UNCHANGED <<at, told, events, blind>>
    BY <1>7 DEF FinishDelete
  <2> QED
    BY <1>7, <2>1, DeleteFinished, SeesNoted
<1>8. CASE Restart
  <2>1. \A c \in Client : at'[c] \notin Room
    BY <1>8, FloorAssumption DEF Restart
  <2> QED
    BY <2>1 DEF Sees
<1>9. CASE UNCHANGED vars
  BY <1>2, <1>9 DEF vars, floorVars
<1> QED
  BY <1>5, <1>6, <1>7, <1>8, <1>9, SeesJoined DEF Next

\* Who is where the router last heard of, and whose snapshot did not fail, has what it
\* is due or is about to be sent it.
THEOREM AllSee == Spec => [](LastWord /\ Sees)
<1>1. Init => LastWord /\ Sees
  BY FloorAssumption DEF Init, FloorInit, LastWord, Sees
<1>2. /\ FloorInv /\ FloorInv' /\ (Mounting /\ BoardGone) /\ (LastWord /\ Sees) /\ [Next]_vars
      => (LastWord /\ Sees)'
  BY LastWordStep, SeesStep
<1> QED
  BY <1>1, <1>2, FloorHolds, QueueMounts, PTL DEF Spec

\* When all is handled and delivered, nothing is expected or coming.
LEMMA NothingComes ==
  ASSUME Settled
  PROVE  /\ \A c, r : ~Expected(c, r)
         /\ \A c, i, n : ~Coming(c, i, n)
<1>1. Items(events) = {} /\ Items(out) = {}
  BY DEF Settled, Items
<1> QED
  BY <1>1 DEF Expected, Coming

\* Everybody in a room sees the boards and tasks last changed from that room as they
\* are stored, for any number of peers, rooms, boards and tasks.
THEOREM RoomsSee == Spec => []RoomSeesItsEdits
<1>1. ASSUME FloorInv, Sees PROVE RoomSeesItsEdits
  <2> SUFFICES ASSUME Settled, NEW c \in Client \ blind, NEW i \in InUse \ undead,
                      at[c] # Nowhere, announced[i] = at[c]
               PROVE  told[c][i] = rows[i].n
    BY DEF RoomSeesItsEdits
  <2> DEFINE p == at[c]
  <2>1. p \in Room /\ at[c] = p /\ ~Expected(c, p)
    BY <1>1, NothingComes DEF FloorInv, TypeOK, FloorTypeOK
  <2> HIDE DEF p
  <2>2. HasRow(c, i)
    BY <1>1, <2>1 DEF Sees, Shows
  <2> QED
    BY <2>2, NothingComes DEF HasRow
<1> QED
  BY <1>1, FloorHolds, AllSee, PTL

\* Between what is sent live and what is read from the history no message falls
\* through, for any number of messages, peers and rooms and any limit of a query.
THEOREM NoneMissed == Spec => []NothingMissed
<1>1. ASSUME FloorInv, Sees PROVE NothingMissed
  <2> SUFFICES ASSUME Settled, NEW c \in Client \ blind, at[c] # Nowhere, NEW m \in Due(c, at[c])
               PROVE  told[c][m] # 0
    BY DEF NothingMissed
  <2> DEFINE p == at[c]
  <2>1. p \in Room /\ at[c] = p /\ ~Expected(c, p) /\ m \in Due(c, p)
    BY <1>1, NothingComes DEF FloorInv, TypeOK, FloorTypeOK
  <2> HIDE DEF p
  <2>2. HasMessage(c, m)
    BY <1>1, <2>1 DEF Sees, Shows
  <2> QED
    BY <2>2, NothingComes DEF HasMessage
<1> QED
  BY <1>1, FloorHolds, AllSee, PTL
============================================================================
