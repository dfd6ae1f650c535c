SPECIFICATION Spec
CONSTANTS
  c1 = c1
  c2 = c2
  r1 = r1
  r2 = r2
  b1 = b1
  t1 = t1
  m1 = m1
  m2 = m2
  Client <- MCClient
  Room <- MCRoom
  Nowhere = Nowhere
  Anywhere = Anywhere
  Item <- MCItem
  Board <- MCBoard
  Task <- MCTask
  NoBoard = NoBoard
  Message <- MCMessage
  HistoryLimit = 1
  Pools <- MCPools
  MaxIncoming = 1
  MaxOut = 2
  MaxCount = 3
  MaxJoins = 3
SYMMETRY Symmetry
INVARIANTS
  TypeOK
  TasksHaveBoards
  RoomSeesItsEdits
  NothingMissed
PROPERTIES
  NeverBack
  KeptInScope
