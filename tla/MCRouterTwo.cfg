SPECIFICATION Spec
CONSTANTS
  c1 = c1
  c2 = c2
  u1 = u1
  u2 = u2
  r1 = r1
  r2 = r2
  None = None
  Client <- MCClient
  User <- MCUser
  Room <- MCRoom
  Id <- TwoUsers
  Data <- ServerMsg
  Message <- Everything
  Lobby = r1
  EventsCap = 1
  OutCap = 1
  SwitchCap = 1
  SendCap = 1
  IncomingCap = 1
  Flaky = {}
  HistoryLen = 0
  ObjectCap = 1
  MaxSaid = 1
INVARIANTS
  ViewsAgree
  NobodyLingers
  PrivateIsPrivate
CHECK_DEADLOCK FALSE
