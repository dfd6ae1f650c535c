SPECIFICATION FairSpec
CONSTANTS
  c1 = c1
  c2 = c2
  u1 = u1
  r1 = r1
  d1 = d1
  m1 = m1
  None = None
  Client <- MCClients
  User <- MCUser
  Room <- MCRoom
  Data <- MCData
  Message <- MCMessage
  Id <- MCId
  Command <- MCCommand
  Lobby = r1
  EventsCap = 1
  OutCap = 1
  SwitchCap = 1
  SendCap = 1
  IncomingCap = 1
  Flaky = {}
INVARIANTS
  TypeOK
PROPERTIES
  RegisterAnswered
  KickedDies
