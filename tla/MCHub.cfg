SPECIFICATION Spec
CONSTANTS
  c1 = c1
  c2 = c2
  c3 = c3
  u1 = u1
  u2 = u2
  r1 = r1
  r2 = r2
  d1 = d1
  None = None
  Client <- MCClient
  User <- MCUser
  Room <- MCRoom
  Data <- MCData
  Id <- MCId
  Command <- MCCommand
  Request <- MCRequest
  Lobby = r1
  EventsCap = 1
  OutCap = 1
  SwitchCap = 1
  SendCap = 1
SYMMETRY Symmetry
INVARIANTS
  TypeOK
  NeverOnClosed
  WellPlaced
  NoneForgotten
  PresenceAgrees
  SeatsAgree
PROPERTIES
  ImplementsOffice
