SPECIFICATION FairSpec
CONSTANTS
  k1 = k1
  k2 = k2
  origin = origin
  p1 = p1
  p2 = p2
  Key <- MCKey
  Place <- MCPlace
  Spawn <- MCSpawn
  Origin = origin
  Nowhere = Nowhere
  SavesCap = 2
  MaxSaves = 4
INVARIANTS
  TypeOK
  NewestFirst
PROPERTIES
  RedisInOrder
  StandingIsStored
