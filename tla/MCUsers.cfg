SPECIFICATION Spec
CONSTANTS
  k1 = k1
  k2 = k2
  u1 = u1
  u2 = u2
  e1 = e1
  e2 = e2
  Call <- MCCall
  User <- MCUser
  Email <- MCEmail
  Role = {hr, dev}
  HR = hr
  NoRole = NoRole
  Manager = {boss, Nobody}
  Nobody = Nobody
  Profile = {p0, p1}
  Blank = p0
SYMMETRY Symmetry
INVARIANTS
  TypeOK
  EmailsUnique
  AnswersAreKept
PROPERTIES
  PowerIsCurrent
