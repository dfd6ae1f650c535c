SPECIFICATION Spec
CONSTANTS
  k1 = k1
  k2 = k2
  q1 = q1
  ann = ann
  hr = hr
  sick = sick
  Call <- MCCall
  Request = {q1}
  Person <- MCPerson
  HR = hr
  Nobody = Nobody
  Type <- MCType
  Text <- MCText
  Horizon = 3
  Firsts <- MCFirsts
  NewYears <- MCNewYears
  Asked <- MCAsked
  Policies <- MCPolicies
  Default <- MCDefault
  DbFails = FALSE
SYMMETRY Symmetry
PROPERTIES
  DecidedForGood
