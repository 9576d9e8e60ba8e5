SPECIFICATION Spec
CONSTANTS
  r1 = r1
  r2 = r2
  r3 = r3
  a = a
  b = b
  Requests <- ThreeRequests
  Persons <- TwoPersons
  UserOf <- TwoTabs
  Good <- TwoPersons
  Crew <- TwoRequests
  Nobody = Nobody
SYMMETRY Alike
CHECK_DEADLOCK FALSE
INVARIANTS
  TypeOK
  TokenOfOwnConnection
PROPERTIES
  NobodyForgotten
