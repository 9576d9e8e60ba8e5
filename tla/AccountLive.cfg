SPECIFICATION FairSpec
CONSTANTS
  r1 = r1
  r2 = r2
  r3 = r3
  a = a
  b = b
  Requests <- TwoRequests
  Persons <- TwoPersons
  UserOf <- OneEach
  Good <- FirstGood
  Crew <- TwoRequests
  Nobody = Nobody
CHECK_DEADLOCK FALSE
PROPERTIES
  WorkersEnd
