SPECIFICATION FairSpec
CONSTANTS
  r1 = r1
  r2 = r2
  ann = ann
  bob = bob
  cid = cid
  Requests <- TwoRequests
  Persons <- ThreePersons
  person <- TwoPersons
  MaxSize = 2
  NoPerson = NoPerson
  limitations = 2
  MaxClients = 1
  NoRequest = NoRequest
INVARIANTS
  TypeOK
  OneWaits
  SizeBound
  LostOnlyWhenFull
PROPERTIES
  PoolRefilled
CHECK_DEADLOCK FALSE
