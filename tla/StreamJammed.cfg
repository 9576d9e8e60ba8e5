SPECIFICATION FairSpec
CONSTANTS
  r1 = r1
  r2 = r2
  k0 = k0
  k1 = k1
  k2 = k2
  u0 = u0
  u1 = u1
  u2 = u2
  Readers <- TwoReaders
  Leavers = {r2}
  Keys <- SharedKeys
  Slow = {}
  mapped_key <- SharedMapped
  Persons <- SharedPersons
  person <- SharedPerson
  Booked <- SharedPersons
  ScanOrder <- SharedOrder
  NoReader = NoReader
  NoKey = NoKey
  NoRecord <- MinusOne
  QueueSize = 1
  MaxPrice = 1
PROPERTIES
  BroadcastReturns
