SPECIFICATION FairSpec
CONSTANTS
  r1 = r1
  r2 = r2
  k0 = k0
  k1 = k1
  k2 = k2
  u0 = u0
  u1 = u1
  u2 = u2
  Readers <- TwoReaders
  Leavers = {}
  Keys <- TwoKeys
  Slow = {}
  mapped_key <- TwoMapped
  Persons <- TwoPersons
  person <- TwoPerson
  Booked <- TwoPersons
  ScanOrder <- TwoOrder
  NoReader = NoReader
  NoKey = NoKey
  NoRecord <- MinusOne
  QueueSize = 1
  MaxPrice = 1
PROPERTIES
  EveryReaderServed
