SPECIFICATION FairSpec
CONSTANTS
  r1 = r1
  r2 = r2
  k0 = k0
  k1 = k1
  k2 = k2
  u0 = u0
  u1 = u1
  u2 = u2
  Readers <- LoneReader
  Leavers <- LoneReader
  Keys <- LoneKeys
  Slow <- LoneKeys
  mapped_key <- LoneMapped
  Persons <- LonePersons
  person <- LonePerson
  Booked <- LoneBooked
  ScanOrder <- LoneOrder
  NoReader = NoReader
  NoKey = NoKey
  NoRecord <- MinusOne
  QueueSize = 2
  MaxPrice = 2
PROPERTIES
  EveryReaderServed
  BroadcastReturns
  Fresh
