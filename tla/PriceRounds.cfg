SPECIFICATION FairSpec
CONSTANTS
  p1 = p1
  p2 = p2
  k1 = k1
  k2 = k2
  ann = ann
  bob = bob
  btc = btc
  eth = eth
  sol = sol
  Processes <- TwoProcesses
  Feeders = {p1}
  Postmen = {p2}
  Keys <- TwoKeys
  Owners <- TwoOwners
  person <- TwoPersons
  Tickers <- ThreeTickers
  Supported = {btc, eth}
  Copies <- ThreeCopies
  Gone = Gone
  Blank = Blank
  NoPrice = NoPrice
  NoKey = NoKey
  MaxRows = 2
INVARIANTS
  TypeOK
  OnlyUnpricedBorrow
PROPERTIES
  NoOlderThanRound
  CatchesUp
  Mailed
