SPECIFICATION Spec
CONSTANTS
  r1 = r1
  r2 = r2
  a = a
  b = b
  btc = btc
  eth = eth
  Requests <- TwoRequests
  Operations = {"create", "get", "cancel", "cancel all"}
  Faults = {"restart", "lost write"}
  Persons <- TwoPersons
  Tickers <- TwoTickers
  Uuid = Uuid
  MaxEvents = 4
INVARIANTS
  TypeOK
  FirstStaysBooked
  CopiesNotAhead
  CancelAllRemoves
