SPECIFICATION FairSpec
CONSTANTS
  c1 = c1
  c2 = c2
  p1 = p1
  k1 = k1
  k2 = k2
  Tasks <- MixedTasks
  Clients <- TwoClients
  Leavers = {c1}
  Publishers <- MixedPublishers
  Pricers <- OnePricer
  Keys <- TwoKeys
  keysOf <- UpToNames
  NoTask = NoTask
  NoKey = NoKey
  QueueSize = 1
  MaxBroadcasts = 2
INVARIANTS
  IInv
  TableStable
  ExactlyOnce
  CallOrder
  QueueBound
PROPERTIES
  OnlyUnwatchedDeleted
  Implements
  OperationsEnd
