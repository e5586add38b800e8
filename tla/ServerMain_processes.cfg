SPECIFICATION FairSpec
CONSTANTS
  c1 = c1
  None = None
  Main = Main
  Conns <- OneConn
  Senders <- ProcessThreads
  QueueMax = 1
  MaxStarts = 2
  MaxFaults = 1
  MaxEvents = 1
  MaxSignals = 2
INVARIANTS TypeOK ServingReachable DescriptorsOwned StopsForCause
PROPERTIES StalePathReplaced LogCallsReturn ShutdownEnds
