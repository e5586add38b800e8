SPECIFICATION FairSpec
CONSTANTS
  t1 = t1
  t2 = t2
  n1 = n1
  n2 = n2
  None = None
  Threads <- TwoThreads
  Names <- OneName
  MaxSize = 2
  MaxRequests = 3
  MaxFaults = 1
  MaxExits = 0
  MaxRemovals = 0
  Operations = {"upload", "download", "list"}
INVARIANTS StreamAligned DestinationStaysFree ListingFailsForCause
PROPERTIES RequestsEnd
