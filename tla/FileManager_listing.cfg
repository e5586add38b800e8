SPECIFICATION Spec
CONSTANTS
  t1 = t1
  t2 = t2
  n1 = n1
  n2 = n2
  None = None
  Threads <- TwoThreads
  Names <- OneName
  MaxSize = 1
  MaxRequests = 3
  MaxFaults = 0
  MaxExits = 0
  MaxRemovals = 1
  Operations = {"upload", "list", "external"}
INVARIANT ListingFailsForCause
