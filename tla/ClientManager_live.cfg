SPECIFICATION FairSpec
CONSTANTS
  c1 = c1
  c2 = c2
  c3 = c3
  f1 = f1
  f2 = f2
  f3 = f3
  u1 = u1
  u2 = u2
  u3 = u3
  None = None
  Conns <- TwoConns
  Fds <- TwoFds
  Users <- TwoUsers
  MaxClients = 2
  IntMax = 9
  MaxLogins = 9
  MaxRequests = 2
  MaxBlocks = 1
  MaxFailures = 1
  Requests = {"chat", "download"}
  ReadErrors = FALSE
  Stalls = FALSE
INVARIANTS FramesWhole BroadcastOrder
PROPERTIES RequestsEnd Teardown
