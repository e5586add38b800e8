SPECIFICATION Spec
CONSTANTS
  c1 = c1
  c2 = c2
  c3 = c3
  f1 = f1
  f2 = f2
  f3 = f3
  u1 = u1
  u2 = u2
  u3 = u3
  None = None
  Conns <- ThreeConns
  Fds <- ThreeFds
  Users <- ThreeUsers
  MaxClients = 2
  IntMax = 2
  MaxLogins = 4
  MaxRequests = 1
  MaxBlocks = 1
  MaxFailures = 1
  Requests = {"download", "file", "reply", "quit"}
  ReadErrors = TRUE
  Stalls = TRUE
SYMMETRY Symmetry
INVARIANTS TypeOK NamesUnique
PROPERTIES LimitMeansFull
