SPECIFICATION Spec
CONSTANTS
  n1 = n1
  n2 = n2
  None = None
  Names <- OneName
  Documents <- OneName
  FileSizes = {0, 1}
  MaxSize = 1
  MaxCommands = 3
  MaxOthers = 0
  MaxFaults = 0
  Commands = {"ask", "upload"}
INVARIANTS StreamAgreed
CHECK_DEADLOCK FALSE
