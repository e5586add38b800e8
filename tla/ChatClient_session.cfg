SPECIFICATION FairSpec
CONSTANTS
  n1 = n1
  n2 = n2
  None = None
  Names <- TwoNames
  Documents <- OneName
  FileSizes = {0, 2}
  MaxSize = 2
  MaxCommands = 2
  MaxOthers = 1
  MaxFaults = 1
  Commands = {"ask", "upload", "download", "quit"}
INVARIANTS TypeOK UploadsInStep DownloadsInStep UploadTruth LocalComplete DownloadTruth
PROPERTIES LocalKept UploadReturns QuitEnds
CHECK_DEADLOCK FALSE
