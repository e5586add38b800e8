SPECIFICATION Spec
CONSTANTS
  t1 = t1
  t2 = t2
  n1 = n1
  n2 = n2
  None = None
  Threads <- TwoThreads
  Names <- TwoNames
  MaxSize = 1
  MaxRequests = 3
  MaxFaults = 1
  MaxExits = 1
  MaxRemovals = 1
  Operations = {"upload", "download", "list", "external"}
SYMMETRY Symmetry
INVARIANTS TypeOK FilesComplete DownloadWhole TempsRemoved UploadOutcome ListingFaithful
PROPERTIES FilesKept ImplementsSharedFiles
