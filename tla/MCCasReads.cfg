SPECIFICATION ReadsSpec
CONSTANTS
  Calls = {c1, c2}
  Nil = Nil
  Concurrency = 2
  Blobs <- MCBlobs
  Requests <- MCRequests
  Uploads <- MCUploads
  Streams = {r1}
  readChunkSize = 2
  pageSize = 2
  Ranges <- MCRanges
  Subdirectories <- MCSubdirectories
CONSTRAINTS
  TwoCalls
INVARIANTS
  CasTypeOK
  StoreSound
  FindMissingSound
  AcknowledgedIsStored
  NotFoundWasAbsent
  ReadIsSlice
  TreeIsComplete
PROPERTIES
  UnaryCallsReturn
CHECK_DEADLOCK FALSE
