SPECIFICATION Spec
CONSTANTS
  Calls = {c1, c2}
  Nil = Nil
  Concurrency = 1
  Blobs <- MCChangedBlobs
  Requests <- MCChangedRequests
  Uploads <- MCChangedUploads
INVARIANTS
  ReadMatchesDigest
CHECK_DEADLOCK FALSE
