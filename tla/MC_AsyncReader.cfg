CONSTANTS
  ReadUnit <- MCReadUnit
  InitialBufLen <- MCInitialBufLen
  FileLengths <- MCFileLengths
  Requests <- MCRequests
  Comp <- MCComp
  ChunkSize <- MCChunkSize
  Modes = {"none", "gzip"}
  FetchMayFail = TRUE

SPECIFICATION Spec

INVARIANT TypeOK
INVARIANT NoByteLostOrReordered
INVARIANT ErrorNeverMasked
PROPERTY ImportTerminates
