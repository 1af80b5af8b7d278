CONSTANTS
  ReadUnit <- MCReadUnit
  InitialBufLen <- MCInitialBufLen
  FileLengths <- MCFileLengths
  Requests <- MCRequests
  Comp <- MCComp
  ChunkSize <- MCChunkSize
  Modes = {"none"}
  FetchMayFail = FALSE

SPECIFICATION Spec

INVARIANT EofMeansAllDelivered
