CONSTANTS
  NumSegments = 2
  ObjectLength <- MCObjectLengthTrailerChunk
  Comp <- MCCompTrailerChunk
  DirKeys = {3}
  PrefixKeys = {}
  PageSize = 2
  RetryCount = 1
  ListStatuses = {"ok"}
  HeadStatuses = {"ok", "notfound"}
  ChunkSize = 2
  ReadSizes = {1, 2}
  Modes = {"none", "gzip"}
  Sources = {"dir"}
  GetStatuses = {"ok"}
SPECIFICATION Spec
INVARIANT ImportComplete
