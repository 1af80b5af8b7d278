CONSTANTS
  NumSegments = 2
  ObjectLength <- MCObjectLength
  Comp <- MCComp
  DirKeys = {3}
  PrefixKeys = {4, 5}
  PageSize = 2
  RetryCount = 1
  ListStatuses = {"ok"}
  HeadStatuses = {"ok"}
  ChunkSize = 2
  ReadSizes = {2}
  Modes = {"none"}
  Sources = {"dir"}
  GetStatuses = {"ok"}
SPECIFICATION Spec
PROPERTY ImportTerminates
