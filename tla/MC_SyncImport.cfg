CONSTANTS
  NumSegments = 2
  ObjectLength <- MCObjectLength
  Comp <- MCComp
  DirKeys = {3}
  PrefixKeys = {4}
  PageSize = 2
  RetryCount = 1
  ListStatuses = {"ok"}
  HeadStatuses = {"ok", "error"}
  ChunkSize = 2
  ReadSizes = {1, 2}
  Modes = {"none", "gzip"}
  Sources = {"dir", "path"}
  GetStatuses = {"ok", "error"}
SPECIFICATION Spec
INVARIANT TypeOK ImportComplete
PROPERTY PlanRefinesShardPlan
PROPERTY ImportTerminates
