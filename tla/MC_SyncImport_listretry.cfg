CONSTANTS
  NumSegments = 2
  ObjectLength <- MCObjectLength
  Comp <- MCComp
  DirKeys = {3}
  PrefixKeys = {}
  PageSize = 2
  RetryCount = 1
  ListStatuses = {"ok", "transient"}
  HeadStatuses = {"ok"}
  ChunkSize = 2
  ReadSizes = {1, 2}
  Modes = {"none", "gzip"}
  Sources = {"dir"}
  GetStatuses = {"ok"}
SPECIFICATION Spec
PROPERTY PlanRefinesShardPlan
