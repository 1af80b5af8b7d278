CONSTANTS
  SegIndex = 0
  NumSegments = 2
  RowTables <- MCRowTablesNormal
  PipeBlock = 2
  FileMax = 3
  UpBuf = 2
  StdinCap = 2
  StdoutCap = 3
  HeadStatuses = {"ok", "error"}
  PostStatuses = {"ok"}
  MallocMayFail = FALSE
  PigzMayFail = FALSE
  StartMayFail = FALSE
SPECIFICATION Spec
INVARIANT ExportComplete
CHECK_DEADLOCK FALSE
