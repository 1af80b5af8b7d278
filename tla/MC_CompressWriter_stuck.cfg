CONSTANTS
  SegIndex = 0
  NumSegments = 2
  RowTables <- MCRowTablesNormal
  PipeBlock = 2
  FileMax = 6
  UpBuf = 2
  StdinCap = 2
  StdoutCap = 1
  HeadStatuses = {"ok", "error"}
  PostStatuses = {"ok"}
  MallocMayFail = TRUE
  PigzMayFail = FALSE
  StartMayFail = FALSE
SPECIFICATION Spec
PROPERTY ExportTerminates
CHECK_DEADLOCK FALSE
