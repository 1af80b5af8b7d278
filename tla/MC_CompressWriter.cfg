CONSTANTS
  SegIndex = 0
  NumSegments = 2
  RowTables <- MCRowTables
  PipeBlock = 2
  FileMax = 3
  UpBuf = 2
  StdinCap = 2
  StdoutCap = 3
  HeadStatuses = {"ok"}
  PostStatuses = {"ok"}
  MallocMayFail = FALSE
  PigzMayFail = TRUE
  StartMayFail = TRUE
SPECIFICATION Spec
INVARIANT TypeOK
INVARIANT EarlierObjectsComplete
INVARIANT ExportComplete
INVARIANT NoThreadOutlivesExport
INVARIANT ObjectRowsBound
PROPERTY ExportTerminates
