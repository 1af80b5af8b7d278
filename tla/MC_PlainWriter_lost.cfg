CONSTANTS
  NumSegments = 5
  FlushBlock = 2
  FileMax = 3
  RowSizes <- MCRowSizes
  PreExisting <- MCPreExisting
  AppendStatuses = {"ok", "error"}
SPECIFICATION Spec
INVARIANT ExportComplete
