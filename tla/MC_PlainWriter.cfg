CONSTANTS
  NumSegments = 5
  FlushBlock = 2
  FileMax = 3
  RowSizes <- MCRowSizes
  PreExisting <- MCPreExisting
  AppendStatuses = {"ok"}
SPECIFICATION Spec
INVARIANT TypeOK
INVARIANT ObjectSizeBound
INVARIANT ObjectsNeverShared
INVARIANT ExportComplete
