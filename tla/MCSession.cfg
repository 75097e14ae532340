SPECIFICATION Spec
CONSTANTS
  PageSize = 31
  PageHeader = 16
  MAX_COLUMNS = 32
  Blank <- MCBlank
  Schemas <- MCSchemas
  TableNames <- MCTableNames
  Dataset <- MCDataset
  Requests <- MCRequests
  Garbage <- MCGarbage
  MaxUsed = 2
INVARIANTS
  GeneratedInOrder
  NanodbStartsComplete
  StartKeepsUserRows
PROPERTIES
  ClauseConfinesChanges
  InsertReadsBack
