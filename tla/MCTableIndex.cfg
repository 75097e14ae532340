SPECIFICATION Spec
CONSTANTS
    Keys <- MCKeys
    Files <- MCFiles
    RowsPerPage = 3
    MAX_LOCS = 2
    MaxChanges = 2
    MaxRows = 4
INVARIANTS
    IndexIsAVLTree
    IndexHoldsFile
    BenchmarkCounts
