SPECIFICATION Spec
CONSTANTS
  a = a
  b = b
  c = c
  d = d
  e = e
  MaxNodes = 5
  NoRequest = NoRequest
  Names = {a, b, c, d, e}
  Queries <- MCQueries
  RowCounts = {0, 1, 2}
INVARIANTS
  PlanHasAllTables
