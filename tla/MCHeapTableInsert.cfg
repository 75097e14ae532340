SPECIFICATION Spec
CONSTANTS
  Tables = {customer}
  r1 = r1
  r2 = r2
  Rows = {r1, r2}
  RowsPerPage = 2
  MaxPages = 2
  Wheres <- MCWheres
  Assignments <- MCAssignments
PROPERTIES
  InsertKeepsRows
