SPECIFICATION JSpec
CONSTANTS
  t1 = t1
  t2 = t2
  NoTable = NoTable
  Tables = {t1, t2}
  TableHash <- MCTableHash
  KeyRadix = 10
  KeyMod = 64
  HashFactor = 16
  MaxPages = 3
  Capacity = 3
  Blank <- MCBlank
  Contents <- MCLargePages
  FullPages <- MCFullPages
  WriteOutcomes = {TRUE}
  Plans <- MCPlans
  PrintLimit = 7
  MaxEarlier = 0
INVARIANTS
  JoinExact
