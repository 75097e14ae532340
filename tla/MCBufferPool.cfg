SPECIFICATION RSpec
CONSTANTS
  t1 = t1
  t2 = t2
  NoTable = NoTable
  Tables = {t1, t2}
  TableHash <- MCTableHash
  KeyRadix = 10
  KeyMod = 64
  MaxPages = 2
  Capacity = 2
  Blank = blank
  Contents = {blank, a}
  WriteOutcomes = {TRUE}
INVARIANTS
  FrameAccounting
  MapMatchesFrames
  CursorValid
  CleanPagesMatchDisk
  HoldsMostRecentPages
PROPERTIES
  ExitLosesNothing
  StoreSpec
