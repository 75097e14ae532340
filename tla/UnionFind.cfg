SPECIFICATION UFSpec
CONSTANTS
  MaxNodes = 5
  NoRequest = NoRequest
INVARIANTS
  RanksGrow
  RankNeedsNodes
PROPERTIES
  ForestIsPartition
