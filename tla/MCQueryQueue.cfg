SPECIFICATION Spec
CONSTANTS
  q1 = q1
  q2 = q2
  Queries = {q1, q2}
  Priorities = {0, 1, 2}
  InitialCapacity = 1
  MaxSize = 5
  Nothing = Nothing
INVARIANTS
  HeapOrder
  HeapFitsArray
PROPERTIES
  QueueIsUrgencyQueue
  QueueDrains
