\* One stuck session, with room for another in a query, or without room but a retry limit; a TM
\* may lose its streams.
SPECIFICATION FairSpec
CONSTANTS
  x1 = x1
  x2 = x2
  x3 = x3
  a1 = a1
  a2 = a2
  Xids = {x1, x2, x3}
  Homes = {a1, a2}
  HomeOf <- ThirdElsewhere
  Stuck = {x1}
  Droppable = {a2}
  Configs <- RoomOrRetryLimit
PROPERTIES TimeoutIsNoticed RollbackGetsThrough
CHECK_DEADLOCK FALSE
