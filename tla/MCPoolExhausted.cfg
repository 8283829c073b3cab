SPECIFICATION FairSpec
CONSTANTS
  Requests = {r1}
  Tasks = {o1, o2}
  Slots = 1
  PoolSize = 2
CHECK_DEADLOCK FALSE
PROPERTY TaskEnds
