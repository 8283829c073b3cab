SPECIFICATION FairSpec
CONSTANTS
  Requests = {r1, r2, r3}
  Tasks = {o1, o2}
  Slots = 2
  PoolSize = 3
INVARIANTS
  TypeOK
  SlotsAccounted
PROPERTIES
  HandlerEnds
  TaskEnds
