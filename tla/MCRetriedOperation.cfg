SPECIFICATION FairSpec
CONSTANTS
  Requirements = {q1}
  Operations = {o1, o2}
  Tasks = {t1}
  Routes = {r1}
  Digests = {d1}
  Kinds <- AllKinds
  Requests <- RequestsRetried
  Faults <- GenerationFails
  MaxVersion = 2
  NoRequirement = NoRequirement
  NoOperation = NoOperation
  NoLink = NoLink
  NoTarget = NoTarget
  NoDigest = NoDigest
  NoPublication = NoPublication
  NoTask = NoTask
CHECK_DEADLOCK FALSE
PROPERTY EveryOperationEnds
