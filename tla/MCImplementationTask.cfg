SPECIFICATION FairSpec
CONSTANTS
  Requirements = {q1, q2}
  Operations = {o1, o2}
  Tasks = {t1, t2}
  Routes = {r1, r2}
  Digests = {d1}
  Kinds <- AllKinds
  Requests <- RequestsWithMoves
  Faults <- FaultsButStorage
  MaxVersion = 2
  NoRequirement = NoRequirement
  NoOperation = NoOperation
  NoLink = NoLink
  NoTarget = NoTarget
  NoDigest = NoDigest
  NoPublication = NoPublication
  NoTask = NoTask
CHECK_DEADLOCK FALSE
INVARIANTS
  TypeOK
  FinishIsPublished
  CommittedHasReceipt
PROPERTIES
  ImplementsTable
  EveryClaimEnds
  BegunOperationEnds
