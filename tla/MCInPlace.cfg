SPECIFICATION TaskSpec
CONSTANTS
  Requirements = {q1}
  Operations = {o1, o2, o3}
  Tasks = {t1, t2}
  Routes = {r1}
  Digests = {d1, d2}
  Kinds <- AllKinds
  Requests <- RequestsInPlace
  Faults <- FaultsBeforeActivation
  MaxVersion = 2
  NoRequirement = NoRequirement
  NoOperation = NoOperation
  NoLink = NoLink
  NoTarget = NoTarget
  NoDigest = NoDigest
  NoPublication = NoPublication
  NoTask = NoTask
SYMMETRY Symmetric
INVARIANT ServedIsNotFailed
PROPERTY FailsOwnClaim
