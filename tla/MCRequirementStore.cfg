SPECIFICATION Spec
CONSTANTS
  Requirements = {q1, q2}
  Operations = {o1, o2}
  Routes = {r1}
  Digests = {d1, d2}
  Kinds <- OneKind
  MaxVersion = 1
  NoRequirement = NoRequirement
  NoOperation = NoOperation
  NoLink = NoLink
  NoTarget = NoTarget
  NoDigest = NoDigest
  NoPublication = NoPublication
SYMMETRY Symmetric
INVARIANTS
  StoreTypeOK
  ReceiptBelongsToClaim
  NewestEventIsStatus
PROPERTIES
  ReceiptIsKept
  ReportedOnce
  ImplementsLifecycle
