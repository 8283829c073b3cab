SPECIFICATION Spec
CONSTANTS
  Publishers = {t1, t2}
  Routes = {r1, r2}
  Projects = {p1}
  Digests = {d1}
  Workspaces = {w1, w2}
  MaxVersion = 3
  Faults <- AllFaults
  NoRoute = NoRoute
  NoDigest = NoDigest
  NoPublisher = NoPublisher
SYMMETRY Symmetric
INVARIANTS
  TypeOK
  ServedArtifactIntact
  NoOrphan
  NoLeftovers
PROPERTIES
  ServedIsImmutable
  ImplementsTable
