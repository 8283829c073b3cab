SPECIFICATION Spec
CONSTANTS
  Publishers = {t1}
  Routes = {r1, r2}
  Projects = {p1}
  Digests = {d1, d2}
  Workspaces = {w1, w2}
  MaxVersion = 2
  Faults <- Crashes
  NoRoute = NoRoute
  NoDigest = NoDigest
  NoPublisher = NoPublisher
INVARIANT NextVersionFree
