SPECIFICATION Spec
CONSTANTS
  Callers = {c1, c2}
  Routes = {r1, r2}
  Projects = {p1, p2}
  Codes = {k1, k2, k3, k4}
  MaxVersion = 2
  Methods <- RecheckingMethods
  NoRoute = NoRoute
  NoCode = NoCode
  NoCall = NoCall
SYMMETRY Symmetric
INVARIANTS
  TypeOK
  AlwaysRestorable
  ServedIsDurable
  AcknowledgedSurvives
PROPERTY ImplementsTable
