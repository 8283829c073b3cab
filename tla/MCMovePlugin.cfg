SPECIFICATION Spec
CONSTANTS
  Callers = {c1, c2}
  Routes = {r1, r2}
  Projects = {p1}
  Codes = {k1, k2, k3}
  MaxVersion = 3
  Methods <- AllMethods
  NoRoute = NoRoute
  NoCode = NoCode
  NoCall = NoCall
SYMMETRY Symmetric
INVARIANT AcknowledgedSurvives
