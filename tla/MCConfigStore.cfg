SPECIFICATION Spec
CONSTANTS
  Gui = gui
  Tls = tls
  Workers = {w1, w2}
  Names = {n1}
  Hosts = {h1, h2}
  Users = {u1, u2}
  Objects = {p1, p2, p3}
  Nothing = nothing
  MaxMade = 3
  MaxChanges = 3
  MaxCrashes = 1
INVARIANTS TypeOK DiskCatchesUp PairsMatch
PROPERTIES PinSurvives SecretsStayHome
SYMMETRY Symmetric
CHECK_DEADLOCK FALSE
