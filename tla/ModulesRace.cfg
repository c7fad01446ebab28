SPECIFICATION MCSpec
CHECK_DEADLOCK FALSE
SYMMETRY CallsAndModules
CONSTANTS
  r1 = r1
  r2 = r2
  i1 = i1
  i2 = i2
  p1 = p1
  w1 = w1
  w2 = w2
  leaf = leaf
  econ = econ
  zgd = zgd
  Requests = {r1, r2}
  Items = {i1, i2}
  Positions = {p1}
  Workers = {w1, w2}
  ReqOf <- TwoRequests
  PosOf <- OnePosition
  Steps = {leaf, econ, zgd}
  Edges <- Route
  Role <- RoleOf
  Leaf = leaf
  Econ = econ
  NoStep = NoStep
  MaxRework = 1
INVARIANT NothingUnseen
INVARIANT SubmittedOnce
