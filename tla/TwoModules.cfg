SPECIFICATION MCSpec
CONSTANTS
    Author = author
    r1 = r1
    r2 = r2
    i1 = i1
    i2 = i2
    i3 = i3
    p1 = p1
    p2 = p2
    leaf = leaf
    econ = econ
    appr1 = appr1
    zgd = zgd
    Requests = {r1, r2}
    Items = {i1, i2}
    Positions = {p1}
    ReqOf <- TwoRequests
    PosOf <- OnePosition
    Steps = {leaf, econ, appr1, zgd}
    Edges <- Route
    Role <- RoleOf
    Leaf = leaf
    Econ = econ
    NoStep = NoStep
    MaxRework = 2
CHECK_DEADLOCK FALSE
SYMMETRY ModulesAlike
INVARIANTS StagesDecided OffersAccepted
