SPECIFICATION MCSpec
CONSTANTS
    c1 = c1
    e1 = e1
    e2 = e2
    r1 = r1
    z = z
    NoStep = NoStep
    Cfos = {c1}
    Economists = {e1, e2}
    Reviewers = {r1}
    Zgds = {z}
    Order <- ByName
    MaxEdits = 3
    MaxFaults = 0
INVARIANT Acyclic
CHECK_DEADLOCK FALSE
