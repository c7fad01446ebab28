SPECIFICATION AllSpec
CONSTANTS
    d = d
    c = c
    m = m
    n = n
    p = p
    q = q
    x = x
    y = y
    d2 = d2
    None = None
    Units = {d, c, m, n}
    Users = {p, q}
    Department = d
    Cfo = c
    Module = m
    MaxEdits = 3
    MaxFaults = 1
    Null = Null
    Ids <- SixIds
    Names = {x, y}
    Departments = {d, d2}
    TypedRows <- OneOrTwo
    Files <- TwoFiles
    Lists <- NoneOrOne
    MaxCommands = 2
    MaxFailures = 1
SYMMETRY UserSymmetry
CHECK_DEADLOCK FALSE
INVARIANT ListsAsImported
PROPERTY StaffKept
