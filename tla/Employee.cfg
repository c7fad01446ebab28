SPECIFICATION AllSpec
CONSTANTS
    LastMonth = 2
    MaxSum = 2
    Files = {f1, f2}
    MaxEntries = 1
    MaxLines = 2
    MaxLosses = 1
    q1 = q1
    q2 = q2
    q3 = q3
    m1 = m1
    m2 = m2
    Requests = {q1, q2, q3}
    Modules = {m1}
    First = m1
    UnitOf <- UnitOfThree
    Filters = {"all", "approved"}
    MaxClicks = 1
    MaxMoves = 1
    MaxMissed = 1
    None = None
    Attachments = {drawing, image}
    Drawn = {drawing}
    NoFile = NoFile
    MaxOpenings = 3
SYMMETRY NameSymmetry
CHECK_DEADLOCK FALSE
INVARIANTS OneLineEach OneActive ListTells PreviewRight
PROPERTY LinesAsEntered
