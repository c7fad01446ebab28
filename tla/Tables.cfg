SPECIFICATION AllSpec
CONSTANTS
    Groups = {top, mid, low}
    Selectable = {top, mid, low}
    Above <- Branch
    Items = {i1, i2}
    Leaf <- LevelOf
    Narrow = {i1}
    MaxLoads = 1
    DialogGroups = {g1, g2}
    DialogLines = {i1, i2, i3}
    GroupOf <- ButtonOf
    Stage <- StageOf
    PositionOf <- PlaceOf
    MaxAsked = 2
    Role = "employee"
    Loadable = {g1}
    Requests = {q1, q2}
    RequestsOf <- TwoRequests
    Slots = {1, 2}
    MaxVersion = 4
    MaxClicks = 2
    Rows = {r1, r2, r3, r4}
    Moving = {r4}
    Columns = {status, name}
    Sortable = {name}
    Status = status
    Values = {"on review", "approved", "group: open", "group: closed", "x", "y"}
    GroupValues = {"group: open", "group: closed"}
    Found = {"approved", "group: closed"}
    Cell <- CellOf
    Hideable = {status, name}
    Contents = {"few", "many", "long"}
    r1 = r1
    r2 = r2
    r3 = r3
    r4 = r4
    status = status
    name = name
    top = top
    mid = mid
    low = low
    NoGroup = NoGroup
    i1 = i1
    i2 = i2
    i3 = i3
    g1 = g1
    g2 = g2
    p1 = p1
    p2 = p2
    q1 = q1
    q2 = q2
CHECK_DEADLOCK FALSE
INVARIANTS FittedToRows TicksMeant
PROPERTIES FilterTold SuccessMeansAll NothingWaits ReviewedThenForwarded
