\* A page of one message: with one shown before, a burst of two leaves a gap
SPECIFICATION AllSpec
CONSTANTS
    u1 = u1
    u2 = u2
    NoUser = NoUser
    Users = {u1, u2}
    Role <- RoleOf
    MaxLogins = 2
    MaxFlights = 2
    PageSize = 1
    Earlier = {0, 1}
    MaxPosts = 2
    MaxMarks = 2
    MaxFaults = 1
CHECK_DEADLOCK FALSE
INVARIANTS SessionsApart NothingLost
PROPERTIES DeadSessionEnds ShownAndMarked
