SPECIFICATION Spec
CONSTANTS
    Lines = {l1, l2}
    Opened = {l1}
    MaxSum = 2
    MaxSaves = 2
INVARIANTS TypeOK QuietIsFresh
PROPERTIES SavedAll DraftsKept
CHECK_DEADLOCK FALSE
