SPECIFICATION Spec
CONSTANTS
    MaxSum = 2
    Texts = {"text"}
    MaxPosts = 2
    MaxMoves = 1
CHECK_DEADLOCK FALSE
INVARIANTS PostsMeant ShownFactCounts QuietIsFresh
