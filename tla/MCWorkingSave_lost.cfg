CONSTANTS
    Cities = {c1}
    Names = {n1}
    Versions = {v1, v2}
    None = None
    MaxQueue = 1
    LostReplies = TRUE
SPECIFICATION Spec
CHECK_DEADLOCK FALSE
INVARIANTS
    CleanMeansSaved
