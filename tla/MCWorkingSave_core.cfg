CONSTANTS
    Cities = {c1, c2}
    Names = {n1, n2}
    Versions = {v1, v2}
    None = None
    MaxQueue = 1
    LostReplies = FALSE
SPECIFICATION FairSpec
CHECK_DEADLOCK FALSE
INVARIANTS LineagePreserved CleanMeansSaved BodyRunsAlone
PROPERTIES NoSilentDiscard ExclusiveSettles
