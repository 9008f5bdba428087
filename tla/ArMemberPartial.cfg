SPECIFICATION Spec
CONSTANTS
    DiskNames = {0, 5}
    StoredNames = {0, 4}
    BodySizes = {0, 1, 2, 3, 4}
    BufSize = 3
    PartialWrites = TRUE
INVARIANT
    MemberSurvives
CHECK_DEADLOCK FALSE
