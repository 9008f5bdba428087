SPECIFICATION Spec
CONSTANTS
    DiskNames = {0}
    StoredNames = {0, 4, 5, 8}
    BodySizes = {0, 1, 2, 3}
    BufSize = 3
    PartialWrites = FALSE
INVARIANT
    MemberSurvives
CHECK_DEADLOCK FALSE
