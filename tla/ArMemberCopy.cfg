SPECIFICATION Spec
CONSTANTS
    DiskNames = {0, 5, 6, 8}
    StoredNames = {0, 4, 8}
    BodySizes = {0, 1, 2, 3, 4, 5, 6}
    BufSize = 3
    PartialWrites = FALSE
INVARIANTS
    MemberSurvives
CHECK_DEADLOCK FALSE
