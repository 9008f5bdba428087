SPECIFICATION Spec
CONSTANTS
    P1 = P1
    P2 = P2
    Procs = {P1, P2}
    Jobs <- MCExtractJobs
    Archives <- MCArchives
    NoArchive = NoArchive
    Missing = {"d"}
    Newer = {"a"}
    BodySize <- MCBodySize
    MaxTries = 2
INVARIANT
    NewerAreExtracted
CHECK_DEADLOCK FALSE
