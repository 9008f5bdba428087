SPECIFICATION Spec
CONSTANTS
    P1 = P1
    P2 = P2
    Procs = {P1, P2}
    Jobs <- MCRanlibJobs
    Archives <- MCArchives
    NoArchive = NoArchive
    Missing = {"d"}
    Newer = {"a"}
    BodySize <- MCBodySize
    MaxTries = 2
INVARIANT
    AppendedIsThere
CHECK_DEADLOCK FALSE
