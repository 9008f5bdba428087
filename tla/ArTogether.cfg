SPECIFICATION Spec
CONSTANTS
    P1 = P1
    P2 = P2
    Procs = {P1, P2}
    Jobs <- MCJobs
    Archives <- MCArchives
    NoArchive = NoArchive
    Missing = {"d"}
    Newer = {"a"}
    BodySize <- MCBodySize
    MaxTries = 2
INVARIANTS
    Serialised
    DeathSparesUnchanged
CHECK_DEADLOCK FALSE
