CONSTANTS
    Names <- MCNames
    Libraries <- MCLibraries
    Inputs <- MCInputs
    Files <- MCFiles
    Atoms <- MCAtoms
    NULL = NULL
SPECIFICATION FairSpec
INVARIANTS
    TypeOK
    NeededWhenPulled
    SearchedInOrder
    KeptClosedUnlessLate
    NothingUnreachable
PROPERTIES
    RoundsExhaustLibraries
    Termination
