CONSTANTS
    Names <- MCNames
    Libraries <- MCLibraries
    Inputs <- MCStripInputs
    Files <- MCStripFiles
    Atoms <- MCStripAtoms
    NULL = NULL
SPECIFICATION Spec
INVARIANT
    LiveSupportIsLive
