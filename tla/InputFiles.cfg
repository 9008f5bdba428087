SPECIFICATION FairSpec
CONSTANTS
    NFiles = 3
    NCPU = 3
    PipelineEnabled = TRUE
    FromFileList <- MCOuterSlots
    Path <- MCPath
    BundleLoader <- MCMiddleSlot
    Files <- MCFiles
    NULL = NULL
    MaxSpurious = 1
INVARIANTS
    TypeOK
    ScanFindsFile
    OneParserPerFile
    RemainingExact
    MainSleepsForAReason
    ReadyWorkIsServed
    CommandLineOrder
    AllParsedWhenDone
PROPERTIES
    ImplementsInOrder
    ParseErrorEndsLink
