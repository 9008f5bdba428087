SPECIFICATION FairSpec
CONSTANTS
    NFiles = 3
    NCPU = 2
    PipelineEnabled = TRUE
    FromFileList <- MCAllSlots
    Path <- MCSamePath
    BundleLoader <- MCNoSlots
    Files <- MCTwoFiles
    NULL = NULL
    MaxSpurious = 0
PROPERTY
    FileListIsLinked
\* With this file list the linker does stop for ever.
CHECK_DEADLOCK FALSE
