CONSTANTS
    PtrSize = 2
    Imm = 4
    LdWord = 256
    DyldWord = 64
    RebaseLayouts <- MCNone
    BindLayouts <- MCAdjacent
    MaxRebases = 0
    MaxBinds = 2
    Stray = {1}
    Kinds = {"bind"}
    Ordinal <- MCOrdinal
    Proxies = {1, 2}
    Refs <- MCRefs
    Overrides = {3}
    MismatchIsWeak = FALSE
SPECIFICATION Spec
INVARIANT DyldReadsTable
