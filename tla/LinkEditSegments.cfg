CONSTANTS
    PtrSize = 2
    Imm = 4
    LdWord = 256
    DyldWord = 64
    RebaseLayouts <- MCManySegments
    BindLayouts <- MCNone
    MaxRebases = 2
    MaxBinds = 0
    Stray = {1}
    Kinds = {}
    Ordinal <- MCOrdinal
    Proxies = {1, 2}
    Refs <- MCRefs
    Overrides = {3}
    MismatchIsWeak = FALSE
SPECIFICATION Spec
INVARIANT DyldReadsTable
