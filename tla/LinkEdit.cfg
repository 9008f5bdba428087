CONSTANTS
    PtrSize = 2
    Imm = 4
    LdWord = 256
    DyldWord = 64
    RebaseLayouts <- MCRebaseLayouts
    BindLayouts <- MCBindLayouts
    MaxRebases = 6
    MaxBinds = 3
    Stray = {1}
    Kinds = {"bind", "weak", "lazy"}
    Ordinal <- MCOrdinal
    Proxies = {1, 2}
    Refs <- MCRefs
    Overrides = {3}
    MismatchIsWeak = FALSE
SPECIFICATION Spec
INVARIANT PassesKeepMeaning
INVARIANT DyldReadsTable
INVARIANT WeakNamesSorted
