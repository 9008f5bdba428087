SPECIFICATION MCSpec
CONSTANTS
    foo = foo
    cstring = cstring
    classref = classref
    fde = fde
    lsda = lsda
    NULL = NULL
    Names = {foo}
    Contents = {cstring, classref}
    Swept = {cstring}
    Atoms <- MCAtoms
    Locals = {fde, lsda}
    Subordinates <- MCGroups
    OptionSets <- MCOptions
    MaxAtoms = 3
INVARIANTS
    TypeOK
    StrongestBound
    NoSilentDuplicate
    BoundOrCoalesced
    GroupsStayWhole
    StrictestAlignment
