SPECIFICATION Spec
CONSTANTS
    foo = foo
    cstring = cstring
    classref = classref
    fde = fde
    lsda = lsda
    NULL = NULL
    Names = {foo}
    Contents = {cstring, classref}
    Swept = {cstring}
    Atoms <- MCMixedAtoms
    Locals = {fde, lsda}
    Subordinates <- MCSubordinates
    OptionSets <- MCBitcodeStrip
    MaxAtoms = 3
INVARIANT
    ContentsAreCoalesced
