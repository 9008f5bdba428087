CONSTANTS
    PageSize = 4
    Tools <- MCTools
SPECIFICATION Spec
INVARIANTS
    WrittenOnceAndFinal
    FullPagesWritten
PROPERTY
    ImplementsPaged
