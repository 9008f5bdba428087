SPECIFICATION Spec
CONSTANTS
    A = A
    B = B
    Linkers = {A, B}
    Size <- MCSize
    Setups <- MCSetups
    None = None
INVARIANTS
    OutputWholeOrAbsent
    InterruptRemovesTemporary
    ExitTellsOutput
\* Every ld comes to an end, and there are no more than Linkers.
CHECK_DEADLOCK FALSE
