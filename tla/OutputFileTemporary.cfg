SPECIFICATION Spec
CONSTANTS
    A = A
    B = B
    Linkers = {A, B}
    Size <- MCSize
    Setups <- MCShortPaths
    None = None
INVARIANT
    InterruptCleansUp
\* Every ld comes to an end, and there are no more than Linkers.
CHECK_DEADLOCK FALSE
