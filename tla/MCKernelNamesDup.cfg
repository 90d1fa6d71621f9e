CONSTANTS
    t1 = t1
    t2 = t2
    k1 = k1
    k2 = k2
    Threads <- MCThreads
    Names <- MCNames
    MaxCalls = 2
    NoOwner = NoOwner
SPECIFICATION Spec
SYMMETRY ThreadSymmetry
INVARIANT NamesNotDuplicated
