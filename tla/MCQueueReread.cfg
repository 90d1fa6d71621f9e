\* One application thread; RPCs succeed.
CONSTANTS
    t1 = t1
    t2 = t2
    l1 = l1
    l2 = l2
    Threads <- MCThreads1
    Lists <- MCLists
    MaxExecs = 3
    MaxSyncs = 3
    RpcMayFail = FALSE
    NoOwner = NoOwner
SPECIFICATION Spec
INVARIANT ReadsMatchExecutions
