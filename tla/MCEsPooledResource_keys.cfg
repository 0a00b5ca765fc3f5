CONSTANTS
    k1 = k1
    k2 = k2
    t1 = t1
    t2 = t2
    t3 = t3
    Keys = {k1, k2}
    Threads = {t1, t2, t3}
    Options <- MyOptions
    None = None
SPECIFICATION FairSpec
INVARIANT TypeOK
INVARIANT ItemsApart
INVARIANT NoneLost
INVARIANT PreallocatedIsSafe
PROPERTY AcquireReturns
CHECK_DEADLOCK FALSE
