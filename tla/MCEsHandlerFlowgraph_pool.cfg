CONSTANTS
    e1 = e1
    e2 = e2
    e3 = e3
    t1 = t1
    t2 = t2
    Events = {e1, e2, e3}
    Threads = {t1, t2}
    LengthOf <- Lengths
    MaxPool = 2
    MaxMade = 3
    MaxWork = 2
    Options <- MyOptions
    None = None
SPECIFICATION FairSpec
INVARIANT PoolExclusive
INVARIANT OwnResult
PROPERTY HandlerReturns
CHECK_DEADLOCK FALSE
