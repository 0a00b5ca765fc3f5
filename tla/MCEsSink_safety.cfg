CONSTANTS
    TimeMod = 5
    IntMod = 16
    e1 = e1
    e2 = e2
    h1 = h1
    h2 = h2
    Events = {e1, e2}
    Handlers = {h1, h2}
    HandlersOf <- OneAndTwo
    EventTimes = {0, 2}
    EventLens = {1, 3}
    NThreads = 2
    History = 2
    QCap = 1
    StreamLen = 4
    MaxIn = 3
    Options <- SafetyOptions
    NoPair = NoPair
SPECIFICATION Spec
INVARIANT NEventsExact
INVARIANT StopDrained
INVARIANT LiveTimesBlock
INVARIANT ExactlyOnce
INVARIANT TypeOK
INVARIANT Sorted
INVARIANT WindowCorrect
INVARIANT DiscardedWereLate
CHECK_DEADLOCK FALSE
