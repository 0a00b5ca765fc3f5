CONSTANTS
    TimeMod = 16
    IntMod = 16
    e1 = e1
    e2 = e2
    h1 = h1
    h2 = h2
    Events = {e1, e2}
    Handlers = {h1, h2}
    HandlersOf <- OneAndTwo
    EventTimes = {0, 1}
    EventLens = {1, 3}
    NThreads = 1
    History = 3
    QCap = 1
    StreamLen = 5
    MaxIn = 4
    Options <- DirectOptions
    NoPair = NoPair
SPECIFICATION DirectSpec
INVARIANT SkippedIsKept
CHECK_DEADLOCK FALSE
