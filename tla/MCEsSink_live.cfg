CONSTANTS
    TimeMod = 16
    IntMod = 16
    e1 = e1
    e2 = e2
    h1 = h1
    h2 = h2
    Events = {e1}
    Handlers = {h1, h2}
    HandlersOf <- TwoOnly
    EventTimes = {0, 2}
    EventLens = {1, 3}
    NThreads = 2
    History = 3
    QCap = 3
    StreamLen = 5
    MaxIn = 3
    Options <- LiveOptions
    NoPair = NoPair
SPECIFICATION FairSpec
PROPERTY TakenIsRun
PROPERTY PunctualIsRun
PROPERTY StopTerminates
CHECK_DEADLOCK FALSE
