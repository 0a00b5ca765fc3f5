CONSTANTS
    TimeMod = 16
    e1 = e1
    e2 = e2
    h1 = h1
    Events = {e1, e2}
    Handlers = {h1}
    HandlersOf <- OneEach
    EventTimes = {0, 3}
    EventLens = {1, 3}
    NThreads = 2
    MaxLen = 4
    MaxOut = 2
    Options <- PlayOptions
    None = None
SPECIFICATION Spec
INVARIANT TypeOK
INVARIANT Accounted
PROPERTY PlaysOut
PROPERTY InOrderNothingDue
CHECK_DEADLOCK FALSE
