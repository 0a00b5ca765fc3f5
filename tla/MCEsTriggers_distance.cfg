CONSTANTS
    TimeMod = 16
    h1 = h1
    h2 = h2
    None = None
    Signals <- ShortSignals
    Thresholds = {1, 2}
    EdgeLength = 2
    Lookback = 1
    Guard = 4
    EdgeTargets <- TwoHandlers
    MaxStarts = 2
    Period = 2
    Shift = 1
    SchedDist = 1
    MaxSamples = 4
    SampleTargets <- TwoHandlers
    CountInits <- Counts
    TimerTargets <- OneHandler
    MaxTimerEvents = 3
    Search = "BINARY"
    Pdus <- MyPdus
    Casts <- EdgeOnly
SPECIFICATION Spec
INVARIANT MinimumDistance
CHECK_DEADLOCK FALSE
