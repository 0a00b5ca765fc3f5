CONSTANTS
    Options <- Wirings
    Times = {0, 3}
    Lens = {1, 3}
    Tags <- StreamTags
SPECIFICATION Spec
INVARIANT TypeOK
INVARIANT RequestComesBack
INVARIANT HandlerGetsItsSamples
INVARIANT VectorsArePlayedWhole
CHECK_DEADLOCK FALSE
