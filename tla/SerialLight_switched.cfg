SPECIFICATION Spec
CONSTANTS
    MaxRx = 3
    MaxInbox = 1
    BuffUnits = 2
    Hangups = FALSE
INVARIANT ZeroMeansSwitched
