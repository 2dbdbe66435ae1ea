SPECIFICATION FairSpec
CONSTANTS
    MaxRx = 3
    MaxInbox = 1
    BuffUnits = 3
    Hangups = TRUE
INVARIANTS
    PortReleased
    SuccessNeedsAck
    ReportIsCurrent
PROPERTY
    CallReturns
