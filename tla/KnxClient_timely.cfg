SPECIFICATION FairSpec
CONSTANTS
    Gateways = {a, b}
    Router = a
    Channels = {1}
    Fates = {0, 1, 2}
    Timely = TRUE
    SockFails = FALSE
    NoHost = NoHost
    Torn = Torn
    None = None
CHECK_DEADLOCK FALSE
INVARIANTS
    AddressPair
    OwnChannelOnly
PROPERTIES
    ImplementsSession
    GrantedIsSwitched
