SPECIFICATION Spec
CONSTANTS
    Gateways = {a, b}
    Router = a
    Channels = {1}
    Fates = {1}
    Timely = TRUE
    SockFails = FALSE
    NoHost = NoHost
    Torn = Torn
    None = None
CHECK_DEADLOCK FALSE
INVARIANT
    CommandNeedsGrant
