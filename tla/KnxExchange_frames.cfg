SPECIFICATION Spec
CONSTANTS
    Endpoints <- Gateways
    LocalHost <- Local
    TunnelHost <- Tunnel
    Packets <- MCPackets
    Values <- MCValues
    ChannelIds = {7, 255}
    Numbers = {0, 23, 258}
    Leftovers <- MCLeftovers
    MaxServices = 3
INVARIANTS
    Fits
PROPERTIES
    ReceivedAsSent
    ValueKept
    ClientFollows
