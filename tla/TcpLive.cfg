SPECIFICATION FairSpec
CONSTANTS
    MaxServers = 1
    Clients <- TwoClients
    NoClient = NoClient
    PortMayBeTaken = FALSE
    c1 = c1
    c2 = c2
    c3 = c3
PROPERTIES
    PortReleased
    ThreadsEnd
    ServerReopens
CHECK_DEADLOCK FALSE
