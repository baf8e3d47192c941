SPECIFICATION Spec
CONSTANTS
    MaxServers = 2
    Clients <- ThreeClients
    NoClient = NoClient
    PortMayBeTaken = TRUE
    c1 = c1
    c2 = c2
    c3 = c3
INVARIANTS
    TcpInv
    SessionHasOpenSocket
PROPERTIES
    NoClientAfterStop
SYMMETRY ClientSymmetry
CHECK_DEADLOCK FALSE
