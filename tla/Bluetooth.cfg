SPECIFICATION FairSpec
CONSTANTS
    Clients <- TwoClients
    NoClient = NoClient
    Adapters = {TRUE, FALSE}
    RadioFails = TRUE
    Natives <- TwoNatives
    c1 = c1
    c2 = c2
    n1 = n1
    n2 = n2
INVARIANTS
    BtInv
    OneConnection
    NothingForgotten
    ChannelComesFree
PROPERTIES
    LateClientIsLast
    AcceptsAgain
    StoppedServerEnds
CHECK_DEADLOCK FALSE
