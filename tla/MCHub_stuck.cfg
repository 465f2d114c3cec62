SPECIFICATION FairSpec
CONSTANTS
    Clients = {c1}
    NoClient = NoClient
    BroadcastCap = 1
    SendCap = 1
    MaxMessages = 2
PROPERTIES BroadcastReturns
CHECK_DEADLOCK FALSE
