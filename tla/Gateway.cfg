SPECIFICATION GatewayFair
CONSTANTS
    Clients = {c1}
    NoClient = NoClient
    BroadcastCap = 1
    SendCap = 1
    MaxMessages = 2
    Handlers = {h1}
    Limit = 1
INVARIANTS  FeedIsFetchable
PROPERTIES BroadcastReturnsOrCycle PumpsStop ShutdownCompletes Delivered AnsweredIsServed
CHECK_DEADLOCK FALSE
