SPECIFICATION Spec
CONSTANTS
    Clients = {c1, c2}
    NoClient = NoClient
    BroadcastCap = 1
    SendCap = 1
    MaxMessages = 3
SYMMETRY Symmetry
INVARIANTS TypeOK PanicOnlyAfterClose FeedConsecutive NobodyBehind
PROPERTIES FeedSpec
CHECK_DEADLOCK FALSE
