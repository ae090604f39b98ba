\* The parts that are modelled each by itself.
CONSTANTS
    MaxAttempt = 7
    Openers = {o1, o2}
    MaxInbound = 3
    OutQueue = 1
    InQueue = 1
    AckBacklog = 1
    Radix = 2
    MaxFrame = 2
    Tags = {1}
    MaxFrames = 2
    MaxNoise = 10
    Nodes = {n1, n2}
    MaxClock = 3
    MaxRecords = 3
    Retention = 1
    Limit = 2
    Clients = {p1, p2}
    MaxDraws = 4
SPECIFICATION PartsSpec
INVARIANTS
    TypeOK
    OnlyRefusalStops
    MuxTypeOK
    InboundInOrder
    FramesAsSent
    
    BuffersBounded
    MetricsKept
    UnlistedIsOutdated
    IdentityStable
PROPERTIES
    Reconnects
    
    CallsAnswered
    CloseEnds
CHECK_DEADLOCK FALSE
