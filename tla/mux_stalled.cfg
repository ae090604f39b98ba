\* A session with unacknowledged streams up to the backlog does not close.
CONSTANTS
    Openers = {o1, o2, o3}
    MaxInbound = 1
    OutQueue = 1
    InQueue = 1
    AckBacklog = 1
SPECIFICATION FairSpec
PROPERTIES
    ClosedSessionEnds
CHECK_DEADLOCK FALSE
