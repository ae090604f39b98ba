\* One connection, two units of data each way, a stream that holds one.
CONSTANTS
    Bytes = {a, b}
    MaxSent = 2
    Window = 1
SPECIFICATION FairSpec
INVARIANTS
    TypeOK
    DataFollowsAck
PROPERTIES
    ImplementsPipe
    TasksEnd
