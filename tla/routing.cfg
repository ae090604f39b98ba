\* The routing chain across server and client processes.
CONSTANTS
    p1 = p1
    p2 = p2
    p3 = p3
    n1 = n1
    n2 = n2
    Procs <- MCProcs
    NodeOf <- MCNodeOf
    Publishes <- MCPublishes
    MaxId = 3
    MaxFaults = 2
SPECIFICATION FairSpec
INVARIANTS
    RightTarget
    DirectoryMatches
PROPERTIES
    
    TableIsDirectory
CHECK_DEADLOCK FALSE
