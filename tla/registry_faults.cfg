\* Two overlapping requests on two services and two ports; all may fail but a connection of the API.
CONSTANTS
    Ops = {o1, o2}
    r1 = r1
    r2 = r2
    r3 = r3
    r4 = r4
    Requests = {r1, r3}
    Definition <- MCDefinition
    m1 = m1
    m2 = m2
    Metas = {m1, m2}
    FirstPort = 1
    LastPort = 2
    Faults = {"store", "bind", "accept", "crash"}
    None = None
SYMMETRY Symmetric
SPECIFICATION Spec
INVARIANTS
    PortLeaseUnique
    ListenersTracked
    StoreMirrorsMemory
CHECK_DEADLOCK FALSE
