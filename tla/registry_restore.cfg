\* Two overlapping requests on three services and two ports, nothing fails.
CONSTANTS
    Ops = {o1, o2}
    r1 = r1
    r2 = r2
    r3 = r3
    r4 = r4
    Requests = {r1, r2, r3}
    Definition <- MCDefinition
    m1 = m1
    m2 = m2
    Metas = {m1}
    FirstPort = 1
    LastPort = 2
    Faults = {}
    None = None
SPECIFICATION Spec
INVARIANTS
    StoreRestores
CHECK_DEADLOCK FALSE
