\* Two overlapping requests, four definitions that compete for one port, crashes, cancelled requests.
CONSTANTS
    Ops = {o1, o2}
    r1 = r1
    r2 = r2
    r3 = r3
    r4 = r4
    Requests = {r1, r2, r3, r4}
    Definition <- MCDefinition
    m1 = m1
    m2 = m2
    Metas = {m1}
    FirstPort = 1
    LastPort = 1
    Faults = {"crash", "cancel"}
    None = None
SYMMETRY Symmetric
SPECIFICATION Spec
INVARIANTS
    TypeOK
    
    SerialStoreRestores
PROPERTIES
    NamesStayDistinct
    ImplementsDirectory
CHECK_DEADLOCK FALSE
