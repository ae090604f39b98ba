\* One QUIC connection that drops.
CONSTANTS
    Conns = {c1}
    Ops = {}
    Nodes = {n1}
    Keys = {k1}
    Tokens = {t1}
    Transports = {"Quic"}
    Faults = {}
    None = None
SPECIFICATION FairSpec
PROPERTIES
    EndedSessionShownOffline
CHECK_DEADLOCK FALSE
