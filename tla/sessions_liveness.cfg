\* Two overlapping Yamux connections and revocations, cancelled requests and broken connections.
CONSTANTS
    Conns = {c1, c2}
    Ops = {o1}
    Nodes = {n1}
    Keys = {k1}
    Tokens = {t1}
    Transports = {"Yamux"}
    Faults = {"cancel"}
    None = None
SPECIFICATION FairSpec
PROPERTIES
    LiveSessionShownOnline
    EvictedHandlerEnds
    DeadYamuxReleased
