\* Two overlapping connections with two keys, rotations and revocations, store errors, crashes.
CONSTANTS
    Conns = {c1, c2}
    Ops = {o1}
    Nodes = {n1}
    Keys = {k1, k2}
    Tokens = {t1, t2}
    Transports = {"Quic", "Yamux"}
    Faults = {"store", "crash"}
    None = None
SYMMETRY Symmetric
VIEW Reached
CONSTRAINT OneKeyOrOneToken
SPECIFICATION Spec
INVARIANTS
    TypeOK
    YamuxLeavesNoSession
    ReplacementReachesSessions
PROPERTIES
    IdentityPinned
    ReplacedTokenStaysDead
    ImplementsAccess
