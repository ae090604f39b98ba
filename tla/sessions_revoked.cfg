\* One connection and one revocation: authentication and activation are separate steps.
CONSTANTS
    Conns = {c1}
    Ops = {o1}
    Nodes = {n1}
    Keys = {k1}
    Tokens = {t1}
    Transports = {"Yamux"}
    Faults = {}
    None = None
SPECIFICATION Spec
INVARIANTS
    NoSessionOnReplacedToken
CHECK_DEADLOCK FALSE
