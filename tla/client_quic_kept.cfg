\* A QUIC session that works is left after 5 s.
CONSTANTS
    MaxAttempt = 6
SPECIFICATION Spec
PROPERTIES
    HealthyQuicKept
CHECK_DEADLOCK FALSE
