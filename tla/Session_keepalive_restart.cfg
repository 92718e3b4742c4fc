\* A second connect after the keepalive task has ended.
SPECIFICATION Spec
CONSTANTS
    Callers = {c1, c2}
    KA = KA
    NoOne = NoOne
    Ops = {"connect"}
    VersionOk = TRUE
    MaxAttempts = 2
    QueueDepth = 2
    MaxOps = 2
    MaxTicks = 1
    MaxFaults = 1
PROPERTY
    ConnectStartsKeepalive
