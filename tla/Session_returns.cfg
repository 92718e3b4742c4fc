\* Every operation but disconnect and gated returns, and Drop releases the adapter.
SPECIFICATION FairSpec
CONSTANTS
    Callers = {c1, c2}
    KA = KA
    NoOne = NoOne
    Ops = {"connect", "send", "retrying", "cancel", "drop"}
    VersionOk = TRUE
    MaxAttempts = 2
    QueueDepth = 2
    MaxOps = 2
    MaxTicks = 1
    MaxFaults = 1
\* OpsReturn is stronger than the absence of deadlock: a caller that is
\* stuck must show as one that never returns.
CHECK_DEADLOCK FALSE
PROPERTIES
    OpsReturn
    DropReleases
