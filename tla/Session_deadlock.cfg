\* disconnect against a keepalive tick queued on command_lock.
SPECIFICATION FairSpec
CONSTANTS
    Callers = {c1, c2}
    KA = KA
    NoOne = NoOne
    Ops = {"connect", "disconnect"}
    VersionOk = TRUE
    MaxAttempts = 2
    QueueDepth = 2
    MaxOps = 2
    MaxTicks = 1
    MaxFaults = 0
\* The deadlock is the finding: it must show as OpsReturn violated.
CHECK_DEADLOCK FALSE
PROPERTY
    OpsReturn
