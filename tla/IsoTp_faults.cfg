\* Several faults, with and without ticks.
SPECIFICATION Spec
CONSTANTS
    SfMax = 2
    FfInitial = 1
    CfPayload = 2
    SeqMod = 3
    MaxMsg = 8
    TimeoutMs = 1
    TickModes = {FALSE, TRUE}
    Lengths <- MCLengths
    MaxMsgs = 3
    MaxTime = 3
    MaxFaults = 2
INVARIANTS
    TypeOK
    DeliveredAreSent
    CleanMessageDelivered
