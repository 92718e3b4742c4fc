\* Every configuration, in time and late, and a second run over what the first left.
SPECIFICATION FairSpec
CONSTANTS
    NSectors = 2
    NChunks = 2
    Image <- ImageAB
    ImageLen = 3
    Blank = "ff"
    Old = "old"
    Bad = "bad"
    Configs <- AllConfigs
    MaxAttempts = 2
    LinkModes = {FALSE, TRUE}
    MaxRuns = 2
    MaxTicks = 1
    MaxFaults = 2
INVARIANTS
    SuccessMeansInstalled
    VerifyMeansWritten
    FlashHwOnlyAfterResend
PROPERTIES
    OnlyPlannedSectorsChange
    RerunRecovers
