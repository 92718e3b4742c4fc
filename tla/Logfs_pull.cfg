\* Losses, send errors, session drops and cancellation; replies in time and late.
SPECIFICATION FairSpec
CONSTANTS
    Lengths <- ShortFiles
    ChunkLen = 2
    MaxAttempts = 2
    MaxStalled = 1
    MaxHandle = 4
    LinkModes = {FALSE, TRUE}
    MaxFaults = 2
INVARIANTS
    VerifiedIsFile
    DataIsPrefix
    AdvancingPullSurvives
    HandleClosed
PROPERTY
    PullEnds
