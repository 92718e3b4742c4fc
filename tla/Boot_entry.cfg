SPECIFICATION Spec
CONSTANTS
  Nodes <- MCNodes
  PayloadOf <- MCPayloadOf
  Known <- MCKnown
  BootTimes <- MCBootTimes
  PollInterval = 200
  AttemptTimeout = 750
  CommandTimeout = 500
  RetriggerInterval = 2500
  Window = 8000
  MaxFaults = 2
INVARIANTS
  OkMeansConnected
  OnlyTargetReboots
  WindowSuffices
