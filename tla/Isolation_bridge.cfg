SPECIFICATION Spec
CONSTANTS
  QueueDepth = 2
  PipeCap = 2
  MaxRx = 6
  MaxTx = 3
INVARIANT
  CleanExitTransmits
PROPERTIES
  IsFrameStream
  DropReturns
  AbandonedHelperEnds
  DeathSurfaces
CHECK_DEADLOCK TRUE
