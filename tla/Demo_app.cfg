SPECIFICATION LiveSpec
CONSTANTS
  Frames <- MCFrames
  Junk <- MCJunk
  FifoDepth = 3
INVARIANTS
  FiltersBeforeTraffic
PROPERTIES
  RequestServed
