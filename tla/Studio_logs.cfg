SPECIFICATION Spec
CONSTANTS
  left = left
  shown = shown
  Views <- MCViews
  Files = {1, 2}
  Cards <- MCCards
  SizeOf <- MCSizeOf
  MaxCopies = 2
  SpotChecks = 3
  ChecksFail = TRUE
  MaxEvents = 3
SYMMETRY MCSymmetry
INVARIANTS
  AdapterHeldOnce
  RecordsFollowFiles
  FreshCardAllNew
PROPERTIES
  NoClobber
  CancelHolds
