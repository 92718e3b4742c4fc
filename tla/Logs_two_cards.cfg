SPECIFICATION Spec
CONSTANTS
  left = left
  shown = shown
  Views = {shown}
  Files = {1}
  Cards <- MCCards
  SizeOf <- MCSizeOf1
  MaxCopies = 2
  SpotChecks = 3
  ChecksFail = FALSE
  MaxEvents = 5
INVARIANTS
  NoFalseDownload
