SPECIFICATION Spec
CONSTANTS
  ByteValues = 4
  MaxSafe = 8191
  PositiveFix = 1
  NegativeFixes = 1
  FixString = 2
  FixCount = 2
  MsPerSec = 5
  NsPerMs = 10
  Bom = 3
  Values <- MCValues
  Depth <- MCDepth
  Args <- MCArgs
  Handled <- MCHandled
  MaxAdded = 2
INVARIANTS
  ValuesReadBack
  CutIsIncomplete
  TornIsNoValue
  SmallestInteger
