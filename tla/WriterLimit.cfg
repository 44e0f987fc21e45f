SPECIFICATION Spec
CONSTANTS
  DigitBits = 2
  Base = 4
  LengthBytes = 2
  BufferSize = 6
  PrefixBytes = 1
  Heads = {1}
  Arrays <- MCArrays
  Strings <- MCStrings
  Limits = {5, 15, 16}
  MaxBody = 6
INVARIANT LimitIsRespected
