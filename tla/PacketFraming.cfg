SPECIFICATION MCSpec
CONSTANTS
  DigitBits = 7
  Base = 128
  LengthBytes = 4
  Reach = 40
INVARIANT IntegerReadsBack
