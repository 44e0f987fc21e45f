SPECIFICATION Spec
CONSTANTS
  DigitBits = 7
  Base = 128
  LengthBytes = 4
  ByteValues = 256
  MaxSafe = 0
  Packets <- MCPackets
  Wires <- MCWires
  AllOptions = {"format", "text", "binary"}
INVARIANTS
  MeaningKept
  OwnWiresAccepted
  ReadCanBeWritten
  CutBodyAgrees
  FiltersJudged
CHECK_DEADLOCK FALSE
