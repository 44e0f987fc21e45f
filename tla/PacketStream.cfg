SPECIFICATION FairSpec
CONSTANTS
  DigitBits = 1
  Base = 2
  LengthBytes = 3
  Wires <- MCWires
  BadHeads = {1}
  Sendings <- MCSendings
INVARIANTS
  TypeOK
  BytesAccountedFor
  OnlyIncompleteKept
  WrittenPacketsArrive
PROPERTIES
  ImplementsInOrderDelivery
  TransformReturns
CHECK_DEADLOCK FALSE
