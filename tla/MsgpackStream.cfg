SPECIFICATION FairSpec
CONSTANTS
  Wires <- MCWires
  Deserialize <- MCDeserialize
INVARIANTS
  TypeOK
  ChunksInvisible
  KeptIsCutOff
  ErrorCostsOneChunk
PROPERTIES
  ImplementsInOrderDelivery
  EveryValueArrives
CHECK_DEADLOCK FALSE
